SPECIFICATION ReadingSpec
CONSTANTS
    Scenes = {"load", "loads", "overlay", "search", "facets", "browse", "explorer", "timeline"}
    Hadiths = {h1, h2}
    Jobs = {j1, j2}
    text = text
    translation = translation
    whitespace = whitespace
    Matns <- MCMatns
    NoText = NoText
    EmptyText = EmptyText
    Missing = Missing
    Blanks = {whitespace}
    Scopes = {{h1, h2}}
    hashing = hashing
    wide = wide
    Embedders = {hashing, wide}
    DimOf <- MCDimOf
    Batch = 1
    fitna = fitna
    caliphate = caliphate
    Narrators = {n1, n2}
    Dated <- MCDated
    Curated <- MCCurated
    Chunk = 1
    None = None
    NoNode = NoNode
    AssumedLifespan = 2
    MaxLifetime = 3
    MaxScan = 2
    umar = umar
    prayer = prayer
    nothing = nothing
    Queries = {umar, prayer, nothing}
    Blank = nothing
    TooShort = {nothing}
    Suggested = {prayer}
    Found <- MCFound
    FacetLabels <- MCFacetLabels
    MaxSearchPage = 4
    ResultWindow = 4
    HalfSaturation = 2
    FulltextBatch = 2
    SemanticBatch = 1
    PerPage = 1
    MaxPages = 4
    PagerWidth = 3
    HintLimit = 2
    PerGroup = 1
    Away = Away
    Null = Null
    Empty = Empty
    Nowhere = Nowhere
    Loads <- MCLoads
    Calls = {k1, k2}
    FacetsTTL = 2
    MaxTime = 3
    PageSizes = {1, 2}
    Options <- MCOptions
    Persons = {1, 2, 3}
    Links <- MCLinks
    Generation <- MCGeneration
    Unknown = Unknown
    Sampled <- MCSampled
    Cap = 1
    NodeLimit = 2
    Hidden = Hidden
    Nobody = Nobody
    Histories <- MCHistories
    TypedYears = {0, 12, 50}
    DefaultRange <- MCDefaultRange
    EventLimit = 2
    LaneLimit = 1
    Gone = Gone
SYMMETRY ReadingSymmetry
INVARIANTS
    LoadInv
    OverlayInv
    DerivedDates
    SearchInv
    EveryMatchReachable
    BrowseInv
    FacetsInv
    ExplorerInv
    TimelineInv
PROPERTIES
    LoadIsComplete
    SeedsOnlyUntouched

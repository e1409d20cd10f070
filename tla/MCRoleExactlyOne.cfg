SPECIFICATION PanelSpec
CONSTANTS
    Scenes = {"roles"}
    reader = reader
    admin = admin
    Users = {op1}
    Operators = {op1, op2}
    Roles = {editor, reader, admin}
    Hierarchy <- MCHierarchy
    Admin = admin
    quota = quota
    retention = retention
    short = short
    long = long
    Keys = {quota, retention}
    Retention = retention
    Rank <- MCRank
    Values = {short, long}
    Width <- MCWidth
    Keep = Keep
    Keyless = Keyless
    Requests = {q1, q2}
    corpus = corpus
    other = other
    padded = padded
    Names = {corpus, other, padded}
    Corpora = {corpus, other}
    Strip <- MCStrip
    Panels = {panel1}
    PurgeRequests = {d1, d2}
    Nil = nil
    ApiCalls <- MCApiCalls
    PurgeBatch = 2
    Size <- MCSize
    MaxLoads = 1
    Moderators = {m1, m2}
    MaxFlags = 2
    FlagsPerPage = 1
    Targets = {full, raw}
    Full = full
    Posts = {p1, p2}
    Shut = shut
INVARIANTS
    ExactlyOneRole

SPECIFICATION EndingsSpec
CONSTANTS
    t1 = t1
    t2 = t2
    c1 = c1
    c2 = c2
    Tabs <- OneTab
    Calls <- MCCalls
    CallsIn <- OneTabCalls
    Loader = loader
    Nobody = nobody
    Runs = {r1, r2, r3}
    Schema = schema
    Absent = Absent
    corpus = corpus
    other = other
    padded = padded
    Names = {corpus, other, padded}
    Corpora = {corpus, other}
    Strip <- MCStrip
    Panels = {}
    PurgeRequests = {q1, q2}
    Nil = nil
    ApiCalls <- MCApiCalls
    PurgeBatch = 2
    Size <- MCSize
    MaxLoads = 1
    Entered = {"verify", "lost"}
    Followed = {"home", "admin", "profile", "pricing", "checkout"}
    RoleSets <- MCRoleSets
INVARIANTS
    IndexInv
    ShellInv
PROPERTIES
    ServesIndex
    SuccessMeansOwnIndex
    EveryRunEnds
    EveryWaitEnds
    PurgeEnds
    VerifiedGetsIn

SPECIFICATION ReaderSpec
CONSTANTS
    Scenes = {"session", "polls", "accounts", "writes"}
    t1 = t1
    t2 = t2
    c1 = c1
    c2 = c2
    Tabs <- TwoTabs
    Calls <- MCCalls
    CallsIn <- TwoTabsCalls
    Loader = loader
    Nobody = nobody
    theme = theme
    perPage = perPage
    Accounts = {a1, a2}
    Live = {theme}
    Kept = {perPage}
    Values <- MCValues
    Unset = Unset
    Unread = Unread
    MaxPuts = 2
INVARIANTS
    SessionInv
    ModalHasCause
    PrefInv
PROPERTIES
    SignOutHolds
    NeverClobbered
SYMMETRY CallSymmetry

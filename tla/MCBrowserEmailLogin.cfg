SPECIFICATION FairSpec
CONSTANTS
    t1 = t1
    t2 = t2
    c1 = c1
    c2 = c2
    Tabs <- OneTab
    Calls <- MCCalls
    CallsIn <- OneTabCalls
    Loader = loader
    Nobody = nobody
PROPERTIES
    EmailLoginSignsIn

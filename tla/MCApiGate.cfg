SPECIFICATION Spec
CONSTANTS
  c1 = c1
  c2 = c2
  w1 = w1
  w2 = w2
  k1 = k1
  k2 = k2
  Clients <- MCClients
  Workers <- MCWorkers
  Keys <- MCKeys
  Redis = redis
  Forger = forger
  NoToken = none
  Nobody = nobody
  Limit = 2
  Window = 3
  Slip = 1
  MaxFaults = 1
  MaxRequests = 4
  TTL = 2
  Patience = 1
  MaxTime = 4
SYMMETRY Symmetry
CHECK_DEADLOCK FALSE
INVARIANTS
  GateInv
  GrantsBounded
PROPERTIES
  RefusedOnlyWhenBusy
  RetiredKeyDies
  GenuineNeverRefused
  CacheCarriesOutage

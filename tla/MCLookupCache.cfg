CONSTANTS
  Callers = {c1, c2}
  Hosts = {h1}
  Addrs = {addr}
  TTL = 2
  ErrTTL = 1
  CacheMax = 1
  MaxRequests = 2
  MaxTime = 2
SPECIFICATION Spec
INVARIANTS TypeOK SingleFlight ServedCurrent
PROPERTY ImplementsService
SYMMETRY Symmetry
CHECK_DEADLOCK FALSE

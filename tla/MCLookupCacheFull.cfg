CONSTANTS
  Callers = {c1, c2}
  Hosts = {h1, h2}
  Addrs = {}
  TTL = 1
  ErrTTL = 0
  CacheMax = 1
  MaxRequests = 2
  MaxTime = 0
SPECIFICATION FairSpec
INVARIANT CacheBounded
PROPERTY LookupReturns
CHECK_DEADLOCK FALSE

SPECIFICATION FairSpec
CONSTANTS
  Callers = {c1, c2}
  Conns = {k1, k2}
  Capacity = 1
  MaxFaults = 1
  NoConn = NoConn
PROPERTIES
  AcquireTerminates
  DeadIdleEvicted
  TeardownClosesAll

SPECIFICATION FairSpec
CONSTANTS
  Callers = {c1, c2}
  Conns = {k1, k2}
  Capacity = 2
  MaxFaults = 0
  NoConn = NoConn
PROPERTY AcquireTerminates

SPECIFICATION Spec
CONSTANTS
  Callers = {c1, c2}
  Conns = {k1, k2, k3}
  Capacity = 2
  MaxFaults = 1
  NoConn = NoConn
SYMMETRY Symmetry
INVARIANTS
  PoolTypeOK
  PermitsConserved
  OneOwner
  ActiveExact
PROPERTY ImplementsLease

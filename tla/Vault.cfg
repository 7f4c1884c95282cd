SPECIFICATION Spec
CONSTANTS
  Passwords = {p1, p2}
  Hosts = {h1}
  SecretIds = {s1, s2}
  Slots = {t1, t2}
  IdleTicks = 2
  MaxFaults = 1
  Default = Default
  Blank = Blank
  None = None
CONSTRAINT FewFaults
INVARIANTS TypeOK Coherent NeverHalfConverted AuthResolves
PROPERTIES MigrationEnds AutoLocks

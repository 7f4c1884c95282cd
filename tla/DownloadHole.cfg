SPECIFICATION Spec
CONSTANTS
  Size = 5
  Chunk = 2
  WindowMin = 2
  WindowMax = 3
  Attempts = 2
  MaxStarts = 2
  MaxKills = 1
  MayShrink = FALSE
INVARIANT NeverSkipsHole

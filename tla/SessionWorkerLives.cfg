SPECIFICATION Spec
CONSTANTS
  CmdCap = 2
  MaxDisconnects = 1
  Typing = FALSE
INVARIANT WorkerLives

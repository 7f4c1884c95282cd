SPECIFICATION Spec
CONSTANTS
  IsDir = TRUE
  AcquireFails = FALSE
  MaxResumes = 1
  MaxLosses = 0
INVARIANTS
  CanceledIsClean

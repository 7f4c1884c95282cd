SPECIFICATION MCSpec
CONSTANTS
  Size = 5
  Chunk = 2
  WindowMin = 2
  WindowMax = 3
  Attempts = 2
  MaxStarts = 2
  MaxKills = 1
  MayShrink = TRUE
  PutCells = 2
  Writes = 2
  Tries = 2
  MaxUploads = 2
  MaxAborts = 1
  MaxResumes = 2
  MaxLosses = 1
  CmdCap = 2
  MaxDisconnects = 1
  Typing = TRUE
  MaxItems = 3
  EventCap = 1
  BatchCap = 2
  OutCap = 1
  MaxPaste = 5
  MaxWrites = 1
  PtyCap = 1
  ChannelCap = 1
INVARIANTS
  WorkersTypesOK
  PartIsPrefix
  PromotedIsWhole
  OneVerdict
  CanceledIsClean
  UploadKeepsContent
  OutputSound
PROPERTIES
  DownloadSteps
  TransfersEnd
  CancelWorks
  PauseConfirmed
  SessionSettles
  ShellsEnd
\* A machine whose user or bound is exhausted stops.
CHECK_DEADLOCK FALSE

SPECIFICATION MCSpec
CONSTANTS
  CmdCap = 3
  MaxDisconnects = 2
  Typing = TRUE
  MaxHistory = 1
  MaxLate = 1
  Texts = {"x", "y"}
  SessionCap = 2
  MaxRows = 2
  MaxCommands = 4
  TwoTabs = {"t1", "t2"}
  OneTab = {"t1"}
  Dirs = {"a", "b"}
  FewNames = {"x"}
  MoreNames = {"x", "y"}
  FewLists = 1
  MoreLists = 2
  MaxOps = 1
  SmallFiles = {"s"}
  LargeFiles = {"g"}
  SmallSize = 2
  LargeSize = 7
  Page = 2
  Limit = 3
  MaxReads = 2
  MaxSaves = 1
  WindowSizes = {"w1", "w2"}
  GridCap = 2
  MaxTabs = 4
  Heights = {2, 3}
  MaxChanges = 3
  Cols = 2
  PressRows = 1
  SelectRows = 2
  X10Limit = 2
  Notch = 3
  LocalNames = {1, 2}
  Slots = {1, 2}
  MaxTime = 2
  MaxChart = 1
INVARIANTS
  DeskTypesOK
  SessionSound
  GridSound
  InputSound
  DiskFollowsPanel
  PaneSound
  ViewerSound
PROPERTY DeskSteps

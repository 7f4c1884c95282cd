SPECIFICATION PanelSpec
CONSTANTS
  Tabs = {t1, t2}
  Dirs = {a, b}
  Names = {x}
  MaxLists = 1
  MaxOps = 1
PROPERTY DeletesSelected

SPECIFICATION Spec
CONSTANTS
  Cats = {1, 2, 3, 4}
  NoCat = NoCat
  Absent = Absent
  Editors = {e1}
  Prints = {p1, p2}
  MaxRows = 2
  Files <- MCFiles
  Imports = {w1, w2}
  MaxStored = 2
  MaxRemoved = 1
  Trades = {1, 2, 3}
  Instruments = {"asset", "currency"}
  Drafts <- MCDrafts
  Writers = {w1, w2}
  MaxBase = 1
  MaxAmount = 7
  MaxParts = 4
CHECK_DEADLOCK FALSE
SYMMETRY Symmetry
INVARIANTS
  RecordsTypeOK
  TwoLevels
  KindKept
  ActiveRootUsable
  AllocatesRoots
  NoLineTwice
  HistoryCovered
  HoldingsCovered
  SplitAddsUp
  SharesAddUp

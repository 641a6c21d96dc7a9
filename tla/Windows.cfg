SPECIFICATION Spec
CONSTANTS
  Names <- MCNames
  Chars = {"b", "c"}
  SearchWidth = 1
  Values = {0, 1}
  PCs = {1, 2}
  MaxHistory = 1
  MaxRows = 2
  MaxFrozenKeys = 2
  Sizes = {12, 20}
INVARIANTS FocusIsConsistent InputLineIsCurrent WindowsShowTheirState
PROPERTIES DeletesTheShown
CHECK_DEADLOCK FALSE

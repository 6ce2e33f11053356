SPECIFICATION Spec
CONSTANTS
  Vars = {a, b}
  MaxWatches = 3
  MaxDepth = 3
  RegCount = 4
  InsnLen <- MCInsnLen
  Marked = {3}
  Entry = {1, 3, 4, 7}
  Memory = {0, 1, 2}
  Hole = {2}
  Line = 4
  MaxRows = 2
  MaxBytes = 5
  MaxLines = 10
INVARIANTS WindowsRight
PROPERTIES StopIsFocused
CHECK_DEADLOCK FALSE

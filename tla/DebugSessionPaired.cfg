SPECIFICATION Spec
CONSTANTS
  Kinds <- LineKind
  Lines <- MCLines
  MaxRows = 1
  MaxNum = 3
  HwLimited = FALSE
  MaxDrift = 0
  MaxMistaken = 5
  OldGdb = FALSE
  Surprises = {}
  UseDualDisplay = TRUE
  Djgpp = FALSE
INVARIANTS
  OwnTempGone
  SessionPaired
  DescriptorsKept
  ResetComplete

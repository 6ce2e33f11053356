SPECIFICATION CarefulSpec
CONSTANTS
  Kinds <- LineKind
  Lines <- OneLine
  MaxRows = 4
  MaxNum = 5
  HwLimited = TRUE
  MaxDrift = 0
  MaxMistaken = 1
  OldGdb = FALSE
INVARIANTS
  HwRight

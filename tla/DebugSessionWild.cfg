SPECIFICATION FairSpec
CONSTANTS
  Kinds <- LineKind
  Lines <- OneLine
  MaxRows = 1
  MaxNum = 3
  HwLimited = FALSE
  MaxDrift = 0
  MaxMistaken = 1
  OldGdb = FALSE
  Surprises = {"traceback", "options"}
  UseDualDisplay = TRUE
  Djgpp = FALSE
PROPERTIES
  CommandReturns

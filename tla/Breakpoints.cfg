SPECIFICATION BpSpec
CONSTANTS
  Kinds <- BothKinds
  Lines <- MCLines
  MaxRows = 2
  MaxNum = 3
  HwLimited = FALSE
  MaxDrift = 0
  MaxMistaken = 1
  OldGdb = FALSE
INVARIANTS
  TypeOK
  NumbersExact
  NumbersDistinct
  NoOrphans
  StaleInvalidLineOwnsNothing

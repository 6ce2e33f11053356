SPECIFICATION Spec
CONSTANTS
  Kinds <- LineKind
  Lines <- OneLine
  MaxRows = 1
  MaxNum = 3
  HwLimited = FALSE
  MaxDrift = 0
  MaxMistaken = 5
  OldGdb = FALSE
  Surprises = {"nocode", "fails", "killed", "traceback"}
  UseDualDisplay = TRUE
  Djgpp = FALSE
INVARIANTS
  SessionTypes
  NumbersExact
  AliveIsLoaded
  RunsRedirected
  StartedIsAlive
  CommandDone

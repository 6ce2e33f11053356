CONSTANTS
  Dirs = {"a", "b", "c", "h", "r"}
  Names = {"p"}
  StdDir = "h"
  StdName = "rhide"
  Subs <- MCSubs
  EnvFile <- MCEnvFile
  Vars = {"x"}
  MaxEnv = 2
  ReadOnly = {"r"}
  MaxVer <- MCVer
  MaxDepth = 2
  MaxBack = 1
  StartDirs = {"h"}
  Chosen <- MCChosen
  Given <- MCGiven
  Worlds <- MCWorlds
  MaxOdd = 1
  NONE = NONE
  NOWHERE = NOWHERE
SPECIFICATION Spec
INVARIANTS FilesRight NothingLost ContextRight
PROPERTIES WalksProceed


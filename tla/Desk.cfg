CONSTANTS
  Files = {"f", "g"}
  Tools = {"msg", "project"}
  max_closed = 1
  MaxWindows = 2
  Desktops <- MCDesktops
  MaxMsgs = 2
  Places = {"f"}
  MaxOdd = 1
SPECIFICATION Spec
INVARIANTS ListsRight EnabledIsReady
PROPERTIES MessagesProceed

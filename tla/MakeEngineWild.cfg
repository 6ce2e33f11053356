SPECIFICATION Spec
CONSTANTS
  a = a
  b = b
  h = h
  ao = ao
  bo = bo
  Items = {a}
  Headers = {h}
  Object <- MCObject
  Includes <- MCIncludes
  Target = exe
  NoItem = none
  Surprises = {"hasty", "declined", "mute", "link", "clear", "forget"}
  MaxNow = 4
  MaxOpen = 2
INVARIANTS NothingForgotten
PROPERTY RebuildsOnlyStale

SPECIFICATION Spec
CONSTANTS
  a = a
  b = b
  h = h
  ao = ao
  bo = bo
  Items = {a, b}
  Headers = {h}
  Object <- MCObject
  Includes <- MCIncludes
  Target = exe
  NoItem = none
  Surprises = {}
  MaxNow = 4
  MaxOpen = 2
INVARIANTS TypeOK YesIsFresh MadeIsFresh StaleIsSeen CacheIsTrue

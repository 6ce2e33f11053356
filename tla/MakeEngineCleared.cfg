SPECIFICATION Spec
CONSTANTS
  a = a
  b = b
  h = h
  ao = ao
  bo = bo
  Items = {a}
  Headers = {h}
  Object <- MCObject
  Includes <- MCIncludes
  Target = exe
  NoItem = none
  Surprises = {"clear"}
  MaxNow = 4
  MaxOpen = 1
INVARIANT YesIsFresh

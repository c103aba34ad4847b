SPECIFICATION Spec
CONSTANTS
  a = a
  b = b
  n = n
  m = m
  NoId = NoId
  Ids <- MCIds
  Names <- MCNames
  Stories <- MCStories
INVARIANTS
  AcceptsWellDefined
CHECK_DEADLOCK FALSE

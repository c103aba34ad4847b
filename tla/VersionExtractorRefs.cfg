SPECIFICATION Spec
CONSTANTS
  path = path
  response = response
  media = media
  a = a
  b = b
  c = c
  inA = inA
  inB = inB
  NoRef = NoRef
  Objects <- MCObjects
  Documents <- MCDocuments
INVARIANT AllResolve
CHECK_DEADLOCK FALSE

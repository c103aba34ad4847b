SPECIFICATION MergedSpec
CONSTANTS
  path = path
  response = response
  media = media
  a = a
  b = b
  c = c
  inA = inA
  inB = inB
  object = object
  string = string
  NoRef = NoRef
  Objects <- MCObjects
  Documents <- MCDocuments
  Types <- MCTypes
  Inputs <- MCInputs
INVARIANTS
  ExtractsExactly
  ResolvesUnlessAlias
  ClosesExactly
  SurvivesExtraction
CHECK_DEADLOCK FALSE

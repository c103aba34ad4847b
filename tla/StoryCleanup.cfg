SPECIFICATION Spec
CONSTANTS
  a = a
  n = n
  NoId = NoId
  Ids <- MCIds
  Names <- MCNames
  Stories <- CleanedStories
INVARIANT CleanedUpAtEnd
CHECK_DEADLOCK FALSE

SPECIFICATION Spec
CONSTANTS
  a = a
  n = n
  x = x
  y = y
  get = get
  put = put
  NoId = NoId
  Ids <- MCIds
  Names <- MCNames
  Stories <- MCStories
  Paths <- MCPaths
  Methods <- MCMethods
  Folders <- MCFolders
  SpecOperations <- MCSpecOperations
  Ignorable <- MCIgnorable
  max_attempts = 2
INVARIANTS
  TypeOK
  ExitStatusTruthful
  NoRequestBeforeAvailable
  OutputsAreOwn
  CoverageTruthful
PROPERTY RunEnds
CHECK_DEADLOCK FALSE

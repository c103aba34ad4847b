SPECIFICATION Spec
CONSTANTS
  t = t
  u = u
  get = get
  put = put
  max_attempts <- MCAttempts
  Templates <- MCTemplates
  Methods <- MCMethods
  Documents <- MCDocuments
INVARIANTS
  TypeOK
  GivesUpInTime
  ReportOfThisCluster
  Partition
  DescribedApart
PROPERTY JobEnds
CHECK_DEADLOCK FALSE

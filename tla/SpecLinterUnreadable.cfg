SPECIFICATION Spec
CONSTANTS
  x = x
  y = y
  p = p
  q = q
  get = get
  put = put
  g = g
  h = h
  gp = gp
  gq = gq
  hp = hp
  c1 = c1
  c2 = c2
  c3 = c3
  g0 = g0
  f1 = f1
  f2 = f2
  a = a
  none = none
  NoParam = none
  Literals <- MCLiterals
  Params <- MCParams
  Methods <- MCMethods
  Groups <- MCGroups
  Namespace <- MCNamespace
  Group <- MCGroup
  PathParam <- MCPathParam
  Components <- MCComponents
  SchemaFiles <- MCSchemaFiles
  Names <- MCNames
  Folders <- UnreadableFolders
  Before <- MCBefore
  Normal <- MCNormal
INVARIANT EveryFileAlwaysReported
CHECK_DEADLOCK FALSE

SPECIFICATION Spec
CONSTANTS
  x = x
  y = y
  p = p
  q = q
  get = get
  put = put
  Literals <- MCLiterals
  Params <- MCParams
  Methods <- MCMethods
  Given <- MCGiven
INVARIANTS
  NothingInvented
  SupersedesExactly
  NoDuplicatePaths
CHECK_DEADLOCK FALSE

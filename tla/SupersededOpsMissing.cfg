SPECIFICATION Spec
CONSTANTS
  x = x
  y = y
  p = p
  q = q
  get = get
  put = put
  Literals <- MCLiterals
  Params <- MCParams
  Methods <- MCMethods
  Given <- OneMissing
INVARIANT MissingWarned
CHECK_DEADLOCK FALSE

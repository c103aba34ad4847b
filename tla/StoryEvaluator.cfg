SPECIFICATION Spec
CONSTANTS
  a = a
  n = n
  NoId = NoId
  Ids <- MCIds
  Names <- MCNames
  Stories <- MCStories
INVARIANTS
  TypeOK
  RetriesExhausted
  ReferencesCurrent
  GreenMeansChecked
  QuietWhenRefused
PROPERTIES
  NoRequestAfterError
  CleansUp
  Terminates
  ImplementsLifecycle
CHECK_DEADLOCK FALSE

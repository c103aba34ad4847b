SPECIFICATION Spec
CONSTANT Folders <- MCFolders
INVARIANTS
  TextKept
  MarkupCleared
CHECK_DEADLOCK FALSE

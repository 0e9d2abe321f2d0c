CONSTANTS
  DpiTypes <- Types
  Files <- VariableFiles
SPECIFICATION Spec
INVARIANT EventIndex
CHECK_DEADLOCK FALSE

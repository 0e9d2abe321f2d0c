SPECIFICATION Spec
CONSTANTS
  Flows = {0, 1, 2, 4}
  Base = 2
  Digits = 3
  Size = 4
  BurstOver = 2
  Home <- MCHome
  MaxTrace = 2
INVARIANTS TableSound IgnoredAlerted
PROPERTY ImplementsMemory

CONSTANTS
  a = a  b = b
  Attributes = {a, b}
  N = 2
  Hash <- TwoHashes
  Capacity = 2
  Burst = 2
  MaxMessages = 3
SPECIFICATION Spec
INVARIANTS MemorySafe EndInOrder
PROPERTY ImplementsDelivery
CHECK_DEADLOCK FALSE

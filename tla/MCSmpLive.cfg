CONSTANTS
  a = a  b = b
  Attributes = {a, b}
  N = 2
  Hash <- TwoHashes
  Capacity = 1
  Burst = 2
  MaxMessages = 2
SPECIFICATION FairSpec
PROPERTIES Verified StopEnds
CHECK_DEADLOCK FALSE

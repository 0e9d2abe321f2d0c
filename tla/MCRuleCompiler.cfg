CONSTANTS
  DpiTypes <- Types
  Files <- AllFiles
SPECIFICATION Spec
INVARIANTS ExpressionKept DelayMeant MeaningKept CodeFit SinglePacketMeant
CHECK_DEADLOCK FALSE

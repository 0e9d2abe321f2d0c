CONSTANTS
  Rule <- RuleNested
  Guard <- Correlated
  NoMessage = NoMessage
  RuleType = "attack"
  MaxInstances = 3
  Kinds <- KindsNested
  Carries <- HasOf
  Delays = {0, 1, 2}
  MaxMessages = 5
SPECIFICATION Spec
INVARIANTS WalkSafe NothingForgotten OneVerdict
CHECK_DEADLOCK FALSE

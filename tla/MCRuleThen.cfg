CONSTANTS
  Rule <- RuleThen
  Guard <- Correlated
  NoMessage = NoMessage
  RuleType = "test"
  MaxInstances = 4
  Kinds <- KindsThen
  Carries <- HasOf
  Delays = {0, 1, 2}
  MaxMessages = 4
SPECIFICATION HistorySpec
INVARIANTS ListsSound FamiliesApart VerdictTimes FailureTrue
CHECK_DEADLOCK FALSE

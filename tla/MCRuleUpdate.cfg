SPECIFICATION Spec
CONSTANTS
  Files = {1, 2}
  FileRules <- MCFileRules
  Outdated = {}
  Threads = {1, 2}
  Updaters = {1}
  RuleAtts <- MCRuleAtts
  MaxRules = 4
  MaxAtts = 4
  Companion <- MCCompanion
  Excluded <- MCExcluded
  Masks <- MCMasks
  Removals <- MCRemovals
  MaxUpdates = 3
  MaxAlerts = 1
INVARIANTS RulesSound EnginesBacked HashCurrent NeedsExtracted
PROPERTY AlertsKept
CHECK_DEADLOCK FALSE

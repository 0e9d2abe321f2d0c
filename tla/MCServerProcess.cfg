SPECIFICATION Spec
CONSTANTS
  Threads = {t1, t2}
  Main = main
  Periods = {0, 1}
  MaxTime = 2
  Starts <- MCStarts
  MaxReports = 1
INVARIANTS FilesKept RepliesMatch EndsWell
PROPERTY Ends
CHECK_DEADLOCK FALSE

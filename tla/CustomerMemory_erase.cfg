SPECIFICATION LiveSpec
CONSTANTS
  a = a
  b = b
  t1 = t1
  t2 = t2
  t3 = t3
  Thread = {a, b}
  Turn = {t1, t2, t3}
  ThreadOf <- TwoThreads
  Env = {"pause", "patch", "erase", "fail"}
INVARIANTS VersionCountsLogs ErasedStaysGone
PROPERTY TasksEnd
CHECK_DEADLOCK FALSE

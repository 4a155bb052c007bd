SPECIFICATION FairSpec
CONSTANTS
  m1 = m1
  m2 = m2
  m3 = m3
  Message <- TwoMessages
  None = None
  Runtimes = {"claude"}
  QuickReturn = TRUE
  MaxRestarts = 2
  MaxRefreshes = 2
  MaxLost = 1
PROPERTIES
  RunsSettle
CHECK_DEADLOCK FALSE

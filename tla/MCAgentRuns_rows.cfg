SPECIFICATION FairSpec
CONSTANTS
  m1 = m1
  j1 = j1
  Message <- MCMessage
  Job <- MCJob
  Batch = 1
  MaxFaults = 3
INVARIANT TypeOK
INVARIANT AckIsTrue
INVARIANT CompletedIsVisible
 
INVARIANT HistoryInTurns
PROPERTY BridgeOutcomeStands
PROPERTY RunsEnd
PROPERTY JobsRun
CHECK_DEADLOCK FALSE

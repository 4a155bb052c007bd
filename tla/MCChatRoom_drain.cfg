\* Rows and alarm are committed together; D1 recovers before dead letters.
SPECIFICATION FairSpec
CONSTANTS
  send = send
  retry = retry
  seed = seed
  hello = hello
  hi1 = hi1
  hi2 = hi2
  Poison = Poison
  Call <- MCCall
  Seeds <- MCSeeds
  Rows <- MCRows
  Keyed <- MCKeyed
  Welcome <- MCWelcome
  Legacy = 1
  MaxPendingBatch = 2
  MaxFlushAttempts = 2
  MaxCrashes = 1
  MaxFaults = 1
  MaxEdits = 1
  CoalescedWrites = TRUE
INVARIANTS
  AlarmCoversPending
PROPERTIES
  AnsweredReachesD1
CHECK_DEADLOCK FALSE

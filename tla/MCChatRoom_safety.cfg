\* Every crash point, also between the rows and their alarm; D1 may fail
\* often enough to make dead letters.
SPECIFICATION Spec
CONSTANTS
  send = send
  retry = retry
  seed = seed
  hello = hello
  hi1 = hi1
  hi2 = hi2
  Poison = Poison
  Call <- MCCall
  Seeds <- MCSeeds
  Rows <- MCRows
  Keyed <- MCKeyed
  Welcome <- MCWelcome
  Legacy = 1
  MaxPendingBatch = 2
  MaxFlushAttempts = 2
  MaxCrashes = 1
  MaxFaults = 3
  MaxEdits = 1
  CoalescedWrites = FALSE
INVARIANTS
  TypeOK
  DrainedInOrder
PROPERTIES
  ImplementsLog
  EditsSurviveReplay
CHECK_DEADLOCK FALSE

SPECIFICATION Spec
CONSTANTS
  m1 = m1
  m2 = m2
  m3 = m3
  Message <- ThreeMessages
  None = None
  Runtimes = {"claude", "hermes"}
  QuickReturn = FALSE
  MaxRestarts = 2
  MaxRefreshes = 2
  MaxLost = 1
SYMMETRY Symmetry
INVARIANTS
  TypeOK
  ClaudeTurnsAreSerial
  OutputOfOwnTurn
  NoOrphanChild
  RunsAreTended
CHECK_DEADLOCK FALSE

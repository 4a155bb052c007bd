SPECIFICATION LeaderSpec
CONSTANTS
  b1 = b1
  b2 = b2
  Bridge <- MCBridge
  Message = {m1}
  Troubled <- MCTroubled
  Pending = 1
  MaxEvents = 2
  MaxConns = 3
  MaxPasses = 2
  MaxBox = 1
INVARIANT LeaderTypeOK
INVARIANT ElectionIsExact
INVARIANT OnceUnlessInDoubt
CHECK_DEADLOCK FALSE

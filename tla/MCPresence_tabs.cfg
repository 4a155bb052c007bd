SPECIFICATION Spec
CONSTANTS
  alice = alice
  bob = bob
  a1 = a1
  a2 = a2
  b1 = b1
  User <- MCUser
  Tab <- MCTab
  Owner <- MCOwner
  MaxSends <- MCSends
  MaxFaults = 1
INVARIANT TypeOK
INVARIANT NoPhantomSocket
INVARIANT OnlineWithATab
INVARIANT OpenTabsHear
INVARIANT ViewsAreTrue
CHECK_DEADLOCK FALSE

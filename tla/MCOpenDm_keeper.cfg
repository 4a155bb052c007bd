\* Two tabs of each side, nobody deletes a channel.
SPECIFICATION Spec
CONSTANTS
  ann = ann
  bob = bob
  cyd = cyd
  Request <- MCRequest
  Caller <- MCCaller
  Peer <- MCPeer
  NameOf <- MCNameOf
  TakenNames = {}
  MaxClock = 1
  MaxRemovals = 0
INVARIANT
  KeeperStands
CHECK_DEADLOCK FALSE

\* Three tabs open one conversation and a third user opens another; any
\* request may die half-way, and a creator may delete a channel meanwhile.
SPECIFICATION Spec
CONSTANTS
  ann = ann
  bob = bob
  cyd = cyd
  Request <- MCRequest
  Caller <- MCCaller
  Peer <- MCPeer
  NameOf <- MCNameOf
  TakenNames = {}
  MaxClock = 1
  MaxRemovals = 1
INVARIANTS
  TypeOK
  OldestStands
  OneAtRest
CHECK_DEADLOCK FALSE

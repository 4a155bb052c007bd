SPECIFICATION FairSpec
CONSTANTS
  o1 = o1
  a1 = a1
  a2 = a2
  Person <- MCPerson
  Agent <- MCAgent
  Owner = o1
  First <- MCFirst
  MaxRequests = 2
  MaxMishaps = 1
INVARIANT TypeOK
INVARIANT LurkersAreNamed
INVARIANT BridgeKnowsItsAgents
PROPERTY EveryoneHears
CHECK_DEADLOCK FALSE

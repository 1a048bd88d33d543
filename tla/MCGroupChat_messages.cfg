SPECIFICATION Spec
CONSTANTS
  m1 = m1
  m2 = m2
  u1 = u1
  u2 = u2
  s1 = s1
  s2 = s2
  NoShow = NoShow
  Messages <- MCMessages
  Users <- MCUsers
  Shows <- MCShows
  Commands <- MCCommands
  ToolCalls <- MCToolCalls
  Queries <- MCQueries
  Hits <- MCHits
  Titled <- MCTitled
  OnAir <- MCOnAir
  Unsure <- MCUnsure
  Policies <- MCPolicies
  Nobody = Nobody
  TTL = 1
  MaxClock = 1
  MaxCalls = 1
  MaxChanges = 1
SYMMETRY Symmetry
CHECK_DEADLOCK FALSE
INVARIANTS
  ChatIsConsistent
  Grounded
PROPERTIES
  PicksFromOwnMenu
  

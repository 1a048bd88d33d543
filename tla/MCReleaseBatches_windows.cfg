CONSTANTS
  Items <- MCItems
  Label <- MCLabel
  Number <- MCNumber
  Unparsed = "none"
  Users <- MCUsers
  GroupOf <- MCGroupOf
  Wanted <- MCWanted
  Window = 1
  Fresh = 2
  Poll = 1
  MaxDelay = 3
  Unaired <- MCUnaired
  NoTag = NoTag
  NoTime = NoTime
  NoItem = NoItem
  PubOffsets <- OnTime
  MaxClock = 3
  MaxFaults = 1
  MaxChanges = 0
SPECIFICATION Spec
INVARIANTS
  WindowsDisjoint
  OneJobPerEpisode
PROPERTY EndServesAll

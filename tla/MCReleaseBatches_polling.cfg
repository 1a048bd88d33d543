CONSTANTS
  Items <- TwoItems
  Label <- TwoLabel
  Number <- MCNumber
  Unparsed = "none"
  Users <- MCUsers
  GroupOf <- MCGroupOf
  Wanted <- TwoWanted
  Window = 1
  Fresh = 2
  Poll = 1
  MaxDelay = 3
  Unaired <- MCUnaired
  NoTag = NoTag
  NoTime = NoTime
  NoItem = NoItem
  PubOffsets <- OnTimeOrAhead
  MaxClock = 2
  MaxFaults = 1
  MaxChanges = 1
SPECIFICATION FairSpec
INVARIANTS
  FeedIsConsistent
  BaselineIsSilent
  JobsAreNews
PROPERTIES
  FrontierAdvances
  BatchesEnd

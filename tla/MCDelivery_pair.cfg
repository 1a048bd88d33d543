CONSTANTS
  Jobs <- PairJobs
  Groups <- MCGroups
  GroupOf <- PairGroupOf
  Priority <- PairPriority
  Delay <- PairDelay
  Ttl <- PairTtl
  Content <- PairContent
  Weekly <- PairContent
  AtAll <- NoJobs
  LeaseTimeout = 0
  RetryBackoff = 1
  RowLimit = 2
  GovernorEnabled = TRUE
  NoTime = NoTime
  NoJob = NoJob
  MaxClock = 1
  MaxFaults = 0
  MaxAdmin = 0
SPECIFICATION FairSpec
INVARIANTS
  AtMostOneAfterClose
PROPERTIES
  NoStarvation

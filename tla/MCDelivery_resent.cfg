CONSTANTS
  Jobs <- OneJob
  Groups <- OneGroup
  GroupOf <- OneGroupOf
  Priority <- OnePriority
  Delay <- OneDelay
  Ttl <- OneTtl
  Content <- OneJob
  Weekly <- OneJob
  AtAll <- OneJob
  LeaseTimeout = 1
  RetryBackoff = 1
  RowLimit = 2
  GovernorEnabled = TRUE
  NoTime = NoTime
  NoJob = NoJob
  MaxClock = 3
  MaxFaults = 1
  MaxAdmin = 0
SPECIFICATION Spec
PROPERTY SentIsFinal

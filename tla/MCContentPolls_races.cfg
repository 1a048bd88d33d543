CONSTANTS
  Polls = {1, 2}
  Owners <- MCOwners
  Worker = "worker"
  Voters <- MCVoters
  Choices = {1}
  NoVote = 0
  Nobody = "nobody"
  NoPoll = 0
  Durations = {1}
  MaxClock = 1
  MaxFaults = 1
SPECIFICATION FairSpec
INVARIANTS
  PollsAreConsistent
PROPERTIES
  KeepsBallot
  EveryPollIsAnnounced

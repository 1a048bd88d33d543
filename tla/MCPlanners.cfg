CONSTANTS
  Releases <- MCReleases
  MinuteLen = 2
  Day = 12
  Anchor = 4
  Quiet = 2
  Cutoff = 8
  Grace = 1
  Scan = 2
  NoTime = NoTime
  MaxClock = 18
  r1 = r1
  r2 = r2
  u1 = u1
  u2 = u2
  \* The sources contradict each other whenever they differ, the worker comes by in
  \* every tick.
  Episodes <- MCEpisodes
  Users <- MCUsers
  Times <- MCTimes
  Horizon = 1
  Threshold = 0
  Period = 1
  RemindersEnd = 2
  MaxSyncs = 2
  MaxCommands = 2
  MaxFaults = 1
SPECIFICATION PlannersSpec
SYMMETRY Symmetry
CHECK_DEADLOCK FALSE
INVARIANTS
  DigestsAreConsistent
  QuietPeriodHasDigest
  RemindersAreConsistent
PROPERTIES
  NoReminderInConflict

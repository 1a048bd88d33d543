CONSTANTS
  Requests <- MCRequests
  Proactive <- MCProactive
  NoUser = "none"
  Interval <- MCInterval
  Count <- MCCount
  Span <- MCSpan
  Horizon = 5
  MaxClock = 4
  MaxRestarts = 1
  \* Three weeks: a report, the one that replaces it, and one that follows a mishap.
  MaxWeeks = 3
  MaxMessages = 4
  MaxFaults = 1
  MaxRefusals = 2
  w1 = w1
  w2 = w2
  Writers <- MCWriters
  Defaults <- MCDefaults
  Edits <- MCEdits
  Actions <- MCActions
  DefaultWords <- MCDefaultWords
  Wordings <- MCWordings
  NoTime = NoTime
  MaxVersion = 3
SPECIFICATION PluginSpec
SYMMETRY Symmetry
CHECK_DEADLOCK FALSE
INVARIANTS
  RatesKept
  RetryIsEnough
  EssenceIsConsistent
  SettingsAreConsistent
  TrailIsTrue
PROPERTIES
  HonourPassesOn
  NothingIsTakenBack

SPECIFICATION WorkerSpec
CONSTANTS
  Keys <- MCKeys
  Poison <- MCPoison
  NoKey = NoKey
  LeaseTimeout = 2
  \* An iteration may outlast a lease.
  MaxLag = 3
  MaxFaults = 1
  Shows <- MCShows
  Media <- MCMedia
  Titles <- MCTitles
  Soon <- MCSoon
  Routes <- MCRoutes
  None = None
  \* Two searches a run, so that a show can take them all.
  Budget = 2
  Bridge = TRUE
  Cooldown = 2
  EmptyCooldown = 3
  ErrorCooldown = 3
  Cli = TRUE
  Subjects <- MCSubjects
  NoShow = NoShow
  NoEntry = NoEntry
  EntryLimit = 1
  MediaLimit = 1
  \* A snapshot falls out of the window when the two other entries are fetched.
  Window = 2
  MaxJobs = 1
  CatalogFaults = 1
INVARIANTS
  JobsAreConsistent
  LinksAreConsistent
  CatalogIsConsistent
PROPERTIES
  EveryJobEnds
  LeftAloneAfterFailure
  EveryShowIsTried
  AdultIsHidden

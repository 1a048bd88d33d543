-------------------------------- MODULE Worker --------------------------------
(***************************************************************************)
(* Three duties of the worker that share no variable: its jobs, the search *)
(* for links, and its rounds over the catalogue.  `duty` is chosen at the  *)
(* start and the others rest, so that the reachable states are those of    *)
(* the three modules added up, not multiplied.                             *)
(***************************************************************************)
EXTENDS OperatorJobs

CONSTANTS
  Shows, Media,
  Titles, Soon, Routes, None, Budget, Bridge, Cooldown, EmptyCooldown, ErrorCooldown,
  Cli,                                     \* of LinkDiscovery
  Subjects, NoShow, NoEntry, EntryLimit, MediaLimit, Window, MaxJobs,
  CatalogFaults                            \* of CatalogSync

VARIABLES
  duty,
  al, asl, cool, cursor, due, l_pc, kind, rows, first, at, used, last,
  title, answered, l_asked, media, route, c_pc, c_show, c_media, raced, l_faults,
  known, owner, latest, age, shows, adult, stage, todo, step, subject, created,
  jobs, c_faults

L == INSTANCE LinkDiscovery WITH pc <- l_pc, asked <- l_asked, faults <- l_faults
C == INSTANCE CatalogSync WITH
       Limit <- EntryLimit, MaxFaults <- CatalogFaults, faults <- c_faults

ASSUME LinkConstants == L!DiscoveryConstants
ASSUME SyncConstants == C!CatalogConstants

catalog == <<known, owner, latest, age, shows, adult, stage, todo, step, subject, created,
             jobs, c_faults>>
links == <<al, asl, cool, cursor, due, l_pc, kind, rows, first, at, used, last, title,
           answered, l_asked, media, route, c_pc, c_show, c_media, raced, l_faults>>
all == <<duty, vars, links, catalog>>

Jobs == duty = "jobs" /\ UNCHANGED <<duty, links, catalog>>
Links == duty = "links" /\ UNCHANGED <<duty, vars, catalog>>
Catalog == duty = "catalog" /\ UNCHANGED <<duty, vars, links>>

WorkerInit == duty \in {"jobs", "links", "catalog"} /\ Init /\ L!Init /\ C!Init

WorkerNext ==
  \/ Jobs /\ Wake
  \/ Jobs /\ Claim
  \/ Jobs /\ Handle
  \/ Jobs /\ Return
  \/ Jobs /\ Finish
  \/ Jobs /\ Fault
  \/ Jobs /\ Tick
  \/ \E k \in Keys : Jobs /\ Enqueue(k)
  \/ Links /\ L!Round
  \/ Links /\ L!Start
  \/ Links /\ L!Row
  \/ Links /\ L!BridgeSearch
  \/ Links /\ L!BridgeSelect
  \/ Links /\ L!Search
  \/ Links /\ L!Find
  \/ Links /\ L!Add
  \/ Links /\ L!Confirmed
  \/ Links /\ L!Abort
  \/ Links /\ L!Crash
  \/ \E s \in Shows : Links /\ L!EnrichAnime(s)
  \/ \E s \in Shows, m \in Media : Links /\ L!CliFind(s, m)
  \/ Links /\ L!CliAdd
  \/ Catalog /\ C!Calendar
  \/ Catalog /\ C!Create
  \/ Catalog /\ C!Link
  \/ Catalog /\ C!Known
  \/ Catalog /\ C!Refresh
  \/ Catalog /\ C!Discover
  \/ Catalog /\ C!Project
  \/ Catalog /\ C!Round
  \/ Catalog /\ C!SkipRefresh
  \/ Catalog /\ C!Enrich
  \/ Catalog /\ C!Crash

(* Each duty under the fairness of its own FairSpec: the loop of the worker goes on and
   time passes (cli.py:1004). *)
WorkerSpec ==
  /\ WorkerInit /\ [][WorkerNext]_all
  /\ WF_all(Jobs /\ Work) /\ WF_all(Jobs /\ Tick)
  /\ WF_all(Links /\ L!Round) /\ WF_all(Links /\ (L!Work \/ L!Abort))
  /\ WF_all(Links /\ L!CliAdd)
  /\ WF_all(Catalog /\ C!Work)

(* A run never tries a show that cools down after a failure, not even when it failed
   earlier in the same run (anilist_mapping.py:660). *)
LeftAloneAfterFailure == L!LeftAloneAfterFailure

(* A show that can be searched for is linked or tried again and again
   (anilist_mapping.py:95). *)
EveryShowIsTried == duty = "links" => L!EveryShowIsTried

(* What one source calls adult is hidden before long, whatever the other source says, if
   its snapshot does not leave the window first (projection.py:43, cli.py:687). *)
AdultIsHidden == C!AdultIsHidden

(* However the attempts of a run end, it does not search more often than the owner
   allowed, and an entry belongs to one show unless the owner's command and the worker
   looked for its link at the same time (anilist_mapping.py:255, 498). *)
LinksAreConsistent == L!LinksAreConsistent

(* Only a crash between the two transactions of its first contact leaves a show that no
   source stands for (bangumi_sync.py:58). *)
CatalogIsConsistent == C!CatalogIsConsistent
=============================================================================

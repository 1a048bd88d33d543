----------------------------- MODULE CatalogSync -----------------------------
(***************************************************************************)
(* The worker's rounds over the catalogue: new subjects of the calendar,   *)
(* the entries it knows, and the projection of what the sources said onto  *)
(* the shows.  Between two rounds the owner's and the chat's jobs sync     *)
(* single subjects.                                                        *)
(*                                                                         *)
(* A snapshot is reduced to what decides whether a show may be shown: the  *)
(* source calls it adult or not.  `age` counts the snapshots that were     *)
(* appended since an entry's own: a projection reads the newest ones only. *)
(* Those of an entry that a crash left without a link count too, though    *)
(* the projection does not join them: an entry leaves the window no later  *)
(* than in the code.                                                       *)
(***************************************************************************)
EXTENDS Naturals, FiniteSets

CONSTANTS
  Subjects,   \* entries of Bangumi
  Media,      \* entries of AniList
  Shows,      \* ids of the rows of animes
  NoShow, NoEntry,
  Limit,      \* Bangumi entries of a round (100)
  MediaLimit, \* AniList entries of a round (10)
  Window,     \* snapshots a projection reads (200)
  MaxJobs,    \* bound: jobs between two rounds
  MaxFaults   \* bound: crashes between two transactions

Entries == Subjects \cup Media

CatalogConstants ==
  /\ Subjects \cap Media = {} /\ NoShow \notin Shows
  /\ NoEntry \notin Entries /\ Shows \subseteq Nat
  /\ {Limit, MediaLimit, Window} \subseteq Nat \ {0}
  /\ {MaxJobs, MaxFaults} \subseteq Nat

VARIABLES
  (* external_entries, anime_source_links, the newest snapshot of each *)
  known, owner, latest, age,
  (* animes: the rows there are, those with nsfw_flag = 'true' *)
  shows, adult,
  (* the worker: the stage of its round, what is left of the stage, its step in
     sync_subject, the subject and the new show *)
  stage, todo, step, subject, created,
  jobs, faults

rowVars  == <<known, owner, latest, age>>
showVars == <<shows, adult>>
workVars == <<stage, todo, step, subject, created>>
vars == <<rowVars, showVars, workVars, jobs, faults>>

Init ==
  /\ known = {}
  /\ owner = [e \in Entries |-> NoShow]
  /\ latest = [e \in Entries |-> "none"]
  /\ age = [e \in Entries |-> Window]
  /\ shows = {} /\ adult = {}
  /\ stage = "calendar" /\ todo = Subjects
  /\ step = "pick" /\ subject = NoEntry /\ created = NoShow
  /\ jobs = 0 /\ faults = 0

-----------------------------------------------------------------------------
(* sync_subject *)

\* append_snapshot: the newest of all.
Snapshot(e, payload) ==
  /\ latest' = [latest EXCEPT ![e] = payload]
  /\ age' = [f \in Entries |-> IF f = e THEN 0
                              ELSE IF age[f] < Window THEN age[f] + 1 ELSE Window]

Idle == step = "pick"

\* Mutant: the link of the entry is not looked for.
FetchAsNew(e) ==
  /\ known' = known \cup {e}
  /\ \E payload \in {"clean", "adult"} :
       /\ Snapshot(e, payload)
       /\ IF e \in Media \/ shows = Shows
            THEN step' = "pick" /\ UNCHANGED subject
            ELSE step' = "create" /\ subject' = e
  /\ UNCHANGED <<owner, showVars, created, faults>>

\* The source answers: an entry, its next snapshot, and the search for its link.
Fetch(e) ==
  /\ known' = known \cup {e}
  /\ \E payload \in {"clean", "adult"} :
       /\ Snapshot(e, payload)
       /\ IF e \in Media \/ owner[e] # NoShow
            THEN step' = "pick" /\ UNCHANGED subject
            ELSE step' = "create" /\ subject' = e
  /\ UNCHANGED <<owner, showVars, created, faults>>

\* First contact with a subject: the show is one transaction ...
Create ==
  /\ step = "create"
  /\ \E a \in Shows \ shows :
       /\ \A b \in Shows \ shows : a <= b
       /\ shows' = shows \cup {a} /\ created' = a
       /\ adult' = IF latest[subject] = "adult" THEN adult \cup {a} ELSE adult
  /\ step' = "link"
  /\ UNCHANGED <<rowVars, stage, todo, subject, jobs, faults>>

\* ... and its link another.
Link ==
  /\ step = "link"
  /\ owner' = [owner EXCEPT ![subject] = created]
  /\ step' = "pick" /\ subject' = NoEntry /\ created' = NoShow
  /\ UNCHANGED <<known, latest, age, showVars, stage, todo, jobs, faults>>

-----------------------------------------------------------------------------
(* A round *)

Enter(s, left) == stage' = s /\ todo' = left

\* A set of at most n of the entries: the query has no order.
Some(entries, n) ==
  {S \in SUBSET entries : Cardinality(S) = IF Cardinality(entries) < n
                                             THEN Cardinality(entries) ELSE n}

\* _discover_calendar_subjects: a subject that has no entry is fetched, or fails.
Calendar ==
  /\ stage = "calendar" /\ Idle
  /\ \E e \in todo :
       /\ todo' = todo \ {e}
       /\ \/ e \notin known /\ Fetch(e)
          \/ UNCHANGED <<rowVars, showVars, step, subject, created, faults>>
  /\ UNCHANGED <<stage, jobs>>

\* The calendar cannot be read, or the search for new media raises: the entries of
\* this source are not refreshed in this round.
SkipRefresh ==
  /\ Idle /\ faults < MaxFaults /\ faults' = faults + 1
  /\ \/ stage = "calendar" /\ todo = Subjects /\ Enter("bangumi", {})
     \/ stage = "bangumi" /\ todo = {} /\ Enter("anilist", {})
  /\ UNCHANGED <<rowVars, showVars, step, subject, created, jobs>>

\* _ingest_known_subjects, for Bangumi and then for AniList, reads its entries.
Known ==
  /\ Idle /\ todo = {}
  /\ \/ /\ stage = "calendar"
        /\ \E S \in Some(known \cap Subjects, Limit) :
             Enter("bangumi", S)
     \/ /\ stage = "bangumi"
        /\ \E S \in Some(known \cap Media, MediaLimit) :
             Enter("anilist", S)
  /\ UNCHANGED <<rowVars, showVars, step, subject, created, jobs, faults>>

\* An entry is refreshed, or its source fails; a 429 ends the stage.
Refresh ==
  /\ stage \in {"bangumi", "anilist"} /\ Idle
  /\ \E e \in todo :
       \/ Fetch(e) /\ todo' = todo \ {e}
       \/ /\ todo' \in {todo \ {e}, {}}
          /\ UNCHANGED <<rowVars, showVars, step, subject, created, faults>>
  /\ UNCHANGED <<stage, jobs>>

\* LinkDiscovery finds a media of a show.
Discover ==
  /\ stage = "bangumi" /\ Idle /\ todo = {}
  /\ \E m \in Media, a \in shows :
       /\ owner[m] = NoShow
       /\ \E s \in Subjects : owner[s] = a
       /\ \A n \in Media : owner[n] # a
       /\ known' = known \cup {m}
       /\ owner' = [owner EXCEPT ![m] = a]
       /\ \E payload \in {"clean", "adult"} : Snapshot(m, payload)
  /\ UNCHANGED <<showVars, workVars, jobs, faults>>

\* What a projection of show a reads.
Sources(a) == {e \in Entries : age[e] < Window /\ owner[e] = a}

\* Mutant: AniList is asked only if Bangumi has nothing in sight.
BlockedByFirst(a) ==
  \E e \in Sources(a) :
    latest[e] = "adult" /\ (e \in Subjects \/ Sources(a) \cap Subjects = {})

\* project_anime: a show is adult if one of its sources says so.
Blocked(a) == \E e \in Sources(a) : latest[e] = "adult"

\* _project_fresh_snapshots: the flag is set, never taken away.
Project ==
  /\ stage = "anilist" /\ Idle /\ todo = {}
  /\ adult' = adult \cup {a \in shows : Blocked(a)}
  /\ Enter("rest", {}) /\ jobs' = 0
  /\ UNCHANGED <<rowVars, shows, step, subject, created, faults>>

\* The next round is due.
Round ==
  /\ stage = "rest" /\ Idle
  /\ Enter("calendar", Subjects)
  /\ UNCHANGED <<rowVars, showVars, step, subject, created, jobs, faults>>

\* CatalogEnrichmentRunner syncs a subject that was searched for or subscribed to.
Enrich ==
  /\ stage = "rest" /\ Idle /\ jobs < MaxJobs
  /\ jobs' = jobs + 1
  /\ \E e \in Subjects : Fetch(e)
  /\ UNCHANGED <<stage, todo>>

\* The worker dies and starts with a round; a show may be left without its link.
Crash ==
  /\ faults < MaxFaults /\ faults' = faults + 1
  /\ Enter("calendar", Subjects)
  /\ step' = "pick" /\ subject' = NoEntry /\ created' = NoShow
  /\ UNCHANGED <<rowVars, showVars, jobs>>

-----------------------------------------------------------------------------

Work == Create \/ Link \/ Calendar \/ Known \/ Refresh \/ Project \/ Round

Next == Work \/ SkipRefresh \/ Discover \/ Enrich \/ Crash

Spec == Init /\ [][Next]_vars

\* The worker's loop goes on.
FairSpec == Spec /\ WF_vars(Work)

-----------------------------------------------------------------------------
(* Properties *)

\* Entries with their newest snapshots, shows with their flag, and the worker's place in
\* its round (bangumi_sync.py:58, cli.py:1005).
TypeOK ==
  /\ known \subseteq Entries
  /\ owner \in [Entries -> Shows \cup {NoShow}]
  /\ latest \in [Entries -> {"none", "clean", "adult"}]
  /\ age \in [Entries -> 0..Window]
  /\ shows \subseteq Shows /\ adult \subseteq shows
  /\ stage \in {"calendar", "bangumi", "anilist", "rest"}
  /\ todo \subseteq Entries
  /\ step \in {"pick", "create", "link"}
  /\ subject \in Subjects \cup {NoEntry} /\ created \in Shows \cup {NoShow}
  /\ jobs \in Nat /\ faults \in Nat

Unlinked == {a \in shows : \A e \in Entries : owner[e] # a}

\* A subject gets one show: only a crash between the two transactions of the first
\* contact leaves a show behind that no source stands for, one for each crash.
ShowsHaveSources == Cardinality(Unlinked \ {created}) <= faults

\* Entries, shows and the worker's place in its round fit together, and no show is without
\* a source but for a crash (bangumi_sync.py:58).
CatalogIsConsistent == TypeOK /\ ShowsHaveSources

\* A show that one source calls adult is hidden before long, whatever the other source
\* says: if that source does not take it back, and if fewer than Window snapshots come
\* after its own before a projection.  What has left the window is lost to the flag until
\* the entry is fetched again, and no round promises that (cli.py:711, 297).
AdultIsHidden ==
  \A e \in Entries :
    (owner[e] # NoShow /\ latest[e] = "adult" /\ age[e] < Window)
      ~> (latest[e] # "adult" \/ owner[e] \in adult \/ age[e] = Window)

=============================================================================

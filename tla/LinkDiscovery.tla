---------------------------- MODULE LinkDiscovery ----------------------------
(***************************************************************************)
(* The worker looks for the AniList media of the shows it knows from       *)
(* Bangumi: AniListLinkDiscoveryService with the AnimeSchedule bridge, its *)
(* call for one show out of an operator job, and the owner's command that  *)
(* links a show by hand from another process.                              *)
(*                                                                         *)
(* A show is its position in the order of the ids; `cool` counts the       *)
(* rounds of the catalogue's synchronisation until a show whose last       *)
(* attempt failed may be tried again.                                      *)
(***************************************************************************)
EXTENDS Naturals, FiniteSets, Sequences, Functions

CONSTANTS
  Shows,         \* with a confirmed Bangumi link, in the order of their ids
  Titles,        \* how many titles of a show are searched (0: no metadata)
  Soon,          \* the shows that are on air within the window, with their place among them
  Media, Routes, \* entries of AniList and of AnimeSchedule
  None,
  Budget,        \* searches of one run
  Bridge,        \* animeschedule_enabled
  Cooldown, EmptyCooldown, ErrorCooldown,  \* rounds until the next attempt
  Cli,           \* whether the owner runs map-anilist
  MaxFaults      \* bound: exceptions, 429s and crashes

DiscoveryConstants ==
  /\ Shows \subseteq Nat \ {0} /\ IsFiniteSet(Shows)
  /\ Titles \in [Shows -> 0..2]
  /\ DOMAIN Soon \subseteq Shows
  /\ \A s, t \in DOMAIN Soon : Soon[s] \in Nat /\ (Soon[s] = Soon[t] => s = t)
  /\ None \notin Media \cup Routes
  /\ Budget \in Nat \ {0} /\ Bridge \in BOOLEAN /\ Cli \in BOOLEAN
  /\ {Cooldown, EmptyCooldown, ErrorCooldown} \subseteq Nat \ {0}
  /\ MaxFaults \in Nat

VARIABLES
  (* anime_source_links of the two providers, assessments, next_cursor *)
  al, asl, cool, cursor,
  (* next_catalog_sync_at has passed *)
  due,
  (* the run: its step and kind, its rows, how many of them come first, the row
     it is at, the searches it made and the last row of the scan it finished *)
  pc, kind, rows, first, at, used, last,
  (* the attempt: titles searched at this source, whether one was answered, the
     cooldown the bridge asks for, the candidates *)
  title, answered, asked, media, route,
  (* map-anilist *)
  c_pc, c_show, c_media,
  (* media on which the worker and the command both found no link *)
  raced,
  faults

linkVars == <<al, asl>>
runVars  == <<kind, rows, first, at, used, last>>
tryVars  == <<title, answered, asked, media, route>>
cliVars  == <<c_pc, c_show, c_media>>
vars == <<linkVars, cool, cursor, due, pc, runVars, tryVars, cliVars, raced, faults>>

NoCooldown == 0   \* the bridge has not come to an outcome

Init ==
  /\ al = {} /\ asl = {}
  /\ cool = [s \in Shows |-> 0] /\ cursor = 0
  /\ due = TRUE
  /\ pc = "idle" /\ kind = "run" /\ rows = <<>> /\ first = 0 /\ at = 1
  /\ used = 0 /\ last = 0
  /\ title = 0 /\ answered = FALSE /\ asked = NoCooldown
  /\ media = None /\ route = None
  /\ c_pc = "idle" /\ c_show = 0 /\ c_media = None
  /\ raced = {}
  /\ faults = 0

-----------------------------------------------------------------------------
(* The rows of a run *)

Unmapped(s) == \A m \in Media : <<s, m>> \notin al
Ready(s) == Unmapped(s) /\ cool[s] = 0

\* ORDER BY ... LIMIT n: the first n of the shows, in the order of their places.
InOrder(S, n, place) ==
  {q \in [1 .. (IF Cardinality(S) < n THEN Cardinality(S) ELSE n) -> S] :
     /\ \A i, j \in DOMAIN q : i < j => place[q[i]] < place[q[j]]
     /\ \A i \in DOMAIN q, s \in S \ Range(q) : place[q[i]] < place[s]}

PriorityTargets == InOrder({s \in DOMAIN Soon : Ready(s)}, Budget, Soon)

ById == [s \in Shows |-> s]

\* Mutant: the scan does not leave out the rows that come first.
TargetsAgain(limit, excluded) ==
  InOrder({s \in Shows : s > cursor /\ Ready(s)}, limit, ById)

Targets(limit, excluded) ==
  InOrder({s \in Shows : s > cursor /\ Ready(s)} \ excluded, limit, ById)

Limit == IF kind = "run" THEN Budget ELSE 2
UsesBridge == Bridge /\ kind = "run"
Show == rows[at]

\* The attempt at the next row begins.
NextRow ==
  /\ title' = 0 /\ answered' = FALSE /\ asked' = NoCooldown
  /\ media' = None /\ route' = None

\* _mark_success, and the round is over.
EndRun(c) ==
  /\ pc' = "idle" /\ kind' = "run" /\ rows' = <<>> /\ first' = 0 /\ at' = 1
  /\ used' = 0 /\ last' = 0
  /\ cursor' = c
  /\ due' = (due /\ kind = "enrich")
  /\ NextRow

\* Mutant: the cursor is not put back at the end of the catalogue.
StartStaysAtEnd ==
  /\ pc = "idle" /\ due
  /\ \E p \in PriorityTargets : \E q \in Targets(Budget - Len(p), Range(p)) :
       /\ pc' = "row" /\ rows' = p \o q /\ first' = Len(p)
       /\ UNCHANGED <<cursor, due, kind, at, used, last, tryVars>>
  /\ UNCHANGED <<linkVars, cool, cliVars, raced, faults>>

\* A run reads its rows: the shows that are on air soon come first, the scan from
\* the cursor gets what is left.  If there are no rows at all the cursor goes back
\* to the start of the catalogue.
Start ==
  /\ pc = "idle" /\ due
  /\ \E p \in PriorityTargets : \E q \in Targets(Budget - Len(p), Range(p)) :
       IF p \o q = <<>> /\ cursor # 0
         THEN EndRun(0)
         ELSE /\ pc' = "row" /\ rows' = p \o q /\ first' = Len(p)
              /\ UNCHANGED <<cursor, due, kind, at, used, last, tryVars>>
  /\ UNCHANGED <<linkVars, cool, cliVars, raced, faults>>

\* An operator job for one show that was searched for or subscribed to, when the
\* loop has come past the rounds: it neither heeds the cooldown nor moves the cursor.
EnrichAnime(s) ==
  /\ pc = "idle" /\ ~due /\ Unmapped(s)
  /\ pc' = "row" /\ kind' = "enrich" /\ rows' = <<s>> /\ first' = 1
  /\ UNCHANGED <<linkVars, cool, cursor, due, at, used, last, tryVars, cliVars,
                 raced, faults>>

\* The attempt is over; after a failure the show is left alone until round n.
Assess(n) ==
  /\ cool' = [cool EXCEPT ![Show] = n]
  /\ pc' = "row" /\ at' = at + 1
  /\ last' = IF at > first THEN Show ELSE last
  /\ NextRow
  /\ UNCHANGED <<kind, rows, first, used, cursor, due>>

\* The next row of the run: what cannot be searched for fails at once.
Row ==
  /\ pc = "row"
  /\ IF at > Len(rows)
       THEN EndRun(IF last # 0 THEN last ELSE cursor) /\ UNCHANGED cool
       ELSE IF Titles[Show] = 0
         THEN Assess(Cooldown)
         ELSE /\ pc' = IF UsesBridge THEN "bridge" ELSE "search"
              /\ UNCHANGED <<cool, cursor, due, runVars, tryVars>>
  /\ UNCHANGED <<linkVars, cliVars, raced, faults>>

\* The searches are spent: this row and those after it are left for another run.
Defer ==
  /\ EndRun(IF last # 0 THEN last ELSE cursor)
  /\ UNCHANGED cool

-----------------------------------------------------------------------------
(* The bridge: AnimeSchedule *)

\* A search for a title; an error of the source only costs the search.
BridgeSearch ==
  /\ pc = "bridge" /\ title < Titles[Show]
  /\ IF used >= Limit
       THEN Defer
       ELSE /\ used' = used + 1 /\ title' = title + 1
            /\ \/ answered' = TRUE
               \/ UNCHANGED answered
            /\ UNCHANGED <<cool, cursor, due, pc, kind, rows, first, at, last,
                           asked, media, route>>
  /\ UNCHANGED <<linkVars, cliVars, raced, faults>>

\* The bridge has failed: the titles are searched at AniList.
FallBack(n) ==
  /\ pc' = "search" /\ asked' = n
  /\ title' = 0 /\ answered' = FALSE /\ media' = None /\ route' = None

\* select_unique_exact_candidate and validate_cross_id_candidate: no search was
\* answered, no unique candidate, one that is rejected, or route r with media m.
BridgeSelect ==
  /\ pc = "bridge" /\ title = Titles[Show]
  /\ \/ ~answered /\ FallBack(ErrorCooldown)
     \/ answered /\ FallBack(EmptyCooldown)
     \/ answered /\ FallBack(Cooldown)
     \/ /\ answered
        /\ \E r \in Routes, m \in Media :
             IF \E s \in Shows \ {Show} : <<s, r>> \in asl
               THEN FallBack(Cooldown)
               ELSE /\ pc' = "find" /\ route' = r /\ media' = m
                    /\ UNCHANGED <<title, answered, asked>>
  /\ UNCHANGED <<linkVars, cool, cursor, due, runVars, cliVars, raced, faults>>

-----------------------------------------------------------------------------
(* AniList *)

\* What is recorded of an attempt that did not find its media: the bridge's
\* outcome, if there was one.
Outcome(n) == IF asked # NoCooldown THEN asked ELSE n

\* A search for a title finds nothing that fits, several candidates, or media m.
Search ==
  /\ pc = "search"
  /\ IF title = Titles[Show]
       THEN Assess(Outcome(Cooldown))
       ELSE IF used >= Limit
         THEN IF asked # NoCooldown THEN Assess(asked) ELSE Defer
         ELSE /\ used' = used + 1
              /\ \/ /\ title' = title + 1
                    /\ UNCHANGED <<cool, cursor, due, pc, kind, rows, first, at,
                                   last, answered, asked, media, route>>
                 \/ /\ title' = Titles[Show]    \* ambiguous
                    /\ UNCHANGED <<cool, cursor, due, pc, kind, rows, first, at,
                                   last, answered, asked, media, route>>
                 \/ /\ \E m \in Media : media' = m
                    /\ pc' = "find"
                    /\ UNCHANGED <<cool, cursor, due, kind, rows, first, at, last,
                                   title, answered, asked, route>>
  /\ UNCHANGED <<linkVars, cliVars, raced, faults>>

\* A candidate that is not confirmed ends the attempt at its source.
NotConfirmed ==
  IF route # None
    THEN /\ FallBack(Cooldown)
         /\ UNCHANGED <<cool, cursor, due, runVars>>
    ELSE Assess(Outcome(Cooldown))

\* Mutant: _confirm does not look who has the entry.
FindNobody ==
  /\ pc = "find"
  /\ pc' = "add"
  /\ UNCHANGED <<cool, cursor, due, runVars, tryVars, linkVars, cliVars, raced, faults>>

\* _confirm fetches the media and looks for a link of its entry.
Find ==
  /\ pc = "find"
  /\ \/ NotConfirmed /\ UNCHANGED raced          \* the media does not exist
     \/ /\ \E s \in Shows : <<s, media>> \in al
        /\ NotConfirmed /\ UNCHANGED raced
     \/ /\ \A s \in Shows : <<s, media>> \notin al
        /\ pc' = "add"
        /\ raced' = IF c_pc = "add" /\ c_media = media THEN raced \cup {media}
                    ELSE raced
        /\ UNCHANGED <<cool, cursor, due, runVars, tryVars>>
  /\ UNCHANGED <<linkVars, cliVars, faults>>

\* The link is added; a link of the same show and entry that was added in between
\* is a unique violation, which ends the run like any exception.
Add ==
  /\ pc = "add" /\ <<Show, media>> \notin al
  /\ al' = al \cup {<<Show, media>>}
  /\ pc' = "airing"
  /\ UNCHANGED <<asl, cool, cursor, due, runVars, tryVars, cliVars, raced, faults>>

\* The schedule is fetched, the bridge's link is added, and the assessment removed.
Confirmed ==
  /\ pc = "airing"
  /\ asl' = IF route # None THEN asl \cup {<<Show, route>>} ELSE asl
  /\ Assess(0)
  /\ UNCHANGED <<al, cliVars, raced, faults>>

\* A search or a fetch raises, or AnimeSchedule answers 429: the run is over, and
\* nothing is written about it.
Abort ==
  /\ pc \notin {"idle", "row"}
  /\ \/ faults < MaxFaults /\ faults' = faults + 1
     \/ pc = "add" /\ <<Show, media>> \in al /\ UNCHANGED faults
  /\ EndRun(cursor)
  /\ UNCHANGED <<linkVars, cool, cliVars, raced>>

\* The worker dies: it starts with a round.
Crash ==
  /\ faults < MaxFaults /\ faults' = faults + 1
  /\ pc' = "idle" /\ kind' = "run" /\ rows' = <<>> /\ first' = 0 /\ at' = 1
  /\ used' = 0 /\ last' = 0
  /\ due' = TRUE
  /\ NextRow
  /\ UNCHANGED <<linkVars, cool, cursor, cliVars, raced>>

-----------------------------------------------------------------------------
(* map-anilist, a process of its own *)

\* The media is fetched and its link looked for.
CliFind(s, m) ==
  /\ Cli /\ c_pc = "idle"
  /\ \A t \in Shows : <<t, m>> \notin al
  /\ c_pc' = "add" /\ c_show' = s /\ c_media' = m
  /\ raced' = IF pc = "add" /\ media = m THEN raced \cup {m} ELSE raced
  /\ UNCHANGED <<linkVars, cool, cursor, due, pc, runVars, tryVars, faults>>

\* The link is added (or is there: a unique violation).
CliAdd ==
  /\ c_pc = "add"
  /\ al' = al \cup {<<c_show, c_media>>}
  /\ c_pc' = "idle" /\ c_show' = 0 /\ c_media' = None
  /\ UNCHANGED <<asl, cool, cursor, due, pc, runVars, tryVars, raced, faults>>

-----------------------------------------------------------------------------

\* bangumi_data_sync_seconds pass; a run is over long before, but the time of a
\* round may come while a job for one show is at work.
Round ==
  /\ pc = "idle" \/ kind = "enrich"
  /\ ~due
  /\ due' = TRUE
  /\ cool' = [s \in Shows |-> IF cool[s] > 0 THEN cool[s] - 1 ELSE 0]
  /\ UNCHANGED <<linkVars, cursor, pc, runVars, tryVars, cliVars, raced, faults>>

Work ==
  \/ Start \/ Row \/ BridgeSearch \/ BridgeSelect \/ Search \/ Find \/ Add
  \/ Confirmed

Next ==
  \/ Round
  \/ Work
  \/ Abort
  \/ Crash
  \/ \E s \in Shows : EnrichAnime(s) \/ \E m \in Media : CliFind(s, m)
  \/ CliAdd

Spec == Init /\ [][Next]_vars

\* Time passes and the worker's loop goes on.
FairSpec == Spec /\ WF_vars(Round) /\ WF_vars(Work \/ Abort) /\ WF_vars(CliAdd)

-----------------------------------------------------------------------------
(* Properties *)

Rounds == {0, Cooldown, EmptyCooldown, ErrorCooldown}

\* The links and assessments, the run with its rows and the attempt at one of them, and
\* the owner's command (anilist_mapping.py:95, cli.py:809).
TypeOK ==
  /\ al \subseteq Shows \X Media /\ asl \subseteq Shows \X Routes
  /\ cool \in [Shows -> Nat] /\ cursor \in Shows \cup {0}
  /\ due \in BOOLEAN
  /\ pc \in {"idle", "row", "bridge", "search", "find", "add", "airing"}
  /\ kind \in {"run", "enrich"}
  /\ rows \in Seq(Shows) /\ first \in 0..Len(rows) /\ at \in 1..(Len(rows) + 1)
  /\ used \in Nat /\ last \in Shows \cup {0}
  /\ title \in 0..2 /\ answered \in BOOLEAN /\ asked \in Rounds \cup {NoCooldown}
  /\ media \in Media \cup {None} /\ route \in Routes \cup {None}
  /\ c_pc \in {"idle", "add"} /\ c_show \in Shows \cup {0}
  /\ c_media \in Media \cup {None}
  /\ raced \subseteq Media /\ faults \in Nat

\* The two searches of a show at two sources share the run's budget: however the
\* attempts of a run end, it does not search more often than the owner allowed.
BudgetKept == used <= Limit

\* An entry of AniList or AnimeSchedule belongs to one show, whatever the order in
\* which shows claim it, unless the owner's command and the worker looked for its
\* link at the same time.
EntryHasOneShow ==
  \A s, t \in Shows :
    \/ \E m \in Media \ raced : <<s, m>> \in al /\ <<t, m>> \in al
    \/ \E r \in Routes : <<s, r>> \in asl /\ <<t, r>> \in asl
    => s = t

\* The links, and the run that looks for them, keep to their rules in every order of the
\* worker's attempts and the owner's commands (anilist_mapping.py:199).
LinksAreConsistent == TypeOK /\ BudgetKept /\ EntryHasOneShow

\* A run never tries a show that is left alone after a failure, not even when it
\* failed earlier in the same run.
LeftAloneAfterFailure ==
  [][kind = "run" /\ pc = "row" /\ pc' \in {"bridge", "search"} => cool[Show] = 0]_vars

Trying(s) == pc \notin {"idle", "row"} /\ Show = s

\* No show is forgotten: a show that can be searched for is mapped, or the worker
\* tries it again and again.
EveryShowIsTried ==
  \A s \in Shows : Titles[s] > 0 => []<>(~Unmapped(s) \/ Trying(s))

=============================================================================

--------------------------- MODULE AiringReminders ---------------------------
(***************************************************************************)
(* The reminder that an episode of a show begins: what two sources say of  *)
(* its time, the worker that plans a job for it, the users of a group who  *)
(* subscribe meanwhile from another process, and the dispatcher that takes *)
(* the job when it is due.                                                 *)
(***************************************************************************)
EXTENDS Naturals, FiniteSets

CONSTANTS
  Episodes, Users,
  Times,      \* at which an episode may be said to begin
  NoTime,
  Horizon,    \* how far ahead the worker looks (10 minutes)
  Threshold,  \* the sources contradict each other beyond it (6 hours)
  Period,     \* bound: ticks between two looks of the worker
  MaxClock,   \* bound
  MaxSyncs,   \* bound: times that the sources report
  MaxCommands, \* bound: commands of the users
  MaxFaults    \* bound: transactions that fail

AiringConstants ==
  /\ Episodes \subseteq Nat /\ IsFiniteSet(Episodes) /\ Times \subseteq Nat
  /\ {Horizon, Threshold, Period, MaxClock, MaxSyncs, MaxCommands,
      MaxFaults} \subseteq Nat
  /\ NoTime \notin Nat

VARIABLES
  clock,
  (* airing_occurrences: AniList has a row for each time it ever said, the row of
     AnimeSchedule is overwritten *)
  anilist, schedule, syncs,
  since,       \* follow_subscriptions: since when, or since the end of the command
  (* notification_jobs by business key, with at_user_ids *)
  status, at, audience,
  (* the planner: its step and time, the event it plans, the subscribers it read *)
  pc, now, event, readers,
  elapsed,     \* ticks since the planner's iteration began
  (* the users' commands: step and time *)
  u_pc, u_now,
  excused,     \* users who raced with the planner, whose command failed half-way, or
               \* who found two jobs ahead of them: the second does not get them
  commands, faults

srcVars  == <<anilist, schedule, syncs>>
jobVars  == <<status, at, audience>>
planVars == <<pc, now, event, readers, elapsed>>
userVars == <<since, u_pc, u_now, excused, commands>>
vars == <<clock, srcVars, jobVars, planVars, userVars, faults>>

NoEvent == [ep |-> 0, at |-> NoTime]

Init ==
  /\ clock = 0
  /\ anilist = [e \in Episodes |-> {}] /\ schedule = [e \in Episodes |-> NoTime]
  /\ syncs = 0
  /\ since = [u \in Users |-> NoTime]
  /\ status = [e \in Episodes |-> "none"] /\ at = [e \in Episodes |-> NoTime]
  /\ audience = [e \in Episodes |-> {}]
  /\ pc = "idle" /\ now = 0 /\ event = NoEvent /\ readers = {} /\ elapsed = 0
  /\ u_pc = [u \in Users |-> "idle"] /\ u_now = [u \in Users |-> 0]
  /\ excused = {}
  /\ commands = 0 /\ faults = 0

-----------------------------------------------------------------------------
(* The sources *)

\* upsert_airing_occurrences: the key of AniList's row holds the time, so another
\* time is another row; AnimeSchedule's key is the episode.  The worker does it
\* before it plans.
Sync ==
  /\ pc \in {"idle", "look"}
  /\ syncs < MaxSyncs /\ syncs' = syncs + 1
  /\ \E e \in Episodes, t \in Times :
       \/ anilist' = [anilist EXCEPT ![e] = @ \cup {t}] /\ UNCHANGED schedule
       \/ schedule' = [schedule EXCEPT ![e] = t] /\ UNCHANGED anilist
  /\ UNCHANGED <<clock, jobVars, planVars, userVars, faults>>

-----------------------------------------------------------------------------
(* The planner *)

Subscribed == {u \in Users : since[u] # NoTime}

Earliest(S) == {t \in S : \A s \in S : t <= s}
Apart(s, t) == s + Threshold < t \/ t + Threshold < s

\* Mutant: the sources are not compared.
ResolvedBlindly(e, last) ==
  IF schedule[e] # NoTime THEN {schedule[e]} ELSE Earliest(anilist[e])

\* resolve_airing: AnimeSchedule's time, else the earliest of AniList's; none if the
\* row of AniList that the query returns last contradicts AnimeSchedule.
Resolved(e, last) ==
  IF schedule[e] = NoTime THEN Earliest(anilist[e])
  ELSE {t \in {schedule[e]} : anilist[e] = {} \/ ~Apart(last[e], t)}

Due(t) == now <= t /\ t <= now + Horizon

\* What the planner may take for the show's next episode: one of whose rows one is
\* due, as is the time that they are resolved to.
NextEvents(last) ==
  LET events == {c \in [ep : Episodes, at : Times] :
                   /\ \E t \in (anilist[c.ep] \cup {schedule[c.ep]}) \cap Times : Due(t)
                   /\ c.at \in Resolved(c.ep, last) /\ Due(c.at)} IN
  {c \in events : \A d \in events : c.at <= d.at}

\* An iteration of the worker begins ...
Wake ==
  /\ pc = "idle"
  /\ pc' = "look" /\ now' = clock /\ elapsed' = 0
  /\ UNCHANGED <<clock, srcVars, jobVars, event, readers, userVars, faults>>

Rest == pc' = "idle" /\ now' = 0 /\ event' = NoEvent /\ readers' = {}

\* ... and comes to the show.
Look ==
  /\ pc = "look"
  /\ \E last \in [Episodes -> Times] :
       /\ \A e \in Episodes : anilist[e] # {} => last[e] \in anilist[e]
       /\ IF NextEvents(last) = {}
            THEN Rest
            ELSE /\ event' \in NextEvents(last) /\ pc' = "read"
                 /\ UNCHANGED <<now, readers>>
  /\ UNCHANGED <<clock, srcVars, jobVars, elapsed, userVars, faults>>

\* active_subscribers_for_anime.
Read ==
  /\ pc = "read"
  /\ IF Subscribed = {}
       THEN Rest
       ELSE pc' = "enqueue" /\ readers' = Subscribed /\ UNCHANGED <<now, event>>
  /\ UNCHANGED <<clock, srcVars, jobVars, elapsed, userVars, faults>>

\* The job of an episode is written once.
Enqueue ==
  /\ pc = "enqueue"
  /\ LET e == event.ep IN
       IF status[e] # "none"
         THEN UNCHANGED jobVars
         ELSE /\ status' = [status EXCEPT ![e] = "pending"]
              /\ at' = [at EXCEPT ![e] = event.at]
              /\ audience' = [audience EXCEPT ![e] = readers]
  /\ Rest
  /\ UNCHANGED <<clock, srcVars, elapsed, userVars, faults>>

\* A transaction fails or the worker dies.
PlanningFails ==
  /\ pc # "idle"
  /\ faults < MaxFaults /\ faults' = faults + 1
  /\ Rest
  /\ UNCHANGED <<clock, srcVars, jobVars, elapsed, userVars>>

\* The dispatcher leases a job that is due: its audience is what it will mention.
Take(e) ==
  /\ status[e] = "pending" /\ at[e] <= clock
  /\ status' = [status EXCEPT ![e] = "taken"]
  /\ UNCHANGED <<clock, srcVars, at, audience, planVars, userVars, faults>>

-----------------------------------------------------------------------------
(* The users *)

Command(u) ==
  u_pc[u] = "idle" /\ commands < MaxCommands /\ commands' = commands + 1

\* The user's row is removed; the jobs that were planned keep the user.
Remove(u) ==
  /\ since' = [since EXCEPT ![u] = NoTime]
  /\ excused' = excused \ {u}
  /\ UNCHANGED <<u_pc, u_now>>

\* subscribe: if the sources say that the show has ended, the command only ends the
\* subscription.
Ask(u) ==
  /\ Command(u)
  /\ \/ since[u] # NoTime /\ Remove(u)
     \/ /\ u_pc' = [u_pc EXCEPT ![u] = "follow"]
        /\ u_now' = [u_now EXCEPT ![u] = clock]
        /\ UNCHANGED <<since, excused>>
  /\ UNCHANGED <<clock, srcVars, jobVars, planVars, faults>>

\* FollowRepository.subscribe.
Follow(u) ==
  /\ u_pc[u] = "follow"
  /\ u_pc' = [u_pc EXCEPT ![u] = "audience"]
  /\ since' = IF since[u] = NoTime THEN [since EXCEPT ![u] = clock] ELSE since
  /\ excused' = IF pc = "enqueue" /\ u \notin readers THEN excused \cup {u} ELSE excused
  /\ UNCHANGED <<clock, srcVars, jobVars, planVars, u_now, commands, faults>>

\* The pending job that is due next, by the time of the command.
Ahead(u) == {e \in Episodes : status[e] = "pending" /\ at[e] > u_now[u]}
Open(u) == {e \in Ahead(u) : \A f \in Ahead(u) : at[e] <= at[f]}

\* Mutant: the audience is replaced, not extended.
AddAudienceAlone(u) ==
  /\ u_pc[u] = "audience"
  /\ u_pc' = [u_pc EXCEPT ![u] = "idle"] /\ u_now' = [u_now EXCEPT ![u] = 0]
  /\ \/ /\ \/ Open(u) = {} /\ UNCHANGED audience
           \/ \E e \in Open(u) : audience' = [audience EXCEPT ![e] = {u}]
        /\ excused' = IF Cardinality(Ahead(u)) > 1 THEN excused \cup {u} ELSE excused
        /\ UNCHANGED faults
     \/ /\ faults < MaxFaults /\ faults' = faults + 1
        /\ excused' = excused \cup {u}
        /\ UNCHANGED audience
  /\ since' = IF since[u] # NoTime /\ since[u] >= u_now[u]
                THEN [since EXCEPT ![u] = clock] ELSE since
  /\ UNCHANGED <<clock, srcVars, status, at, planVars, commands>>

\* add_airing_audience; its failure is only logged.
AddAudience(u) ==
  /\ u_pc[u] = "audience"
  /\ u_pc' = [u_pc EXCEPT ![u] = "idle"] /\ u_now' = [u_now EXCEPT ![u] = 0]
  /\ \/ /\ \/ Open(u) = {} /\ UNCHANGED audience
           \/ \E e \in Open(u) : audience' = [audience EXCEPT ![e] = @ \cup {u}]
        /\ excused' = IF Cardinality(Ahead(u)) > 1 THEN excused \cup {u} ELSE excused
        /\ UNCHANGED faults
     \/ /\ faults < MaxFaults /\ faults' = faults + 1
        /\ excused' = excused \cup {u}
        /\ UNCHANGED audience
  /\ since' = IF since[u] # NoTime /\ since[u] >= u_now[u]
                THEN [since EXCEPT ![u] = clock] ELSE since
  /\ UNCHANGED <<clock, srcVars, status, at, planVars, commands>>

Unsubscribe(u) ==
  /\ Command(u) /\ since[u] # NoTime /\ Remove(u)
  /\ UNCHANGED <<clock, srcVars, jobVars, planVars, faults>>

-----------------------------------------------------------------------------

\* An iteration begins at least every Period ticks.
Tick ==
  /\ clock < MaxClock /\ elapsed < Period
  /\ clock' = clock + 1 /\ elapsed' = elapsed + 1
  /\ UNCHANGED <<srcVars, jobVars, pc, now, event, readers, userVars, faults>>

Next ==
  \/ Sync
  \/ Wake \/ Look \/ Read \/ Enqueue \/ PlanningFails
  \/ \E e \in Episodes : Take(e)
  \/ \E u \in Users : Ask(u) \/ Follow(u) \/ AddAudience(u) \/ Unsubscribe(u)
  \/ Tick

Spec == Init /\ [][Next]_vars

-----------------------------------------------------------------------------

\* The rows of the sources, the jobs, and the places of the planner and of the commands;
\* a job that was planned has a time and somebody to mention (planner_v2.py:36).
TypeOK ==
  /\ clock \in 0..MaxClock /\ elapsed \in 0..Period
  /\ anilist \in [Episodes -> SUBSET Times]
  /\ schedule \in [Episodes -> Times \cup {NoTime}]
  /\ syncs \in 0..MaxSyncs
  /\ since \in [Users -> (0..MaxClock) \cup {NoTime}]
  /\ status \in [Episodes -> {"none", "pending", "taken"}]
  /\ at \in [Episodes -> Times \cup {NoTime}]
  /\ audience \in [Episodes -> SUBSET Users]
  /\ \A e \in Episodes : status[e] # "none" <=> at[e] # NoTime /\ audience[e] # {}
  /\ pc \in {"idle", "look", "read", "enqueue"} /\ now \in 0..MaxClock
  /\ event \in [ep : Episodes, at : Times] \cup {NoEvent}
  /\ readers \subseteq Users
  /\ u_pc \in [Users -> {"idle", "follow", "audience"}]
  /\ u_now \in [Users -> 0..MaxClock]
  /\ excused \subseteq Users
  /\ commands \in 0..MaxCommands /\ faults \in 0..MaxFaults

\* A user who subscribed before an episode began is mentioned in its reminder,
\* whether the worker had planned it by then or not.
SubscriberIsTold ==
  \A e \in Episodes, u \in Subscribed \ excused :
    (status[e] = "taken" /\ u_pc[u] = "idle" /\ since[u] < at[e]) => u \in audience[e]

\* The sources' rows, the jobs with their audiences and the commands at work fit
\* together (planner_v2.py:30, use_cases.py:706).
RemindersAreConsistent == TypeOK /\ SubscriberIsTold

\* No reminder while the two sources contradict each other, if AniList never changed
\* its mind about the episode.
NoReminderInConflict ==
  [][\A e \in Episodes :
       (status[e] = "none" /\ status'[e] = "pending" /\ Cardinality(anilist[e]) = 1
          /\ schedule[e] # NoTime /\ syncs' = syncs)
         => ~Apart(schedule[e], CHOOSE t \in anilist[e] : TRUE)]_vars

=============================================================================

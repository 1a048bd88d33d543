------------------------------- MODULE Planners -------------------------------
(***************************************************************************)
(* Two planners of the worker that share no variable: the daily digest and *)
(* the reminders of episodes.  `part` is chosen at the start and the other *)
(* one rests, so that the reachable states are those of the two modules    *)
(* added up, not multiplied.                                               *)
(***************************************************************************)
EXTENDS DailyDigest

CONSTANTS
  Episodes, Users, Times, Horizon, Threshold, Period,
  RemindersEnd, MaxSyncs, MaxCommands, MaxFaults   \* of AiringReminders

VARIABLES
  part,
  r_clock, anilist, schedule, syncs, since, status, at, audience, pc, now, event, readers,
  elapsed, u_pc, u_now, excused, commands, faults

A == INSTANCE AiringReminders WITH MaxClock <- RemindersEnd, clock <- r_clock

ASSUME AiringLimits == A!AiringConstants

reminders == <<r_clock, anilist, schedule, syncs, since, status, at, audience, pc, now,
               event, readers, elapsed, u_pc, u_now, excused, commands, faults>>
all == <<part, vars, reminders>>

Digest == part = "digest" /\ UNCHANGED <<part, reminders>>
Reminders == part = "reminders" /\ UNCHANGED <<part, vars>>

PlannersInit == part \in {"digest", "reminders"} /\ Init /\ A!Init

PlannersNext ==
  \/ Digest /\ Tick
  \/ \E r \in Releases : \E p \in 0 .. clock : Digest /\ Find(r, p)
  \/ Digest /\ Plan
  \/ Reminders /\ A!Sync
  \/ Reminders /\ A!Wake
  \/ Reminders /\ A!Look
  \/ Reminders /\ A!Read
  \/ Reminders /\ A!Enqueue
  \/ Reminders /\ A!PlanningFails
  \/ \E e \in Episodes : Reminders /\ A!Take(e)
  \/ \E u \in Users : Reminders /\ A!Ask(u)
  \/ \E u \in Users : Reminders /\ A!Follow(u)
  \/ \E u \in Users : Reminders /\ A!AddAudience(u)
  \/ \E u \in Users : Reminders /\ A!Unsubscribe(u)
  \/ Reminders /\ A!Tick

PlannersSpec == PlannersInit /\ [][PlannersNext]_all

-----------------------------------------------------------------------------
(* Who subscribed before an episode began is mentioned in its reminder, planned already
   or not, unless he raced with the planner (outbox.py:138, planner_v2.py:30). *)
RemindersAreConsistent == A!RemindersAreConsistent

(* No reminder while the two sources contradict each other (airing_resolver.py:35). *)
NoReminderInConflict == A!NoReminderInConflict
=============================================================================

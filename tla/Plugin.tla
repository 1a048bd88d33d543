-------------------------------- MODULE Plugin --------------------------------
(***************************************************************************)
(* Three parts of the plugin that share no variable: the governor that     *)
(* rations what is sent, the place of honour of the weekly report, and the *)
(* settings that owners change.  `part` is chosen at the start and the     *)
(* others rest, so that the reachable states are those of the three        *)
(* modules added up, not multiplied.                                       *)
(***************************************************************************)
EXTENDS SendGovernor

CONSTANTS
  MaxWeeks, MaxMessages, MaxFaults, MaxRefusals, \* of WeeklyEssence
  Writers, Defaults, Edits, Actions, DefaultWords, Wordings, NoTime,
  MaxVersion                                     \* of GroupPolicy

VARIABLES
  part,
  week, job, planning, rows, essence, sent, pc, msg, old, late, refusals, lost, faults,
  allowed, group, words, writer, trail, past

E == INSTANCE WeeklyEssence
P == INSTANCE GroupPolicy

ASSUME EssenceBounds == E!EssenceConstants
ASSUME PolicyLimits == P!PolicyConstants /\ P!EditsOK

honour == <<week, job, planning, rows, essence, sent, pc, msg, old, late, refusals, lost,
            faults>>
settings == <<allowed, group, words, writer, trail, past>>
all == <<part, vars, honour, settings>>

Governor == part = "governor" /\ UNCHANGED <<part, honour, settings>>
Weekly == part = "weekly" /\ UNCHANGED <<part, vars, settings>>
Editing == part = "settings" /\ UNCHANGED <<part, vars, honour>>

PluginInit ==
  /\ Init /\ E!Init /\ P!Init
  /\ part = "settings" \/ (part \in {"governor", "weekly"} /\ allowed)

PluginNext ==
  \/ Governor /\ Tick
  \/ Governor /\ Restart
  \/ \E r \in Requests : Governor /\ Acquire(r)
  \/ \E r \in Requests : Governor /\ Peek(r)
  \/ Weekly /\ E!Enqueue
  \/ Weekly /\ E!RecordPlanned
  \/ Weekly /\ E!PlannerDies
  \/ Weekly /\ E!Expire
  \/ Weekly /\ E!NextWeek
  \/ Weekly /\ E!Claim
  \/ Weekly /\ E!Accepted
  \/ Weekly /\ E!Failed
  \/ Weekly /\ E!CompleteJob
  \/ Weekly /\ E!Publish
  \/ Weekly /\ E!SetEssence
  \/ Weekly /\ E!MarkFailed
  \/ Weekly /\ E!MarkSet
  \/ Weekly /\ E!Previous
  \/ Weekly /\ E!DeleteEssence
  \/ Weekly /\ E!MarkRemoved
  \/ Weekly /\ E!Interrupted
  \/ \E w \in Writers : Editing /\ P!Open(w)
  \/ \E w \in Writers : Editing /\ P!Submit(w)
  \/ \E w \in Writers : Editing /\ P!Say(w)
  \/ \E w \in Writers : Editing /\ P!Read(w)
  \/ \E w \in Writers : Editing /\ P!Write(w)
  \/ \E w \in Writers : Editing /\ P!SubmitWords(w)
  \/ \E w \in Writers : Editing /\ P!WriteWords(w)
  \/ \E w \in Writers : Editing /\ P!Audit(w)
  \/ Editing /\ P!Reload

PluginSpec == PluginInit /\ [][PluginNext]_all

-----------------------------------------------------------------------------
(* The honour is taken from a report only when a later one has it (dispatcher.py:449). *)
HonourPassesOn == E!HonourPassesOn

(* The group has one essence of ours, which the rows tell, and at most one more for each
   mishap (dispatcher.py:439, planner.py:190). *)
EssenceIsConsistent == E!EssenceIsConsistent

(* The rows of the settings are the last of their versions, and what digests are planned
   by makes sense in each, whatever is edited at the same time (admin_service.py:885
   checks one read, settings.py:241 writes another). *)
SettingsAreConsistent == P!SettingsAreConsistent

(* An entry of the audit trail holds two consecutive versions, although three
   transactions lie between them (admin_service.py:913). *)
TrailIsTrue == P!TrailIsTrue

(* A write takes nothing back that somebody else saved meanwhile (settings.py:241,
   mention_policy.py:136). *)
NothingIsTakenBack == P!NothingIsTakenBack
=============================================================================

---------------------------- MODULE WeeklyEssence ----------------------------
(* The weekly report of one group and the place of honour it is given: the planner    *)
(* enqueues the report and then records its publication (planner.py:190), while the   *)
(* dispatcher may already be sending it, marks it as the group's essence and takes    *)
(* that honour from the report before it (dispatcher.py:439).  A report is sent at    *)
(* most a day after it was planned, so the weeks follow one another.                  *)
EXTENDS Integers, FiniteSets

CONSTANTS
  MaxWeeks,      \* bound: weeks that are looked at
  MaxMessages,   \* bound: messages the platform accepts
  MaxFaults,     \* bound: crashes and exceptions
  MaxRefusals    \* bound: essence calls that are refused, or whose answer is lost

EssenceConstants ==
  {MaxWeeks, MaxMessages, MaxFaults, MaxRefusals} \subseteq Nat \ {0}

Weeks == 1 .. MaxWeeks
Messages == 1 .. MaxMessages
NoMessage == 0
NoRow == 0

VARIABLES
  week,       \* the week it is
  job,        \* the status of the week's job in the outbox
  planning,   \* the planner is between its two transactions
  rows,       \* content_publications: one row per week, if any
  essence,    \* on the platform: our messages that are marked as essence
  sent,       \* on the platform: how many messages it has accepted
  pc,         \* where the dispatcher is
  msg,        \* the message whose identity it was told
  old,        \* the week whose report it found to be the essence before
  late,       \* history: how often a report's outcome came before its publication's record
  refusals,   \* history: essence calls the platform refused
  lost,       \* history: essence calls whose answer was lost
  faults      \* history: crashes and exceptions

vars == <<week, job, planning, rows, essence, sent, pc, msg, old, late, refusals, lost, faults>>
tickVars == <<pc, msg, old>>
platform == <<essence, sent>>
history == <<late, refusals, lost, faults>>

Absent == [known |-> FALSE, message |-> NoMessage, published |-> FALSE, essence |-> "none"]
Planned == [Absent EXCEPT !.known = TRUE]
Marked == {w \in Weeks : rows[w].essence = "set"}

Init ==
  /\ week = 1 /\ job = "none" /\ planning = FALSE
  /\ rows = [w \in Weeks |-> Absent]
  /\ essence = {} /\ sent = 0
  /\ pc = "idle" /\ msg = NoMessage /\ old = NoRow
  /\ late = 0 /\ refusals = 0 /\ lost = 0 /\ faults = 0

-----------------------------------------------------------------------------
(* The planner, again and again on the day of the report. *)

Enqueue ==
  /\ ~planning
  /\ planning' = TRUE
  /\ job' = IF job = "none" THEN "pending" ELSE job
  /\ UNCHANGED <<week, rows, platform, tickVars, history>>

RecordPlanned ==
  /\ planning
  /\ planning' = FALSE
  /\ rows' = IF rows[week].known THEN rows ELSE [rows EXCEPT ![week] = Planned]
  /\ UNCHANGED <<week, job, platform, tickVars, history>>

PlannerDies ==
  /\ planning /\ faults < MaxFaults
  /\ planning' = FALSE
  /\ faults' = faults + 1
  /\ UNCHANGED <<week, job, rows, platform, tickVars, late, refusals, lost>>

\* A day after it was planned the report is not claimed any more (its row stays pending).
Expire ==
  /\ job = "pending"
  /\ job' = "expired"
  /\ UNCHANGED <<week, planning, rows, platform, tickVars, history>>

NextWeek ==
  /\ week < MaxWeeks
  /\ ~planning /\ pc = "idle" /\ job \notin {"pending", "leased"}
  /\ week' = week + 1 /\ job' = "none"
  /\ UNCHANGED <<planning, rows, platform, tickVars, history>>

-----------------------------------------------------------------------------
(* The dispatcher. *)

Claim ==
  /\ pc = "idle" /\ job = "pending"
  /\ job' = "leased" /\ pc' = "send"
  /\ UNCHANGED <<week, planning, rows, platform, msg, old, history>>

\* The platform may accept a message and not tell its identity.
Accepted ==
  /\ pc = "send" /\ sent < MaxMessages
  /\ sent' = sent + 1
  /\ msg' \in {NoMessage, sent'}
  /\ pc' = "complete"
  /\ UNCHANGED <<week, job, planning, rows, essence, old, history>>

End == pc' = "idle" /\ msg' = NoMessage /\ old' = NoRow

\* A write finds its row by the identity of the job, so it changes nothing when the
\* publication is not recorded yet.
Write(row) == rows' = IF rows[week].known THEN [rows EXCEPT ![week] = row] ELSE rows
Late == late' = IF rows[week].known THEN late ELSE late + 1

\* Only a failure that is not worth a retry reaches the publication.
Failed ==
  /\ pc = "send" /\ End
  /\ \/ job' = "pending" /\ UNCHANGED <<rows, late>>
     \/ /\ job' = "failed" /\ Late
        /\ Write([rows[week] EXCEPT !.message = NoMessage, !.published = FALSE])
  /\ UNCHANGED <<week, planning, platform, refusals, lost, faults>>

CompleteJob ==
  /\ pc = "complete"
  /\ job' = "sent" /\ pc' = "publish"
  /\ UNCHANGED <<week, planning, rows, platform, msg, old, history>>

Publish ==
  /\ pc = "publish"
  /\ Write([rows[week] EXCEPT !.message = msg, !.published = TRUE]) /\ Late
  /\ pc' = "set"
  /\ UNCHANGED <<week, job, planning, platform, msg, old, refusals, lost, faults>>

\* A call of the platform works, is refused, or works and its answer is lost, which looks
\* like a refusal.
Works == UNCHANGED <<refusals, lost>>
Refused == refusals + lost < MaxRefusals /\ refusals' = refusals + 1 /\ UNCHANGED lost
Unanswered == refusals + lost < MaxRefusals /\ lost' = lost + 1 /\ UNCHANGED refusals

\* Mutant: a refusal is taken for an answer.
SetEssenceUnchecked ==
  /\ pc = "set"
  /\ \/ msg # NoMessage /\ Works /\ essence' = essence \union {msg} /\ pc' = "mark"
     \/ msg # NoMessage /\ Refused /\ UNCHANGED essence /\ pc' = "mark"
     \/ msg = NoMessage /\ Works /\ UNCHANGED essence /\ pc' = "fail"
  /\ UNCHANGED <<week, job, planning, rows, sent, msg, old, late, faults>>

SetEssence ==
  /\ pc = "set"
  /\ \/ msg # NoMessage /\ Works /\ essence' = essence \union {msg} /\ pc' = "mark"
     \/ msg # NoMessage /\ Unanswered /\ essence' = essence \union {msg} /\ pc' = "fail"
     \/ msg # NoMessage /\ Refused /\ UNCHANGED essence /\ pc' = "fail"
     \/ msg = NoMessage /\ Works /\ UNCHANGED essence /\ pc' = "fail"
  /\ UNCHANGED <<week, job, planning, rows, sent, msg, old, late, faults>>

MarkFailed ==
  /\ pc = "fail" /\ End
  /\ Write([rows[week] EXCEPT !.essence = "failed"])
  /\ UNCHANGED <<week, job, planning, platform, history>>

MarkSet ==
  /\ pc = "mark"
  /\ Write([rows[week] EXCEPT !.essence = "set"])
  /\ pc' = "previous"
  /\ UNCHANGED <<week, job, planning, platform, msg, old, history>>

\* The latest by published_at, descending: PostgreSQL puts those without one first.
Latest(candidates) ==
  {w \in candidates : rows[w].published =>
     \A v \in candidates : rows[v].published /\ v <= w}

\* The report before this one that is still recorded as essence.
Previous ==
  /\ pc = "previous"
  /\ LET found == Latest(Marked \ {week})
     IN  \/ /\ found = {} \/ \E w \in found : rows[w].message = NoMessage
            /\ End
         \/ /\ \E w \in found : rows[w].message # NoMessage /\ old' = w
            /\ pc' = "delete" /\ UNCHANGED msg
  /\ UNCHANGED <<week, job, planning, rows, platform, history>>

DeleteEssence ==
  /\ pc = "delete"
  /\ \/ Works /\ essence' = essence \ {rows[old].message} /\ pc' = "remove" /\ UNCHANGED <<msg, old>>
     \/ Unanswered /\ essence' = essence \ {rows[old].message} /\ End
     \/ Refused /\ UNCHANGED essence /\ End
  /\ UNCHANGED <<week, job, planning, rows, sent, late, faults>>

\* Mutant: the report that has the honour now is marked as removed.
MarkRemovedNew ==
  /\ pc = "remove" /\ End
  /\ rows' = [rows EXCEPT ![week].essence = "removed"]
  /\ UNCHANGED <<week, job, planning, platform, history>>

MarkRemoved ==
  /\ pc = "remove" /\ End
  /\ rows' = [rows EXCEPT ![old].essence = "removed"]
  /\ UNCHANGED <<week, job, planning, platform, history>>

\* Anywhere on its way the delivery raises, and the job is to be sent again, or the
\* process dies: then the lease runs out, and a job recorded as sent stays so.
Interrupted ==
  /\ pc # "idle" /\ faults < MaxFaults /\ End
  /\ faults' = faults + 1
  /\ job' = "pending" \/ (job = "sent" /\ UNCHANGED job)
  /\ UNCHANGED <<week, planning, rows, platform, late, refusals, lost>>

Next ==
  \/ Enqueue \/ RecordPlanned \/ PlannerDies \/ Expire \/ NextWeek
  \/ Claim \/ Accepted \/ Failed \/ CompleteJob \/ Publish
  \/ SetEssence \/ MarkFailed \/ MarkSet \/ Previous \/ DeleteEssence \/ MarkRemoved
  \/ Interrupted

Spec == Init /\ [][Next]_vars

-----------------------------------------------------------------------------
(* The types, and the shape of a delivery: the job is leased until its outcome is        *)
(* recorded, and a report is looked up only to be taken the honour from                  *)
(* (dispatcher.py:439, models/content_operations.py:20).                                 *)
TypeOK ==
  /\ week \in Weeks
  /\ job \in {"none", "pending", "leased", "sent", "failed", "expired"}
  /\ planning \in BOOLEAN
  /\ rows \in [Weeks -> [known : BOOLEAN, message : Messages \union {NoMessage},
                         published : BOOLEAN, essence : {"none", "set", "failed", "removed"}]]
  /\ essence \subseteq Messages /\ sent \in 0 .. MaxMessages
  /\ pc \in {"idle", "send", "complete", "publish", "set", "fail", "mark", "previous",
             "delete", "remove"}
  /\ msg \in Messages \union {NoMessage} /\ old \in Weeks \union {NoRow}
  /\ {late, refusals, lost, faults} \subseteq Nat
  /\ job = "leased" <=> pc \in {"send", "complete"}
  /\ old # NoRow <=> pc \in {"delete", "remove"}

(* The honour is taken from a report only when a later one has it: "只有新精华设置成功后，  *)
(* 才取消上一份由本系统设置的周报精华" (2026-08-11-anime-content-operations-design.md,      *)
(* section 5.1; dispatcher.py:449).                                                      *)
HonourPassesOn ==
  [][\A m \in essence \ essence' : msg \in essence /\ m < msg]_vars

\* A row that is recorded as essence and has no message: a resend that failed or a record
\* that came between two of the dispatcher's writes leaves it, and it hides every other.
Hiding == {w \in Marked : rows[w].message = NoMessage}

(* Between deliveries the group has one essence of ours and at most one more for each    *)
(* mishap: a refused or unanswered call, a fault, a report sent before its publication   *)
(* was recorded (planner.py:190).  Once a row hides the others nothing bounds them.      *)
OneEssence ==
  pc = "idle" /\ Hiding = {} => Cardinality(essence) <= 1 + refusals + lost + faults + late

(* Unless an answer was lost, a fault occurred or a report was sent before its           *)
(* publication was recorded, the rows tell between deliveries what the platform shows,   *)
(* so that whatever could not be removed is still known (publications.py:71).            *)
EssenceIsKnown ==
  pc = "idle" /\ lost + faults + late = 0 => essence = {rows[w].message : w \in Marked}

(* The rows, the place of the delivery and the platform fit together (dispatcher.py:439).  *)
EssenceIsConsistent == TypeOK /\ OneEssence /\ EssenceIsKnown
=============================================================================

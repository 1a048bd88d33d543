------------------------------ MODULE Delivery ------------------------------
(***************************************************************************)
(* The notification outbox and the consumer that empties it.               *)
(*                                                                         *)
(* The table notification_jobs is shared by the worker, which enqueues     *)
(* jobs; by the AstrBot plugin's OutboxDispatcher, which leases a job,     *)
(* sends it and records the outcome; and by the owner's console, which     *)
(* cancels and retries jobs and pauses or resumes all delivery.  Every     *)
(* database transaction is one action; the dispatcher's program counter    *)
(* stands between two transactions of one _tick.                           *)
(***************************************************************************)
EXTENDS Naturals, FiniteSets

CONSTANTS
  Jobs,             \* job ids, numbered in the order of created_at
  Groups,           \* chat groups
  GroupOf,          \* [Jobs -> Groups]: NotificationJob.chat_group_id
  Priority,         \* [Jobs -> Nat]: _priority_order of the job's type
  Delay,            \* [Jobs -> Nat]: available_at minus the time of enqueue
  Ttl,              \* [Jobs -> Nat]: expires_at minus available_at
  Content,          \* jobs that have a row in content_publications
  Weekly,           \* the weekly reports among them
  AtAll,            \* the daily digests that mention everyone
  LeaseTimeout,     \* release_expired_leases: lease_timeout (10 minutes)
  RetryBackoff,     \* complete_job: backoff of a retry (30 seconds)
  RowLimit,         \* _reserve_next_capacity: LIMIT of the preflight query
  GovernorEnabled,  \* the plugin's setting send_governor_enabled
  NoTime, NoJob,    \* SQL NULL
  MaxClock,         \* bound: the clock
  MaxFaults,        \* bound: crashes and database errors of the dispatcher
  MaxAdmin          \* bound: notifications the owner cancels or retries

ASSUME JobsAreNumbered == Jobs \subseteq Nat
ASSUME JobAttributes ==
  /\ GroupOf \in [Jobs -> Groups]
  /\ Priority \in [Jobs -> Nat]
  /\ Delay \in [Jobs -> Nat]
  /\ Ttl \in [Jobs -> Nat]
  /\ Content \subseteq Jobs
  /\ Weekly \subseteq Content
  /\ AtAll \subseteq Content
ASSUME Settings ==
  /\ LeaseTimeout \in Nat
  /\ RetryBackoff \in Nat
  /\ RowLimit \in Nat
  /\ GovernorEnabled \in BOOLEAN
ASSUME Bounds == MaxClock \in Nat /\ MaxFaults \in Nat /\ MaxAdmin \in Nat
ASSUME Nulls == NoTime \notin Nat /\ NoJob \notin Jobs
ASSUME GlobalIsNoGroup == "global" \notin Groups

VARIABLES
  clock,
  (* notification_jobs *)
  status, available_at, expires_at, leased_at, attempt_count,
  (* delivery_attempts, content_publications, delivery_controls, chat_groups *)
  attempts, publication, paused, circuit_open, policy_ok, umo,
  (* the dispatcher's tick *)
  pc, now, stale, cur, outcome,
  (* the owner's open transaction *)
  adm_job, adm_action,
  (* bounds and history *)
  faults, admins, wire, excused, late

jobVars  == <<status, available_at, expires_at, leased_at, attempt_count>>
ctlVars  == <<paused, circuit_open, policy_ok, umo>>
tickVars == <<pc, now, stale, cur, outcome>>
admVars  == <<adm_job, adm_action>>
histVars == <<wire, excused, late>>
vars == <<clock, jobVars, attempts, publication, ctlVars, tickVars, admVars,
          faults, admins, histVars>>

-----------------------------------------------------------------------------
(* Values *)

Scopes   == Groups \cup {"global"}
Time     == Nat
Statuses == {"none", "pending", "leased", "sent", "failed", "unknown", "cancelled"}
Results  == {"sent", "failed", "unknown", "retry"}
Outcomes == {"none", "sent", "temporary", "rate_limited", "permanent", "unknown",
             "account_offline", "no_umo", "no_quota"}
Pcs      == {"idle", "release", "release_write", "reserve", "claim", "load", "send",
             "circuit", "complete", "publish", "essence", "raised"}

\* Mutant: an unrecognised failure is retried.
RetriesUnknown(o) ==
  CASE o = "sent"                                               -> "sent"
    [] o \in {"temporary", "rate_limited", "no_umo", "unknown"} -> "retry"
    [] OTHER                                                    -> "failed"

\* The result complete_job is given for each way a delivery can end:
\* DeliveryOutcome.retryable and the branches of _deliver.
ResultOf(o) ==
  CASE o = "sent"                                     -> "sent"
    [] o \in {"temporary", "rate_limited", "no_umo"}  -> "retry"
    [] o = "unknown"                                  -> "unknown"
    [] OTHER                                          -> "failed"

\* DeliveryControlView.allows_delivery, and permits_group: the global row and
\* the group's row both allow delivery (a missing row allows it).
AllowsDelivery(s) == ~paused[s] /\ ~circuit_open[s]
PermitsGroup(g)   == AllowsDelivery("global") /\ AllowsDelivery(g)

\* Mutant: expiry is not asked for.
ClaimableWhenExpired(j, t) == status[j] = "pending" /\ available_at[j] <= t

\* The condition of the preflight query and of claim_pending_job at time t.
Claimable(j, t) ==
  /\ status[j] = "pending"
  /\ available_at[j] <= t
  /\ expires_at[j] > t

\* ORDER BY _priority_order(), available_at, created_at
Before(j, k) ==
  \/ Priority[j] < Priority[k]
  \/ Priority[j] = Priority[k] /\ available_at[j] < available_at[k]
  \/ Priority[j] = Priority[k] /\ available_at[j] = available_at[k] /\ j < k

\* The rows of the preflight query: the first n claimable jobs in that order.
FirstRows(t, n) ==
  LET C == {j \in Jobs : Claimable(j, t)}
  IN  {j \in C : Cardinality({k \in C : Before(k, j)}) < n}

Init ==
  /\ clock = 0
  /\ status = [j \in Jobs |-> "none"]
  /\ available_at = [j \in Jobs |-> 0]
  /\ expires_at = [j \in Jobs |-> 0]
  /\ leased_at = [j \in Jobs |-> NoTime]
  /\ attempt_count = [j \in Jobs |-> 0]
  /\ attempts = [j \in Jobs |-> {}]
  /\ publication = [j \in Jobs |-> "none"]
  /\ paused = [s \in Scopes |-> FALSE]
  /\ circuit_open = [s \in Scopes |-> FALSE]
  /\ policy_ok = [g \in Groups |-> TRUE]
  /\ umo \in [Groups -> BOOLEAN]
  /\ pc = "idle" /\ now = 0 /\ stale = {} /\ cur = NoJob /\ outcome = "none"
  /\ adm_job = NoJob /\ adm_action = "none"
  /\ faults = 0 /\ admins = 0
  /\ wire = [j \in Jobs |-> 0]
  /\ excused = [j \in Jobs |-> 0]
  /\ late = [g \in Groups |-> 0]

-----------------------------------------------------------------------------
(* Time and the worker *)

Tick ==
  /\ clock < MaxClock
  /\ clock' = clock + 1
  /\ UNCHANGED <<jobVars, attempts, publication, ctlVars, tickVars, admVars,
                 faults, admins, histVars>>

\* OutboxRepository.enqueue.  The unique key (group, type, business key) makes
\* a second enqueue of the same job do nothing.
Enqueue(j) ==
  /\ status[j] = "none"
  /\ \A k \in Jobs : k < j => status[k] # "none"
  /\ status' = [status EXCEPT ![j] = "pending"]
  /\ available_at' = [available_at EXCEPT ![j] = clock + Delay[j]]
  /\ expires_at' = [expires_at EXCEPT ![j] = clock + Delay[j] + Ttl[j]]
  /\ UNCHANGED <<clock, leased_at, attempt_count, attempts, publication, ctlVars,
                 tickVars, admVars, faults, admins, histVars>>

\* ContentPublicationRepository.record_planned: a transaction of its own that
\* follows the enqueue of a content job; it inserts unless the row exists.
RecordPlanned(j) ==
  /\ j \in Content
  /\ status[j] # "none"
  /\ publication[j] = "none"
  /\ publication' = [publication EXCEPT ![j] = "planned"]
  /\ UNCHANGED <<clock, jobVars, attempts, ctlVars, tickVars, admVars, faults,
                 admins, histVars>>

-----------------------------------------------------------------------------
(* OutboxDispatcher._tick: one delivery at most, in a fixed order *)

\* The tick returns: its local variables are gone.
EndTick ==
  /\ pc' = "idle" /\ now' = 0 /\ stale' = {} /\ cur' = NoJob /\ outcome' = "none"

TickStart ==
  /\ pc = "idle"
  /\ pc' = "release"
  /\ now' = clock
  /\ UNCHANGED <<clock, jobVars, attempts, publication, ctlVars, stale, cur,
                 outcome, admVars, faults, admins, histVars>>

\* release_expired_leases selects without locking the rows ...
ReleaseRead ==
  /\ pc = "release"
  /\ pc' = "release_write"
  /\ stale' = {j \in Jobs : /\ status[j] = "leased"
                            /\ leased_at[j] # NoTime
                            /\ leased_at[j] + LeaseTimeout < now}
  /\ UNCHANGED <<clock, jobVars, attempts, publication, ctlVars, now, cur,
                 outcome, admVars, faults, admins, histVars>>

\* ... and writes the rows it selected, whatever they have become.
ReleaseWrite ==
  /\ pc = "release_write"
  /\ pc' = "reserve"
  /\ status' = [j \in Jobs |-> IF j \in stale THEN "pending" ELSE status[j]]
  /\ leased_at' = [j \in Jobs |-> IF j \in stale THEN NoTime ELSE leased_at[j]]
  /\ stale' = {}
  /\ UNCHANGED <<clock, available_at, expires_at, attempt_count, attempts,
                 publication, ctlVars, now, cur, outcome, admVars, faults, admins,
                 histVars>>

\* Mutants: the controls are not consulted; a blocked first row ends the search.
ReservableWithoutControls ==
  {j \in FirstRows(now, RowLimit) : policy_ok[GroupOf[j]]}
ReservableUpToBlocked ==
  {j \in FirstRows(now, 1) : PermitsGroup(GroupOf[j]) /\ policy_ok[GroupOf[j]]}

\* The jobs _reserve_next_capacity may choose.  Without the governor it takes
\* the first row and looks at neither the controls nor the group's policy.
\* With it, it takes the first row whose group may be written to and that the
\* governor admits; a row the governor refuses is skipped, so any such row.
Reservable ==
  IF GovernorEnabled
  THEN {j \in FirstRows(now, RowLimit) :
          PermitsGroup(GroupOf[j]) /\ policy_ok[GroupOf[j]]}
  ELSE FirstRows(now, 1)

Reserve(j) ==
  /\ pc = "reserve"
  /\ j \in Reservable
  /\ pc' = "claim"
  /\ cur' = j
  /\ UNCHANGED <<clock, jobVars, attempts, publication, ctlVars, now, stale,
                 outcome, admVars, faults, admins, histVars>>

\* No row, or every row skipped: the tick ends.
ReserveNone ==
  /\ pc = "reserve"
  /\ GovernorEnabled \/ Reservable = {}
  /\ EndTick
  /\ UNCHANGED <<clock, jobVars, attempts, publication, ctlVars, admVars, faults,
                 admins, histVars>>

\* Mutant: the lease has no time.
ClaimWithoutLeaseTime ==
  /\ pc = "claim"
  /\ IF Claimable(cur, now)
     THEN /\ status' = [status EXCEPT ![cur] = "leased"]
          /\ attempt_count' = [attempt_count EXCEPT ![cur] = @ + 1]
          /\ pc' = "load"
          /\ UNCHANGED <<leased_at, now, stale, cur, outcome>>
     ELSE EndTick /\ UNCHANGED <<status, leased_at, attempt_count>>
  /\ UNCHANGED <<clock, available_at, expires_at, attempts, publication, ctlVars,
                 admVars, faults, admins, histVars>>

\* claim_pending_job, with the time read when the tick began.
Claim ==
  /\ pc = "claim"
  /\ IF Claimable(cur, now)
     THEN /\ status' = [status EXCEPT ![cur] = "leased"]
          /\ leased_at' = [leased_at EXCEPT ![cur] = now]
          /\ attempt_count' = [attempt_count EXCEPT ![cur] = @ + 1]
          /\ pc' = "load"
          /\ UNCHANGED <<now, stale, cur, outcome>>
     ELSE /\ EndTick
          /\ UNCHANGED <<status, leased_at, attempt_count>>
  /\ UNCHANGED <<clock, available_at, expires_at, attempts, publication, ctlVars,
                 admVars, faults, admins, histVars>>

\* _deliver up to the call of the platform: the group's origin may be unknown,
\* and a digest that mentions everyone needs quota, which may not be available.
Load(o) ==
  /\ pc = "load"
  /\ \/ o = "no_umo" /\ ~umo[GroupOf[cur]]
     \/ o = "no_quota" /\ umo[GroupOf[cur]] /\ cur \in AtAll
     \/ o = "none" /\ umo[GroupOf[cur]]
  /\ outcome' = o
  /\ pc' = IF o = "none" THEN "send" ELSE "complete"
  /\ UNCHANGED <<clock, jobVars, attempts, publication, ctlVars, now, stale, cur,
                 admVars, faults, admins, histVars>>

\* _send_message and classify_delivery_exception.  A call that times out
\* ("temporary") or fails in an unrecognised way ("unknown") may still have put
\* the message into the group; a call the platform refused has not.
Send(o, delivered) ==
  /\ pc = "send"
  /\ o \in Outcomes \ {"none", "no_umo", "no_quota"}
  /\ o = "sent" => delivered
  /\ delivered => o \in {"sent", "temporary", "unknown"}
  /\ outcome' = o
  /\ pc' = IF o \in {"account_offline", "rate_limited"} THEN "circuit" ELSE "complete"
  /\ wire' = IF delivered THEN [wire EXCEPT ![cur] = @ + 1] ELSE wire
  /\ excused' = IF delivered /\ o = "temporary"
                THEN [excused EXCEPT ![cur] = wire[cur] + 1] ELSE excused
  /\ late' = IF PermitsGroup(GroupOf[cur]) THEN late
             ELSE [late EXCEPT ![GroupOf[cur]] = @ + 1]
  /\ UNCHANGED <<clock, jobVars, attempts, publication, ctlVars, now, stale, cur,
                 admVars, faults, admins>>

\* open_circuit: the account's for all groups, a rate limit's for the group.
OpenCircuit ==
  /\ pc = "circuit"
  /\ circuit_open' = [circuit_open EXCEPT
       ![IF outcome = "account_offline" THEN "global" ELSE GroupOf[cur]] = TRUE]
  /\ pc' = "complete"
  /\ UNCHANGED <<clock, jobVars, attempts, publication, paused, policy_ok, umo,
                 now, stale, cur, outcome, admVars, faults, admins, histVars>>

\* Mutant: the attempt is recorded without its number.
CompleteJobUnnumbered(j, result) ==
  /\ attempts' = [attempts EXCEPT ![j] = @ \cup {<<0, result>>}]
  /\ status' = [status EXCEPT ![j] = IF result = "retry" THEN "pending" ELSE result]
  /\ available_at' = IF result = "retry"
                     THEN [available_at EXCEPT ![j] = clock + RetryBackoff]
                     ELSE available_at
  /\ leased_at' = [leased_at EXCEPT ![j] = NoTime]
  /\ UNCHANGED <<expires_at, attempt_count>>

\* complete_job: it finds the job by id alone and asks neither for the lease
\* nor for the status.
CompleteJob(j, result) ==
  /\ attempts' = [attempts EXCEPT ![j] = @ \cup {<<attempt_count[j], result>>}]
  /\ status' = [status EXCEPT ![j] = IF result = "retry" THEN "pending" ELSE result]
  /\ available_at' = IF result = "retry"
                     THEN [available_at EXCEPT ![j] = clock + RetryBackoff]
                     ELSE available_at
  /\ leased_at' = [leased_at EXCEPT ![j] = NoTime]
  /\ UNCHANGED <<expires_at, attempt_count>>

Complete ==
  /\ pc = "complete"
  /\ CompleteJob(cur, ResultOf(outcome))
  /\ IF ResultOf(outcome) = "retry"
     THEN EndTick
     ELSE pc' = "publish" /\ UNCHANGED <<now, stale, cur, outcome>>
  /\ UNCHANGED <<clock, publication, ctlVars, admVars, faults, admins, histVars>>

\* ContentPublicationRepository.complete_job: an UPDATE that matches no row when
\* the job has no publication.
Publish ==
  /\ pc = "publish"
  /\ publication' = IF publication[cur] = "none" THEN publication
                    ELSE [publication EXCEPT ![cur] = ResultOf(outcome)]
  /\ IF cur \in Weekly /\ outcome = "sent"
     THEN pc' = "essence" /\ UNCHANGED <<now, stale, cur, outcome>>
     ELSE EndTick
  /\ UNCHANGED <<clock, jobVars, attempts, ctlVars, admVars, faults, admins,
                 histVars>>

\* _replace_weekly_essence ends (its own steps are not modelled here).
Essence ==
  /\ pc = "essence"
  /\ EndTick
  /\ UNCHANGED <<clock, jobVars, attempts, publication, ctlVars, admVars, faults,
                 admins, histVars>>

\* The exception handler of _tick: whatever the delivery had already recorded,
\* the job is completed with "retry".
CompleteRaised ==
  /\ pc = "raised"
  /\ CompleteJob(cur, "retry")
  /\ EndTick
  /\ UNCHANGED <<clock, publication, ctlVars, admVars, faults, admins, histVars>>

-----------------------------------------------------------------------------
(* Failures of the dispatcher *)

\* A step of _deliver raises (rendering, or a database error).  After the send,
\* this makes the job due for sending again.
Raise ==
  /\ pc \in {"load", "circuit", "complete", "publish", "essence"}
  /\ faults < MaxFaults
  /\ faults' = faults + 1
  /\ pc' = "raised"
  /\ excused' = IF pc = "load" THEN excused ELSE [excused EXCEPT ![cur] = wire[cur]]
  /\ UNCHANGED <<clock, jobVars, attempts, publication, ctlVars, now, stale, cur,
                 outcome, admVars, admins, wire, late>>

\* A step of _tick outside _deliver raises: run() logs it and polls again.
TickFails ==
  /\ pc \in {"release", "release_write", "reserve", "claim", "raised"}
  /\ faults < MaxFaults
  /\ faults' = faults + 1
  /\ EndTick
  /\ UNCHANGED <<clock, jobVars, attempts, publication, ctlVars, admVars,
                 admins, histVars>>

\* The process dies, or stop() cancels the task, between two transactions.
Crash ==
  /\ pc # "idle"
  /\ faults < MaxFaults
  /\ faults' = faults + 1
  /\ excused' = IF pc = "complete" THEN [excused EXCEPT ![cur] = wire[cur]] ELSE excused
  /\ EndTick
  /\ UNCHANGED <<clock, jobVars, attempts, publication, ctlVars, admVars,
                 admins, wire, late>>

-----------------------------------------------------------------------------
(* The owner's console, the groups *)

\* AdminService.update_notification reads the row without locking it and raises
\* unless the status allows the action ...
AdminRead(j, a) ==
  /\ adm_action = "none"
  /\ admins < MaxAdmin
  /\ \/ a = "retry" /\ status[j] \in {"failed", "unknown"}
     \/ a = "cancel" /\ status[j] \in {"pending", "failed", "unknown"}
  /\ admins' = admins + 1
  /\ adm_job' = j /\ adm_action' = a
  /\ UNCHANGED <<clock, jobVars, attempts, publication, ctlVars, tickVars, faults,
                 histVars>>

\* ... and commits.  The lease columns were NULL when they were read, so setting
\* them to NULL writes nothing.
AdminCommit ==
  /\ adm_action # "none"
  /\ IF adm_action = "retry"
     THEN /\ status' = [status EXCEPT ![adm_job] = "pending"]
          /\ available_at' = [available_at EXCEPT ![adm_job] = clock]
          /\ excused' = [excused EXCEPT ![adm_job] = wire[adm_job]]
     ELSE /\ status' = [status EXCEPT ![adm_job] = "cancelled"]
          /\ UNCHANGED <<available_at, excused>>
  /\ adm_job' = NoJob /\ adm_action' = "none"
  /\ UNCHANGED <<clock, expires_at, leased_at, attempt_count, attempts, publication,
                 ctlVars, tickVars, faults, admins, wire, late>>

\* AdminService.set_global_delivery(paused=True)
Pause ==
  /\ ~paused["global"]
  /\ paused' = [paused EXCEPT !["global"] = TRUE]
  /\ UNCHANGED <<clock, jobVars, attempts, publication, circuit_open, policy_ok, umo,
                 tickVars, admVars, faults, admins, histVars>>

\* AdminService.set_global_delivery(paused=False): resume("global", "global").
Resume ==
  /\ ~AllowsDelivery("global")
  /\ paused' = [paused EXCEPT !["global"] = FALSE]
  /\ circuit_open' = [circuit_open EXCEPT !["global"] = FALSE]
  /\ late' = [g \in Groups |-> IF AllowsDelivery(g) THEN 0 ELSE late[g]]
  /\ UNCHANGED <<clock, jobVars, attempts, publication, policy_ok, umo, tickVars,
                 admVars, faults, admins, wire, excused>>

\* The group's proactive_enabled or is_quiet_at changes.
PolicyChange(g) ==
  /\ policy_ok' = [policy_ok EXCEPT ![g] = ~@]
  /\ UNCHANGED <<clock, jobVars, attempts, publication, paused, circuit_open, umo,
                 tickVars, admVars, faults, admins, histVars>>

\* ChatGroupRepository.upsert_group_event stores the origin of a group's message.
GroupEvent(g) ==
  /\ ~umo[g]
  /\ umo' = [umo EXCEPT ![g] = TRUE]
  /\ UNCHANGED <<clock, jobVars, attempts, publication, paused, circuit_open,
                 policy_ok, tickVars, admVars, faults, admins, histVars>>

-----------------------------------------------------------------------------

DispatcherStep ==
  \/ TickStart \/ ReleaseRead \/ ReleaseWrite
  \/ \E j \in Jobs : Reserve(j)
  \/ ReserveNone \/ Claim
  \/ \E o \in Outcomes : Load(o)
  \/ \E o \in Outcomes, delivered \in BOOLEAN : Send(o, delivered)
  \/ OpenCircuit \/ Complete \/ Publish \/ Essence \/ CompleteRaised

Next ==
  \/ Tick
  \/ \E j \in Jobs : Enqueue(j) \/ RecordPlanned(j)
  \/ DispatcherStep
  \/ Raise \/ TickFails \/ Crash
  \/ \E j \in Jobs, a \in {"retry", "cancel"} : AdminRead(j, a)
  \/ AdminCommit \/ Pause \/ Resume
  \/ \E g \in Groups : PolicyChange(g) \/ GroupEvent(g)

Spec == Init /\ [][Next]_vars

\* The dispatcher polls for as long as the process lives and time passes.  That
\* it reserves a row again and again when a row is again and again eligible is an
\* assumption about the chat: each wait of the governor is bounded (module
\* SendGovernor), and replies to commands that keep resetting the group's
\* interval pause now and then.
FairSpec ==
  /\ Spec
  /\ WF_vars(Tick)
  /\ WF_vars(DispatcherStep)
  /\ SF_vars(\E j \in Jobs : Reserve(j))

-----------------------------------------------------------------------------
(* Properties *)

TypeOK ==
  /\ clock \in Time /\ now \in Time
  /\ status \in [Jobs -> Statuses]
  /\ available_at \in [Jobs -> Time]
  /\ expires_at \in [Jobs -> Time]
  /\ leased_at \in [Jobs -> Time \cup {NoTime}]
  /\ attempt_count \in [Jobs -> Nat]
  /\ attempts \in [Jobs -> SUBSET (Nat \X Results)]
  /\ publication \in [Jobs -> {"none", "planned", "sent", "failed", "unknown"}]
  /\ paused \in [Scopes -> BOOLEAN]
  /\ circuit_open \in [Scopes -> BOOLEAN]
  /\ policy_ok \in [Groups -> BOOLEAN]
  /\ umo \in [Groups -> BOOLEAN]
  /\ pc \in Pcs
  /\ stale \in SUBSET Jobs
  /\ cur \in Jobs \cup {NoJob}
  /\ outcome \in Outcomes
  /\ adm_job \in Jobs \cup {NoJob}
  /\ adm_action \in {"none", "retry", "cancel"}
  /\ faults \in Nat /\ admins \in Nat
  /\ wire \in [Jobs -> Nat]
  /\ excused \in [Jobs -> Nat]
  /\ late \in [Groups -> Nat]

\* A group gets a job's message once more than the dispatcher has had a reason
\* to send it again: a call that timed out, an exception or a crash after the
\* send and before the outcome was recorded, an owner's retry.  No interleaving
\* of lease recovery, cancellation and completion adds another copy.
NoUnexplainedDuplicate == \A j \in Jobs : wire[j] <= excused[j] + 1

\* The outbox keeps the courier's promise: a message is sent only when all the
\* earlier copies of its job have been excused.
Promise == INSTANCE Courier WITH
             copies <- wire, credit <- [j \in Jobs |-> wire[j] = excused[j]]
KeepsPromise == Promise!Spec

\* A leased job can always be taken back: release_expired_leases skips rows
\* whose leased_at is NULL, and no lease is granted at or after expiry.
LeaseRecoverable ==
  \A j \in Jobs : status[j] = "leased" =>
     /\ leased_at[j] # NoTime
     /\ leased_at[j] <= clock
     /\ leased_at[j] < expires_at[j]

\* Once the owner pauses delivery or a circuit opens, a group receives at most
\* the one message that was past its preflight check, however long it stays
\* closed (holds where the governor is enabled).
AtMostOneAfterClose ==
  GovernorEnabled => \A g \in Groups : ~PermitsGroup(g) => late[g] <= 1

\* A job whose status is an outcome has a delivery_attempts row that says so
\* under its current attempt number.
OutcomeIsAudited ==
  \A j \in Jobs : status[j] \in {"sent", "failed", "unknown"} =>
     <<attempt_count[j], status[j]>> \in attempts[j]

\* A publication is never marked with an outcome no attempt of its job had.
PublicationFollowsAttempt ==
  \A j \in Content : publication[j] \in {"sent", "failed", "unknown"} =>
     \E n \in 1 .. attempt_count[j] : <<n, publication[j]>> \in attempts[j]

\* Three transactions record an outcome, and the status of a job and that of its
\* publication never say more than the attempts do (dispatcher.py:299).
OutcomesAreAudited == OutcomeIsAudited /\ PublicationFollowsAttempt

\* A job abandoned in the leased state by a crash is taken back.
LeasesEnd ==
  \A j \in Jobs :
    (status[j] = "leased" /\ clock + LeaseTimeout < MaxClock)
      ~> (status[j] # "leased")

\* A job that could be sent to an open group does not wait for ever while other
\* groups are paused, in quiet hours or failing.
Deliverable(j) ==
  /\ Claimable(j, clock)
  /\ PermitsGroup(GroupOf[j]) /\ policy_ok[GroupOf[j]]
NoStarvation == \A j \in Jobs : ~ <>[]Deliverable(j)

-----------------------------------------------------------------------------
(* What the documents say and the code does not do: each is checked by a run *)
(* that finds it violated.                                                   *)

\* "sent" has no successor (astrbot-multisource design, 10.4), and a weekly report whose
\* essence step failed "is not sent again" (content operations design, 9).  An
\* exception after the job was recorded as sent makes it pending.
SentIsFinal ==
  [][\A j \in Jobs : status[j] = "sent" => status'[j] = "sent"]_status

=============================================================================

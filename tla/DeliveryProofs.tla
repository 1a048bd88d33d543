--------------------------- MODULE DeliveryProofs ---------------------------
(***************************************************************************)
(* Theorems about Delivery, for any set of jobs and groups, any timeouts   *)
(* and any number of faults.                                               *)
(***************************************************************************)
EXTENDS Delivery, TLAPS

(* The inductive invariant, in named parts.                                *)

\* Where the dispatcher is in a tick decides what its local variables hold.
TickShape ==
  /\ now <= clock
  /\ stale # {} => pc = "release_write"
  /\ pc \in {"claim", "load", "send", "circuit", "complete", "publish", "essence",
             "raised"} => cur \in Jobs
  /\ pc = "circuit" => outcome \in {"account_offline", "rate_limited"}
  /\ pc = "complete" => outcome # "none"
  /\ pc \in {"publish", "essence"} => ResultOf(outcome) # "retry"
  /\ adm_action # "none" => adm_job \in Jobs

\* The dispatcher holds job j and has not delivered it in this attempt, or has
\* delivered it and will ask for a retry.
Sendable(j) ==
  /\ cur = j
  /\ \/ pc \in {"load", "send", "circuit", "raised"}
     \/ pc = "complete" /\ outcome \notin {"sent", "unknown"}

\* A job that may still be sent: its status leads to a send and it is not the
\* one just delivered, or the dispatcher holds it, or is about to release it.
MayBeSent(j) ==
  \/ status[j] \in {"none", "pending", "leased", "failed"} /\ ~(cur = j /\ pc = "complete")
  \/ Sendable(j)
  \/ j \in stale

\* Every message sent so far of a job that may be sent again is accounted for.
DuplicateInv ==
  \A j \in Jobs :
    /\ excused[j] <= wire[j]
    /\ wire[j] <= excused[j] + 1
    /\ MayBeSent(j) => wire[j] = excused[j]

\* No message was sent to an open group since it opened, and a closed group that
\* has had its late message has no other on the way.
CloseInv ==
  GovernorEnabled =>
    \A g \in Groups :
      /\ PermitsGroup(g) => late[g] = 0
      /\ late[g] <= 1
      /\ late[g] = 1 => ~(pc \in {"claim", "load", "send"} /\ GroupOf[cur] = g)

\* An attempt is counted before it is carried out, and recorded before its
\* publication is updated.
AttemptInv ==
  /\ OutcomeIsAudited
  /\ PublicationFollowsAttempt
  /\ pc \in {"load", "send", "circuit", "complete", "publish", "essence"} =>
       attempt_count[cur] >= 1
  /\ pc \in {"publish", "essence"} =>
       \E n \in 1 .. attempt_count[cur] : <<n, ResultOf(outcome)>> \in attempts[cur]

IInv == TypeOK /\ TickShape /\ LeaseRecoverable /\ DuplicateInv /\ CloseInv /\ AttemptInv
-----------------------------------------------------------------------------

USE JobsAreNumbered, JobAttributes, Settings, Bounds, Nulls, GlobalIsNoGroup

\* Every step keeps the variables in their types.
LEMMA TypeStep ==
  TypeOK /\ TickShape /\ [Next]_vars => TypeOK'
<1> SUFFICES ASSUME TypeOK, TickShape, [Next]_vars PROVE TypeOK'
  OBVIOUS
<1> USE DEF TypeOK, TickShape, Time, Statuses, Results, Outcomes, Pcs, Scopes, jobVars, ctlVars, tickVars, admVars, histVars
<1>1. ASSUME Tick PROVE TypeOK'
  BY <1>1 DEF Tick
<1>2. ASSUME NEW j \in Jobs, Enqueue(j) PROVE TypeOK'
  BY <1>2 DEF Enqueue
<1>3. ASSUME NEW j \in Jobs, RecordPlanned(j) PROVE TypeOK'
  BY <1>3 DEF RecordPlanned
<1>4. ASSUME TickStart PROVE TypeOK'
  BY <1>4 DEF TickStart
<1>5. ASSUME ReleaseRead PROVE TypeOK'
  BY <1>5 DEF ReleaseRead
<1>6. ASSUME ReleaseWrite PROVE TypeOK'
  BY <1>6 DEF ReleaseWrite
<1>7. ASSUME NEW j \in Jobs, Reserve(j) PROVE TypeOK'
  BY <1>7 DEF Reserve
<1>8. ASSUME ReserveNone PROVE TypeOK'
  BY <1>8 DEF ReserveNone, EndTick
<1>9. ASSUME Claim PROVE TypeOK'
  BY <1>9 DEF Claim, EndTick
<1>10. ASSUME NEW o \in Outcomes, Load(o) PROVE TypeOK'
  BY <1>10 DEF Load
<1>11. ASSUME NEW o \in Outcomes, NEW d \in BOOLEAN, Send(o, d) PROVE TypeOK'
  BY <1>11 DEF Send
<1>12. ASSUME OpenCircuit PROVE TypeOK'
  BY <1>12 DEF OpenCircuit
<1>13. ASSUME Complete PROVE TypeOK'
  BY <1>13 DEF Complete, EndTick, CompleteJob, ResultOf
<1>14. ASSUME Publish PROVE TypeOK'
  BY <1>14 DEF Publish, EndTick, ResultOf
<1>15. ASSUME Essence PROVE TypeOK'
  BY <1>15 DEF Essence, EndTick
<1>16. ASSUME CompleteRaised PROVE TypeOK'
  BY <1>16 DEF CompleteRaised, EndTick, CompleteJob
<1>17. ASSUME Raise PROVE TypeOK'
  BY <1>17 DEF Raise
<1>18. ASSUME TickFails PROVE TypeOK'
  BY <1>18 DEF TickFails, EndTick
<1>19. ASSUME Crash PROVE TypeOK'
  BY <1>19 DEF Crash, EndTick
<1>20. ASSUME NEW j \in Jobs, NEW a \in {"retry", "cancel"}, AdminRead(j, a) PROVE TypeOK'
  BY <1>20 DEF AdminRead
<1>21. ASSUME AdminCommit PROVE TypeOK'
  BY <1>21 DEF AdminCommit
<1>22. ASSUME Pause PROVE TypeOK'
  BY <1>22 DEF Pause
<1>23. ASSUME Resume PROVE TypeOK'
  BY <1>23 DEF Resume
<1>24. ASSUME NEW g \in Groups, PolicyChange(g) PROVE TypeOK'
  BY <1>24 DEF PolicyChange
<1>25. ASSUME NEW g \in Groups, GroupEvent(g) PROVE TypeOK'
  BY <1>25 DEF GroupEvent
<1>26. ASSUME UNCHANGED vars PROVE TypeOK'
  BY <1>26 DEF vars
<1> HIDE DEF TypeOK, TickShape, Time, Statuses, Results, Outcomes, Pcs, Scopes, jobVars, ctlVars, tickVars, admVars, histVars
<1> QED
  BY <1>1, <1>2, <1>3, <1>4, <1>5, <1>6, <1>7, <1>8, <1>9, <1>10, <1>11,
     <1>12, <1>13, <1>14, <1>15, <1>16, <1>17, <1>18, <1>19, <1>20, <1>21,
     <1>22, <1>23, <1>24, <1>25, <1>26
  DEF Next, DispatcherStep

\* Every step keeps the dispatcher's local variables in the shape of its place in
\* the tick.
LEMMA ShapeStep ==
  TypeOK /\ TickShape /\ [Next]_vars => TickShape'
<1> SUFFICES ASSUME TypeOK, TickShape, [Next]_vars PROVE TickShape'
  OBVIOUS
<1> USE DEF TypeOK, TickShape, Time, jobVars, ctlVars, tickVars, admVars, histVars
<1>1. ASSUME Tick PROVE TickShape'
  BY <1>1 DEF Tick
<1>2. ASSUME NEW j \in Jobs, Enqueue(j) PROVE TickShape'
  BY <1>2 DEF Enqueue
<1>3. ASSUME NEW j \in Jobs, RecordPlanned(j) PROVE TickShape'
  BY <1>3 DEF RecordPlanned
<1>4. ASSUME TickStart PROVE TickShape'
  BY <1>4 DEF TickStart
<1>5. ASSUME ReleaseRead PROVE TickShape'
  BY <1>5 DEF ReleaseRead
<1>6. ASSUME ReleaseWrite PROVE TickShape'
  BY <1>6 DEF ReleaseWrite
<1>7. ASSUME NEW j \in Jobs, Reserve(j) PROVE TickShape'
  BY <1>7 DEF Reserve
<1>8. ASSUME ReserveNone PROVE TickShape'
  BY <1>8 DEF ReserveNone, EndTick
<1>9. ASSUME Claim PROVE TickShape'
  BY <1>9 DEF Claim, EndTick
<1>10. ASSUME NEW o \in Outcomes, Load(o) PROVE TickShape'
  BY <1>10 DEF Load, Outcomes
<1>11. ASSUME NEW o \in Outcomes, NEW d \in BOOLEAN, Send(o, d) PROVE TickShape'
  BY <1>11 DEF Send, Outcomes
<1>12. ASSUME OpenCircuit PROVE TickShape'
  BY <1>12 DEF OpenCircuit
<1>13. ASSUME Complete PROVE TickShape'
  BY <1>13 DEF Complete, EndTick, CompleteJob, ResultOf
<1>14. ASSUME Publish PROVE TickShape'
  BY <1>14 DEF Publish, EndTick, ResultOf
<1>15. ASSUME Essence PROVE TickShape'
  BY <1>15 DEF Essence, EndTick
<1>16. ASSUME CompleteRaised PROVE TickShape'
  BY <1>16 DEF CompleteRaised, EndTick, CompleteJob
<1>17. ASSUME Raise PROVE TickShape'
  BY <1>17 DEF Raise
<1>18. ASSUME TickFails PROVE TickShape'
  BY <1>18 DEF TickFails, EndTick
<1>19. ASSUME Crash PROVE TickShape'
  BY <1>19 DEF Crash, EndTick
<1>20. ASSUME NEW j \in Jobs, NEW a \in {"retry", "cancel"}, AdminRead(j, a) PROVE TickShape'
  BY <1>20 DEF AdminRead
<1>21. ASSUME AdminCommit PROVE TickShape'
  BY <1>21 DEF AdminCommit
<1>22. ASSUME Pause PROVE TickShape'
  BY <1>22 DEF Pause
<1>23. ASSUME Resume PROVE TickShape'
  BY <1>23 DEF Resume
<1>24. ASSUME NEW g \in Groups, PolicyChange(g) PROVE TickShape'
  BY <1>24 DEF PolicyChange
<1>25. ASSUME NEW g \in Groups, GroupEvent(g) PROVE TickShape'
  BY <1>25 DEF GroupEvent
<1>26. ASSUME UNCHANGED vars PROVE TickShape'
  BY <1>26 DEF vars
<1> HIDE DEF TypeOK, TickShape, Time, jobVars, ctlVars, tickVars, admVars, histVars
<1> QED
  BY <1>1, <1>2, <1>3, <1>4, <1>5, <1>6, <1>7, <1>8, <1>9, <1>10, <1>11,
     <1>12, <1>13, <1>14, <1>15, <1>16, <1>17, <1>18, <1>19, <1>20, <1>21,
     <1>22, <1>23, <1>24, <1>25, <1>26
  DEF Next, DispatcherStep

\* A lease is granted with the tick's time, before expiry, and only to a job that
\* can be claimed.
LEMMA LeaseStep ==
  TypeOK /\ TickShape /\ LeaseRecoverable /\ [Next]_vars => LeaseRecoverable'
<1> SUFFICES ASSUME TypeOK, TickShape, LeaseRecoverable, [Next]_vars PROVE LeaseRecoverable'
  OBVIOUS
<1> USE DEF TypeOK, TickShape, LeaseRecoverable, Time, Statuses, jobVars, ctlVars, tickVars, admVars, histVars
<1>1. ASSUME Tick PROVE LeaseRecoverable'
  BY <1>1 DEF Tick
<1>2. ASSUME NEW j \in Jobs, Enqueue(j) PROVE LeaseRecoverable'
  BY <1>2 DEF Enqueue
<1>3. ASSUME NEW j \in Jobs, RecordPlanned(j) PROVE LeaseRecoverable'
  BY <1>3 DEF RecordPlanned
<1>4. ASSUME TickStart PROVE LeaseRecoverable'
  BY <1>4 DEF TickStart
<1>5. ASSUME ReleaseRead PROVE LeaseRecoverable'
  BY <1>5 DEF ReleaseRead
<1>6. ASSUME ReleaseWrite PROVE LeaseRecoverable'
  BY <1>6 DEF ReleaseWrite
<1>7. ASSUME NEW j \in Jobs, Reserve(j) PROVE LeaseRecoverable'
  BY <1>7 DEF Reserve
<1>8. ASSUME ReserveNone PROVE LeaseRecoverable'
  BY <1>8 DEF ReserveNone, EndTick
<1>9. ASSUME Claim PROVE LeaseRecoverable'
  BY <1>9 DEF Claim, EndTick, Claimable
<1>10. ASSUME NEW o \in Outcomes, Load(o) PROVE LeaseRecoverable'
  BY <1>10 DEF Load
<1>11. ASSUME NEW o \in Outcomes, NEW d \in BOOLEAN, Send(o, d) PROVE LeaseRecoverable'
  BY <1>11 DEF Send
<1>12. ASSUME OpenCircuit PROVE LeaseRecoverable'
  BY <1>12 DEF OpenCircuit
<1>13. ASSUME Complete PROVE LeaseRecoverable'
  BY <1>13 DEF Complete, EndTick, CompleteJob, ResultOf
<1>14. ASSUME Publish PROVE LeaseRecoverable'
  BY <1>14 DEF Publish, EndTick
<1>15. ASSUME Essence PROVE LeaseRecoverable'
  BY <1>15 DEF Essence, EndTick
<1>16. ASSUME CompleteRaised PROVE LeaseRecoverable'
  BY <1>16 DEF CompleteRaised, EndTick, CompleteJob
<1>17. ASSUME Raise PROVE LeaseRecoverable'
  BY <1>17 DEF Raise
<1>18. ASSUME TickFails PROVE LeaseRecoverable'
  BY <1>18 DEF TickFails, EndTick
<1>19. ASSUME Crash PROVE LeaseRecoverable'
  BY <1>19 DEF Crash, EndTick
<1>20. ASSUME NEW j \in Jobs, NEW a \in {"retry", "cancel"}, AdminRead(j, a) PROVE LeaseRecoverable'
  BY <1>20 DEF AdminRead
<1>21. ASSUME AdminCommit PROVE LeaseRecoverable'
  BY <1>21 DEF AdminCommit
<1>22. ASSUME Pause PROVE LeaseRecoverable'
  BY <1>22 DEF Pause
<1>23. ASSUME Resume PROVE LeaseRecoverable'
  BY <1>23 DEF Resume
<1>24. ASSUME NEW g \in Groups, PolicyChange(g) PROVE LeaseRecoverable'
  BY <1>24 DEF PolicyChange
<1>25. ASSUME NEW g \in Groups, GroupEvent(g) PROVE LeaseRecoverable'
  BY <1>25 DEF GroupEvent
<1>26. ASSUME UNCHANGED vars PROVE LeaseRecoverable'
  BY <1>26 DEF vars
<1> HIDE DEF TypeOK, TickShape, LeaseRecoverable, Time, Statuses, jobVars, ctlVars, tickVars, admVars, histVars
<1> QED
  BY <1>1, <1>2, <1>3, <1>4, <1>5, <1>6, <1>7, <1>8, <1>9, <1>10, <1>11,
     <1>12, <1>13, <1>14, <1>15, <1>16, <1>17, <1>18, <1>19, <1>20, <1>21,
     <1>22, <1>23, <1>24, <1>25, <1>26
  DEF Next, DispatcherStep

\* A message is sent only by a dispatcher that holds the job before delivery, and
\* every way back to a job that was delivered excuses what was sent.
LEMMA DuplicateStep ==
  TypeOK /\ TickShape /\ DuplicateInv /\ [Next]_vars => DuplicateInv'
<1> SUFFICES ASSUME TypeOK, TickShape, DuplicateInv, [Next]_vars PROVE DuplicateInv'
  OBVIOUS
<1> USE DEF TypeOK, TickShape, DuplicateInv, MayBeSent, Sendable, jobVars, ctlVars, tickVars, admVars, histVars
<1>1. ASSUME Tick PROVE DuplicateInv'
  BY <1>1 DEF Tick
<1>2. ASSUME NEW j \in Jobs, Enqueue(j) PROVE DuplicateInv'
  BY <1>2 DEF Enqueue
<1>3. ASSUME NEW j \in Jobs, RecordPlanned(j) PROVE DuplicateInv'
  BY <1>3 DEF RecordPlanned
<1>4. ASSUME TickStart PROVE DuplicateInv'
  BY <1>4 DEF TickStart
<1>5. ASSUME ReleaseRead PROVE DuplicateInv'
  BY <1>5 DEF ReleaseRead
<1>6. ASSUME ReleaseWrite PROVE DuplicateInv'
  BY <1>6 DEF ReleaseWrite
<1>7. ASSUME NEW j \in Jobs, Reserve(j) PROVE DuplicateInv'
  BY <1>7 DEF Reserve
<1>8. ASSUME ReserveNone PROVE DuplicateInv'
  BY <1>8 DEF ReserveNone, EndTick
<1>9. ASSUME Claim PROVE DuplicateInv'
  BY <1>9 DEF Claim, EndTick, Claimable
<1>10. ASSUME NEW o \in Outcomes, Load(o) PROVE DuplicateInv'
  BY <1>10 DEF Load, Outcomes
<1>11. ASSUME NEW o \in Outcomes, NEW d \in BOOLEAN, Send(o, d) PROVE DuplicateInv'
  BY <1>11 DEF Send, Outcomes
<1>12. ASSUME OpenCircuit PROVE DuplicateInv'
  BY <1>12 DEF OpenCircuit
<1>13. ASSUME Complete PROVE DuplicateInv'
  BY <1>13 DEF Complete, EndTick, CompleteJob, ResultOf, Statuses, Outcomes
<1>14. ASSUME Publish PROVE DuplicateInv'
  BY <1>14 DEF Publish, EndTick, ResultOf
<1>15. ASSUME Essence PROVE DuplicateInv'
  BY <1>15 DEF Essence, EndTick
<1>16. ASSUME CompleteRaised PROVE DuplicateInv'
  BY <1>16 DEF CompleteRaised, EndTick, CompleteJob
<1>17. ASSUME Raise PROVE DuplicateInv'
  BY <1>17 DEF Raise
<1>18. ASSUME TickFails PROVE DuplicateInv'
  BY <1>18 DEF TickFails, EndTick
<1>19. ASSUME Crash PROVE DuplicateInv'
  BY <1>19 DEF Crash, EndTick
<1>20. ASSUME NEW j \in Jobs, NEW a \in {"retry", "cancel"}, AdminRead(j, a) PROVE DuplicateInv'
  BY <1>20 DEF AdminRead
<1>21. ASSUME AdminCommit PROVE DuplicateInv'
  BY <1>21 DEF AdminCommit
<1>22. ASSUME Pause PROVE DuplicateInv'
  BY <1>22 DEF Pause
<1>23. ASSUME Resume PROVE DuplicateInv'
  BY <1>23 DEF Resume
<1>24. ASSUME NEW g \in Groups, PolicyChange(g) PROVE DuplicateInv'
  BY <1>24 DEF PolicyChange
<1>25. ASSUME NEW g \in Groups, GroupEvent(g) PROVE DuplicateInv'
  BY <1>25 DEF GroupEvent
<1>26. ASSUME UNCHANGED vars PROVE DuplicateInv'
  BY <1>26 DEF vars
<1> HIDE DEF TypeOK, TickShape, DuplicateInv, MayBeSent, Sendable, jobVars, ctlVars, tickVars, admVars, histVars
<1> QED
  BY <1>1, <1>2, <1>3, <1>4, <1>5, <1>6, <1>7, <1>8, <1>9, <1>10, <1>11,
     <1>12, <1>13, <1>14, <1>15, <1>16, <1>17, <1>18, <1>19, <1>20, <1>21,
     <1>22, <1>23, <1>24, <1>25, <1>26
  DEF Next, DispatcherStep

\* Attempts are counted by claims and recorded by completions.
LEMMA AttemptStep ==
  TypeOK /\ TickShape /\ AttemptInv /\ [Next]_vars => AttemptInv'
<1> SUFFICES ASSUME TypeOK, TickShape, AttemptInv, [Next]_vars PROVE AttemptInv'
  OBVIOUS
<1> USE DEF TypeOK, TickShape, AttemptInv, OutcomeIsAudited, PublicationFollowsAttempt, jobVars, ctlVars, tickVars, admVars, histVars
<1>1. ASSUME Tick PROVE AttemptInv'
  BY <1>1 DEF Tick
<1>2. ASSUME NEW j \in Jobs, Enqueue(j) PROVE AttemptInv'
  BY <1>2 DEF Enqueue
<1>3. ASSUME NEW j \in Jobs, RecordPlanned(j) PROVE AttemptInv'
  BY <1>3 DEF RecordPlanned
<1>4. ASSUME TickStart PROVE AttemptInv'
  BY <1>4 DEF TickStart
<1>5. ASSUME ReleaseRead PROVE AttemptInv'
  BY <1>5 DEF ReleaseRead
<1>6. ASSUME ReleaseWrite PROVE AttemptInv'
  BY <1>6 DEF ReleaseWrite
<1>7. ASSUME NEW j \in Jobs, Reserve(j) PROVE AttemptInv'
  BY <1>7 DEF Reserve
<1>8. ASSUME ReserveNone PROVE AttemptInv'
  BY <1>8 DEF ReserveNone, EndTick
<1>9. ASSUME Claim PROVE AttemptInv'
  <2>1. CASE Claimable(cur, now)
    <3>1. /\ cur \in Jobs
          /\ status' = [status EXCEPT ![cur] = "leased"]
          /\ attempt_count' = [attempt_count EXCEPT ![cur] = @ + 1]
          /\ attempts' = attempts /\ publication' = publication
          /\ cur' = cur /\ pc' = "load"
      BY <1>9, <2>1 DEF Claim
    <3>2. \A j \in Jobs : attempt_count'[j] >= attempt_count[j]
      BY <3>1
    <3>3. OutcomeIsAudited'
      BY <3>1
    <3>4. PublicationFollowsAttempt'
      <4>1. \A j \in Jobs : 1 .. attempt_count[j] \subseteq 1 .. attempt_count'[j]
        BY <3>1, <3>2
      <4> QED
        BY <3>1, <4>1
    <3>5. attempt_count'[cur'] >= 1
      BY <3>1
    <3> QED
      BY <3>1, <3>3, <3>4, <3>5
  <2>2. CASE ~Claimable(cur, now)
    BY <1>9, <2>2 DEF Claim, EndTick
  <2> QED
    BY <2>1, <2>2
<1>10. ASSUME NEW o \in Outcomes, Load(o) PROVE AttemptInv'
  BY <1>10 DEF Load
<1>11. ASSUME NEW o \in Outcomes, NEW d \in BOOLEAN, Send(o, d) PROVE AttemptInv'
  BY <1>11 DEF Send
<1>12. ASSUME OpenCircuit PROVE AttemptInv'
  BY <1>12 DEF OpenCircuit
<1>13. ASSUME Complete PROVE AttemptInv'
  <2> DEFINE r == ResultOf(outcome)
  <2>1. /\ cur \in Jobs
        /\ attempts' = [attempts EXCEPT ![cur] = @ \cup {<<attempt_count[cur], r>>}]
        /\ status' = [status EXCEPT ![cur] = IF r = "retry" THEN "pending" ELSE r]
        /\ attempt_count' = attempt_count /\ publication' = publication
        /\ attempt_count[cur] \in Nat /\ attempt_count[cur] >= 1
    BY <1>13 DEF Complete, CompleteJob
  <2>2. IF r = "retry" THEN pc' = "idle" ELSE pc' = "publish" /\ cur' = cur /\ outcome' = outcome
    BY <1>13 DEF Complete, EndTick
  <2>3. <<attempt_count[cur], r>> \in attempts'[cur]
    BY <2>1
  <2>4. OutcomeIsAudited'
    BY <2>1, <2>3
  <2>5. PublicationFollowsAttempt'
    BY <2>1
  <2>6. pc' \in {"publish", "essence"} =>
          \E n \in 1 .. attempt_count'[cur'] : <<n, ResultOf(outcome')>> \in attempts'[cur']
    <3> SUFFICES ASSUME pc' = "publish", cur' = cur, outcome' = outcome
                 PROVE \E n \in 1 .. attempt_count'[cur'] :
                         <<n, ResultOf(outcome')>> \in attempts'[cur']
      BY <2>2
    <3>1. attempt_count[cur] \in 1 .. attempt_count'[cur']
      BY <2>1
    <3>2. <<attempt_count[cur], ResultOf(outcome')>> \in attempts'[cur']
      BY <2>3
    <3> QED
      BY <3>1, <3>2
  <2> QED
    BY <2>1, <2>2, <2>4, <2>5, <2>6 DEF ResultOf
<1>14. ASSUME Publish PROVE AttemptInv'
  BY <1>14 DEF Publish, EndTick, ResultOf
<1>15. ASSUME Essence PROVE AttemptInv'
  BY <1>15 DEF Essence, EndTick
<1>16. ASSUME CompleteRaised PROVE AttemptInv'
  BY <1>16 DEF CompleteRaised, EndTick, CompleteJob, ResultOf
<1>17. ASSUME Raise PROVE AttemptInv'
  BY <1>17 DEF Raise
<1>18. ASSUME TickFails PROVE AttemptInv'
  BY <1>18 DEF TickFails, EndTick
<1>19. ASSUME Crash PROVE AttemptInv'
  BY <1>19 DEF Crash, EndTick
<1>20. ASSUME NEW j \in Jobs, NEW a \in {"retry", "cancel"}, AdminRead(j, a) PROVE AttemptInv'
  BY <1>20 DEF AdminRead
<1>21. ASSUME AdminCommit PROVE AttemptInv'
  BY <1>21 DEF AdminCommit
<1>22. ASSUME Pause PROVE AttemptInv'
  BY <1>22 DEF Pause
<1>23. ASSUME Resume PROVE AttemptInv'
  BY <1>23 DEF Resume
<1>24. ASSUME NEW g \in Groups, PolicyChange(g) PROVE AttemptInv'
  BY <1>24 DEF PolicyChange
<1>25. ASSUME NEW g \in Groups, GroupEvent(g) PROVE AttemptInv'
  BY <1>25 DEF GroupEvent
<1>26. ASSUME UNCHANGED vars PROVE AttemptInv'
  BY <1>26 DEF vars
<1> HIDE DEF TypeOK, TickShape, AttemptInv, OutcomeIsAudited, PublicationFollowsAttempt, jobVars, ctlVars, tickVars, admVars, histVars
<1> QED
  BY <1>1, <1>2, <1>3, <1>4, <1>5, <1>6, <1>7, <1>8, <1>9, <1>10, <1>11,
     <1>12, <1>13, <1>14, <1>15, <1>16, <1>17, <1>18, <1>19, <1>20, <1>21,
     <1>22, <1>23, <1>24, <1>25, <1>26
  DEF Next, DispatcherStep

\* With the governor enabled a job is reserved only for an open group, and a gate
\* that opens forgets the messages sent while it was closed.
LEMMA CloseStep ==
  TypeOK /\ TickShape /\ CloseInv /\ [Next]_vars => CloseInv'
<1> SUFFICES ASSUME TypeOK, TickShape, CloseInv, [Next]_vars PROVE CloseInv'
  OBVIOUS
<1> USE DEF TypeOK, TickShape, CloseInv, PermitsGroup, AllowsDelivery, Scopes, jobVars, ctlVars, tickVars, admVars, histVars
<1>1. ASSUME Tick PROVE CloseInv'
  BY <1>1 DEF Tick
<1>2. ASSUME NEW j \in Jobs, Enqueue(j) PROVE CloseInv'
  BY <1>2 DEF Enqueue
<1>3. ASSUME NEW j \in Jobs, RecordPlanned(j) PROVE CloseInv'
  BY <1>3 DEF RecordPlanned
<1>4. ASSUME TickStart PROVE CloseInv'
  BY <1>4 DEF TickStart
<1>5. ASSUME ReleaseRead PROVE CloseInv'
  BY <1>5 DEF ReleaseRead
<1>6. ASSUME ReleaseWrite PROVE CloseInv'
  BY <1>6 DEF ReleaseWrite
<1>7. ASSUME NEW j \in Jobs, Reserve(j) PROVE CloseInv'
  BY <1>7 DEF Reserve, Reservable, FirstRows
<1>8. ASSUME ReserveNone PROVE CloseInv'
  BY <1>8 DEF ReserveNone, EndTick
<1>9. ASSUME Claim PROVE CloseInv'
  BY <1>9 DEF Claim, EndTick
<1>10. ASSUME NEW o \in Outcomes, Load(o) PROVE CloseInv'
  BY <1>10 DEF Load
<1>11. ASSUME NEW o \in Outcomes, NEW d \in BOOLEAN, Send(o, d) PROVE CloseInv'
  BY <1>11 DEF Send
<1>12. ASSUME OpenCircuit PROVE CloseInv'
  BY <1>12 DEF OpenCircuit
<1>13. ASSUME Complete PROVE CloseInv'
  BY <1>13 DEF Complete, EndTick, CompleteJob
<1>14. ASSUME Publish PROVE CloseInv'
  BY <1>14 DEF Publish, EndTick
<1>15. ASSUME Essence PROVE CloseInv'
  BY <1>15 DEF Essence, EndTick
<1>16. ASSUME CompleteRaised PROVE CloseInv'
  BY <1>16 DEF CompleteRaised, EndTick, CompleteJob
<1>17. ASSUME Raise PROVE CloseInv'
  BY <1>17 DEF Raise
<1>18. ASSUME TickFails PROVE CloseInv'
  BY <1>18 DEF TickFails, EndTick
<1>19. ASSUME Crash PROVE CloseInv'
  BY <1>19 DEF Crash, EndTick
<1>20. ASSUME NEW j \in Jobs, NEW a \in {"retry", "cancel"}, AdminRead(j, a) PROVE CloseInv'
  BY <1>20 DEF AdminRead
<1>21. ASSUME AdminCommit PROVE CloseInv'
  BY <1>21 DEF AdminCommit
<1>22. ASSUME Pause PROVE CloseInv'
  BY <1>22 DEF Pause
<1>23. ASSUME Resume PROVE CloseInv'
  BY <1>23 DEF Resume
<1>24. ASSUME NEW g \in Groups, PolicyChange(g) PROVE CloseInv'
  BY <1>24 DEF PolicyChange
<1>25. ASSUME NEW g \in Groups, GroupEvent(g) PROVE CloseInv'
  BY <1>25 DEF GroupEvent
<1>26. ASSUME UNCHANGED vars PROVE CloseInv'
  BY <1>26 DEF vars
<1> HIDE DEF TypeOK, TickShape, CloseInv, PermitsGroup, AllowsDelivery, Scopes, jobVars, ctlVars, tickVars, admVars, histVars
<1> QED
  BY <1>1, <1>2, <1>3, <1>4, <1>5, <1>6, <1>7, <1>8, <1>9, <1>10, <1>11,
     <1>12, <1>13, <1>14, <1>15, <1>16, <1>17, <1>18, <1>19, <1>20, <1>21,
     <1>22, <1>23, <1>24, <1>25, <1>26
  DEF Next, DispatcherStep

-----------------------------------------------------------------------------

LEMMA InitInv == Init => IInv
<1> SUFFICES ASSUME Init PROVE IInv
  OBVIOUS
<1> USE DEF Init
<1>1. TypeOK
  BY DEF TypeOK, Time, Statuses, Results, Outcomes, Pcs, Scopes
<1>2. TickShape
  BY DEF TickShape
<1>3. LeaseRecoverable
  BY DEF LeaseRecoverable
<1>4. DuplicateInv
  BY DEF DuplicateInv
<1>5. CloseInv
  BY DEF CloseInv
<1>6. AttemptInv
  BY DEF AttemptInv, OutcomeIsAudited, PublicationFollowsAttempt
<1> QED
  BY <1>1, <1>2, <1>3, <1>4, <1>5, <1>6 DEF IInv

\* IInv is an inductive invariant.
THEOREM Invariance == Spec => []IInv
<1>1. IInv /\ [Next]_vars => IInv'
  BY TypeStep, ShapeStep, LeaseStep, DuplicateStep, AttemptStep, CloseStep DEF IInv
<1> QED
  BY InitInv, <1>1, PTL DEF Spec

\* The variables of the outbox and of the dispatcher keep their types.
THEOREM TypeCorrect == Spec => []TypeOK
<1>1. IInv => TypeOK
  BY DEF IInv
<1> QED
  BY Invariance, <1>1, PTL

\* No interleaving of the dispatcher with crashes, exceptions, lease recovery and
\* the owner's unlocked writes sends a job once more than the dispatcher has had
\* a reason to.
THEOREM DuplicatesExplained == Spec => []NoUnexplainedDuplicate
<1>1. IInv => NoUnexplainedDuplicate
  BY DEF IInv, DuplicateInv, NoUnexplainedDuplicate
<1> QED
  BY Invariance, <1>1, PTL

\* A leased job always has a lease time release_expired_leases can compare, and
\* was leased before it expired.
THEOREM LeasesRecoverable == Spec => []LeaseRecoverable
<1>1. IInv => LeaseRecoverable
  BY DEF IInv
<1> QED
  BY Invariance, <1>1, PTL

\* A paused or broken gate lets at most one more message of a group through.
THEOREM CloseStopsDelivery == Spec => []AtMostOneAfterClose
<1>1. IInv => AtMostOneAfterClose
  BY DEF IInv, CloseInv, AtMostOneAfterClose
<1> QED
  BY Invariance, <1>1, PTL

\* Every recorded outcome, of a job or of its publication, has its attempt row.
THEOREM OutcomesAudited == Spec => []OutcomesAreAudited
<1>1. IInv => OutcomesAreAudited
  BY DEF IInv, AttemptInv, OutcomesAreAudited
<1> QED
  BY Invariance, <1>1, PTL

-----------------------------------------------------------------------------

\* A step of Delivery that changes neither the messages sent nor what excuses
\* them is invisible to the courier.
LEMMA Stutter ==
  wire' = wire /\ excused' = excused =>
    [Promise!Next]_<<wire, [j \in Jobs |-> wire[j] = excused[j]]>>
  OBVIOUS

\* Sending spends the credit, unless the call timed out.
LEMMA SendDelivers ==
  ASSUME IInv, NEW o \in Outcomes, NEW d \in BOOLEAN, Send(o, d)
  PROVE  [Promise!Next]_<<wire, [j \in Jobs |-> wire[j] = excused[j]]>>
<1> DEFINE credit == [j \in Jobs |-> wire[j] = excused[j]]
<1>1. cur \in Jobs /\ wire[cur] \in Nat /\ wire \in [Jobs -> Nat] /\ excused \in [Jobs -> Nat]
  BY DEF Send, IInv, TypeOK, TickShape
<1>2. wire[cur] = excused[cur]
  BY <1>1 DEF Send, IInv, DuplicateInv, MayBeSent, Sendable
<1>3. CASE ~d
  BY <1>3, Stutter DEF Send
<1>4. CASE d
  <2>1. wire' = [wire EXCEPT ![cur] = @ + 1]
    BY <1>4 DEF Send
  <2>2. CASE o = "temporary"
    <3>1. excused' = [excused EXCEPT ![cur] = wire[cur] + 1]
      BY <1>4, <2>2 DEF Send
    <3>2. credit' = [credit EXCEPT ![cur] = TRUE]
      BY <1>1, <2>1, <3>1
    <3>3. Promise!Deliver(cur, TRUE)
      BY <1>1, <1>2, <2>1, <3>2 DEF Promise!Deliver
    <3> QED
      BY <1>1, <3>3 DEF Promise!Next
  <2>3. CASE o # "temporary"
    <3>1. excused' = excused
      BY <1>4, <2>3 DEF Send
    <3>2. wire'[cur] # excused'[cur]
      BY <1>1, <1>2, <2>1, <3>1
    <3>3. credit' = [credit EXCEPT ![cur] = FALSE]
      BY <1>1, <2>1, <3>1, <3>2
    <3>4. Promise!Deliver(cur, FALSE)
      BY <1>1, <1>2, <2>1, <3>3 DEF Promise!Deliver
    <3> QED
      BY <1>1, <3>4 DEF Promise!Next
  <2> QED
    BY <2>2, <2>3
<1> QED
  BY <1>3, <1>4

\* Excusing the copies of one job gives its credit back.
LEMMA ExcuseGivesCredit ==
  ASSUME NEW k \in Jobs, wire \in [Jobs -> Nat], excused \in [Jobs -> Nat],
         wire' = wire, excused' = [excused EXCEPT ![k] = wire[k]]
  PROVE  [Promise!Next]_<<wire, [j \in Jobs |-> wire[j] = excused[j]]>>
<1> DEFINE credit == [j \in Jobs |-> wire[j] = excused[j]]
<1>1. credit' = [credit EXCEPT ![k] = TRUE]
  OBVIOUS
<1>2. Promise!Excuse(k)
  BY <1>1 DEF Promise!Excuse
<1> QED
  BY <1>2 DEF Promise!Next

\* Delivery implements Courier: initial states map to initial states and every
\* step maps to a step of the courier or to a stutter.
THEOREM Refinement == Spec => KeepsPromise
<1> DEFINE credit == [j \in Jobs |-> wire[j] = excused[j]]
<1>1. Init => Promise!Init
  BY DEF Init, Promise!Init
<1>2. IInv /\ [Next]_vars => [Promise!Next]_<<wire, credit>>
  <2> SUFFICES ASSUME IInv, [Next]_vars PROVE [Promise!Next]_<<wire, credit>>
    OBVIOUS
  <2> USE DEF histVars
  <2>1. wire \in [Jobs -> Nat] /\ excused \in [Jobs -> Nat]
    BY DEF IInv, TypeOK
  <2>2. ASSUME NEW o \in Outcomes, NEW d \in BOOLEAN, Send(o, d)
        PROVE  [Promise!Next]_<<wire, credit>>
    BY <2>2, SendDelivers
  <2>3. CASE Raise
    <3>1. pc # "load" => cur \in Jobs
      BY <2>3 DEF Raise, IInv, TickShape
    <3> QED
      BY <2>1, <2>3, <3>1, Stutter, ExcuseGivesCredit DEF Raise
  <2>4. CASE Crash
    <3>1. pc = "complete" => cur \in Jobs
      BY DEF IInv, TickShape
    <3> QED
      BY <2>1, <2>4, <3>1, Stutter, ExcuseGivesCredit DEF Crash
  <2>5. CASE AdminCommit
    <3>1. adm_job \in Jobs
      BY <2>5 DEF AdminCommit, IInv, TickShape
    <3> QED
      BY <2>1, <2>5, <3>1, Stutter, ExcuseGivesCredit DEF AdminCommit
  <2>6. CASE wire' = wire /\ excused' = excused
    BY <2>6, Stutter
  <2>7. \/ wire' = wire /\ excused' = excused
        \/ Raise \/ Crash \/ AdminCommit
        \/ \E o \in Outcomes, d \in BOOLEAN : Send(o, d)
    <3>1. CASE UNCHANGED vars
      BY <3>1 DEF vars
    <3>2. CASE Next
      BY <3>2 DEF Next, DispatcherStep, Tick, Enqueue, RecordPlanned, TickStart,
         ReleaseRead, ReleaseWrite, Reserve, ReserveNone, Claim, Load, OpenCircuit,
         Complete, Publish, Essence, CompleteRaised, TickFails, AdminRead, Pause,
         Resume, PolicyChange, GroupEvent
    <3> QED
      BY <3>1, <3>2
  <2> QED
    BY <2>2, <2>3, <2>4, <2>5, <2>6, <2>7
<1> QED
  BY <1>1, <1>2, Invariance, PTL DEF Spec, KeepsPromise, Promise!Spec

=============================================================================

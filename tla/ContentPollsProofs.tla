------------------------- MODULE ContentPollsProofs -------------------------
(***************************************************************************)
(* Theorems about ContentPolls, for any polls, owners, voters and choices. *)
(* The result is final because a vote is written under the lock that the   *)
(* closing of a poll waits for; there is one open poll because a poll is   *)
(* inserted under the lock under which none was found.                     *)
(***************************************************************************)
EXTENDS ContentPolls, FiniteSetTheorems, TLAPS

(* The inductive invariant, in named parts.                                *)

\* OneOpenPoll, without counting.
SinglePoll == \A p, q \in OpenPolls : p = q

\* Who is between a locking read and its commit holds the lock, and what it read
\* is still so.
LockInv ==
  /\ \A a \in Actors : pc[a] = "insert" => lock = a /\ OpenPolls = {}
  /\ \A v \in Voters : v_pc[v] = "write" => lock = v /\ v_poll[v] \in OpenPolls

\* Who closes or announces has a poll that was opened, and a result is announced
\* of a closed one.
AnnouncerInv ==
  \A a \in Actors :
    /\ pc[a] \in {"close", "view", "enqueue"} =>
         poll[a] \in Polls /\ status[poll[a]] # "none"
    /\ pc[a] \in {"view", "enqueue"} => kind[a] # "none"
    /\ pc[a] \in {"view", "enqueue"} /\ kind[a] = "poll_result" =>
         status[poll[a]] = "closed"

\* A result that was counted, or is announced already, is the closed poll's.
CountInv ==
  /\ \A a \in Actors : pc[a] = "enqueue" /\ kind[a] = "poll_result" =>
       view[a] = votes[poll[a]]
  /\ \A j \in jobs : j.kind = "poll_result" =>
       status[j.poll] = "closed" /\ j.view = votes[j.poll]

IInv == TypeOK /\ SinglePoll /\ LockInv /\ AnnouncerInv /\ CountInv

-----------------------------------------------------------------------------

USE PollConstants

\* Every step keeps the variables in their types.
LEMMA TypeStep ==
  TypeOK /\ LockInv /\ AnnouncerInv /\ [Next]_vars => TypeOK'
<1> SUFFICES ASSUME TypeOK, LockInv, AnnouncerInv, [Next]_vars PROVE TypeOK'
  OBVIOUS
<1> USE DEF TypeOK, LockInv, AnnouncerInv, Ballots, Empty, Current, Actors, OpenPolls,
       pollVars, actorVars, voterVars
<1>1. ASSUME Tick PROVE TypeOK'
  BY <1>1 DEF Tick
<1>2. ASSUME NEW p \in Polls, Scan(p) PROVE TypeOK'
  BY <1>2 DEF Scan
<1>3. ASSUME NEW a \in Owners, NEW d \in Durations, OpenCheck(a, d) PROVE TypeOK'
  BY <1>3 DEF OpenCheck
<1>4. ASSUME NEW a \in Owners, NEW p \in Polls, OpenCommit(a, p) PROVE TypeOK'
  BY <1>4 DEF OpenCommit
<1>5. ASSUME NEW a \in Owners, NEW p \in Polls, CloseRequest(a, p) PROVE TypeOK'
  BY <1>5 DEF CloseRequest
<1>6. ASSUME NEW a \in Actors, Close(a) PROVE TypeOK'
  <2>1. CASE status[poll[a]] = "open"
    <3>1. /\ pc[a] = "close" /\ lock = Nobody
          /\ status' = [status EXCEPT ![poll[a]] = "closed"]
          /\ pc' = [pc EXCEPT ![a] = "view"]
          /\ kind' = [kind EXCEPT ![a] = "poll_result"]
          /\ UNCHANGED <<poll, view, window, clock, opens_at, closes_at, votes, jobs, lock,
                         voterVars, faults>>
      BY <1>6, <2>1 DEF Close
    <3>. QED  BY <3>1, <2>1
  <2>2. CASE status[poll[a]] # "open"
    <3>1. EndRequest(a) /\ UNCHANGED <<status, clock, opens_at, closes_at, votes, jobs, lock,
                                       voterVars, faults>>
      BY <1>6, <2>2 DEF Close
    <3>. QED  BY <3>1 DEF EndRequest
  <2>. QED  BY <2>1, <2>2
<1>7. ASSUME NEW a \in Actors, View(a) PROVE TypeOK'
  BY <1>7 DEF View
<1>8. ASSUME NEW a \in Actors, Enqueue(a) PROVE TypeOK'
  BY <1>8 DEF Enqueue, EndRequest
<1>9. ASSUME NEW a \in Actors, Fail(a) PROVE TypeOK'
  BY <1>9 DEF Fail, EndRequest
<1>10. ASSUME NEW v \in Voters, NEW c \in Choices \cup {NoVote}, Ask(v, c) PROVE TypeOK'
  BY <1>10 DEF Ask
<1>11. ASSUME NEW v \in Voters, Select(v) PROVE TypeOK'
  <2>1. CASE Current(v_now[v]) = {}
    <3>1. EndVote(v) /\ UNCHANGED <<clock, pollVars, votes, jobs, lock, actorVars, faults>>
      BY <1>11, <2>1 DEF Select
    <3>. QED  BY <3>1 DEF EndVote
  <2>2. CASE Current(v_now[v]) # {}
    BY <1>11, <2>2 DEF Select
  <2>. QED  BY <2>1, <2>2
<1>12. ASSUME NEW v \in Voters, Write(v) PROVE TypeOK'
  BY <1>12 DEF Write, EndVote
<1>13. ASSUME NEW v \in Voters, VoteFails(v) PROVE TypeOK'
  BY <1>13 DEF VoteFails, EndVote
<1>14. ASSUME UNCHANGED vars PROVE TypeOK'
  BY <1>14 DEF vars
<1>. QED
  BY <1>1, <1>2, <1>3, <1>4, <1>5, <1>6, <1>7, <1>8, <1>9, <1>10, <1>11, <1>12, <1>13,
         <1>14 DEF Next, WorkerStep, OwnerStep, VoterStep, Actors

\* Who holds the lock goes on reading the same rows.
LEMMA LockStep ==
  TypeOK /\ LockInv /\ AnnouncerInv /\ [Next]_vars => LockInv'
<1> SUFFICES ASSUME TypeOK, LockInv, AnnouncerInv, [Next]_vars PROVE LockInv'
  OBVIOUS
<1> USE DEF TypeOK, LockInv, AnnouncerInv, Current, Actors, OpenPolls, pollVars,
       actorVars, voterVars
<1>1. ASSUME Tick PROVE LockInv'
  BY <1>1 DEF Tick
<1>2. ASSUME NEW p \in Polls, Scan(p) PROVE LockInv'
  BY <1>2 DEF Scan
<1>3. ASSUME NEW a \in Owners, NEW d \in Durations, OpenCheck(a, d) PROVE LockInv'
  BY <1>3 DEF OpenCheck
<1>4. ASSUME NEW a \in Owners, NEW p \in Polls, OpenCommit(a, p) PROVE LockInv'
  BY <1>4 DEF OpenCommit
<1>5. ASSUME NEW a \in Owners, NEW p \in Polls, CloseRequest(a, p) PROVE LockInv'
  BY <1>5 DEF CloseRequest
<1>6. ASSUME NEW a \in Actors, Close(a) PROVE LockInv'
  BY <1>6 DEF Close, EndRequest
<1>7. ASSUME NEW a \in Actors, View(a) PROVE LockInv'
  BY <1>7 DEF View
<1>8. ASSUME NEW a \in Actors, Enqueue(a) PROVE LockInv'
  BY <1>8 DEF Enqueue, EndRequest
<1>9. ASSUME NEW a \in Actors, Fail(a) PROVE LockInv'
  BY <1>9 DEF Fail, EndRequest
<1>10. ASSUME NEW v \in Voters, NEW c \in Choices \cup {NoVote}, Ask(v, c) PROVE LockInv'
  BY <1>10 DEF Ask
<1>11. ASSUME NEW v \in Voters, Select(v) PROVE LockInv'
  BY <1>11 DEF Select, EndVote
<1>12. ASSUME NEW v \in Voters, Write(v) PROVE LockInv'
  BY <1>12 DEF Write, EndVote
<1>13. ASSUME NEW v \in Voters, VoteFails(v) PROVE LockInv'
  BY <1>13 DEF VoteFails, EndVote
<1>14. ASSUME UNCHANGED vars PROVE LockInv'
  BY <1>14 DEF vars
<1>. QED
  BY <1>1, <1>2, <1>3, <1>4, <1>5, <1>6, <1>7, <1>8, <1>9, <1>10, <1>11, <1>12, <1>13,
         <1>14 DEF Next, WorkerStep, OwnerStep, VoterStep, Actors

\* A poll is opened only when none is.
LEMMA SingleStep ==
  TypeOK /\ LockInv /\ SinglePoll /\ [Next]_vars => SinglePoll'
<1> SUFFICES ASSUME TypeOK, LockInv, SinglePoll, [Next]_vars PROVE SinglePoll'
  OBVIOUS
<1> USE DEF TypeOK, LockInv, SinglePoll, Actors, OpenPolls, pollVars, actorVars,
       voterVars
<1>1. ASSUME Tick PROVE SinglePoll'
  BY <1>1 DEF Tick
<1>2. ASSUME NEW p \in Polls, Scan(p) PROVE SinglePoll'
  BY <1>2 DEF Scan
<1>3. ASSUME NEW a \in Owners, NEW d \in Durations, OpenCheck(a, d) PROVE SinglePoll'
  BY <1>3 DEF OpenCheck
<1>4. ASSUME NEW a \in Owners, NEW p \in Polls, OpenCommit(a, p) PROVE SinglePoll'
  BY <1>4 DEF OpenCommit
<1>5. ASSUME NEW a \in Owners, NEW p \in Polls, CloseRequest(a, p) PROVE SinglePoll'
  BY <1>5 DEF CloseRequest
<1>6. ASSUME NEW a \in Actors, Close(a) PROVE SinglePoll'
  BY <1>6 DEF Close, EndRequest
<1>7. ASSUME NEW a \in Actors, View(a) PROVE SinglePoll'
  BY <1>7 DEF View
<1>8. ASSUME NEW a \in Actors, Enqueue(a) PROVE SinglePoll'
  BY <1>8 DEF Enqueue, EndRequest
<1>9. ASSUME NEW a \in Actors, Fail(a) PROVE SinglePoll'
  BY <1>9 DEF Fail, EndRequest
<1>10. ASSUME NEW v \in Voters, NEW c \in Choices \cup {NoVote}, Ask(v, c) PROVE SinglePoll'
  BY <1>10 DEF Ask
<1>11. ASSUME NEW v \in Voters, Select(v) PROVE SinglePoll'
  BY <1>11 DEF Select, EndVote
<1>12. ASSUME NEW v \in Voters, Write(v) PROVE SinglePoll'
  BY <1>12 DEF Write, EndVote
<1>13. ASSUME NEW v \in Voters, VoteFails(v) PROVE SinglePoll'
  BY <1>13 DEF VoteFails, EndVote
<1>14. ASSUME UNCHANGED vars PROVE SinglePoll'
  BY <1>14 DEF vars
<1>. QED
  BY <1>1, <1>2, <1>3, <1>4, <1>5, <1>6, <1>7, <1>8, <1>9, <1>10, <1>11, <1>12, <1>13,
         <1>14 DEF Next, WorkerStep, OwnerStep, VoterStep, Actors

\* A closed poll stays closed until its result is announced, and after.
LEMMA AnnouncerStep ==
  TypeOK /\ LockInv /\ AnnouncerInv /\ [Next]_vars => AnnouncerInv'
<1> SUFFICES ASSUME TypeOK, LockInv, AnnouncerInv, [Next]_vars PROVE AnnouncerInv'
  OBVIOUS
<1> USE DEF TypeOK, LockInv, AnnouncerInv, Actors, OpenPolls, pollVars, actorVars,
       voterVars
<1>1. ASSUME Tick PROVE AnnouncerInv'
  BY <1>1 DEF Tick
<1>2. ASSUME NEW p \in Polls, Scan(p) PROVE AnnouncerInv'
  BY <1>2 DEF Scan
<1>3. ASSUME NEW a \in Owners, NEW d \in Durations, OpenCheck(a, d) PROVE AnnouncerInv'
  BY <1>3 DEF OpenCheck
<1>4. ASSUME NEW a \in Owners, NEW p \in Polls, OpenCommit(a, p) PROVE AnnouncerInv'
  BY <1>4 DEF OpenCommit
<1>5. ASSUME NEW a \in Owners, NEW p \in Polls, CloseRequest(a, p) PROVE AnnouncerInv'
  BY <1>5 DEF CloseRequest
<1>6. ASSUME NEW a \in Actors, Close(a) PROVE AnnouncerInv'
  <2>1. CASE status[poll[a]] = "open"
    <3>1. /\ pc[a] = "close" /\ lock = Nobody
          /\ status' = [status EXCEPT ![poll[a]] = "closed"]
          /\ pc' = [pc EXCEPT ![a] = "view"]
          /\ kind' = [kind EXCEPT ![a] = "poll_result"]
          /\ UNCHANGED <<poll, view, window, clock, opens_at, closes_at, votes, jobs, lock,
                         voterVars, faults>>
      BY <1>6, <2>1 DEF Close
    <3>. QED  BY <3>1, <2>1
  <2>2. CASE status[poll[a]] # "open"
    <3>1. EndRequest(a) /\ UNCHANGED <<status, clock, opens_at, closes_at, votes, jobs, lock,
                                       voterVars, faults>>
      BY <1>6, <2>2 DEF Close
    <3>. QED  BY <3>1 DEF EndRequest
  <2>. QED  BY <2>1, <2>2
<1>7. ASSUME NEW a \in Actors, View(a) PROVE AnnouncerInv'
  BY <1>7 DEF View
<1>8. ASSUME NEW a \in Actors, Enqueue(a) PROVE AnnouncerInv'
  BY <1>8 DEF Enqueue, EndRequest
<1>9. ASSUME NEW a \in Actors, Fail(a) PROVE AnnouncerInv'
  BY <1>9 DEF Fail, EndRequest
<1>10. ASSUME NEW v \in Voters, NEW c \in Choices \cup {NoVote}, Ask(v, c) PROVE AnnouncerInv'
  BY <1>10 DEF Ask
<1>11. ASSUME NEW v \in Voters, Select(v) PROVE AnnouncerInv'
  BY <1>11 DEF Select, EndVote
<1>12. ASSUME NEW v \in Voters, Write(v) PROVE AnnouncerInv'
  BY <1>12 DEF Write, EndVote
<1>13. ASSUME NEW v \in Voters, VoteFails(v) PROVE AnnouncerInv'
  BY <1>13 DEF VoteFails, EndVote
<1>14. ASSUME UNCHANGED vars PROVE AnnouncerInv'
  BY <1>14 DEF vars
<1>. QED
  BY <1>1, <1>2, <1>3, <1>4, <1>5, <1>6, <1>7, <1>8, <1>9, <1>10, <1>11, <1>12, <1>13,
         <1>14 DEF Next, WorkerStep, OwnerStep, VoterStep, Actors

\* Only the votes of an open poll change.
LEMMA CountStep ==
  TypeOK /\ LockInv /\ AnnouncerInv /\ CountInv /\ [Next]_vars => CountInv'
<1> SUFFICES ASSUME TypeOK, LockInv, AnnouncerInv, CountInv, [Next]_vars PROVE CountInv'
  OBVIOUS
<1> USE DEF TypeOK, LockInv, AnnouncerInv, CountInv, Actors, OpenPolls, pollVars,
       actorVars, voterVars
<1>1. ASSUME Tick PROVE CountInv'
  BY <1>1 DEF Tick
<1>2. ASSUME NEW p \in Polls, Scan(p) PROVE CountInv'
  BY <1>2 DEF Scan
<1>3. ASSUME NEW a \in Owners, NEW d \in Durations, OpenCheck(a, d) PROVE CountInv'
  BY <1>3 DEF OpenCheck
<1>4. ASSUME NEW a \in Owners, NEW p \in Polls, OpenCommit(a, p) PROVE CountInv'
  BY <1>4 DEF OpenCommit
<1>5. ASSUME NEW a \in Owners, NEW p \in Polls, CloseRequest(a, p) PROVE CountInv'
  BY <1>5 DEF CloseRequest
<1>6. ASSUME NEW a \in Actors, Close(a) PROVE CountInv'
  <2>1. CASE status[poll[a]] = "open"
    <3>1. /\ pc[a] = "close" /\ lock = Nobody
          /\ status' = [status EXCEPT ![poll[a]] = "closed"]
          /\ pc' = [pc EXCEPT ![a] = "view"]
          /\ kind' = [kind EXCEPT ![a] = "poll_result"]
          /\ UNCHANGED <<poll, view, window, clock, opens_at, closes_at, votes, jobs, lock,
                         voterVars, faults>>
      BY <1>6, <2>1 DEF Close
    <3>. QED  BY <3>1, <2>1
  <2>2. CASE status[poll[a]] # "open"
    <3>1. EndRequest(a) /\ UNCHANGED <<status, clock, opens_at, closes_at, votes, jobs, lock,
                                       voterVars, faults>>
      BY <1>6, <2>2 DEF Close
    <3>. QED  BY <3>1 DEF EndRequest
  <2>. QED  BY <2>1, <2>2
<1>7. ASSUME NEW a \in Actors, View(a) PROVE CountInv'
  BY <1>7 DEF View
<1>8. ASSUME NEW a \in Actors, Enqueue(a) PROVE CountInv'
  BY <1>8 DEF Enqueue, EndRequest
<1>9. ASSUME NEW a \in Actors, Fail(a) PROVE CountInv'
  BY <1>9 DEF Fail, EndRequest
<1>10. ASSUME NEW v \in Voters, NEW c \in Choices \cup {NoVote}, Ask(v, c) PROVE CountInv'
  BY <1>10 DEF Ask
<1>11. ASSUME NEW v \in Voters, Select(v) PROVE CountInv'
  BY <1>11 DEF Select, EndVote
<1>12. ASSUME NEW v \in Voters, Write(v) PROVE CountInv'
  BY <1>12 DEF Write, EndVote
<1>13. ASSUME NEW v \in Voters, VoteFails(v) PROVE CountInv'
  BY <1>13 DEF VoteFails, EndVote
<1>14. ASSUME UNCHANGED vars PROVE CountInv'
  BY <1>14 DEF vars
<1>. QED
  BY <1>1, <1>2, <1>3, <1>4, <1>5, <1>6, <1>7, <1>8, <1>9, <1>10, <1>11, <1>12, <1>13,
         <1>14 DEF Next, WorkerStep, OwnerStep, VoterStep, Actors

\* A poll that is closed stays closed, with the votes it has: no step of anybody
\* changes them (PollService.vote and cancel_vote require the open row they lock).
ClosedStays ==
  \A p \in Polls : status[p] = "closed" =>
    status'[p] = "closed" /\ votes'[p] = votes[p]

\* Who opens takes a fresh poll, who closes an open one, and who writes a vote has
\* locked an open one.
LEMMA ClosedStep ==
  TypeOK /\ LockInv /\ AnnouncerInv /\ [Next]_vars => ClosedStays
<1> SUFFICES ASSUME TypeOK, LockInv, AnnouncerInv, [Next]_vars PROVE ClosedStays
  OBVIOUS
<1> USE DEF TypeOK, LockInv, AnnouncerInv, ClosedStays, Actors, OpenPolls, pollVars,
       actorVars, voterVars
<1>1. ASSUME Tick PROVE ClosedStays
  BY <1>1 DEF Tick
<1>2. ASSUME NEW p \in Polls, Scan(p) PROVE ClosedStays
  BY <1>2 DEF Scan
<1>3. ASSUME NEW a \in Owners, NEW d \in Durations, OpenCheck(a, d) PROVE ClosedStays
  BY <1>3 DEF OpenCheck
<1>4. ASSUME NEW a \in Owners, NEW p \in Polls, OpenCommit(a, p) PROVE ClosedStays
  BY <1>4 DEF OpenCommit
<1>5. ASSUME NEW a \in Owners, NEW p \in Polls, CloseRequest(a, p) PROVE ClosedStays
  BY <1>5 DEF CloseRequest
<1>6. ASSUME NEW a \in Actors, Close(a) PROVE ClosedStays
  <2>1. CASE status[poll[a]] = "open"
    <3>1. /\ pc[a] = "close" /\ lock = Nobody
          /\ status' = [status EXCEPT ![poll[a]] = "closed"]
          /\ pc' = [pc EXCEPT ![a] = "view"]
          /\ kind' = [kind EXCEPT ![a] = "poll_result"]
          /\ UNCHANGED <<poll, view, window, clock, opens_at, closes_at, votes, jobs, lock,
                         voterVars, faults>>
      BY <1>6, <2>1 DEF Close
    <3>. QED  BY <3>1, <2>1
  <2>2. CASE status[poll[a]] # "open"
    <3>1. EndRequest(a) /\ UNCHANGED <<status, clock, opens_at, closes_at, votes, jobs, lock,
                                       voterVars, faults>>
      BY <1>6, <2>2 DEF Close
    <3>. QED  BY <3>1 DEF EndRequest
  <2>. QED  BY <2>1, <2>2
<1>7. ASSUME NEW a \in Actors, View(a) PROVE ClosedStays
  BY <1>7 DEF View
<1>8. ASSUME NEW a \in Actors, Enqueue(a) PROVE ClosedStays
  BY <1>8 DEF Enqueue, EndRequest
<1>9. ASSUME NEW a \in Actors, Fail(a) PROVE ClosedStays
  BY <1>9 DEF Fail, EndRequest
<1>10. ASSUME NEW v \in Voters, NEW c \in Choices \cup {NoVote}, Ask(v, c) PROVE ClosedStays
  BY <1>10 DEF Ask
<1>11. ASSUME NEW v \in Voters, Select(v) PROVE ClosedStays
  BY <1>11 DEF Select, EndVote
<1>12. ASSUME NEW v \in Voters, Write(v) PROVE ClosedStays
  BY <1>12 DEF Write, EndVote
<1>13. ASSUME NEW v \in Voters, VoteFails(v) PROVE ClosedStays
  BY <1>13 DEF VoteFails, EndVote
<1>14. ASSUME UNCHANGED vars PROVE ClosedStays
  BY <1>14 DEF vars
<1>. QED
  BY <1>1, <1>2, <1>3, <1>4, <1>5, <1>6, <1>7, <1>8, <1>9, <1>10, <1>11, <1>12, <1>13,
         <1>14 DEF Next, WorkerStep, OwnerStep, VoterStep, Actors

-----------------------------------------------------------------------------

\* The invariant holds initially and is kept by every step.
THEOREM Invariance == Spec => []IInv
<1>1. Init => IInv
  BY DEF Init, IInv, TypeOK, SinglePoll, LockInv, AnnouncerInv, CountInv, OpenPolls,
         Ballots, Empty, Actors
<1>2. IInv /\ [Next]_vars => IInv'
  BY TypeStep, LockStep, SingleStep, AnnouncerStep, CountStep DEF IInv
<1>. QED  BY <1>1, <1>2, PTL DEF Spec

\* At most one element: the set is empty or a singleton.
LEMMA SingleIsOne == SinglePoll => OneOpenPoll
<1> SUFFICES ASSUME SinglePoll PROVE Cardinality(OpenPolls) <= 1
  BY DEF OneOpenPoll
<1>1. CASE OpenPolls = {}
  BY <1>1, FS_EmptySet
<1>2. CASE OpenPolls # {}
  <2>1. PICK p \in OpenPolls : TRUE
    BY <1>2
  <2>2. OpenPolls = {p}
    BY <2>1 DEF SinglePoll
  <2>3. Cardinality(OpenPolls) = 1
    BY <2>2, FS_Singleton
  <2>. QED  BY <2>3
<1>. QED  BY <1>1, <1>2

\* The rows and the requests at work on them fit together: the types hold, no two polls
\* of the group are open at a time, and results are final (PollService.open_poll, vote).
THEOREM PollsAlwaysConsistent == Spec => []PollsAreConsistent
<1>1. IInv => PollsAreConsistent
  BY SingleIsOne DEF IInv, CountInv, PollsAreConsistent, ResultIsFinal
<1>. QED  BY <1>1, Invariance, PTL

\* The announced result stays the poll's result, whoever votes while it is closed and
\* counted (PollService.vote, close_poll, get).
THEOREM ResultsAreFinal == Spec => []ResultIsFinal
<1>1. IInv => ResultIsFinal
  BY DEF IInv, CountInv, ResultIsFinal
<1>. QED  BY <1>1, Invariance, PTL

\* No vote and no request changes a closed poll (polls.py: vote, cancel_vote, close_poll).
THEOREM ClosedForGood == Spec => [][ClosedStays]_vars
<1>1. IInv /\ [Next]_vars => [ClosedStays]_vars
  BY ClosedStep DEF IInv
<1>. QED  BY <1>1, Invariance, PTL DEF Spec

-----------------------------------------------------------------------------
(* The group's ballot: every step is one of its steps or leaves it alone.  *)

\* The announcement of a result adds it to what was announced, unless it is there.
LEMMA Announced ==
  ASSUME NEW k, NEW p, NEW w, jobs' = jobs \cup {[kind |-> k, poll |-> p, view |-> w]}
  PROVE  Results' = IF k = "poll_result" THEN Results \cup {[poll |-> p, view |-> w]}
                     ELSE Results
<1> DEFINE job == [kind |-> k, poll |-> p, view |-> w]
           Says(r, j) == j.kind = "poll_result" /\ r = [poll |-> j.poll, view |-> j.view]
<1>1. \A r : r \in Results <=> \E j \in jobs : Says(r, j)
  BY DEF Results
<1>2. \A r : r \in Results' <=> \E j \in jobs' : Says(r, j)
  BY DEF Results
<1>3. \A r : Says(r, job) <=> k = "poll_result" /\ r = [poll |-> p, view |-> w]
  OBVIOUS
<1> HIDE DEF job, Says
<1>4. jobs' = jobs \cup {job}
  BY DEF job
<1>5. \A r : r \in Results' <=> r \in Results \/ Says(r, job)
  BY <1>1, <1>2, <1>4
<1>. QED  BY <1>3, <1>5

LEMMA BallotStep ==
  ASSUME IInv, [Next]_vars
  PROVE  [Group!Next]_<<status, votes, Results>>
<1>0. TypeOK /\ LockInv /\ AnnouncerInv /\ CountInv
  BY DEF IInv
<1>a. jobs' = jobs => Results' = Results
  BY DEF Results
<1> DEFINE Stays == UNCHANGED <<status, votes, Results>>
<1>1. ASSUME NEW a \in Owners, NEW p \in Polls, OpenCommit(a, p) PROVE Group!Open(p)
  <2>1. \A q \in Polls : status[q] # "open"
    BY <1>0, <1>1 DEF OpenCommit, LockInv, OpenPolls, Actors
  <2>. QED  BY <1>1, <1>a, <2>1 DEF OpenCommit, Group!Open
<1>2. ASSUME NEW a \in Actors, Close(a) PROVE Stays \/ \E p \in Polls : Group!Close(p)
  <2>1. poll[a] \in Polls /\ UNCHANGED <<votes, jobs>>
    BY <1>0, <1>2 DEF Close, AnnouncerInv
  <2>2. CASE status[poll[a]] = "open"
    BY <1>2, <1>a, <2>1, <2>2 DEF Close, Group!Close
  <2>3. CASE status[poll[a]] # "open"
    BY <1>2, <1>a, <2>1, <2>3 DEF Close
  <2>. QED  BY <2>2, <2>3
<1>3. ASSUME NEW a \in Actors, Enqueue(a) PROVE Stays \/ \E p \in Polls : Group!Announce(p)
  <2>1. UNCHANGED <<status, votes>> /\ pc[a] = "enqueue" /\ poll[a] \in Polls
    BY <1>0, <1>3 DEF Enqueue, AnnouncerInv, pollVars
  <2>2. CASE \E j \in jobs : j.kind = kind[a] /\ j.poll = poll[a]
    BY <1>3, <1>a, <2>1, <2>2 DEF Enqueue
  <2>3. CASE ~ \E j \in jobs : j.kind = kind[a] /\ j.poll = poll[a]
    <3>1. jobs' = jobs \cup {[kind |-> kind[a], poll |-> poll[a], view |-> view[a]]}
      BY <1>3, <2>3 DEF Enqueue
    <3>2. Results' = IF kind[a] = "poll_result"
                       THEN Results \cup {[poll |-> poll[a], view |-> view[a]]}
                       ELSE Results
      BY <3>1, Announced
    <3>3. CASE kind[a] # "poll_result"
      BY <2>1, <3>2, <3>3
    <3>4. CASE kind[a] = "poll_result"
      <4>1. status[poll[a]] = "closed" /\ view[a] = votes[poll[a]]
        BY <1>0, <2>1, <3>4 DEF AnnouncerInv, CountInv
      <4>2. \A r \in Results : r.poll # poll[a]
        BY <2>3, <3>4 DEF Results
      <4>. QED  BY <2>1, <3>2, <3>4, <4>1, <4>2 DEF Group!Announce
    <3>. QED  BY <3>3, <3>4
  <2>. QED  BY <2>2, <2>3
<1>4. ASSUME NEW v \in Voters, Write(v)
      PROVE  \E p \in Polls, c \in Choices \cup {NoVote} : Group!Vote(p, v, c)
  <2>1. v_poll[v] \in Polls /\ status[v_poll[v]] = "open" /\ v_choice[v] \in Choices \cup {NoVote}
    BY <1>0, <1>4 DEF Write, LockInv, OpenPolls, TypeOK
  <2>2. Group!Vote(v_poll[v], v, v_choice[v])
    BY <1>4, <1>a, <2>1 DEF Write, Group!Vote, pollVars
  <2>. QED  BY <2>1, <2>2
<1>5. CASE UNCHANGED <<status, votes, jobs>>
  BY <1>5, <1>a
<1>6. \/ UNCHANGED <<status, votes, jobs>>
      \/ \E a \in Owners, p \in Polls : OpenCommit(a, p)
      \/ \E a \in Actors : Close(a) \/ Enqueue(a)
      \/ \E v \in Voters : Write(v)
  BY DEF Next, vars, WorkerStep, OwnerStep, VoterStep, Actors, pollVars, Tick, Scan, View,
         OpenCheck, CloseRequest, Ask, Select, Fail, VoteFails
<1>. QED  BY <1>1, <1>2, <1>3, <1>4, <1>5, <1>6 DEF Group!Next

\* The requests, the worker and the voters are to their group one ballot box, step by
\* step (polls.py:92, 244, 304).
THEOREM PollsKeepBallot == Spec => KeepsBallot
<1>1. Init => Group!Init
  BY DEF Init, Group!Init, Results, Empty
<1>2. IInv /\ [Next]_vars => [Group!Next]_<<status, votes, Results>>
  BY BallotStep
<1>. QED  BY <1>1, <1>2, Invariance, PTL DEF Spec, KeepsBallot, Group!Spec

=============================================================================

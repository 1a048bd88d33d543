---------------------------- MODULE ContentPolls ----------------------------
(***************************************************************************)
(* The polls of one group: PollService, the owner's requests that open and *)
(* close a poll, the worker that closes an expired one, and the members    *)
(* who vote.  Whoever opens or closes a poll announces it afterwards, in   *)
(* transactions of their own; the publication row that is inserted last is *)
(* Delivery's RecordPlanned.                                               *)
(*                                                                         *)
(* A transaction of a voter, and the opening of a poll, lock the group's   *)
(* rows and are two actions, the locking read and the commit; closing is   *)
(* one UPDATE, which waits for that lock.                                  *)
(***************************************************************************)
EXTENDS Naturals, FiniteSets

CONSTANTS
  Polls,      \* numbered in the order of their opening
  Owners,     \* requests of the owner's console that are served at a time
  Worker,     \* the worker's loop
  Voters,     \* members of the group
  Choices,    \* positions of the candidates
  NoVote, Nobody, NoPoll,
  Durations,  \* duration_hours
  MaxClock,   \* bound: the clock
  MaxFaults   \* bound: exceptions and crashes

Actors == Owners \cup {Worker}

ASSUME PollConstants ==
  /\ Polls \subseteq Nat /\ NoPoll \notin Polls
  /\ Worker \notin Owners \cup Voters \cup {Nobody} /\ Owners \cap Voters = {}
  /\ Nobody \notin Owners \cup Voters
  /\ NoVote \notin Choices
  /\ Durations \subseteq Nat \ {0}
  /\ MaxClock \in Nat /\ MaxFaults \in Nat

Ballots == [Voters -> Choices \cup {NoVote}]
Empty   == [v \in Voters |-> NoVote]

VARIABLES
  clock,
  (* content_polls, content_poll_votes *)
  status, opens_at, closes_at, votes,
  (* notification_jobs of the polls *)
  jobs,
  (* who holds the lock on the group's rows *)
  lock,
  (* an owner's request or the worker: its step, poll, announcement, times *)
  pc, poll, kind, view, window,
  (* a voter's request: its step, choice, reading of the clock, poll *)
  v_pc, v_choice, v_now, v_poll,
  faults

pollVars  == <<status, opens_at, closes_at>>
actorVars == <<pc, poll, kind, view, window>>
voterVars == <<v_pc, v_choice, v_now, v_poll>>
vars == <<clock, pollVars, votes, jobs, lock, actorVars, voterVars, faults>>

Init ==
  /\ clock = 0
  /\ status = [p \in Polls |-> "none"]
  /\ opens_at = [p \in Polls |-> 0] /\ closes_at = [p \in Polls |-> 0]
  /\ votes = [p \in Polls |-> Empty]
  /\ jobs = {}
  /\ lock = Nobody
  /\ pc = [a \in Actors |-> "idle"]
  /\ poll = [a \in Actors |-> NoPoll]
  /\ kind = [a \in Actors |-> "none"]
  /\ view = [a \in Actors |-> Empty]
  /\ window = [a \in Actors |-> <<0, 0>>]
  /\ v_pc = [v \in Voters |-> "idle"]
  /\ v_choice = [v \in Voters |-> NoVote]
  /\ v_now = [v \in Voters |-> 0]
  /\ v_poll = [v \in Voters |-> NoPoll]
  /\ faults = 0

Tick ==
  /\ clock < MaxClock
  /\ clock' = clock + 1
  /\ UNCHANGED <<pollVars, votes, jobs, lock, actorVars, voterVars, faults>>

-----------------------------------------------------------------------------
(* Opening and closing *)

OpenPolls == {p \in Polls : status[p] = "open"}

\* An actor's request is over.
EndRequest(a) ==
  /\ pc' = [pc EXCEPT ![a] = "idle"]
  /\ poll' = [poll EXCEPT ![a] = NoPoll]
  /\ kind' = [kind EXCEPT ![a] = "none"]
  /\ view' = [view EXCEPT ![a] = Empty]
  /\ window' = [window EXCEPT ![a] = <<0, 0>>]

\* Mutant: the group's row is read without locking it.
OpenCheckUnlocked(a, d) ==
  /\ pc[a] = "idle"
  /\ OpenPolls = {} /\ \E p \in Polls : status[p] = "none"
  /\ pc' = [pc EXCEPT ![a] = "insert"]
  /\ window' = [window EXCEPT ![a] = <<clock, clock + d>>]
  /\ UNCHANGED <<clock, pollVars, votes, jobs, lock, poll, kind, view, voterVars, faults>>

\* open_content_poll reads the clock, and PollService.open_poll locks the group's
\* row and looks for an open poll (if there is one, or no id is left, nothing
\* happens) ...
OpenCheck(a, d) ==
  /\ pc[a] = "idle" /\ lock = Nobody
  /\ OpenPolls = {} /\ \E p \in Polls : status[p] = "none"
  /\ pc' = [pc EXCEPT ![a] = "insert"]
  /\ window' = [window EXCEPT ![a] = <<clock, clock + d>>]
  /\ lock' = a
  /\ UNCHANGED <<clock, pollVars, votes, jobs, poll, kind, view, voterVars, faults>>

\* ... and inserts the poll with its candidates.
OpenCommit(a, p) ==
  /\ pc[a] = "insert"
  /\ status[p] = "none" /\ \A q \in Polls : q < p => status[q] # "none"
  /\ status' = [status EXCEPT ![p] = "open"]
  /\ opens_at' = [opens_at EXCEPT ![p] = window[a][1]]
  /\ closes_at' = [closes_at EXCEPT ![p] = window[a][2]]
  /\ lock' = IF lock = a THEN Nobody ELSE lock
  /\ pc' = [pc EXCEPT ![a] = "view"]
  /\ poll' = [poll EXCEPT ![a] = p]
  /\ kind' = [kind EXCEPT ![a] = "poll_open"]
  /\ window' = [window EXCEPT ![a] = <<0, 0>>]
  /\ UNCHANGED <<clock, votes, jobs, view, voterVars, faults>>

\* close_content_poll, for any poll the console shows.
CloseRequest(a, p) ==
  /\ pc[a] = "idle" /\ status[p] # "none"
  /\ pc' = [pc EXCEPT ![a] = "close"]
  /\ poll' = [poll EXCEPT ![a] = p]
  /\ UNCHANGED <<clock, pollVars, votes, jobs, lock, kind, view, window, voterVars, faults>>

\* The query of _close_expired_polls.
Scan(p) ==
  /\ pc[Worker] = "idle"
  /\ status[p] = "open" /\ closes_at[p] <= clock
  /\ pc' = [pc EXCEPT ![Worker] = "close"]
  /\ poll' = [poll EXCEPT ![Worker] = p]
  /\ UNCHANGED <<clock, pollVars, votes, jobs, lock, kind, view, window,
                 voterVars, faults>>

\* Mutant: who finds the poll closed announces it, who closes it does not.
CloseForOther(a) ==
  /\ pc[a] = "close" /\ lock = Nobody
  /\ IF status[poll[a]] = "open"
       THEN /\ status' = [status EXCEPT ![poll[a]] = "closed"]
            /\ EndRequest(a)
       ELSE /\ pc' = [pc EXCEPT ![a] = "view"]
            /\ kind' = [kind EXCEPT ![a] = "poll_result"]
            /\ UNCHANGED <<status, poll, view, window>>
  /\ UNCHANGED <<clock, opens_at, closes_at, votes, jobs, lock, voterVars,
                 faults>>

\* PollService.close_poll: an UPDATE on the condition that the poll is open.  Who
\* finds it closed gives up.
Close(a) ==
  /\ pc[a] = "close" /\ lock = Nobody
  /\ IF status[poll[a]] = "open"
       THEN /\ status' = [status EXCEPT ![poll[a]] = "closed"]
            /\ pc' = [pc EXCEPT ![a] = "view"]
            /\ kind' = [kind EXCEPT ![a] = "poll_result"]
            /\ UNCHANGED <<poll, view, window>>
       ELSE EndRequest(a) /\ UNCHANGED status
  /\ UNCHANGED <<clock, opens_at, closes_at, votes, jobs, lock, voterVars,
                 faults>>

-----------------------------------------------------------------------------
(* Announcing *)

\* PollService.get counts the votes.
View(a) ==
  /\ pc[a] = "view"
  /\ view' = [view EXCEPT ![a] = votes[poll[a]]]
  /\ pc' = [pc EXCEPT ![a] = "enqueue"]
  /\ UNCHANGED <<clock, pollVars, votes, jobs, lock, poll, kind, window,
                 voterVars, faults>>

\* OutboxRepository.enqueue; the announcement's key is its kind and the poll.
Enqueue(a) ==
  /\ pc[a] = "enqueue"
  /\ jobs' = IF \E j \in jobs : j.kind = kind[a] /\ j.poll = poll[a] THEN jobs
             ELSE jobs \cup {[kind |-> kind[a], poll |-> poll[a], view |-> view[a]]}
  /\ EndRequest(a)
  /\ UNCHANGED <<clock, pollVars, votes, lock, voterVars, faults>>

\* A step raises or the process dies: an open transaction is rolled back.
Fail(a) ==
  /\ pc[a] # "idle" /\ faults < MaxFaults
  /\ faults' = faults + 1
  /\ lock' = IF lock = a THEN Nobody ELSE lock
  /\ EndRequest(a)
  /\ UNCHANGED <<clock, pollVars, votes, jobs, voterVars>>

-----------------------------------------------------------------------------
(* Voting *)

\* A voter's request is over.
EndVote(v) ==
  /\ v_pc' = [v_pc EXCEPT ![v] = "idle"]
  /\ v_choice' = [v_choice EXCEPT ![v] = NoVote]
  /\ v_now' = [v_now EXCEPT ![v] = 0]
  /\ v_poll' = [v_poll EXCEPT ![v] = NoPoll]

\* The chat command, to vote or (NoVote) to take the vote back, reads the clock.
Ask(v, c) ==
  /\ v_pc[v] = "idle"
  /\ v_pc' = [v_pc EXCEPT ![v] = "asked"]
  /\ v_choice' = [v_choice EXCEPT ![v] = c]
  /\ v_now' = [v_now EXCEPT ![v] = clock]
  /\ UNCHANGED <<clock, pollVars, votes, jobs, lock, actorVars, v_poll, faults>>

\* The open poll at the time the voter's request came in.
Current(t) == {p \in OpenPolls : opens_at[p] <= t /\ t < closes_at[p]}

\* Mutant: the poll's row is read without locking it.
SelectUnlocked(v) ==
  /\ v_pc[v] = "asked"
  /\ IF Current(v_now[v]) = {}
       THEN EndVote(v)
       ELSE /\ \E p \in Current(v_now[v]) : v_poll' = [v_poll EXCEPT ![v] = p]
            /\ v_pc' = [v_pc EXCEPT ![v] = "write"]
            /\ UNCHANGED <<v_choice, v_now>>
  /\ UNCHANGED <<clock, pollVars, votes, jobs, lock, actorVars, faults>>

\* The SELECT ... FOR UPDATE of vote and cancel_vote: a row that was closed
\* while it waited for the lock no longer matches.
Select(v) ==
  /\ v_pc[v] = "asked" /\ lock = Nobody
  /\ IF Current(v_now[v]) = {}
       THEN EndVote(v) /\ UNCHANGED lock
       ELSE /\ \E p \in Current(v_now[v]) : v_poll' = [v_poll EXCEPT ![v] = p]
            /\ v_pc' = [v_pc EXCEPT ![v] = "write"]
            /\ lock' = v
            /\ UNCHANGED <<v_choice, v_now>>
  /\ UNCHANGED <<clock, pollVars, votes, jobs, actorVars, faults>>

\* The upsert, or the delete, and the commit.
Write(v) ==
  /\ v_pc[v] = "write"
  /\ votes' = [votes EXCEPT ![v_poll[v]][v] = v_choice[v]]
  /\ lock' = IF lock = v THEN Nobody ELSE lock
  /\ EndVote(v)
  /\ UNCHANGED <<clock, pollVars, jobs, actorVars, faults>>

VoteFails(v) ==
  /\ v_pc[v] = "write" /\ faults < MaxFaults
  /\ faults' = faults + 1
  /\ lock' = IF lock = v THEN Nobody ELSE lock
  /\ EndVote(v)
  /\ UNCHANGED <<clock, pollVars, votes, jobs, actorVars>>

-----------------------------------------------------------------------------

WorkerStep ==
  \/ \E p \in Polls : Scan(p)
  \/ Close(Worker) \/ View(Worker) \/ Enqueue(Worker)

OwnerStep(a) ==
  \/ \E p \in Polls : OpenCommit(a, p)
  \/ Close(a) \/ View(a) \/ Enqueue(a)

VoterStep(v) == Select(v) \/ Write(v)

Next ==
  \/ Tick
  \/ WorkerStep
  \/ \E a \in Owners : \/ OwnerStep(a)
                       \/ \E d \in Durations : OpenCheck(a, d)
                       \/ \E p \in Polls : CloseRequest(a, p)
  \/ \E v \in Voters : VoterStep(v) \/ \E c \in Choices \cup {NoVote} : Ask(v, c)
  \/ \E a \in Actors : Fail(a)
  \/ \E v \in Voters : VoteFails(v)

Spec == Init /\ [][Next]_vars

\* Time passes, the worker's loop goes on, a request that has begun is served to
\* its end, and a lock is granted to one who waits for it again and again.
FairSpec ==
  /\ Spec
  /\ WF_vars(Tick)
  /\ WF_vars(WorkerStep) /\ SF_vars(Close(Worker))
  /\ \A a \in Owners : WF_vars(OwnerStep(a)) /\ SF_vars(Close(a))
  /\ \A v \in Voters : WF_vars(VoterStep(v))

-----------------------------------------------------------------------------
(* Properties *)

TypeOK ==
  /\ clock \in Nat /\ faults \in Nat
  /\ status \in [Polls -> {"none", "open", "closed"}]
  /\ opens_at \in [Polls -> Nat] /\ closes_at \in [Polls -> Nat]
  /\ votes \in [Polls -> Ballots]
  /\ jobs \subseteq [kind : {"poll_open", "poll_result"}, poll : Polls, view : Ballots]
  /\ lock \in Owners \cup Voters \cup {Nobody}
  /\ pc \in [Actors -> {"idle", "insert", "close", "view", "enqueue"}]
  /\ poll \in [Actors -> Polls \cup {NoPoll}]
  /\ kind \in [Actors -> {"none", "poll_open", "poll_result"}]
  /\ view \in [Actors -> Ballots]
  /\ window \in [Actors -> Nat \X Nat]
  /\ v_pc \in [Voters -> {"idle", "asked", "write"}]
  /\ v_choice \in [Voters -> Choices \cup {NoVote}]
  /\ v_now \in [Voters -> Nat]
  /\ v_poll \in [Voters -> Polls \cup {NoPoll}]

\* A group has one open poll at a time, whatever the requests that open and close
\* polls are doing.
OneOpenPoll == Cardinality(OpenPolls) <= 1

\* The announced result is the poll's result for ever: no vote that was being
\* written while the poll was closed and counted changes it afterwards.
ResultIsFinal ==
  \A j \in jobs : j.kind = "poll_result" => j.view = votes[j.poll]

\* The rows of the polls and the requests at work on them fit together (polls.py:92), and
\* what was announced of a poll is what was voted.
PollsAreConsistent == TypeOK /\ OneOpenPoll /\ ResultIsFinal

\* A poll whose time is over gets its result, whether the worker or the owner
\* closes it, unless a step fails.
EveryPollIsAnnounced ==
  \A p \in Polls :
    (status[p] = "open" /\ closes_at[p] <= MaxClock)
      ~> (faults > 0 \/ \E j \in jobs : j.kind = "poll_result" /\ j.poll = p)

\* What has been announced: of which poll, and what it says of each member's vote.
Results ==
  {[poll |-> j.poll, view |-> j.view] : j \in {k \in jobs : k.kind = "poll_result"}}

Group == INSTANCE Ballot WITH results <- Results

\* Requests, votes and the worker, with their locks, steps and failures, are to the group
\* one ballot box: an opening, a vote, a closing and the announcement of its count
\* are one step each (polls.py:92, 244, 304).
KeepsBallot == Group!Spec

=============================================================================

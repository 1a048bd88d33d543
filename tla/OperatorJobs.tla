---------------------------- MODULE OperatorJobs ----------------------------
(***************************************************************************)
(* Jobs for the worker: the owner's commands and the catalogue searches    *)
(* that the chat asks for.  The worker takes one at the end of each of its *)
(* iterations, with the time at which the iteration began.                 *)
(*                                                                         *)
(* Time is relative: `held` is how long ago the lease of a running job     *)
(* began, `lag` how long ago the iteration.                                *)
(***************************************************************************)
EXTENDS Naturals, FiniteSets, Sequences, SequencesExt

CONSTANTS
  Keys,          \* idempotency keys
  Poison,        \* those whose handler kills the worker
  NoKey,
  LeaseTimeout,  \* 10 minutes
  MaxLag,        \* bound: the time from one iteration to the next, which may outlast a lease
  MaxFaults      \* bound: crashes and failed transactions

ASSUME OperatorConstants ==
  /\ Poison \subseteq Keys /\ NoKey \notin Keys
  /\ {LeaseTimeout, MaxLag, MaxFaults} \subseteq Nat

VARIABLES
  status, held,  \* operator_jobs
  queue,         \* the keys in the order of available_at
  runs,          \* how often the handler of a job was started (the poison is not counted)
  pc, lag, seen, \* the iteration, and how many jobs there were when it began
  key, ok,       \* the job at hand, and whether its handler succeeded
  faults

rowVars == <<status, held, queue>>
vars == <<rowVars, runs, pc, lag, seen, key, ok, faults>>

Init ==
  /\ status = [k \in Keys |-> "none"] /\ held = [k \in Keys |-> 0]
  /\ queue = <<>>
  /\ runs = [k \in Keys |-> 0]
  /\ pc = "sleep" /\ lag = 0 /\ seen = 0
  /\ key = NoKey /\ ok = FALSE
  /\ faults = 0

-----------------------------------------------------------------------------

\* enqueue; a key that is known is answered with its row, and nothing is written.
Enqueue(k) ==
  /\ status[k] = "none"
  /\ status' = [status EXCEPT ![k] = "pending"]
  /\ queue' = Append(queue, k)
  /\ UNCHANGED <<held, runs, pc, lag, seen, key, ok, faults>>

\* An iteration of run_worker begins; what comes before its job takes its time.
Wake ==
  /\ pc = "sleep"
  /\ pc' = "claim" /\ lag' = 0 /\ seen' = Len(queue)
  /\ UNCHANGED <<rowVars, runs, key, ok, faults>>

Sleep == pc' = "sleep" /\ seen' = 0 /\ key' = NoKey /\ ok' = FALSE

Stale(k) == status[k] = "running" /\ held[k] > lag + LeaseTimeout

\* Mutant: a job whose lease has run out is not taken again.
ClaimableOnce ==
  {i \in 1..Len(queue) : i <= seen /\ status[queue[i]] = "pending"}

\* What this iteration may take: what was there when it began.
Claimable ==
  {i \in 1..Len(queue) :
     \/ i <= seen /\ status[queue[i]] = "pending"
     \/ Stale(queue[i])}

First(i) == \A j \in Claimable : i <= j

\* claim: the lease begins when the iteration did.
Claim ==
  /\ pc = "claim"
  /\ \/ Claimable = {} /\ Sleep /\ UNCHANGED <<status, held>>
     \/ \E i \in Claimable :
          /\ First(i)
          /\ status' = [status EXCEPT ![queue[i]] = "running"]
          /\ held' = [held EXCEPT ![queue[i]] = lag]
          /\ pc' = "handle" /\ key' = queue[i]
          /\ UNCHANGED <<seen, ok>>
  /\ UNCHANGED <<queue, runs, lag, faults>>

\* The handler begins ...
Handle ==
  /\ pc = "handle"
  /\ runs' = [runs EXCEPT ![key] = IF key \in Poison THEN 0 ELSE @ + 1]
  /\ pc' = "work"
  /\ UNCHANGED <<rowVars, lag, seen, key, ok, faults>>

\* ... and returns, raises, or kills the worker.
Return ==
  /\ pc = "work"
  /\ IF key \in Poison
       THEN Sleep
       ELSE /\ pc' = "finish" /\ ok' \in BOOLEAN
            /\ UNCHANGED <<seen, key>>
  /\ UNCHANGED <<rowVars, runs, lag, faults>>

\* Mutant: a failed job is put back.
FinishAgain ==
  /\ pc = "finish"
  /\ status' = [status EXCEPT ![key] = IF ok THEN "completed" ELSE "pending"]
  /\ Sleep
  /\ UNCHANGED <<held, queue, runs, lag, faults>>

\* complete or fail, if the job is still this worker's.
Finish ==
  /\ pc = "finish"
  /\ status' = IF status[key] = "running"
                 THEN [status EXCEPT ![key] = IF ok THEN "completed" ELSE "failed"]
                 ELSE status
  /\ Sleep
  /\ UNCHANGED <<held, queue, runs, lag, faults>>

\* A transaction of run_one fails, or the worker dies.
Fault ==
  /\ faults < MaxFaults /\ faults' = faults + 1
  /\ pc # "sleep" /\ Sleep
  /\ UNCHANGED <<rowVars, runs, lag>>

Tick ==
  /\ lag < MaxLag
  /\ lag' = lag + 1
  /\ held' = [k \in Keys |->
       IF status[k] = "running" /\ held[k] <= LeaseTimeout + MaxLag
         THEN held[k] + 1 ELSE held[k]]
  /\ UNCHANGED <<status, queue, runs, pc, seen, key, ok, faults>>

Work == Wake \/ Claim \/ Handle \/ Return \/ Finish

Next == Work \/ Fault \/ Tick \/ \E k \in Keys : Enqueue(k)

Spec == Init /\ [][Next]_vars

\* The worker goes on, or is started again, and time passes.
FairSpec == Spec /\ WF_vars(Work) /\ WF_vars(Tick)

-----------------------------------------------------------------------------

Ended == {"completed", "failed"}

\* The rows, one for each key that was ever used, and the worker's place in its
\* iteration (repository.py:47, cli.py:1104).
TypeOK ==
  /\ status \in [Keys -> {"none", "pending", "running"} \cup Ended]
  /\ held \in [Keys -> 0..(LeaseTimeout + MaxLag + 1)]
  /\ queue \in Seq(Keys) /\ IsInjective(queue)
  /\ ToSet(queue) = {k \in Keys : status[k] # "none"}
  /\ runs \in [Keys -> Nat]
  /\ pc \in {"sleep", "claim", "handle", "work", "finish"}
  /\ key # NoKey <=> pc \in {"handle", "work", "finish"}
  /\ lag \in 0..MaxLag /\ seen \in 0..Len(queue)
  /\ key \in Keys \cup {NoKey} /\ ok \in BOOLEAN /\ faults \in Nat

\* A job is not run twice, unless a fault left it without a result: not when it
\* failed, not while it is at work, however long its handler or the iteration takes.
RunsAreExplained ==
  \A k \in Keys \ Poison : runs[k] <= 1 + faults

\* The rows of operator_jobs, the worker's place in its iteration, and the runs there
\* were (operations/repository.py:89).
JobsAreConsistent == TypeOK /\ RunsAreExplained

\* The next iteration begins before a lease of this one has run out.
InTime == lag <= LeaseTimeout

\* Every job ends, whatever happened to the worker while it had it, and also if another
\* job kills the worker whenever it is tried: if from some time on the iterations, with
\* what it takes to start the worker again, are shorter than the lease.  If they stay
\* longer, the job that kills it is always stale and first, and the others starve
\* (operations/repository.py:101, cli.py:1098).
EveryJobEnds ==
  <>[]InTime => \A k \in Keys \ Poison : status[k] = "pending" ~> status[k] \in Ended

=============================================================================

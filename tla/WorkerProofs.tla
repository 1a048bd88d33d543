---------------------------- MODULE WorkerProofs ----------------------------
(***************************************************************************)
(* Theorems about three duties of the worker.                              *)
(*                                                                         *)
(* OperatorJobs, for any keys, poison, timeout and number of faults.  A    *)
(* handler is started once more than there were faults at most, because a  *)
(* job that is running and not at the worker's hand was left there by a    *)
(* fault, and nothing puts an ended job back.                              *)
(*                                                                         *)
(* LinkDiscovery, for any catalogue, budget and cool-downs.  An entry is   *)
(* linked to one show because whoever is about to add the link has found   *)
(* none since the last one was added, but for the worker and the owner's   *)
(* command when they look at once; a show that failed is not tried again   *)
(* because the rows of a run are different shows.                          *)
(*                                                                         *)
(* CatalogSync, for any subjects and media.  Every show has a source, but  *)
(* for the one whose link comes next and those that a crash left behind.   *)
(***************************************************************************)
EXTENDS Worker, FiniteSetTheorems, TLAPS

\* The job at the worker's hand is running.
HandInv == pc \in {"handle", "work", "finish"} => key \in Keys /\ status[key] = "running"

\* A job's handler is at work, or has returned.
Started(k) == key = k /\ pc \in {"work", "finish"}

\* How often the handler of a job was started before the worker may start it again.
RunsInv ==
  \A k \in Keys \ Poison :
    /\ status[k] \in {"none", "pending"} => runs[k] = 0
    /\ status[k] = "running" /\ ~Started(k) => runs[k] <= faults

IInv == TypeOK /\ RunsAreExplained /\ HandInv /\ RunsInv

-----------------------------------------------------------------------------

USE OperatorConstants

\* The bounds are numbers.
LEMMA Numbers == LeaseTimeout \in Nat /\ MaxLag \in Nat /\ MaxFaults \in Nat
OBVIOUS

\* The parts of TypeOK: the queue, and the rest.
QueueOK ==
  /\ queue \in Seq(Keys) /\ IsInjective(queue)
  /\ ToSet(queue) = {k \in Keys : status[k] # "none"}
  /\ seen \in 0..Len(queue)

RestOK ==
  /\ status \in [Keys -> {"none", "pending", "running"} \cup Ended]
  /\ held \in [Keys -> 0..(LeaseTimeout + MaxLag + 1)]
  /\ runs \in [Keys -> Nat]
  /\ pc \in {"sleep", "claim", "handle", "work", "finish"}
  /\ key # NoKey <=> pc \in {"handle", "work", "finish"}
  /\ lag \in 0..MaxLag
  /\ key \in Keys \cup {NoKey} /\ ok \in BOOLEAN /\ faults \in Nat

LEMMA TypeParts == TypeOK <=> QueueOK /\ RestOK
BY DEF TypeOK, QueueOK, RestOK

\* The queue, position by position.
LEMMA QueueFacts ==
  ASSUME QueueOK
  PROVE  /\ Len(queue) \in Nat /\ DOMAIN queue = 1..Len(queue)
         /\ \A i \in 1..Len(queue) : queue[i] \in Keys /\ status[queue[i]] # "none"
         /\ \A c \in Keys : status[c] # "none" => \E i \in 1..Len(queue) : queue[i] = c
         /\ \A i, j \in 1..Len(queue) : queue[i] = queue[j] => i = j
<1>1. /\ queue \in Seq(Keys) /\ Len(queue) \in Nat /\ DOMAIN queue = 1..Len(queue)
      /\ \A i \in 1..Len(queue) : queue[i] \in Keys
  BY DEF QueueOK
<1>2. {queue[i] : i \in 1..Len(queue)} = {k \in Keys : status[k] # "none"}
  BY <1>1 DEF QueueOK, ToSet
<1>3. \A i, j \in 1..Len(queue) : queue[i] = queue[j] => i = j
  BY <1>1 DEF QueueOK, IsInjective
<1>4. \A i \in 1..Len(queue) : queue[i] \in {k \in Keys : status[k] # "none"}
  BY <1>2
<1>5. \A c \in Keys : status[c] # "none" => \E i \in 1..Len(queue) : queue[i] = c
  BY <1>2
<1>. QED  BY <1>1, <1>3, <1>4, <1>5

\* What claim does: nothing to be had, or a job that waits or was left behind.
LEMMA ClaimFacts ==
  ASSUME QueueOK, Claim
  PROVE  /\ pc = "claim" /\ UNCHANGED <<queue, runs, lag, faults>>
         /\ \/ Sleep /\ UNCHANGED <<status, held>>
            \/ \E k \in Keys :
                 /\ status[k] = "pending" \/ Stale(k)
                 /\ status' = [status EXCEPT ![k] = "running"]
                 /\ held' = [held EXCEPT ![k] = lag]
                 /\ pc' = "handle" /\ key' = k
                 /\ UNCHANGED <<seen, ok>>
BY QueueFacts DEF Claim, Claimable

\* A step that leaves the queue alone and makes no key a new one.
LEMMA QueueUntouched ==
  ASSUME QueueOK, queue' = queue, seen' \in {0, seen, Len(queue)},
         \A k \in Keys : status'[k] = "none" <=> status[k] = "none"
  PROVE  QueueOK'
<1>1. {k \in Keys : status[k] # "none"} = {k \in Keys : status'[k] # "none"}
  OBVIOUS
<1>2. Len(queue) \in Nat /\ seen' \in 0..Len(queue)
  BY DEF QueueOK
<1>. QED  BY <1>1, <1>2 DEF QueueOK

\* A key that is enqueued is a new one: the queue stays a list without repetition of
\* the keys that were used.
LEMMA EnqueueKeepsQueue ==
  ASSUME QueueOK, RestOK, NEW k \in Keys, Enqueue(k)
  PROVE  QueueOK'
<1>1. /\ queue \in Seq(Keys) /\ queue' = Append(queue, k) /\ status[k] = "none"
      /\ status' = [status EXCEPT ![k] = "pending"]
      /\ status \in [Keys -> {"none", "pending", "running"} \cup Ended]
      /\ seen \in 0..Len(queue) /\ seen' = seen
  BY DEF QueueOK, RestOK, Enqueue
<1>2. /\ queue' \in Seq(Keys) /\ Len(queue') = Len(queue) + 1 /\ Len(queue) \in Nat
      /\ DOMAIN queue' = 1 .. Len(queue) + 1
      /\ \A i \in 1..Len(queue) : queue'[i] = queue[i]
      /\ queue'[Len(queue) + 1] = k
  BY <1>1
<1>3. IsInjective(queue')
  <2> SUFFICES ASSUME NEW i \in 1 .. Len(queue) + 1, NEW j \in 1 .. Len(queue) + 1,
                      queue'[i] = queue'[j]
               PROVE  i = j
    BY <1>2 DEF IsInjective
  <2>. QED  BY <1>1, <1>2, QueueFacts
<1>4. ASSUME NEW c \in Keys
      PROVE  (\E i \in 1 .. Len(queue) + 1 : queue'[i] = c) <=> status'[c] # "none"
  <2>1. CASE c = k
    BY <2>1, <1>1, <1>2
  <2>2. CASE c # k
    BY <2>2, <1>1, <1>2, QueueFacts
  <2>. QED  BY <2>1, <2>2
<1>5. ToSet(queue') = {c \in Keys : status'[c] # "none"}
  <2>1. \A i \in 1 .. Len(queue) + 1 : queue'[i] \in Keys
    BY <1>1, <1>2, QueueFacts
  <2>2. ToSet(queue') = {queue'[i] : i \in 1 .. Len(queue) + 1}
    BY <1>2 DEF ToSet
  <2>. QED  BY <1>4, <2>1, <2>2
<1>. QED  BY <1>1, <1>2, <1>3, <1>5 DEF QueueOK

\* No step drops a key from the queue or lists one twice.
LEMMA QueueStep ==
  QueueOK /\ RestOK /\ HandInv /\ [Next]_vars => QueueOK'
<1> SUFFICES ASSUME QueueOK, RestOK, HandInv, [Next]_vars PROVE QueueOK'
  OBVIOUS
<1> USE DEF RestOK, HandInv, Ended, rowVars
<1>1. ASSUME Wake PROVE QueueOK'
  BY <1>1, QueueUntouched DEF Wake
<1>2. ASSUME Claim PROVE QueueOK'
  <2>1. pc = "claim" /\ UNCHANGED <<queue, runs, lag, faults>>
    BY <1>2, ClaimFacts
  <2>2. CASE Sleep /\ UNCHANGED <<status, held>>
    BY <2>1, <2>2, QueueUntouched DEF Sleep
  <2>3. ASSUME NEW k \in Keys, status[k] = "pending" \/ Stale(k),
               status' = [status EXCEPT ![k] = "running"],
               held' = [held EXCEPT ![k] = lag],
               pc' = "handle", key' = k, UNCHANGED <<seen, ok>>
        PROVE  QueueOK'
    BY <2>1, <2>3, QueueUntouched DEF Stale
  <2>. QED  BY <1>2, <2>2, <2>3, ClaimFacts
<1>3. ASSUME Handle PROVE QueueOK'
  BY <1>3, QueueUntouched DEF Handle
<1>4. ASSUME Return PROVE QueueOK'
  BY <1>4, QueueUntouched DEF Return, Sleep
<1>5. ASSUME Finish PROVE QueueOK'
  BY <1>5, QueueUntouched DEF Finish, Sleep
<1>6. ASSUME Fault PROVE QueueOK'
  BY <1>6, QueueUntouched DEF Fault, Sleep
<1>7. ASSUME Tick PROVE QueueOK'
  BY <1>7, QueueUntouched DEF Tick
<1>8. ASSUME NEW k \in Keys, Enqueue(k) PROVE QueueOK'
  BY <1>8, EnqueueKeepsQueue
<1>9. ASSUME UNCHANGED vars PROVE QueueOK'
  BY <1>9, QueueUntouched DEF vars
<1>. QED
  BY <1>1, <1>2, <1>3, <1>4, <1>5, <1>6, <1>7, <1>8, <1>9 DEF Next, Work

\* The other variables stay in their types.
LEMMA TypeStep ==
  QueueOK /\ RestOK /\ HandInv /\ [Next]_vars => RestOK'
<1> SUFFICES ASSUME QueueOK, RestOK, HandInv, [Next]_vars PROVE RestOK'
  OBVIOUS
<1> USE DEF RestOK, HandInv, Ended, rowVars
<1>1. ASSUME Wake PROVE RestOK'
  BY <1>1 DEF Wake
<1>2. ASSUME Claim PROVE RestOK'
  <2>1. pc = "claim" /\ UNCHANGED <<queue, runs, lag, faults>>
    BY <1>2, ClaimFacts
  <2>2. CASE Sleep /\ UNCHANGED <<status, held>>
    BY <2>1, <2>2 DEF Sleep
  <2>3. ASSUME NEW k \in Keys, status[k] = "pending" \/ Stale(k),
               status' = [status EXCEPT ![k] = "running"],
               held' = [held EXCEPT ![k] = lag],
               pc' = "handle", key' = k, UNCHANGED <<seen, ok>>
        PROVE  RestOK'
    BY <2>1, <2>3 DEF Stale
  <2>. QED  BY <1>2, <2>2, <2>3, ClaimFacts
<1>3. ASSUME Handle PROVE RestOK'
  BY <1>3 DEF Handle
<1>4. ASSUME Return PROVE RestOK'
  BY <1>4 DEF Return, Sleep
<1>5. ASSUME Finish PROVE RestOK'
  BY <1>5 DEF Finish, Sleep
<1>6. ASSUME Fault PROVE RestOK'
  <2>1. UNCHANGED <<status, held, runs, lag>> /\ faults' \in Nat
    BY <1>6 DEF Fault
  <2>2. pc' = "sleep" /\ key' = NoKey /\ ok' = FALSE
    BY <1>6 DEF Fault, Sleep
  <2>. QED  BY <2>1, <2>2
<1>7. ASSUME Tick PROVE RestOK'
  BY <1>7 DEF Tick
<1>8. ASSUME NEW k \in Keys, Enqueue(k) PROVE RestOK'
  BY <1>8 DEF Enqueue
<1>9. ASSUME UNCHANGED vars PROVE RestOK'
  BY <1>9 DEF vars
<1>. QED
  BY <1>1, <1>2, <1>3, <1>4, <1>5, <1>6, <1>7, <1>8, <1>9 DEF Next, Work

\* Only the worker takes a job out of the running ones.
LEMMA HandStep ==
  QueueOK /\ RestOK /\ HandInv /\ [Next]_vars => HandInv'
<1> SUFFICES ASSUME QueueOK, RestOK, HandInv, [Next]_vars PROVE HandInv'
  OBVIOUS
<1> USE DEF RestOK, HandInv, Ended, rowVars
<1>1. ASSUME Wake PROVE HandInv'
  BY <1>1 DEF Wake
<1>2. ASSUME Claim PROVE HandInv'
  <2>1. pc = "claim" /\ UNCHANGED <<queue, runs, lag, faults>>
    BY <1>2, ClaimFacts
  <2>2. CASE Sleep /\ UNCHANGED <<status, held>>
    BY <2>1, <2>2 DEF Sleep
  <2>3. ASSUME NEW k \in Keys, status[k] = "pending" \/ Stale(k),
               status' = [status EXCEPT ![k] = "running"],
               held' = [held EXCEPT ![k] = lag],
               pc' = "handle", key' = k, UNCHANGED <<seen, ok>>
        PROVE  HandInv'
    BY <2>1, <2>3 DEF Stale
  <2>. QED  BY <1>2, <2>2, <2>3, ClaimFacts
<1>3. ASSUME Handle PROVE HandInv'
  BY <1>3 DEF Handle
<1>4. ASSUME Return PROVE HandInv'
  BY <1>4 DEF Return, Sleep
<1>5. ASSUME Finish PROVE HandInv'
  BY <1>5 DEF Finish, Sleep
<1>6. ASSUME Fault PROVE HandInv'
  BY <1>6 DEF Fault, Sleep
<1>7. ASSUME Tick PROVE HandInv'
  BY <1>7 DEF Tick
<1>8. ASSUME NEW k \in Keys, Enqueue(k) PROVE HandInv'
  BY <1>8 DEF Enqueue
<1>9. ASSUME UNCHANGED vars PROVE HandInv'
  BY <1>9 DEF vars
<1>. QED
  BY <1>1, <1>2, <1>3, <1>4, <1>5, <1>6, <1>7, <1>8, <1>9 DEF Next, Work

\* A claimed job was never started, or was left by a fault.
LEMMA RunsStep ==
  QueueOK /\ RestOK /\ HandInv /\ RunsInv /\ RunsAreExplained /\ [Next]_vars => (RunsAreExplained /\ RunsInv)'
<1> SUFFICES ASSUME QueueOK, RestOK, HandInv, RunsInv, RunsAreExplained, [Next]_vars PROVE (RunsAreExplained /\ RunsInv)'
  OBVIOUS
<1> USE DEF RestOK, HandInv, RunsInv, Started, RunsAreExplained, Ended, rowVars
<1>1. ASSUME Wake PROVE (RunsAreExplained /\ RunsInv)'
  BY <1>1 DEF Wake
<1>2. ASSUME Claim PROVE (RunsAreExplained /\ RunsInv)'
  <2>1. pc = "claim" /\ UNCHANGED <<queue, runs, lag, faults>>
    BY <1>2, ClaimFacts
  <2>2. CASE Sleep /\ UNCHANGED <<status, held>>
    BY <2>1, <2>2 DEF Sleep
  <2>3. ASSUME NEW k \in Keys, status[k] = "pending" \/ Stale(k),
               status' = [status EXCEPT ![k] = "running"],
               held' = [held EXCEPT ![k] = lag],
               pc' = "handle", key' = k, UNCHANGED <<seen, ok>>
        PROVE  (RunsAreExplained /\ RunsInv)'
    BY <2>1, <2>3 DEF Stale
  <2>. QED  BY <1>2, <2>2, <2>3, ClaimFacts
<1>3. ASSUME Handle PROVE (RunsAreExplained /\ RunsInv)'
  BY <1>3 DEF Handle
<1>4. ASSUME Return PROVE (RunsAreExplained /\ RunsInv)'
  BY <1>4 DEF Return, Sleep
<1>5. ASSUME Finish PROVE (RunsAreExplained /\ RunsInv)'
  BY <1>5 DEF Finish, Sleep
<1>6. ASSUME Fault PROVE (RunsAreExplained /\ RunsInv)'
  BY <1>6 DEF Fault, Sleep
<1>7. ASSUME Tick PROVE (RunsAreExplained /\ RunsInv)'
  BY <1>7 DEF Tick
<1>8. ASSUME NEW k \in Keys, Enqueue(k) PROVE (RunsAreExplained /\ RunsInv)'
  BY <1>8 DEF Enqueue
<1>9. ASSUME UNCHANGED vars PROVE (RunsAreExplained /\ RunsInv)'
  BY <1>9 DEF vars
<1>. QED
  BY <1>1, <1>2, <1>3, <1>4, <1>5, <1>6, <1>7, <1>8, <1>9 DEF Next, Work

\* A job that has ended is left alone: it has its result, and its handler is not
\* started again.
EndedStays ==
  \A k \in Keys \ Poison : status[k] \in Ended =>
    status'[k] = status[k] /\ runs'[k] = runs[k]

\* What is claimed, handled and finished is a job that has not ended.
LEMMA EndedStep ==
  QueueOK /\ RestOK /\ HandInv /\ [Next]_vars => EndedStays
<1> SUFFICES ASSUME QueueOK, RestOK, HandInv, [Next]_vars PROVE EndedStays
  OBVIOUS
<1> USE DEF RestOK, HandInv, EndedStays, Ended, rowVars
<1>1. ASSUME Wake PROVE EndedStays
  BY <1>1 DEF Wake
<1>2. ASSUME Claim PROVE EndedStays
  <2>1. pc = "claim" /\ UNCHANGED <<queue, runs, lag, faults>>
    BY <1>2, ClaimFacts
  <2>2. CASE Sleep /\ UNCHANGED <<status, held>>
    BY <2>1, <2>2 DEF Sleep
  <2>3. ASSUME NEW k \in Keys, status[k] = "pending" \/ Stale(k),
               status' = [status EXCEPT ![k] = "running"],
               held' = [held EXCEPT ![k] = lag],
               pc' = "handle", key' = k, UNCHANGED <<seen, ok>>
        PROVE  EndedStays
    BY <2>1, <2>3 DEF Stale
  <2>. QED  BY <1>2, <2>2, <2>3, ClaimFacts
<1>3. ASSUME Handle PROVE EndedStays
  BY <1>3 DEF Handle
<1>4. ASSUME Return PROVE EndedStays
  BY <1>4 DEF Return, Sleep
<1>5. ASSUME Finish PROVE EndedStays
  BY <1>5 DEF Finish, Sleep
<1>6. ASSUME Fault PROVE EndedStays
  BY <1>6 DEF Fault, Sleep
<1>7. ASSUME Tick PROVE EndedStays
  BY <1>7 DEF Tick
<1>8. ASSUME NEW k \in Keys, Enqueue(k) PROVE EndedStays
  BY <1>8 DEF Enqueue
<1>9. ASSUME UNCHANGED vars PROVE EndedStays
  BY <1>9 DEF vars
<1>. QED
  BY <1>1, <1>2, <1>3, <1>4, <1>5, <1>6, <1>7, <1>8, <1>9 DEF Next, Work

-----------------------------------------------------------------------------

\* The invariant holds initially and is kept by every step.
THEOREM Invariance == Spec => []IInv
<1>1. Init => IInv
  <2> SUFFICES ASSUME Init PROVE IInv
    OBVIOUS
  <2>1. queue = <<>> /\ Len(queue) = 0 /\ DOMAIN queue = {} /\ queue \in Seq(Keys)
    BY DEF Init
  <2>2. QueueOK
    BY <2>1 DEF Init, QueueOK, IsInjective, ToSet
  <2>3. RestOK
    <3>1. 0 \in 0..MaxLag /\ 0 \in 0..(LeaseTimeout + MaxLag + 1)
      BY Numbers
    <3>2. pc = "sleep" /\ key = NoKey
      BY DEF Init
    <3>. QED  BY <3>1, <3>2 DEF Init, RestOK
  <2>4. RunsAreExplained /\ HandInv /\ RunsInv
    BY DEF Init, RunsAreExplained, HandInv, RunsInv, Started
  <2>. QED  BY <2>2, <2>3, <2>4, TypeParts DEF IInv
<1>2. IInv /\ [Next]_vars => IInv'
  <2>1. TypeOK' <=> QueueOK' /\ RestOK'
    BY DEF TypeOK, QueueOK, RestOK
  <2>. QED  BY <2>1, TypeParts, QueueStep, TypeStep, HandStep, RunsStep DEF IInv
<1>. QED  BY <1>1, <1>2, PTL DEF Spec

\* The rows, one for each key, and the worker's place in its iteration fit together,
\* and no handler is started more often than once and once more for every fault
\* (OperatorJobRepository.claim, complete, fail).
THEOREM JobsAlwaysConsistent == Spec => []JobsAreConsistent
<1>1. IInv => JobsAreConsistent
  BY DEF IInv, JobsAreConsistent
<1>. QED  BY <1>1, Invariance, PTL

\* An ended job keeps its result and is not run again, whatever leases run out
\* (OperatorJobRepository.claim, complete, fail).
THEOREM EndedForGood == Spec => [][EndedStays]_vars
<1>1. IInv /\ [Next]_vars => [EndedStays]_vars
  BY TypeParts, EndedStep DEF IInv
<1>. QED  BY <1>1, Invariance, PTL DEF Spec

-----------------------------------------------------------------------------
(* The search for links: the inductive invariant, in named parts.          *)

\* A run that is at work has a row; what it searched is within its limit.
RunInv ==
  /\ l_pc = "idle" => kind = "run" /\ rows = <<>> /\ at = 1 /\ used = 0
  /\ l_pc \notin {"idle", "row"} => at <= Len(rows)
  /\ l_pc \in {"idle", "row"} => title = 0
  /\ l_pc \in {"bridge", "search"} => title <= Titles[L!Show]
  /\ used <= L!Limit

\* The rows of a run are different shows, and those to come are not left alone.
RowsInv ==
  kind = "run" =>
    /\ \A i, j \in 1 .. Len(rows) : rows[i] = rows[j] => i = j
    /\ \A i \in at .. Len(rows) : cool[rows[i]] = 0

\* An entry of AniList that has no link of any show.
Free(m) == \A s \in Shows : <<s, m>> \notin al

\* What the worker and the owner are about to link has no link yet, unless they race for
\* it.
MediaInv ==
  /\ l_pc \in {"find", "add", "airing"} => media \in Media
  /\ c_pc = "add" => c_show \in Shows /\ c_media \in Media
  /\ l_pc = "add" /\ media \notin raced => Free(media)
  /\ c_pc = "add" /\ c_media \notin raced => Free(c_media)
  /\ l_pc = "add" /\ c_pc = "add" /\ media = c_media => media \in raced

\* A route that the bridge has chosen for the row is no other show's.
RouteInv ==
  route # None => /\ l_pc \in {"find", "add", "airing"}
                  /\ \A s \in Shows \ {L!Show} : <<s, route>> \notin asl

LinksInv ==
  L!TypeOK /\ RunInv /\ RowsInv /\ MediaInv /\ RouteInv /\ L!EntryHasOneShow

-----------------------------------------------------------------------------
(* The rounds over the catalogue: the inductive invariant.                 *)

\* What a first contact needs: the subject has no show yet, and the new show no source.
ContactInv ==
  /\ step # "pick" => subject \in Subjects /\ owner[subject] = NoShow
  /\ step = "link" <=> created # NoShow
  /\ created # NoShow => created \in shows

\* The shows are finitely many, and those that nothing stands for no more than the faults.
ShowsInv == IsFiniteSet(shows) /\ C!ShowsHaveSources

CatalogInv == C!TypeOK /\ ContactInv /\ ShowsInv

-----------------------------------------------------------------------------
(* LinkDiscovery                                                           *)

LEMMA LinkNumbers ==
  /\ \A s \in Shows : s \in Nat /\ s # 0 /\ Titles[s] \in 0 .. 2
  /\ None \notin Media /\ None \notin Routes
  /\ Budget \in Nat \ {0} /\ Bridge \in BOOLEAN /\ Cli \in BOOLEAN
  /\ Cooldown \in Nat \ {0} /\ EmptyCooldown \in Nat \ {0} /\ ErrorCooldown \in Nat \ {0}
BY LinkConstants DEF L!DiscoveryConstants

\* What the rows that were selected are.
LEMMA OrderFacts ==
  ASSUME NEW S, NEW n \in Nat, NEW place, NEW q \in L!InOrder(S, n, place),
         IsFiniteSet(S), \A s \in S : place[s] \in Nat
  PROVE  /\ q \in Seq(S) /\ Len(q) \in Nat /\ Len(q) <= n
         /\ \A i \in 1 .. Len(q) : q[i] \in S
         /\ \A i, j \in 1 .. Len(q) : q[i] = q[j] => i = j
<1> DEFINE m == IF L!Cardinality(S) < n THEN L!Cardinality(S) ELSE n
<1>1. Cardinality(S) \in Nat /\ L!Cardinality(S) = Cardinality(S)
  BY FS_CardinalityType DEF L!Cardinality, Cardinality
<1>2. m \in Nat /\ m <= n
  BY <1>1
<1>3. q \in [1 .. m -> S] /\ \A i, j \in DOMAIN q : i < j => place[q[i]] < place[q[j]]
  BY DEF L!InOrder
<1> HIDE DEF m
<1>4. q \in Seq(S) /\ Len(q) = m /\ DOMAIN q = 1 .. m
  BY <1>2, <1>3
<1>5. ASSUME NEW i \in 1 .. m, NEW j \in 1 .. m, q[i] = q[j] PROVE i = j
  <2>1. q[i] \in S /\ place[q[i]] \in Nat
    BY <1>3
  <2>2. ~ (i < j) /\ ~ (j < i)
    BY <1>3, <1>4, <1>5, <2>1
  <2>. QED  BY <1>2, <2>2
<1>. QED  BY <1>2, <1>3, <1>4, <1>5

\* The rows of a run: shows that are ready, each once.
LEMMA RowFacts ==
  ASSUME L!TypeOK, NEW p \in L!PriorityTargets,
         NEW q \in L!Targets(Budget - Len(p), L!Range(p))
  PROVE  /\ p \in Seq(Shows) /\ q \in Seq(Shows) /\ p \o q \in Seq(Shows)
         /\ Len(p) \in Nat /\ Len(p) <= Len(p \o q) /\ Len(p \o q) \in Nat
         /\ \A i \in 1 .. Len(p \o q) : (p \o q)[i] \in Shows /\ cool[(p \o q)[i]] = 0
         /\ \A i, j \in 1 .. Len(p \o q) : (p \o q)[i] = (p \o q)[j] => i = j
<1> DEFINE S == {s \in DOMAIN Soon : L!Ready(s)}
           T == {s \in Shows : s > cursor /\ L!Ready(s)} \ L!Range(p)
<1>1. /\ IsFiniteSet(Shows) /\ DOMAIN Soon \subseteq Shows
      /\ (\A s \in DOMAIN Soon : Soon[s] \in Nat) /\ (\A s \in Shows : L!ById[s] \in Nat)
  BY LinkConstants DEF L!DiscoveryConstants, L!IsFiniteSet, IsFiniteSet, L!ById
<1>2. /\ S \subseteq Shows /\ T \subseteq Shows /\ IsFiniteSet(S) /\ IsFiniteSet(T)
      /\ \A s \in S \cup T : cool[s] = 0
  BY <1>1, FS_Subset DEF L!Ready
<1>3. /\ p \in L!InOrder(S, Budget, Soon) /\ q \in L!InOrder(T, Budget - Len(p), L!ById)
  BY DEF L!PriorityTargets, L!Targets
<1>4. Budget \in Nat /\ (\A s \in S : Soon[s] \in Nat) /\ (\A s \in T : L!ById[s] \in Nat)
  BY <1>1, LinkNumbers
<1> HIDE DEF S
<1>5. /\ p \in Seq(S) /\ Len(p) \in Nat /\ Len(p) <= Budget
      /\ \A i \in 1 .. Len(p) : p[i] \in S
      /\ \A i, j \in 1 .. Len(p) : p[i] = p[j] => i = j
  BY <1>2, <1>3, <1>4, OrderFacts
<1>6. Budget - Len(p) \in Nat
  BY <1>4, <1>5
<1>7. \A i \in 1 .. Len(p) : p[i] \notin T
  BY <1>5 DEF L!Range
<1> HIDE DEF T
<1>8. /\ q \in Seq(T) /\ Len(q) \in Nat
      /\ \A i \in 1 .. Len(q) : q[i] \in T
      /\ \A i, j \in 1 .. Len(q) : q[i] = q[j] => i = j
  BY <1>2, <1>3, <1>4, <1>6, OrderFacts
<1>9. p \in Seq(Shows) /\ q \in Seq(Shows)
  BY <1>2, <1>5, <1>8
<1>10. /\ p \o q \in Seq(Shows) /\ Len(p \o q) = Len(p) + Len(q)
       /\ \A i \in 1 .. Len(p) + Len(q) :
            (p \o q)[i] = IF i <= Len(p) THEN p[i] ELSE q[i - Len(p)]
  BY <1>9
<1>11. ASSUME NEW i \in 1 .. Len(p) + Len(q)
       PROVE  IF i <= Len(p) THEN i \in 1 .. Len(p) /\ (p \o q)[i] = p[i]
              ELSE i - Len(p) \in 1 .. Len(q) /\ (p \o q)[i] = q[i - Len(p)]
  BY <1>5, <1>8, <1>10
<1>12. ASSUME NEW i \in 1 .. Len(p) + Len(q), NEW j \in 1 .. Len(p) + Len(q),
              (p \o q)[i] = (p \o q)[j]
       PROVE  i = j
  BY <1>5, <1>7, <1>8, <1>11, <1>12
<1>13. ASSUME NEW i \in 1 .. Len(p) + Len(q)
       PROVE  (p \o q)[i] \in S \cup T
  BY <1>5, <1>8, <1>11
<1>. QED  BY <1>2, <1>5, <1>8, <1>9, <1>10, <1>12, <1>13

\* The parts of TypeOK: what is stored, the run, the attempt, and the owner's command.
StoreOK ==
  /\ al \subseteq Shows \X Media /\ asl \subseteq Shows \X Routes
  /\ cool \in [Shows -> Nat] /\ cursor \in Shows \cup {0} /\ due \in BOOLEAN
  /\ raced \subseteq Media /\ l_faults \in Nat

RunOK ==
  /\ l_pc \in {"idle", "row", "bridge", "search", "find", "add", "airing"}
  /\ kind \in {"run", "enrich"}
  /\ rows \in Seq(Shows) /\ first \in 0 .. Len(rows) /\ at \in 1 .. (Len(rows) + 1)
  /\ used \in Nat /\ last \in Shows \cup {0}

TryOK ==
  /\ title \in 0 .. 2 /\ answered \in BOOLEAN /\ l_asked \in L!Rounds \cup {L!NoCooldown}
  /\ media \in Media \cup {None} /\ route \in Routes \cup {None}

CliOK ==
  c_pc \in {"idle", "add"} /\ c_show \in Shows \cup {0} /\ c_media \in Media \cup {None}

LEMMA LinkTypes == L!TypeOK <=> StoreOK /\ RunOK /\ TryOK /\ CliOK
BY DEF L!TypeOK, StoreOK, RunOK, TryOK, CliOK

LEMMA LinkTypesAfter == (StoreOK /\ RunOK /\ TryOK /\ CliOK)' => L!TypeOK'
BY LinkTypes, PTL

\* The row that an attempt is about.
LEMMA ShowFacts ==
  ASSUME LinksInv, l_pc # "idle", at <= Len(rows)
  PROVE  /\ L!Show \in Shows /\ Titles[L!Show] \in 0 .. 2
         /\ at \in Nat /\ at + 1 \in 1 .. (Len(rows) + 1) /\ Len(rows) \in Nat
<1>1. rows \in Seq(Shows) /\ at \in 1 .. (Len(rows) + 1) /\ Len(rows) \in Nat
  BY LinkTypes DEF LinksInv, RunOK
<1>2. at \in 1 .. Len(rows)
  BY <1>1
<1>. QED  BY <1>1, <1>2, LinkNumbers DEF L!Show

LEMMA NextRowTypes == L!NextRow => TryOK'
<1> SUFFICES ASSUME L!NextRow PROVE TryOK'
  OBVIOUS
<1>1. answered' \in BOOLEAN
  BY DEF L!NextRow
<1>2. title' \in 0 .. 2
  BY DEF L!NextRow
<1>3. l_asked' \in L!Rounds \cup {L!NoCooldown} /\ media' \in Media \cup {None}
  BY DEF L!NextRow
<1>4. route' \in Routes \cup {None}
  BY DEF L!NextRow
<1>. QED  BY <1>1, <1>2, <1>3, <1>4 DEF TryOK, L!Rounds, L!NoCooldown

LEMMA EndRunTypes ==
  ASSUME StoreOK, NEW c, L!EndRun(c)
  PROVE  RunOK' /\ TryOK' /\ cursor' = c /\ due' \in BOOLEAN
<1>1. /\ l_pc' = "idle" /\ kind' = "run" /\ rows' = <<>> /\ first' = 0 /\ at' = 1
      /\ used' = 0 /\ last' = 0 /\ cursor' = c /\ due' = (due /\ kind = "enrich") /\ TryOK'
  BY NextRowTypes DEF L!EndRun
<1>2. rows' \in Seq(Shows) /\ Len(rows') = 0
  BY <1>1
<1>. QED  BY <1>1, <1>2 DEF RunOK, StoreOK

LEMMA AssessTypes ==
  ASSUME LinksInv, l_pc # "idle", at <= Len(rows), NEW n \in Nat, L!Assess(n)
  PROVE  /\ RunOK' /\ TryOK' /\ cool' \in [Shows -> Nat] /\ UNCHANGED <<cursor, due>>
<1>1. /\ L!Show \in Shows /\ at + 1 \in 1 .. (Len(rows) + 1)
      /\ cool \in [Shows -> Nat] /\ RunOK
  BY ShowFacts, LinkTypes DEF LinksInv, StoreOK
<1>2. /\ l_pc' = "row" /\ at' = at + 1 /\ last' = (IF at > first THEN L!Show ELSE last)
      /\ cool' = [cool EXCEPT ![L!Show] = n]
      /\ UNCHANGED <<kind, rows, first, used, cursor, due>> /\ TryOK'
  BY NextRowTypes DEF L!Assess
<1>. QED  BY <1>1, <1>2 DEF RunOK

LEMMA FallBackTypes ==
  ASSUME NEW n \in L!Rounds, L!FallBack(n)
  PROVE  TryOK' /\ l_pc' = "search"
<1>1. answered' \in BOOLEAN
  BY DEF L!FallBack
<1>2. title' \in 0 .. 2
  BY DEF L!FallBack
<1>3. l_asked' \in L!Rounds \cup {L!NoCooldown} /\ media' \in Media \cup {None}
  BY DEF L!FallBack
<1>4. route' \in Routes \cup {None} /\ l_pc' = "search"
  BY DEF L!FallBack
<1>. QED  BY <1>1, <1>2, <1>3, <1>4 DEF TryOK, L!Rounds, L!NoCooldown

LEMMA OutcomeType ==
  ASSUME TryOK, NEW n \in L!Rounds
  PROVE  L!Outcome(n) \in Nat
BY LinkNumbers DEF L!Outcome, TryOK, L!Rounds, L!NoCooldown

LEMMA RoundsTypes ==
  {Cooldown, EmptyCooldown, ErrorCooldown} \subseteq L!Rounds /\ L!Rounds \subseteq Nat
BY LinkNumbers DEF L!Rounds

LEMMA LinkTypeStep == LinksInv /\ [L!Next]_L!vars => L!TypeOK'
<1> SUFFICES ASSUME LinksInv, [L!Next]_L!vars PROVE (StoreOK /\ RunOK /\ TryOK /\ CliOK)'
  BY LinkTypesAfter
<1>0. StoreOK /\ RunOK /\ TryOK /\ CliOK
  BY LinkTypes DEF LinksInv
<1>1. CASE L!Start
  <2>0. PICK p \in L!PriorityTargets : \E q \in L!Targets(Budget - Len(p), L!Range(p)) :
          IF p \o q = <<>> /\ cursor # 0
            THEN L!EndRun(0)
            ELSE /\ l_pc' = "row" /\ rows' = p \o q /\ first' = Len(p)
                 /\ UNCHANGED <<cursor, due, kind, at, used, last, L!tryVars>>
    BY <1>1 DEF L!Start
  <2>1. PICK q \in L!Targets(Budget - Len(p), L!Range(p)) :
          IF p \o q = <<>> /\ cursor # 0
            THEN L!EndRun(0)
            ELSE /\ l_pc' = "row" /\ rows' = p \o q /\ first' = Len(p)
                 /\ UNCHANGED <<cursor, due, kind, at, used, last, L!tryVars>>
    BY <2>0
  <2>2. /\ UNCHANGED <<al, asl, cool, raced, l_faults>> /\ CliOK'
    BY <1>0, <1>1 DEF L!Start, L!linkVars, L!cliVars, CliOK
  <2>3. CASE L!EndRun(0)
    BY <1>0, <2>2, <2>3, EndRunTypes DEF StoreOK
  <2>4. CASE /\ l_pc' = "row" /\ rows' = p \o q /\ first' = Len(p)
             /\ UNCHANGED <<cursor, due, kind, at, used, last, L!tryVars>>
    <3>1. rows' \in Seq(Shows) /\ Len(rows') \in Nat /\ first' \in 0 .. Len(rows')
      BY <2>4, RowFacts DEF LinksInv
    <3>2. at = 1
      BY <1>1 DEF LinksInv, RunInv, L!Start
    <3>3. at' \in 1 .. (Len(rows') + 1)
      BY <2>4, <3>1, <3>2
    <3>. QED  BY <1>0, <2>2, <2>4, <3>1, <3>3 DEF StoreOK, RunOK, TryOK, L!tryVars
  <2>. QED  BY <2>1, <2>3, <2>4
<1>2. CASE L!Row
  <2>1. UNCHANGED <<al, asl, raced, l_faults>> /\ CliOK' /\ l_pc = "row"
    BY <1>0, <1>2 DEF L!Row, L!linkVars, L!cliVars, CliOK
  <2>2. CASE at > Len(rows)
    <3>1. PICK c \in Shows \cup {0} : L!EndRun(c) /\ UNCHANGED cool
      BY <1>0, <1>2, <2>2 DEF L!Row, RunOK, StoreOK
    <3>. QED  BY <1>0, <2>1, <3>1, EndRunTypes DEF StoreOK
  <2>3. CASE ~ (at > Len(rows)) /\ Titles[L!Show] = 0
    <3>1. at <= Len(rows) /\ L!Assess(Cooldown)
      BY <1>0, <1>2, <2>3 DEF L!Row, RunOK
    <3>. QED  BY <1>0, <2>1, <3>1, AssessTypes, LinkNumbers DEF StoreOK
  <2>4. CASE ~ (at > Len(rows)) /\ Titles[L!Show] # 0
    <3>1. /\ l_pc' \in {"bridge", "search"}
          /\ UNCHANGED <<cool, cursor, due, L!runVars, L!tryVars>>
      BY <1>2, <2>4 DEF L!Row
    <3>. QED  BY <1>0, <2>1, <3>1 DEF StoreOK, RunOK, TryOK, L!runVars, L!tryVars
  <2>. QED  BY <2>2, <2>3, <2>4
<1>3. CASE L!BridgeSearch
  <2>1. UNCHANGED <<al, asl, raced, l_faults>> /\ CliOK' /\ l_pc = "bridge"
    BY <1>0, <1>3 DEF L!BridgeSearch, L!linkVars, L!cliVars, CliOK
  <2>2. CASE used >= L!Limit
    <3>1. PICK c \in Shows \cup {0} : L!EndRun(c) /\ UNCHANGED cool
      BY <1>0, <1>3, <2>2 DEF L!BridgeSearch, L!Defer, RunOK, StoreOK
    <3>. QED  BY <1>0, <2>1, <3>1, EndRunTypes DEF StoreOK
  <2>3. CASE ~ (used >= L!Limit)
    <3>1. /\ used' = used + 1 /\ title' = title + 1 /\ (answered' = TRUE \/ answered' = answered)
          /\ UNCHANGED <<cool, cursor, due, l_pc, kind, rows, first, at, last,
                         l_asked, media, route>>
          /\ title < Titles[L!Show]
      BY <1>3, <2>3 DEF L!BridgeSearch
    <3>2. title + 1 \in 0 .. 2
      BY <1>0, <2>1, <3>1, ShowFacts DEF LinksInv, RunInv, TryOK
    <3>3. answered' \in BOOLEAN /\ used' \in Nat
      <4>1. answered' \in BOOLEAN
        BY <1>0, <3>1, Zenon DEF TryOK
      <4>. QED  BY <1>0, <3>1, <4>1 DEF RunOK
    <3>4. TryOK'
      BY <1>0, <3>1, <3>2, <3>3 DEF TryOK, L!Rounds, L!NoCooldown
    <3>. QED  BY <1>0, <2>1, <3>1, <3>3, <3>4 DEF StoreOK, RunOK
  <2>. QED  BY <2>2, <2>3
<1>4. CASE L!BridgeSelect
  <2>1. UNCHANGED <<al, asl, cool, cursor, due, raced, l_faults, L!runVars>> /\ CliOK'
    BY <1>0, <1>4 DEF L!BridgeSelect, L!linkVars, L!cliVars, CliOK
  <2>2. CASE \E n \in L!Rounds : L!FallBack(n)
    BY <1>0, <2>1, <2>2, FallBackTypes DEF StoreOK, RunOK, L!runVars
  <2>3. CASE \E r \in Routes, m \in Media :
               /\ l_pc' = "find" /\ route' = r /\ media' = m
               /\ UNCHANGED <<title, answered, l_asked>>
    BY <1>0, <2>1, <2>3 DEF StoreOK, RunOK, TryOK, L!runVars
  <2>. QED  BY <1>4, <2>2, <2>3, RoundsTypes DEF L!BridgeSelect
<1>5. CASE L!Search
  <2>1. UNCHANGED <<al, asl, raced, l_faults>> /\ CliOK' /\ l_pc = "search" /\ at <= Len(rows)
    BY <1>0, <1>5 DEF L!Search, L!linkVars, L!cliVars, CliOK, LinksInv, RunInv
  <2>2. CASE \E n \in Nat : L!Assess(n)
    BY <1>0, <2>1, <2>2, AssessTypes DEF StoreOK
  <2>3. CASE L!Defer
    <3>1. PICK c \in Shows \cup {0} : L!EndRun(c) /\ UNCHANGED cool
      BY <1>0, <2>3 DEF L!Defer, RunOK, StoreOK
    <3>. QED  BY <1>0, <2>1, <3>1, EndRunTypes DEF StoreOK
  <2>4. CASE /\ used' = used + 1 /\ title' \in {title, title + 1, Titles[L!Show]}
             /\ title # Titles[L!Show]
             /\ media' \in Media \cup {media} /\ l_pc' \in {"search", "find"}
             /\ UNCHANGED <<cool, cursor, due, kind, rows, first, at, last, answered,
                            l_asked, route>>
    <3>1. title \in Nat /\ title <= Titles[L!Show] /\ Titles[L!Show] \in 0 .. 2
      BY <1>0, <2>1, ShowFacts DEF LinksInv, RunInv, TryOK
    <3>2. title' \in 0 .. 2
      BY <2>4, <3>1
    <3>. QED  BY <1>0, <2>1, <2>4, <3>2 DEF StoreOK, RunOK, TryOK
  <2>5. L!Outcome(Cooldown) \in Nat
    BY <1>0, OutcomeType, RoundsTypes
  <2>6. l_asked \in Nat
    BY <1>0, RoundsTypes DEF TryOK, L!NoCooldown
  <2>. QED  BY <1>5, <2>2, <2>3, <2>4, <2>5, <2>6 DEF L!Search
<1>6. CASE L!Find
  <2>1. UNCHANGED <<al, asl, l_faults>> /\ CliOK' /\ l_pc = "find" /\ at <= Len(rows)
    BY <1>0, <1>6 DEF L!Find, L!linkVars, L!cliVars, CliOK, LinksInv, RunInv
  <2>2. media \in Media
    BY <2>1 DEF LinksInv, MediaInv
  <2>3. CASE L!NotConfirmed /\ UNCHANGED raced
    <3>1. CASE L!FallBack(Cooldown) /\ UNCHANGED <<cool, cursor, due, L!runVars>>
      BY <1>0, <2>1, <2>3, <3>1, FallBackTypes, RoundsTypes DEF StoreOK, RunOK, L!runVars
    <3>2. CASE L!Assess(L!Outcome(Cooldown))
      <4>1. L!Outcome(Cooldown) \in Nat
        BY <1>0, OutcomeType, RoundsTypes
      <4>. QED  BY <1>0, <2>1, <2>3, <3>2, <4>1, AssessTypes DEF StoreOK
    <3>. QED  BY <2>3, <3>1, <3>2 DEF L!NotConfirmed
  <2>4. CASE /\ l_pc' = "add" /\ raced' \in {raced, raced \cup {media}}
             /\ UNCHANGED <<cool, cursor, due, L!runVars, L!tryVars>>
    BY <1>0, <2>1, <2>2, <2>4 DEF StoreOK, RunOK, TryOK, L!runVars, L!tryVars
  <2>. QED  BY <1>6, <2>3, <2>4 DEF L!Find
<1>7. CASE L!Add
  <2>1. at <= Len(rows) /\ media \in Media /\ l_pc # "idle"
    BY <1>7 DEF L!Add, LinksInv, RunInv, MediaInv
  <2>2. L!Show \in Shows
    BY <2>1, ShowFacts
  <2>. QED  BY <1>0, <1>7, <2>1, <2>2
            DEF L!Add, StoreOK, RunOK, TryOK, CliOK, L!runVars, L!tryVars, L!cliVars
<1>8. CASE L!Confirmed
  <2>1. at <= Len(rows) /\ l_pc # "idle" /\ UNCHANGED <<al, raced, l_faults>> /\ CliOK'
    BY <1>0, <1>8 DEF L!Confirmed, LinksInv, RunInv, CliOK, L!cliVars
  <2>2. L!Show \in Shows
    BY <2>1, ShowFacts
  <2>3. asl' \subseteq Shows \X Routes
    BY <1>0, <1>8, <2>2 DEF L!Confirmed, StoreOK, TryOK
  <2>. QED  BY <1>0, <1>8, <2>1, <2>3, AssessTypes DEF L!Confirmed, StoreOK
<1>9. CASE L!Abort
  <2>1. UNCHANGED <<al, asl, cool, raced>> /\ CliOK' /\ L!EndRun(cursor) /\ l_faults' \in Nat
    BY <1>0, <1>9, LinkNumbers DEF L!Abort, L!linkVars, L!cliVars, CliOK, StoreOK
  <2>. QED  BY <1>0, <2>1, EndRunTypes DEF StoreOK
<1>10. CASE L!Crash
  <2>1. /\ UNCHANGED <<al, asl, cool, cursor, raced>> /\ CliOK' /\ l_faults' \in Nat
        /\ due' = TRUE /\ l_pc' = "idle" /\ kind' = "run" /\ rows' = <<>> /\ first' = 0
        /\ at' = 1 /\ used' = 0 /\ last' = 0 /\ TryOK'
    BY <1>0, <1>10, NextRowTypes DEF L!Crash, L!linkVars, L!cliVars, CliOK, StoreOK
  <2>2. rows' \in Seq(Shows) /\ Len(rows') = 0
    BY <2>1
  <2>. QED  BY <1>0, <2>1, <2>2 DEF StoreOK, RunOK
<1>11. CASE L!CliAdd
  <2>1. c_show \in Shows /\ c_media \in Media
    BY <1>11 DEF L!CliAdd, LinksInv, MediaInv
  <2>. QED  BY <1>0, <1>11, <2>1
            DEF L!CliAdd, StoreOK, RunOK, TryOK, CliOK, L!runVars, L!tryVars
<1>12. CASE L!Round
  <2>1. cool' \in [Shows -> Nat]
    BY <1>0, <1>12 DEF L!Round, StoreOK
  <2>. QED  BY <1>0, <1>12, <2>1 DEF L!Round, StoreOK, RunOK, TryOK, CliOK, L!linkVars, L!runVars,
                                     L!tryVars, L!cliVars
<1>13. ASSUME NEW s \in Shows, L!EnrichAnime(s) PROVE (StoreOK /\ RunOK /\ TryOK /\ CliOK)'
  <2>1. /\ rows' = <<s>> /\ first' = 1 /\ l_pc' = "row" /\ kind' = "enrich" /\ at = 1
        /\ UNCHANGED <<al, asl, cool, cursor, due, at, used, last, title, answered, l_asked,
                       media, route, c_pc, c_show, c_media, raced, l_faults>>
    BY <1>13 DEF L!EnrichAnime, L!linkVars, L!tryVars, L!cliVars, LinksInv, RunInv
  <2>2. rows' \in Seq(Shows) /\ Len(rows') = 1
    BY <1>13, <2>1
  <2>. QED  BY <1>0, <2>1, <2>2 DEF StoreOK, RunOK, TryOK, CliOK
<1>14. ASSUME NEW s \in Shows, NEW m \in Media, L!CliFind(s, m)
       PROVE (StoreOK /\ RunOK /\ TryOK /\ CliOK)'
  BY <1>0, <1>14 DEF L!CliFind, StoreOK, RunOK, TryOK, CliOK, L!linkVars, L!runVars, L!tryVars
<1>15. CASE UNCHANGED L!vars
  BY <1>0, <1>15 DEF L!vars, L!linkVars, L!runVars, L!tryVars, L!cliVars, StoreOK, RunOK, TryOK,
                     CliOK
<1>. QED  BY <1>1, <1>2, <1>3, <1>4, <1>5, <1>6, <1>7, <1>8, <1>9, <1>10, <1>11, <1>12, <1>13, <1>14,
             <1>15 DEF L!Next, L!Work

\* What a step does to the run: it ends, comes to the next row, begins, or stays at its row.
RunEnded ==
  /\ l_pc' = "idle" /\ kind' = "run" /\ rows' = <<>> /\ at' = 1 /\ used' = 0
  /\ title' = 0 /\ route' = None /\ UNCHANGED cool

Moved ==
  /\ l_pc # "idle" /\ l_pc' = "row" /\ at <= Len(rows) /\ at' = at + 1
  /\ UNCHANGED <<kind, rows, used>> /\ title' = 0 /\ route' = None
  /\ \A s \in Shows \ {L!Show} : cool'[s] = cool[s]

Begun ==
  /\ l_pc = "idle" /\ l_pc' = "row" /\ UNCHANGED <<at, used, title, cool, route>>
  /\ \/ /\ kind' = kind
        /\ \A i \in 1 .. Len(rows') : cool[rows'[i]] = 0
        /\ \A i, j \in 1 .. Len(rows') : rows'[i] = rows'[j] => i = j
     \/ kind' = "enrich"

Stayed ==
  /\ UNCHANGED <<kind, rows, at>> /\ (l_pc = "idle" <=> l_pc' = "idle")
  /\ (l_pc = "idle" => used' = used)
  /\ l_pc' # "idle" => l_pc' = "row" \/ at <= Len(rows)
  /\ used' = used \/ (used' = used + 1 /\ used < L!Limit)
  /\ \/ title' = 0
     \/ l_pc' = l_pc /\ title' = title
     \/ l_pc' \in {"find", "add", "airing"}
     \/ l_pc' \in {"bridge", "search"} /\ title' = Titles[L!Show]
     \/ /\ l_pc' \in {"bridge", "search"} /\ l_pc' = l_pc
        /\ title < Titles[L!Show] /\ title' = title + 1
  /\ \A s \in Shows : cool[s] = 0 => cool'[s] = 0
  /\ \/ route' = None
     \/ route' = route /\ (l_pc' = l_pc \/ l_pc' \in {"find", "add", "airing"})
     \/ l_pc' = "find" /\ \A s \in Shows \ {L!Show} : <<s, route'>> \notin asl

LEMMA RunMoves ==
  LinksInv /\ [L!Next]_L!vars => RunEnded \/ Moved \/ Begun \/ Stayed
<1> SUFFICES ASSUME LinksInv, [L!Next]_L!vars PROVE RunEnded \/ Moved \/ Begun \/ Stayed
  OBVIOUS
<1>0. StoreOK /\ RunOK /\ TryOK /\ CliOK /\ L!TypeOK
  BY LinkTypes DEF LinksInv
<1>a. \A n : L!Assess(n) /\ l_pc # "idle" /\ at <= Len(rows) => Moved
  BY <1>0, ShowFacts DEF L!Assess, L!NextRow, Moved, StoreOK
<1>b. \A c : L!EndRun(c) /\ UNCHANGED cool => RunEnded
  BY DEF L!EndRun, L!NextRow, RunEnded
<1>c. l_pc \notin {"idle", "row"} => at <= Len(rows)
  BY DEF LinksInv, RunInv
<1>1. CASE L!Start
  <2>0. PICK p \in L!PriorityTargets : \E q \in L!Targets(Budget - Len(p), L!Range(p)) :
          IF p \o q = <<>> /\ cursor # 0
            THEN L!EndRun(0)
            ELSE /\ l_pc' = "row" /\ rows' = p \o q /\ first' = Len(p)
                 /\ UNCHANGED <<cursor, due, kind, at, used, last, L!tryVars>>
    BY <1>1 DEF L!Start
  <2>1. PICK q \in L!Targets(Budget - Len(p), L!Range(p)) :
          IF p \o q = <<>> /\ cursor # 0
            THEN L!EndRun(0)
            ELSE /\ l_pc' = "row" /\ rows' = p \o q /\ first' = Len(p)
                 /\ UNCHANGED <<cursor, due, kind, at, used, last, L!tryVars>>
    BY <2>0
  <2>2. l_pc = "idle" /\ UNCHANGED cool
    BY <1>1 DEF L!Start
  <2>3. CASE L!EndRun(0)
    BY <1>b, <2>2, <2>3
  <2>4. CASE /\ l_pc' = "row" /\ rows' = p \o q /\ first' = Len(p)
             /\ UNCHANGED <<cursor, due, kind, at, used, last, L!tryVars>>
    <3>1. /\ \A i \in 1 .. Len(rows') : cool[rows'[i]] = 0
          /\ \A i, j \in 1 .. Len(rows') : rows'[i] = rows'[j] => i = j
      BY <1>0, <2>4, RowFacts
    <3>. QED  BY <2>2, <2>4, <3>1 DEF Begun, L!tryVars
  <2>. QED  BY <2>1, <2>3, <2>4
<1>2. CASE L!Row
  <2>1. l_pc = "row"
    BY <1>2 DEF L!Row
  <2>2. CASE at > Len(rows)
    BY <1>2, <1>b, <2>2 DEF L!Row
  <2>3. CASE ~ (at > Len(rows)) /\ Titles[L!Show] = 0
    BY <1>0, <1>2, <1>a, <2>1, <2>3 DEF L!Row, RunOK
  <2>4. CASE ~ (at > Len(rows)) /\ Titles[L!Show] # 0
    <3>1. title = 0 /\ route = None /\ at <= Len(rows)
      BY <1>0, <2>1, <2>4 DEF LinksInv, RunInv, RouteInv, RunOK
    <3>2. l_pc' \in {"bridge", "search"} /\ UNCHANGED <<cool, L!runVars, L!tryVars>>
      BY <1>2, <2>1, <2>4 DEF L!Row
    <3>. QED  BY <2>1, <3>1, <3>2 DEF Stayed, L!runVars, L!tryVars
  <2>. QED  BY <2>2, <2>3, <2>4
<1>3. CASE L!BridgeSearch
  <2>1. CASE used >= L!Limit
    BY <1>3, <1>b, <2>1 DEF L!BridgeSearch, L!Defer
  <2>2. CASE ~ (used >= L!Limit)
    <3>1. used \in Nat /\ L!Limit \in Nat
      BY <1>0, LinkNumbers DEF RunOK, L!Limit
    <3>. QED  BY <1>3, <1>c, <2>2, <3>1 DEF L!BridgeSearch, Stayed
  <2>. QED  BY <2>1, <2>2
<1>4. CASE L!BridgeSelect
  BY <1>4, <1>c DEF L!BridgeSelect, L!FallBack, Stayed, L!runVars
<1>5. CASE L!Search
  <2>1. l_pc = "search" /\ at <= Len(rows)
    BY <1>5, <1>c DEF L!Search
  <2>2. CASE \E n : L!Assess(n)
    BY <1>a, <2>1, <2>2
  <2>3. CASE L!Defer
    BY <1>b, <2>3 DEF L!Defer
  <2>4. CASE /\ used < L!Limit /\ used' = used + 1
             /\ \/ title' = title + 1 /\ l_pc' = l_pc /\ title # Titles[L!Show]
                \/ title' = Titles[L!Show] /\ l_pc' = l_pc
                \/ l_pc' = "find"
             /\ UNCHANGED <<cool, kind, rows, at, route>>
    <3>1. title \in Nat /\ title <= Titles[L!Show] /\ Titles[L!Show] \in 0 .. 2
      BY <1>0, <2>1, ShowFacts DEF LinksInv, RunInv, TryOK
    <3>. QED  BY <2>1, <2>4, <3>1 DEF Stayed
  <2>5. used \in Nat /\ L!Limit \in Nat
    BY <1>0, LinkNumbers DEF RunOK, L!Limit
  <2>. QED  BY <1>5, <2>2, <2>3, <2>4, <2>5 DEF L!Search
<1>6. CASE L!Find
  BY <1>6, <1>a, <1>c DEF L!Find, L!NotConfirmed, L!FallBack, Stayed, L!runVars, L!tryVars
<1>7. CASE L!Add
  BY <1>7, <1>c DEF L!Add, Stayed, L!runVars, L!tryVars
<1>8. CASE L!Confirmed
  BY <1>8, <1>a, <1>c DEF L!Confirmed
<1>9. CASE L!Abort
  BY <1>9, <1>b DEF L!Abort
<1>10. CASE L!Crash
  BY <1>10 DEF L!Crash, L!NextRow, RunEnded
<1>11. CASE L!CliAdd
  BY <1>11, <1>c DEF L!CliAdd, Stayed, L!runVars, L!tryVars
<1>12. CASE L!Round
  <2>1. \A s \in Shows : cool[s] = 0 => cool'[s] = 0
    BY <1>12 DEF L!Round
  <2>. QED  BY <1>12, <1>c, <2>1 DEF L!Round, Stayed, L!runVars, L!tryVars
<1>13. ASSUME NEW s \in Shows, L!EnrichAnime(s) PROVE Begun
  BY <1>13 DEF L!EnrichAnime, Begun, L!tryVars
<1>14. ASSUME NEW s \in Shows, NEW m \in Media, L!CliFind(s, m) PROVE Stayed
  BY <1>14, <1>c DEF L!CliFind, Stayed, L!runVars, L!tryVars
<1>15. CASE UNCHANGED L!vars
  <2>1. UNCHANGED <<kind, rows, at, used, cool, title, route, l_pc>>
    BY <1>15 DEF L!vars, L!runVars, L!tryVars
  <2>2. l_pc' # "idle" => l_pc' = "row" \/ at <= Len(rows)
    BY <1>c, <2>1
  <2>3. \A s \in Shows : cool[s] = 0 => cool'[s] = 0
    BY <2>1
  <2>. QED  BY <2>1, <2>2, <2>3 DEF Stayed
<1>. QED  BY <1>1, <1>2, <1>3, <1>4, <1>5, <1>6, <1>7, <1>8, <1>9, <1>10, <1>11, <1>12, <1>13, <1>14,
             <1>15 DEF L!Next, L!Work

LEMMA RunStep == LinksInv /\ [L!Next]_L!vars => RunInv' /\ RowsInv'
<1> SUFFICES ASSUME LinksInv, [L!Next]_L!vars PROVE RunInv' /\ RowsInv'
  OBVIOUS
<1>0. StoreOK /\ RunOK /\ TryOK /\ RunInv /\ RowsInv
  BY LinkTypes DEF LinksInv
<1>1. (StoreOK /\ RunOK /\ TryOK /\ CliOK)'
  BY LinkTypeStep, LinkTypes, PTL
<1>2. /\ used \in Nat /\ used <= L!Limit /\ at \in Nat /\ Len(rows) \in Nat
      /\ L!Limit \in Nat /\ L!Limit >= 1
      /\ \A i \in 1 .. Len(rows) : rows[i] \in Shows
  BY <1>0, LinkNumbers DEF RunInv, RunOK, L!Limit
<1>3. CASE RunEnded
  <2>1. RunInv'
    BY <1>3, LinkNumbers DEF RunEnded, RunInv, L!Limit
  <2>2. rows' = <<>> /\ Len(rows') = 0 /\ at' = 1
    BY <1>3 DEF RunEnded
  <2>. QED  BY <2>1, <2>2 DEF RowsInv
<1>4. CASE Moved
  <2>1. RunInv'
    BY <1>0, <1>4, <1>2 DEF Moved, RunInv, L!Limit
  <2>2. ASSUME kind' = "run" PROVE RowsInv'
    <3>1. /\ \A i, j \in 1 .. Len(rows) : rows[i] = rows[j] => i = j
          /\ \A i \in at .. Len(rows) : cool[rows[i]] = 0
      BY <1>0, <1>4, <2>2 DEF Moved, RowsInv
    <3>2. ASSUME NEW i \in (at + 1) .. Len(rows) PROVE cool'[rows[i]] = 0
      <4>1. i \in 1 .. Len(rows) /\ at \in 1 .. Len(rows) /\ i # at /\ i \in at .. Len(rows)
        BY <1>0, <1>2, <3>2 DEF RunOK
      <4>2. rows[i] # L!Show /\ rows[i] \in Shows
        BY <1>2, <3>1, <4>1 DEF L!Show
      <4>. QED  BY <1>4, <3>1, <4>1, <4>2 DEF Moved
    <3>. QED  BY <1>4, <3>1, <3>2 DEF Moved, RowsInv
  <2>. QED  BY <2>1, <2>2 DEF RowsInv
<1>5. CASE Begun
  <2>1. RunInv'
    BY <1>0, <1>2, <1>5, LinkNumbers DEF Begun, RunInv, L!Limit
  <2>2. at' = 1
    BY <1>0, <1>5 DEF Begun, RunInv
  <2>. QED  BY <1>1, <1>5, <2>1, <2>2, <1>0 DEF Begun, RowsInv, RunInv, RunOK
<1>6. CASE Stayed
  <2>1. l_pc' = "idle" => kind' = "run" /\ rows' = <<>> /\ at' = 1 /\ used' = 0
    BY <1>0, <1>6 DEF Stayed, RunInv
  <2>2. l_pc' \notin {"idle", "row"} => at' <= Len(rows')
    BY <1>0, <1>6 DEF Stayed, RunInv
  <2>3. l_pc' \in {"idle", "row"} => title' = 0
    BY <1>0, <1>6 DEF Stayed, RunInv
  <2>4. l_pc' \in {"bridge", "search"} => title' <= Titles[L!Show]'
    <3>1. SUFFICES ASSUME l_pc' \in {"bridge", "search"} PROVE title' <= Titles[L!Show]
      BY <1>6 DEF Stayed, L!Show
    <3>2. l_pc # "idle" /\ at <= Len(rows)
      BY <1>6, <3>1 DEF Stayed
    <3>3. Titles[L!Show] \in 0 .. 2 /\ title \in Nat
      BY <1>0, <3>2, ShowFacts DEF TryOK
    <3>. QED  BY <1>0, <1>6, <3>1, <3>3 DEF Stayed, RunInv
  <2>5. used' <= L!Limit'
    BY <1>2, <1>6 DEF Stayed, L!Limit
  <2>6. RowsInv'
    BY <1>0, <1>2, <1>6 DEF Stayed, RowsInv, RunOK
  <2>. QED  BY <2>1, <2>2, <2>3, <2>4, <2>5, <2>6 DEF RunInv
<1>. QED  BY <1>3, <1>4, <1>5, <1>6, RunMoves

\* One show for each entry of the two sources.
OneMedia ==
  \A s, t \in Shows, m \in Media \ raced : <<s, m>> \in al /\ <<t, m>> \in al => s = t
OneRoute ==
  \A s, t \in Shows, r \in Routes : <<s, r>> \in asl /\ <<t, r>> \in asl => s = t

LEMMA OneShow == L!EntryHasOneShow <=> OneMedia /\ OneRoute
BY DEF L!EntryHasOneShow, OneMedia, OneRoute

\* The bridge's links: only a confirmed attempt adds one, of the route that was free.
LEMMA RouteKept ==
  LinksInv /\ [L!Next]_L!vars =>
    asl' = asl \/ (route # None /\ route' = None /\ asl' = asl \cup {<<L!Show, route>>})
BY DEF L!Next, L!vars, L!Work, L!Start, L!Row, L!BridgeSearch, L!BridgeSelect, L!Search, L!Find,
       L!Add, L!Confirmed, L!Abort, L!Crash, L!CliAdd, L!CliFind, L!EnrichAnime, L!Round,
       L!linkVars, L!Assess, L!NextRow

LEMMA RouteStep == LinksInv /\ [L!Next]_L!vars => RouteInv' /\ OneRoute'
<1> SUFFICES ASSUME LinksInv, [L!Next]_L!vars PROVE RouteInv' /\ OneRoute'
  OBVIOUS
<1>0. /\ RouteInv /\ OneRoute
      /\ asl' = asl \/ (route # None /\ route' = None /\ asl' = asl \cup {<<L!Show, route>>})
  BY OneShow, RouteKept DEF LinksInv
<1>1. OneRoute'
  BY <1>0 DEF OneRoute, RouteInv
<1>2. CASE route' = None
  BY <1>1, <1>2 DEF RouteInv
<1>3. CASE route' # None
  <2>1. asl' = asl /\ (Begun \/ Stayed)
    BY <1>0, <1>3, RunMoves DEF RunEnded, Moved
  <2>2. CASE Begun
    BY <1>0, <1>1, <1>3, <2>1, <2>2 DEF Begun, RouteInv
  <2>3. CASE Stayed
    BY <1>0, <1>1, <1>3, <2>1, <2>3 DEF Stayed, RouteInv, L!Show
  <2>. QED  BY <2>1, <2>2, <2>3
<1>. QED  BY <1>2, <1>3

\* What a step does to the links with AniList and to those who are about to add one.
Quiet ==
  /\ UNCHANGED <<al, raced, c_pc, c_show, c_media>>
  /\ \/ l_pc' \notin {"find", "add", "airing"}
     \/ l_pc' = "find" /\ media' \in Media
     \/ UNCHANGED <<l_pc, media>>

Found ==
  /\ l_pc = "find" /\ l_pc' = "add" /\ Free(media)
  /\ UNCHANGED <<al, media, c_pc, c_show, c_media>>
  /\ raced' = IF c_pc = "add" /\ c_media = media THEN raced \cup {media} ELSE raced

LEMMA MediaMoves ==
  LinksInv /\ [L!Next]_L!vars =>
    \/ Quiet \/ Found \/ L!Add \/ L!CliAdd
    \/ \E s \in Shows, m \in Media : L!CliFind(s, m)
<1> SUFFICES ASSUME LinksInv, [L!Next]_L!vars,
                    ~ L!Add, ~ L!CliAdd, \A s \in Shows, m \in Media : ~ L!CliFind(s, m)
             PROVE  Quiet \/ Found
  OBVIOUS
<1>a. \A n : L!Assess(n) => l_pc' = "row"
  BY DEF L!Assess
<1>b. \A c : L!EndRun(c) => l_pc' = "idle"
  BY DEF L!EndRun
<1>c. \A n : L!FallBack(n) => l_pc' = "search"
  BY DEF L!FallBack
<1>1. CASE L!Start
  <2>1. l_pc' \in {"idle", "row"}
    BY <1>1, <1>b DEF L!Start
  <2>. QED  BY <1>1, <2>1 DEF L!Start, Quiet, L!linkVars, L!cliVars
<1>2. CASE L!Row
  <2>1. l_pc' \in {"idle", "row", "bridge", "search"}
    BY <1>2, <1>a, <1>b DEF L!Row
  <2>. QED  BY <1>2, <2>1 DEF L!Row, Quiet, L!linkVars, L!cliVars
<1>3. CASE L!BridgeSearch
  <2>1. l_pc' \in {"idle", "bridge"}
    BY <1>3, <1>b DEF L!BridgeSearch, L!Defer
  <2>. QED  BY <1>3, <2>1 DEF L!BridgeSearch, Quiet, L!linkVars, L!cliVars
<1>4. CASE L!BridgeSelect
  <2>1. l_pc' = "search" \/ (l_pc' = "find" /\ media' \in Media)
    BY <1>4, <1>c DEF L!BridgeSelect
  <2>. QED  BY <1>4, <2>1 DEF L!BridgeSelect, Quiet, L!linkVars, L!cliVars
<1>5. CASE L!Search
  <2>1. l_pc' \in {"idle", "row", "search"} \/ (l_pc' = "find" /\ media' \in Media)
    BY <1>5, <1>a, <1>b DEF L!Search, L!Defer
  <2>. QED  BY <1>5, <2>1 DEF L!Search, Quiet, L!linkVars, L!cliVars
<1>6. CASE L!Find
  <2>1. UNCHANGED <<al, c_pc, c_show, c_media>>
    BY <1>6 DEF L!Find, L!linkVars, L!cliVars
  <2>2. CASE L!NotConfirmed /\ UNCHANGED raced
    <3>1. l_pc' \in {"row", "search"}
      BY <2>2, <1>a, <1>c DEF L!NotConfirmed
    <3>. QED  BY <2>1, <2>2, <3>1 DEF Quiet
  <2>. QED  BY <1>6, <2>1, <2>2 DEF L!Find, Found, Free, L!tryVars
<1>8. CASE L!Confirmed
  BY <1>8, <1>a DEF L!Confirmed, Quiet, L!cliVars
<1>9. CASE L!Abort
  BY <1>9, <1>b DEF L!Abort, Quiet, L!linkVars, L!cliVars
<1>10. CASE L!Crash
  BY <1>10 DEF L!Crash, Quiet, L!linkVars, L!cliVars
<1>12. CASE L!Round
  BY <1>12 DEF L!Round, Quiet, L!linkVars, L!cliVars, L!tryVars
<1>13. ASSUME NEW s \in Shows, L!EnrichAnime(s) PROVE Quiet
  BY <1>13 DEF L!EnrichAnime, Quiet, L!linkVars, L!cliVars
<1>15. CASE UNCHANGED L!vars
  BY <1>15 DEF L!vars, L!linkVars, L!tryVars, L!cliVars, Quiet
<1>. QED  BY <1>1, <1>2, <1>3, <1>4, <1>5, <1>6, <1>8, <1>9, <1>10, <1>12, <1>13, <1>15
          DEF L!Next, L!Work

LEMMA MediaStep == LinksInv /\ [L!Next]_L!vars => MediaInv' /\ OneMedia'
<1> SUFFICES ASSUME LinksInv, [L!Next]_L!vars PROVE MediaInv' /\ OneMedia'
  OBVIOUS
<1>0. MediaInv /\ OneMedia
  BY OneShow DEF LinksInv
<1>1. CASE Quiet
  BY <1>0, <1>1 DEF Quiet, MediaInv, OneMedia, Free
<1>2. CASE Found
  <2>1. OneMedia'
    BY <1>0, <1>2 DEF Found, OneMedia
  <2>2. MediaInv'
    BY <1>0, <1>2 DEF Found, MediaInv, Free
  <2>. QED  BY <2>1, <2>2
<1>3. CASE L!Add
  <2>1. /\ l_pc = "add" /\ l_pc' = "airing" /\ al' = al \cup {<<L!Show, media>>}
        /\ UNCHANGED <<media, raced, c_pc, c_show, c_media>>
    BY <1>3 DEF L!Add, L!tryVars, L!cliVars
  <2>2. OneMedia'
    BY <1>0, <2>1 DEF MediaInv, OneMedia, Free
  <2>3. MediaInv'
    BY <1>0, <2>1 DEF MediaInv, Free
  <2>. QED  BY <2>2, <2>3
<1>4. CASE L!CliAdd
  <2>1. /\ c_pc = "add" /\ c_pc' = "idle" /\ al' = al \cup {<<c_show, c_media>>}
        /\ UNCHANGED <<l_pc, media, raced>>
    BY <1>4 DEF L!CliAdd, L!tryVars
  <2>2. OneMedia'
    BY <1>0, <2>1 DEF MediaInv, OneMedia, Free
  <2>3. MediaInv'
    BY <1>0, <2>1 DEF MediaInv, Free
  <2>. QED  BY <2>2, <2>3
<1>5. ASSUME NEW s \in Shows, NEW m \in Media, L!CliFind(s, m) PROVE MediaInv' /\ OneMedia'
  <2>1. /\ Free(m) /\ c_pc' = "add" /\ c_show' = s /\ c_media' = m
        /\ UNCHANGED <<al, l_pc, media>>
        /\ raced' = IF l_pc = "add" /\ media = m THEN raced \cup {m} ELSE raced
    BY <1>5 DEF L!CliFind, L!linkVars, L!tryVars, Free
  <2>2. OneMedia'
    BY <1>0, <2>1 DEF OneMedia
  <2>3. MediaInv'
    BY <1>0, <1>5, <2>1 DEF MediaInv, Free
  <2>. QED  BY <2>2, <2>3
<1>. QED  BY <1>1, <1>2, <1>3, <1>4, <1>5, MediaMoves

LEMMA LinksInit == L!Init => LinksInv
<1> SUFFICES ASSUME L!Init PROVE LinksInv
  OBVIOUS
<1>1. /\ al = {} /\ asl = {} /\ cool = [s \in Shows |-> 0] /\ cursor = 0 /\ due = TRUE
      /\ l_pc = "idle" /\ kind = "run" /\ rows = <<>> /\ first = 0 /\ at = 1 /\ used = 0
      /\ last = 0 /\ title = 0 /\ answered = FALSE /\ l_asked = 0 /\ media = None
      /\ route = None /\ c_pc = "idle" /\ c_show = 0 /\ c_media = None /\ raced = {}
      /\ l_faults = 0
  BY DEF L!Init, L!NoCooldown
<1>2. rows \in Seq(Shows) /\ Len(rows) = 0
  BY <1>1
<1>3. StoreOK /\ CliOK
  BY <1>1 DEF StoreOK, CliOK
<1>4. RunOK /\ TryOK
  <2>1. first \in 0 .. Len(rows) /\ at \in 1 .. (Len(rows) + 1) /\ RunOK
    BY <1>1, <1>2 DEF RunOK
  <2>2. answered \in BOOLEAN
    BY <1>1, Zenon
  <2>3. title \in 0 .. 2 /\ l_asked \in L!Rounds
    BY <1>1 DEF L!Rounds
  <2>. QED  BY <1>1, <2>1, <2>2, <2>3 DEF TryOK
<1>5. RunInv /\ RowsInv
  BY <1>1, <1>2, LinkNumbers DEF RunInv, RowsInv, L!Limit
<1>6. MediaInv /\ RouteInv /\ L!EntryHasOneShow
  BY <1>1 DEF MediaInv, RouteInv, L!EntryHasOneShow
<1>. QED  BY <1>3, <1>4, <1>5, <1>6, LinkTypes DEF LinksInv

\* LinksInv is inductive.
THEOREM LinksInvariance == L!Spec => []LinksInv
<1>1. LinksInv /\ [L!Next]_L!vars => LinksInv'
  <2>1. L!EntryHasOneShow' <=> OneMedia' /\ OneRoute'
    BY OneShow, PTL
  <2>. QED  BY <2>1, LinkTypeStep, RunStep, RouteStep, MediaStep DEF LinksInv
<1>. QED  BY <1>1, LinksInit, PTL DEF L!Spec

\* Links and runs keep to their rules in every order of the worker's attempts and the
\* owner's commands: a run does not search more often than it may (anilist_mapping.py:255),
\* and an entry of AniList or AnimeSchedule is the link of one show, unless two of them
\* looked for it at the same time (anilist_mapping.py:498).
THEOREM LinksAlwaysConsistent == L!Spec => []LinksAreConsistent
<1>1. LinksInv => LinksAreConsistent
  BY DEF LinksInv, RunInv, LinksAreConsistent, L!LinksAreConsistent, L!BudgetKept
<1>. QED  BY <1>1, LinksInvariance, PTL

\* A show that failed is left alone for its rounds, not even tried a second time by the
\* run that recorded the failure (anilist_mapping.py:660).
THEOREM LeftAloneIsKept == L!Spec => LeftAloneAfterFailure
<1>1. LinksInv /\ [L!Next]_L!vars =>
        [kind = "run" /\ l_pc = "row" /\ l_pc' \in {"bridge", "search"}
           => cool[L!Show] = 0]_L!vars
  <2> SUFFICES ASSUME LinksInv, [L!Next]_L!vars, kind = "run", l_pc = "row",
                      l_pc' \in {"bridge", "search"}
               PROVE  cool[L!Show] = 0
    OBVIOUS
  <2>1. at <= Len(rows)
    BY RunMoves DEF RunEnded, Moved, Begun, Stayed
  <2>2. at \in at .. Len(rows)
    BY <2>1, ShowFacts
  <2>. QED  BY <2>2 DEF LinksInv, RowsInv, L!Show
<1>. QED  BY <1>1, LinksInvariance, PTL DEF L!Spec, LeftAloneAfterFailure, L!LeftAloneAfterFailure

-----------------------------------------------------------------------------
(* CatalogSync                                                             *)

LEMMA SyncNumbers ==
  /\ C!Entries = Subjects \cup Media /\ Subjects \cap Media = {}
  /\ NoShow \notin Shows /\ NoEntry \notin Subjects /\ NoEntry \notin Media
  /\ IsFiniteSet({}) /\ Window \in Nat \ {0}
BY SyncConstants, FS_EmptySet DEF C!CatalogConstants, C!Entries

\* What an answer of a source changes.
LEMMA FetchFacts ==
  ASSUME C!TypeOK, NEW e \in C!Entries, C!Fetch(e)
  PROVE  /\ known' \subseteq C!Entries
         /\ latest' \in [C!Entries -> {"none", "clean", "adult"}]
         /\ age' \in [C!Entries -> 0 .. Window]
         /\ UNCHANGED <<owner, shows, adult, created, c_faults>>
         /\ \/ step' = "pick" /\ subject' = subject
            \/ step' = "create" /\ subject' = e /\ e \in Subjects /\ owner[e] = NoShow
<1>0. /\ known \subseteq C!Entries /\ age \in [C!Entries -> 0 .. Window]
      /\ latest \in [C!Entries -> {"none", "clean", "adult"}]
  BY DEF C!TypeOK
<1>1. PICK payload \in {"clean", "adult"} :
        /\ C!Snapshot(e, payload)
        /\ IF e \in Media \/ owner[e] # NoShow
             THEN step' = "pick" /\ UNCHANGED subject
             ELSE step' = "create" /\ subject' = e
  BY DEF C!Fetch
<1>2. latest' \in [C!Entries -> {"none", "clean", "adult"}]
  BY <1>0, <1>1 DEF C!Snapshot
<1>3. age' \in [C!Entries -> 0 .. Window]
  BY <1>0, <1>1, SyncNumbers DEF C!Snapshot
<1>4. known' \subseteq C!Entries /\ UNCHANGED <<owner, shows, adult, created, c_faults>>
  BY <1>0 DEF C!Fetch, C!showVars
<1>. QED  BY <1>1, <1>2, <1>3, <1>4, SyncNumbers

LEMMA CatalogTypeStep == CatalogInv /\ [C!Next]_C!vars => C!TypeOK'
<1> SUFFICES ASSUME CatalogInv, [C!Next]_C!vars PROVE C!TypeOK'
  OBVIOUS
<1>0. C!TypeOK /\ ContactInv
  BY DEF CatalogInv
<1> USE DEF C!rowVars, C!showVars, C!workVars
<1>1. CASE C!Create
  BY <1>0, <1>1 DEF C!Create, C!TypeOK
<1>2. CASE C!Link
  BY <1>0, <1>2 DEF C!Link, C!TypeOK, ContactInv
<1>3. CASE C!Calendar
  <2>1. PICK e \in todo : /\ todo' = todo \ {e}
                          /\ C!Fetch(e) \/ UNCHANGED <<known, owner, latest, age, shows, adult,
                                                       step, subject, created, c_faults>>
    BY <1>3 DEF C!Calendar
  <2>2. e \in C!Entries /\ UNCHANGED <<stage, jobs>> /\ todo' \subseteq C!Entries
    BY <1>0, <1>3, <2>1 DEF C!Calendar, C!TypeOK
  <2>3. CASE C!Fetch(e)
    BY <1>0, <2>2, <2>3, FetchFacts DEF C!TypeOK
  <2>. QED  BY <1>0, <2>1, <2>2, <2>3 DEF C!TypeOK
<1>4. CASE C!Known
  BY <1>0, <1>4 DEF C!Known, C!Enter, C!Some, C!TypeOK
<1>5. CASE C!Refresh
  <2>1. PICK e \in todo : /\ todo' \subseteq todo
                          /\ C!Fetch(e) \/ UNCHANGED <<known, owner, latest, age, shows, adult,
                                                       step, subject, created, c_faults>>
    BY <1>5 DEF C!Refresh
  <2>2. e \in C!Entries /\ UNCHANGED <<stage, jobs>> /\ todo' \subseteq C!Entries
    BY <1>0, <1>5, <2>1 DEF C!Refresh, C!TypeOK
  <2>3. CASE C!Fetch(e)
    BY <1>0, <2>2, <2>3, FetchFacts DEF C!TypeOK
  <2>. QED  BY <1>0, <2>1, <2>2, <2>3 DEF C!TypeOK
<1>6. CASE C!Project
  BY <1>0, <1>6 DEF C!Project, C!Enter, C!TypeOK
<1>7. CASE C!Round
  BY <1>0, <1>7, SyncNumbers DEF C!Round, C!Enter, C!TypeOK
<1>8. CASE C!SkipRefresh
  BY <1>0, <1>8 DEF C!SkipRefresh, C!Enter, C!TypeOK
<1>9. CASE C!Discover
  <2>1. PICK m \in Media, a \in shows :
          /\ known' = known \cup {m} /\ owner' = [owner EXCEPT ![m] = a]
          /\ \E payload \in {"clean", "adult"} : C!Snapshot(m, payload)
    BY <1>9 DEF C!Discover
  <2>2. m \in C!Entries /\ a \in Shows /\ UNCHANGED <<shows, adult, stage, todo, step, subject,
                                                    created, jobs, c_faults>>
    BY <1>0, <1>9, SyncNumbers DEF C!Discover, C!TypeOK
  <2>3. latest' \in [C!Entries -> {"none", "clean", "adult"}]
    BY <1>0, <2>1 DEF C!Snapshot, C!TypeOK
  <2>4. age' \in [C!Entries -> 0 .. Window]
    BY <1>0, <2>1, SyncNumbers DEF C!Snapshot, C!TypeOK
  <2>. QED  BY <1>0, <2>1, <2>2, <2>3, <2>4 DEF C!TypeOK
<1>10. CASE C!Enrich
  <2>1. PICK e \in Subjects : C!Fetch(e)
    BY <1>10 DEF C!Enrich
  <2>2. e \in C!Entries /\ UNCHANGED <<stage, todo>> /\ jobs' \in Nat
    BY <1>0, <1>10, SyncNumbers DEF C!Enrich, C!TypeOK
  <2>. QED  BY <1>0, <2>1, <2>2, FetchFacts DEF C!TypeOK
<1>11. CASE C!Crash
  BY <1>0, <1>11, SyncNumbers DEF C!Crash, C!Enter, C!TypeOK
<1>12. CASE UNCHANGED C!vars
  BY <1>0, <1>12 DEF C!vars, C!TypeOK
<1>. QED  BY <1>1, <1>2, <1>3, <1>4, <1>5, <1>6, <1>7, <1>8, <1>9, <1>10, <1>11, <1>12
          DEF C!Next, C!Work

\* What a step does to the shows and to a first contact.
Contact ==   \* at most a subject without a show is fetched
  /\ UNCHANGED <<owner, shows, created>> /\ c_faults' >= c_faults
  /\ \/ step' = step /\ subject' = subject
     \/ step' = "pick" /\ step = "pick"
     \/ /\ step = "pick" /\ step' = "create" /\ subject' \in Subjects
        /\ owner[subject'] = NoShow

Claimed ==   \* an entry without a show gets one
  /\ \E e \in C!Entries, a \in shows : owner[e] = NoShow /\ owner' = [owner EXCEPT ![e] = a]
  /\ step = "pick" /\ step' = "pick" /\ UNCHANGED <<shows, created, c_faults>>

LEMMA CatalogMoves ==
  CatalogInv /\ [C!Next]_C!vars => Contact \/ Claimed \/ C!Create \/ C!Link \/ C!Crash
<1> SUFFICES ASSUME CatalogInv, [C!Next]_C!vars, ~ C!Create, ~ C!Link, ~ C!Crash
             PROVE  Contact \/ Claimed
  OBVIOUS
<1>0. C!TypeOK /\ c_faults \in Nat
  BY DEF CatalogInv, C!TypeOK
<1>1. \A e \in C!Entries : C!Fetch(e) /\ step = "pick" => Contact
  BY <1>0, FetchFacts DEF Contact
<1> USE DEF C!rowVars, C!showVars, C!workVars, C!Idle
<1>2. CASE C!Calendar
  BY <1>0, <1>1, <1>2 DEF C!Calendar, Contact, C!TypeOK
<1>3. CASE C!Refresh
  BY <1>0, <1>1, <1>3 DEF C!Refresh, Contact, C!TypeOK
<1>4. CASE C!Enrich
  BY <1>0, <1>1, <1>4, SyncNumbers DEF C!Enrich
<1>5. CASE C!Known \/ C!Project \/ C!Round \/ C!SkipRefresh
  BY <1>0, <1>5 DEF C!Known, C!Project, C!Round, C!SkipRefresh, Contact
<1>6. CASE C!Discover
  BY <1>6, SyncNumbers DEF C!Discover, Claimed
<1>7. CASE UNCHANGED C!vars
  BY <1>0, <1>7 DEF C!vars, Contact
<1>. QED  BY <1>2, <1>3, <1>4, <1>5, <1>6, <1>7 DEF C!Next, C!Work

LEMMA ContactStep == CatalogInv /\ [C!Next]_C!vars => ContactInv'
<1> SUFFICES ASSUME CatalogInv, [C!Next]_C!vars PROVE ContactInv'
  OBVIOUS
<1>0. C!TypeOK /\ ContactInv
  BY DEF CatalogInv
<1>1. CASE Contact
  BY <1>0, <1>1 DEF Contact, ContactInv
<1>2. CASE Claimed
  BY <1>0, <1>2 DEF Claimed, ContactInv
<1>3. CASE C!Create
  BY <1>0, <1>3, SyncNumbers DEF C!Create, ContactInv, C!rowVars
<1>4. CASE C!Link
  BY <1>0, <1>4 DEF C!Link, ContactInv
<1>5. CASE C!Crash
  BY <1>0, <1>5 DEF C!Crash, ContactInv
<1>. QED  BY <1>1, <1>2, <1>3, <1>4, <1>5, CatalogMoves

\* The shows without a source, but for the one that is about to be linked.
Orphans == C!Unlinked \ {created}

LEMMA ShowsStep == CatalogInv /\ [C!Next]_C!vars => ShowsInv'
<1> SUFFICES ASSUME CatalogInv, [C!Next]_C!vars PROVE ShowsInv'
  OBVIOUS
<1>0. /\ C!TypeOK /\ ContactInv /\ IsFiniteSet(shows) /\ Cardinality(Orphans) <= c_faults
      /\ c_faults \in Nat
  BY DEF CatalogInv, ShowsInv, C!ShowsHaveSources, Orphans, C!TypeOK, C!Cardinality, Cardinality
<1>1. IsFiniteSet(Orphans) /\ Cardinality(Orphans) \in Nat
  BY <1>0, FS_Subset, FS_CardinalityType DEF Orphans, C!Unlinked
<1>2. SUFFICES IsFiniteSet(shows') /\ Cardinality(Orphans') <= c_faults'
  BY DEF ShowsInv, C!ShowsHaveSources, Orphans, C!Cardinality, Cardinality
<1>3. IsFiniteSet(shows')
  <2>1. \A a : IsFiniteSet(shows \cup {a})
    BY <1>0, FS_AddElement
  <2>. QED  BY <1>0, <2>1, CatalogMoves
            DEF Contact, Claimed, C!Create, C!Link, C!Crash, C!showVars
<1>4. CASE Orphans' \subseteq Orphans /\ c_faults' >= c_faults
  <2>1. c_faults' \in Nat /\ Cardinality(Orphans') \in Nat
        /\ Cardinality(Orphans') <= Cardinality(Orphans)
    BY <1>1, <1>4, FS_Subset, FS_CardinalityType, CatalogTypeStep DEF C!TypeOK
  <2>. QED  BY <1>0, <1>1, <1>3, <1>4, <2>1
<1>5. ASSUME Contact \/ Claimed \/ C!Create \/ C!Link
      PROVE  Orphans' \subseteq Orphans /\ c_faults' >= c_faults
  <2>1. CASE Contact
    BY <1>0, <2>1 DEF Contact, Orphans, C!Unlinked
  <2>2. CASE Claimed
    BY <1>0, <2>2, SyncNumbers DEF Claimed, Orphans, C!Unlinked, C!TypeOK
  <2>3. CASE C!Create
    <3>1. created = NoShow
      BY <1>0, <2>3 DEF C!Create, ContactInv
    <3>2. UNCHANGED <<owner, c_faults>> /\ created' \in Shows /\ shows' = shows \cup {created'}
      BY <2>3 DEF C!Create, C!rowVars
    <3>. QED  BY <1>0, <3>1, <3>2, SyncNumbers DEF Orphans, C!Unlinked, C!TypeOK
  <2>4. CASE C!Link
    <3>1. /\ owner' = [owner EXCEPT ![subject] = created] /\ UNCHANGED <<shows, c_faults>>
          /\ subject \in C!Entries /\ owner[subject] = NoShow
      BY <1>0, <2>4, SyncNumbers DEF C!Link, C!showVars, ContactInv
    <3>. QED  BY <1>0, <3>1, SyncNumbers DEF Orphans, C!Unlinked, C!TypeOK
  <2>. QED  BY <1>5, <2>1, <2>2, <2>3, <2>4
<1>6. CASE C!Crash
  <2>1. UNCHANGED <<owner, shows>> /\ c_faults' = c_faults + 1
    BY <1>6 DEF C!Crash, C!rowVars, C!showVars
  <2>2. Orphans' \subseteq Orphans \cup {created}
    BY <2>1 DEF Orphans, C!Unlinked
  <2>3. /\ IsFiniteSet(Orphans \cup {created})
        /\ Cardinality(Orphans \cup {created}) \in Nat
        /\ Cardinality(Orphans \cup {created}) <= Cardinality(Orphans) + 1
    <3>1. created \notin Orphans
      BY DEF Orphans
    <3>2. /\ IsFiniteSet(Orphans \cup {created})
          /\ Cardinality(Orphans \cup {created}) = Cardinality(Orphans) + 1
      BY <1>1, <3>1, FS_AddElement
    <3>. QED  BY <1>1, <3>2
  <2>4. Cardinality(Orphans') \in Nat /\ Cardinality(Orphans') <= Cardinality(Orphans \cup {created})
    BY <2>2, <2>3, FS_Subset, FS_CardinalityType
  <2>. QED  BY <1>0, <1>1, <1>3, <2>1, <2>3, <2>4
<1>. QED  BY <1>3, <1>4, <1>5, <1>6, CatalogMoves

LEMMA CatalogInit == C!Init => CatalogInv
<1> SUFFICES ASSUME C!Init PROVE CatalogInv
  OBVIOUS
<1>1. C!TypeOK /\ ContactInv
  BY SyncNumbers DEF C!Init, C!TypeOK, ContactInv
<1>2. IsFiniteSet(shows) /\ C!Unlinked \ {created} = {} /\ c_faults = 0
  BY SyncNumbers DEF C!Init, C!Unlinked
<1>3. C!Cardinality({}) = 0
  BY FS_EmptySet DEF C!Cardinality, Cardinality
<1>. QED  BY <1>1, <1>2, <1>3 DEF CatalogInv, ShowsInv, C!ShowsHaveSources

\* CatalogInv is inductive.
THEOREM CatalogInvariance == C!Spec => []CatalogInv
<1>1. CatalogInv /\ [C!Next]_C!vars => CatalogInv'
  BY CatalogTypeStep, ContactStep, ShowsStep DEF CatalogInv
<1>. QED  BY <1>1, CatalogInit, PTL DEF C!Spec

\* A subject gets one show: only a crash between the transaction that inserts the show and
\* the one that links it leaves a show that no source stands for, one for each crash
\* (bangumi_sync.py:58).
THEOREM CatalogAlwaysConsistent == C!Spec => []CatalogIsConsistent
<1>1. CatalogInv => CatalogIsConsistent
  BY DEF CatalogInv, ShowsInv, CatalogIsConsistent, C!CatalogIsConsistent
<1>. QED  BY <1>1, CatalogInvariance, PTL

-----------------------------------------------------------------------------
(* The worker                                                              *)

\* Each duty of the worker is a behaviour of its own specification: what is proved of the
\* three specifications holds of the worker.
THEOREM PartsOfWorker == WorkerSpec => Spec /\ L!Spec /\ C!Spec
<1>1. WorkerInit => Init /\ L!Init /\ C!Init
  BY DEF WorkerInit
<1>2. [WorkerNext]_all => [Next]_vars
  BY DEF WorkerNext, all, Jobs, Links, Catalog, Next, Work
<1>3. [WorkerNext]_all => [L!Next]_L!vars
  <2>1. UNCHANGED links => UNCHANGED L!vars
    BY DEF links, L!vars, L!linkVars, L!runVars, L!tryVars, L!cliVars
  <2>. QED  BY <2>1 DEF WorkerNext, all, Jobs, Links, Catalog, L!Next, L!Work
<1>4. [WorkerNext]_all => [C!Next]_C!vars
  <2>1. UNCHANGED catalog => UNCHANGED C!vars
    BY DEF catalog, C!vars, C!rowVars, C!showVars, C!workVars
  <2>. QED  BY <2>1 DEF WorkerNext, all, Jobs, Links, Catalog, C!Next, C!Work
<1>. QED  BY <1>1, <1>2, <1>3, <1>4, PTL DEF WorkerSpec, Spec, L!Spec, C!Spec
=============================================================================

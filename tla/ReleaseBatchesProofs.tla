------------------------ MODULE ReleaseBatchesProofs ------------------------
(***************************************************************************)
(* Theorems about ReleaseBatches, for any items, labels, users, filters    *)
(* and intervals, and any number of faults and changes.  The feed is read  *)
(* under an ETag that covers what is stored, because the ETag of a         *)
(* response stands for what is stored or still queued; windows do not      *)
(* overlap because a batch that is not open any more is a window old; the  *)
(* announcements go forward because the batch that is planned is not       *)
(* superseded until its jobs are in the outbox.                            *)
(***************************************************************************)
EXTENDS ReleaseBatches, FiniteSetTheorems, WellFoundedInduction, TLAPS

(* The inductive invariant, in named parts.                                *)

\* What is stored was listed, and the response's ETag stands for what is stored or
\* still to be.
FeedInv ==
  /\ queue \subseteq feed
  /\ \A i \in Items : release[i] # "none" => i \in feed
  /\ tag # NoTag => \A i \in tag : i \in queue \/ release[i] # "none"
  /\ last_success = NoTime => baseline

\* Batches are made of stored releases with an episode.
BatchInv ==
  /\ \A i \in Items : batch_of[i] # NoItem => release[i] # "none"
  /\ \A b \in Items : b_status[b] # "none" => release[b] # "none" /\ Label[b] # Unparsed

\* A batch that is not open any more, or is about to be closed, is a window old.
WindowInv ==
  /\ \A b \in Items : b_status[b] \notin {"none", "open"} =>
       /\ b_start[b] + Window <= clock
       /\ pc # "idle" => b_start[b] + Window <= now
  /\ \A b \in todo : b_status[b] \in {"open", "ready"} /\ b_start[b] + Window <= now
  /\ pc \notin {"close", "decide", "enqueue"} => todo = {}
  /\ cur # NoItem => b_status[cur] = "ready" /\ cur \notin todo

\* A job that is worth its delivery.
Worthy(job) ==
  /\ job.items # {} /\ job.users # {}
  /\ job.available < job.expires /\ job.expires <= job.available + Fresh
  /\ \A i \in job.items : pub[i] + Fresh >= job.expires

\* The jobs still to be enqueued announce the episode of the batch at hand, which is
\* the highest available one.
PlanInv ==
  /\ plan # {} => pc = "enqueue"
  /\ pc = "enqueue" => ~Superseded(cur)
  /\ \A job \in plan : /\ Worthy(job) /\ job.items \subseteq feed
                       /\ job.number = Number[Label[cur]]

\* The jobs announce stored releases and known episodes.
JobInv ==
  \A job \in jobs :
    /\ Worthy(job) /\ job.items \subseteq feed
    /\ \E i \in Items : /\ release[i] # "none" /\ Label[i] # Unparsed
                        /\ job.number = Number[Label[i]]

IInv == TypeOK /\ FeedInv /\ EtagCoversStored /\ BaselineIsSilent /\ BatchInv
          /\ WindowInv /\ WindowsDisjoint /\ PlanInv /\ JobInv /\ OneJobPerEpisode

-----------------------------------------------------------------------------
(* Numbers *)

\* The intervals are numbers.
LEMMA Intervals ==
  Window \in Nat /\ Fresh \in Nat /\ Poll \in Nat /\ MaxDelay \in Nat
BY ReleaseConstants

\* A nonempty set of numbers has a smallest one.
LEMMA SmallestExists ==
  ASSUME NEW T, T \subseteq Nat, T # {}
  PROVE  \E x \in T : \A y \in T : x <= y
<1>1. IsWellFoundedOn(OpToRel(<, Nat), Nat)
  BY NatLessThanWellFounded
<1>2. PICK x \in T : \A y \in T : ~ (<<y, x>> \in OpToRel(<, Nat))
  BY <1>1, WFMin
<1>3. \A y \in T : ~ (y < x)
  BY <1>2 DEF OpToRel
<1>. QED  BY <1>3

\* A nonempty set of times after some moment has a first one.
LEMMA FirstExists ==
  ASSUME NEW T, T \subseteq Int, T # {}, NEW low \in Int, \A x \in T : low < x
  PROVE  \E x \in T : \A y \in T : x <= y
<1> DEFINE above == {x - low : x \in T}
<1>1. above \subseteq Nat /\ above # {}
  <2>1. \A x \in T : x - low \in Nat
    OBVIOUS
  <2>. QED  BY <2>1
<1>2. PICK a \in above : \A b \in above : a <= b
  BY <1>1, SmallestExists
<1>3. PICK x \in T : a = x - low
  BY <1>2
<1>4. ASSUME NEW y \in T PROVE x <= y
  <2>1. x - low <= y - low
    BY <1>2, <1>3
  <2>. QED  BY <2>1
<1>. QED  BY <1>4

\* Finitely many numbers have a bound.
LEMMA FiniteHasBound ==
  ASSUME NEW S, IsFiniteSet(S), NEW f \in [S -> Nat]
  PROVE  \E top \in Nat : \A s \in S : f[s] <= top
<1>1. PICK n \in Nat : \E e : e \in Bijection(1..n, S)
  BY FS_CardinalityType DEF ExistsBijection
<1>2. PICK e : e \in Bijection(1..n, S)
  BY <1>1
<1>3. e \in [1..n -> S] /\ \A s \in S : \E k \in 1..n : e[k] = s
  BY <1>2 DEF Bijection, Surjection
<1> DEFINE Bounded(k) == \E top \in Nat : \A j \in 1..k : f[e[j]] <= top
           Wild == {k \in 0..n : ~ Bounded(k)}
<1>4. Wild = {}
  <2> SUFFICES ASSUME Wild # {} PROVE FALSE
    OBVIOUS
  <2>1. PICK k \in Wild : \A j \in Wild : k <= j
    <3>1. Wild \subseteq Nat
      OBVIOUS
    <3>. QED  BY <3>1, SmallestExists
  <2>2. k # 0
    <3>1. 0 \in Nat /\ \A j \in 1..0 : f[e[j]] <= 0
      OBVIOUS
    <3>2. Bounded(0)
      BY <3>1
    <3>. QED  BY <3>2
  <2>3. k - 1 \in 0..n /\ k - 1 \notin Wild /\ k \in 1..n
    <3>1. k \in 0..n
      OBVIOUS
    <3>2. k - 1 \in 0..n /\ k \in 1..n
      BY <2>2, <3>1
    <3>3. ~ (k <= k - 1)
      BY <3>1
    <3>. QED  BY <2>1, <3>2, <3>3
  <2>4. PICK top \in Nat : \A j \in 1 .. k - 1 : f[e[j]] <= top
    BY <2>3
  <2>5. f[e[k]] \in Nat
    BY <1>3, <2>3
  <2>6. PICK m \in Nat : top <= m /\ f[e[k]] <= m
    <3>1. CASE top <= f[e[k]]
      BY <2>5, <3>1
    <3>2. CASE f[e[k]] <= top
      BY <2>5, <3>2
    <3>. QED  BY <2>5, <3>1, <3>2
  <2>7. ASSUME NEW j \in 1..k PROVE f[e[j]] <= m
    <3>1. CASE j = k
      BY <2>6, <3>1
    <3>2. CASE j # k
      <4>1. j \in 1 .. k - 1 /\ j \in 1..n
        BY <2>3, <3>2
      <4>2. f[e[j]] \in Nat /\ f[e[j]] <= top
        BY <1>3, <2>4, <4>1
      <4>. QED  BY <2>6, <4>2
    <3>. QED  BY <3>1, <3>2
  <2>. QED  BY <2>7
<1>5. Bounded(n)
  BY <1>4
<1>. QED  BY <1>3, <1>5

\* The highest available episode exists as soon as one is available.
LEMMA HighestExists ==
  ASSUME TypeOK, NEW k \in Available
  PROVE  /\ Available \subseteq Nat
         /\ \E n \in Available : \A m \in Available : m <= n
<1> DEFINE f == [i \in Items |-> IF Label[i] # Unparsed THEN Number[Label[i]] ELSE 0]
<1>1. \A i \in Items : Label[i] # Unparsed => Number[Label[i]] \in Nat
  BY ReleaseConstants DEF Labels
<1>2. Available \subseteq Nat
  BY <1>1 DEF Available
<1>3. f \in [Items -> Nat]
  BY <1>1
<1>4. PICK top \in Nat : \A i \in Items : f[i] <= top
  BY <1>3, FiniteHasBound, ReleaseConstants
<1>5. \A n \in Available : n <= top
  BY <1>4 DEF Available
<1> DEFINE below == {top - n : n \in Available}
<1>6. below \subseteq Nat /\ below # {}
  <2>1. \A n \in Available : top - n \in Nat
    BY <1>2, <1>5
  <2>. QED  BY <2>1
<1>7. PICK b \in below : \A c \in below : b <= c
  BY <1>6, SmallestExists
<1>8. PICK n \in Available : b = top - n
  BY <1>7
<1>9. ASSUME NEW m \in Available PROVE m <= n
  <2>1. top - n <= top - m
    BY <1>7, <1>8
  <2>. QED  BY <2>1, <1>2
<1>. QED  BY <1>2, <1>9

\* What is planned for a group is worth its delivery.
LEMMA PlanFacts ==
  ASSUME TypeOK, BatchInv, FeedInv, NEW b \in Items, NEW job \in PlanOf(b)
  PROVE  /\ Worthy(job) /\ job.items \subseteq feed /\ job.available = now
         /\ job.number = Number[Label[b]]
<1>1. PICK g \in {GroupOf[u] : u \in Users} :
        /\ Audience(b, g) # {} /\ job.users = Audience(b, g)
        /\ job.number = Number[Label[b]] /\ job.items = Selected(b, g)
        /\ job.available = now
        /\ job.expires = Fresh + (CHOOSE p \in {pub[i] : i \in Selected(b, g)} :
                                    \A i \in Selected(b, g) : p <= pub[i])
  BY DEF PlanOf
<1> DEFINE dates == {pub[i] : i \in Selected(b, g)}
<1>2. \A i \in Selected(b, g) : i \in News(b)
  BY DEF Selected
<1>3. \A i \in News(b) : /\ i \in Items /\ i \in feed /\ pub[i] \in Int
                         /\ now - Fresh < pub[i] /\ pub[i] <= now
  BY ReleaseConstants DEF News, IsFresh, TypeOK, BatchInv, FeedInv
<1>4. Selected(b, g) # {}
  BY <1>1 DEF Selected, Audience
<1>5. dates \subseteq Int /\ dates # {} /\ \A x \in dates : now - Fresh < x
  BY <1>2, <1>3, <1>4
<1>6. now \in Int /\ Fresh \in Nat /\ now - Fresh \in Int
  BY Intervals DEF TypeOK
<1>7. \E x \in dates : \A y \in dates : x <= y
  BY <1>5, <1>6, FirstExists
<1>8. \E x \in dates : \A i \in Selected(b, g) : x <= pub[i]
  BY <1>7
<1>9. PICK x \in dates : /\ \A i \in Selected(b, g) : x <= pub[i]
                         /\ job.expires = Fresh + x
  BY <1>1, <1>8
<1>10. x \in Int /\ now - Fresh < x /\ x <= now
  BY <1>2, <1>3, <1>9
<1>11. Worthy(job)
  <2>1. job.items # {} /\ job.users # {}
    BY <1>1, <1>4
  <2>2. job.available < job.expires /\ job.expires <= job.available + Fresh
    BY <1>1, <1>6, <1>9, <1>10
  <2>3. ASSUME NEW i \in job.items PROVE pub[i] + Fresh >= job.expires
    BY <1>1, <1>2, <1>3, <1>6, <1>9, <1>10
  <2>. QED  BY <2>1, <2>2, <2>3 DEF Worthy
<1>. QED  BY <1>1, <1>2, <1>3, <1>11

-----------------------------------------------------------------------------
(* The steps *)

\* The values that stand for nothing.
LEMMA Nulls ==
  /\ Unaired \notin Nat /\ NoTime \notin Int /\ NoItem \notin Items
  /\ PubOffsets \subseteq Int
  /\ \A l \in Labels : Number[l] \in Nat
BY ReleaseConstants

\* The delay after a failure is a number.
LEMMA BackoffIsNumber ==
  ASSUME NEW n \in Nat
  PROVE  Min2(Poll * Doubled(n + 1), MaxDelay) \in Nat
<1>1. Min2(n + 1, 4) \in 1..4
  BY DEF Min2
<1>2. Doubled(n + 1) \in Nat
  BY <1>1 DEF Doubled
<1>3. Poll * Doubled(n + 1) \in Nat
  BY <1>2, Intervals
<1>. QED  BY <1>3, Intervals DEF Min2

\* Every step keeps the variables in their types.
LEMMA TypeStep ==
  TypeOK /\ [Next]_vars => TypeOK'
<1> SUFFICES ASSUME TypeOK, [Next]_vars PROVE TypeOK'
  OBVIOUS
<1> USE Intervals, Nulls DEF TypeOK, siteVars, userVars, batchVars, feedVars, planVars,
       pollVars
<1>1. ASSUME Tick PROVE TypeOK'
  BY <1>1 DEF Tick
<1>2. ASSUME NEW i \in Items, NEW offset \in PubOffsets, Publish(i, offset) PROVE TypeOK'
  BY <1>2 DEF Publish
<1>3. ASSUME NEW u \in Users, Toggle(u) PROVE TypeOK'
  BY <1>3 DEF Toggle
<1>4. ASSUME NEW a \in {Number[l] : l \in Labels} \cup {0}, NEW c \in BOOLEAN, Schedule(a, c) PROVE TypeOK'
  BY <1>4 DEF Schedule
<1>5. ASSUME StartRun PROVE TypeOK'
  BY <1>5 DEF StartRun, ReadyBatches
<1>6. ASSUME Suppress PROVE TypeOK'
  BY <1>6 DEF Suppress
<1>7. ASSUME Decide PROVE TypeOK'
  BY <1>7 DEF Decide
<1>8. ASSUME Finish PROVE TypeOK'
  BY <1>8 DEF Finish
<1>9. ASSUME EndClose PROVE TypeOK'
  <2>1. CASE Due
    <3>1. pc = "close" /\ todo = {} /\ pc' = "fetch" /\ UNCHANGED <<now, pollVars, clock, siteVars, userVars, batchVars, jobs, feedVars, planVars, faults>>
      BY <1>9, <2>1 DEF EndClose
    <3>. QED  BY <3>1
  <2>2. CASE ~Due
    <3>1. pc = "close" /\ todo = {} /\ EndRun /\ UNCHANGED <<clock, siteVars, userVars, batchVars, jobs, feedVars, planVars, faults>>
      BY <1>9, <2>2 DEF EndClose
    <3>. QED  BY <3>1 DEF EndRun
  <2>. QED  BY <2>1, <2>2
<1>10. ASSUME NEW b \in Items, Close(b) PROVE TypeOK'
  BY <1>10 DEF Close
<1>11. ASSUME NEW job \in plan, Enqueue(job) PROVE TypeOK'
  BY <1>11 DEF Enqueue
<1>12. ASSUME NEW tagged \in BOOLEAN, Fetch(tagged) PROVE TypeOK'
  <2>1. pc = "fetch" /\ pc' = "ingest" /\ baseline' = Baseline
        /\ UNCHANGED <<clock, siteVars, userVars, batchVars, jobs, feedVars, now, planVars, faults>>
    BY <1>12 DEF Fetch
  <2>2. \/ queue' = {} /\ tag' = etag /\ etag = feed
        \/ queue' = feed /\ tag' = feed
        \/ queue' = feed /\ tag' = NoTag
    BY <1>12 DEF Fetch
  <2>3. CASE queue' = {} /\ tag' = etag /\ etag = feed
    BY <2>1, <2>3 DEF Baseline
  <2>4. CASE queue' = feed /\ tag' = feed
    BY <2>1, <2>4 DEF Baseline
  <2>5. CASE queue' = feed /\ tag' = NoTag
    BY <2>1, <2>5 DEF Baseline
  <2>. QED  BY <2>2, <2>3, <2>4, <2>5
<1>13. ASSUME NEW i \in Items, Ingest(i) PROVE TypeOK'
  <2>1. pc = "ingest" /\ i \in queue /\ queue' = queue \ {i}
        /\ UNCHANGED <<clock, siteVars, userVars, jobs, feedVars, pc, now, planVars,
                       baseline, tag, faults>>
    BY <1>13 DEF Ingest
  <2>2. CASE Known(i)
    BY <2>1, <2>2 DEF Known
  <2>3. CASE Store(i)
    BY <2>1, <2>3 DEF Store
  <2>4. ASSUME NEW b \in Items, Join(i, b) PROVE TypeOK'
    BY <2>1, <2>4 DEF Join
  <2>5. CASE Open(i)
    BY <2>1, <2>5 DEF Open
  <2>. QED  BY <1>13, <2>2, <2>3, <2>4, <2>5 DEF Ingest
<1>14. ASSUME RecordSuccess PROVE TypeOK'
  BY <1>14 DEF RecordSuccess, EndRun
<1>15. ASSUME RecordFailure PROVE TypeOK'
  BY <1>15, BackoffIsNumber DEF RecordFailure, EndRun
<1>16. ASSUME PollFails PROVE TypeOK'
  BY <1>16 DEF PollFails
<1>17. ASSUME Interrupt PROVE TypeOK'
  <2>1. pc' = "idle" /\ now' = 0 /\ baseline' = TRUE /\ queue' = {} /\ tag' = NoTag
        /\ todo' = {} /\ cur' = NoItem /\ plan' = {} /\ planned' = FALSE
        /\ faults' = faults + 1
        /\ UNCHANGED <<clock, siteVars, userVars, batchVars, jobs, feedVars>>
    BY <1>17 DEF Interrupt, EndRun
  <2>2. {etag', tag'} \subseteq (SUBSET Items) \cup {NoTag} /\ UNCHANGED <<etag, last_success, next_poll, failures>>
    BY <2>1
  <2>3. faults' \in Nat /\ clock' \in Nat /\ now' \in Nat /\ now' <= clock' /\ clock' = clock
    BY <2>1
  <2>. QED  BY <2>1, <2>2, <2>3
<1>18. ASSUME UNCHANGED vars PROVE TypeOK'
  BY <1>18 DEF vars
<1> HIDE DEF TypeOK
<1>. QED
  BY <1>1, <1>2, <1>3, <1>4, <1>5, <1>6, <1>7, <1>8, <1>9, <1>10, <1>11, <1>12, <1>13,
         <1>14, <1>15, <1>16, <1>17, <1>18 DEF Next, WorkerStep

\* What is listed keeps its date, and what is stored stays stored.
LedgerKept ==
  /\ feed \subseteq feed' /\ \A i \in feed : pub'[i] = pub[i]
  /\ \A i \in Items : release[i] # "none" => release'[i] = release[i]

\* The site only adds, and so does the worker.
LEMMA LedgerStep ==
  TypeOK /\ [Next]_vars => LedgerKept
<1> SUFFICES ASSUME TypeOK, [Next]_vars PROVE LedgerKept
  OBVIOUS
<1> USE DEF LedgerKept, TypeOK, siteVars, userVars, batchVars, feedVars, planVars,
       pollVars
<1>1. ASSUME Tick PROVE LedgerKept
  BY <1>1 DEF Tick
<1>2. ASSUME NEW i \in Items, NEW offset \in PubOffsets, Publish(i, offset) PROVE LedgerKept
  BY <1>2 DEF Publish
<1>3. ASSUME NEW u \in Users, Toggle(u) PROVE LedgerKept
  BY <1>3 DEF Toggle
<1>4. ASSUME NEW a \in {Number[l] : l \in Labels} \cup {0}, NEW c \in BOOLEAN, Schedule(a, c) PROVE LedgerKept
  BY <1>4 DEF Schedule
<1>5. ASSUME StartRun PROVE LedgerKept
  BY <1>5 DEF StartRun
<1>6. ASSUME Suppress PROVE LedgerKept
  BY <1>6 DEF Suppress
<1>7. ASSUME Decide PROVE LedgerKept
  BY <1>7 DEF Decide
<1>8. ASSUME Finish PROVE LedgerKept
  BY <1>8 DEF Finish
<1>9. ASSUME EndClose PROVE LedgerKept
  BY <1>9 DEF EndClose, EndRun
<1>10. ASSUME NEW b \in Items, Close(b) PROVE LedgerKept
  BY <1>10 DEF Close
<1>11. ASSUME NEW job \in plan, Enqueue(job) PROVE LedgerKept
  BY <1>11 DEF Enqueue
<1>12. ASSUME NEW tagged \in BOOLEAN, Fetch(tagged) PROVE LedgerKept
  BY <1>12 DEF Fetch
<1>13. ASSUME NEW i \in Items, Ingest(i) PROVE LedgerKept
  BY <1>13 DEF Ingest, Known, Store, Join, Open
<1>14. ASSUME RecordSuccess PROVE LedgerKept
  BY <1>14 DEF RecordSuccess, EndRun
<1>15. ASSUME RecordFailure PROVE LedgerKept
  BY <1>15 DEF RecordFailure, EndRun
<1>16. ASSUME PollFails PROVE LedgerKept
  BY <1>16 DEF PollFails
<1>17. ASSUME Interrupt PROVE LedgerKept
  BY <1>17 DEF Interrupt, EndRun
<1>18. ASSUME UNCHANGED vars PROVE LedgerKept
  BY <1>18 DEF vars
<1>. QED
  BY <1>1, <1>2, <1>3, <1>4, <1>5, <1>6, <1>7, <1>8, <1>9, <1>10, <1>11, <1>12, <1>13,
         <1>14, <1>15, <1>16, <1>17, <1>18 DEF Next, WorkerStep

\* The worker stores what the response lists before it keeps its ETag.
LEMMA FeedStep ==
  TypeOK /\ FeedInv /\ EtagCoversStored /\ [Next]_vars => FeedInv'
<1> SUFFICES ASSUME TypeOK, FeedInv, EtagCoversStored, [Next]_vars PROVE FeedInv'
  OBVIOUS
<1> USE Nulls DEF FeedInv, EtagCoversStored, TypeOK, siteVars, userVars, batchVars,
       feedVars, planVars, pollVars
<1>1. ASSUME Tick PROVE FeedInv'
  BY <1>1 DEF Tick
<1>2. ASSUME NEW i \in Items, NEW offset \in PubOffsets, Publish(i, offset) PROVE FeedInv'
  BY <1>2 DEF Publish
<1>3. ASSUME NEW u \in Users, Toggle(u) PROVE FeedInv'
  BY <1>3 DEF Toggle
<1>4. ASSUME NEW a \in {Number[l] : l \in Labels} \cup {0}, NEW c \in BOOLEAN, Schedule(a, c) PROVE FeedInv'
  BY <1>4 DEF Schedule
<1>5. ASSUME StartRun PROVE FeedInv'
  BY <1>5 DEF StartRun
<1>6. ASSUME Suppress PROVE FeedInv'
  BY <1>6 DEF Suppress
<1>7. ASSUME Decide PROVE FeedInv'
  BY <1>7 DEF Decide
<1>8. ASSUME Finish PROVE FeedInv'
  BY <1>8 DEF Finish
<1>9. ASSUME EndClose PROVE FeedInv'
  <2>1. CASE Due
    <3>1. pc = "close" /\ todo = {} /\ pc' = "fetch" /\ UNCHANGED <<now, pollVars, clock, siteVars, userVars, batchVars, jobs, feedVars, planVars, faults>>
      BY <1>9, <2>1 DEF EndClose
    <3>. QED  BY <3>1
  <2>2. CASE ~Due
    <3>1. pc = "close" /\ todo = {} /\ EndRun /\ UNCHANGED <<clock, siteVars, userVars, batchVars, jobs, feedVars, planVars, faults>>
      BY <1>9, <2>2 DEF EndClose
    <3>. QED  BY <3>1 DEF EndRun
  <2>. QED  BY <2>1, <2>2
<1>10. ASSUME NEW b \in Items, Close(b) PROVE FeedInv'
  BY <1>10 DEF Close
<1>11. ASSUME NEW job \in plan, Enqueue(job) PROVE FeedInv'
  BY <1>11 DEF Enqueue
<1>12. ASSUME NEW tagged \in BOOLEAN, Fetch(tagged) PROVE FeedInv'
  <2>1. pc = "fetch" /\ pc' = "ingest" /\ baseline' = Baseline
        /\ UNCHANGED <<clock, siteVars, userVars, batchVars, jobs, feedVars, now, planVars, faults>>
    BY <1>12 DEF Fetch
  <2>2. \/ queue' = {} /\ tag' = etag /\ etag = feed
        \/ queue' = feed /\ tag' = feed
        \/ queue' = feed /\ tag' = NoTag
    BY <1>12 DEF Fetch
  <2>3. CASE queue' = {} /\ tag' = etag /\ etag = feed
    BY <2>1, <2>3 DEF Baseline
  <2>4. CASE queue' = feed /\ tag' = feed
    BY <2>1, <2>4 DEF Baseline
  <2>5. CASE queue' = feed /\ tag' = NoTag
    BY <2>1, <2>5 DEF Baseline
  <2>. QED  BY <2>2, <2>3, <2>4, <2>5
<1>13. ASSUME NEW i \in Items, Ingest(i) PROVE FeedInv'
  BY <1>13 DEF Ingest, Known, Store, Join, Open
<1>14. ASSUME RecordSuccess PROVE FeedInv'
  BY <1>14 DEF RecordSuccess, EndRun
<1>15. ASSUME RecordFailure PROVE FeedInv'
  BY <1>15 DEF RecordFailure, EndRun
<1>16. ASSUME PollFails PROVE FeedInv'
  BY <1>16 DEF PollFails
<1>17. ASSUME Interrupt PROVE FeedInv'
  BY <1>17 DEF Interrupt, EndRun
<1>18. ASSUME UNCHANGED vars PROVE FeedInv'
  BY <1>18 DEF vars
<1>. QED
  BY <1>1, <1>2, <1>3, <1>4, <1>5, <1>6, <1>7, <1>8, <1>9, <1>10, <1>11, <1>12, <1>13,
         <1>14, <1>15, <1>16, <1>17, <1>18 DEF Next, WorkerStep

\* An ETag is kept when the queue is empty.
LEMMA EtagStep ==
  TypeOK /\ FeedInv /\ EtagCoversStored /\ [Next]_vars => EtagCoversStored'
<1> SUFFICES ASSUME TypeOK, FeedInv, EtagCoversStored, [Next]_vars PROVE EtagCoversStored'
  OBVIOUS
<1> USE DEF FeedInv, EtagCoversStored, TypeOK, siteVars, userVars, batchVars, feedVars,
       planVars, pollVars
<1>1. ASSUME Tick PROVE EtagCoversStored'
  BY <1>1 DEF Tick
<1>2. ASSUME NEW i \in Items, NEW offset \in PubOffsets, Publish(i, offset) PROVE EtagCoversStored'
  BY <1>2 DEF Publish
<1>3. ASSUME NEW u \in Users, Toggle(u) PROVE EtagCoversStored'
  BY <1>3 DEF Toggle
<1>4. ASSUME NEW a \in {Number[l] : l \in Labels} \cup {0}, NEW c \in BOOLEAN, Schedule(a, c) PROVE EtagCoversStored'
  BY <1>4 DEF Schedule
<1>5. ASSUME StartRun PROVE EtagCoversStored'
  BY <1>5 DEF StartRun
<1>6. ASSUME Suppress PROVE EtagCoversStored'
  BY <1>6 DEF Suppress
<1>7. ASSUME Decide PROVE EtagCoversStored'
  BY <1>7 DEF Decide
<1>8. ASSUME Finish PROVE EtagCoversStored'
  BY <1>8 DEF Finish
<1>9. ASSUME EndClose PROVE EtagCoversStored'
  BY <1>9 DEF EndClose, EndRun
<1>10. ASSUME NEW b \in Items, Close(b) PROVE EtagCoversStored'
  BY <1>10 DEF Close
<1>11. ASSUME NEW job \in plan, Enqueue(job) PROVE EtagCoversStored'
  BY <1>11 DEF Enqueue
<1>12. ASSUME NEW tagged \in BOOLEAN, Fetch(tagged) PROVE EtagCoversStored'
  BY <1>12 DEF Fetch
<1>13. ASSUME NEW i \in Items, Ingest(i) PROVE EtagCoversStored'
  BY <1>13 DEF Ingest, Known, Store, Join, Open
<1>14. ASSUME RecordSuccess PROVE EtagCoversStored'
  BY <1>14 DEF RecordSuccess, EndRun
<1>15. ASSUME RecordFailure PROVE EtagCoversStored'
  BY <1>15 DEF RecordFailure, EndRun
<1>16. ASSUME PollFails PROVE EtagCoversStored'
  BY <1>16 DEF PollFails
<1>17. ASSUME Interrupt PROVE EtagCoversStored'
  BY <1>17 DEF Interrupt, EndRun
<1>18. ASSUME UNCHANGED vars PROVE EtagCoversStored'
  BY <1>18 DEF vars
<1>. QED
  BY <1>1, <1>2, <1>3, <1>4, <1>5, <1>6, <1>7, <1>8, <1>9, <1>10, <1>11, <1>12, <1>13,
         <1>14, <1>15, <1>16, <1>17, <1>18 DEF Next, WorkerStep

\* Nothing is batched while the feed is being read for the first time.
LEMMA BaselineStep ==
  TypeOK /\ FeedInv /\ BaselineIsSilent /\ [Next]_vars => BaselineIsSilent'
<1> SUFFICES ASSUME TypeOK, FeedInv, BaselineIsSilent, [Next]_vars PROVE BaselineIsSilent'
  OBVIOUS
<1> USE Nulls DEF FeedInv, BaselineIsSilent, TypeOK, siteVars, userVars, batchVars,
       feedVars, planVars, pollVars
<1>1. ASSUME Tick PROVE BaselineIsSilent'
  BY <1>1 DEF Tick
<1>2. ASSUME NEW i \in Items, NEW offset \in PubOffsets, Publish(i, offset) PROVE BaselineIsSilent'
  BY <1>2 DEF Publish
<1>3. ASSUME NEW u \in Users, Toggle(u) PROVE BaselineIsSilent'
  BY <1>3 DEF Toggle
<1>4. ASSUME NEW a \in {Number[l] : l \in Labels} \cup {0}, NEW c \in BOOLEAN, Schedule(a, c) PROVE BaselineIsSilent'
  BY <1>4 DEF Schedule
<1>5. ASSUME StartRun PROVE BaselineIsSilent'
  BY <1>5 DEF StartRun
<1>6. ASSUME Suppress PROVE BaselineIsSilent'
  BY <1>6 DEF Suppress
<1>7. ASSUME Decide PROVE BaselineIsSilent'
  BY <1>7 DEF Decide
<1>8. ASSUME Finish PROVE BaselineIsSilent'
  BY <1>8 DEF Finish
<1>9. ASSUME EndClose PROVE BaselineIsSilent'
  BY <1>9 DEF EndClose, EndRun
<1>10. ASSUME NEW b \in Items, Close(b) PROVE BaselineIsSilent'
  BY <1>10 DEF Close
<1>11. ASSUME NEW job \in plan, Enqueue(job) PROVE BaselineIsSilent'
  BY <1>11 DEF Enqueue
<1>12. ASSUME NEW tagged \in BOOLEAN, Fetch(tagged) PROVE BaselineIsSilent'
  BY <1>12 DEF Fetch
<1>13. ASSUME NEW i \in Items, Ingest(i) PROVE BaselineIsSilent'
  BY <1>13 DEF Ingest, Known, Store, Join, Open
<1>14. ASSUME RecordSuccess PROVE BaselineIsSilent'
  BY <1>14 DEF RecordSuccess, EndRun
<1>15. ASSUME RecordFailure PROVE BaselineIsSilent'
  BY <1>15 DEF RecordFailure, EndRun
<1>16. ASSUME PollFails PROVE BaselineIsSilent'
  BY <1>16 DEF PollFails
<1>17. ASSUME Interrupt PROVE BaselineIsSilent'
  BY <1>17 DEF Interrupt, EndRun
<1>18. ASSUME UNCHANGED vars PROVE BaselineIsSilent'
  BY <1>18 DEF vars
<1>. QED
  BY <1>1, <1>2, <1>3, <1>4, <1>5, <1>6, <1>7, <1>8, <1>9, <1>10, <1>11, <1>12, <1>13,
         <1>14, <1>15, <1>16, <1>17, <1>18 DEF Next, WorkerStep

\* Releases join batches of releases.
LEMMA BatchStep ==
  TypeOK /\ BatchInv /\ WindowInv /\ [Next]_vars => BatchInv'
<1> SUFFICES ASSUME TypeOK, BatchInv, WindowInv, [Next]_vars PROVE BatchInv'
  OBVIOUS
<1> USE DEF BatchInv, WindowInv, TypeOK, siteVars, userVars, batchVars, feedVars,
       planVars, pollVars
<1>1. ASSUME Tick PROVE BatchInv'
  BY <1>1 DEF Tick
<1>2. ASSUME NEW i \in Items, NEW offset \in PubOffsets, Publish(i, offset) PROVE BatchInv'
  BY <1>2 DEF Publish
<1>3. ASSUME NEW u \in Users, Toggle(u) PROVE BatchInv'
  BY <1>3 DEF Toggle
<1>4. ASSUME NEW a \in {Number[l] : l \in Labels} \cup {0}, NEW c \in BOOLEAN, Schedule(a, c) PROVE BatchInv'
  BY <1>4 DEF Schedule
<1>5. ASSUME StartRun PROVE BatchInv'
  BY <1>5 DEF StartRun
<1>6. ASSUME Suppress PROVE BatchInv'
  BY <1>6 DEF Suppress
<1>7. ASSUME Decide PROVE BatchInv'
  BY <1>7 DEF Decide
<1>8. ASSUME Finish PROVE BatchInv'
  BY <1>8 DEF Finish
<1>9. ASSUME EndClose PROVE BatchInv'
  BY <1>9 DEF EndClose, EndRun
<1>10. ASSUME NEW b \in Items, Close(b) PROVE BatchInv'
  BY <1>10 DEF Close
<1>11. ASSUME NEW job \in plan, Enqueue(job) PROVE BatchInv'
  BY <1>11 DEF Enqueue
<1>12. ASSUME NEW tagged \in BOOLEAN, Fetch(tagged) PROVE BatchInv'
  BY <1>12 DEF Fetch
<1>13. ASSUME NEW i \in Items, Ingest(i) PROVE BatchInv'
  BY <1>13 DEF Ingest, Known, Store, Join, Open
<1>14. ASSUME RecordSuccess PROVE BatchInv'
  BY <1>14 DEF RecordSuccess, EndRun
<1>15. ASSUME RecordFailure PROVE BatchInv'
  BY <1>15 DEF RecordFailure, EndRun
<1>16. ASSUME PollFails PROVE BatchInv'
  BY <1>16 DEF PollFails
<1>17. ASSUME Interrupt PROVE BatchInv'
  BY <1>17 DEF Interrupt, EndRun
<1>18. ASSUME UNCHANGED vars PROVE BatchInv'
  BY <1>18 DEF vars
<1>. QED
  BY <1>1, <1>2, <1>3, <1>4, <1>5, <1>6, <1>7, <1>8, <1>9, <1>10, <1>11, <1>12, <1>13,
         <1>14, <1>15, <1>16, <1>17, <1>18 DEF Next, WorkerStep

\* A batch is closed when its window is over.
LEMMA WindowStep ==
  TypeOK /\ BatchInv /\ WindowInv /\ [Next]_vars => WindowInv'
<1> SUFFICES ASSUME TypeOK, BatchInv, WindowInv, [Next]_vars PROVE WindowInv'
  OBVIOUS
<1> USE Intervals DEF BatchInv, WindowInv, ReadyBatches, TypeOK, siteVars, userVars,
       batchVars, feedVars, planVars, pollVars
<1>1. ASSUME Tick PROVE WindowInv'
  BY <1>1 DEF Tick
<1>2. ASSUME NEW i \in Items, NEW offset \in PubOffsets, Publish(i, offset) PROVE WindowInv'
  BY <1>2 DEF Publish
<1>3. ASSUME NEW u \in Users, Toggle(u) PROVE WindowInv'
  BY <1>3 DEF Toggle
<1>4. ASSUME NEW a \in {Number[l] : l \in Labels} \cup {0}, NEW c \in BOOLEAN, Schedule(a, c) PROVE WindowInv'
  BY <1>4 DEF Schedule
<1>5. ASSUME StartRun PROVE WindowInv'
  BY <1>5 DEF StartRun
<1>6. ASSUME Suppress PROVE WindowInv'
  BY <1>6 DEF Suppress
<1>7. ASSUME Decide PROVE WindowInv'
  BY <1>7 DEF Decide
<1>8. ASSUME Finish PROVE WindowInv'
  BY <1>8 DEF Finish
<1>9. ASSUME EndClose PROVE WindowInv'
  <2>1. CASE Due
    <3>1. pc = "close" /\ todo = {} /\ pc' = "fetch" /\ UNCHANGED <<now, pollVars, clock, siteVars, userVars, batchVars, jobs, feedVars, planVars, faults>>
      BY <1>9, <2>1 DEF EndClose
    <3>. QED  BY <3>1
  <2>2. CASE ~Due
    <3>1. pc = "close" /\ todo = {} /\ EndRun /\ UNCHANGED <<clock, siteVars, userVars, batchVars, jobs, feedVars, planVars, faults>>
      BY <1>9, <2>2 DEF EndClose
    <3>. QED  BY <3>1 DEF EndRun
  <2>. QED  BY <2>1, <2>2
<1>10. ASSUME NEW b \in Items, Close(b) PROVE WindowInv'
  BY <1>10 DEF Close
<1>11. ASSUME NEW job \in plan, Enqueue(job) PROVE WindowInv'
  BY <1>11 DEF Enqueue
<1>12. ASSUME NEW tagged \in BOOLEAN, Fetch(tagged) PROVE WindowInv'
  BY <1>12 DEF Fetch
<1>13. ASSUME NEW i \in Items, Ingest(i) PROVE WindowInv'
  BY <1>13 DEF Ingest, Known, Store, Join, Open
<1>14. ASSUME RecordSuccess PROVE WindowInv'
  BY <1>14 DEF RecordSuccess, EndRun
<1>15. ASSUME RecordFailure PROVE WindowInv'
  BY <1>15 DEF RecordFailure, EndRun
<1>16. ASSUME PollFails PROVE WindowInv'
  BY <1>16 DEF PollFails
<1>17. ASSUME Interrupt PROVE WindowInv'
  BY <1>17 DEF Interrupt, EndRun
<1>18. ASSUME UNCHANGED vars PROVE WindowInv'
  BY <1>18 DEF vars
<1>. QED
  BY <1>1, <1>2, <1>3, <1>4, <1>5, <1>6, <1>7, <1>8, <1>9, <1>10, <1>11, <1>12, <1>13,
         <1>14, <1>15, <1>16, <1>17, <1>18 DEF Next, WorkerStep

\* A batch is opened when no window of its label is running.
LEMMA DisjointStep ==
  TypeOK /\ BatchInv /\ WindowInv /\ WindowsDisjoint /\ [Next]_vars => WindowsDisjoint'
<1> SUFFICES ASSUME TypeOK, BatchInv, WindowInv, WindowsDisjoint, [Next]_vars PROVE WindowsDisjoint'
  OBVIOUS
<1> USE Intervals DEF BatchInv, WindowInv, WindowsDisjoint, Joinable, TypeOK, siteVars,
       userVars, batchVars, feedVars, planVars, pollVars
<1>1. ASSUME Tick PROVE WindowsDisjoint'
  BY <1>1 DEF Tick
<1>2. ASSUME NEW i \in Items, NEW offset \in PubOffsets, Publish(i, offset) PROVE WindowsDisjoint'
  BY <1>2 DEF Publish
<1>3. ASSUME NEW u \in Users, Toggle(u) PROVE WindowsDisjoint'
  BY <1>3 DEF Toggle
<1>4. ASSUME NEW a \in {Number[l] : l \in Labels} \cup {0}, NEW c \in BOOLEAN, Schedule(a, c) PROVE WindowsDisjoint'
  BY <1>4 DEF Schedule
<1>5. ASSUME StartRun PROVE WindowsDisjoint'
  BY <1>5 DEF StartRun
<1>6. ASSUME Suppress PROVE WindowsDisjoint'
  BY <1>6 DEF Suppress
<1>7. ASSUME Decide PROVE WindowsDisjoint'
  BY <1>7 DEF Decide
<1>8. ASSUME Finish PROVE WindowsDisjoint'
  BY <1>8 DEF Finish
<1>9. ASSUME EndClose PROVE WindowsDisjoint'
  BY <1>9 DEF EndClose, EndRun
<1>10. ASSUME NEW b \in Items, Close(b) PROVE WindowsDisjoint'
  BY <1>10 DEF Close
<1>11. ASSUME NEW job \in plan, Enqueue(job) PROVE WindowsDisjoint'
  BY <1>11 DEF Enqueue
<1>12. ASSUME NEW tagged \in BOOLEAN, Fetch(tagged) PROVE WindowsDisjoint'
  BY <1>12 DEF Fetch
<1>13. ASSUME NEW i \in Items, Ingest(i) PROVE WindowsDisjoint'
  <2>1. pc = "ingest" /\ i \in queue /\ queue' = queue \ {i}
        /\ UNCHANGED <<clock, siteVars, userVars, jobs, feedVars, pc, now, planVars,
                       baseline, tag, faults>>
    BY <1>13 DEF Ingest
  <2>2. CASE Known(i)
    BY <2>1, <2>2 DEF Known
  <2>3. CASE Store(i)
    BY <2>1, <2>3 DEF Store
  <2>4. ASSUME NEW b \in Items, Join(i, b) PROVE WindowsDisjoint'
    BY <2>1, <2>4 DEF Join
  <2>5. CASE Open(i)
    BY <2>1, <2>5 DEF Open
  <2>. QED  BY <1>13, <2>2, <2>3, <2>4, <2>5 DEF Ingest
<1>14. ASSUME RecordSuccess PROVE WindowsDisjoint'
  BY <1>14 DEF RecordSuccess, EndRun
<1>15. ASSUME RecordFailure PROVE WindowsDisjoint'
  BY <1>15 DEF RecordFailure, EndRun
<1>16. ASSUME PollFails PROVE WindowsDisjoint'
  BY <1>16 DEF PollFails
<1>17. ASSUME Interrupt PROVE WindowsDisjoint'
  BY <1>17 DEF Interrupt, EndRun
<1>18. ASSUME UNCHANGED vars PROVE WindowsDisjoint'
  BY <1>18 DEF vars
<1>. QED
  BY <1>1, <1>2, <1>3, <1>4, <1>5, <1>6, <1>7, <1>8, <1>9, <1>10, <1>11, <1>12, <1>13,
         <1>14, <1>15, <1>16, <1>17, <1>18 DEF Next, WorkerStep

\* A plan is made by Decide; until it is carried out nothing changes that it rests on.
PlanKept ==
  \/ pc' # "enqueue" /\ plan' = {}
  \/ /\ pc = "enqueue" /\ pc' = pc /\ plan' \subseteq plan
     /\ \A job \in plan \ plan' : Notified(job.group, job.number)'
     /\ UNCHANGED <<cur, release, aired, batch_of, now>>

\* Only an interruption or the end of its planning takes a batch away.
LEMMA PlanKeptStep ==
  PlanInv /\ [Next]_vars => (PlanKept \/ Decide)
<1> SUFFICES ASSUME PlanInv, [Next]_vars PROVE (PlanKept \/ Decide)
  OBVIOUS
<1> USE DEF PlanInv, PlanKept, siteVars, userVars, batchVars, feedVars, planVars,
       pollVars
<1>1. ASSUME Tick PROVE (PlanKept \/ Decide)
  BY <1>1 DEF Tick
<1>2. ASSUME NEW i \in Items, NEW offset \in PubOffsets, Publish(i, offset) PROVE (PlanKept \/ Decide)
  BY <1>2 DEF Publish
<1>3. ASSUME NEW u \in Users, Toggle(u) PROVE (PlanKept \/ Decide)
  BY <1>3 DEF Toggle
<1>4. ASSUME NEW a \in {Number[l] : l \in Labels} \cup {0}, NEW c \in BOOLEAN, Schedule(a, c) PROVE (PlanKept \/ Decide)
  BY <1>4 DEF Schedule
<1>5. ASSUME StartRun PROVE (PlanKept \/ Decide)
  BY <1>5 DEF StartRun
<1>6. ASSUME Suppress PROVE (PlanKept \/ Decide)
  BY <1>6 DEF Suppress
<1>7. ASSUME Decide PROVE (PlanKept \/ Decide)
  BY <1>7
<1>8. ASSUME Finish PROVE (PlanKept \/ Decide)
  BY <1>8 DEF Finish
<1>9. ASSUME EndClose PROVE (PlanKept \/ Decide)
  <2>1. CASE Due
    <3>1. pc = "close" /\ todo = {} /\ pc' = "fetch" /\ UNCHANGED <<now, pollVars, clock, siteVars, userVars, batchVars, jobs, feedVars, planVars, faults>>
      BY <1>9, <2>1 DEF EndClose
    <3>. QED  BY <3>1
  <2>2. CASE ~Due
    <3>1. pc = "close" /\ todo = {} /\ EndRun /\ UNCHANGED <<clock, siteVars, userVars, batchVars, jobs, feedVars, planVars, faults>>
      BY <1>9, <2>2 DEF EndClose
    <3>. QED  BY <3>1 DEF EndRun
  <2>. QED  BY <2>1, <2>2
<1>10. ASSUME NEW b \in Items, Close(b) PROVE (PlanKept \/ Decide)
  BY <1>10 DEF Close
<1>11. ASSUME NEW job \in plan, Enqueue(job) PROVE (PlanKept \/ Decide)
  <2>1. /\ pc = "enqueue" /\ pc' = pc /\ plan' = plan \ {job}
        /\ UNCHANGED <<cur, release, aired, batch_of, now>>
    BY <1>11 DEF Enqueue
  <2>2. Notified(job.group, job.number)'
    BY <1>11 DEF Enqueue, Notified
  <2>. QED  BY <2>1, <2>2
<1>12. ASSUME NEW tagged \in BOOLEAN, Fetch(tagged) PROVE (PlanKept \/ Decide)
  BY <1>12 DEF Fetch
<1>13. ASSUME NEW i \in Items, Ingest(i) PROVE (PlanKept \/ Decide)
  BY <1>13 DEF Ingest, Known, Store, Join, Open
<1>14. ASSUME RecordSuccess PROVE (PlanKept \/ Decide)
  BY <1>14 DEF RecordSuccess, EndRun
<1>15. ASSUME RecordFailure PROVE (PlanKept \/ Decide)
  BY <1>15 DEF RecordFailure, EndRun
<1>16. ASSUME PollFails PROVE (PlanKept \/ Decide)
  BY <1>16 DEF PollFails
<1>17. ASSUME Interrupt PROVE (PlanKept \/ Decide)
  BY <1>17 DEF Interrupt, EndRun
<1>18. ASSUME UNCHANGED vars PROVE (PlanKept \/ Decide)
  BY <1>18 DEF vars
<1>. QED
  BY <1>1, <1>2, <1>3, <1>4, <1>5, <1>6, <1>7, <1>8, <1>9, <1>10, <1>11, <1>12, <1>13,
         <1>14, <1>15, <1>16, <1>17, <1>18 DEF Next, WorkerStep

\* Only Enqueue adds a job.
LEMMA JobsFacts ==
  [Next]_vars => jobs' = jobs \/ \E job \in plan : Enqueue(job)
BY DEF Next, WorkerStep, vars, Tick, Publish, Toggle, Schedule, StartRun, Suppress,
       Decide, Finish, EndClose, Close, Fetch, Ingest, RecordSuccess, RecordFailure,
       PollFails, Interrupt

\* A job is announced of a plan, and one of a group and an episode.
LEMMA JobStep ==
  TypeOK /\ FeedInv /\ BatchInv /\ WindowInv /\ PlanInv /\ JobInv /\ OneJobPerEpisode /\ [Next]_vars
    => JobInv' /\ OneJobPerEpisode'
<1> SUFFICES ASSUME TypeOK, FeedInv, BatchInv, WindowInv, PlanInv, JobInv,
                    OneJobPerEpisode, [Next]_vars
             PROVE  JobInv' /\ OneJobPerEpisode'
  OBVIOUS
<1>1. LedgerKept
  BY LedgerStep
<1>2. \A job : Worthy(job) /\ job.items \subseteq feed => Worthy(job)' /\ job.items \subseteq feed'
  BY <1>1 DEF LedgerKept, Worthy
<1>3. \A i \in Items : release[i] # "none" => release'[i] # "none"
  BY <1>1 DEF LedgerKept
<1>4. CASE jobs' = jobs
  BY <1>2, <1>3, <1>4 DEF JobInv, OneJobPerEpisode
<1>5. ASSUME NEW job \in plan, Enqueue(job) PROVE JobInv' /\ OneJobPerEpisode'
  <2>1. CASE Notified(job.group, job.number)
    <3>1. jobs' = jobs
      BY <1>5, <2>1 DEF Enqueue
    <3>. QED  BY <1>4, <3>1
  <2>2. CASE ~ Notified(job.group, job.number)
    <3>1. jobs' = jobs \cup {job} /\ pc = "enqueue"
      BY <1>5, <2>2 DEF Enqueue
    <3>2. \A k \in jobs : ~ (k.group = job.group /\ k.number = job.number)
      BY <2>2 DEF Notified
    <3>3. OneJobPerEpisode'
      BY <3>1, <3>2 DEF OneJobPerEpisode
    <3>4. Worthy(job) /\ job.items \subseteq feed /\ job.number = Number[Label[cur]]
      BY DEF PlanInv
    <3>5. cur \in Items /\ release[cur] # "none" /\ Label[cur] # Unparsed
      BY <3>1 DEF TypeOK, WindowInv, BatchInv
    <3>6. JobInv'
      BY <1>2, <1>3, <3>1, <3>4, <3>5 DEF JobInv
    <3>. QED  BY <3>3, <3>6
  <2>. QED  BY <2>1, <2>2
<1>. QED  BY <1>4, <1>5, JobsFacts

\* The batch at hand is not superseded while it is planned.
LEMMA PlanStep ==
  TypeOK /\ FeedInv /\ BatchInv /\ PlanInv /\ [Next]_vars => PlanInv'
<1> SUFFICES ASSUME TypeOK, FeedInv, BatchInv, PlanInv, [Next]_vars PROVE PlanInv'
  OBVIOUS
<1>1. LedgerKept
  BY LedgerStep
<1>2. \A job : Worthy(job) /\ job.items \subseteq feed => Worthy(job)' /\ job.items \subseteq feed'
  BY <1>1 DEF LedgerKept, Worthy
<1>3. CASE pc' # "enqueue" /\ plan' = {}
  BY <1>3 DEF PlanInv
<1>4. CASE /\ pc = "enqueue" /\ pc' = pc /\ plan' \subseteq plan
           /\ UNCHANGED <<cur, release, aired>>
  <2>1. ~ Superseded(cur)'
    BY <1>4 DEF PlanInv, Superseded, Available
  <2>2. \A job \in plan' : /\ Worthy(job)' /\ job.items \subseteq feed'
                           /\ job.number = Number[Label[cur']]
    BY <1>2, <1>4 DEF PlanInv
  <2>. QED  BY <1>4, <2>1, <2>2 DEF PlanInv
<1>5. CASE Decide
  <2>1. /\ pc = "decide" /\ pc' = "enqueue" /\ plan' = PlanOf(cur) /\ ~ Superseded(cur)
        /\ UNCHANGED <<cur, release, aired>>
    BY <1>5 DEF Decide, batchVars, userVars
  <2>2. cur \in Items
    BY <2>1 DEF TypeOK
  <2>3. ~ Superseded(cur)'
    BY <2>1 DEF Superseded, Available
  <2>4. \A job \in plan' : /\ Worthy(job) /\ job.items \subseteq feed
                           /\ job.number = Number[Label[cur]]
    BY <2>1, <2>2, PlanFacts
  <2>. QED  BY <1>2, <2>1, <2>3, <2>4 DEF PlanInv
<1>. QED  BY <1>3, <1>4, <1>5, PlanKeptStep DEF PlanKept

-----------------------------------------------------------------------------

\* The invariant holds initially and is kept by every step.
THEOREM Invariance == Spec => []IInv
<1>1. Init => IInv
  <2> SUFFICES ASSUME Init PROVE IInv
    OBVIOUS
  <2>1. TypeOK
    <3>1. {etag, tag} \subseteq (SUBSET Items) \cup {NoTag}
      BY DEF Init
    <3>2. /\ clock \in Nat /\ now \in Nat /\ now <= clock /\ next_poll \in Nat
          /\ failures \in Nat /\ faults \in Nat /\ changes \in Nat
      BY DEF Init
    <3>3. /\ feed \in SUBSET Items /\ pub \in [Items -> Int] /\ b_start \in [Items -> Nat]
          /\ subscribed \in SUBSET Users /\ todo \in SUBSET Items /\ queue \in SUBSET Items
      BY DEF Init
    <3>4. pc \in {"decide", "enqueue"} <=> cur # NoItem
      BY DEF Init
    <3>. QED  BY <3>1, <3>2, <3>3, <3>4 DEF Init, TypeOK
  <2>2. FeedInv /\ EtagCoversStored /\ BaselineIsSilent
    BY DEF Init, FeedInv, EtagCoversStored, BaselineIsSilent
  <2>3. BatchInv /\ WindowInv /\ WindowsDisjoint
    BY DEF Init, BatchInv, WindowInv, WindowsDisjoint
  <2>4. PlanInv /\ JobInv /\ OneJobPerEpisode
    BY DEF Init, PlanInv, JobInv, OneJobPerEpisode
  <2>. QED  BY <2>1, <2>2, <2>3, <2>4 DEF IInv
<1>2. IInv /\ [Next]_vars => IInv'
  BY TypeStep, FeedStep, EtagStep, BaselineStep, BatchStep, WindowStep, DisjointStep,
         PlanStep, JobStep DEF IInv
<1>. QED  BY <1>1, <1>2, PTL DEF Spec

\* What is stored of a feed belongs together, and a conditional request hides nothing,
\* wherever a run fails (MikanReleasePipeline._poll_feed, _ingest_item).
THEOREM FeedAlwaysConsistent == Spec => []FeedIsConsistent
<1>1. IInv => FeedIsConsistent
  BY DEF IInv, FeedIsConsistent
<1>. QED  BY <1>1, Invariance, PTL

\* A feed is silent until it was read once to its end, however often that fails
\* (MikanReleasePipeline._poll_feed, baseline_only).
THEOREM BaselineAlwaysSilent == Spec => []BaselineIsSilent
<1>1. IInv => BaselineIsSilent
  BY DEF IInv
<1>. QED  BY <1>1, Invariance, PTL

\* Two batches of a label begin a window apart (MikanReleasePipeline._open_batch,
\* _close_ready_batches).
THEOREM WindowsAlwaysDisjoint == Spec => []WindowsDisjoint
<1>1. IInv => WindowsDisjoint
  BY DEF IInv
<1>. QED  BY <1>1, Invariance, PTL

\* A job is enqueued only while it can be delivered and announces nothing older than a
\* day (MikanReleasePipeline._plan_batch, _is_notification_fresh).
THEOREM JobsAlwaysNews == Spec => []JobsAreNews
<1>1. IInv => JobsAreNews
  BY DEF IInv, JobInv, Worthy, JobsAreNews
<1>. QED  BY <1>1, Invariance, PTL

\* A group hears of an episode once (MikanReleasePipeline._plan_batch, _notified).
THEOREM EpisodesAnnouncedOnce == Spec => []OneJobPerEpisode
<1>1. IInv => OneJobPerEpisode
  BY DEF IInv
<1>. QED  BY <1>1, Invariance, PTL

-----------------------------------------------------------------------------
(* Action properties *)

\* The step of FrontierAdvances.
Forward ==
  \A job \in jobs' \ jobs : \A k \in jobs :
    (k.group = job.group /\ (aired = Unaired \/ k.number <= aired)) => k.number < job.number

\* A job that is added is of the highest available episode, and an announced episode
\* that has aired is an available one.
LEMMA ForwardStep == IInv /\ [Next]_vars => Forward
<1> SUFFICES ASSUME IInv, NEW job \in plan, Enqueue(job), job \in jobs' \ jobs,
                    NEW k \in jobs, k.group = job.group,
                    aired = Unaired \/ k.number <= aired
             PROVE  k.number < job.number
  <2>1. ASSUME IInv, NEW job \in plan, Enqueue(job) PROVE jobs' \subseteq jobs \cup {job}
    BY <2>1 DEF Enqueue
  <2>. QED  BY <2>1, JobsFacts DEF Forward
<1>1. /\ pc = "enqueue" /\ ~ Notified(job.group, job.number)
      /\ job.number = Number[Label[cur]] /\ ~ Superseded(cur)
  BY DEF Enqueue, IInv, PlanInv
<1>2. /\ cur \in Items /\ release[cur] # "none" /\ Label[cur] # Unparsed
  BY <1>1 DEF IInv, TypeOK, WindowInv, BatchInv
<1>3. job.number \in Nat
  BY <1>1, <1>2, Nulls DEF Labels
<1>4. PICK i \in Items : /\ release[i] # "none" /\ Label[i] # Unparsed
                         /\ k.number = Number[Label[i]]
  BY DEF IInv, JobInv
<1>5. k.number \in Available
  BY <1>4 DEF Available
<1>6. /\ Available \subseteq Nat
      /\ \E n \in Available : \A m \in Available : m <= n
  BY <1>5, HighestExists DEF IInv
<1>7. PICK n \in Available : \A m \in Available : m <= n
  BY <1>6
<1>8. n = job.number
  BY <1>1, <1>7 DEF Superseded
<1>9. k.number <= job.number /\ k.number \in Nat
  BY <1>5, <1>6, <1>7, <1>8
<1>10. k.number # job.number
  BY <1>1 DEF Notified
<1>. QED  BY <1>3, <1>9, <1>10

\* The announcements of a group go forward (MikanReleasePipeline._plan_batch,
\* _highest_available_episode).
THEOREM FrontierAlwaysAdvances == Spec => FrontierAdvances
<1>1. IInv /\ [Next]_vars => [Forward]_jobs
  BY ForwardStep
<1>. QED  BY <1>1, Invariance, PTL DEF Spec, FrontierAdvances, Forward

\* While a batch is planned, each group with a subscriber who wants one of its fresh
\* releases has been told of the episode or is still in the plan.
ServedInv ==
  pc = "enqueue" =>
    \A u \in subscribed : Wanted[u] \cap News(cur) # {} =>
      \/ Notified(GroupOf[u], Number[Label[cur]])
      \/ \E job \in plan : job.group = GroupOf[u] /\ job.number = Number[Label[cur]]

\* A batch keeps its news while it is planned.
LEMMA ServedStep ==
  IInv /\ ServedInv /\ [Next]_vars /\ subscribed' = subscribed => ServedInv'
<1> SUFFICES ASSUME IInv, ServedInv, [Next]_vars, subscribed' = subscribed
             PROVE  ServedInv'
  OBVIOUS
<1> USE DEF IInv
<1>1. LedgerKept
  BY LedgerStep
<1>2. jobs \subseteq jobs'
  <2>1. ASSUME NEW job \in plan, Enqueue(job) PROVE jobs \subseteq jobs'
    BY <2>1 DEF Enqueue
  <2>. QED  BY <2>1, JobsFacts
<1>3. \A g, n : Notified(g, n) => Notified(g, n)'
  BY <1>2 DEF Notified
<1>4. CASE pc' # "enqueue"
  BY <1>4 DEF ServedInv
<1>5. CASE /\ pc = "enqueue" /\ pc' = pc /\ plan' \subseteq plan
           /\ \A job \in plan \ plan' : Notified(job.group, job.number)'
           /\ UNCHANGED <<cur, release, aired, batch_of, now>>
  <2>1. cur \in Items /\ cur' = cur
    BY <1>5 DEF TypeOK
  <2>2. \A i \in Items : batch_of[i] = cur => i \in feed /\ pub'[i] = pub[i]
    BY <1>1, <2>1, Nulls DEF BatchInv, FeedInv, LedgerKept
  <2>3. News(cur)' = News(cur)
    BY <1>5, <2>1, <2>2 DEF News, IsFresh
  <2> SUFFICES ASSUME NEW u \in subscribed, Wanted[u] \cap News(cur) # {}
               PROVE  \/ Notified(GroupOf[u], Number[Label[cur]])'
                      \/ \E job \in plan' : /\ job.group = GroupOf[u]
                                            /\ job.number = Number[Label[cur]]
    BY <2>1, <2>3 DEF ServedInv
  <2>4. CASE Notified(GroupOf[u], Number[Label[cur]])
    BY <1>3, <2>1, <2>4
  <2>5. ASSUME NEW job \in plan, job.group = GroupOf[u], job.number = Number[Label[cur]]
        PROVE  \/ Notified(GroupOf[u], Number[Label[cur]])'
               \/ \E other \in plan' : /\ other.group = GroupOf[u]
                                       /\ other.number = Number[Label[cur]]
    <3>1. CASE job \in plan'
      BY <2>5, <3>1
    <3>2. CASE job \notin plan'
      <4>1. Notified(job.group, job.number)'
        BY <1>5, <3>2
      <4>2. \E other \in jobs' : other.group = job.group /\ other.number = job.number
        BY <4>1 DEF Notified
      <4>3. \E other \in jobs' : /\ other.group = GroupOf[u]
                                 /\ other.number = Number[Label[cur]]
        BY <2>5, <4>2
      <4>. QED  BY <2>1, <4>3 DEF Notified
    <3>. QED  BY <3>1, <3>2
  <2>. QED  BY <1>5, <2>4, <2>5 DEF ServedInv
<1>6. CASE Decide
  <2>1. /\ pc = "decide" /\ plan' = PlanOf(cur)
        /\ UNCHANGED <<cur, jobs, now, pub, batch_of>>
    BY <1>6 DEF Decide, siteVars, batchVars
  <2>2. News(cur)' = News(cur) /\ \A g, n : Notified(g, n)' <=> Notified(g, n)
    BY <2>1 DEF News, IsFresh, Notified
  <2> SUFFICES ASSUME NEW u \in subscribed, Wanted[u] \cap News(cur) # {},
                      ~ Notified(GroupOf[u], Number[Label[cur]])
               PROVE  \E job \in plan' : /\ job.group = GroupOf[u]
                                         /\ job.number = Number[Label[cur]]
    BY <2>1, <2>2 DEF ServedInv
  <2>3. u \in Audience(cur, GroupOf[u]) /\ u \in Users
    BY DEF Audience, TypeOK
  <2>4. GroupOf[u] \in {h \in {GroupOf[v] : v \in Users} :
                          Audience(cur, h) # {} /\ ~Notified(h, Number[Label[cur]])}
    BY <2>3
  <2>5. \E job \in PlanOf(cur) : job.group = GroupOf[u] /\ job.number = Number[Label[cur]]
    <3> DEFINE Told(g) ==
          [group |-> g, number |-> Number[Label[cur]], users |-> Audience(cur, g),
           items |-> Selected(cur, g), available |-> now,
           expires |-> Fresh + (CHOOSE p \in {pub[i] : i \in Selected(cur, g)} :
                                  \A i \in Selected(cur, g) : p <= pub[i])]
    <3>1. Told(GroupOf[u]) \in PlanOf(cur)
      BY <2>4 DEF PlanOf
    <3>2. /\ Told(GroupOf[u]).group = GroupOf[u]
          /\ Told(GroupOf[u]).number = Number[Label[cur]]
      OBVIOUS
    <3>. QED  BY <3>1, <3>2
  <2>. QED  BY <2>1, <2>5
<1>. QED  BY <1>4, <1>5, <1>6, PlanKeptStep DEF PlanKept

\* Only the end of a batch's own planning, or the decision against it, ends it.
LEMMA EndFacts ==
  ASSUME IInv, [Next]_vars, NEW b \in Items, b_status[b] = "ready", b_status'[b] # "ready"
  PROVE  cur = b /\ (Suppress \/ Finish)
<1> USE DEF IInv
<1>1. ASSUME b_status' = b_status PROVE FALSE
  BY <1>1
<1>2. ASSUME Suppress \/ Finish PROVE cur = b
  BY <1>2 DEF TypeOK, Suppress, Finish
<1>3. ASSUME NEW c \in Items, Close(c) PROVE FALSE
  BY <1>3 DEF TypeOK, Close
<1>4. ASSUME NEW i \in Items, Ingest(i) PROVE FALSE
  BY <1>1, <1>4 DEF TypeOK, BatchInv, Ingest, Known, Store, Join, Open, batchVars
<1>. QED
  BY <1>1, <1>2, <1>3, <1>4 DEF Next, WorkerStep, vars, batchVars, Tick, Publish,
         Toggle, Schedule, StartRun, Decide, EndClose, Enqueue, Fetch, RecordSuccess,
         RecordFailure, PollFails, Interrupt

\* The step of EndServesAll.
Serves ==
  \A b \in Items :
    (b_status[b] = "ready" /\ b_status'[b] # "ready" /\ ~completed /\ ~Superseded(b))
      => \A u \in subscribed : Wanted[u] \cap News(b) # {} =>
           Notified(GroupOf[u], Number[Label[b]])

\* If nobody changes a subscription, a batch that ends as the frontier has been
\* announced to every group that wanted it (MikanReleasePipeline._plan_batch).
THEOREM EndAlwaysServesAll ==
  Spec /\ [][subscribed' = subscribed]_vars => EndServesAll
<1>1. Init => ServedInv
  BY DEF Init, ServedInv
<1>2. IInv /\ ServedInv /\ [Next]_vars /\ [subscribed' = subscribed]_vars => ServedInv'
  BY ServedStep DEF vars, userVars
<1>3. IInv /\ ServedInv /\ [Next]_vars => [Serves]_b_status
  <2> SUFFICES ASSUME IInv, ServedInv, [Next]_vars,
                      NEW b \in Items, b_status[b] = "ready", b_status'[b] # "ready",
                      ~completed, ~Superseded(b),
                      NEW u \in subscribed, Wanted[u] \cap News(b) # {}
               PROVE  Notified(GroupOf[u], Number[Label[b]])
    BY DEF Serves
  <2>1. cur = b /\ (Suppress \/ Finish)
    BY EndFacts
  <2>2. CASE Suppress
    BY <2>1, <2>2 DEF Suppress
  <2>3. CASE Finish
    BY <2>1, <2>3 DEF Finish, ServedInv
  <2>. QED  BY <2>1, <2>2, <2>3
<1>. QED  BY <1>1, <1>2, <1>3, Invariance, PTL DEF Spec, EndServesAll, Serves

=============================================================================

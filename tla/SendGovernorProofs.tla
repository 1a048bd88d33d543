------------------------- MODULE SendGovernorProofs -------------------------
(***************************************************************************)
(* What the governor promises, for all requests, limits and clocks.  The   *)
(* rates are about everything sent since the start, the guards are about   *)
(* what the deques still hold; the invariant ties the two: whatever left a *)
(* deque is a whole window old, and a deque never holds more than its      *)
(* count.                                                                  *)
(***************************************************************************)
EXTENDS SendGovernor, WellFoundedInduction, TLAPS

\* The deque is a suffix of what was recorded since the start.
DequeShape ==
  \A m \in AllMeters : start[m] <= head[m] /\ head[m] <= Len(log[m]) + 1

\* Nothing is recorded ahead of the clock.
NothingAhead == \A m \in AllMeters : \A i \in 1 .. Len(log[m]) : log[m][i] <= clock

\* What left a deque is a whole window old.
PoppedAreOld ==
  \A m \in Windows : \A i \in start[m] .. head[m] - 1 :
    log[m][i] + Span[Kind(m)] <= clock

\* A deque holds at most its count.
NeverOverfull == \A m \in Windows : Len(log[m]) - head[m] + 1 <= Count[Kind(m)]

WindowRates ==
  \A m \in Windows : \A i \in start[m] .. Len(log[m]) - Count[Kind(m)] :
    log[m][i] + Span[Kind(m)] <= log[m][i + Count[Kind(m)]]

IntervalRates ==
  \A m \in Intervals : \A i \in start[m] .. Len(log[m]) - 1 :
    log[m][i] + Interval[Kind(m)] <= log[m][i + 1]

IInv == TypeOK /\ DequeShape /\ NothingAhead /\ PoppedAreOld /\ NeverOverfull
          /\ WindowRates /\ IntervalRates

-----------------------------------------------------------------------------

\* Kinds index the limits.
LEMMA MeterKinds ==
  /\ \A m \in Windows : /\ m \in AllMeters
                        /\ Span[Kind(m)] \in Nat
                        /\ Count[Kind(m)] \in Nat \ {0}
  /\ \A m \in Intervals : m \in AllMeters /\ Interval[Kind(m)] \in Nat
  /\ \A r \in Requests : Meters(r) \subseteq AllMeters
BY GovernorLimits DEF Windows, Intervals, AllMeters

\* A nonempty set of numbers has a smallest one.
LEMMA SmallestExists ==
  ASSUME NEW T, T \subseteq Nat, T # {}
  PROVE  \E x \in T : \A y \in T : x <= y
<1>1. IsWellFoundedOn(OpToRel(<, Nat), Nat)
  BY NatLessThanWellFounded
<1>2. PICK x \in T : \A y \in T : ~ (<<y, x>> \in OpToRel(<, Nat))
  BY <1>1, WFMin
<1>3. \A y \in T : ~ (y < x)
  BY <1>2 DEF OpToRel
<1>. QED  BY <1>3

\* What _prune leaves: the times before the returned position are outside the
\* window, and the time at it, if there is one, is inside.
LEMMA FirstInFacts ==
  ASSUME TypeOK, DequeShape, NEW m \in Windows, NEW t \in Nat
  PROVE  /\ FirstIn(m, t) \in Nat
         /\ head[m] <= FirstIn(m, t) /\ FirstIn(m, t) <= Len(log[m]) + 1
         /\ FirstIn(m, t) <= Len(log[m]) =>
              log[m][FirstIn(m, t)] + Span[Kind(m)] > t
         /\ \A i \in head[m] .. FirstIn(m, t) - 1 : log[m][i] + Span[Kind(m)] <= t
<1> DEFINE inside == {h \in head[m] .. Len(log[m]) + 1 :
                        h <= Len(log[m]) => log[m][h] + Span[Kind(m)] > t}
<1>1. /\ m \in AllMeters /\ log[m] \in Seq(Nat) /\ Len(log[m]) \in Nat
      /\ head[m] \in Nat \ {0} /\ head[m] <= Len(log[m]) + 1
      /\ Span[Kind(m)] \in Nat
      /\ \A i \in 1 .. Len(log[m]) : log[m][i] \in Nat
  BY MeterKinds DEF TypeOK, DequeShape
<1>2. inside \subseteq Nat /\ Len(log[m]) + 1 \in inside
  BY <1>1
<1>3. \E h \in inside : \A k \in inside : h <= k
  BY <1>2, SmallestExists
<1>4. FirstIn(m, t) = CHOOSE h \in inside : \A k \in inside : h <= k
  BY DEF FirstIn
<1>5. FirstIn(m, t) \in inside /\ \A k \in inside : FirstIn(m, t) <= k
  BY <1>3, <1>4
<1>6. ASSUME NEW i \in head[m] .. FirstIn(m, t) - 1
      PROVE  log[m][i] + Span[Kind(m)] <= t
  <2>1. i \notin inside
    BY <1>1, <1>2, <1>5
  <2>2. i \in head[m] .. Len(log[m]) + 1 /\ i \in 1 .. Len(log[m])
    BY <1>1, <1>5
  <2>. QED  BY <2>1, <2>2, <1>1
<1>. QED  BY <1>1, <1>5, <1>6

\* An admitted request finds room in every window: a full one would hold a time
\* that is inside it.
LEMMA AdmittedHasRoom ==
  ASSUME TypeOK, DequeShape, NEW r \in Requests, Admits(r, clock),
         NEW m \in Meters(r) \cap Windows
  PROVE  Len(log[m]) - FirstIn(m, clock) + 1 < Count[Kind(m)]
<1>1. /\ m \in Windows /\ m \in AllMeters /\ Count[Kind(m)] \in Nat \ {0}
      /\ Len(log[m]) \in Nat /\ clock \in Nat /\ Span[Kind(m)] \in Nat
      /\ \A i \in 1 .. Len(log[m]) : log[m][i] \in Nat
      /\ head[m] \in Nat \ {0}
  BY MeterKinds DEF TypeOK
<1>2. /\ FirstIn(m, clock) \in Nat /\ head[m] <= FirstIn(m, clock)
      /\ FirstIn(m, clock) <= Len(log[m]) =>
           log[m][FirstIn(m, clock)] + Span[Kind(m)] > clock
  BY <1>1, FirstInFacts
<1>3. CASE Len(log[m]) - FirstIn(m, clock) + 1 >= Count[Kind(m)]
  <2>1. log[m][FirstIn(m, clock)] + Span[Kind(m)] \in WindowDeadlines(r, clock)
    BY <1>3 DEF WindowDeadlines
  <2>2. log[m][FirstIn(m, clock)] + Span[Kind(m)] <= clock
    BY <2>1 DEF Admits
  <2>3. FirstIn(m, clock) \in 1 .. Len(log[m])
    BY <1>1, <1>2, <1>3
  <2>. QED  BY <1>1, <1>2, <2>2, <2>3
<1>. QED  BY <1>1, <1>2, <1>3

-----------------------------------------------------------------------------
(* The steps *)

\* The shape of the state, meter by meter.
LEMMA Shape ==
  ASSUME TypeOK, DequeShape
  PROVE  \A m \in AllMeters :
           /\ log[m] \in Seq(Nat) /\ Len(log[m]) \in Nat
           /\ \A i \in 1 .. Len(log[m]) : log[m][i] \in Nat
           /\ start[m] \in Nat \ {0} /\ head[m] \in Nat \ {0}
           /\ start[m] <= head[m] /\ head[m] <= Len(log[m]) + 1
BY DEF TypeOK, DequeShape

\* What pruning does to the deques.
LEMMA PruneFacts ==
  ASSUME TypeOK, DequeShape, PoppedAreOld, NEW r \in Requests, Prune(r)
  PROVE  /\ head' \in [AllMeters -> Nat \ {0}]
         /\ \A m \in AllMeters :
              /\ head[m] <= head'[m] /\ head'[m] <= Len(log[m]) + 1
              /\ m \in Meters(r) \cap Windows => head'[m] = FirstIn(m, clock)
         /\ \A m \in Windows : \A i \in start[m] .. head'[m] - 1 :
              log[m][i] + Span[Kind(m)] <= clock
<1>1. /\ head' = [m \in AllMeters |->
                    IF m \in Meters(r) \cap Windows THEN FirstIn(m, clock) ELSE head[m]]
      /\ clock \in Nat
  BY DEF Prune, TypeOK
<1>2. ASSUME NEW m \in AllMeters
      PROVE  /\ head'[m] \in Nat \ {0}
             /\ head[m] <= head'[m] /\ head'[m] <= Len(log[m]) + 1
             /\ m \in Meters(r) \cap Windows => head'[m] = FirstIn(m, clock)
             /\ m \in Windows => \A i \in start[m] .. head'[m] - 1 :
                                   log[m][i] + Span[Kind(m)] <= clock
  <2>1. /\ start[m] \in Nat \ {0} /\ head[m] \in Nat \ {0}
        /\ head[m] <= Len(log[m]) + 1 /\ Len(log[m]) \in Nat
    BY Shape
  <2>2. m \in Windows => \A i \in start[m] .. head[m] - 1 :
                           log[m][i] + Span[Kind(m)] <= clock
    BY DEF PoppedAreOld
  <2>3. CASE m \notin Meters(r) \cap Windows
    <3>1. head'[m] = head[m]
      BY <1>1, <2>3
    <3>. QED  BY <3>1, <2>1, <2>2, <2>3
  <2>4. CASE m \in Meters(r) \cap Windows
    <3>1. head'[m] = FirstIn(m, clock)
      BY <1>1, <2>4
    <3>2. /\ FirstIn(m, clock) \in Nat
          /\ head[m] <= FirstIn(m, clock) /\ FirstIn(m, clock) <= Len(log[m]) + 1
          /\ \A i \in head[m] .. FirstIn(m, clock) - 1 :
               log[m][i] + Span[Kind(m)] <= clock
      BY <1>1, <2>4, FirstInFacts
    <3>3. ASSUME NEW i \in start[m] .. FirstIn(m, clock) - 1
          PROVE  log[m][i] + Span[Kind(m)] <= clock
      <4>1. i \in start[m] .. head[m] - 1 \/ i \in head[m] .. FirstIn(m, clock) - 1
        BY <2>1, <3>2
      <4>. QED  BY <4>1, <2>2, <2>4, <3>2
    <3>. QED  BY <3>1, <3>2, <3>3, <2>1
  <2>. QED  BY <2>3, <2>4
<1>3. head' \in [AllMeters -> Nat \ {0}]
  BY <1>1, <1>2
<1>. QED  BY <1>2, <1>3 DEF Windows

\* Pruning alone, with nothing recorded, keeps the invariant.
LEMMA PruneStep ==
  ASSUME IInv, NEW r \in Requests, Prune(r), UNCHANGED <<clock, log, start, restarts>>
  PROVE  IInv'
<1>1. TypeOK /\ DequeShape /\ NothingAhead /\ PoppedAreOld /\ NeverOverfull
        /\ WindowRates /\ IntervalRates
  BY DEF IInv
<1>2. /\ head' \in [AllMeters -> Nat \ {0}]
      /\ \A m \in AllMeters : head[m] <= head'[m] /\ head'[m] <= Len(log[m]) + 1
      /\ \A m \in Windows : \A i \in start[m] .. head'[m] - 1 :
           log[m][i] + Span[Kind(m)] <= clock
  BY <1>1, PruneFacts
<1>3. TypeOK'
  BY <1>1, <1>2 DEF TypeOK
<1>4. DequeShape'
  <2> SUFFICES ASSUME NEW m \in AllMeters
               PROVE  start[m] <= head'[m] /\ head'[m] <= Len(log[m]) + 1
    BY DEF DequeShape
  <2>. QED  BY <1>1, <1>2, Shape
<1>5. PoppedAreOld'
  BY <1>2 DEF PoppedAreOld
<1>6. NeverOverfull'
  <2> SUFFICES ASSUME NEW m \in Windows
               PROVE  Len(log[m]) - head'[m] + 1 <= Count[Kind(m)]
    BY DEF NeverOverfull
  <2>1. Len(log[m]) - head[m] + 1 <= Count[Kind(m)] /\ Count[Kind(m)] \in Nat
    BY <1>1, MeterKinds DEF NeverOverfull
  <2>2. /\ head[m] \in Nat /\ head'[m] \in Nat /\ Len(log[m]) \in Nat
        /\ head[m] <= head'[m]
    BY <1>1, <1>2, Shape, MeterKinds
  <2>. QED  BY <2>1, <2>2
<1>7. NothingAhead' /\ WindowRates' /\ IntervalRates'
  BY <1>1 DEF NothingAhead, WindowRates, IntervalRates
<1>. QED  BY <1>3, <1>4, <1>5, <1>6, <1>7 DEF IInv

\* What recording does to the logs.
LEMMA RecordFacts ==
  ASSUME TypeOK, NEW r \in Requests, Record(r)
  PROVE  /\ log' \in [AllMeters -> Seq(Nat)]
         /\ \A m \in AllMeters :
              /\ m \notin Meters(r) => log'[m] = log[m]
              /\ m \in Meters(r) => /\ Len(log'[m]) = Len(log[m]) + 1
                                    /\ log'[m][Len(log[m]) + 1] = clock
              /\ \A i \in 1 .. Len(log[m]) : log'[m][i] = log[m][i]
<1>1. log' = [m \in AllMeters |-> IF m \in Meters(r) THEN Append(log[m], clock) ELSE log[m]]
  BY DEF Record
<1>2. clock \in Nat /\ \A m \in AllMeters : log[m] \in Seq(Nat)
  BY DEF TypeOK
<1>. QED  BY <1>1, <1>2

\* An admitted request records the time at each of its meters.
LEMMA RecordStep ==
  ASSUME IInv, NEW r \in Requests, Admits(r, clock), Prune(r), Record(r),
         UNCHANGED <<clock, start, restarts>>
  PROVE  IInv'
<1>1. TypeOK /\ DequeShape /\ NothingAhead /\ PoppedAreOld /\ NeverOverfull
        /\ WindowRates /\ IntervalRates
  BY DEF IInv
<1>2. /\ head' \in [AllMeters -> Nat \ {0}]
      /\ \A m \in AllMeters :
           /\ head[m] <= head'[m] /\ head'[m] <= Len(log[m]) + 1
           /\ m \in Meters(r) \cap Windows => head'[m] = FirstIn(m, clock)
      /\ \A m \in Windows : \A i \in start[m] .. head'[m] - 1 :
           log[m][i] + Span[Kind(m)] <= clock
  BY <1>1, PruneFacts
<1>3. /\ log' \in [AllMeters -> Seq(Nat)]
      /\ \A m \in AllMeters :
           /\ m \notin Meters(r) => log'[m] = log[m]
           /\ m \in Meters(r) => /\ Len(log'[m]) = Len(log[m]) + 1
                                 /\ log'[m][Len(log[m]) + 1] = clock
           /\ \A i \in 1 .. Len(log[m]) : log'[m][i] = log[m][i]
  BY <1>1, RecordFacts
<1>4. TypeOK'
  BY <1>1, <1>2, <1>3 DEF TypeOK
<1>5. DequeShape'
  <2> SUFFICES ASSUME NEW m \in AllMeters
               PROVE  start[m] <= head'[m] /\ head'[m] <= Len(log'[m]) + 1
    BY DEF DequeShape
  <2>1. Len(log'[m]) \in {Len(log[m]), Len(log[m]) + 1} /\ head'[m] \in Nat
    BY <1>2, <1>3
  <2>. QED  BY <1>1, <1>2, <2>1, Shape
<1>6. NothingAhead'
  <2> SUFFICES ASSUME NEW m \in AllMeters, NEW i \in 1 .. Len(log'[m])
               PROVE  log'[m][i] <= clock
    BY DEF NothingAhead
  <2>1. Len(log[m]) \in Nat /\ clock \in Nat
    BY <1>1, Shape DEF TypeOK
  <2>2. CASE i \in 1 .. Len(log[m])
    BY <2>2, <1>1, <1>3 DEF NothingAhead
  <2>3. CASE i \notin 1 .. Len(log[m])
    <3>1. m \in Meters(r) /\ i = Len(log[m]) + 1
      BY <2>1, <2>3, <1>3
    <3>. QED  BY <3>1, <2>1, <1>3
  <2>. QED  BY <2>2, <2>3
<1>7. PoppedAreOld'
  <2> SUFFICES ASSUME NEW m \in Windows, NEW i \in start[m] .. head'[m] - 1
               PROVE  log'[m][i] + Span[Kind(m)] <= clock
    BY DEF PoppedAreOld
  <2>1. /\ m \in AllMeters /\ start[m] \in Nat \ {0} /\ Len(log[m]) \in Nat
        /\ head'[m] \in Nat /\ head'[m] <= Len(log[m]) + 1
    BY <1>1, <1>2, Shape, MeterKinds
  <2>2. i \in 1 .. Len(log[m])
    BY <2>1
  <2>3. log'[m][i] = log[m][i]
    BY <2>1, <2>2, <1>3
  <2>. QED  BY <2>3, <1>2
<1>8. NeverOverfull'
  <2> SUFFICES ASSUME NEW m \in Windows
               PROVE  Len(log'[m]) - head'[m] + 1 <= Count[Kind(m)]
    BY DEF NeverOverfull
  <2>1. /\ m \in AllMeters /\ head[m] \in Nat /\ head'[m] \in Nat
        /\ Len(log[m]) \in Nat /\ Count[Kind(m)] \in Nat
        /\ head[m] <= head'[m]
        /\ Len(log[m]) - head[m] + 1 <= Count[Kind(m)]
    BY <1>1, <1>2, Shape, MeterKinds DEF NeverOverfull
  <2>2. CASE m \notin Meters(r)
    BY <2>1, <2>2, <1>3
  <2>3. CASE m \in Meters(r)
    <3>1. Len(log[m]) - head'[m] + 1 < Count[Kind(m)]
      BY <1>1, <1>2, <2>1, <2>3, AdmittedHasRoom
    <3>2. Len(log'[m]) = Len(log[m]) + 1
      BY <2>1, <2>3, <1>3
    <3>. QED  BY <3>1, <3>2, <2>1
  <2>. QED  BY <2>2, <2>3
<1>9. WindowRates'
  <2> SUFFICES ASSUME NEW m \in Windows,
                      NEW i \in start[m] .. Len(log'[m]) - Count[Kind(m)]
               PROVE  log'[m][i] + Span[Kind(m)] <= log'[m][i + Count[Kind(m)]]
    BY DEF WindowRates
  <2>1. /\ m \in AllMeters /\ start[m] \in Nat \ {0} /\ Len(log[m]) \in Nat
        /\ Count[Kind(m)] \in Nat \ {0}
        /\ head'[m] \in Nat /\ head'[m] <= Len(log[m]) + 1
        /\ Len(log'[m]) \in {Len(log[m]), Len(log[m]) + 1}
    BY <1>1, <1>2, <1>3, Shape, MeterKinds
  <2>2. CASE i <= Len(log[m]) - Count[Kind(m)]
    <3>1. i \in 1 .. Len(log[m]) /\ i + Count[Kind(m)] \in 1 .. Len(log[m])
      BY <2>1, <2>2
    <3>2. /\ log'[m][i] = log[m][i]
          /\ log'[m][i + Count[Kind(m)]] = log[m][i + Count[Kind(m)]]
      BY <2>1, <3>1, <1>3
    <3>3. i \in start[m] .. Len(log[m]) - Count[Kind(m)]
      BY <2>1, <2>2
    <3>. QED  BY <3>2, <3>3, <1>1 DEF WindowRates
  <2>3. CASE i > Len(log[m]) - Count[Kind(m)]
    <3>1. i + Count[Kind(m)] = Len(log[m]) + 1 /\ m \in Meters(r)
      <4>1. Len(log'[m]) = Len(log[m]) + 1 /\ i + Count[Kind(m)] = Len(log[m]) + 1
        <5> DEFINE a == Len(log[m])
                   b == Len(log'[m])
                   c == Count[Kind(m)]
        <5>1. /\ a \in Nat /\ b \in {a, a + 1} /\ c \in Nat /\ start[m] \in Nat
              /\ i \in start[m] .. b - c /\ i > a - c
          BY <2>1, <2>3
        <5> HIDE DEF a, b, c
        <5>2. b = a + 1 /\ i + c = a + 1
          BY <5>1
        <5>. QED  BY <5>2 DEF a, b, c
      <4>2. m \in Meters(r)
        <5>1. Len(log'[m]) # Len(log[m])
          BY <4>1, <2>1
        <5>2. m \notin Meters(r) => log'[m] = log[m]
          BY <2>1, <1>3
        <5>. QED  BY <5>1, <5>2
      <4>. QED  BY <4>1, <4>2
    <3>2. Len(log[m]) - head'[m] + 1 < Count[Kind(m)]
      BY <1>1, <1>2, <2>1, <3>1, AdmittedHasRoom
    <3>3. i \in start[m] .. head'[m] - 1
      BY <2>1, <3>1, <3>2
    <3>4. log'[m][i] + Span[Kind(m)] <= clock
      BY <3>3, <1>7 DEF PoppedAreOld
    <3>5. log'[m][i + Count[Kind(m)]] = clock
      BY <3>1, <2>1, <1>3
    <3>. QED  BY <3>4, <3>5
  <2>. QED  BY <2>1, <2>2, <2>3
<1>10. IntervalRates'
  <2> SUFFICES ASSUME NEW m \in Intervals, NEW i \in start[m] .. Len(log'[m]) - 1
               PROVE  log'[m][i] + Interval[Kind(m)] <= log'[m][i + 1]
    BY DEF IntervalRates
  <2>1. /\ m \in AllMeters /\ start[m] \in Nat \ {0} /\ Len(log[m]) \in Nat
        /\ Len(log'[m]) \in {Len(log[m]), Len(log[m]) + 1}
    BY <1>1, <1>3, Shape, MeterKinds
  <2>2. CASE i <= Len(log[m]) - 1
    <3>1. i \in 1 .. Len(log[m]) /\ i + 1 \in 1 .. Len(log[m])
      BY <2>1, <2>2
    <3>2. log'[m][i] = log[m][i] /\ log'[m][i + 1] = log[m][i + 1]
      BY <2>1, <3>1, <1>3
    <3>3. i \in start[m] .. Len(log[m]) - 1
      BY <2>1, <2>2
    <3>. QED  BY <3>2, <3>3, <1>1 DEF IntervalRates
  <2>3. CASE i > Len(log[m]) - 1
    <3>1. i = Len(log[m]) /\ m \in Meters(r) /\ Len(log[m]) >= start[m]
      BY <2>1, <2>3, <1>3
    <3>2. log[m][Len(log[m])] + Interval[Kind(m)] \in IntervalDeadlines(r)
      BY <3>1 DEF IntervalDeadlines
    <3>3. log[m][Len(log[m])] + Interval[Kind(m)] <= clock
      BY <3>2 DEF Admits
    <3>4. i \in 1 .. Len(log[m])
      BY <2>1, <3>1
    <3>5. log'[m][i] = log[m][Len(log[m])] /\ log'[m][i + 1] = clock
      BY <3>1, <3>4, <2>1, <1>3
    <3>. QED  BY <3>3, <3>5
  <2>. QED  BY <2>1, <2>2, <2>3
<1>. QED  BY <1>4, <1>5, <1>6, <1>7, <1>8, <1>9, <1>10 DEF IInv

\* Time passes: what was old gets older, nothing enters or leaves a deque.
LEMMA TickStep ==
  ASSUME IInv, Tick
  PROVE  IInv'
<1>1. TypeOK /\ DequeShape /\ NothingAhead /\ PoppedAreOld /\ NeverOverfull
        /\ WindowRates /\ IntervalRates
  BY DEF IInv
<1>2. /\ clock \in Nat /\ clock' = clock + 1
      /\ UNCHANGED <<log, head, start, restarts>>
  BY <1>1 DEF Tick, TypeOK
<1>3. TypeOK' /\ DequeShape' /\ NeverOverfull' /\ WindowRates' /\ IntervalRates'
  BY <1>1, <1>2
     DEF TypeOK, DequeShape, NeverOverfull, WindowRates, IntervalRates
<1>4. NothingAhead'
  <2> SUFFICES ASSUME NEW m \in AllMeters, NEW i \in 1 .. Len(log[m])
               PROVE  log[m][i] <= clock + 1
    BY <1>2 DEF NothingAhead
  <2>1. log[m][i] <= clock /\ log[m][i] \in Nat
    BY <1>1, Shape DEF NothingAhead
  <2>. QED  BY <2>1, <1>2
<1>5. PoppedAreOld'
  <2> SUFFICES ASSUME NEW m \in Windows, NEW i \in start[m] .. head[m] - 1
               PROVE  log[m][i] + Span[Kind(m)] <= clock + 1
    BY <1>2 DEF PoppedAreOld
  <2>1. log[m][i] + Span[Kind(m)] <= clock
    BY <1>1 DEF PoppedAreOld
  <2>2. /\ start[m] \in Nat \ {0} /\ head[m] \in Nat /\ Len(log[m]) \in Nat
        /\ head[m] <= Len(log[m]) + 1 /\ Span[Kind(m)] \in Nat
        /\ \A k \in 1 .. Len(log[m]) : log[m][k] \in Nat
    BY <1>1, Shape, MeterKinds
  <2>3. log[m][i] \in Nat
    BY <2>2
  <2>. QED  BY <2>1, <2>2, <2>3, <1>2
<1>. QED  BY <1>3, <1>4, <1>5 DEF IInv

\* After a restart the deques are empty and nothing counts as sent.
LEMMA RestartStep ==
  ASSUME IInv, Restart
  PROVE  IInv'
<1>1. TypeOK /\ DequeShape /\ NothingAhead
  BY DEF IInv
<1>2. /\ restarts \in Nat /\ restarts' = restarts + 1
      /\ head' = [m \in AllMeters |-> Len(log[m]) + 1]
      /\ start' = [m \in AllMeters |-> Len(log[m]) + 1]
      /\ UNCHANGED <<clock, log>>
  BY <1>1 DEF Restart, TypeOK
<1>3. \A m \in AllMeters : /\ Len(log[m]) \in Nat
                           /\ head'[m] = Len(log[m]) + 1
                           /\ start'[m] = Len(log[m]) + 1
  BY <1>1, <1>2, Shape
<1>4. head' \in [AllMeters -> Nat \ {0}] /\ start' \in [AllMeters -> Nat \ {0}]
  BY <1>2, <1>3
<1>5. TypeOK' /\ NothingAhead'
  BY <1>1, <1>2, <1>4 DEF TypeOK, NothingAhead
<1>6. DequeShape'
  BY <1>2, <1>3 DEF DequeShape
<1>7. PoppedAreOld' /\ WindowRates'
  <2> SUFFICES ASSUME NEW m \in Windows
               PROVE  /\ start'[m] .. head'[m] - 1 = {}
                      /\ start'[m] .. Len(log[m]) - Count[Kind(m)] = {}
    BY <1>2 DEF PoppedAreOld, WindowRates
  <2>. QED  BY <1>3, MeterKinds
<1>8. NeverOverfull'
  <2> SUFFICES ASSUME NEW m \in Windows
               PROVE  Len(log[m]) - head'[m] + 1 <= Count[Kind(m)]
    BY <1>2 DEF NeverOverfull
  <2>. QED  BY <1>3, MeterKinds
<1>9. IntervalRates'
  <2> SUFFICES ASSUME NEW m \in Intervals
               PROVE  start'[m] .. Len(log[m]) - 1 = {}
    BY <1>2 DEF IntervalRates
  <2>. QED  BY <1>3, MeterKinds
<1>. QED  BY <1>5, <1>6, <1>7, <1>8, <1>9 DEF IInv

\* A fresh process holds nothing.
LEMMA InitIInv ==
  ASSUME Init
  PROVE  IInv
<1>1. /\ clock = 0 /\ restarts = 0
      /\ log = [m \in AllMeters |-> <<>>]
      /\ head = [m \in AllMeters |-> 1] /\ start = [m \in AllMeters |-> 1]
  BY DEF Init
<1>2. \A m \in AllMeters : Len(log[m]) = 0 /\ head[m] = 1 /\ start[m] = 1
  BY <1>1
<1>3. TypeOK
  BY <1>1 DEF TypeOK
<1>4. DequeShape /\ NothingAhead
  BY <1>2 DEF DequeShape, NothingAhead
<1>5. PoppedAreOld /\ NeverOverfull /\ WindowRates
  <2> SUFFICES ASSUME NEW m \in Windows
               PROVE  /\ start[m] .. head[m] - 1 = {}
                      /\ Len(log[m]) - head[m] + 1 <= Count[Kind(m)]
                      /\ start[m] .. Len(log[m]) - Count[Kind(m)] = {}
    BY DEF PoppedAreOld, NeverOverfull, WindowRates
  <2>. QED  BY <1>2, MeterKinds
<1>6. IntervalRates
  BY <1>2, MeterKinds DEF IntervalRates
<1>. QED  BY <1>3, <1>4, <1>5, <1>6 DEF IInv

-----------------------------------------------------------------------------
(* Theorems *)

\* The invariant is inductive: acquire, peek, a restart and the passing of time
\* keep it.
THEOREM Invariance == Spec => []IInv
<1>1. Init => IInv
  BY InitIInv
<1>2. IInv /\ [Next]_vars => IInv'
  <2> SUFFICES ASSUME IInv, [Next]_vars
               PROVE  IInv'
    OBVIOUS
  <2>1. CASE Tick
    BY <2>1, TickStep
  <2>2. CASE Restart
    BY <2>2, RestartStep
  <2>3. ASSUME NEW r \in Requests, Acquire(r)
        PROVE  IInv'
    <3>1. CASE Admits(r, clock)
      BY <2>3, <3>1, RecordStep DEF Acquire
    <3>2. CASE ~ Admits(r, clock)
      BY <2>3, <3>2, PruneStep DEF Acquire
    <3>. QED  BY <3>1, <3>2
  <2>4. ASSUME NEW r \in Requests, Peek(r)
        PROVE  IInv'
    BY <2>4, PruneStep DEF Peek
  <2>5. CASE UNCHANGED vars
    BY <2>5 DEF vars, IInv, TypeOK, DequeShape, NothingAhead, PoppedAreOld,
                NeverOverfull, WindowRates, IntervalRates, FirstIn
  <2>. QED  BY <2>1, <2>2, <2>3, <2>4, <2>5 DEF Next
<1>. QED  BY <1>1, <1>2, PTL DEF Spec

\* The state of the governor keeps its types.
THEOREM TypeCorrect == Spec => []TypeOK
<1>1. IInv => TypeOK
  BY DEF IInv
<1>. QED  BY <1>1, Invariance, PTL

\* No window of a meter ever holds more messages than its count and no two
\* messages of a meter are closer than its interval, for all limits.
THEOREM RatesAlwaysKept == Spec => []RatesKept
<1>1. IInv => RatesKept
  BY DEF IInv, RatesKept, WindowRates, IntervalRates
<1>. QED  BY <1>1, Invariance, PTL

\* A refused caller need not wait longer than it was told.
THEOREM RetryAlwaysEnough == Spec => []RetryIsEnough
<1>1. ASSUME IInv, NEW r \in Requests, NEW t \in clock .. clock + Horizon,
             \A d \in WindowDeadlines(r, clock) \cup IntervalDeadlines(r) : d <= t
      PROVE  Admits(r, t)
  <2>1. TypeOK /\ DequeShape /\ NeverOverfull
    BY <1>1 DEF IInv
  <2>2. clock \in Nat /\ t \in Nat /\ clock <= t
    BY <2>1, <1>1, GovernorBounds DEF TypeOK
  <2>3. ASSUME NEW m \in Meters(r) \cap Windows,
               Len(log[m]) - FirstIn(m, t) + 1 >= Count[Kind(m)]
        PROVE  FALSE
    <3>1. /\ m \in AllMeters /\ m \in Windows
          /\ Len(log[m]) \in Nat /\ head[m] \in Nat \ {0}
          /\ Count[Kind(m)] \in Nat \ {0} /\ Span[Kind(m)] \in Nat
          /\ \A k \in 1 .. Len(log[m]) : log[m][k] \in Nat
          /\ Len(log[m]) - head[m] + 1 <= Count[Kind(m)]
      BY <2>1, <2>3, Shape, MeterKinds DEF NeverOverfull
    <3>2. /\ FirstIn(m, t) \in Nat
          /\ head[m] <= FirstIn(m, t)
          /\ FirstIn(m, t) <= Len(log[m]) =>
               log[m][FirstIn(m, t)] + Span[Kind(m)] > t
      BY <2>1, <2>2, <3>1, FirstInFacts
    <3>3. FirstIn(m, t) = head[m] /\ head[m] \in 1 .. Len(log[m])
      BY <3>1, <3>2, <2>3
    <3>4. /\ FirstIn(m, clock) \in Nat
          /\ head[m] <= FirstIn(m, clock)
          /\ \A i \in head[m] .. FirstIn(m, clock) - 1 :
               log[m][i] + Span[Kind(m)] <= clock
      BY <2>1, <2>2, <3>1, FirstInFacts
    <3>5. FirstIn(m, clock) = head[m]
      <4>1. CASE head[m] <= FirstIn(m, clock) - 1
        <5>1. head[m] \in head[m] .. FirstIn(m, clock) - 1
          BY <4>1, <3>1, <3>4
        <5>2. log[m][head[m]] + Span[Kind(m)] <= clock
          BY <5>1, <3>4
        <5>3. log[m][head[m]] + Span[Kind(m)] > t
          BY <3>2, <3>3
        <5>4. log[m][head[m]] \in Nat
          BY <3>1, <3>3
        <5>. QED  BY <5>2, <5>3, <5>4, <3>1, <2>2
      <4>. QED  BY <4>1, <3>1, <3>4
    <3>6. log[m][FirstIn(m, clock)] + Span[Kind(m)] \in WindowDeadlines(r, clock)
      BY <2>3, <3>3, <3>5 DEF WindowDeadlines
    <3>7. log[m][head[m]] + Span[Kind(m)] <= t
      BY <3>5, <3>6, <1>1
    <3>8. log[m][head[m]] \in Nat
      BY <3>1, <3>3
    <3>. QED  BY <3>2, <3>3, <3>7, <3>8, <3>1, <2>2
  <2>4. WindowDeadlines(r, t) = {}
    BY <2>3 DEF WindowDeadlines
  <2>. QED  BY <2>4, <1>1 DEF Admits
<1>2. IInv => RetryIsEnough
  BY <1>1 DEF RetryIsEnough
<1>. QED  BY <1>2, Invariance, PTL
=============================================================================

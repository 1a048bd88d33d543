--------------------------- MODULE PlannersProofs ---------------------------
(***************************************************************************)
(* Theorems about the two planners.                                        *)
(*                                                                         *)
(* DailyDigest, for any day, minute, anchor, quiet time, cutoff and        *)
(* releases.  A release belongs to one period because the periods meet at  *)
(* the cutoff; a digest is planned inside its period because the minute of *)
(* the cutoff belongs to the next day's arithmetic and the exact end to    *)
(* Due; and a quiet period is planned because the worker comes by in the   *)
(* last Scan ticks before its end.                                         *)
(*                                                                         *)
(* AiringReminders, for any episodes, users and times.  A subscriber is in *)
(* the audience of a job because the planner's readers hold everyone who   *)
(* subscribed before it read, and who subscribes later adds himself; who   *)
(* does so between the two is one of the excused.                          *)
(***************************************************************************)
EXTENDS Planners, FiniteSetTheorems, WellFoundedInduction, TLAPS

\* A release is stored after it was published, and not in the future.
FoundInv ==
  \A r \in Releases : found[r] # NoTime => pub[r] <= found[r] /\ found[r] <= clock

\* The worker is not further behind than an iteration.
ScanInv == clock <= last_run + Scan

\* A digest holds releases of its own period, is not of the future, and is alone.
DigestInv ==
  \A d \in digests :
    /\ d.planned <= clock
    /\ \A r \in d.items : /\ found[r] # NoTime
                          /\ PeriodStart(d.period) < pub[r]
                          /\ pub[r] <= PeriodEnd(d.period)
    /\ \A e \in digests : d.period = e.period => d = e

\* Release r, stored, is of period p.
Of(p, r) == found[r] # NoTime /\ PeriodStart(p) < pub[r] /\ pub[r] <= PeriodEnd(p)

\* The releases of period p stopped a quiet time and an iteration before its end,
\* and one was known then.
Ripe(p) ==
  /\ \E r \in Releases : Of(p, r) /\ found[r] + Scan < PeriodEnd(p)
  /\ \A r \in Releases : Of(p, r) => pub[r] + Quiet + Scan <= PeriodEnd(p)

\* Once the worker has planned in the last Scan ticks of a ripe period, or later,
\* the period has its digest.
RipeInv ==
  Anchor + Scan <= Cutoff =>
    \A p \in Nat : Ripe(p) /\ PeriodEnd(p) <= last_run + Scan =>
      \E d \in digests : d.period = p

IInv == TypeOK /\ FoundInv /\ ScanInv /\ DigestInv /\ PlannedInQuiet
          /\ PlannedInPeriod /\ RipeInv

-----------------------------------------------------------------------------

USE DigestConstants

\* The numbers the settings are.
LEMMA Numbers ==
  /\ MinuteLen \in Nat /\ MinuteLen > 0 /\ Day \in Nat /\ Day > 0
  /\ Anchor \in Nat /\ Cutoff \in Nat /\ Anchor < Cutoff /\ Cutoff + MinuteLen <= Day
  /\ Quiet \in Nat /\ Quiet > 0 /\ Quiet <= Cutoff - Anchor
  /\ Grace \in Nat /\ Grace > 0 /\ Scan \in Nat /\ Scan > 0
OBVIOUS

\* Multiplication by the length of a day respects the order.
LEMMA DaysInOrder ==
  ASSUME NEW a \in Int, NEW b \in Int, a <= b
  PROVE  a * Day <= b * Day
BY Numbers

\* A day number and the time of the day.
LEMMA DayAndTime ==
  ASSUME NEW t \in Nat
  PROVE  /\ t \div Day \in Nat /\ t % Day \in Nat /\ t % Day < Day
         /\ t = (t \div Day) * Day + (t % Day)
BY Numbers

\* The time of the day by the minute.
LEMMA ByTheMinute ==
  ASSUME NEW t \in Nat
  PROVE  (t \div MinuteLen) > (Cutoff \div MinuteLen) <=> Cutoff + MinuteLen <= t
<1>1. /\ t \div MinuteLen \in Nat /\ t % MinuteLen \in Nat /\ t % MinuteLen < MinuteLen
      /\ t = MinuteLen * (t \div MinuteLen) + (t % MinuteLen)
  BY Numbers
<1>2. Cutoff \div MinuteLen \in Nat /\ Cutoff = MinuteLen * (Cutoff \div MinuteLen)
  BY Numbers
<1> DEFINE m == t \div MinuteLen
           c == Cutoff \div MinuteLen
<1>3. CASE m > c
  <2>1. MinuteLen * (c + 1) <= MinuteLen * m
    BY <1>1, <1>2, <1>3, Numbers
  <2>. QED  BY <2>1, <1>1, <1>2, <1>3, Numbers
<1>4. CASE m <= c
  <2>1. MinuteLen * m <= MinuteLen * c
    BY <1>1, <1>2, <1>4, Numbers
  <2>. QED  BY <2>1, <1>1, <1>2, <1>4, Numbers
<1>. QED  BY <1>1, <1>2, <1>3, <1>4

\* The ends of the periods are whole numbers.
LEMMA PeriodNumbers ==
  /\ \A p \in Nat : PeriodEnd(p) \in Nat /\ PeriodStart(p) \in Int
  /\ \A p \in Nat : PeriodEnd(p) = p * Day + Cutoff
  /\ \A p \in Nat : PeriodStart(p) = p * Day - Day + Cutoff
<1>1. ASSUME NEW p \in Nat
      PROVE  /\ PeriodEnd(p) \in Nat /\ PeriodStart(p) \in Int
             /\ PeriodEnd(p) = p * Day + Cutoff
             /\ PeriodStart(p) = p * Day - Day + Cutoff
  <2>1. p * Day \in Nat /\ (p - 1) * Day \in Int /\ (p - 1) * Day = p * Day - Day
    BY Numbers
  <2>. QED  BY <2>1, Numbers DEF PeriodEnd, PeriodStart
<1>. QED  BY <1>1

\* The periods meet without overlap: no moment is in two of them.
LEMMA OnePeriod ==
  ASSUME NEW p \in Nat, NEW q \in Nat, NEW x \in Int,
         PeriodStart(p) < x, x <= PeriodEnd(p), PeriodStart(q) < x, x <= PeriodEnd(q)
  PROVE  p = q
<1>1. ASSUME NEW a \in Nat, NEW b \in Nat, a < b, PeriodStart(b) < x, x <= PeriodEnd(a)
      PROVE  FALSE
  <2>1. (a + 1) * Day <= b * Day /\ (a + 1) * Day = a * Day + Day
    BY <1>1, DaysInOrder, Numbers
  <2>2. a * Day \in Int /\ b * Day \in Int
    BY Numbers
  <2>3. PeriodStart(b) = b * Day - Day + Cutoff /\ PeriodEnd(a) = a * Day + Cutoff
    BY PeriodNumbers
  <2>. QED  BY <1>1, <2>1, <2>2, <2>3, Numbers
<1>. QED  BY <1>1

\* A moment comes after the start of its period.
LEMMA PeriodBegun ==
  ASSUME NEW t \in Nat
  PROVE  PeriodOf(t) \in Nat /\ PeriodStart(PeriodOf(t)) < t
<1> DEFINE day == t \div Day
           time == t % Day
<1>1. /\ day \in Nat /\ time \in Nat /\ time < Day /\ t = day * Day + time
      /\ day * Day \in Nat
  BY DayAndTime, Numbers
<1>2. CASE Cutoff + MinuteLen <= time
  <2>1. PeriodOf(t) = day + 1
    BY <1>1, <1>2, ByTheMinute DEF PeriodOf
  <2>2. (day + 1) * Day = day * Day + Day
    BY <1>1, Numbers
  <2>. QED  BY <2>1, <2>2, <1>1, <1>2, PeriodNumbers, Numbers
<1>3. CASE ~ (Cutoff + MinuteLen <= time)
  <2>1. PeriodOf(t) = day
    BY <1>1, <1>3, ByTheMinute DEF PeriodOf
  <2>2. PeriodStart(day) = day * Day - Day + Cutoff
    BY <1>1, PeriodNumbers
  <2>. QED  BY <2>1, <2>2, <1>1, Numbers
<1>. QED  BY <1>2, <1>3

\* From the anchor to the cutoff of a day the worker plans that day's period.
LEMMA PeriodAtWork ==
  ASSUME NEW p \in Nat, NEW t \in Nat, p * Day + Anchor <= t, t <= PeriodEnd(p)
  PROVE  PeriodOf(t) = p
<1> DEFINE day == t \div Day
           time == t % Day
<1>1. /\ day \in Nat /\ time \in Nat /\ time < Day /\ t = day * Day + time
      /\ day * Day \in Nat /\ p * Day \in Nat
  BY DayAndTime, Numbers
<1>2. p * Day <= t /\ t < p * Day + Day
  BY <1>1, PeriodNumbers, Numbers
<1>3. ~ (day < p)
  <2>1. day < p => (day + 1) * Day <= p * Day
    BY <1>1, DaysInOrder
  <2>2. (day + 1) * Day = day * Day + Day
    BY <1>1, Numbers
  <2>. QED  BY <2>1, <2>2, <1>1, <1>2, Numbers
<1>4. ~ (p < day)
  <2>1. p < day => (p + 1) * Day <= day * Day
    BY <1>1, DaysInOrder
  <2>2. (p + 1) * Day = p * Day + Day
    BY <1>1, Numbers
  <2>. QED  BY <2>1, <2>2, <1>1, <1>2, Numbers
<1>5. day = p
  BY <1>1, <1>3, <1>4
<1>6. ~ (Cutoff + MinuteLen <= time)
  <2>1. PeriodEnd(p) = p * Day + Cutoff /\ t = p * Day + time
    BY <1>1, <1>5, PeriodNumbers
  <2>. QED  BY <2>1, <1>1, Numbers
<1>. QED  BY <1>1, <1>5, <1>6, ByTheMinute DEF PeriodOf

\* A nonempty set of numbers with a bound has a largest one, and MaxOf takes it.
LEMMA LargestExists ==
  ASSUME NEW T, T \subseteq Nat, T # {}, NEW bound \in Nat, \A x \in T : x <= bound
  PROVE  MaxOf(T) \in T /\ \A y \in T : y <= MaxOf(T)
<1> DEFINE below == {bound - x : x \in T}
<1>1. below \subseteq Nat /\ below # {}
  <2>1. \A x \in T : bound - x \in Nat
    OBVIOUS
  <2>. QED  BY <2>1
<1>2. IsWellFoundedOn(OpToRel(<, Nat), Nat)
  BY NatLessThanWellFounded
<1>3. PICK b \in below : \A c \in below : ~ (<<c, b>> \in OpToRel(<, Nat))
  BY <1>1, <1>2, WFMin
<1>4. \A c \in below : ~ (c < b)
  BY <1>1, <1>3 DEF OpToRel
<1>5. PICK x \in T : b = bound - x
  OBVIOUS
<1>6. \A y \in T : y <= x
  <2> SUFFICES ASSUME NEW y \in T PROVE y <= x
    OBVIOUS
  <2>1. ~ (bound - y < bound - x)
    BY <1>4, <1>5
  <2>. QED  BY <2>1
<1>. QED  BY <1>6 DEF MaxOf

\* When the digest is due, without the extrema.
LEMMA SendAtFacts ==
  ASSUME TypeOK, NEW p \in Nat, NEW t \in Nat, Rows(p, t) # {}
  PROVE  /\ SendAt(p, t) \in Nat /\ SendAt(p, t) <= PeriodEnd(p)
         /\ SendAt(p, t) <= t <=>
              \/ PeriodEnd(p) <= t
              \/ p * Day + Anchor <= t /\ \A r \in Rows(p, t) : pub[r] + Quiet <= t
<1> DEFINE times == {pub[r] : r \in Rows(p, t)}
           latest == MaxOf(times)
           anchor == p * Day + Anchor
<1>1. times \subseteq Nat /\ times # {} /\ \A x \in times : x <= t
  <2>1. \A r \in Rows(p, t) : pub[r] \in Nat /\ pub[r] <= t
    BY DEF TypeOK, Rows
  <2>. QED  BY <2>1
<1>2. latest \in Nat /\ latest \in times /\ \A x \in times : x <= latest
  BY <1>1, LargestExists
<1>3. anchor \in Nat /\ PeriodEnd(p) \in Nat /\ Quiet \in Nat
  BY PeriodNumbers, Numbers
<1> HIDE DEF latest
<1>4. (\A r \in Rows(p, t) : pub[r] + Quiet <= t) <=> latest + Quiet <= t
  <2>1. \A r \in Rows(p, t) : pub[r] \in times
    OBVIOUS
  <2>2. \E r \in Rows(p, t) : pub[r] = latest
    BY <1>2
  <2>3. \A r \in Rows(p, t) : pub[r] <= latest /\ pub[r] \in Nat
    BY <1>1, <1>2, <2>1
  <2>. QED  BY <1>2, <1>3, <2>2, <2>3
<1> HIDE DEF anchor, times
<1>5. \A a, b \in Nat : /\ MaxOf({a, b}) = IF a <= b THEN b ELSE a
                        /\ MinOf({a, b}) = IF a <= b THEN a ELSE b
  BY DEF MaxOf, MinOf
<1>6. SendAt(p, t) = MinOf({MaxOf({anchor, latest + Quiet}), PeriodEnd(p)})
  BY DEF SendAt, anchor, latest, times
<1>7. latest + Quiet \in Nat
  BY <1>2, <1>3
<1>8. anchor <= t /\ (\A r \in Rows(p, t) : pub[r] + Quiet <= t) <=>
        MaxOf({anchor, latest + Quiet}) <= t
  BY <1>3, <1>4, <1>5, <1>7
<1>9. MaxOf({anchor, latest + Quiet}) \in Nat
  BY <1>3, <1>5, <1>7
<1> DEFINE asked == MaxOf({anchor, latest + Quiet})
<1> HIDE DEF asked
<1>10. MinOf({asked, PeriodEnd(p)}) = IF asked <= PeriodEnd(p) THEN asked ELSE PeriodEnd(p)
  BY <1>3, <1>5, <1>9 DEF asked
<1>11. SendAt(p, t) = MinOf({asked, PeriodEnd(p)}) /\ asked \in Nat
  BY <1>6, <1>9 DEF asked
<1>12. /\ SendAt(p, t) \in Nat /\ SendAt(p, t) <= PeriodEnd(p)
       /\ SendAt(p, t) <= t <=> PeriodEnd(p) <= t \/ asked <= t
  BY <1>3, <1>10, <1>11
<1>. QED  BY <1>8, <1>12 DEF anchor, asked

-----------------------------------------------------------------------------
(* The steps *)

\* The digest that is planned now.
New ==
  [period |-> PeriodOf(clock), items |-> Rows(PeriodOf(clock), clock),
   planned |-> clock, available |-> SendAt(PeriodOf(clock), clock),
   expires |-> PeriodEnd(PeriodOf(clock)) + Grace]

Known(p) == \E d \in digests : d.period = p

\* The worker adds one digest, or none.
LEMMA PlanFacts ==
  ASSUME Plan
  PROVE  /\ last_run' = clock /\ UNCHANGED <<clock, pub, found>>
         /\ \/ /\ digests' = digests
               /\ ~ Due(PeriodOf(clock), clock) \/ Known(PeriodOf(clock))
            \/ /\ digests' = digests \cup {New}
               /\ Due(PeriodOf(clock), clock) /\ ~ Known(PeriodOf(clock))
<1>1. CASE Due(PeriodOf(clock), clock) /\ ~ Known(PeriodOf(clock))
  BY <1>1 DEF Plan, Known, New
<1>2. CASE ~ Due(PeriodOf(clock), clock) \/ Known(PeriodOf(clock))
  BY <1>2 DEF Plan, Known
<1>. QED  BY <1>1, <1>2

\* The new digest is of the current period and complete.
LEMMA NewFacts ==
  ASSUME TypeOK, FoundInv, Due(PeriodOf(clock), clock)
  PROVE  /\ New \in [period : Nat, items : SUBSET Releases, planned : Nat,
                     available : Nat, expires : Nat]
         /\ PeriodStart(New.period) < New.planned /\ New.planned <= PeriodEnd(New.period)
         /\ New.available <= New.planned /\ New.planned < New.expires
         /\ \A r \in Releases :
              (found[r] # NoTime /\ PeriodOf(pub[r]) = New.period
                 /\ pub[r] <= PeriodEnd(New.period)) =>
                /\ r \in New.items
                /\ pub[r] + Quiet <= New.planned \/ New.planned = PeriodEnd(New.period)
<1> DEFINE p == PeriodOf(clock)
<1>1. clock \in Nat /\ p \in Nat /\ PeriodStart(p) < clock
  BY PeriodBegun DEF TypeOK
<1>2. /\ Rows(p, clock) # {} /\ SendAt(p, clock) <= clock /\ clock <= PeriodEnd(p)
  BY DEF Due
<1>3. /\ SendAt(p, clock) \in Nat
      /\ \/ PeriodEnd(p) <= clock
         \/ \A r \in Rows(p, clock) : pub[r] + Quiet <= clock
  BY <1>1, <1>2, SendAtFacts
<1>4. PeriodEnd(p) \in Nat /\ Grace \in Nat /\ Grace > 0
  BY <1>1, PeriodNumbers, Numbers
<1>5. /\ New.period = p /\ New.items = Rows(p, clock) /\ New.planned = clock
      /\ New.available = SendAt(p, clock) /\ New.expires = PeriodEnd(p) + Grace
  BY DEF New
<1>6. New \in [period : Nat, items : SUBSET Releases, planned : Nat,
               available : Nat, expires : Nat]
  <2>1. Rows(p, clock) \in SUBSET Releases /\ PeriodEnd(p) + Grace \in Nat
    BY <1>4 DEF Rows
  <2>. QED  BY <1>1, <1>3, <2>1 DEF New
<1>7. ASSUME NEW r \in Releases, found[r] # NoTime, PeriodOf(pub[r]) = p,
             pub[r] <= PeriodEnd(p)
      PROVE  r \in Rows(p, clock) /\ (pub[r] + Quiet <= clock \/ clock = PeriodEnd(p))
  <2>1. pub[r] \in Nat /\ found[r] \in Nat /\ pub[r] <= clock
    BY <1>1, <1>7 DEF TypeOK, FoundInv
  <2>2. PeriodStart(p) < pub[r]
    BY <1>7, <2>1, PeriodBegun
  <2>3. r \in Rows(p, clock)
    BY <1>7, <2>1, <2>2 DEF Rows
  <2>4. CASE PeriodEnd(p) <= clock
    BY <2>3, <2>4, <1>1, <1>2, <1>4
  <2>. QED  BY <2>3, <2>4, <1>3
<1>. QED  BY <1>1, <1>2, <1>3, <1>4, <1>5, <1>6, <1>7

\* Every step keeps the variables in their types.
LEMMA TypeStep ==
  TypeOK /\ FoundInv /\ [Next]_vars => TypeOK'
<1> SUFFICES ASSUME TypeOK, FoundInv, [Next]_vars PROVE TypeOK'
  OBVIOUS
<1>1. ASSUME Tick PROVE TypeOK'
  BY <1>1 DEF Tick, TypeOK
<1>2. ASSUME NEW r \in Releases, NEW p \in 0 .. clock, Find(r, p) PROVE TypeOK'
  BY <1>2 DEF Find, TypeOK
<1>3. ASSUME Plan PROVE TypeOK'
  <2>1. digests' \subseteq [period : Nat, items : SUBSET Releases, planned : Nat,
                            available : Nat, expires : Nat]
    BY <1>3, PlanFacts, NewFacts DEF TypeOK
  <2>. QED  BY <1>3, <2>1, PlanFacts DEF TypeOK
<1>4. ASSUME UNCHANGED vars PROVE TypeOK'
  BY <1>4 DEF vars, TypeOK
<1>. QED  BY <1>1, <1>2, <1>3, <1>4 DEF Next

\* Nothing is found before it is published, and the worker keeps coming by.
LEMMA TimeStep ==
  TypeOK /\ FoundInv /\ ScanInv /\ [Next]_vars => FoundInv' /\ ScanInv'
<1> SUFFICES ASSUME TypeOK, FoundInv, ScanInv, [Next]_vars PROVE FoundInv' /\ ScanInv'
  OBVIOUS
<1> USE DEF TypeOK, FoundInv, ScanInv
<1>1. ASSUME Tick PROVE FoundInv' /\ ScanInv'
  BY <1>1, Numbers DEF Tick
<1>2. ASSUME NEW r \in Releases, NEW p \in 0 .. clock, Find(r, p)
      PROVE  FoundInv' /\ ScanInv'
  BY <1>2 DEF Find
<1>3. ASSUME Plan PROVE FoundInv' /\ ScanInv'
  BY <1>3, PlanFacts, Numbers
<1>4. ASSUME UNCHANGED vars PROVE FoundInv' /\ ScanInv'
  BY <1>4 DEF vars
<1>. QED  BY <1>1, <1>2, <1>3, <1>4 DEF Next

\* What a stored digest says stays true: a release found later is found after the
\* digest was planned, and one period has one digest.
LEMMA DigestStep ==
  TypeOK /\ FoundInv /\ DigestInv /\ PlannedInQuiet /\ PlannedInPeriod /\ [Next]_vars
    => DigestInv' /\ PlannedInQuiet' /\ PlannedInPeriod'
<1> DEFINE Goal == DigestInv /\ PlannedInQuiet /\ PlannedInPeriod
<1> SUFFICES ASSUME TypeOK, FoundInv, DigestInv, PlannedInQuiet, PlannedInPeriod,
                    [Next]_vars
             PROVE  Goal'
  OBVIOUS
<1>0. /\ clock \in Nat
      /\ \A d \in digests : /\ d.planned \in Nat /\ d.period \in Nat
                            /\ d.items \subseteq Releases
  BY DEF TypeOK
<1>1. ASSUME Tick PROVE Goal'
  BY <1>0, <1>1 DEF Tick, DigestInv, PlannedInQuiet, PlannedInPeriod
<1>2. ASSUME NEW r \in Releases, NEW p \in 0 .. clock, Find(r, p) PROVE Goal'
  <2>1. /\ found[r] = NoTime /\ pub' = [pub EXCEPT ![r] = p]
        /\ found' = [found EXCEPT ![r] = clock] /\ UNCHANGED <<clock, digests, last_run>>
    BY <1>2 DEF Find
  <2>2. \A s \in Releases : s # r => found'[s] = found[s] /\ pub'[s] = pub[s]
    BY <2>1 DEF TypeOK
  <2>3. found'[r] = clock
    BY <2>1 DEF TypeOK
  <2>4. DigestInv'
    <3>1. \A d \in digests : r \notin d.items
      BY <2>1 DEF DigestInv
    <3>. QED  BY <1>0, <2>1, <2>2, <3>1 DEF DigestInv
  <2>5. PlannedInQuiet'
    <3>1. \A d \in digests : ~ (found'[r] < d.planned)
      BY <1>0, <2>3 DEF DigestInv
    <3>. QED  BY <2>1, <2>2, <3>1 DEF PlannedInQuiet
  <2>6. PlannedInPeriod'
    BY <2>1 DEF PlannedInPeriod
  <2>. QED  BY <2>4, <2>5, <2>6
<1>3. ASSUME Plan PROVE Goal'
  <2>1. CASE digests' = digests
    BY <1>3, <2>1, PlanFacts DEF DigestInv, PlannedInQuiet, PlannedInPeriod
  <2>2. CASE digests' # digests
    <3>1. /\ digests' = digests \cup {New} /\ UNCHANGED <<clock, pub, found>>
          /\ Due(PeriodOf(clock), clock) /\ ~ Known(PeriodOf(clock))
      BY <1>3, <2>2, PlanFacts
    <3>2. /\ New.planned = clock /\ New.period = PeriodOf(clock)
          /\ New.items = Rows(New.period, clock)
      BY DEF New
    <3>3. \A r \in New.items : /\ found[r] # NoTime
                               /\ PeriodStart(New.period) < pub[r]
                               /\ pub[r] <= PeriodEnd(New.period)
      BY <3>2 DEF Rows
    <3>4. \A d \in digests : d.period # New.period
      BY <3>1, <3>2 DEF Known
    <3>5. DigestInv'
      BY <1>0, <3>1, <3>2, <3>3, <3>4 DEF DigestInv
    <3>6. PlannedInQuiet'
      BY <3>1, NewFacts DEF PlannedInQuiet
    <3>7. PlannedInPeriod'
      BY <3>1, NewFacts DEF PlannedInPeriod
    <3>. QED  BY <3>5, <3>6, <3>7
  <2>. QED  BY <2>1, <2>2
<1>4. ASSUME UNCHANGED vars PROVE Goal'
  BY <1>4 DEF vars, DigestInv, PlannedInQuiet, PlannedInPeriod
<1>. QED  BY <1>1, <1>2, <1>3, <1>4 DEF Next

\* A ripe period has its digest: the worker that comes by in the last Scan ticks finds
\* it quiet, and a release found from then on does not make another period ripe.
LEMMA RipeStep ==
  TypeOK /\ FoundInv /\ ScanInv /\ RipeInv /\ [Next]_vars => RipeInv'
<1> SUFFICES ASSUME TypeOK, FoundInv, ScanInv, RipeInv, [Next]_vars,
                    Anchor + Scan <= Cutoff, NEW p \in Nat,
                    Ripe(p)', PeriodEnd(p) <= last_run' + Scan
             PROVE  \E d \in digests' : d.period = p
  BY DEF RipeInv, PeriodEnd
<1>0. /\ clock \in Nat /\ last_run \in Nat /\ last_run <= clock /\ clock <= last_run + Scan
      /\ PeriodEnd(p) \in Nat /\ PeriodEnd(p) = p * Day + Cutoff /\ p * Day \in Nat
      /\ Scan \in Nat
      /\ PeriodEnd(p) <= last_run + Scan /\ Ripe(p) => \E d \in digests : d.period = p
  BY PeriodNumbers, Numbers DEF TypeOK, ScanInv, RipeInv
<1>1. ASSUME Tick PROVE \E d \in digests' : d.period = p
  <2>1. UNCHANGED <<pub, found, digests, last_run>>
    BY <1>1 DEF Tick
  <2>2. Ripe(p)
    BY <2>1 DEF Ripe, Of
  <2>. QED  BY <1>0, <2>1, <2>2
<1>2. ASSUME NEW r \in Releases, NEW t \in 0 .. clock, Find(r, t)
      PROVE  \E d \in digests' : d.period = p
  <2>1. /\ found[r] = NoTime /\ pub' = [pub EXCEPT ![r] = t]
        /\ found' = [found EXCEPT ![r] = clock] /\ UNCHANGED <<clock, digests, last_run>>
    BY <1>2 DEF Find
  <2>2. \A s \in Releases : s # r => found'[s] = found[s] /\ pub'[s] = pub[s]
    BY <2>1 DEF TypeOK
  <2>3. found'[r] = clock
    BY <2>1 DEF TypeOK
  <2>4. ~ (found'[r] + Scan < PeriodEnd(p))
    BY <1>0, <2>1, <2>3
  <2>5. \A s \in Releases : Of(p, s) => s # r
    BY <2>1 DEF Of
  <2>6. \A s \in Releases : Of(p, s) => Of(p, s)'
    BY <2>2, <2>5 DEF Of
  <2>7. \A s \in Releases : Of(p, s)' /\ s # r => Of(p, s)
    BY <2>2 DEF Of
  <2>8. Ripe(p)
    <3>1. PICK s \in Releases : Of(p, s)' /\ found'[s] + Scan < PeriodEnd(p)
      BY DEF Ripe, PeriodEnd
    <3>2. s # r /\ Of(p, s) /\ found[s] + Scan < PeriodEnd(p)
      BY <2>2, <2>4, <2>7, <3>1
    <3>3. ASSUME NEW q \in Releases, Of(p, q)
          PROVE  pub[q] + Quiet + Scan <= PeriodEnd(p)
      <4>1. pub'[q] + Quiet + Scan <= PeriodEnd(p)
        BY <2>6, <3>3 DEF Ripe, PeriodEnd
      <4>. QED  BY <2>2, <2>5, <3>3, <4>1
    <3>. QED  BY <3>2, <3>3 DEF Ripe
  <2>. QED  BY <1>0, <2>1, <2>8
<1>3. ASSUME Plan PROVE \E d \in digests' : d.period = p
  <2>1. last_run' = clock /\ UNCHANGED <<clock, pub, found>>
    BY <1>3, PlanFacts
  <2>2. Ripe(p) /\ digests \subseteq digests'
    BY <1>3, <2>1, PlanFacts DEF Ripe, Of
  <2>3. CASE PeriodEnd(p) <= last_run + Scan
    BY <1>0, <2>2, <2>3
  <2>4. CASE ~ (PeriodEnd(p) <= last_run + Scan)
    <3>1. p * Day + Anchor <= clock /\ clock < PeriodEnd(p)
      BY <1>0, <2>1, <2>4, Numbers
    <3>2. PeriodOf(clock) = p
      BY <1>0, <3>1, PeriodAtWork
    <3>3. PICK r \in Releases : Of(p, r) /\ found[r] + Scan < PeriodEnd(p)
      BY <2>2 DEF Ripe
    <3>4. found[r] \in Nat /\ pub[r] \in Nat /\ pub[r] <= clock
      BY <3>3, <1>0 DEF Of, FoundInv, TypeOK
    <3>5. r \in Rows(p, clock)
      BY <3>3, <3>4 DEF Rows, Of
    <3>6. \A q \in Rows(p, clock) : pub[q] + Quiet <= clock
      <4> SUFFICES ASSUME NEW q \in Rows(p, clock) PROVE pub[q] + Quiet <= clock
        OBVIOUS
      <4>1. q \in Releases /\ Of(p, q) /\ pub[q] \in Nat
        BY DEF Rows, Of, TypeOK
      <4>2. pub[q] + Quiet + Scan <= PeriodEnd(p)
        BY <2>2, <4>1 DEF Ripe
      <4>. QED  BY <1>0, <2>1, <4>1, <4>2, Numbers
    <3>7. Due(p, clock)
      BY <1>0, <3>1, <3>5, <3>6, SendAtFacts DEF Due
    <3>8. CASE Known(p)
      BY <2>2, <3>8 DEF Known
    <3>9. CASE ~ Known(p)
      <4>1. digests' = digests \cup {New} /\ New.period = p
        BY <1>3, <3>2, <3>7, <3>9, PlanFacts DEF New
      <4>. QED  BY <4>1
    <3>. QED  BY <3>8, <3>9
  <2>. QED  BY <2>3, <2>4
<1>4. ASSUME UNCHANGED vars PROVE \E d \in digests' : d.period = p
  <2>1. UNCHANGED <<pub, found, digests, last_run>>
    BY <1>4 DEF vars
  <2>2. Ripe(p)
    BY <2>1 DEF Ripe, Of
  <2>. QED  BY <1>0, <2>1, <2>2
<1>. QED  BY <1>1, <1>2, <1>3, <1>4 DEF Next

-----------------------------------------------------------------------------

\* The invariant holds initially and is kept by every step.
THEOREM Invariance == Spec => []IInv
<1>1. Init => IInv
  <2> SUFFICES ASSUME Init PROVE IInv
    OBVIOUS
  <2>1. \A r \in Releases : found[r] = NoTime
    BY DEF Init
  <2>2. \A p \in Nat : ~ Ripe(p)
    BY <2>1 DEF Ripe, Of
  <2>3. RipeInv
    BY <2>2 DEF RipeInv
  <2>4. TypeOK /\ FoundInv /\ ScanInv
    BY <2>1, Numbers DEF Init, TypeOK, FoundInv, ScanInv
  <2>5. DigestInv /\ PlannedInQuiet /\ PlannedInPeriod
    BY DEF Init, DigestInv, PlannedInQuiet, PlannedInPeriod
  <2>. QED  BY <2>3, <2>4, <2>5 DEF IInv
<1>2. IInv /\ [Next]_vars => IInv'
  BY TypeStep, TimeStep, DigestStep, RipeStep DEF IInv
<1>. QED  BY <1>1, <1>2, PTL DEF Spec

\* Digests of different periods share no release: it would be in both periods.
LEMMA PeriodsApart == TypeOK /\ DigestInv => NothingTwice
<1> SUFFICES ASSUME TypeOK, DigestInv, NEW d \in digests, NEW e \in digests, d # e,
                    NEW r \in d.items, r \in e.items
             PROVE  FALSE
  BY DEF NothingTwice
<1>1. d.period \in Nat /\ e.period \in Nat /\ r \in Releases /\ pub[r] \in Int
  BY DEF TypeOK
<1>2. /\ PeriodStart(d.period) < pub[r] /\ pub[r] <= PeriodEnd(d.period)
      /\ PeriodStart(e.period) < pub[r] /\ pub[r] <= PeriodEnd(e.period)
      /\ d.period # e.period
  BY DEF DigestInv
<1>. QED  BY <1>1, <1>2, OnePeriod

\* The digests of successive days fit together: no release in two of them, none
\* planned while releases known to be fresh were coming in, none for a period that is
\* over (DailyDigestSchedule.decide, ContentOperationsPlanner._plan_daily).
THEOREM DigestsAlwaysConsistent == Spec => []DigestsAreConsistent
<1>1. IInv => DigestsAreConsistent
  BY PeriodsApart DEF IInv, DigestsAreConsistent
<1>. QED  BY <1>1, Invariance, PTL

\* A period that grew quiet in time has its digest when it is over
\* (ContentOperationsPlanner._plan_daily, run_worker).
THEOREM QuietPeriodAlwaysHasDigest == Spec => []QuietPeriodHasDigest
<1>1. IInv => QuietPeriodHasDigest
  <2> SUFFICES ASSUME IInv, Anchor + Scan <= Cutoff, NEW p \in 0 .. PeriodOf(clock),
                      PeriodEnd(p) < clock,
                      \E r \in Releases : found[r] # NoTime /\ r \in Rows(p, clock)
                                            /\ found[r] + Scan < PeriodEnd(p),
                      \A r \in Rows(p, clock) : pub[r] + Quiet + Scan <= PeriodEnd(p)
               PROVE  \E d \in digests : d.period = p
    BY DEF QuietPeriodHasDigest
  <2>1. /\ p \in Nat /\ clock \in Nat /\ last_run \in Nat /\ clock <= last_run + Scan
        /\ PeriodEnd(p) \in Nat /\ Scan \in Nat
    BY PeriodNumbers, PeriodBegun, Numbers DEF IInv, TypeOK, ScanInv
  <2>2. \A r \in Releases : Of(p, r) <=> r \in Rows(p, clock)
    BY <2>1 DEF Of, Rows, IInv, TypeOK
  <2>3. Ripe(p)
    BY <2>2 DEF Ripe
  <2>4. PeriodEnd(p) <= last_run + Scan
    BY <2>1
  <2>. QED  BY <2>1, <2>3, <2>4 DEF IInv, RipeInv
<1>. QED  BY <1>1, Invariance, PTL

-----------------------------------------------------------------------------
(* The reminders: the inductive invariant, in named parts.                 *)

\* What AniList said is finitely many times; a command began in the past.
SourcesInv ==
  /\ \A e \in Episodes : IsFiniteSet(anilist[e])
  /\ \A u \in Users : u_now[u] <= r_clock

\* Some time that AniList said agrees with AnimeSchedule's.
Agree(e) ==
  schedule[e] = NoTime \/ anilist[e] = {}
    \/ \E t \in anilist[e] : ~ A!Apart(t, schedule[e])

\* The planner has an event on which the sources agree, and readers that miss nobody who
\* is subscribed, unless he raced with it.
PlannerInv ==
  /\ pc \in {"read", "enqueue"} => event \in [ep : Episodes, at : Times] /\ Agree(event.ep)
  /\ pc = "enqueue" => readers # {} /\ A!Subscribed \ excused \subseteq readers

\* The dispatcher takes a job when it is due.
TakenInv == \A e \in Episodes : status[e] = "taken" => at[e] <= r_clock

\* The subscription of u is older than the command at work.
Settled(u) == u_pc[u] = "idle" \/ since[u] < u_now[u]

\* Who has subscribed for good is in the audience of every job that is planned, taken or
\* not, for an episode that begins later.
AudienceInv ==
  \A e \in Episodes, u \in A!Subscribed \ excused :
    status[e] # "none" /\ Settled(u) /\ since[u] < at[e] => u \in audience[e]

RemindersInv == A!TypeOK /\ SourcesInv /\ PlannerInv /\ TakenInv /\ AudienceInv


\* The operators of finite sets are those of the module that is instantiated.
LEMMA SameCounts ==
  \A S : A!Cardinality(S) = Cardinality(S) /\ (A!IsFiniteSet(S) <=> IsFiniteSet(S))
BY DEF A!Cardinality, Cardinality, A!IsFiniteSet, IsFiniteSet

LEMMA AiringNumbers ==
  /\ Episodes \subseteq Nat /\ Times \subseteq Nat /\ IsFiniteSet(Episodes)
  /\ Horizon \in Nat /\ Threshold \in Nat /\ Period \in Nat /\ RemindersEnd \in Nat
  /\ MaxSyncs \in Nat /\ MaxCommands \in Nat /\ MaxFaults \in Nat /\ NoTime \notin Nat
BY AiringLimits, SameCounts DEF A!AiringConstants

LEMMA AiringTypeStep == RemindersInv /\ [A!Next]_A!vars => A!TypeOK'
<1> SUFFICES ASSUME RemindersInv, [A!Next]_A!vars PROVE A!TypeOK'
  OBVIOUS
<1> USE AiringNumbers DEF RemindersInv, A!TypeOK
<1>1. CASE A!Sync
  BY <1>1 DEF A!Sync, A!jobVars, A!planVars, A!userVars
<1>2. CASE A!Wake
  BY <1>2 DEF A!Wake, A!srcVars, A!jobVars, A!userVars
<1>3. CASE A!Look
  BY <1>3 DEF A!Look, A!Rest, A!NextEvents, A!srcVars, A!jobVars, A!userVars
<1>4. CASE A!Read
  BY <1>4 DEF A!Read, A!Rest, A!Subscribed, A!srcVars, A!jobVars, A!userVars
<1>5. CASE A!Enqueue
  <2>1. /\ event \in [ep : Episodes, at : Times] /\ readers # {} /\ readers \subseteq Users
        /\ event.ep \in Episodes /\ event.at \in Times
    BY <1>5 DEF PlannerInv, A!Enqueue
  <2>2. /\ status' \in [Episodes -> {"none", "pending", "taken"}]
        /\ at' \in [Episodes -> Times \cup {NoTime}]
        /\ audience' \in [Episodes -> SUBSET Users]
    BY <1>5, <2>1 DEF A!Enqueue, A!jobVars
  <2>3. ASSUME NEW e \in Episodes
        PROVE  status'[e] # "none" <=> at'[e] # NoTime /\ audience'[e] # {}
    <3>1. CASE e = event.ep /\ status[e] = "none"
      <4>1. status'[e] = "pending" /\ at'[e] = event.at /\ audience'[e] = readers
        BY <1>5, <3>1 DEF A!Enqueue
      <4>2. event.at # NoTime
        BY <2>1
      <4>. QED  BY <2>1, <4>1, <4>2
    <3>2. CASE ~ (e = event.ep /\ status[e] = "none")
      <4>1. status'[e] = status[e] /\ at'[e] = at[e] /\ audience'[e] = audience[e]
        BY <1>5, <2>1, <3>2 DEF A!Enqueue, A!jobVars
      <4>. QED  BY <4>1
    <3>. QED  BY <3>1, <3>2
  <2>4. /\ pc' = "idle" /\ now' = 0 /\ event' = A!NoEvent /\ readers' = {}
        /\ UNCHANGED <<r_clock, anilist, schedule, syncs, elapsed, since, u_pc, u_now, excused,
                       commands, faults>>
    BY <1>5 DEF A!Enqueue, A!Rest, A!srcVars, A!userVars
  <2>. QED  BY <2>2, <2>3, <2>4
<1>6. CASE A!PlanningFails
  BY <1>6 DEF A!PlanningFails, A!Rest, A!srcVars, A!jobVars, A!userVars
<1>7. ASSUME NEW e \in Episodes, A!Take(e) PROVE A!TypeOK'
  BY <1>7 DEF A!Take, A!srcVars, A!planVars, A!userVars
<1>8. ASSUME NEW u \in Users, A!Ask(u) PROVE A!TypeOK'
  BY <1>8 DEF A!Ask, A!Command, A!Remove, A!srcVars, A!jobVars, A!planVars
<1>9. ASSUME NEW u \in Users, A!Follow(u) PROVE A!TypeOK'
  BY <1>9 DEF A!Follow, A!srcVars, A!jobVars, A!planVars
<1>10. ASSUME NEW u \in Users, A!AddAudience(u) PROVE A!TypeOK'
  BY <1>10 DEF A!AddAudience, A!Open, A!Ahead, A!srcVars, A!planVars
<1>11. ASSUME NEW u \in Users, A!Unsubscribe(u) PROVE A!TypeOK'
  BY <1>11 DEF A!Unsubscribe, A!Command, A!Remove, A!srcVars, A!jobVars, A!planVars
<1>12. CASE A!Tick
  BY <1>12 DEF A!Tick, A!srcVars, A!jobVars, A!userVars
<1>13. CASE UNCHANGED A!vars
  BY <1>13 DEF A!vars, A!srcVars, A!jobVars, A!planVars, A!userVars
<1>. QED  BY <1>1, <1>2, <1>3, <1>4, <1>5, <1>6, <1>7, <1>8, <1>9, <1>10, <1>11, <1>12, <1>13
          DEF A!Next

LEMMA SourcesStep == RemindersInv /\ [A!Next]_A!vars => SourcesInv'
<1> SUFFICES ASSUME RemindersInv, [A!Next]_A!vars PROVE SourcesInv'
  OBVIOUS
<1>1. ASSUME NEW e \in Episodes PROVE IsFiniteSet(anilist'[e])
  <2>1. anilist'[e] = anilist[e] \/ \E t \in Times : anilist'[e] = anilist[e] \cup {t}
    BY DEF A!Next, A!Sync, A!Wake, A!Look, A!Read, A!Enqueue, A!PlanningFails, A!Take, A!Ask,
           A!Follow, A!AddAudience, A!Unsubscribe, A!Tick, A!srcVars, A!vars, RemindersInv,
           A!TypeOK
  <2>. QED  BY <2>1, FS_AddElement DEF RemindersInv, SourcesInv
<1>2. /\ r_clock \in Nat /\ r_clock' \in Nat /\ r_clock <= r_clock'
      /\ \A u \in Users : u_now[u] \in Nat
  BY AiringNumbers
     DEF A!Next, A!Sync, A!Wake, A!Look, A!Read, A!Enqueue, A!PlanningFails, A!Take, A!Ask,
         A!Follow, A!AddAudience, A!Unsubscribe, A!Tick, A!vars, RemindersInv, A!TypeOK
<1>3. ASSUME NEW u \in Users PROVE u_now'[u] \in {0, r_clock, u_now[u]}
  BY DEF A!Next, A!Sync, A!Wake, A!Look, A!Read, A!Enqueue, A!PlanningFails, A!Take, A!Ask,
         A!Follow, A!AddAudience, A!Unsubscribe, A!Remove, A!Tick, A!userVars, A!vars, RemindersInv,
         A!TypeOK
<1>4. ASSUME NEW u \in Users PROVE u_now'[u] <= r_clock'
  BY <1>2, <1>3 DEF RemindersInv, SourcesInv
<1>. QED  BY <1>1, <1>4 DEF SourcesInv

\* What the planner found agrees when it is found, and the sources are not read again
\* before the job is written.
LEMMA Agreed ==
  ASSUME RemindersInv, NEW last \in [Episodes -> Times],
         \A e \in Episodes : anilist[e] # {} => last[e] \in anilist[e],
         NEW c \in A!NextEvents(last)
  PROVE  c \in [ep : Episodes, at : Times] /\ Agree(c.ep)
<1>1. c \in [ep : Episodes, at : Times] /\ c.at \in A!Resolved(c.ep, last)
  BY DEF A!NextEvents
<1>2. c.ep \in Episodes
  BY <1>1
<1>. QED  BY <1>1, <1>2 DEF A!Resolved, Agree

LEMMA PlannerStep == RemindersInv /\ [A!Next]_A!vars => PlannerInv'
<1> SUFFICES ASSUME RemindersInv, [A!Next]_A!vars PROVE PlannerInv'
  OBVIOUS
<1>1. CASE A!Sync
  BY <1>1 DEF A!Sync, A!planVars, PlannerInv
<1>2. CASE A!Wake
  BY <1>2 DEF A!Wake, PlannerInv
<1>3. CASE A!Look
  <2>1. PICK last \in [Episodes -> Times] :
          /\ \A e \in Episodes : anilist[e] # {} => last[e] \in anilist[e]
          /\ IF A!NextEvents(last) = {} THEN A!Rest
             ELSE event' \in A!NextEvents(last) /\ pc' = "read"
    BY <1>3 DEF A!Look
  <2>2. pc' = "idle" \/ (pc' = "read" /\ event' \in A!NextEvents(last))
    BY <2>1 DEF A!Rest
  <2>3. anilist' = anilist /\ schedule' = schedule
    BY <1>3 DEF A!Look, A!srcVars
  <2>4. event' \in A!NextEvents(last) => event' \in [ep : Episodes, at : Times] /\ Agree(event'.ep)
    BY <2>1, Agreed
  <2>5. \A e : Agree(e)' <=> Agree(e)
    BY <2>3 DEF Agree, A!Apart
  <2>. QED  BY <2>2, <2>4, <2>5 DEF PlannerInv
<1>4. CASE A!Read
  BY <1>4 DEF A!Read, A!Rest, A!srcVars, A!userVars, PlannerInv, RemindersInv, Agree, A!Subscribed,
              A!Apart
<1>5. CASE A!Enqueue
  BY <1>5 DEF A!Enqueue, A!Rest, PlannerInv
<1>6. CASE A!PlanningFails
  BY <1>6 DEF A!PlanningFails, A!Rest, PlannerInv
<1>7. ASSUME NEW e \in Episodes, A!Take(e) PROVE PlannerInv'
  BY <1>7 DEF A!Take, A!srcVars, A!planVars, A!userVars, PlannerInv, RemindersInv, Agree,
              A!Subscribed, A!Apart
<1>8. ASSUME NEW u \in Users, A!Ask(u) PROVE PlannerInv'
  BY <1>8 DEF A!Ask, A!Command, A!Remove, A!srcVars, A!planVars, PlannerInv, RemindersInv, Agree,
              A!Subscribed, A!Apart, A!TypeOK
<1>9. ASSUME NEW u \in Users, A!Follow(u) PROVE PlannerInv'
  BY <1>9 DEF A!Follow, A!srcVars, A!planVars, PlannerInv, RemindersInv, Agree,
              A!Subscribed, A!Apart, A!TypeOK
<1>10. ASSUME NEW u \in Users, A!AddAudience(u) PROVE PlannerInv'
  BY <1>10 DEF A!AddAudience, A!srcVars, A!planVars, PlannerInv, RemindersInv, Agree,
               A!Subscribed, A!Apart, A!TypeOK
<1>11. ASSUME NEW u \in Users, A!Unsubscribe(u) PROVE PlannerInv'
  BY <1>11 DEF A!Unsubscribe, A!Remove, A!srcVars, A!planVars, PlannerInv, RemindersInv, Agree,
               A!Subscribed, A!Apart, A!TypeOK
<1>12. CASE A!Tick
  BY <1>12 DEF A!Tick, A!srcVars, A!userVars, PlannerInv, RemindersInv, Agree, A!Subscribed,
               A!Apart
<1>13. CASE UNCHANGED A!vars
  BY <1>13 DEF A!vars, A!srcVars, A!planVars, A!userVars, PlannerInv, RemindersInv, Agree,
               A!Subscribed, A!Apart
<1>. QED  BY <1>1, <1>2, <1>3, <1>4, <1>5, <1>6, <1>7, <1>8, <1>9, <1>10, <1>11, <1>12, <1>13
          DEF A!Next

LEMMA TakenStep == RemindersInv /\ [A!Next]_A!vars => TakenInv'
<1> SUFFICES ASSUME RemindersInv, [A!Next]_A!vars, NEW f \in Episodes, status'[f] = "taken"
             PROVE  at'[f] <= r_clock'
  BY DEF TakenInv
<1> USE AiringNumbers DEF RemindersInv, TakenInv
<1>1. CASE A!Enqueue
  BY <1>1 DEF A!Enqueue, A!jobVars, A!TypeOK, PlannerInv
<1>2. ASSUME NEW e \in Episodes, A!Take(e) PROVE at'[f] <= r_clock'
  BY <1>2 DEF A!Take, A!TypeOK
<1>3. CASE A!Tick
  <2>1. at[f] \in Nat /\ at[f] <= r_clock
    BY <1>3 DEF A!Tick, A!jobVars, A!TypeOK
  <2>. QED  BY <1>3, <2>1 DEF A!Tick, A!jobVars, A!TypeOK
<1>4. CASE UNCHANGED <<status, at, r_clock>>
  BY <1>4
<1>5. UNCHANGED <<status, at, r_clock>> \/ A!Enqueue \/ (\E e \in Episodes : A!Take(e)) \/ A!Tick
  BY DEF A!Next, A!Sync, A!Wake, A!Look, A!Read, A!PlanningFails, A!Ask, A!Follow, A!AddAudience,
         A!Unsubscribe, A!jobVars, A!vars
<1>. QED  BY <1>1, <1>2, <1>3, <1>4, <1>5

\* A set of natural numbers that is not empty has a smallest member.
LEMMA SmallestExists ==
  ASSUME NEW S \in SUBSET Nat, S # {}
  PROVE  \E x \in S : \A y \in S : x <= y
<1>1. IsWellFoundedOn(OpToRel(<, Nat), Nat)
  BY NatLessThanWellFounded
<1>2. PICK x \in S : \A y \in S : ~ (<<y, x>> \in OpToRel(<, Nat))
  BY <1>1, WFMin
<1>3. \A y \in S : ~ (y < x)
  BY <1>2 DEF OpToRel
<1>. QED  BY <1>3

\* A job that was planned has a time.
LEMMA PlannedHasTime ==
  ASSUME A!TypeOK, NEW e \in Episodes, status[e] # "none"
  PROVE  at[e] \in Nat /\ at[e] # NoTime
<1>1. at[e] \in Times \cup {NoTime} /\ at[e] # NoTime
  BY DEF A!TypeOK
<1>. QED  BY <1>1, AiringNumbers

\* The next job is there if there is any.
LEMMA NextIsOpen ==
  ASSUME RemindersInv, NEW u \in Users, A!Ahead(u) # {}
  PROVE  A!Open(u) # {}
<1> DEFINE S == {at[e] : e \in A!Ahead(u)}
<1>1. \A e \in A!Ahead(u) : at[e] \in Nat
  BY PlannedHasTime DEF RemindersInv, A!Ahead
<1>2. S \in SUBSET Nat /\ S # {}
  BY <1>1
<1> HIDE DEF S
<1>3. PICK x \in S : \A y \in S : x <= y
  BY <1>2, SmallestExists
<1>4. PICK e \in A!Ahead(u) : x = at[e]
  BY DEF S
<1>. QED  BY <1>3, <1>4 DEF A!Open, S

\* Who finds no more than one job ahead is in its audience afterwards, unless that fails.
LEMMA JoinsAll ==
  ASSUME RemindersInv, NEW u \in Users, A!AddAudience(u), u \notin excused'
  PROVE  \A e \in A!Ahead(u) : u \in audience'[e]
<1> SUFFICES ASSUME NEW e \in A!Ahead(u) PROVE u \in audience'[e]
  OBVIOUS
<1>1. IsFiniteSet(A!Ahead(u)) /\ A!Ahead(u) \subseteq Episodes
  BY AiringNumbers, FS_Subset DEF A!Ahead
<1>2. ~ (A!Cardinality(A!Ahead(u)) > 1)
  BY DEF A!AddAudience
<1>3. Cardinality(A!Ahead(u)) \in Nat /\ Cardinality(A!Ahead(u)) <= 1
  BY <1>1, <1>2, SameCounts, FS_CardinalityType
<1>4. Cardinality(A!Ahead(u)) = 1
  BY <1>1, <1>3, FS_EmptySet
<1>5. A!Ahead(u) = {e}
  BY <1>1, <1>4, FS_Singleton
<1>6. A!Open(u) = {e}
  BY <1>5, NextIsOpen DEF A!Open
<1>7. audience' = [audience EXCEPT ![e] = audience[e] \cup {u}]
  BY <1>6 DEF A!AddAudience
<1>. QED  BY <1>1, <1>7 DEF RemindersInv, A!TypeOK

LEMMA AudienceStep == RemindersInv /\ [A!Next]_A!vars /\ A!TypeOK' => AudienceInv'
<1> SUFFICES ASSUME RemindersInv, [A!Next]_A!vars, A!TypeOK',
                    NEW f \in Episodes, NEW v \in Users, since'[v] # NoTime, v \notin excused',
                    status'[f] # "none", Settled(v)', since'[v] < at'[f]
             PROVE  v \in audience'[f]
  BY DEF AudienceInv, A!Subscribed
<1> DEFINE Before == /\ since[v] # NoTime /\ v \notin excused /\ Settled(v)
                     /\ status[f] # "none" /\ since[v] < at[f]
<1>1. Before => v \in audience[f]
  BY DEF RemindersInv, AudienceInv, A!Subscribed
<1>2. CASE A!Enqueue
  <2>1. UNCHANGED <<since, excused, u_pc, u_now>> /\ f \in Episodes
    BY <1>2 DEF A!Enqueue, A!userVars
  <2>2. CASE f = event.ep /\ status[f] = "none"
    <3>1. v \in readers
      BY <1>2, <2>1 DEF A!Enqueue, RemindersInv, PlannerInv, A!Subscribed
    <3>. QED  BY <1>2, <2>2, <3>1 DEF A!Enqueue, RemindersInv, A!TypeOK
  <2>3. CASE ~ (f = event.ep /\ status[f] = "none")
    <3>1. event.ep \in Episodes
      BY <1>2 DEF A!Enqueue, RemindersInv, PlannerInv
    <3>2. status'[f] = status[f] /\ at'[f] = at[f] /\ audience'[f] = audience[f]
      BY <1>2, <2>3, <3>1 DEF A!Enqueue, A!jobVars, RemindersInv, A!TypeOK
    <3>. QED  BY <1>1, <2>1, <3>2 DEF Settled
  <2>. QED  BY <2>2, <2>3
<1>3. ASSUME NEW e \in Episodes, A!Take(e) PROVE v \in audience'[f]
  BY <1>1, <1>3 DEF A!Take, A!userVars, Settled, RemindersInv, A!TypeOK
<1>4. ASSUME NEW u \in Users, A!Ask(u) PROVE v \in audience'[f]
  <2>1. UNCHANGED <<status, at, audience>>
    BY <1>4 DEF A!Ask, A!jobVars
  <2>2. CASE A!Remove(u)
    <3>1. v # u
      BY <2>2 DEF A!Remove, RemindersInv, A!TypeOK
    <3>. QED  BY <1>1, <2>1, <2>2, <3>1 DEF A!Remove, Settled, RemindersInv, A!TypeOK
  <2>3. CASE ~ A!Remove(u)
    <3>1. /\ u_pc[u] = "idle" /\ u_pc' = [u_pc EXCEPT ![u] = "follow"]
          /\ u_now' = [u_now EXCEPT ![u] = r_clock] /\ UNCHANGED <<since, excused>>
      BY <1>4, <2>3 DEF A!Ask, A!Command
    <3>2. Settled(v)
      BY <3>1 DEF Settled, RemindersInv, A!TypeOK
    <3>. QED  BY <1>1, <2>1, <3>1, <3>2
  <2>. QED  BY <2>2, <2>3
<1>5. ASSUME NEW u \in Users, A!Follow(u) PROVE v \in audience'[f]
  <2>1. /\ UNCHANGED <<status, at, audience, u_now>> /\ v \notin excused
        /\ u_pc[u] = "follow" /\ u_pc' = [u_pc EXCEPT ![u] = "audience"]
        /\ since' = IF since[u] = NoTime THEN [since EXCEPT ![u] = r_clock] ELSE since
    BY <1>5 DEF A!Follow, A!jobVars
  <2>2. CASE v # u \/ since[u] # NoTime
    <3>1. since'[v] = since[v]
      BY <2>1, <2>2 DEF RemindersInv, A!TypeOK
    <3>2. u_pc'[v] = "idle" => u_pc[v] = "idle"
      BY <2>1, <2>2 DEF RemindersInv, A!TypeOK
    <3>. QED  BY <1>1, <2>1, <3>1, <3>2 DEF Settled
  <2>3. CASE v = u /\ since[u] = NoTime
    <3>1. since'[v] = r_clock /\ u_pc'[v] = "audience"
      BY <2>1, <2>3 DEF RemindersInv, A!TypeOK
    <3>2. u_now[v] <= r_clock /\ u_now[v] \in Nat /\ r_clock \in Nat
      BY AiringNumbers DEF RemindersInv, SourcesInv, A!TypeOK
    <3>. QED  BY <2>1, <3>1, <3>2 DEF Settled
  <2>. QED  BY <2>2, <2>3
<1>6. ASSUME NEW u \in Users, A!AddAudience(u) PROVE v \in audience'[f]
  <2>1. /\ UNCHANGED <<status, at>> /\ audience[f] \subseteq audience'[f] /\ v \notin excused
    BY <1>6 DEF A!AddAudience, RemindersInv, A!TypeOK, A!Open, A!Ahead
  <2>2. CASE v # u
    <3>1. since'[v] = since[v] /\ u_pc'[v] = u_pc[v] /\ u_now'[v] = u_now[v]
      BY <1>6, <2>2 DEF A!AddAudience, RemindersInv, A!TypeOK
    <3>. QED  BY <1>1, <2>1, <3>1 DEF Settled
  <2>3. CASE v = u /\ since[u] # NoTime /\ since[u] < u_now[u]
    <3>1. since'[v] = since[v]
      BY <1>6, <2>3, AiringNumbers DEF A!AddAudience, RemindersInv, A!TypeOK
    <3>. QED  BY <1>1, <2>1, <2>3, <3>1 DEF Settled
  <2>4. CASE v = u /\ ~ (since[u] # NoTime /\ since[u] < u_now[u])
    <3>1. /\ r_clock \in Nat /\ u_now[u] \in Nat /\ u_now[u] <= r_clock
          /\ since[u] \in Nat \cup {NoTime} /\ NoTime \notin Nat
          /\ status[f] \in {"pending", "taken"}
      BY <2>1, AiringNumbers DEF RemindersInv, SourcesInv, A!TypeOK
    <3>2. at[f] \in Nat
      BY <2>1, PlannedHasTime DEF RemindersInv
    <3>3. since'[v] = r_clock
      BY <1>6, <2>4, <3>1 DEF A!AddAudience, RemindersInv, A!TypeOK
    <3>4. r_clock < at[f]
      BY <2>1, <3>3
    <3>5. status[f] = "pending" /\ at[f] > u_now[u]
      BY <3>1, <3>2, <3>4 DEF RemindersInv, TakenInv
    <3>6. f \in A!Ahead(u)
      BY <3>5 DEF A!Ahead
    <3>. QED  BY <1>6, <2>4, <3>6, JoinsAll
  <2>. QED  BY <2>2, <2>3, <2>4
<1>7. ASSUME NEW u \in Users, A!Unsubscribe(u) PROVE v \in audience'[f]
  <2>1. v # u
    BY <1>7 DEF A!Unsubscribe, A!Remove, RemindersInv, A!TypeOK
  <2>. QED  BY <1>1, <1>7, <2>1 DEF A!Unsubscribe, A!Remove, A!jobVars, Settled, RemindersInv,
                                    A!TypeOK
<1>8. CASE UNCHANGED <<A!jobVars, since, excused, u_pc, u_now>>
  BY <1>1, <1>8 DEF A!jobVars, Settled
<1>9. \/ UNCHANGED <<A!jobVars, since, excused, u_pc, u_now>> \/ A!Enqueue
      \/ \E e \in Episodes : A!Take(e)
      \/ \E u \in Users : A!Ask(u) \/ A!Follow(u) \/ A!AddAudience(u) \/ A!Unsubscribe(u)
  BY DEF A!Next, A!Sync, A!Wake, A!Look, A!Read, A!PlanningFails, A!Tick, A!jobVars, A!userVars,
         A!vars
<1>. QED  BY <1>2, <1>3, <1>4, <1>5, <1>6, <1>7, <1>8, <1>9

\* The sources, the planner and the commands keep their parts of the invariant
\* (planner_v2.py:30, use_cases.py:706).
THEOREM RemindersInvariance == A!Spec => []RemindersInv
<1>1. A!Init => RemindersInv
  BY AiringNumbers, FS_EmptySet
     DEF A!Init, RemindersInv, A!TypeOK, SourcesInv, PlannerInv, TakenInv, AudienceInv, A!Subscribed,
         A!NoEvent
<1>2. RemindersInv /\ [A!Next]_A!vars => RemindersInv'
  BY AiringTypeStep, SourcesStep, PlannerStep, TakenStep, AudienceStep DEF RemindersInv
<1>. QED  BY <1>1, <1>2, PTL DEF A!Spec

\* Who subscribed before an episode began is mentioned in its reminder, planned already
\* or not, unless he raced with the planner (outbox.py:138, planner_v2.py:30).
THEOREM RemindersAlwaysConsistent == A!Spec => []RemindersAreConsistent
<1>1. RemindersInv => RemindersAreConsistent
  BY DEF RemindersInv, RemindersAreConsistent, A!RemindersAreConsistent, A!SubscriberIsTold,
         AudienceInv, Settled
<1>. QED  BY <1>1, RemindersInvariance, PTL

\* No reminder while the two sources contradict each other (airing_resolver.py:35).
THEOREM NeverInConflict == A!Spec => NoReminderInConflict
<1> DEFINE Agreeing ==
      \A e \in Episodes :
        (status[e] = "none" /\ status'[e] = "pending" /\ A!Cardinality(anilist[e]) = 1
           /\ schedule[e] # NoTime /\ syncs' = syncs)
          => ~A!Apart(schedule[e], CHOOSE t \in anilist[e] : TRUE)
<1>1. RemindersInv /\ [A!Next]_A!vars => Agreeing
  <2> SUFFICES ASSUME RemindersInv, [A!Next]_A!vars, NEW e \in Episodes, status[e] = "none",
                      status'[e] = "pending", A!Cardinality(anilist[e]) = 1,
                      schedule[e] # NoTime
               PROVE  ~A!Apart(schedule[e], CHOOSE t \in anilist[e] : TRUE)
    OBVIOUS
  <2>1. A!Enqueue /\ e = event.ep
    BY DEF A!Next, A!Sync, A!Wake, A!Look, A!Read, A!Enqueue, A!PlanningFails, A!Take, A!Ask,
           A!Follow, A!AddAudience, A!Unsubscribe, A!Tick, A!jobVars, A!vars, RemindersInv,
           A!TypeOK
  <2>2. Agree(e)
    BY <2>1 DEF A!Enqueue, RemindersInv, PlannerInv
  <2>3. PICK t : anilist[e] = {t}
    BY SameCounts, FS_Singleton DEF RemindersInv, SourcesInv
  <2>4. (CHOOSE x \in anilist[e] : TRUE) = t
    BY <2>3
  <2>. QED  BY <2>2, <2>3, <2>4 DEF Agree, A!Apart
<1>2. RemindersInv /\ [A!Next]_A!vars => [Agreeing]_A!vars
  BY <1>1
<1>. QED  BY <1>2, RemindersInvariance, PTL
          DEF A!Spec, NoReminderInConflict, A!NoReminderInConflict

\* What the two planners do is what each does by itself, so that what is proved of each
\* holds of the specification that the run checks.
THEOREM PartsOfPlanners == PlannersSpec => Spec /\ A!Spec
<1>1. PlannersInit => Init /\ A!Init
  BY DEF PlannersInit
<1>2. [PlannersNext]_all => [Next]_vars
  BY DEF PlannersNext, all, Next, Digest, Reminders
<1>3. [PlannersNext]_all => [A!Next]_A!vars
  BY DEF PlannersNext, all, reminders, A!vars, A!srcVars, A!jobVars, A!planVars, A!userVars,
         A!Next, Digest, Reminders
<1>. QED  BY <1>1, <1>2, <1>3, PTL DEF PlannersSpec, Spec, A!Spec
=============================================================================

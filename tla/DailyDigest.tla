----------------------------- MODULE DailyDigest -----------------------------
(***************************************************************************)
(* When a group's daily digest is planned: DailyDigestSchedule.decide and  *)
(* ContentOperationsPlanner._plan_daily, which the worker calls once per   *)
(* iteration of its loop.  A digest covers the releases published in the   *)
(* period that ends at the cutoff; it waits for the anchor and for a quiet *)
(* time after the last release, at most until the cutoff.                  *)
(*                                                                         *)
(* Time is the group's local time in ticks, MinuteLen to a minute: the     *)
(* code compares some times by the minute and others exactly.  The worker  *)
(* runs at least every Scan ticks, at moments nobody chooses.              *)
(***************************************************************************)
EXTENDS Integers, FiniteSets

CONSTANTS
  Releases,    \* releases of anime the group subscribes to
  MinuteLen,   \* ticks in a minute
  Day,         \* ticks in a day
  Anchor,      \* daily_digest_anchor_minute, in ticks
  Quiet,       \* daily_digest_quiet_minutes, in ticks
  Cutoff,      \* daily_digest_cutoff_minute, in ticks
  Grace,       \* the five minutes a digest outlives its period
  Scan,        \* ticks between two iterations of the worker
  NoTime,
  MaxClock     \* bound: the clock

\* DailyDigestSchedule.__post_init__; the settings are whole minutes.
ASSUME DigestConstants ==
  /\ MinuteLen \in Nat \ {0} /\ Day \in Nat /\ Anchor \in Nat /\ Cutoff \in Nat
  /\ Anchor < Cutoff /\ Cutoff + MinuteLen <= Day
  /\ Day % MinuteLen = 0 /\ Anchor % MinuteLen = 0 /\ Cutoff % MinuteLen = 0
  /\ Quiet \in MinuteLen .. Cutoff - Anchor
  /\ Grace \in Nat \ {0} /\ Scan \in Nat \ {0} /\ MaxClock \in Nat
  /\ NoTime \notin Int

VARIABLES
  clock,
  pub,       \* release -> pub_date
  found,     \* release -> when its row was stored, NoTime before
  digests,   \* jobs of type daily_release_digest
  last_run   \* when the worker last planned

vars == <<clock, pub, found, digests, last_run>>

Init ==
  /\ clock = 0 /\ last_run = 0
  /\ pub = [r \in Releases |-> 0]
  /\ found = [r \in Releases |-> NoTime]
  /\ digests = {}

-----------------------------------------------------------------------------
(* DailyDigestSchedule.decide *)

PeriodEnd(p)   == p * Day + Cutoff
PeriodStart(p) == PeriodEnd(p - 1)

\* The period a moment belongs to, by the minute.
PeriodOf(t) ==
  LET day == t \div Day
  IN  IF (t % Day) \div MinuteLen > Cutoff \div MinuteLen THEN day + 1 ELSE day

\* _release_rows
Rows(p, t) ==
  {r \in Releases : /\ found[r] # NoTime
                    /\ PeriodStart(p) < pub[r]
                    /\ pub[r] <= t /\ pub[r] <= PeriodEnd(p)}

MaxOf(S) == CHOOSE x \in S : \A y \in S : y <= x
MinOf(S) == CHOOSE x \in S : \A y \in S : x <= y

\* Mutant: the quiet time is left out.
SendAtAnchor(p, t) ==
  MinOf({MaxOf({p * Day + Anchor, MaxOf({pub[r] : r \in Rows(p, t)})}), PeriodEnd(p)})

\* The anchor, or a quiet time after the last release, or the cutoff.
SendAt(p, t) ==
  LET latest == MaxOf({pub[r] : r \in Rows(p, t)})
  IN  MinOf({MaxOf({p * Day + Anchor, latest + Quiet}), PeriodEnd(p)})

\* Mutant: the last minutes before the cutoff do not count.
DueBeforeEnd(p, t) ==
  /\ Rows(p, t) # {}
  /\ SendAt(p, t) <= t /\ t < PeriodEnd(p) - Quiet

\* There is something to report, its time has come and the period is not over.
Due(p, t) ==
  /\ Rows(p, t) # {}
  /\ SendAt(p, t) <= t /\ t <= PeriodEnd(p)

-----------------------------------------------------------------------------

\* The worker runs every Scan ticks at the latest.
Tick ==
  /\ clock < MaxClock
  /\ clock < last_run + Scan
  /\ clock' = clock + 1
  /\ UNCHANGED <<pub, found, digests, last_run>>

\* The release pipeline stores a release, some time after it was published.
Find(r, p) ==
  /\ found[r] = NoTime
  /\ pub' = [pub EXCEPT ![r] = p]
  /\ found' = [found EXCEPT ![r] = clock]
  /\ UNCHANGED <<clock, digests, last_run>>

\* _plan_daily: the period's key keeps the outbox from taking a second digest.
Plan ==
  LET p == PeriodOf(clock)
  IN  /\ last_run' = clock
      /\ digests' =
           IF Due(p, clock) /\ ~ \E d \in digests : d.period = p
             THEN digests \cup {[period |-> p, items |-> Rows(p, clock),
                                 planned |-> clock, available |-> SendAt(p, clock),
                                 expires |-> PeriodEnd(p) + Grace]}
             ELSE digests
      /\ UNCHANGED <<clock, pub, found>>

Next ==
  \/ Tick
  \/ \E r \in Releases : \E p \in 0 .. clock : Find(r, p)
  \/ Plan

Spec == Init /\ [][Next]_vars

-----------------------------------------------------------------------------
(* Properties *)

TypeOK ==
  /\ clock \in Nat /\ last_run \in Nat /\ last_run <= clock
  /\ pub \in [Releases -> Nat]
  /\ found \in [Releases -> Nat \cup {NoTime}]
  /\ digests \subseteq [period : Nat, items : SUBSET Releases, planned : Nat,
                        available : Nat, expires : Nat]

\* No release is reported twice: the periods meet at the cutoff without overlap,
\* whatever minute a release falls into and however late it is found.
NothingTwice ==
  \A d, e \in digests : d # e => d.items \cap e.items = {}

\* A digest is planned in a quiet moment or at the cutoff: nothing that was
\* known then is left out of it or younger than the quiet time.
PlannedInQuiet ==
  \A d \in digests : \A r \in Releases :
    (found[r] # NoTime /\ found[r] < d.planned
       /\ PeriodOf(pub[r]) = d.period /\ pub[r] <= PeriodEnd(d.period)) =>
         /\ r \in d.items
         /\ pub[r] + Quiet <= d.planned \/ d.planned = PeriodEnd(d.period)

\* A digest is never made up for a period that is over: neither the half-open
\* minute of the cutoff nor a release found late leads to a late digest.
PlannedInPeriod ==
  \A d \in digests :
    /\ PeriodStart(d.period) < d.planned /\ d.planned <= PeriodEnd(d.period)
    /\ d.available <= d.planned /\ d.planned < d.expires

\* The digests of successive days fit together (planning.py:36, planner.py:84).
DigestsAreConsistent == TypeOK /\ NothingTwice /\ PlannedInQuiet /\ PlannedInPeriod

\* When the releases of a period have stopped early enough for the worker to
\* come by, the period has its digest, if the worker comes by between the anchor and
\* the cutoff at all (no setting keeps an iteration from taking longer).
QuietPeriodHasDigest ==
  Anchor + Scan <= Cutoff =>
  \A p \in 0 .. PeriodOf(clock) :
    (/\ PeriodEnd(p) < clock
     /\ \E r \in Releases : found[r] # NoTime /\ r \in Rows(p, clock)
                              /\ found[r] + Scan < PeriodEnd(p)
     /\ \A r \in Rows(p, clock) : pub[r] + Quiet + Scan <= PeriodEnd(p))
      => \E d \in digests : d.period = p

=============================================================================

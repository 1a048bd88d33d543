---------------------------- MODULE SendGovernor ----------------------------
(***************************************************************************)
(* The in-process rate limiter of the plugin, asked before every reply to  *)
(* a chat command and before the dispatcher claims a job.  A request       *)
(* counts against several meters: one for all groups, one for its group,   *)
(* one for its user in the group and one for the group's proactive         *)
(* messages.  A meter may keep its last time (a minimum interval), a deque *)
(* of times (a count within a sliding window), or both.                    *)
(*                                                                         *)
(* log[m] holds every time recorded at meter m; the process remembers only *)
(* log[m][start[m]..], and its deque is log[m][head[m]..].  An acquire is  *)
(* one synchronous call, so it is one action.                              *)
(***************************************************************************)
EXTENDS Integers, Sequences, FiniteSets

CONSTANTS
  Requests,     \* the requests made: records of class, group and user
  Proactive,    \* DeliveryClass.proactive: airing, release, content
  NoUser,       \* SendRequest.user_id = None
  Interval,     \* kind of meter -> seconds between two of its times
  Count, Span,  \* kind of meter -> at most Count times within Span seconds
  Horizon,      \* bound: how far ahead RetryIsEnough looks
  MaxClock,     \* bound: the clock
  MaxRestarts   \* bound: restarts of the plugin

IntervalKinds == {"group", "user", "proactive"}
WindowKinds   == {"global", "user", "proactive"}

\* Intervals and windows come from GovernorLimits; settings.py requires every
\* count to be at least 1.
ASSUME GovernorLimits ==
  /\ Interval \in [IntervalKinds -> Nat]
  /\ Span \in [WindowKinds -> Nat]
  /\ Count \in [WindowKinds -> Nat \ {0}]
ASSUME GovernorBounds == Horizon \in Nat /\ MaxClock \in Nat /\ MaxRestarts \in Nat

\* The meters a request counts against.
Meters(r) ==
  {<<"global">>, <<"group", r.group>>}
    \cup (IF r.user = NoUser THEN {} ELSE {<<"user", r.group, r.user>>})
    \cup (IF r.class \in Proactive THEN {<<"proactive", r.group>>} ELSE {})

Kind(m)   == m[1]
AllMeters == UNION {Meters(r) : r \in Requests}
Windows   == {m \in AllMeters : Kind(m) \in WindowKinds}
Intervals == {m \in AllMeters : Kind(m) \in IntervalKinds}

VARIABLES clock, log, head, start, restarts

vars == <<clock, log, head, start, restarts>>

Init ==
  /\ clock = 0
  /\ log = [m \in AllMeters |-> <<>>]
  /\ head = [m \in AllMeters |-> 1]
  /\ start = [m \in AllMeters |-> 1]
  /\ restarts = 0

-----------------------------------------------------------------------------

\* Mutant: a time exactly one window old stays in the deque.
FirstInStrictly(m, t) ==
  LET inside == {h \in head[m] .. Len(log[m]) + 1 :
                   h <= Len(log[m]) => log[m][h] + Span[Kind(m)] >= t}
  IN  CHOOSE h \in inside : \A k \in inside : h <= k

\* _prune: the first position of the deque whose time is inside the window that
\* ends at t.
FirstIn(m, t) ==
  LET inside == {h \in head[m] .. Len(log[m]) + 1 :
                   h <= Len(log[m]) => log[m][h] + Span[Kind(m)] > t}
  IN  CHOOSE h \in inside : \A k \in inside : h <= k

\* Mutant: a window is full only when it holds more than its count.
WindowDeadlinesOfOverfull(r, t) ==
  {log[m][FirstIn(m, t)] + Span[Kind(m)] : m \in
     {n \in Meters(r) \cap Windows :
        Len(log[n]) - FirstIn(n, t) + 1 > Count[Kind(n)]}}

\* The times request r has to wait for, seen at time t: the end of an interval,
\* or the moment the oldest time leaves a full window.
WindowDeadlines(r, t) ==
  {log[m][FirstIn(m, t)] + Span[Kind(m)] : m \in
     {n \in Meters(r) \cap Windows :
        Len(log[n]) - FirstIn(n, t) + 1 >= Count[Kind(n)]}}

IntervalDeadlines(r) ==
  {log[m][Len(log[m])] + Interval[Kind(m)] : m \in
     {n \in Meters(r) \cap Intervals : Len(log[n]) >= start[n]}}

\* _waits is empty: no deadline lies ahead.
Admits(r, t) ==
  /\ \A d \in WindowDeadlines(r, t) : d <= t
  /\ \A d \in IntervalDeadlines(r) : d <= t

\* Both acquire and peek prune the deques they look at.
Prune(r) ==
  head' = [m \in AllMeters |->
             IF m \in Meters(r) \cap Windows THEN FirstIn(m, clock) ELSE head[m]]

\* _record
Record(r) ==
  log' = [m \in AllMeters |-> IF m \in Meters(r) THEN Append(log[m], clock) ELSE log[m]]

Acquire(r) ==
  /\ Prune(r)
  /\ IF Admits(r, clock) THEN Record(r) ELSE UNCHANGED log
  /\ UNCHANGED <<clock, start, restarts>>

Peek(r) ==
  /\ Prune(r)
  /\ UNCHANGED <<clock, log, start, restarts>>

\* The plugin is loaded again: SendGovernor.__init__ starts with empty deques.
Restart ==
  /\ restarts < MaxRestarts
  /\ restarts' = restarts + 1
  /\ head' = [m \in AllMeters |-> Len(log[m]) + 1]
  /\ start' = [m \in AllMeters |-> Len(log[m]) + 1]
  /\ UNCHANGED <<clock, log>>

Tick ==
  /\ clock < MaxClock
  /\ clock' = clock + 1
  /\ UNCHANGED <<log, head, start, restarts>>

Next ==
  \/ Tick
  \/ Restart
  \/ \E r \in Requests : Acquire(r) \/ Peek(r)

Spec == Init /\ [][Next]_vars

-----------------------------------------------------------------------------
(* Properties *)

TypeOK ==
  /\ clock \in Nat
  /\ log \in [AllMeters -> Seq(Nat)]
  /\ head \in [AllMeters -> Nat \ {0}]
  /\ start \in [AllMeters -> Nat \ {0}]
  /\ restarts \in Nat

\* Between two restarts no Count + 1 messages of a meter fall into one window,
\* whatever the window's position, and two messages of a meter are an interval
\* apart, although the process keeps only the tail of what it has sent.
RatesKept ==
  /\ \A m \in Windows : \A i \in start[m] .. Len(log[m]) - Count[Kind(m)] :
       log[m][i] + Span[Kind(m)] <= log[m][i + Count[Kind(m)]]
  /\ \A m \in Intervals : \A i \in start[m] .. Len(log[m]) - 1 :
       log[m][i] + Interval[Kind(m)] <= log[m][i + 1]

\* A caller that is refused and comes back when the time it was told has passed
\* is admitted, unless another request came in between: no meter holds more than
\* its count, so the oldest time is the only one to wait for.
RetryIsEnough ==
  \A r \in Requests : \A t \in clock .. clock + Horizon :
    (\A d \in WindowDeadlines(r, clock) \cup IntervalDeadlines(r) : d <= t)
      => Admits(r, t)

=============================================================================

--------------------------- MODULE MCSendGovernor ---------------------------
(* Instances of SendGovernor for TLC. *)
EXTENDS SendGovernor

\* A command of a user and an airing reminder in one group, a reminder in another.
MCRequests ==
  { [class |-> "interactive", group |-> "g1", user |-> "u1"],
    [class |-> "airing",      group |-> "g1", user |-> "none"],
    [class |-> "release",     group |-> "g2", user |-> "none"] }
MCProactive == {"airing", "release", "content"}

\* The defaults' order of magnitudes, scaled down: the windows of a user and of
\* proactive messages hold more than one of the shorter intervals.
MCInterval == [group |-> 1, user |-> 1, proactive |-> 2]
MCSpan     == [global |-> 1, user |-> 3, proactive |-> 4]
MCCount    == [global |-> 2, user |-> 2, proactive |-> 2]

=============================================================================

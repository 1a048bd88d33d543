------------------------------ MODULE MCPlanners ------------------------------
(* An instance of Planners for TLC. *)
EXTENDS Planners, MCDailyDigest, TLC

CONSTANTS u1, u2

\* Two episodes that may begin now or a tick later, two users.
MCEpisodes == 1..2
MCUsers == {u1, u2}
MCTimes == {1, 2}

Symmetry == Permutations(MCUsers) \cup Permutations(MCReleases)
=============================================================================

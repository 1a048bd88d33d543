---------------------------- MODULE MCDailyDigest ----------------------------
(* Instances of DailyDigest for TLC: a day of six minutes of two ticks. *)
EXTENDS DailyDigest

CONSTANTS r1, r2

MCReleases == {r1, r2}
=============================================================================

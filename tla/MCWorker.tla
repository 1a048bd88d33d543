------------------------------- MODULE MCWorker -------------------------------
(* An instance of Worker for TLC. *)
EXTENDS Worker

\* Two jobs, and one whose handler kills the worker.
MCKeys == {"k", "p"}
MCPoison == {"p"}

\* Shows to find links for: one with two titles that is on air soon, one that has no
\* metadata, one with a title; in the catalogue, two subjects and an entry of AniList, rounds
\* that refresh one of each, a projection that reads two snapshots of them, and a crash,
\* so that three shows may come to exist.
MCShows == 1..3
MCMedia == {"m1"}
MCTitles == <<2, 0, 1>>
MCSoon == [s \in {1} |-> 1]
MCRoutes == {"r1"}
MCSubjects == {"b1", "b2"}
=============================================================================

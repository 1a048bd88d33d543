----------------------------- MODULE MCDelivery -----------------------------
(* Instances of Delivery for TLC. *)
EXTENDS Delivery

MCGroups == {"g1", "g2"}

\* Two jobs: an airing reminder for g1, a weekly report for g2 ...
PairJobs     == {1, 2}
PairGroupOf  == <<"g1", "g2">>
PairPriority == <<1, 4>>
PairDelay    == <<0, 0>>
PairTtl      == <<2, 4>>
PairContent  == {2}

\* ... and one job alone: a digest that mentions everyone, or a report.
OneJob      == {1}
OneGroupOf  == <<"g1">>
OnePriority == <<3>>
OneDelay    == <<0>>
OneTtl      == <<3>>
OneGroup    == {"g1"}

NoJobs == {}

=============================================================================

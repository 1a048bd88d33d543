-------------------------- MODULE MCReleaseBatches --------------------------
(* Instances of ReleaseBatches for TLC. *)
EXTENDS ReleaseBatches

\* Two releases of the second episode and one of the first.
MCItems  == 1 .. 3
MCLabel  == <<"01", "02", "02">>
MCNumber == [l \in {"01", "02"} |-> IF l = "01" THEN 1 ELSE 2]

\* A release of each of two episodes.
TwoItems  == 1 .. 2
TwoLabel  == <<"01", "02">>
TwoWanted == [u \in {"u", "v"} |-> IF u = "u" THEN {1, 2} ELSE {2}]

\* One user takes everything, the other one subtitle group only.
MCUsers   == {"u", "v"}
MCGroupOf == [u \in MCUsers |-> IF u = "u" THEN "g" ELSE "h"]
MCWanted  == [u \in MCUsers |-> IF u = "u" THEN MCItems ELSE {1, 3}]

MCUnaired    == -1
OnTime       == {0}
OnTimeOrAhead == {0, 1}
=============================================================================

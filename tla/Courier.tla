------------------------------ MODULE Courier -------------------------------
(***************************************************************************)
(* What the outbox promises a group: every copy of a job's message spends  *)
(* the job's one credit, and only a reason to doubt the last copy gives    *)
(* the credit back.  The documents call it "plan at least once, send once  *)
(* as far as possible" (astrbot-multisource design, 10.4).                 *)
(***************************************************************************)
EXTENDS Naturals

CONSTANT Jobs

VARIABLES
  copies,   \* [Jobs -> Nat]: messages of the job the group has received
  credit    \* [Jobs -> BOOLEAN]: the job may be delivered

Init ==
  /\ copies = [j \in Jobs |-> 0]
  /\ credit = [j \in Jobs |-> TRUE]

\* A copy reaches the group; the sender may not learn of it.
Deliver(j, uncertain) ==
  /\ credit[j]
  /\ copies' = [copies EXCEPT ![j] = @ + 1]
  /\ credit' = [credit EXCEPT ![j] = uncertain]

\* A crash, an error or the owner makes the job due again.
Excuse(j) ==
  /\ credit' = [credit EXCEPT ![j] = TRUE]
  /\ UNCHANGED copies

Next == \E j \in Jobs : Excuse(j) \/ \E u \in BOOLEAN : Deliver(j, u)

Spec == Init /\ [][Next]_<<copies, credit>>

=============================================================================

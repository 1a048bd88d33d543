--------------------------- MODULE MCContentPolls ---------------------------
(* Instances of ContentPolls for TLC. *)
EXTENDS ContentPolls

MCOwners == {"a", "b"}
MCVoters == {"v"}
=============================================================================

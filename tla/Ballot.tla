------------------------------- MODULE Ballot --------------------------------
(***************************************************************************)
(* What the polls of a group promise its members: each vote and each       *)
(* closing happens at one moment, one poll is open at a time, a closed one *)
(* takes no votes, and its result is announced once, with all of its votes *)
(* (content operations design, 5.3 and 6.3).                               *)
(***************************************************************************)

CONSTANTS Polls, Voters, Choices, NoVote

VARIABLES
  status,   \* [Polls -> {"none", "open", "closed"}]
  votes,    \* [Polls -> [Voters -> Choices \cup {NoVote}]]
  results   \* the announced ones: a poll and what each member voted

Init ==
  /\ status = [p \in Polls |-> "none"]
  /\ votes = [p \in Polls |-> [v \in Voters |-> NoVote]]
  /\ results = {}

Open(p) ==
  /\ status[p] = "none" /\ \A q \in Polls : status[q] # "open"
  /\ status' = [status EXCEPT ![p] = "open"]
  /\ UNCHANGED <<votes, results>>

\* A member votes, votes anew or (NoVote) takes the vote back.
Vote(p, v, c) ==
  /\ status[p] = "open"
  /\ votes' = [votes EXCEPT ![p][v] = c]
  /\ UNCHANGED <<status, results>>

Close(p) ==
  /\ status[p] = "open"
  /\ status' = [status EXCEPT ![p] = "closed"]
  /\ UNCHANGED <<votes, results>>

Announce(p) ==
  /\ status[p] = "closed" /\ \A r \in results : r.poll # p
  /\ results' = results \cup {[poll |-> p, view |-> votes[p]]}
  /\ UNCHANGED <<status, votes>>

Next ==
  \E p \in Polls :
    \/ Open(p) \/ Close(p) \/ Announce(p)
    \/ \E v \in Voters, c \in Choices \cup {NoVote} : Vote(p, v, c)

Spec == Init /\ [][Next]_<<status, votes, results>>

=============================================================================

----------------------------- MODULE MCGroupChat -----------------------------
(* Instances of GroupChat for TLC: two messages of two users; a text that two shows *)
(* contain, and the title of one of them.                                           *)
EXTENDS GroupChat, TLC

CONSTANTS m1, m2, u1, u2, s1, s2

MCMessages == {m1, m2}
MCUsers == {u1, u2}
MCShows == {s1, s2}
MCQueries == {"part", "title"}
MCHits == [part |-> {s1, s2}, title |-> {s1}]
MCTitled == [part |-> {}, title |-> {s1}]

\* s1 is on air, and a link of s2 waits.
MCOnAir == {s1}
MCUnsure == {s2}

\* Plain messages answer another one.
Says(slash, mention, act, query, number) ==
  [slash |-> slash, mention |-> mention, reply |-> ~slash /\ ~mention, act |-> act,
   query |-> query, number |-> number, id |-> NoShow]
SaysOf(act, show) == [Says(TRUE, FALSE, act, "", 0) EXCEPT !.id = show]
MCCommands ==
  {Says(TRUE, FALSE, "search", "part", 0), Says(TRUE, TRUE, "help", "", 0),
   Says(FALSE, TRUE, "subscribe", "title", 0), Says(FALSE, FALSE, "detail", "", 2),
   Says(FALSE, TRUE, "unsubscribe", "", 1), Says(FALSE, TRUE, "chat", "", 0),
   Says(FALSE, FALSE, "list", "", 0), Says(TRUE, FALSE, "pending", "", 0),
   SaysOf("settings", s1), SaysOf("unsubscribe", s2)}
MCToolCalls == {Says(FALSE, TRUE, "search", "part", 0), Says(FALSE, TRUE, "mine", "", 0)}

\* A group with everything on, one that only takes shortcuts, and a paused one.
MCPolicies ==
  {[passive |-> TRUE, mention |-> TRUE, shortcuts |-> FALSE, llm |-> "general"],
   [passive |-> TRUE, mention |-> FALSE, shortcuts |-> TRUE, llm |-> "disabled"],
   [passive |-> FALSE, mention |-> TRUE, shortcuts |-> FALSE, llm |-> "anime_only"]}

Symmetry == Permutations(Messages) \cup Permutations(Users)
=============================================================================

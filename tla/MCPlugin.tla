------------------------------- MODULE MCPlugin -------------------------------
(* An instance of Plugin for TLC. *)
EXTENDS Plugin, MCSendGovernor, TLC

CONSTANTS w1, w2

\* Two writers.  The digest's defaults fit with nothing to spare, so that the anchor and
\* the quiet time may not both grow.
MCWriters == {w1, w2}
MCDefaults ==
  [shortcuts |-> FALSE, notify |-> TRUE, anchor |-> 1, quiet |-> 1, cutoff |-> 3,
   from |-> NoTime, until |-> NoTime]
Edit(what) == [what |-> what, clear |-> FALSE]
MCEdits ==
  {Edit([shortcuts |-> TRUE]), [what |-> [anchor |-> 2], clear |-> TRUE],
   Edit([quiet |-> 2, from |-> 4, until |-> 1]), Edit([from |-> 3])}
MCActions == {"search", "help"}
MCDefaultWords == [search |-> {"find"}, help |-> {"help"}]
MCWordings ==
  {[search |-> {"find", "help"}, help |-> {"help"}],
   [search |-> {"look"}, help |-> {"help"}]}

Symmetry == Permutations(MCWriters)
=============================================================================

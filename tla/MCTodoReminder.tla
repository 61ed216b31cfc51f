--------------------------- MODULE MCTodoReminder ---------------------------
(* Instances of TodoReminder for TLC. *)
EXTENDS TodoReminder, TLC

CONSTANTS t1, t2, c1, c2

\* Todos and conversations may be exchanged, each among themselves.
Symmetry ==
  {[x \in Todos \cup Chats |-> IF x \in Todos THEN f[x] ELSE g[x]] :
     f \in Permutations(Todos), g \in Permutations(Chats)}
=============================================================================

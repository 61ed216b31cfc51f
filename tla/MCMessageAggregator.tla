------------------------ MODULE MCMessageAggregator ------------------------
(* An instance of MessageAggregator for TLC. *)
EXTENDS MessageAggregator

CONSTANTS m1, m2, m3, m4, alice, bob, k1, k2, k3, i1, i2

\* m3 is another part of m2: it has its id, and an index of its own, which makes their
\* dedupe keys differ.  m4 is for another user and an event without an index, as m1 is:
\* their key is the bare message id, the same in every conversation.
MCUserOf == [m \in Messages |-> IF m = m4 THEN bob ELSE alice]
MCKeysOf == [m \in Messages |-> CASE m \in {m1, m4} -> {k1} [] m = m2 -> {k2} [] m = m3 -> {k3}]
MCIdsOf == [m \in Messages |-> IF m \in {m1, m4} THEN {i1} ELSE {i2}]

\* For MaxChars 4: m1 and m2 leave room in a batch, m3 fills one alone and overflows
\* that of m1.
MCSizeOf == [m \in Messages |-> CASE m = m2 -> 2 [] m = m3 -> 4 [] OTHER -> 1]
=============================================================================

---------------------------- MODULE MCDispatcher ----------------------------
(* Instances of Dispatcher for TLC. *)
EXTENDS Dispatcher, TLC

CONSTANTS m1, m2, m3, m4, a, b

\* Three messages for one scope and one for another.
MCScopeOf == [m \in Messages |-> IF m = m4 THEN b ELSE a]

=============================================================================

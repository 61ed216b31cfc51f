------------------------- MODULE MCOneBotDispatcher -------------------------
(* Instances of OneBotDispatcher for TLC. *)
EXTENDS OneBotDispatcher

CONSTANTS d1, d2, d3, d4, a, b, k1, k2

\* d1 and d2 are one message, delivered twice; d4 is for another scope.
MCScopeOf == [d \in Deliveries |-> IF d = d4 THEN b ELSE a]
MCKeyOf == [d \in Deliveries |-> IF d \in {d1, d2} THEN {k1} ELSE IF d = d3 THEN {k2} ELSE {}]
=============================================================================

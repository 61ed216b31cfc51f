---------------------------- MODULE MessageDedupe ----------------------------
(***************************************************************************)
(* The gateway's record of the inbound messages it has seen.  A key is     *)
(* first reserved, all keys of a message at once, and the reservation is   *)
(* then committed when the message has been handed on, or rolled back when *)
(* it has not; only committed keys expire.  A reservation is known by its  *)
(* owner, which stands for the token the code draws.                       *)
(***************************************************************************)
CONSTANTS Keys, Owners

VARIABLE seen   \* for each key: free, committed, or its owner

Free == [state |-> "free"]
Committed == [state |-> "committed"]
Reserved(o) == [state |-> "reserved", by |-> o]

TypeOK == seen \in [Keys -> {Free, Committed} \cup {Reserved(o) : o \in Owners}]

Init == seen = [k \in Keys |-> Free]

\* reserve_many finds one of the keys K reserved or committed.
Seen(K) == \E k \in K : seen[k] # Free

\* reserve_many: all the keys K, or none.
Reserve(o, K) ==
  /\ ~Seen(K)
  /\ seen' = [k \in Keys |-> IF k \in K THEN Reserved(o) ELSE seen[k]]

\* The reservations of the owners O, whatever else happened to their keys.
HeldBy(O) == {k \in Keys : \E o \in O : seen[k] = Reserved(o)}

Commit(O) == seen' = [k \in Keys |-> IF k \in HeldBy(O) THEN Committed ELSE seen[k]]

Rollback(O) == seen' = [k \in Keys |-> IF k \in HeldBy(O) THEN Free ELSE seen[k]]

\* retain_recent_locked, for a key whose time is over.
Expire(k) ==
  /\ seen[k] = Committed
  /\ seen' = [seen EXCEPT ![k] = Free]
=============================================================================

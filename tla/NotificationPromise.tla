------------------------ MODULE NotificationPromise -------------------------
(***************************************************************************)
(* What the notification outbox promises to its producers and to the sent  *)
(* hook, without workers, leases, attempts or time.                        *)
(*                                                                         *)
(* A key is queued with an offer (the payload it will be pushed as) until  *)
(* it is sent, given up or cancelled.  Sent is final; it is reached only   *)
(* when the platform has received every part of the offer; and the hook    *)
(* runs at most once, after that.  What the platform has received can only *)
(* grow, and may go on growing for a key that is cancelled or given up: a  *)
(* push in flight cannot be called back.                                   *)
(***************************************************************************)
EXTENDS Integers

CONSTANTS Keys, Contents, PartCount

VARIABLES
  phase,   \* none, queued, sent, failed or cancelled, for each key
  offer,   \* the payload of each key
  got,     \* <<key, content, part>> the platform has received
  ran      \* the keys whose sent hook ran

vars == <<phase, offer, got, ran>>

Init ==
  /\ phase = [k \in Keys |-> "none"]
  /\ offer \in [Keys -> Contents]
  /\ got = {}
  /\ ran = {}

\* A producer queues a notification, or replaces one that is not yet sent.
Accept(k, c) ==
  /\ phase[k] # "sent"
  /\ phase' = [phase EXCEPT ![k] = "queued"]
  /\ offer' = [offer EXCEPT ![k] = c]
  /\ UNCHANGED <<got, ran>>

\* A producer that does not reactivate a cancelled notification.
Replace(k, c) ==
  /\ phase[k] = "cancelled"
  /\ offer' = [offer EXCEPT ![k] = c]
  /\ UNCHANGED <<phase, got, ran>>

Cancel(S) ==
  /\ \A k \in S : phase[k] \in {"queued", "failed"}
  /\ phase' = [k \in Keys |-> IF k \in S THEN "cancelled" ELSE phase[k]]
  /\ UNCHANGED <<offer, got, ran>>

Transfer(k, c, p) ==
  /\ p \in 0 .. (PartCount[c] - 1)
  /\ got' = got \cup {<<k, c, p>>}
  /\ UNCHANGED <<phase, offer, ran>>

Complete(k) ==
  /\ phase[k] = "queued"
  /\ PartCount[offer[k]] > 0
  /\ \A p \in 0 .. (PartCount[offer[k]] - 1) : <<k, offer[k], p>> \in got
  /\ phase' = [phase EXCEPT ![k] = "sent"]
  /\ UNCHANGED <<offer, got, ran>>

GiveUp(k) ==
  /\ phase[k] = "queued"
  /\ phase' = [phase EXCEPT ![k] = "failed"]
  /\ UNCHANGED <<offer, got, ran>>

RunHook(k) ==
  /\ phase[k] = "sent"
  /\ k \notin ran
  /\ ran' = ran \cup {k}
  /\ UNCHANGED <<phase, offer, got>>

Next ==
  \/ \E k \in Keys, c \in Contents : Accept(k, c) \/ Replace(k, c)
  \/ \E S \in SUBSET Keys : Cancel(S)
  \/ \E k \in Keys, c \in Contents : \E p \in 0 .. (PartCount[c] - 1) : Transfer(k, c, p)
  \/ \E k \in Keys : Complete(k) \/ GiveUp(k) \/ RunHook(k)

Spec == Init /\ [][Next]_vars
=============================================================================

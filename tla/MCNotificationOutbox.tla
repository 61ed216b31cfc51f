------------------------ MODULE MCNotificationOutbox ------------------------
(* An instance of NotificationOutbox for TLC. *)
EXTENDS NotificationOutbox, TLC

CONSTANTS k1, k2, w1, w2, s1, t1, long, broken

\* Two payloads: one of two parts, and one validated_parts refuses.
MCPartCount == (long :> 2) @@ (broken :> 0)
MCTypeOf == [s \in Sources |-> t1]
=============================================================================

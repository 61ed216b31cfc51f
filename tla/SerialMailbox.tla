---------------------------- MODULE SerialMailbox ----------------------------
(***************************************************************************)
(* What the gateway promises for the messages of a conversation scope,     *)
(* whatever workers, generations and channels it uses: an accepted message *)
(* joins the end of its scope's queue, the messages of a scope are handled *)
(* one at a time and in that order, each at most once, and a message that  *)
(* was refused is never handled.  Accepted messages may be lost (a panic,  *)
(* a shutdown, no worker slot for a successor), never reordered.           *)
(***************************************************************************)
EXTENDS Integers, Sequences

CONSTANTS Messages, Scopes, ScopeOf, None

VARIABLES
  queue,     \* accepted and not yet begun, for each scope
  running,   \* the message each scope is handling, or None
  answer     \* none, accepted or refused, for each message

vars == <<queue, running, answer>>

Init ==
  /\ queue = [s \in Scopes |-> <<>>]
  /\ running = [s \in Scopes |-> None]
  /\ answer = [m \in Messages |-> "none"]

Accept(m) ==
  /\ answer[m] = "none"
  /\ answer' = [answer EXCEPT ![m] = "accepted"]
  /\ queue' = [queue EXCEPT ![ScopeOf[m]] = Append(@, m)]
  /\ UNCHANGED running

Refuse(m) ==
  /\ answer[m] = "none"
  /\ answer' = [answer EXCEPT ![m] = "refused"]
  /\ UNCHANGED <<queue, running>>

Begin(s) ==
  /\ running[s] = None
  /\ queue[s] # <<>>
  /\ running' = [running EXCEPT ![s] = Head(queue[s])]
  /\ queue' = [queue EXCEPT ![s] = Tail(@)]
  /\ UNCHANGED answer

End(s) ==
  /\ running[s] # None
  /\ running' = [running EXCEPT ![s] = None]
  /\ UNCHANGED <<queue, answer>>

\* In any scope the oldest messages of the queue may be lost, and the one being
\* handled; a message that is still being sent may be refused with them.
Lose ==
  /\ queue' \in [Scopes -> Seq(Messages)] /\ running' \in [Scopes -> Messages \cup {None}]
  /\ \A s \in Scopes :
       /\ \E n \in 0 .. Len(queue[s]) : queue'[s] = SubSeq(queue[s], n + 1, Len(queue[s]))
       /\ running'[s] \in {running[s], None}
  /\ answer' \in [Messages -> {"none", "accepted", "refused"}]
  /\ \A m \in Messages :
       answer'[m] = answer[m] \/ (answer[m] = "none" /\ answer'[m] = "refused")

Next ==
  \/ \E m \in Messages : Accept(m) \/ Refuse(m)
  \/ \E s \in Scopes : Begin(s) \/ End(s)
  \/ Lose

Spec == Init /\ [][Next]_vars
=============================================================================

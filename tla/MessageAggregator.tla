-------------------------- MODULE MessageAggregator --------------------------
(***************************************************************************)
(* The aggregator of private messages: one actor between the gateway's     *)
(* WebSocket loop and the dispatcher.  Chat messages of a user are held    *)
(* for a short while and handed on as one turn; a command, or any message  *)
(* while a command is not processed yet (a barrier), closes the batch and  *)
(* is handed on at once.                                                   *)
(*                                                                         *)
(* The actor handles one command at a time, but awaits the core (to        *)
(* classify) and the dispatcher (to hand on): an action below is what it   *)
(* does between two awaits, and "busy" is where it is.  The dispatcher is  *)
(* the SerialMailbox that Dispatcher is shown to implement, a turn being   *)
(* known there by its last message (merge_batch).  Deadlines are the time  *)
(* left until them.                                                        *)
(***************************************************************************)
EXTENDS Integers, FiniteSets, SequencesExt

CONSTANTS
  Messages,      \* inbound private messages, redelivered ones included
  Users, UserOf, None,
  Keys, KeysOf,  \* the dedupe keys of a message
  Ids, IdsOf,    \* its message and event ids: the parts of one share them, not the keys
  SizeOf,        \* its length in characters
  Cancels,       \* messages that read "cancel"
  NonText,       \* messages with an image or a file
  MaxMessages, MaxChars, MaxActive,   \* the limits of the configuration
  Quiet, MaxWait

ASSUME AggregatorAssumption ==
  /\ UserOf \in [Messages -> Users]
  /\ KeysOf \in [Messages -> SUBSET Keys]
  /\ IdsOf \in [Messages -> SUBSET Ids]
  /\ SizeOf \in [Messages -> Nat]
  /\ Cancels \subseteq Messages /\ NonText \subseteq Messages
  /\ {MaxMessages, MaxChars, MaxActive, Quiet} \subseteq Nat \ {0}
  /\ MaxWait \in Nat /\ Quiet <= MaxWait
  /\ None \notin Messages \cup Users

VARIABLES
  inbox,     \* the actor's command channel
  busy,      \* the message or batch the actor is in the middle of
  batch,     \* the open batch of each user
  barrier,   \* commands handed on and not known to be processed, by user
  acks,      \* commands processed or lost, whose barrier task has ended
  timers,    \* timer tasks that still sleep
  seen,      \* the dedupe table
  queue, running, answer,   \* the dispatcher, as SerialMailbox sees it
  fate,      \* what became of each message
  arrived,   \* ghost: the messages in the order the loop received them
  handed,    \* ghost: by user, the messages handed on, in order
  closing    \* no, asked, drain, flush, stopped

mailbox == <<queue, running, answer>>
vars == <<inbox, busy, batch, barrier, acks, timers, seen, mailbox, fate, arrived, handed, closing>>

Dispatcher == INSTANCE SerialMailbox WITH Scopes <- Users, ScopeOf <- UserOf
Dedupe == INSTANCE MessageDedupe WITH Owners <- Messages

-----------------------------------------------------------------------------
(* State. *)

NoBatch == [msgs |-> <<>>, chars |-> 0, gen |-> 0, quiet |-> 0, hard |-> 0]
Idle == [stage |-> "idle", user |-> None, msg |-> None, then |-> "idle"]

C2c(m) == [kind |-> "c2c", msg |-> m, user |-> UserOf[m], gen |-> 0]
Timer(u, g) == [kind |-> "timer", msg |-> None, user |-> u, gen |-> g]
Close == [kind |-> "shutdown", msg |-> None, user |-> None, gen |-> 0]

Held(u) == ToSet(batch[u].msgs)
Open(u) == batch[u].msgs # <<>>
OpenUsers == {u \in Users : Open(u)}
Tokens(u) == {barrier[u][i].msg : i \in DOMAIN barrier[u]}

TypeOK ==
  /\ \A i \in DOMAIN inbox : inbox[i].kind \in {"c2c", "timer", "shutdown"}
  /\ busy \in [stage : {"idle", "decide", "flush", "barrier", "plain", "hold", "seal"},
               user : Users \cup {None}, msg : Messages \cup {None},
               then : {"idle", "barrier", "plain", "hold"}]
  /\ \A u \in Users :
       /\ batch[u].msgs \in SeqOf(Messages, MaxMessages)
       /\ batch[u].chars \in 0 .. MaxChars
       /\ batch[u].gen \in 0 .. MaxMessages + 1
       /\ batch[u].quiet \in 0 .. Quiet
       /\ batch[u].hard \in 0 .. MaxWait
       /\ \A i \in DOMAIN barrier[u] : UserOf[barrier[u][i].msg] = u
  /\ acks \subseteq UNION {Tokens(u) : u \in Users}
  /\ timers \subseteq [user : Users, gen : 2 .. MaxMessages + 1, left : 0 .. MaxWait]
  /\ Dedupe!TypeOK
  /\ fate \in [Messages -> {"new", "sent", "held", "handed", "duplicate", "cancelled",
                            "repeated", "refused", "dropped"}]
  /\ closing \in {"no", "asked", "drain", "flush", "stopped"}

Init ==
  /\ inbox = <<>>
  /\ busy = Idle
  /\ batch = [u \in Users |-> NoBatch]
  /\ barrier = [u \in Users |-> <<>>]
  /\ acks = {}
  /\ timers = {}
  /\ Dedupe!Init
  /\ Dispatcher!Init
  /\ fate = [m \in Messages |-> "new"]
  /\ arrived = <<>>
  /\ handed = [u \in Users |-> <<>>]
  /\ closing = "no"

-----------------------------------------------------------------------------
(* Helpers. *)

Becomes(S, how) == fate' = [m \in Messages |-> IF m \in S THEN how ELSE fate[m]]

GoOn(stage) == busy' = [busy EXCEPT !.stage = stage]

\* The dispatcher takes the turn q of user u, and its reservations are committed.
HandOn(u, q) ==
  /\ Dispatcher!Accept(Last(q))
  /\ Dedupe!Commit(ToSet(q))
  /\ handed' = [handed EXCEPT ![u] = @ \o q]

\* Mutant: the reservations outlive the refusal.
TurnDownKeepingKeys(q, S, how) ==
  /\ Dispatcher!Refuse(Last(q))
  /\ Becomes(S, how)
  /\ UNCHANGED <<seen, handed>>

\* The dispatcher refuses the turn q: the messages S fail with it.
TurnDown(q, S, how) ==
  /\ Dispatcher!Refuse(Last(q))
  /\ Dedupe!Rollback(S)
  /\ Becomes(S, how)
  /\ UNCHANGED handed

\* spawn_timer sleeps to the batch's nearer deadline, the quiet one.
Sleeping(u, b) == [user |-> u, gen |-> b.gen, left |-> b.quiet]

\* handle_barrier_event and release_resolved_barriers, for the events D.
Marked(u, D) == [i \in DOMAIN barrier[u] |->
                   [barrier[u][i] EXCEPT !.resolved = @ \/ barrier[u][i].msg \in D]]

\* Mutant: an event that is not of the oldest barrier is forgotten.
ReleasedInTurn(D) == [u \in Users |->
  IF barrier[u] # <<>> /\ Head(barrier[u]).msg \in D THEN Tail(barrier[u]) ELSE barrier[u]]

Released(D) == [u \in Users |->
  LET q == Marked(u, D)
  IN  SubSeq(q, 1 + Cardinality({i \in DOMAIN q : \A j \in 1 .. i : q[j].resolved}), Len(q))]

-----------------------------------------------------------------------------
(* The WebSocket loop: it waits for the answer before it reads on. *)

Receive(m) ==
  /\ closing = "no"
  /\ busy.msg = None
  /\ fate[m] = "new" /\ \A n \in Messages : fate[n] # "sent"
  /\ inbox' = Append(inbox, C2c(m))
  /\ fate' = [fate EXCEPT ![m] = "sent"]
  /\ arrived' = Append(arrived, m)
  /\ UNCHANGED <<busy, batch, barrier, acks, timers, seen, mailbox, handed, closing>>

\* The loop has ended, and the gateway shuts the aggregator down.
AskToClose ==
  /\ closing = "no"
  /\ busy.msg = None
  /\ \A n \in Messages : fate[n] # "sent"
  /\ inbox' = Append(inbox, Close)
  /\ closing' = "asked"
  /\ UNCHANGED <<busy, batch, barrier, acks, timers, seen, mailbox, fate, arrived, handed>>

-----------------------------------------------------------------------------
(* handle_c2c, from one await to the next. *)

Command(kind) ==
  /\ busy = Idle
  /\ inbox # <<>>
  /\ Head(inbox).kind = kind
  /\ inbox' = Tail(inbox)

TakeC2c ==
  /\ Command("c2c")
  /\ LET m == Head(inbox).msg
     IN  \/ /\ Dedupe!Seen(KeysOf[m])
            /\ Becomes({m}, "duplicate")
            /\ UNCHANGED <<seen, busy>>
         \/ /\ Dedupe!Reserve(m, KeysOf[m])
            /\ busy' = [stage |-> "decide", user |-> UserOf[m], msg |-> m, then |-> "idle"]
            /\ UNCHANGED fate
  /\ UNCHANGED <<batch, barrier, acks, timers, mailbox, arrived, handed, closing>>

\* cancel_pending_aggregation.
CancelBatch ==
  LET u == busy.user
  IN  /\ busy.msg \in Cancels /\ Held(u) \cap NonText # {}
      /\ Dedupe!Commit(Held(u) \cup {busy.msg})
      /\ Becomes(Held(u) \cup {busy.msg}, "cancelled")
      /\ batch' = [batch EXCEPT ![u] = NoBatch]
      /\ busy' = Idle

\* What is done with the message once the batch, if it must go first, is gone.
FlushThen(then) ==
  /\ busy' = [busy EXCEPT !.stage = "flush", !.then = then]
  /\ UNCHANGED <<seen, fate, batch>>

\* aggregate, up to the append.
TooManyActive(u) == ~Open(u) /\ Cardinality(OpenUsers) >= MaxActive
Overflows(u, m) ==
  /\ Open(u)
  /\ \/ Len(batch[u].msgs) + 1 > MaxMessages
     \/ batch[u].chars + SizeOf[m] > MaxChars

\* is_duplicate_for_open_batch: an id of the message is in the batch, though its
\* dedupe keys are new.  The reservation is dropped, which rolls it back.
Repeats(u, m) == \E n \in Held(u) : IdsOf[n] \cap IdsOf[m] # {}
Overlook ==
  /\ Dedupe!Rollback({busy.msg})
  /\ Becomes({busy.msg}, "repeated")
  /\ busy' = Idle
  /\ UNCHANGED batch

Aggregate ==
  LET u == busy.user  m == busy.msg
  IN  IF Repeats(u, m) THEN Overlook
      ELSE IF SizeOf[m] > MaxChars \/ TooManyActive(u) THEN FlushThen("plain")
      ELSE IF Overflows(u, m) THEN FlushThen("hold")
      ELSE GoOn("hold") /\ UNCHANGED <<seen, fate, batch>>

\* process_reserved_c2c; what the core answers to classify_c2c is its business.
ProcessReserved(D) ==
  IF Released(D)[busy.user] # <<>> THEN FlushThen("barrier")
  ELSE Aggregate \/ FlushThen("barrier")

\* The barrier tasks that have ended, those the actor gets to see, come first.
Decide ==
  /\ busy.stage = "decide"
  /\ \E D \in SUBSET acks :
       /\ acks' = acks \ D
       /\ barrier' = Released(D)
       /\ \/ CancelBatch
          \/ /\ ~(busy.msg \in Cancels /\ Held(busy.user) \cap NonText # {})
             /\ ProcessReserved(D)
  /\ UNCHANGED <<inbox, timers, mailbox, arrived, handed, closing>>

\* Mutant: the batch is left where it is.
FlushNothing ==
  /\ busy.stage = "flush"
  /\ GoOn(busy.then)
  /\ UNCHANGED <<mailbox, seen, fate, handed, batch>>
  /\ UNCHANGED <<inbox, barrier, acks, timers, arrived, closing>>

\* flush_key, before the message in hand: if it fails they fail together.
Flush ==
  /\ busy.stage = "flush"
  /\ LET u == busy.user
     IN  \/ /\ ~Open(u)
            /\ GoOn(busy.then)
            /\ UNCHANGED <<mailbox, seen, fate, handed, batch>>
         \/ /\ Open(u)
            /\ HandOn(u, batch[u].msgs)
            /\ Becomes(Held(u), "handed")
            /\ batch' = [batch EXCEPT ![u] = NoBatch]
            /\ GoOn(busy.then)
         \/ /\ Open(u)
            /\ TurnDown(batch[u].msgs, Held(u) \cup {busy.msg}, "refused")
            /\ batch' = [batch EXCEPT ![u] = NoBatch]
            /\ busy' = Idle
  /\ UNCHANGED <<inbox, barrier, acks, timers, arrived, closing>>

\* dispatch_with_barrier and dispatch_without_barrier.
Dispatch ==
  /\ busy.stage \in {"barrier", "plain"}
  /\ LET u == busy.user  m == busy.msg
     IN  \/ /\ HandOn(u, <<m>>)
            /\ Becomes({m}, "handed")
            /\ barrier' = IF busy.stage = "barrier"
                          THEN [barrier EXCEPT ![u] = Append(@, [msg |-> m, resolved |-> FALSE])]
                          ELSE barrier
         \/ /\ TurnDown(<<m>>, {m}, "refused")
            /\ UNCHANGED barrier
  /\ busy' = Idle
  /\ UNCHANGED <<inbox, batch, acks, timers, arrived, closing>>

\* append_to_batch, to the open batch or a new one.
Extended(u, m) ==
  LET b == batch[u]
      hard == IF Open(u) THEN b.hard ELSE MaxWait
  IN  [msgs |-> Append(b.msgs, m), chars |-> b.chars + SizeOf[m],
       gen |-> (IF Open(u) THEN b.gen ELSE 1) + 1, quiet |-> Min({Quiet, hard}), hard |-> hard]

AtLimit(b) == Len(b.msgs) = MaxMessages \/ b.chars = MaxChars

\* Mutant: no timer for a batch that has one already.
TimedOnce(u, b) == IF Open(u) THEN timers ELSE timers \cup {Sleeping(u, b)}

Timed(u, b) == timers \cup {Sleeping(u, b)}

Hold ==
  /\ busy.stage = "hold"
  /\ LET u == busy.user  b == Extended(u, busy.msg)
     IN  /\ batch' = [batch EXCEPT ![u] = b]
         /\ \/ /\ AtLimit(b)
               /\ GoOn("seal")
               /\ UNCHANGED timers
            \/ /\ ~AtLimit(b)
               /\ timers' = Timed(u, b)
               /\ busy' = Idle
  /\ Becomes({busy.msg}, "held")
  /\ UNCHANGED <<inbox, barrier, acks, seen, mailbox, arrived, handed, closing>>

\* flush_key at a limit or a deadline: nobody is told of a failure while closing.
Seal ==
  /\ busy.stage = "seal"
  /\ LET u == busy.user
     IN  /\ \/ HandOn(u, batch[u].msgs) /\ Becomes(Held(u), "handed")
            \/ TurnDown(batch[u].msgs, Held(u),
                        IF closing \in {"no", "asked"} THEN "refused" ELSE "dropped")
         /\ batch' = [batch EXCEPT ![u] = NoBatch]
  /\ busy' = Idle
  /\ UNCHANGED <<inbox, barrier, acks, timers, arrived, closing>>

-----------------------------------------------------------------------------
(* Timers, barrier events, and the shutdown. *)

\* A timer task sends its command; once the channel is closed it sends nothing.
TimerEnds(t) ==
  /\ t \in timers
  /\ t.left = 0
  /\ timers' = timers \ {t}
  /\ inbox' = IF closing \in {"no", "asked"} THEN Append(inbox, Timer(t.user, t.gen)) ELSE inbox
  /\ UNCHANGED <<busy, batch, barrier, acks, seen, mailbox, fate, arrived, handed, closing>>

\* handle_timer.  Generations begin anew with each batch, so a timer of an earlier
\* batch may match; the deadlines are looked at again.
TakeTimer ==
  /\ Command("timer")
  /\ LET u == Head(inbox).user  b == batch[u]
     IN  \/ /\ b.gen # Head(inbox).gen
            /\ UNCHANGED <<busy, timers>>
         \/ /\ b.gen = Head(inbox).gen /\ b.quiet = 0
            /\ busy' = [stage |-> "seal", user |-> u, msg |-> None, then |-> "idle"]
            /\ UNCHANGED timers
         \/ /\ b.gen = Head(inbox).gen /\ b.quiet > 0
            /\ timers' = timers \cup {Sleeping(u, b)}
            /\ UNCHANGED busy
  /\ UNCHANGED <<batch, barrier, acks, seen, mailbox, fate, arrived, handed, closing>>

JoinBarrier(m) ==
  /\ busy = Idle /\ closing \in {"no", "asked"}
  /\ m \in acks
  /\ acks' = acks \ {m}
  /\ barrier' = Released({m})
  /\ UNCHANGED <<inbox, busy, batch, timers, seen, mailbox, fate, arrived, handed, closing>>

\* The channel is closed, and what is left in it handled as before.
TakeClose ==
  /\ Command("shutdown")
  /\ closing' = "drain"
  /\ UNCHANGED <<busy, batch, barrier, acks, timers, seen, mailbox, fate, arrived, handed>>

\* The command was not answered in time: the token is cancelled, and the actor,
\* when it next waits for a command, leaves the channel as it is.
TokenCancelled ==
  /\ closing = "asked"
  /\ busy = Idle
  /\ closing' = "flush"
  /\ inbox' = <<>>
  /\ UNCHANGED <<busy, batch, barrier, acks, timers, seen, mailbox, fate, arrived, handed>>

Drained ==
  /\ closing = "drain" /\ inbox = <<>> /\ busy = Idle
  /\ closing' = "flush"
  /\ UNCHANGED <<inbox, busy, batch, barrier, acks, timers, seen, mailbox, fate, arrived, handed>>

\* flush_all, a batch at a time, then the end of the barrier tasks.
FlushNext(u) ==
  /\ closing = "flush" /\ busy = Idle
  /\ Open(u)
  /\ busy' = [stage |-> "seal", user |-> u, msg |-> None, then |-> "idle"]
  /\ UNCHANGED <<inbox, batch, barrier, acks, timers, seen, mailbox, fate, arrived, handed, closing>>

\* Mutant: the batches are not waited for.
StopAtOnce ==
  /\ closing = "flush" /\ busy = Idle
  /\ closing' = "stopped"
  /\ barrier' = [u \in Users |-> <<>>]
  /\ acks' = {}
  /\ timers' = {}
  /\ UNCHANGED <<inbox, busy, batch, seen, mailbox, fate, arrived, handed>>

Stop ==
  /\ closing = "flush" /\ busy = Idle
  /\ OpenUsers = {}
  /\ closing' = "stopped"
  /\ barrier' = [u \in Users |-> <<>>]
  /\ acks' = {}
  /\ timers' = {}
  /\ UNCHANGED <<inbox, busy, batch, seen, mailbox, fate, arrived, handed>>

\* Time passes for the batches and the timer tasks.
Later(n) == IF n = 0 THEN 0 ELSE n - 1
Tick ==
  /\ (\E t \in timers : t.left > 0) \/ (\E u \in Users : batch[u].hard > 0)
  /\ batch' = [u \in Users |-> [batch[u] EXCEPT !.quiet = Later(@), !.hard = Later(@)]]
  /\ timers' = {[t EXCEPT !.left = Later(@)] : t \in timers}
  /\ UNCHANGED <<inbox, busy, barrier, acks, seen, mailbox, fate, arrived, handed, closing>>

Actor ==
  \/ TakeC2c \/ Decide \/ Flush \/ Dispatch \/ Hold \/ Seal
  \/ TakeTimer \/ TakeClose \/ Drained \/ Stop
  \/ \E u \in Users : FlushNext(u)
  \/ \E m \in Messages : JoinBarrier(m)

-----------------------------------------------------------------------------
(* The dispatcher: a turn is begun, and ends, or it is lost; either way the  *)
(* barrier task of a command ends.                                           *)

Begin(u) ==
  /\ Dispatcher!Begin(u)
  /\ UNCHANGED <<inbox, busy, batch, barrier, acks, timers, seen, fate, arrived, handed, closing>>

Known(S) == acks' = acks \cup (S \cap UNION {Tokens(u) : u \in Users})

End(u) ==
  /\ Dispatcher!End(u)
  /\ Known({running[u]})
  /\ UNCHANGED <<inbox, busy, batch, barrier, timers, seen, fate, arrived, handed, closing>>

\* A worker is lost with the turns it holds, or no worker is found for a backlog.
LoseScope(u) ==
  \E r \in {running[u], None} :
    LET lost == ToSet(queue[u]) \cup ({running[u]} \ {r})
    IN  /\ lost # {}
        /\ queue' = [queue EXCEPT ![u] = <<>>]
        /\ running' = [running EXCEPT ![u] = r]
        /\ UNCHANGED answer
        /\ Dispatcher!Lose
        /\ Known(lost)
        /\ UNCHANGED <<inbox, busy, batch, barrier, timers, seen, fate, arrived, handed, closing>>

Next ==
  \/ \E m \in Messages : Receive(m)
  \/ AskToClose \/ TokenCancelled
  \/ Actor
  \/ \E t \in timers : TimerEnds(t)
  \/ Tick
  \/ \E u \in Users : Begin(u) \/ End(u) \/ LoseScope(u)

Spec == Init /\ [][Next]_vars

\* The actor is scheduled and its calls return, time passes, a timer's send finds
\* room in the channel, and the dispatcher works its queues off, as Dispatcher's
\* liveness says.
FairSpec ==
  /\ Spec
  /\ WF_vars(Actor) /\ WF_vars(Tick) /\ WF_vars(\E t \in timers : TimerEnds(t))
  /\ \A u \in Users : WF_vars(Begin(u) \/ End(u))

-----------------------------------------------------------------------------
(* Properties. *)

Position(m) == CHOOSE i \in DOMAIN arrived : arrived[i] = m

\* The messages of a user are handed on in the order they arrived, each in one
\* turn, whatever batches, barriers, limits, timers and failures came between.
HandsOnInOrder ==
  \A u \in Users : \A i, j \in DOMAIN handed[u] :
    i < j => Position(handed[u][i]) < Position(handed[u][j])

\* While a command of a user is not known to be processed, no batch of the user
\* is open: what the user says next does not wait behind a timer.
BarrierExcludesBatch == \A u \in Users : barrier[u] # <<>> => ~Open(u)

\* An open batch that is not being closed has a timer that will close it: one that
\* sleeps, or a command in the channel.  Without one it would keep its messages, and their
\* dedupe keys, for ever.
OpenBatchIsTimed ==
  closing \in {"no", "asked"} => \A u \in OpenUsers :
    \/ busy.stage = "seal" /\ busy.user = u
    \/ \E t \in timers : t.user = u /\ t.gen = batch[u].gen
    \/ \E i \in DOMAIN inbox : inbox[i] = Timer(u, batch[u].gen)

\* The limits hold between two commands: a batch that reached one is gone, a
\* batch is opened only when there is room, the one after an overflow included.
BatchesAreBounded ==
  busy = Idle =>
    /\ Cardinality(OpenUsers) <= MaxActive
    /\ \A u \in OpenUsers : Len(batch[u].msgs) < MaxMessages /\ batch[u].chars < MaxChars

\* What holds of the batches between any two steps, besides their types.
BatchesAreSound ==
  /\ TypeOK
  /\ BarrierExcludesBatch
  /\ OpenBatchIsTimed
  /\ BatchesAreBounded

\* A reservation is the message's own, held with it in a batch or in hand; a
\* message handed on has its keys committed and one that failed has none, so it
\* can be sent again.  No two deliveries of one message are both handed on.
KeysFollowMessages ==
  /\ \A k \in Keys, m \in Messages :
       seen[k] = Dedupe!Reserved(m) => m \in Held(UserOf[m]) \/ busy.msg = m
  /\ \A m \in Messages, k \in Keys :
       k \in KeysOf[m] /\ fate[m] \in {"handed", "cancelled"} => seen[k] = Dedupe!Committed
  /\ \A m, n \in Messages :
       m # n /\ {fate[m], fate[n]} \subseteq {"held", "handed"} => KeysOf[m] \cap KeysOf[n] = {}

\* Until it shuts down, the aggregator lets a message whose dedupe keys were new go
\* without telling its user only when another with one of its ids, a part of the
\* same one perhaps, was in the user's batch; and the shutdown leaves no message
\* behind in a batch.
Taken == {"held", "handed", "cancelled", "refused", "dropped"}
NothingIsLeft ==
  /\ closing \in {"no", "asked"} => \A m \in Messages : fate[m] # "dropped"
  /\ \A m \in Messages : fate[m] = "repeated" => \E n \in Messages \ {m} :
       UserOf[n] = UserOf[m] /\ IdsOf[n] \cap IdsOf[m] # {} /\ fate[n] \in Taken
  /\ closing = "stopped" => \A m \in Messages : fate[m] \notin {"held", "sent"}

\* Again and again the aggregator is at rest: no message waits in a batch for
\* ever, the loop, which reads nothing more from the platform meanwhile, gets its
\* answer, and no barrier outlives its command, processed or lost.
Waiting(m) == fate[m] \in {"sent", "held"} \/ m \in Tokens(UserOf[m])

EveryMessageSettles == []<>(\A m \in Messages : ~Waiting(m))

=============================================================================

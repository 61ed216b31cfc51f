----------------------------- MODULE Dispatcher -----------------------------
(***************************************************************************)
(* The gateway's conversation dispatcher: one actor that owns the scopes,  *)
(* one worker task for each active scope, and the bounded command channel  *)
(* on which callers and workers reach the actor.                           *)
(*                                                                         *)
(* An idle worker does not leave by itself: it asks, the actor marks the   *)
(* scope retiring and from then on keeps new messages in a backlog, until  *)
(* the worker's exit is reported and a successor takes the backlog over.   *)
(* A worker's slot is released when its task ends, before the exit is      *)
(* reported.                                                               *)
(***************************************************************************)
EXTENDS Integers, FiniteSets, SequencesExt

CONSTANTS
  Messages, Scopes, ScopeOf, None,
  Groups,        \* scopes that are group chats: their notices have a cooldown
  Silent,        \* messages sent with notify_on_reject = false
  Capacity,      \* conversation_queue_capacity
  MaxWorkers,    \* max_active_conversation_workers
  CommandRoom,   \* capacity of the command channel
  NoticeRoom,    \* capacity of the reject channel
  MaxPanics,     \* bound on handler panics
  MayShutDown    \* whether the run includes a shutdown

ASSUME DispatcherAssumption ==
  /\ IsFiniteSet(Messages)
  /\ ScopeOf \in [Messages -> Scopes]
  /\ Groups \subseteq Scopes /\ Silent \subseteq Messages
  /\ {Capacity, MaxWorkers, CommandRoom, NoticeRoom} \subseteq Nat \ {0}
  /\ MaxPanics \in Nat /\ MayShutDown \in BOOLEAN
  /\ None \notin Messages \cup Scopes

VARIABLES
  entry,      \* the actor's scopes: state, generation, queue_len, backlog
  worker,     \* by generation: the worker task, its receiver, the message it took
  channel,    \* commands sent and not yet handled by the actor
  slots,      \* worker slots left
  cooling,    \* groups whose last reject notice is recent
  notices,    \* messages whose reject notice waits to be sent
  fate,       \* what became of each message
  panics, shutdown, stopped

vars == <<entry, worker, channel, slots, cooling, notices, fate, panics, shutdown, stopped>>

\* Every spawn takes a message with it, so there are no more than messages.
Gens == 1 .. Cardinality(Messages)

NoEntry == [state |-> "none", gen |-> 0, queued |-> 0, backlog |-> <<>>]
Unborn == [stage |-> "unborn", scope |-> None, rx |-> <<>>, hand |-> None]

\* The stages in which a worker has its receiver and may still handle messages.
Serving == {"receive", "expired", "asking", "took", "handling"}

TypeOK ==
  /\ entry \in [Scopes -> [state : {"none", "active", "retiring"}, gen : 0 .. Cardinality(Messages),
                           queued : 0 .. Capacity, backlog : SeqOf(Messages, Capacity)]]
  /\ worker \in [Gens -> [stage : Serving \cup {"unborn", "ended", "leaving", "gone"},
                          scope : Scopes \cup {None}, rx : SeqOf(Messages, Capacity),
                          hand : Messages \cup {None}]]
  /\ Len(channel) <= CommandRoom
  /\ slots \in 0 .. MaxWorkers
  /\ cooling \subseteq Groups
  /\ Len(notices) <= NoticeRoom
  /\ fate \in [Messages -> {"new", "sent", "accepted", "done", "refused", "unavailable",
                            "evicted", "lost"}]
  /\ panics \in 0 .. MaxPanics
  /\ shutdown \in BOOLEAN /\ stopped \in BOOLEAN

Init ==
  /\ entry = [s \in Scopes |-> NoEntry]
  /\ worker = [g \in Gens |-> Unborn]
  /\ channel = <<>>
  /\ slots = MaxWorkers
  /\ cooling = {}
  /\ notices = <<>>
  /\ fate = [m \in Messages |-> "new"]
  /\ panics = 0
  /\ shutdown = FALSE
  /\ stopped = FALSE

-----------------------------------------------------------------------------
(* Helpers. *)

NextGen == 1 + Cardinality({g \in Gens : worker[g].stage # "unborn"})

Enqueue(m) == [kind |-> "enqueue", msg |-> m, gen |-> 0]
IdleExpired(g) == [kind |-> "idle", msg |-> None, gen |-> g]
Dequeued(g) == [kind |-> "dequeued", msg |-> None, gen |-> g]
Exited(g) == [kind |-> "exited", msg |-> None, gen |-> g]

Room == ~stopped /\ Len(channel) < CommandRoom

Active(g, n) == [state |-> "active", gen |-> g, queued |-> n, backlog |-> <<>>]
NewWorker(s, q) == [stage |-> "receive", scope |-> s, rx |-> q, hand |-> None]

\* The messages of a queue that the worker or the actor drops when it goes.
Dropped(f, S, how) == [m \in Messages |-> IF m \in S THEN how ELSE f[m]]

-----------------------------------------------------------------------------
(* Callers. *)

Send(m) ==
  /\ fate[m] = "new"
  /\ \/ /\ Room
        /\ channel' = Append(channel, Enqueue(m))
        /\ fate' = [fate EXCEPT ![m] = "sent"]
     \/ /\ stopped
        /\ fate' = [fate EXCEPT ![m] = "unavailable"]
        /\ UNCHANGED channel
  /\ UNCHANGED <<entry, worker, slots, cooling, notices, panics, shutdown, stopped>>

-----------------------------------------------------------------------------
(* The actor: one command at a time, in the order of the channel. *)

Command(kind) ==
  /\ ~stopped
  /\ channel # <<>>
  /\ Head(channel).kind = kind
  /\ channel' = Tail(channel)

\* reject, for the messages of q, all of scope s: the notices that are queued.
\* A group is told once, then not again until its cooldown ends; a notice that
\* finds the reject channel full is dropped.
Told(s, q) ==
  IF s \in cooling THEN <<>>
  ELSE SubSeq(q, 1, Min({Len(q), NoticeRoom - Len(notices)} \cup IF s \in Groups THEN {1} ELSE {}))

Notify(s, q) ==
  /\ notices' = notices \o Told(s, q)
  /\ cooling' = IF s \in Groups /\ Told(s, q) # <<>> THEN cooling \cup {s} ELSE cooling

\* A message that cannot be queued: the dispatcher tells the user, or reports
\* to the caller that nobody has been told.
Reject(m) ==
  LET s == ScopeOf[m]
  IN  IF m \in Silent
      THEN /\ fate' = [fate EXCEPT ![m] = "unavailable"]
           /\ UNCHANGED <<notices, cooling>>
      ELSE /\ Notify(s, <<m>>)
           /\ fate' = [fate EXCEPT ![m] =
                IF s \in cooling \/ Len(notices) < NoticeRoom THEN "refused" ELSE "unavailable"]

Full(s) == entry[s].queued + Len(entry[s].backlog) >= Capacity

EnqueueAfterShutdown(m) ==
  /\ shutdown
  /\ fate' = [fate EXCEPT ![m] = "unavailable"]
  /\ UNCHANGED <<entry, worker, slots, notices, cooling>>

EnqueueFull(m) ==
  /\ ~shutdown
  /\ entry[ScopeOf[m]] # NoEntry
  /\ Full(ScopeOf[m])
  /\ Reject(m)
  /\ UNCHANGED <<entry, worker, slots>>

\* try_send succeeds while the worker still has its receiver.
EnqueueActive(m) ==
  LET s == ScopeOf[m]  g == entry[s].gen
  IN  /\ ~shutdown
      /\ entry[s].state = "active"
      /\ ~Full(s)
      /\ \/ /\ worker[g].stage \in Serving /\ Len(worker[g].rx) < Capacity
            /\ worker' = [worker EXCEPT ![g].rx = Append(@, m)]
            /\ entry' = [entry EXCEPT ![s].queued = @ + 1]
            /\ fate' = [fate EXCEPT ![m] = "accepted"]
         \/ /\ worker[g].stage \notin Serving \/ Len(worker[g].rx) >= Capacity
            /\ fate' = [fate EXCEPT ![m] = "unavailable"]
            /\ UNCHANGED <<worker, entry>>
      /\ UNCHANGED <<slots, notices, cooling>>

\* Mutant: the newest message of the backlog first.
EnqueueRetiringInFront(m) ==
  LET s == ScopeOf[m]
  IN  /\ ~shutdown
      /\ entry[s].state = "retiring"
      /\ ~Full(s)
      /\ entry' = [entry EXCEPT ![s].backlog = <<m>> \o @]
      /\ fate' = [fate EXCEPT ![m] = "accepted"]
      /\ UNCHANGED <<worker, slots, notices, cooling>>

EnqueueRetiring(m) ==
  LET s == ScopeOf[m]
  IN  /\ ~shutdown
      /\ entry[s].state = "retiring"
      /\ ~Full(s)
      /\ entry' = [entry EXCEPT ![s].backlog = Append(@, m)]
      /\ fate' = [fate EXCEPT ![m] = "accepted"]
      /\ UNCHANGED <<worker, slots, notices, cooling>>

EnqueueNew(m) ==
  LET s == ScopeOf[m]
  IN  /\ ~shutdown
      /\ entry[s] = NoEntry
      /\ \/ /\ slots > 0
            /\ slots' = slots - 1
            /\ worker' = [worker EXCEPT ![NextGen] = NewWorker(s, <<m>>)]
            /\ entry' = [entry EXCEPT ![s] = Active(NextGen, 1)]
            /\ fate' = [fate EXCEPT ![m] = "accepted"]
            /\ UNCHANGED <<notices, cooling>>
         \/ /\ slots = 0
            /\ Reject(m)
            /\ UNCHANGED <<entry, worker, slots>>

HandleEnqueue ==
  /\ Command("enqueue")
  /\ LET m == Head(channel).msg
     IN  EnqueueAfterShutdown(m) \/ EnqueueFull(m) \/ EnqueueActive(m)
         \/ EnqueueRetiring(m) \/ EnqueueNew(m)
  /\ UNCHANGED <<panics, shutdown, stopped>>

\* Mutant: queued messages not looked at.
StaysUnlessOther(g) ==
  LET e == entry[worker[g].scope]
  IN  e # NoEntry /\ (e.gen # g \/ e.state # "active")

\* The idle worker is told to stay if its scope is another worker's, is not
\* active, or has a message for it; otherwise the scope retires.
StaysActive(g) ==
  LET e == entry[worker[g].scope]
  IN  e # NoEntry /\ (e.gen # g \/ e.state # "active" \/ e.queued > 0)

HandleIdleExpired ==
  /\ Command("idle")
  /\ LET g == Head(channel).gen  s == worker[g].scope
     IN  \/ /\ StaysActive(g)
            /\ worker' = [worker EXCEPT ![g].stage = "receive"]
            /\ UNCHANGED <<entry, fate>>
         \/ /\ ~StaysActive(g)
            /\ worker' = [worker EXCEPT ![g].stage = "ended", ![g].rx = <<>>]
            /\ fate' = Dropped(fate, ToSet(worker[g].rx), "lost")
            /\ entry' = [entry EXCEPT ![s].state = IF entry[s] = NoEntry THEN "none" ELSE "retiring"]
  /\ UNCHANGED <<slots, cooling, notices, panics, shutdown, stopped>>

HandleDequeued ==
  /\ Command("dequeued")
  /\ LET g == Head(channel).gen  s == worker[g].scope
     IN  entry' = IF entry[s].gen = g /\ entry[s].queued > 0
                  THEN [entry EXCEPT ![s].queued = @ - 1] ELSE entry
  /\ UNCHANGED <<worker, slots, cooling, notices, fate, panics, shutdown, stopped>>

\* Mutant: the backlog forgotten with its scope.
ForgetAnyScope(s) ==
  /\ entry' = [entry EXCEPT ![s] = NoEntry]
  /\ UNCHANGED <<fate, worker, slots, notices, cooling>>

\* The scope of a worker that left is forgotten, unless messages came meanwhile:
\* they go to a successor, if there is still a slot for one.
ForgetScope(s) ==
  /\ entry[s].backlog = <<>> \/ shutdown
  /\ entry' = [entry EXCEPT ![s] = NoEntry]
  /\ fate' = Dropped(fate, ToSet(entry[s].backlog), "lost")
  /\ UNCHANGED <<worker, slots, notices, cooling>>

Succeed(s) ==
  /\ entry[s].backlog # <<>> /\ ~shutdown
  /\ slots > 0
  /\ slots' = slots - 1
  /\ worker' = [worker EXCEPT ![NextGen] = NewWorker(s, entry[s].backlog)]
  /\ entry' = [entry EXCEPT ![s] = Active(NextGen, Len(entry[s].backlog))]
  /\ UNCHANGED <<fate, notices, cooling>>

EvictBacklog(s) ==
  /\ entry[s].backlog # <<>> /\ ~shutdown
  /\ slots = 0
  /\ Notify(s, entry[s].backlog)
  /\ fate' = Dropped(fate, ToSet(entry[s].backlog), "evicted")
  /\ entry' = [entry EXCEPT ![s] = NoEntry]
  /\ UNCHANGED <<worker, slots>>

HandleExited ==
  /\ Command("exited")
  /\ LET g == Head(channel).gen  s == worker[g].scope
     IN  IF entry[s].gen = g
         THEN ForgetScope(s) \/ Succeed(s) \/ EvictBacklog(s)
         ELSE UNCHANGED <<entry, worker, slots, cooling, notices, fate>>
  /\ UNCHANGED <<panics, shutdown, stopped>>

Actor == HandleEnqueue \/ HandleIdleExpired \/ HandleDequeued \/ HandleExited

-----------------------------------------------------------------------------
(* A worker.  Its task ends at "ended"; its slot is then released, and its  *)
(* exit reported.                                                           *)

Receive(g) ==
  /\ worker[g].stage = "receive"
  /\ worker[g].rx # <<>>
  /\ worker' = [worker EXCEPT ![g].stage = "took", ![g].hand = Head(worker[g].rx),
                              ![g].rx = Tail(@)]
  /\ UNCHANGED <<entry, channel, slots, cooling, notices, fate, panics, shutdown, stopped>>

IdleTimeout(g) ==
  /\ worker[g].stage = "receive"
  /\ worker[g].rx = <<>>
  /\ worker' = [worker EXCEPT ![g].stage = "expired"]
  /\ UNCHANGED <<entry, channel, slots, cooling, notices, fate, panics, shutdown, stopped>>

AskToRetire(g) ==
  /\ worker[g].stage = "expired"
  /\ Room
  /\ channel' = Append(channel, IdleExpired(g))
  /\ worker' = [worker EXCEPT ![g].stage = "asking"]
  /\ UNCHANGED <<entry, slots, cooling, notices, fate, panics, shutdown, stopped>>

ReportDequeued(g) ==
  /\ worker[g].stage = "took"
  /\ Room
  /\ channel' = Append(channel, Dequeued(g))
  /\ worker' = [worker EXCEPT ![g].stage = "handling"]
  /\ UNCHANGED <<entry, slots, cooling, notices, fate, panics, shutdown, stopped>>

FinishHandling(g) ==
  /\ worker[g].stage = "handling"
  /\ worker' = [worker EXCEPT ![g].stage = "receive", ![g].hand = None]
  /\ fate' = [fate EXCEPT ![worker[g].hand] = "done"]
  /\ UNCHANGED <<entry, channel, slots, cooling, notices, panics, shutdown, stopped>>

\* The task ends with its receiver: what it holds is lost.
End(g) ==
  /\ worker' = [worker EXCEPT ![g].stage = "ended", ![g].rx = <<>>, ![g].hand = None]
  /\ fate' = Dropped(fate, ToSet(worker[g].rx) \cup ({worker[g].hand} \ {None}), "lost")
  /\ UNCHANGED <<entry, channel, slots, cooling, notices, shutdown, stopped>>

Panic(g) ==
  /\ worker[g].stage = "handling"
  /\ panics < MaxPanics
  /\ panics' = panics + 1
  /\ End(g)

\* Cancelled while it waits for a message, or while it needs an actor that is gone.
Cancelled(g) ==
  /\ \/ shutdown /\ worker[g].stage = "receive"
     \/ stopped /\ worker[g].stage \in {"expired", "asking", "took"}
  /\ End(g)
  /\ UNCHANGED panics

ReleaseSlot(g) ==
  /\ worker[g].stage = "ended"
  /\ slots' = slots + 1
  /\ worker' = [worker EXCEPT ![g].stage = "leaving"]
  /\ UNCHANGED <<entry, channel, cooling, notices, fate, panics, shutdown, stopped>>

ReportExited(g) ==
  /\ worker[g].stage = "leaving"
  /\ \/ Room /\ channel' = Append(channel, Exited(g))
     \/ stopped /\ UNCHANGED channel
  /\ worker' = [worker EXCEPT ![g].stage = "gone"]
  /\ UNCHANGED <<entry, slots, cooling, notices, fate, panics, shutdown, stopped>>

WorkerStep(g) ==
  \/ Receive(g) \/ IdleTimeout(g) \/ AskToRetire(g) \/ ReportDequeued(g)
  \/ FinishHandling(g) \/ Cancelled(g) \/ ReleaseSlot(g) \/ ReportExited(g)

-----------------------------------------------------------------------------
(* The reject worker, the cooldown, and the shutdown. *)

SendNotice ==
  /\ notices # <<>>
  /\ notices' = Tail(notices)
  /\ UNCHANGED <<entry, worker, channel, slots, cooling, fate, panics, shutdown, stopped>>

CooldownOver(s) ==
  /\ s \in cooling
  /\ cooling' = cooling \ {s}
  /\ UNCHANGED <<entry, worker, channel, slots, notices, fate, panics, shutdown, stopped>>

\* The shutdown token, and every worker's child token with it, is cancelled.
Shutdown ==
  /\ MayShutDown /\ ~shutdown
  /\ shutdown' = TRUE
  /\ UNCHANGED <<entry, worker, channel, slots, cooling, notices, fate, panics, stopped>>

\* Mutant: callers in the channel left without an answer.
StopLeavingCallers ==
  /\ shutdown /\ ~stopped
  /\ stopped' = TRUE
  /\ channel' = <<>>
  /\ notices' = <<>>
  /\ entry' = [s \in Scopes |-> NoEntry]
  /\ fate' = [m \in Messages |->
       IF m \in ToSet(entry[ScopeOf[m]].backlog) THEN "lost" ELSE fate[m]]
  /\ UNCHANGED <<worker, slots, cooling, panics, shutdown>>

\* drain_shutdown ends, with no scope left or by its timeout: the actor goes,
\* and with it the channel, its scopes and their backlogs.
Stop ==
  /\ shutdown /\ ~stopped
  /\ stopped' = TRUE
  /\ channel' = <<>>
  /\ notices' = <<>>
  /\ entry' = [s \in Scopes |-> NoEntry]
  /\ fate' = [m \in Messages |->
       IF fate[m] = "sent" THEN "unavailable"
       ELSE IF m \in ToSet(entry[ScopeOf[m]].backlog) THEN "lost" ELSE fate[m]]
  /\ UNCHANGED <<worker, slots, cooling, panics, shutdown>>

Next ==
  \/ \E m \in Messages : Send(m)
  \/ Actor
  \/ \E g \in Gens : WorkerStep(g) \/ Panic(g)
  \/ SendNotice
  \/ \E s \in Scopes : CooldownOver(s)
  \/ Shutdown
  \/ Stop

Spec == Init /\ [][Next]_vars

\* The actor handles what is sent to it, a worker task is scheduled, a handler
\* returns: its calls to the core and to the platform have timeouts of their own.
FairSpec == Spec /\ WF_vars(Actor) /\ \A g \in Gens : WF_vars(WorkerStep(g))

-----------------------------------------------------------------------------
(* Properties. *)

\* What the gateway promises of a scope's messages, in the terms of this module.
Unbegun(g) == (IF worker[g].stage = "took" THEN <<worker[g].hand>> ELSE <<>>) \o worker[g].rx
Queue(s) == IF entry[s] = NoEntry THEN <<>> ELSE Unbegun(entry[s].gen) \o entry[s].backlog
Handling(s) == {worker[g].hand : g \in {h \in Gens : worker[h].scope = s /\ worker[h].stage = "handling"}}

Mailbox == INSTANCE SerialMailbox WITH
  queue <- [s \in Scopes |-> Queue(s)],
  running <- [s \in Scopes |-> IF Handling(s) = {} THEN None ELSE CHOOSE m \in Handling(s) : TRUE],
  answer <- [m \in Messages |->
    IF fate[m] \in {"new", "sent"} THEN "none"
    ELSE IF fate[m] \in {"refused", "unavailable"} THEN "refused" ELSE "accepted"]

\* The dispatcher keeps that promise: per scope first in first out, one at a
\* time, at most once, through retirement, succession, panics and shutdown.
KeepsOrder == Mailbox!Spec

\* Without a panic or a shutdown no accepted message is lost: whatever the
\* order of an idle timeout, a message that arrives, the actor's decision and
\* the worker's exit, the message is in a queue that some worker will serve.
LossHasCause == panics = 0 /\ ~shutdown => \A m \in Messages : fate[m] # "lost"

\* queue_len, kept by the actor from messages that lag behind the worker, is
\* the number of messages the worker has not begun plus the reports still on
\* their way; so a live worker's channel has room whenever the actor sends, and
\* the worker of a retiring scope has nothing left.
Reports(g) == Cardinality({i \in DOMAIN channel : channel[i] = Dequeued(g)})
QueueLenIsExact ==
  \A s \in Scopes :
    LET e == entry[s]
    IN  /\ e # NoEntry /\ worker[e.gen].stage \in Serving =>
             e.queued = Len(Unbegun(e.gen)) + Reports(e.gen)
        /\ e.state = "retiring" => e.queued = 0
        /\ e.queued + Len(e.backlog) <= Capacity

\* What holds of the table of scopes, besides its types.
TableIsSound ==
  /\ TypeOK
  /\ QueueLenIsExact
  /\ LossHasCause

\* Every call is answered: no caller waits for ever on a full channel, a
\* retiring scope or an actor that is gone.
EveryCallReturns == \A m \in Messages : fate[m] = "sent" ~> fate[m] # "sent"

\* An accepted message is handled, or its loss has a cause: it does not stay in
\* the queue of a worker that left or in a backlog nobody takes over.
EveryMessageSettles == \A m \in Messages : fate[m] = "accepted" ~> fate[m] \in {"done", "evicted", "lost"}

=============================================================================

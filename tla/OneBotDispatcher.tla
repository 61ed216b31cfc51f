--------------------------- MODULE OneBotDispatcher ---------------------------
(***************************************************************************)
(* The conversation dispatcher of OneBot messages: the same promise as     *)
(* Dispatcher, kept without an actor.  The WebSocket loops, the workers    *)
(* and the shutdown share a map of scopes under one mutex; every action    *)
(* below is what one of them does between two points where another may     *)
(* run: a lock, an await, or the moment a token is cancelled.              *)
(***************************************************************************)
EXTENDS Integers, FiniteSets, SequencesExt

CONSTANTS
  Deliveries,    \* inbound events, the same message delivered again included
  Scopes, ScopeOf, None,
  Keys, KeyOf,   \* the dedupe key of a delivery: a set of one key, or none
  Capacity,      \* queue_capacity
  MaxScopes,     \* max_active_scopes
  MaxPanics,     \* bound on handler panics
  MaxExpiries,   \* bound on dedupe entries that expire
  MayShutDown    \* whether the run includes a shutdown

ASSUME OneBotAssumption ==
  /\ IsFiniteSet(Deliveries)
  /\ ScopeOf \in [Deliveries -> Scopes]
  /\ KeyOf \in [Deliveries -> SUBSET Keys]
  /\ {Capacity, MaxScopes} \subseteq Nat \ {0}
  /\ {MaxPanics, MaxExpiries} \subseteq Nat /\ MayShutDown \in BOOLEAN
  /\ None \notin Deliveries \cup Scopes

VARIABLES
  seen,       \* the dedupe table
  scopes,     \* the map: the generation of a scope's entry, 0 when it has none
  worker,     \* by generation: the worker task, its receiver, the message it took
  fate,       \* what became of each delivery
  accepting,
  cancelled,  \* the shutdown token, a child of the process's
  closing,    \* how far shutdown() got: no, cancel, wait, abort, done
  panics, expiries

vars == <<seen, scopes, worker, fate, accepting, cancelled, closing, panics, expiries>>

Dedupe == INSTANCE MessageDedupe WITH Owners <- Deliveries

\* Every spawn takes a message with it, so there are no more than deliveries.
Gens == 1 .. Cardinality(Deliveries)

Unborn == [stage |-> "unborn", scope |-> None, rx |-> <<>>, hand |-> None]

\* The stages in which a worker still has its receiver.
Holding == {"receive", "expired", "took", "handling", "leaving"}

TypeOK ==
  /\ Dedupe!TypeOK
  /\ scopes \in [Scopes -> {0} \cup Gens]
  /\ worker \in [Gens -> [stage : Holding \cup {"unborn", "gone"}, scope : Scopes \cup {None},
                          rx : SeqOf(Deliveries, Capacity), hand : Deliveries \cup {None}]]
  /\ fate \in [Deliveries -> {"new", "reserved", "accepted", "done", "refused", "duplicate", "lost"}]
  /\ accepting \in BOOLEAN /\ cancelled \in BOOLEAN
  /\ closing \in {"no", "cancel", "wait", "abort", "done"}
  /\ panics \in 0 .. MaxPanics
  /\ expiries \in 0 .. MaxExpiries

Init ==
  /\ Dedupe!Init
  /\ scopes = [s \in Scopes |-> 0]
  /\ worker = [g \in Gens |-> Unborn]
  /\ fate = [d \in Deliveries |-> "new"]
  /\ accepting = TRUE
  /\ cancelled = FALSE
  /\ closing = "no"
  /\ panics = 0
  /\ expiries = 0

-----------------------------------------------------------------------------
(* Helpers. *)

NextGen == 1 + Cardinality({g \in Gens : worker[g].stage # "unborn"})

Entries == {s \in Scopes : scopes[s] # 0}

\* Mutant: the entry stays.
RemoveNothing(g) == UNCHANGED scopes

\* remove_scope_generation.
RemoveGeneration(g) ==
  scopes' = [scopes EXCEPT ![worker[g].scope] = IF @ = g THEN 0 ELSE @]

\* Worker g ends with what it holds.
Ends(g) ==
  /\ worker' = [worker EXCEPT ![g].stage = "gone", ![g].rx = <<>>, ![g].hand = None]
  /\ fate' = [d \in Deliveries |->
       IF d \in ToSet(worker[g].rx) \cup {worker[g].hand} THEN "lost" ELSE fate[d]]

-----------------------------------------------------------------------------
(* enqueue, by a WebSocket loop: the reservation, then the rest under lock. *)

Reserve(d) ==
  /\ fate[d] = "new"
  /\ \/ /\ cancelled
        /\ fate' = [fate EXCEPT ![d] = "refused"]
        /\ UNCHANGED seen
     \/ /\ ~cancelled /\ Dedupe!Seen(KeyOf[d])
        /\ fate' = [fate EXCEPT ![d] = "duplicate"]
        /\ UNCHANGED seen
     \/ /\ ~cancelled
        /\ Dedupe!Reserve(d, KeyOf[d])
        /\ fate' = [fate EXCEPT ![d] = "reserved"]
  /\ UNCHANGED <<scopes, worker, accepting, cancelled, closing, panics, expiries>>

Open == accepting /\ ~cancelled

Accepted(d) ==
  /\ fate' = [fate EXCEPT ![d] = "accepted"]
  /\ Dedupe!Commit({d})

\* Mutant: the reservation outlives the refusal.
RefusedKeepingKey(d) ==
  /\ fate' = [fate EXCEPT ![d] = "refused"]
  /\ UNCHANGED <<seen, scopes, worker>>

\* An early return drops the reservation, which rolls it back.
Refused(d) ==
  /\ fate' = [fate EXCEPT ![d] = "refused"]
  /\ Dedupe!Rollback({d})
  /\ UNCHANGED <<scopes, worker>>

Room(g) == Len(worker[g].rx) < Capacity

\* try_send to the scope's worker.  Its Closed branch is left out: EntryHasReceiver.
EnqueueToWorker(d) ==
  LET g == scopes[ScopeOf[d]]
  IN  /\ g # 0
      /\ \/ /\ Room(g)
            /\ worker' = [worker EXCEPT ![g].rx = Append(@, d)]
            /\ Accepted(d)
            /\ UNCHANGED scopes
         \/ /\ ~Room(g)
            /\ Refused(d)

\* enqueue_new_scope_locked.
EnqueueNewScope(d) ==
  LET s == ScopeOf[d]
  IN  /\ scopes[s] = 0
      /\ \/ /\ Cardinality(Entries) < MaxScopes
            /\ worker' = [worker EXCEPT ![NextGen] =
                 [stage |-> "receive", scope |-> s, rx |-> <<d>>, hand |-> None]]
            /\ scopes' = [scopes EXCEPT ![s] = NextGen]
            /\ Accepted(d)
         \/ /\ Cardinality(Entries) >= MaxScopes
            /\ Refused(d)

EnqueueLocked(d) ==
  /\ fate[d] = "reserved"
  /\ \/ ~Open /\ Refused(d)
     \/ Open /\ (EnqueueToWorker(d) \/ EnqueueNewScope(d))
  /\ UNCHANGED <<accepting, cancelled, closing, panics, expiries>>

-----------------------------------------------------------------------------
(* run_scope_worker. *)

\* A message is taken even after a cancellation that came while it was polled for.
Receive(g) ==
  /\ worker[g].stage = "receive"
  /\ worker[g].rx # <<>>
  /\ worker' = [worker EXCEPT ![g].stage = "took", ![g].hand = Head(worker[g].rx), ![g].rx = Tail(@)]
  /\ UNCHANGED <<seen, scopes, fate, accepting, cancelled, closing, panics, expiries>>

IdleTimeout(g) ==
  /\ worker[g].stage = "receive"
  /\ worker[g].rx = <<>>
  /\ worker' = [worker EXCEPT ![g].stage = "expired"]
  /\ UNCHANGED <<seen, scopes, fate, accepting, cancelled, closing, panics, expiries>>

\* Mutant: the receiver not looked at again.
RetireWithoutLooking(g) ==
  /\ worker[g].stage = "expired"
  /\ Ends(g)
  /\ RemoveGeneration(g)
  /\ UNCHANGED <<seen, accepting, cancelled, closing, panics, expiries>>

\* Mutant: the scope given up, and then a message that came meanwhile taken.
RetireAndTake(g) ==
  /\ worker[g].stage = "expired"
  /\ RemoveGeneration(g)
  /\ \/ /\ worker[g].rx # <<>>
        /\ worker' = [worker EXCEPT ![g].stage = "took", ![g].hand = Head(worker[g].rx),
                                    ![g].rx = Tail(@)]
        /\ UNCHANGED fate
     \/ worker[g].rx = <<>> /\ Ends(g)
  /\ UNCHANGED <<seen, accepting, cancelled, closing, panics, expiries>>

\* Under the lock: a message that came meanwhile is taken, or the scope is given up.
RetireOrTake(g) ==
  /\ worker[g].stage = "expired"
  /\ \/ /\ worker[g].rx # <<>>
        /\ worker' = [worker EXCEPT ![g].stage = "took", ![g].hand = Head(worker[g].rx),
                                    ![g].rx = Tail(@)]
        /\ UNCHANGED <<scopes, fate>>
     \/ /\ worker[g].rx = <<>>
        /\ Ends(g)
        /\ RemoveGeneration(g)
  /\ UNCHANGED <<seen, accepting, cancelled, closing, panics, expiries>>

BeginHandling(g) ==
  /\ worker[g].stage = "took"
  /\ ~cancelled
  /\ worker' = [worker EXCEPT ![g].stage = "handling"]
  /\ UNCHANGED <<seen, scopes, fate, accepting, cancelled, closing, panics, expiries>>

FinishHandling(g) ==
  /\ worker[g].stage = "handling"
  /\ worker' = [worker EXCEPT ![g].stage = "receive", ![g].hand = None]
  /\ fate' = [fate EXCEPT ![worker[g].hand] = "done"]
  /\ UNCHANGED <<seen, scopes, accepting, cancelled, closing, panics, expiries>>

\* The loop is left, with the receiver still open: what was in hand is dropped.
LeaveLoop(g) ==
  /\ worker' = [worker EXCEPT ![g].stage = "leaving", ![g].hand = None]
  /\ fate' = [d \in Deliveries |-> IF d = worker[g].hand THEN "lost" ELSE fate[d]]
  /\ UNCHANGED <<seen, scopes, accepting, cancelled, closing, expiries>>

Panic(g) ==
  /\ worker[g].stage = "handling"
  /\ panics < MaxPanics
  /\ panics' = panics + 1
  /\ LeaveLoop(g)

Cancelled(g) ==
  /\ cancelled
  /\ worker[g].stage \in {"receive", "took", "handling"}
  /\ LeaveLoop(g)
  /\ UNCHANGED panics

Leave(g) ==
  /\ worker[g].stage = "leaving"
  /\ Ends(g)
  /\ RemoveGeneration(g)
  /\ UNCHANGED <<seen, accepting, cancelled, closing, panics, expiries>>

WorkerStep(g) ==
  \/ Receive(g) \/ IdleTimeout(g) \/ RetireOrTake(g) \/ BeginHandling(g)
  \/ FinishHandling(g) \/ Cancelled(g) \/ Leave(g)

-----------------------------------------------------------------------------
(* shutdown. *)

\* The process's token is cancelled, which cancels this one.
ParentCancelled ==
  /\ MayShutDown /\ ~cancelled
  /\ cancelled' = TRUE
  /\ UNCHANGED <<seen, scopes, worker, fate, accepting, closing, panics, expiries>>

StopAccepting ==
  /\ MayShutDown /\ closing = "no"
  /\ accepting' = FALSE
  /\ closing' = "cancel"
  /\ UNCHANGED <<seen, scopes, worker, fate, cancelled, panics, expiries>>

Cancel ==
  /\ closing = "cancel"
  /\ cancelled' = TRUE
  /\ closing' = "wait"
  /\ UNCHANGED <<seen, scopes, worker, fate, accepting, panics, expiries>>

\* The workers did not all leave in a second: those in the map are aborted.
WaitTimeout ==
  /\ closing = "wait"
  /\ closing' = "abort"
  /\ UNCHANGED <<seen, scopes, worker, fate, accepting, cancelled, panics, expiries>>

\* An abort takes effect where the worker awaits; its tail does not run.
Aborted(g) ==
  /\ closing = "abort"
  /\ worker[g].stage \in {"receive", "handling"}
  /\ scopes[worker[g].scope] = g
  /\ Ends(g)
  /\ UNCHANGED <<seen, scopes, accepting, cancelled, closing, panics, expiries>>

\* Mutant: waits for the map to empty, not for the tasks: an aborted worker,
\* whose tail does not run, never takes its entry out.
ClearOnceEmpty ==
  /\ closing \in {"wait", "abort"}
  /\ Entries = {}
  /\ closing' = "done"
  /\ UNCHANGED <<seen, scopes, worker, fate, accepting, cancelled, panics, expiries>>

\* tasks.wait() has returned: what is left in the map is cleared.
ClearScopes ==
  /\ closing \in {"wait", "abort"}
  /\ \A g \in Gens : worker[g].stage \in {"unborn", "gone"}
  /\ scopes' = [s \in Scopes |-> 0]
  /\ closing' = "done"
  /\ UNCHANGED <<seen, worker, fate, accepting, cancelled, panics, expiries>>

Shutdown == StopAccepting \/ Cancel \/ WaitTimeout \/ ClearScopes

\* The dedupe entry of a message handed on long ago.
Expire(k) ==
  /\ expiries < MaxExpiries
  /\ expiries' = expiries + 1
  /\ Dedupe!Expire(k)
  /\ UNCHANGED <<scopes, worker, fate, accepting, cancelled, closing, panics>>

Next ==
  \/ \E d \in Deliveries : Reserve(d) \/ EnqueueLocked(d)
  \/ \E g \in Gens : WorkerStep(g) \/ Panic(g) \/ Aborted(g)
  \/ ParentCancelled \/ Shutdown
  \/ \E k \in Keys : Expire(k)

Spec == Init /\ [][Next]_vars

\* A call of enqueue and a worker task run on; a handler returns, its calls to
\* the core and to the platform having timeouts; shutdown() goes on once begun.
FairSpec ==
  /\ Spec
  /\ \A d \in Deliveries : WF_vars(EnqueueLocked(d))
  /\ \A g \in Gens : WF_vars(WorkerStep(g))
  /\ WF_vars(Cancel \/ WaitTimeout \/ ClearScopes)

-----------------------------------------------------------------------------
(* Properties. *)

\* What the gateway promises of a scope's messages, in the terms of this module.
Unbegun(g) == (IF worker[g].stage = "took" THEN <<worker[g].hand>> ELSE <<>>) \o worker[g].rx
Queue(s) == IF scopes[s] = 0 THEN <<>> ELSE Unbegun(scopes[s])
Handling(s) == {worker[g].hand : g \in {h \in Gens : worker[h].scope = s /\ worker[h].stage = "handling"}}

Mailbox == INSTANCE SerialMailbox WITH
  Messages <- Deliveries,
  queue <- [s \in Scopes |-> Queue(s)],
  running <- [s \in Scopes |-> IF Handling(s) = {} THEN None ELSE CHOOSE d \in Handling(s) : TRUE],
  answer <- [d \in Deliveries |->
    IF fate[d] \in {"new", "reserved"} THEN "none"
    ELSE IF fate[d] \in {"refused", "duplicate"} THEN "refused" ELSE "accepted"]

\* The mutex keeps the promise the actor of Dispatcher keeps: per scope first in
\* first out, one at a time, at most once, whatever the order of an idle
\* timeout, an arrival, a panic, a successor and a shutdown.
KeepsOrder == Mailbox!Spec

\* A scope's entry and its worker come and go together: the entry of a scope is
\* of the one worker that may still handle its messages, and until a shutdown
\* aborts it that worker has its receiver.  So enqueue never meets a closed
\* channel: its branch for one is dead code.
EntryHasReceiver ==
  /\ \A g \in Gens : worker[g].stage \in Holding => scopes[worker[g].scope] = g
  /\ Open => \A s \in Entries : worker[scopes[s]].stage \in Holding

\* Without a panic or a cancellation no accepted message is lost.
LossHasCause == panics = 0 /\ ~cancelled => \A d \in Deliveries : fate[d] # "lost"

\* Two deliveries of one message are not both accepted, unless its key expired
\* in between; and a key is reserved only while a call of enqueue holds it, so a
\* message that was refused may be delivered again.
OnceOrAgain ==
  /\ \A d, e \in Deliveries :
       d # e /\ KeyOf[d] \cap KeyOf[e] # {} /\ {fate[d], fate[e]} \subseteq {"accepted", "done", "lost"}
         => expiries > 0
  /\ \A k \in Keys, d \in Deliveries : seen[k] = Dedupe!Reserved(d) => fate[d] = "reserved"

\* When shutdown() has returned nothing is handled any more, and nothing is
\* accepted, by a call that began before it either.
ShutdownIsFinal ==
  closing = "done" =>
    /\ Entries = {}
    /\ \A g \in Gens : worker[g].stage \in {"unborn", "gone"}
    /\ \A d \in Deliveries : fate[d] # "accepted"

\* What holds of the workers and their entries, besides their types.
WorkersAreSound ==
  /\ TypeOK
  /\ EntryHasReceiver
  /\ LossHasCause
  /\ ShutdownIsFinal

\* Every accepted message is handled, or its worker was lost.
EveryMessageSettles == \A d \in Deliveries : fate[d] = "accepted" ~> fate[d] \in {"done", "lost"}

\* shutdown() returns.
ShutdownEnds == closing = "cancel" ~> closing = "done"

=============================================================================

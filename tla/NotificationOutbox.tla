------------------------- MODULE NotificationOutbox -------------------------
(***************************************************************************)
(* The notification outbox (qq-maid-core/src/storage/notification.rs) and  *)
(* the workers that drain it (qq-maid-core/src/runtime/notification.rs).   *)
(*                                                                         *)
(* Producers write rows: a row is one notification, named by its dedupe    *)
(* key.  A worker claims a batch of due rows under a lease (locked_by,     *)
(* locked_at), pushes the parts of each row to the platform one at a time, *)
(* and writes its progress back with updates that are conditional on the   *)
(* lease.  Every statement or transaction on the database is one action;   *)
(* the push itself is a network call, so it is a step of its own and       *)
(* everything else can happen while it is in flight.                       *)
(*                                                                         *)
(* Time is relative.  wait is the number of ticks until the row is due     *)
(* (COALESCE(next_attempt_at, scheduled_at) minus now) and age the number  *)
(* of ticks since locked_at, so the clock itself needs no bound.           *)
(***************************************************************************)
EXTENDS Integers, FiniteSets

CONSTANTS
  Keys,          \* dedupe keys: one row each (the column is UNIQUE)
  Sources,       \* values of source_id
  Types,         \* values of source_type
  TypeOf,        \* the source_type a source_id is used with
  Contents,      \* target, channel, kind and payload of a row, as one value
  PartCount,     \* parts a content is pushed in; 0: the payload is invalid
  Workers,       \* worker ids: one per start of the process, never reused
  Delays,        \* scheduled_at of a request, in ticks from now
  MaxAttempts,   \* max_attempts
  RetryDelay,    \* retry_delay, in ticks
  LockTimeout,   \* lock_timeout, in ticks
  BatchLimit,    \* batch_limit
  MaxLate,       \* bound: overdue rows are told apart up to this many ticks
  MaxRequests,   \* bound: producer requests in a behaviour
  MaxFaults,     \* bound: crashes, database errors and outrun leases
  None           \* no worker, no task

\* A claimed task, as far as a worker needs it.
Task == [key : Keys, content : Contents, part : Nat]

ASSUME OutboxAssumption ==
  /\ Sources # {} /\ Contents # {}
  /\ PartCount \in [Contents -> Nat]
  /\ TypeOf \in [Sources -> Types]
  /\ Delays \subseteq Nat
  /\ MaxAttempts \in Nat \ {0}
  /\ RetryDelay \in Nat
  /\ LockTimeout \in Nat \ {0}
  /\ BatchLimit \in Nat \ {0}
  /\ MaxLate \in Nat
  /\ MaxRequests \in Nat
  /\ MaxFaults \in Nat
  /\ None \notin Workers
  /\ None \notin Task

VARIABLES
  row,       \* the table notification_outbox
  pc,        \* where each worker is in run_once / deliver
  batch,     \* claimed tasks a worker has not taken up yet (in memory)
  job,       \* the task a worker is delivering; part: the next part to push
  received,  \* history: <<key, content, part>> the platform has received
  hooked,    \* history: times after_sent ran for a row
  requests,  \* bound counter
  faults     \* bound counter

table == <<row>>
worker == <<pc, batch, job>>
vars == <<row, pc, batch, job, received, hooked, requests, faults>>

-----------------------------------------------------------------------------
Absent == "absent"       \* no row with this key
Status == {"pending", "sending", "retry", "sent", "failed", "cancelled"}
Open == {"pending", "retry", "sending", "failed"}   \* what a cancel applies to

Stage == {"idle", "next", "check", "push", "record", "finish",
          "fail", "failwrite", "hook", "dead"}

Row == [status : Status \cup {Absent}, source : Sources, content : Contents,
        wait : Int, attempts : Nat, delivered : Nat,
        lockedBy : Workers \cup {None}, age : Nat]

Request == [source : Sources, content : Contents, wait : Delays,
            reactivate : BOOLEAN]

Alive(w) == pc[w] # "dead"

\* What is left open of a key that has no row; only the status is ever read.
NoRow ==
  [status |-> Absent, source |-> CHOOSE s \in Sources : TRUE,
   content |-> CHOOSE c \in Contents : TRUE, wait |-> 0, attempts |-> 0,
   delivered |-> 0, lockedBy |-> None, age |-> 0]

\* A row as the INSERT writes it.
NewRow(req) ==
  [status |-> "pending", source |-> req.source, content |-> req.content,
   wait |-> req.wait, attempts |-> 0, delivered |-> 0,
   lockedBy |-> None, age |-> 0]

-----------------------------------------------------------------------------
(* Producers: upsert, insert_if_absent_with, cancel_by_source(_type). *)

UpsertDeliveredIgnoringContent(r, req) ==
  IF r.status \in {"pending", "retry"} THEN r.delivered ELSE 0

\* delivered_parts after an upsert that found a row.
UpsertDelivered(r, req) ==
  IF r.status \in {"pending", "retry"} /\ r.content = req.content
  THEN r.delivered
  ELSE 0

\* ON CONFLICT(dedupe_key) DO UPDATE: a sent row is not touched, a row being
\* sent keeps its snapshot and its lease, a cancelled row takes the new
\* snapshot but stays cancelled unless the producer reactivates it, and any
\* other row starts over.
UpsertRow(r, req) ==
  IF r.status \in {"sent", "sending"} THEN r
  ELSE IF r.status = "cancelled" /\ ~req.reactivate
  THEN [r EXCEPT !.source = req.source, !.content = req.content,
                 !.wait = req.wait, !.delivered = 0]
  ELSE [NewRow(req) EXCEPT !.delivered = UpsertDelivered(r, req)]

Upsert(k, req) ==
  /\ requests < MaxRequests
  /\ requests' = requests + 1
  /\ row' = [row EXCEPT ![k] = UpsertRow(@, req)]
  /\ UNCHANGED <<worker, received, hooked, faults>>

\* INSERT ... ON CONFLICT DO NOTHING and the final payload, one transaction.
\* When finalize_payload fails the transaction rolls back: nothing happens.
InsertIfAbsent(k, req) ==
  /\ requests < MaxRequests
  /\ row[k].status = Absent
  /\ requests' = requests + 1
  /\ row' = [row EXCEPT ![k] = NewRow(req)]
  /\ UNCHANGED <<worker, received, hooked, faults>>

CancelRowKeepingLease(r) ==
  IF r.status \in Open THEN [r EXCEPT !.status = "cancelled"] ELSE r

CancelRow(r) ==
  IF r.status \in Open
  THEN [r EXCEPT !.status = "cancelled", !.lockedBy = None, !.age = 0]
  ELSE r

CancelBySource(s) ==
  /\ \E k \in Keys : row[k].source = s /\ row[k].status \in Open
  /\ row' = [k \in Keys |->
               IF row[k].source = s THEN CancelRow(row[k]) ELSE row[k]]
  /\ UNCHANGED <<worker, received, hooked, requests, faults>>

CancelBySourceType(t) ==
  /\ \E k \in Keys : TypeOf[row[k].source] = t /\ row[k].status \in Open
  /\ row' = [k \in Keys |->
               IF TypeOf[row[k].source] = t THEN CancelRow(row[k]) ELSE row[k]]
  /\ UNCHANGED <<worker, received, hooked, requests, faults>>

-----------------------------------------------------------------------------
(* A worker's round: run_once. *)

StaleNever(r) == FALSE

\* A lease older than lock_timeout: its holder is taken to be gone.
Stale(r) == r.status = "sending" /\ r.lockedBy # None /\ r.age >= LockTimeout

Due(r) == (r.status \in {"pending", "retry"} /\ r.wait <= 0) \/ Stale(r)

DueKeys == {k \in Keys : Due(row[k])}

\* ORDER BY COALESCE(next_attempt_at, scheduled_at) LIMIT batch_limit.
IsBatch(S) ==
  /\ S # {}
  /\ S \subseteq DueKeys
  /\ Cardinality(S) <= BatchLimit
  /\ S = DueKeys \/ Cardinality(S) = BatchLimit
  /\ \A k \in S : \A q \in DueKeys \ S : row[k].wait <= row[q].wait

ClaimedRow(r, w) ==
  [r EXCEPT !.status = "sending", !.attempts = @ + 1,
            !.lockedBy = w, !.age = 0]

ClaimDue(w) ==
  /\ pc[w] = "idle"
  /\ \E S \in SUBSET Keys :
       /\ IsBatch(S)
       /\ row' = [k \in Keys |->
                    IF k \in S THEN ClaimedRow(row[k], w) ELSE row[k]]
       /\ batch' = [batch EXCEPT ![w] =
            {[key |-> k, content |-> row[k].content, part |-> row[k].delivered]
               : k \in S}]
  /\ pc' = [pc EXCEPT ![w] = "next"]
  /\ UNCHANGED <<job, received, hooked, requests, faults>>

\* Where the delivery of a task goes on: an invalid payload, or a progress
\* beyond its parts, fails the task; with no part left it is finished.
StageOf(t) ==
  IF PartCount[t.content] = 0 \/ t.part > PartCount[t.content] THEN "fail"
  ELSE IF t.part = PartCount[t.content] THEN "finish" ELSE "check"

NextTaskTakingOne(w) ==
  /\ pc[w] = "next"
  /\ \E t \in batch[w] :
       /\ batch' = [batch EXCEPT ![w] = {}]
       /\ job' = [job EXCEPT ![w] = t]
       /\ pc' = [pc EXCEPT ![w] = StageOf(t)]
  /\ UNCHANGED <<row, received, hooked, requests, faults>>

\* for task in tasks: take the next one, or end the round.  (The tasks of a
\* batch are taken in any order: the code's order is one of them.)
NextTask(w) ==
  /\ pc[w] = "next"
  /\ \/ \E t \in batch[w] :
          /\ batch' = [batch EXCEPT ![w] = @ \ {t}]
          /\ job' = [job EXCEPT ![w] = t]
          /\ pc' = [pc EXCEPT ![w] = StageOf(t)]
     \/ /\ batch[w] = {}
        /\ pc' = [pc EXCEPT ![w] = "idle"]
        /\ UNCHANGED <<batch, job>>
  /\ UNCHANGED <<row, received, hooked, requests, faults>>

\* The lease and the progress a conditional update of worker w asks for.
Holds(w, t) ==
  /\ row[t.key].status = "sending"
  /\ row[t.key].lockedBy = w

HoldsAt(w, t) == Holds(w, t) /\ row[t.key].delivered = t.part

\* The worker is through with its task and turns to the next one.
Drop(w) ==
  /\ pc' = [pc EXCEPT ![w] = "next"]
  /\ job' = [job EXCEPT ![w] = None]

CheckNothing(w) ==
  /\ pc[w] = "check"
  /\ pc' = [pc EXCEPT ![w] = "push"]
  /\ UNCHANGED <<row, batch, job, received, hooked, requests, faults>>

\* delivery_state: the lease is read again before each part.
CheckLease(w) ==
  /\ pc[w] = "check"
  /\ \/ /\ HoldsAt(w, job[w])
        /\ pc' = [pc EXCEPT ![w] = "push"]
        /\ UNCHANGED job
     \/ /\ ~HoldsAt(w, job[w])       \* Cancelled or LeaseLost
        /\ Drop(w)
  /\ UNCHANGED <<row, batch, received, hooked, requests, faults>>

\* push_sink.push(..).await: the platform takes the part and the call
\* succeeds, takes it and the call still fails, or does not take it.
Push(w) ==
  LET t == job[w] IN
  /\ pc[w] = "push"
  /\ \/ /\ received' = received \cup {<<t.key, t.content, t.part>>}
        /\ pc' = [pc EXCEPT ![w] = "record"]
     \/ /\ received' = received \cup {<<t.key, t.content, t.part>>}
        /\ pc' = [pc EXCEPT ![w] = "fail"]
     \/ /\ UNCHANGED received
        /\ pc' = [pc EXCEPT ![w] = "fail"]
  /\ UNCHANGED <<row, batch, job, hooked, requests, faults>>

\* mark_part_delivered, then the next part, or mark_sent after the last one.
MarkPartDelivered(w) ==
  LET t == job[w]
      next == [t EXCEPT !.part = @ + 1] IN
  /\ pc[w] = "record"
  /\ \/ /\ HoldsAt(w, t)
        /\ row' = [row EXCEPT ![t.key].delivered = @ + 1, ![t.key].age = 0]
        /\ job' = [job EXCEPT ![w] = next]
        /\ pc' = [pc EXCEPT ![w] = StageOf(next)]
     \/ /\ ~HoldsAt(w, t)
        /\ Drop(w)
        /\ UNCHANGED row
  /\ UNCHANGED <<batch, received, hooked, requests, faults>>

SentRow(r) == [r EXCEPT !.status = "sent", !.lockedBy = None, !.age = 0]

MarkSentUnfenced(w) ==
  LET t == job[w] IN
  /\ pc[w] = "finish"
  /\ row' = [row EXCEPT ![t.key] = SentRow(@)]
  /\ pc' = [pc EXCEPT ![w] = "hook"]
  /\ UNCHANGED <<batch, job, received, hooked, requests, faults>>

\* mark_sent: a lost lease means that the hook is not this worker's to run.
MarkSent(w) ==
  LET t == job[w] IN
  /\ pc[w] = "finish"
  /\ \/ /\ HoldsAt(w, t)
        /\ row' = [row EXCEPT ![t.key] = SentRow(@)]
        /\ pc' = [pc EXCEPT ![w] = "hook"]
        /\ UNCHANGED job
     \/ /\ ~HoldsAt(w, t)
        /\ Drop(w)
        /\ UNCHANGED row
  /\ UNCHANGED <<batch, received, hooked, requests, faults>>

AfterSent(w) ==
  /\ pc[w] = "hook"
  /\ hooked' = [hooked EXCEPT ![job[w].key] = @ + 1]
  /\ Drop(w)
  /\ UNCHANGED <<row, batch, received, requests, faults>>

\* mark_failed, first statement: SELECT attempts, max_attempts under the lease.
ReadAttempts(w) ==
  /\ pc[w] = "fail"
  /\ \/ /\ Holds(w, job[w])
        /\ pc' = [pc EXCEPT ![w] = "failwrite"]
        /\ UNCHANGED job
     \/ /\ ~Holds(w, job[w])
        /\ Drop(w)
  /\ UNCHANGED <<row, batch, received, hooked, requests, faults>>

FailedRow(r) ==
  IF r.attempts >= MaxAttempts
  THEN [r EXCEPT !.status = "failed", !.lockedBy = None, !.age = 0]
  ELSE [r EXCEPT !.status = "retry", !.wait = RetryDelay,
                 !.lockedBy = None, !.age = 0]

\* mark_failed, second statement: the UPDATE asks for the lease again.  The
\* attempts it decides on were read by the first statement; they are those
\* of the row, since only a claim changes them and only w itself could claim
\* the row in its own name.
MarkFailed(w) ==
  LET t == job[w] IN
  /\ pc[w] = "failwrite"
  /\ row' = IF Holds(w, t) THEN [row EXCEPT ![t.key] = FailedRow(@)] ELSE row
  /\ Drop(w)
  /\ UNCHANGED <<batch, received, hooked, requests, faults>>

-----------------------------------------------------------------------------
(* Faults and time. *)

Fault == faults < MaxFaults /\ faults' = faults + 1

\* A database error while checking or recording fails the task
\* (DeliveryError::Progress); one while finishing or failing it ends run_once,
\* and the tasks left in the batch stay "sending" until their lease is stale.
DatabaseError(w) ==
  /\ Fault
  /\ \/ /\ pc[w] \in {"check", "record"}
        /\ pc' = [pc EXCEPT ![w] = "fail"]
        /\ UNCHANGED <<batch, job>>
     \/ /\ pc[w] \in {"finish", "fail", "failwrite"}
        /\ pc' = [pc EXCEPT ![w] = "idle"]
        /\ batch' = [batch EXCEPT ![w] = {}]
        /\ job' = [job EXCEPT ![w] = None]
  /\ UNCHANGED <<row, received, hooked, requests>>

\* The process stops; its batch was in memory only.  Another start has another
\* worker id, so some worker is always left (bound: the last one survives).
Crash(w) ==
  /\ Fault
  /\ Alive(w)
  /\ \E v \in Workers \ {w} : Alive(v)
  /\ pc' = [pc EXCEPT ![w] = "dead"]
  /\ batch' = [batch EXCEPT ![w] = {}]
  /\ job' = [job EXCEPT ![w] = None]
  /\ UNCHANGED <<row, received, hooked, requests>>

TickRow(r) ==
  IF r.status \notin {"pending", "retry", "sending"} THEN r ELSE
  [r EXCEPT !.wait = IF @ > -MaxLate THEN @ - 1 ELSE @,
            !.age = IF r.status = "sending" /\ @ < LockTimeout THEN @ + 1
                    ELSE @]

\* Worker w still has the row to deliver.
InHand(w, k) ==
  \/ \E t \in batch[w] : t.key = k
  \/ job[w] # None /\ job[w].key = k

\* The clock makes the lease of a row stale under the worker that is busy
\* with it: a slow push, or a long batch.
OutrunsLease ==
  \E k \in Keys : \E w \in Workers :
    /\ row[k].status = "sending"
    /\ row[k].lockedBy = w
    /\ row[k].age = LockTimeout - 1
    /\ Alive(w)
    /\ InHand(w, k)

Tick ==
  /\ row' = [k \in Keys |-> TickRow(row[k])]
  /\ \/ OutrunsLease /\ Fault
     \/ ~OutrunsLease /\ UNCHANGED faults
  /\ UNCHANGED <<worker, received, hooked, requests>>

-----------------------------------------------------------------------------
Init ==
  /\ row = [k \in Keys |-> NoRow]
  /\ pc = [w \in Workers |-> "idle"]
  /\ batch = [w \in Workers |-> {}]
  /\ job = [w \in Workers |-> None]
  /\ received = {}
  /\ hooked = [k \in Keys |-> 0]
  /\ requests = 0
  /\ faults = 0

Produce ==
  \/ \E k \in Keys, req \in Request : Upsert(k, req)
  \/ \E k \in Keys, req \in Request : InsertIfAbsent(k, req)
  \/ \E s \in Sources : CancelBySource(s)
  \/ \E t \in Types : CancelBySourceType(t)

\* What a worker does when nothing goes wrong with it.
Work(w) ==
  \/ ClaimDue(w)
  \/ NextTask(w)
  \/ CheckLease(w)
  \/ Push(w)
  \/ MarkPartDelivered(w)
  \/ MarkSent(w)
  \/ AfterSent(w)
  \/ ReadAttempts(w)
  \/ MarkFailed(w)

Next ==
  \/ Produce
  \/ \E w \in Workers : Work(w)
  \/ \E w \in Workers : DatabaseError(w)
  \/ \E w \in Workers : Crash(w)
  \/ Tick

Spec == Init /\ [][Next]_vars

\* The worker task loops for ever (run_loop), a push ends (the HTTP clients
\* time out), and time passes.
Fairness ==
  /\ \A w \in Workers : WF_vars(Work(w))
  /\ WF_vars(Tick)

FairSpec == Spec /\ Fairness

-----------------------------------------------------------------------------
(* Properties. *)

\* Every variable has its type, and the lease belongs to the status: a row in
\* "sending" always names the worker that claim_due gave it to, so it can be
\* taken over when that worker is gone, and no other row names one.
TypeOK ==
  /\ row \in [Keys -> Row]
  /\ pc \in [Workers -> Stage]
  /\ batch \in [Workers -> SUBSET Task]
  /\ job \in [Workers -> Task \cup {None}]
  /\ received \subseteq Keys \X Contents \X Nat
  /\ hooked \in [Keys -> Nat]
  /\ requests \in Nat /\ faults \in Nat
  /\ \A k \in Keys : row[k].status = "sending" <=> row[k].lockedBy # None

\* Parts 0 .. n-1 of content c have reached the platform under key k.
Reached(k, c, n) == \A p \in 0 .. (n - 1) : <<k, c, p>> \in received

\* delivered_parts counts parts of the payload the row has NOW: the platform
\* has received them all, whatever snapshots, retries and lease changes the row
\* went through.  And a row marked sent has no part left out: mark_sent asks
\* for the progress of the delivery that is finished, not of an older one.
SentMeansReceived ==
  \A k \in Keys :
    LET r == row[k] IN
    r.status # Absent =>
      /\ Reached(k, r.content, r.delivered)
      /\ r.status = "sent" => /\ PartCount[r.content] > 0
                              /\ r.delivered = PartCount[r.content]

\* The sent hook (a recurring reminder is advanced by it) runs at most once for
\* a row and only when the row is sent, even when two workers finish the same
\* row or one of them crashes: only the one whose mark_sent took effect runs it.
HookOnce ==
  \A k \in Keys : hooked[k] <= 1 /\ (hooked[k] = 1 => row[k].status = "sent")

\* What a worker starts to push is what the row says: the snapshot it took at
\* the claim, its key, its content and the part, is that of a row leased to it.
\* Neither an upsert nor another worker can change a row under a lease.
PushesTheRow ==
  [][\A w \in Workers :
       pc[w] = "check" /\ pc'[w] = "push" =>
         LET r == row[job[w].key] IN
         /\ r.status = "sending" /\ r.lockedBy = w
         /\ r.content = job[w].content
         /\ r.delivered = job[w].part
         /\ Reached(job[w].key, r.content, job[w].part)]_vars

\* A sent row is history: no upsert reopens it, no cancel touches it, and no
\* late worker writes to it.
SentIsFinal ==
  [][\A k \in Keys : row[k].status = "sent" => row'[k] = row[k]]_vars

\* A delivery that keeps failing is given up at max_attempts: beyond it a row
\* is claimed only to take over a stale lease, so once per fault at most.
AttemptsBounded ==
  \A k \in Keys :
    /\ row[k].attempts <= MaxAttempts + faults
    /\ row[k].status = "retry" => row[k].attempts < MaxAttempts
    /\ row[k].status = "failed" => row[k].attempts >= MaxAttempts

\* A row that nothing has gone wrong with is in the hands of its lease holder:
\* with no crash, no database error and no outrun lease, no row waits for a
\* lock_timeout, so no early return of deliver or run_once forgets a task.
LeaseInHand ==
  faults = 0 => \A k \in Keys : row[k].status = "sending" => InHand(row[k].lockedBy, k)

\* What holds of leases and attempts while a row is worked on.
LeasesAreSound == AttemptsBounded /\ LeaseInHand

\* Every accepted notification comes to an end: it is sent, given up, or
\* cancelled, in spite of crashes and push failures.
Settled(k) == row[k].status \notin {"pending", "retry", "sending"}

EveryRowSettles == \A k \in Keys : []<>Settled(k)

\* The outbox keeps its promise: seen through the phase of each row, its
\* payload, what the platform received and which hooks ran, every step of
\* producers, workers, faults and the clock is one the promise allows.
Phase(r) ==
  CASE r.status = Absent -> "none"
    [] r.status \in {"pending", "retry", "sending"} -> "queued"
    [] OTHER -> r.status

Promise == INSTANCE NotificationPromise WITH
  phase <- [k \in Keys |-> Phase(row[k])],
  offer <- [k \in Keys |-> row[k].content],
  got   <- received,
  ran   <- {k \in Keys : hooked[k] > 0}

KeepsPromise == Promise!Spec
=============================================================================

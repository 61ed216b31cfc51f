----------------------- MODULE NotificationOutboxProofs ----------------------
(***************************************************************************)
(* Proofs about NotificationOutbox, for any number of keys, workers,       *)
(* payloads and faults.                                                    *)
(***************************************************************************)
EXTENDS NotificationOutbox, TLAPS

-----------------------------------------------------------------------------
(* The inductive invariant. *)

Busy == {"check", "push", "record", "finish", "fail", "failwrite", "hook"}

\* The tasks a worker has in memory, the one it is delivering included.
Hand(w) == batch[w] \cup {t \in {job[w]} : t # None}

\* A worker has at most one task for a key.
HandAt(w) ==
  /\ pc[w] \in Busy <=> job[w] # None
  /\ pc[w] \in {"idle", "dead"} => batch[w] = {}
  /\ \A t, u \in batch[w] : t.key = u.key => t = u
  /\ job[w] # None => \A t \in batch[w] : t.key # job[w].key

HandOK == \A w \in Workers : HandAt(w)

\* The snapshot of a task is that of its row as long as the lease is held.
SnapshotOK ==
  \A w \in Workers : \A t \in Hand(w) :
    Holds(w, t) => /\ row[t.key].content = t.content
                   /\ row[t.key].delivered = t.part

\* What a worker knows at each stage of a delivery.
StageAt(w) ==
  /\ pc[w] \in {"check", "push", "record"} => job[w].part < PartCount[job[w].content]
  /\ pc[w] = "record" => <<job[w].key, job[w].content, job[w].part>> \in received
  /\ pc[w] = "finish" => /\ PartCount[job[w].content] > 0
                         /\ job[w].part = PartCount[job[w].content]
  /\ pc[w] = "hook" => /\ row[job[w].key].status = "sent"
                       /\ hooked[job[w].key] = 0

StageOK == \A w \in Workers : StageAt(w)

\* Only one worker is about to run the hook of a row.
HookAlone ==
  \A v, w \in Workers :
    pc[v] = "hook" /\ pc[w] = "hook" /\ job[v].key = job[w].key => v = w

IInv ==
  /\ TypeOK
  /\ HandOK
  /\ SnapshotOK
  /\ StageOK
  /\ HookAlone
  /\ SentMeansReceived
  /\ HookOnce

-----------------------------------------------------------------------------
(* Steps of one row. *)

\* What a step may do to a row without giving out its lease or its progress.
Quiet(r, q) ==
  /\ q \in Row
  /\ q.status = "sending" <=> q.lockedBy # None
  /\ r.status = "sent" \/ q.status = "sent" => q = r
  /\ q.status = "sending" => /\ r.status = "sending" /\ q.lockedBy = r.lockedBy
                             /\ q.content = r.content /\ q.delivered = r.delivered
  /\ q.status # Absent =>
       \/ q.delivered = 0
       \/ r.status # Absent /\ q.content = r.content /\ q.delivered = r.delivered

LeaseOK(r) == r.status = "sending" <=> r.lockedBy # None

\* The constants, in the form the leaves below use.
LEMMA ConstTypes ==
  /\ \A d \in Delays : d \in Int
  /\ \A c \in Contents : PartCount[c] \in Nat
  /\ RetryDelay \in Int /\ LockTimeout \in Nat /\ MaxLate \in Nat /\ MaxAttempts \in Nat
<1>1. Delays \subseteq Nat /\ PartCount \in [Contents -> Nat]
  BY OutboxAssumption DEF OutboxAssumption
<1>2. RetryDelay \in Nat /\ LockTimeout \in Nat /\ MaxLate \in Nat /\ MaxAttempts \in Nat
  BY OutboxAssumption DEF OutboxAssumption
<1> QED BY <1>1, <1>2

LEMMA RowTypes == NoRow \in Row /\ LeaseOK(NoRow)
  BY OutboxAssumption DEF OutboxAssumption, NoRow, Row, LeaseOK, Status, Absent

LEMMA NewRowType ==
  ASSUME NEW req \in Request
  PROVE  NewRow(req) \in Row /\ LeaseOK(NewRow(req))
  BY ConstTypes DEF NewRow, Row, Request, LeaseOK, Status

LEMMA UpsertQuiet ==
  ASSUME NEW r \in Row, LeaseOK(r), NEW req \in Request
  PROVE  Quiet(r, UpsertRow(r, req))
<1>1. CASE r.status \in {"sent", "sending"}
  BY <1>1 DEF UpsertRow, Quiet, LeaseOK, Absent
<1>2. CASE r.status = "cancelled" /\ ~req.reactivate
  <2> DEFINE q == [r EXCEPT !.source = req.source, !.content = req.content,
                            !.wait = req.wait, !.delivered = 0]
  <2>1. UpsertRow(r, req) = q
    BY <1>2 DEF UpsertRow
  <2>2. /\ q \in Row
        /\ q.status = r.status /\ q.lockedBy = r.lockedBy /\ q.delivered = 0
    BY ConstTypes DEF Row, Request
  <2> QED BY <1>2, <2>1, <2>2 DEF Quiet, LeaseOK
<1>3. CASE r.status \notin {"sent", "sending"} /\ ~(r.status = "cancelled" /\ ~req.reactivate)
  <2> DEFINE d == UpsertDelivered(r, req)
             q == [NewRow(req) EXCEPT !.delivered = d]
  <2>1. UpsertRow(r, req) = q
    BY <1>3 DEF UpsertRow
  <2>2. d \in Nat /\ (d = 0 \/ (r.status # Absent /\ r.content = req.content /\ d = r.delivered))
    BY DEF UpsertDelivered, Row, Absent
  <2>3. /\ q \in Row
        /\ q.status = "pending" /\ q.lockedBy = None /\ q.delivered = d
        /\ q.content = req.content
    BY <2>2, ConstTypes DEF NewRow, Row, Request, Status
  <2> QED BY <1>3, <2>1, <2>2, <2>3 DEF Quiet
<1> QED BY <1>1, <1>2, <1>3

LEMMA CancelQuiet ==
  ASSUME NEW r \in Row, LeaseOK(r)
  PROVE  Quiet(r, CancelRow(r))
  BY DEF Quiet, CancelRow, LeaseOK, Row, Open, Status, Absent

LEMMA TickQuiet ==
  ASSUME NEW r \in Row, LeaseOK(r)
  PROVE  Quiet(r, TickRow(r))
<1>1. CASE r.status \notin {"pending", "retry", "sending"}
  BY <1>1 DEF TickRow, Quiet, LeaseOK
<1>2. CASE r.status \in {"pending", "retry", "sending"}
  <2>1. PICK a \in Int, b \in Nat : TickRow(r) = [r EXCEPT !.wait = a, !.age = b]
    <3> DEFINE a == IF r.wait > -MaxLate THEN r.wait - 1 ELSE r.wait
               b == IF r.status = "sending" /\ r.age < LockTimeout THEN r.age + 1
                    ELSE r.age
    <3>1. TickRow(r) = [r EXCEPT !.wait = a, !.age = b]
      BY <1>2 DEF TickRow, Row
    <3>2. a \in Int /\ b \in Nat
      BY ConstTypes DEF Row
    <3> QED BY <3>1, <3>2
  <2>2. /\ TickRow(r) \in Row
        /\ TickRow(r).status = r.status /\ TickRow(r).lockedBy = r.lockedBy
        /\ TickRow(r).content = r.content /\ TickRow(r).delivered = r.delivered
    BY <2>1 DEF Row
  <2> QED BY <1>2, <2>2 DEF Quiet, LeaseOK, Absent
<1> QED BY <1>1, <1>2

LEMMA FailedQuiet ==
  ASSUME NEW r \in Row, r.status = "sending"
  PROVE  Quiet(r, FailedRow(r))
<1>1. /\ FailedRow(r) \in Row
      /\ FailedRow(r).status \in {"failed", "retry"} /\ FailedRow(r).lockedBy = None
      /\ FailedRow(r).content = r.content /\ FailedRow(r).delivered = r.delivered
  BY ConstTypes DEF FailedRow, Row, Status
<1> QED BY <1>1 DEF Quiet, Absent

LEMMA SameQuiet ==
  ASSUME NEW r \in Row, LeaseOK(r)
  PROVE  Quiet(r, r)
  BY DEF Quiet, LeaseOK

-----------------------------------------------------------------------------
(* Steps that leave every row quiet. *)

\* No row gets a lease or progress, the platform forgets nothing.
QuietStep ==
  /\ \A k \in Keys : Quiet(row[k], row'[k])
  /\ received \subseteq received'

LEMMA SameRows ==
  ASSUME TypeOK, row' = row, received \subseteq received'
  PROVE  QuietStep
<1> SUFFICES ASSUME NEW k \in Keys
             PROVE  Quiet(row[k], row[k])
  BY DEF QuietStep
<1> QED BY SameQuiet DEF TypeOK, LeaseOK

LEMMA QuietSent ==
  ASSUME SentMeansReceived, QuietStep
  PROVE  SentMeansReceived'
<1> SUFFICES ASSUME NEW k \in Keys, row'[k].status # Absent
             PROVE  /\ Reached(k, row[k].content, row[k].delivered)'
                    /\ row'[k].status = "sent" =>
                         /\ PartCount[row'[k].content] > 0
                         /\ row'[k].delivered = PartCount[row'[k].content]
  BY DEF SentMeansReceived
<1>1. Quiet(row[k], row'[k]) /\ received \subseteq received'
  BY DEF QuietStep
<1>2. CASE row'[k].delivered = 0
  <2>1. Reached(k, row[k].content, row[k].delivered)'
    BY <1>2 DEF Reached
  <2> QED BY <2>1, <1>1 DEF Quiet, SentMeansReceived
<1>3. CASE /\ row[k].status # Absent
           /\ row'[k].content = row[k].content
           /\ row'[k].delivered = row[k].delivered
  <2>1. Reached(k, row[k].content, row[k].delivered)
    BY <1>3 DEF SentMeansReceived
  <2>2. Reached(k, row[k].content, row[k].delivered)'
    BY <2>1, <1>1, <1>3 DEF Reached
  <2> QED BY <2>2, <1>1, <1>3 DEF Quiet, SentMeansReceived
<1> QED BY <1>1, <1>2, <1>3 DEF Quiet

LEMMA QuietHook ==
  ASSUME HookOnce, QuietStep, hooked' = hooked
  PROVE  HookOnce'
  BY DEF HookOnce, QuietStep, Quiet

LEMMA HandTasks ==
  ASSUME TypeOK, NEW w \in Workers
  PROVE  Hand(w) \subseteq Task
  BY DEF TypeOK, Hand

LEMMA QuietSnapshot ==
  ASSUME TypeOK, SnapshotOK, QuietStep,
         \A w \in Workers : Hand(w)' \subseteq Hand(w)
  PROVE  SnapshotOK'
<1> SUFFICES ASSUME NEW w \in Workers, NEW t \in Hand(w)', Holds(w, t)'
             PROVE  row'[t.key].content = t.content /\ row'[t.key].delivered = t.part
  BY DEF SnapshotOK
<1>1. t \in Hand(w) /\ t.key \in Keys
  BY HandTasks DEF Task
<1>2. Quiet(row[t.key], row'[t.key])
  BY <1>1 DEF QuietStep
<1>3. Holds(w, t)
  BY <1>2 DEF Holds, Quiet
<1> QED BY <1>1, <1>2, <1>3 DEF SnapshotOK, Holds, Quiet

\* Steps of the producers and of the clock.
LEMMA IdleStep ==
  ASSUME IInv, TypeOK', QuietStep, UNCHANGED <<worker, hooked>>
  PROVE  IInv'
<1>1. HandOK' /\ HookAlone'
  BY DEF IInv, HandOK, HandAt, HookAlone, worker
<1>2. SnapshotOK'
  BY QuietSnapshot DEF IInv, Hand, worker
<1>3. StageOK'
  <2> SUFFICES ASSUME NEW w \in Workers PROVE StageAt(w)'
    BY DEF StageOK
  <2>1. StageAt(w) /\ HandAt(w) /\ job[w] \in Task \cup {None}
    BY DEF IInv, StageOK, HandOK, TypeOK
  <2>2. pc[w] = "hook" => Quiet(row[job[w].key], row'[job[w].key])
    BY <2>1 DEF HandAt, Busy, Task, QuietStep
  <2> QED BY <2>1, <2>2 DEF StageAt, worker, QuietStep, Quiet
<1> QED BY <1>1, <1>2, <1>3, QuietSent, QuietHook DEF IInv

\* Steps of one worker, other than those that claim, record progress, finish
\* or run the hook.
LEMMA WorkerStep ==
  ASSUME IInv, TypeOK', QuietStep, hooked' = hooked,
         NEW w \in Workers,
         \A v \in Workers \ {w} : /\ pc'[v] = pc[v] /\ job'[v] = job[v]
                                  /\ batch'[v] = batch[v],
         HandAt(w)', StageAt(w)', Hand(w)' \subseteq Hand(w), pc'[w] # "hook"
  PROVE  IInv'
<1>1. HandOK' /\ HookAlone'
  BY DEF IInv, HandOK, HandAt, HookAlone
<1>2. SnapshotOK'
  <2>1. \A v \in Workers : Hand(v)' \subseteq Hand(v)
    BY DEF Hand
  <2> QED BY <2>1, QuietSnapshot DEF IInv
<1>3. StageOK'
  <2> SUFFICES ASSUME NEW v \in Workers, v # w PROVE StageAt(v)'
    BY DEF StageOK
  <2>1. StageAt(v) /\ HandAt(v) /\ job[v] \in Task \cup {None}
    BY DEF IInv, StageOK, HandOK, TypeOK
  <2>2. pc[v] = "hook" => Quiet(row[job[v].key], row'[job[v].key])
    BY <2>1 DEF HandAt, Busy, Task, QuietStep
  <2> QED BY <2>1, <2>2 DEF StageAt, QuietStep, Quiet
<1> QED BY <1>1, <1>2, <1>3, QuietSent, QuietHook DEF IInv

-----------------------------------------------------------------------------
(* The actions. *)

LEMMA ProduceStep ==
  ASSUME IInv, Produce
  PROVE  IInv'
<1>1. TypeOK BY DEF IInv
<1>2. \A k \in Keys : row[k] \in Row /\ LeaseOK(row[k])
  BY <1>1 DEF TypeOK, LeaseOK
<1> SUFFICES /\ row' \in [Keys -> Row]
             /\ \A k \in Keys : Quiet(row[k], row'[k])
             /\ requests' \in Nat
             /\ UNCHANGED <<worker, received, hooked, faults>>
  <2>1. \A k \in Keys : row'[k].status = "sending" <=> row'[k].lockedBy # None
    BY DEF Quiet
  <2>2. TypeOK'
    BY <1>1, <2>1 DEF TypeOK, worker
  <2> QED BY <2>2, IdleStep DEF QuietStep
<1>3. CASE \E k \in Keys, req \in Request : Upsert(k, req)
  <2>1. PICK k \in Keys, req \in Request : Upsert(k, req)
    BY <1>3
  <2>2. row' = [row EXCEPT ![k] = UpsertRow(row[k], req)]
    BY <2>1 DEF Upsert
  <2>3. \A q \in Keys : Quiet(row[q], row'[q])
    BY <1>1, <1>2, <2>2, UpsertQuiet, SameQuiet DEF TypeOK
  <2>4. row' \in [Keys -> Row]
    BY <1>1, <1>2, <2>2, UpsertQuiet DEF TypeOK, Quiet
  <2> QED BY <1>1, <2>1, <2>3, <2>4 DEF Upsert, TypeOK
<1>4. CASE \E k \in Keys, req \in Request : InsertIfAbsent(k, req)
  <2>1. PICK k \in Keys, req \in Request : InsertIfAbsent(k, req)
    BY <1>4
  <2>2. row' = [row EXCEPT ![k] = NewRow(req)]
    BY <2>1 DEF InsertIfAbsent
  <2>3. Quiet(row[k], NewRow(req))
    BY <2>1, NewRowType DEF InsertIfAbsent, Quiet, LeaseOK, NewRow, Absent
  <2>4. \A q \in Keys : Quiet(row[q], row'[q])
    BY <1>1, <1>2, <2>2, <2>3, SameQuiet DEF TypeOK
  <2>5. row' \in [Keys -> Row]
    BY <1>1, <2>2, <2>3 DEF TypeOK, Quiet
  <2> QED BY <1>1, <2>1, <2>4, <2>5 DEF InsertIfAbsent, TypeOK
<1>5. CASE \E s \in Sources : CancelBySource(s)
  <2>1. PICK s \in Sources : CancelBySource(s)
    BY <1>5
  <2>2. \A k \in Keys : Quiet(row[k], row'[k])
    BY <1>2, <2>1, CancelQuiet, SameQuiet DEF CancelBySource
  <2>3. row' \in [Keys -> Row]
    BY <1>2, <2>1, CancelQuiet DEF CancelBySource, Quiet
  <2> QED BY <1>1, <2>1, <2>2, <2>3 DEF CancelBySource, TypeOK
<1>6. CASE \E t \in Types : CancelBySourceType(t)
  <2>1. PICK t \in Types : CancelBySourceType(t)
    BY <1>6
  <2>2. \A k \in Keys : Quiet(row[k], row'[k])
    BY <1>2, <2>1, CancelQuiet, SameQuiet DEF CancelBySourceType
  <2>3. row' \in [Keys -> Row]
    BY <1>2, <2>1, CancelQuiet DEF CancelBySourceType, Quiet
  <2> QED BY <1>1, <2>1, <2>2, <2>3 DEF CancelBySourceType, TypeOK
<1> QED BY <1>3, <1>4, <1>5, <1>6 DEF Produce

LEMMA TickStep ==
  ASSUME IInv, Tick
  PROVE  IInv'
<1>1. TypeOK BY DEF IInv
<1>2. \A k \in Keys : Quiet(row[k], row'[k])
  BY <1>1, TickQuiet DEF Tick, TypeOK, LeaseOK
<1>3. row' \in [Keys -> Row]
  BY <1>1, TickQuiet DEF Tick, TypeOK, LeaseOK, Quiet
<1>4. \A k \in Keys : row'[k].status = "sending" <=> row'[k].lockedBy # None
  BY <1>2 DEF Quiet
<1>5. faults' \in Nat
  BY <1>1 DEF Tick, Fault, TypeOK
<1>6. TypeOK'
  BY <1>1, <1>3, <1>4, <1>5 DEF TypeOK, Tick, worker
<1> QED BY <1>2, <1>6, IdleStep DEF Tick, QuietStep

LEMMA StageOfFacts ==
  ASSUME NEW t \in Task
  PROVE  /\ StageOf(t) \in {"fail", "finish", "check"}
         /\ StageOf(t) = "check" => t.part < PartCount[t.content]
         /\ StageOf(t) = "finish" => /\ PartCount[t.content] > 0
                                     /\ t.part = PartCount[t.content]
<1>1. t.part \in Nat /\ PartCount[t.content] \in Nat
  BY ConstTypes DEF Task
<1> QED BY <1>1 DEF StageOf

\* Only worker w moves and the table stays as it is.
LEMMA LocalStep ==
  ASSUME IInv, NEW w \in Workers, NEW p \in Stage, NEW b \in SUBSET Task,
         NEW j \in Task \cup {None},
         row' = row, received \subseteq received', hooked' = hooked, requests' = requests,
         received' \subseteq Keys \X Contents \X Nat, faults' \in Nat,
         pc' = [pc EXCEPT ![w] = p], batch' = [batch EXCEPT ![w] = b],
         job' = [job EXCEPT ![w] = j],
         HandAt(w)', StageAt(w)', Hand(w)' \subseteq Hand(w), p # "hook"
  PROVE  IInv'
<1>1. TypeOK BY DEF IInv
<1>2. TypeOK' BY <1>1 DEF TypeOK
<1>3. QuietStep BY <1>1, SameRows
<1>4. /\ pc'[w] = p
      /\ \A v \in Workers \ {w} : /\ pc'[v] = pc[v] /\ job'[v] = job[v]
                                  /\ batch'[v] = batch[v]
  BY <1>1 DEF TypeOK
<1> QED BY <1>2, <1>3, <1>4, WorkerStep

LEMMA NextTaskStep ==
  ASSUME IInv, NEW w \in Workers, NextTask(w)
  PROVE  IInv'
<1>1. TypeOK /\ HandAt(w) BY DEF IInv, HandOK
<1>2. job[w] = None /\ batch[w] \in SUBSET Task
  BY <1>1 DEF NextTask, HandAt, Busy, TypeOK
<1>3. CASE /\ batch[w] = {} /\ pc' = [pc EXCEPT ![w] = "idle"]
           /\ UNCHANGED <<batch, job>>
  <2>1. pc'[w] = "idle" /\ batch'[w] = {} /\ job'[w] = None
    BY <1>1, <1>2, <1>3 DEF TypeOK
  <2>2. HandAt(w)' /\ StageAt(w)' /\ Hand(w)' \subseteq Hand(w)
    BY <2>1 DEF HandAt, StageAt, Busy, Hand
  <2>3. batch' = [batch EXCEPT ![w] = {}] /\ job' = [job EXCEPT ![w] = None]
    BY <1>1, <1>2, <1>3 DEF TypeOK
  <2> QED BY <1>1, <1>3, <2>2, <2>3, LocalStep DEF NextTask, TypeOK, Stage
<1>4. CASE \E t \in batch[w] : /\ batch' = [batch EXCEPT ![w] = @ \ {t}]
                               /\ job' = [job EXCEPT ![w] = t]
                               /\ pc' = [pc EXCEPT ![w] = StageOf(t)]
  <2>1. PICK t \in batch[w] : /\ batch' = [batch EXCEPT ![w] = @ \ {t}]
                              /\ job' = [job EXCEPT ![w] = t]
                              /\ pc' = [pc EXCEPT ![w] = StageOf(t)]
    BY <1>4
  <2>2. t \in Task /\ t # None
    BY <1>2, OutboxAssumption DEF OutboxAssumption
  <2>3. pc'[w] = StageOf(t) /\ batch'[w] = batch[w] \ {t} /\ job'[w] = t
    BY <1>1, <2>1 DEF TypeOK
  <2>4. HandAt(w)'
    BY <1>1, <2>2, <2>3, StageOfFacts DEF HandAt, Busy
  <2>5. StageAt(w)'
    BY <2>2, <2>3, StageOfFacts DEF StageAt
  <2>6. Hand(w)' \subseteq Hand(w)
    BY <2>3 DEF Hand
  <2>7. StageOf(t) \in Stage /\ StageOf(t) # "hook"
    BY <2>2, StageOfFacts DEF Stage
  <2> QED BY <1>1, <1>2, <2>1, <2>2, <2>4, <2>5, <2>6, <2>7, LocalStep
         DEF NextTask, TypeOK
<1> QED BY <1>3, <1>4 DEF NextTask

\* The worker keeps its task and goes to a stage that asks for nothing new.
LEMMA StageStep ==
  ASSUME IInv, NEW w \in Workers, NEW p \in Busy \ {"hook"},
         pc[w] \in Busy, pc' = [pc EXCEPT ![w] = p],
         row' = row, received \subseteq received', hooked' = hooked, requests' = requests,
         received' \subseteq Keys \X Contents \X Nat, faults' \in Nat,
         UNCHANGED <<batch, job>>,
         StageAt(w)'
  PROVE  IInv'
<1>1. TypeOK /\ HandAt(w) BY DEF IInv, HandOK
<1>2. /\ pc'[w] = p /\ p \in Stage
      /\ batch' = [batch EXCEPT ![w] = batch[w]]
      /\ job' = [job EXCEPT ![w] = job[w]]
  BY <1>1 DEF TypeOK, Busy, Stage
<1>3. HandAt(w)' /\ Hand(w)' \subseteq Hand(w)
  BY <1>1, <1>2 DEF HandAt, Hand, Busy
<1> QED BY <1>1, <1>2, <1>3, LocalStep DEF TypeOK

\* The worker drops its task; the table stays as it is.
LEMMA DropStep ==
  ASSUME IInv, NEW w \in Workers, pc[w] \in Busy, Drop(w),
         UNCHANGED <<row, batch, received, hooked, requests, faults>>
  PROVE  IInv'
<1>1. TypeOK /\ HandAt(w) BY DEF IInv, HandOK
<1>2. /\ pc'[w] = "next" /\ job'[w] = None /\ batch'[w] = batch[w]
      /\ batch' = [batch EXCEPT ![w] = batch[w]]
  BY <1>1 DEF TypeOK, Drop
<1>3. HandAt(w)' /\ StageAt(w)' /\ Hand(w)' \subseteq Hand(w)
  BY <1>1, <1>2 DEF HandAt, StageAt, Hand, Busy
<1> QED BY <1>1, <1>2, <1>3, LocalStep DEF TypeOK, Drop, Stage

LEMMA CheckLeaseStep ==
  ASSUME IInv, NEW w \in Workers, CheckLease(w)
  PROVE  IInv'
<1>1. TypeOK /\ StageAt(w) /\ pc[w] = "check"
  BY DEF IInv, StageOK, CheckLease
<1>2. CASE pc' = [pc EXCEPT ![w] = "push"] /\ UNCHANGED job
  <2>1. StageAt(w)'
    BY <1>1, <1>2 DEF StageAt, TypeOK
  <2> QED BY <1>1, <1>2, <2>1, StageStep DEF CheckLease, Busy, TypeOK
<1>3. CASE Drop(w)
  BY <1>1, <1>3, DropStep DEF CheckLease, Busy
<1> QED BY <1>2, <1>3 DEF CheckLease

LEMMA PushStep ==
  ASSUME IInv, NEW w \in Workers, Push(w)
  PROVE  IInv'
<1> DEFINE t == job[w]
<1>1. TypeOK /\ HandAt(w) /\ StageAt(w) /\ pc[w] = "push"
  BY DEF IInv, HandOK, StageOK, Push
<1>2. t \in Task
  BY <1>1 DEF TypeOK, HandAt, Busy
<1>3. /\ received \subseteq received'
      /\ received' \subseteq Keys \X Contents \X Nat
  BY <1>1, <1>2 DEF Push, TypeOK, Task
<1>4. CASE /\ received' = received \cup {<<t.key, t.content, t.part>>}
           /\ pc' = [pc EXCEPT ![w] = "record"]
  <2>1. StageAt(w)'
    BY <1>1, <1>4 DEF StageAt, TypeOK, Push
  <2> QED BY <1>1, <1>3, <1>4, <2>1, StageStep DEF Push, Busy, TypeOK
<1>5. CASE pc' = [pc EXCEPT ![w] = "fail"]
  <2>1. StageAt(w)'
    BY <1>1, <1>5 DEF StageAt, TypeOK
  <2> QED BY <1>1, <1>3, <1>5, <2>1, StageStep DEF Push, Busy, TypeOK
<1> QED BY <1>4, <1>5 DEF Push

LEMMA ReadAttemptsStep ==
  ASSUME IInv, NEW w \in Workers, ReadAttempts(w)
  PROVE  IInv'
<1>1. TypeOK /\ pc[w] = "fail"
  BY DEF IInv, ReadAttempts
<1>2. CASE pc' = [pc EXCEPT ![w] = "failwrite"] /\ UNCHANGED job
  <2>1. StageAt(w)'
    BY <1>1, <1>2 DEF StageAt, TypeOK
  <2> QED BY <1>1, <1>2, <2>1, StageStep DEF ReadAttempts, Busy, TypeOK
<1>3. CASE Drop(w)
  BY <1>1, <1>3, DropStep DEF ReadAttempts, Busy
<1> QED BY <1>2, <1>3 DEF ReadAttempts

LEMMA DatabaseErrorStep ==
  ASSUME IInv, NEW w \in Workers, DatabaseError(w)
  PROVE  IInv'
<1>1. TypeOK /\ faults' \in Nat
  BY DEF IInv, TypeOK, DatabaseError, Fault
<1>2. CASE /\ pc[w] \in {"check", "record"}
           /\ pc' = [pc EXCEPT ![w] = "fail"] /\ UNCHANGED <<batch, job>>
  <2>1. StageAt(w)'
    BY <1>1, <1>2 DEF StageAt, TypeOK
  <2> QED BY <1>1, <1>2, <2>1, StageStep DEF DatabaseError, Busy, TypeOK
<1>3. CASE /\ pc' = [pc EXCEPT ![w] = "idle"]
           /\ batch' = [batch EXCEPT ![w] = {}]
           /\ job' = [job EXCEPT ![w] = None]
  <2>1. pc'[w] = "idle" /\ batch'[w] = {} /\ job'[w] = None
    BY <1>1, <1>3 DEF TypeOK
  <2>2. HandAt(w)' /\ StageAt(w)' /\ Hand(w)' \subseteq Hand(w)
    BY <2>1 DEF HandAt, StageAt, Hand, Busy
  <2> QED BY <1>1, <1>3, <2>2, LocalStep DEF DatabaseError, TypeOK, Stage
<1> QED BY <1>2, <1>3 DEF DatabaseError

LEMMA CrashStep ==
  ASSUME IInv, NEW w \in Workers, Crash(w)
  PROVE  IInv'
<1>1. TypeOK /\ faults' \in Nat
  BY DEF IInv, TypeOK, Crash, Fault
<1>2. pc'[w] = "dead" /\ batch'[w] = {} /\ job'[w] = None
  BY <1>1 DEF TypeOK, Crash
<1>3. HandAt(w)' /\ StageAt(w)' /\ Hand(w)' \subseteq Hand(w)
  BY <1>2 DEF HandAt, StageAt, Hand, Busy
<1> QED BY <1>1, <1>3, LocalStep DEF Crash, TypeOK, Stage

LEMMA AfterSentStep ==
  ASSUME IInv, NEW w \in Workers, AfterSent(w)
  PROVE  IInv'
<1> DEFINE k == job[w].key
<1>1. /\ TypeOK /\ HandAt(w) /\ StageAt(w) /\ pc[w] = "hook"
      /\ job[w] \in Task /\ k \in Keys
  BY DEF IInv, HandOK, StageOK, AfterSent, HandAt, Busy, TypeOK, Task
<1>2. row[k].status = "sent" /\ hooked[k] = 0
  BY <1>1 DEF StageAt
<1>3. /\ pc' = [pc EXCEPT ![w] = "next"] /\ job' = [job EXCEPT ![w] = None]
      /\ hooked' = [hooked EXCEPT ![k] = 1]
      /\ UNCHANGED <<row, batch, received, requests, faults>>
  BY <1>1, <1>2 DEF AfterSent, Drop, TypeOK
<1>4. TypeOK'
  BY <1>1, <1>3 DEF TypeOK, Stage
<1>5. HandOK'
  BY <1>1, <1>3 DEF IInv, HandOK, HandAt, Busy, TypeOK
<1>6. QuietStep
  BY <1>1, <1>3, SameRows
<1>7. SnapshotOK'
  <2>1. \A v \in Workers : Hand(v)' \subseteq Hand(v)
    BY <1>1, <1>3 DEF Hand, TypeOK
  <2> QED BY <1>1, <1>6, <2>1, QuietSnapshot DEF IInv
<1>8. HookAlone'
  BY <1>1, <1>3 DEF IInv, HookAlone, TypeOK
<1>9. StageOK'
  <2> SUFFICES ASSUME NEW v \in Workers PROVE StageAt(v)'
    BY DEF StageOK
  <2>1. CASE v = w
    BY <1>1, <1>3, <2>1 DEF StageAt, TypeOK
  <2>2. CASE v # w
    <3>1. pc'[v] = pc[v] /\ job'[v] = job[v] /\ StageAt(v) /\ HandAt(v)
      BY <1>1, <1>3, <2>2 DEF TypeOK, IInv, StageOK, HandOK
    <3>2. pc[v] = "hook" => job[v].key # k
      BY <1>1, <2>2 DEF IInv, HookAlone
    <3>3. pc[v] = "hook" => job[v].key \in Keys
      BY <1>1, <3>1 DEF HandAt, Busy, TypeOK, Task
    <3> QED BY <1>1, <1>3, <3>1, <3>2, <3>3 DEF StageAt, TypeOK
  <2> QED BY <2>1, <2>2
<1>10. SentMeansReceived'
  BY <1>6, QuietSent DEF IInv
<1>11. HookOnce'
  BY <1>1, <1>2, <1>3 DEF IInv, HookOnce, TypeOK
<1> QED BY <1>4, <1>5, <1>7, <1>8, <1>9, <1>10, <1>11 DEF IInv

LEMMA MarkFailedStep ==
  ASSUME IInv, NEW w \in Workers, MarkFailed(w)
  PROVE  IInv'
<1> DEFINE t == job[w]
<1>1. /\ TypeOK /\ HandAt(w) /\ pc[w] = "failwrite"
      /\ t \in Task /\ t.key \in Keys
  BY DEF IInv, HandOK, MarkFailed, HandAt, Busy, TypeOK, Task
<1>2. CASE ~Holds(w, t)
  BY <1>1, <1>2, DropStep DEF MarkFailed, Busy
<1>3. CASE Holds(w, t)
  <2>1. row' = [row EXCEPT ![t.key] = FailedRow(row[t.key])]
    BY <1>3 DEF MarkFailed
  <2>2. Quiet(row[t.key], FailedRow(row[t.key]))
    BY <1>1, <1>3, FailedQuiet DEF Holds, TypeOK
  <2>3. \A k \in Keys : Quiet(row[k], row'[k])
    BY <1>1, <2>1, <2>2, SameQuiet DEF TypeOK, LeaseOK
  <2>4. row' \in [Keys -> Row]
    BY <1>1, <2>1, <2>2 DEF TypeOK, Quiet
  <2>5. QuietStep
    BY <2>3 DEF QuietStep, MarkFailed
  <2>6. /\ pc'[w] = "next" /\ job'[w] = None /\ batch' = batch
        /\ \A v \in Workers \ {w} : pc'[v] = pc[v] /\ job'[v] = job[v]
    BY <1>1 DEF MarkFailed, Drop, TypeOK
  <2>7. /\ pc' \in [Workers -> Stage] /\ job' \in [Workers -> Task \cup {None}]
    BY <1>1 DEF MarkFailed, Drop, TypeOK, Stage
  <2>8. \A k \in Keys : row'[k].status = "sending" <=> row'[k].lockedBy # None
    BY <2>3 DEF Quiet
  <2>9. TypeOK'
    BY <1>1, <2>4, <2>7, <2>8 DEF TypeOK, MarkFailed
  <2>10. HandAt(w)' /\ StageAt(w)' /\ Hand(w)' \subseteq Hand(w)
    BY <1>1, <2>6 DEF HandAt, StageAt, Hand, Busy
  <2> QED BY <2>5, <2>6, <2>9, <2>10, WorkerStep DEF MarkFailed
<1> QED BY <1>2, <1>3

LEMMA NextPartRow ==
  ASSUME NEW r \in Row
  PROVE  LET q == [r EXCEPT !.delivered = @ + 1, !.age = 0] IN
         /\ q \in Row
         /\ q.status = r.status /\ q.lockedBy = r.lockedBy
         /\ q.content = r.content /\ q.delivered = r.delivered + 1
<1>1. r.delivered + 1 \in Nat
  BY DEF Row
<1>2. [r EXCEPT !.delivered = @ + 1, !.age = 0]
        = [r EXCEPT !.delivered = r.delivered + 1, !.age = 0]
  OBVIOUS
<1> QED BY <1>1, <1>2 DEF Row

LEMMA MarkPartStep ==
  ASSUME IInv, NEW w \in Workers, MarkPartDelivered(w)
  PROVE  IInv'
<1> DEFINE t == job[w]
           n == [t EXCEPT !.part = @ + 1]
           k == t.key
<1>1. /\ TypeOK /\ HandAt(w) /\ StageAt(w) /\ pc[w] = "record"
      /\ t \in Task /\ k \in Keys /\ t # None
  BY DEF IInv, HandOK, StageOK, MarkPartDelivered, HandAt, Busy, TypeOK, Task
<1>2. CASE ~HoldsAt(w, t)
  BY <1>1, <1>2, DropStep DEF MarkPartDelivered, Busy
<1>3. CASE HoldsAt(w, t)
  <2>1. /\ n \in Task /\ n # None
        /\ n.key = k /\ n.content = t.content /\ n.part = t.part + 1
    BY <1>1, OutboxAssumption DEF Task, OutboxAssumption
  <2>2. /\ job' = [job EXCEPT ![w] = n]
        /\ pc' = [pc EXCEPT ![w] = StageOf(n)]
        /\ UNCHANGED <<batch, received, hooked, requests, faults>>
    BY <1>3 DEF MarkPartDelivered
  <2>3. row' = [row EXCEPT ![k].delivered = @ + 1, ![k].age = 0]
    BY <1>3 DEF MarkPartDelivered
  <2>4. row' = [row EXCEPT ![k] = [row[k] EXCEPT !.delivered = @ + 1, !.age = 0]]
    BY <1>1, <2>3 DEF TypeOK, Row
  <2>5. /\ row'[k] \in Row
        /\ row'[k].status = "sending" /\ row'[k].lockedBy = w
        /\ row'[k].content = row[k].content
        /\ row'[k].delivered = row[k].delivered + 1
        /\ \A q \in Keys \ {k} : row'[q] = row[q]
    <3>1. row[k] \in Row /\ row[k].status = "sending" /\ row[k].lockedBy = w
      BY <1>1, <1>3 DEF TypeOK, Holds, HoldsAt
    <3>2. /\ row'[k] = [row[k] EXCEPT !.delivered = @ + 1, !.age = 0]
          /\ \A q \in Keys \ {k} : row'[q] = row[q]
      BY <1>1, <2>4 DEF TypeOK
    <3> QED BY <3>1, <3>2, NextPartRow
  <2>6. row' \in [Keys -> Row]
    BY <1>1, <2>4, <2>5 DEF TypeOK
  <2>7. \A q \in Keys : row'[q].status = "sending" <=> row'[q].lockedBy # None
    BY <1>1, <2>5, OutboxAssumption DEF TypeOK, OutboxAssumption
  <2>8. StageOf(n) \in Stage /\ StageOf(n) \in Busy /\ StageOf(n) \notin {"hook", "record", "push"}
    BY <2>1, StageOfFacts DEF Stage, Busy
  <2>9. TypeOK'
    BY <1>1, <2>1, <2>2, <2>6, <2>7, <2>8 DEF TypeOK
  <2>10. /\ pc'[w] = StageOf(n) /\ job'[w] = n /\ batch' = batch
         /\ \A v \in Workers \ {w} : pc'[v] = pc[v] /\ job'[v] = job[v]
    BY <1>1, <2>2 DEF TypeOK
  <2>11. HandOK'
    <3>1. HandAt(w)'
      BY <1>1, <2>1, <2>8, <2>10 DEF HandAt, Busy
    <3> QED BY <2>10, <3>1, ZenonT(40) DEF IInv, HandOK, HandAt
  <2>12. row[k].content = t.content /\ row[k].delivered = t.part
    BY <1>1, <1>3 DEF IInv, SnapshotOK, Hand, HoldsAt
  <2>13. SnapshotOK'
    <3> SUFFICES ASSUME NEW v \in Workers, NEW u \in Hand(v)', Holds(v, u)'
                 PROVE  row'[u.key].content = u.content /\ row'[u.key].delivered = u.part
      BY DEF SnapshotOK
    <3>1. CASE v = w /\ u = n
      BY <2>1, <2>5, <2>12, <3>1
    <3>2. CASE v = w /\ u # n
      <4>1. u \in batch[w] /\ u.key # k
        BY <1>1, <2>10, <3>2 DEF Hand, HandAt
      <4>2. u \in Hand(w) /\ u.key \in Keys
        BY <1>1, <4>1 DEF Hand, TypeOK, Task
      <4> QED BY <2>5, <3>2, <4>1, <4>2 DEF IInv, SnapshotOK, Holds
    <3>3. CASE v # w
      <4>1. u \in Hand(v)
        BY <2>10, <3>3 DEF Hand
      <4>2. u.key \in Keys
        BY <1>1, <4>1, HandTasks DEF Task
      <4>3. u.key # k
        BY <2>5, <3>3 DEF Holds
      <4> QED BY <2>5, <4>1, <4>2, <4>3 DEF IInv, SnapshotOK, Holds
    <3> QED BY <3>1, <3>2, <3>3
  <2>14. StageOK'
    <3> SUFFICES ASSUME NEW v \in Workers PROVE StageAt(v)'
      BY DEF StageOK
    <3>1. CASE v = w
      BY <2>1, <2>8, <2>10, <3>1, StageOfFacts DEF StageAt
    <3>2. CASE v # w
      <4>1. StageAt(v) /\ pc'[v] = pc[v] /\ job'[v] = job[v]
        BY <2>10, <3>2 DEF IInv, StageOK
      <4>2. pc[v] = "hook" => job[v].key \in Keys
        BY <1>1 DEF IInv, HandOK, HandAt, Busy, TypeOK, Task
      <4>3. pc[v] = "hook" => row'[job[v].key].status = "sent"
        BY <1>3, <2>5, <4>1, <4>2 DEF StageAt, HoldsAt, Holds
      <4>4. UNCHANGED <<received, hooked>>
        BY <2>2
      <4> QED BY <4>1, <4>3, <4>4 DEF StageAt
    <3> QED BY <3>1, <3>2
  <2>15. HookAlone'
    BY <2>8, <2>10 DEF IInv, HookAlone
  <2>16. SentMeansReceived'
    <3> SUFFICES ASSUME NEW q \in Keys, row'[q].status # Absent
                 PROVE  /\ Reached(q, row[q].content, row[q].delivered)'
                        /\ row'[q].status = "sent" =>
                             /\ PartCount[row'[q].content] > 0
                             /\ row'[q].delivered = PartCount[row'[q].content]
      BY DEF SentMeansReceived
    <3>1. CASE q = k
      <4>1. row[k].status # Absent
        BY <1>3 DEF HoldsAt, Holds, Absent
      <4>2. Reached(k, t.content, t.part)
        BY <1>1, <2>12, <4>1 DEF IInv, SentMeansReceived
      <4>3. <<k, t.content, t.part>> \in received /\ t.part \in Nat
        BY <1>1 DEF StageAt, Task
      <4>4. \A p \in 0 .. t.part : <<k, t.content, p>> \in received
        BY <4>2, <4>3 DEF Reached
      <4> QED BY <2>2, <2>5, <2>12, <3>1, <4>3, <4>4 DEF Reached
    <3>2. CASE q # k
      BY <2>2, <2>5, <3>2 DEF IInv, SentMeansReceived, Reached
    <3> QED BY <3>1, <3>2
  <2>17. HookOnce'
    BY <1>3, <2>2, <2>5 DEF IInv, HookOnce, HoldsAt, Holds
  <2> QED BY <2>9, <2>11, <2>13, <2>14, <2>15, <2>16, <2>17 DEF IInv
<1> QED BY <1>2, <1>3

LEMMA MarkSentStep ==
  ASSUME IInv, NEW w \in Workers, MarkSent(w)
  PROVE  IInv'
<1> DEFINE t == job[w]
           k == t.key
<1>1. /\ TypeOK /\ HandAt(w) /\ StageAt(w) /\ pc[w] = "finish"
      /\ t \in Task /\ k \in Keys /\ t # None
  BY DEF IInv, HandOK, StageOK, MarkSent, HandAt, Busy, TypeOK, Task
<1>2. CASE ~HoldsAt(w, t)
  BY <1>1, <1>2, DropStep DEF MarkSent, Busy
<1>3. CASE HoldsAt(w, t)
  <2>1. /\ row' = [row EXCEPT ![k] = SentRow(row[k])]
        /\ pc' = [pc EXCEPT ![w] = "hook"]
        /\ UNCHANGED <<batch, job, received, hooked, requests, faults>>
    BY <1>3 DEF MarkSent
  <2>2. /\ row'[k] \in Row
        /\ row'[k].status = "sent" /\ row'[k].lockedBy = None
        /\ row'[k].content = row[k].content
        /\ row'[k].delivered = row[k].delivered
        /\ \A q \in Keys \ {k} : row'[q] = row[q]
    <3>1. row \in [Keys -> Row] /\ row[k] \in Row /\ row'[k] = SentRow(row[k])
          /\ \A q \in Keys \ {k} : row'[q] = row[q]
      BY <1>1, <2>1 DEF TypeOK
    <3>2. \A r \in Row : /\ SentRow(r) \in Row
                          /\ SentRow(r).status = "sent" /\ SentRow(r).lockedBy = None
                          /\ SentRow(r).content = r.content /\ SentRow(r).delivered = r.delivered
      BY DEF Row, SentRow, Status
    <3> QED BY <3>1, <3>2
  <2>3. row' \in [Keys -> Row]
    BY <1>1, <2>1, <2>2 DEF TypeOK
  <2>4. \A q \in Keys : row'[q].status = "sending" <=> row'[q].lockedBy # None
    BY <1>1, <2>2 DEF TypeOK
  <2>5. TypeOK'
    BY <1>1, <2>1, <2>3, <2>4 DEF TypeOK, Stage
  <2>6. pc'[w] = "hook" /\ \A v \in Workers \ {w} : pc'[v] = pc[v]
    BY <1>1, <2>1 DEF TypeOK
  <2>7. HandOK'
    <3>1. HandAt(w)'
      BY <1>1, <2>1, <2>6 DEF HandAt, Busy
    <3> QED BY <2>1, <2>6, <3>1 DEF IInv, HandOK, HandAt
  <2>8. row[k].status = "sending" /\ row[k].content = t.content /\ row[k].delivered = t.part
    BY <1>1, <1>3 DEF IInv, SnapshotOK, Hand, HoldsAt, Holds
  <2>9. SnapshotOK'
    <3> SUFFICES ASSUME NEW v \in Workers, NEW u \in Hand(v)', Holds(v, u)'
                 PROVE  row'[u.key].content = u.content /\ row'[u.key].delivered = u.part
      BY DEF SnapshotOK
    <3>1. u \in Hand(v) /\ u.key \in Keys
      BY <1>1, <2>1, HandTasks DEF Hand, Task
    <3>2. u.key # k
      BY <2>2 DEF Holds
    <3> QED BY <2>2, <3>1, <3>2 DEF IInv, SnapshotOK, Holds
  <2>10. \A v \in Workers : pc[v] = "hook" => job[v].key \in Keys \ {k}
    <3> SUFFICES ASSUME NEW v \in Workers, pc[v] = "hook"
                 PROVE  job[v].key \in Keys /\ job[v].key # k
      OBVIOUS
    <3>1. job[v].key \in Keys
      BY <1>1 DEF IInv, HandOK, HandAt, Busy, TypeOK, Task
    <3> QED BY <2>8, <3>1 DEF IInv, StageOK, StageAt
  <2>11. hooked[k] = 0
    BY <1>1, <2>8 DEF IInv, HookOnce, TypeOK
  <2>12. StageOK'
    <3> SUFFICES ASSUME NEW v \in Workers PROVE StageAt(v)'
      BY DEF StageOK
    <3>1. CASE v = w
      BY <2>1, <2>2, <2>6, <2>11, <3>1 DEF StageAt
    <3>2. CASE v # w
      BY <2>1, <2>2, <2>6, <2>10, <3>2 DEF IInv, StageOK, StageAt
    <3> QED BY <3>1, <3>2
  <2>13. HookAlone'
    BY <2>1, <2>6, <2>10 DEF IInv, HookAlone
  <2>14. SentMeansReceived'
    <3>1. PartCount[t.content] > 0 /\ t.part = PartCount[t.content]
      BY <1>1 DEF StageAt
    <3> SUFFICES ASSUME NEW q \in Keys, row'[q].status # Absent
                 PROVE  /\ Reached(q, row[q].content, row[q].delivered)'
                        /\ row'[q].status = "sent" =>
                             /\ PartCount[row'[q].content] > 0
                             /\ row'[q].delivered = PartCount[row'[q].content]
      BY DEF SentMeansReceived
    <3>2. CASE q = k
      BY <2>1, <2>2, <2>8, <3>1, <3>2, SMTT(30) DEF IInv, SentMeansReceived, Reached, Absent
    <3>3. CASE q # k
      BY <2>1, <2>2, <3>3 DEF IInv, SentMeansReceived, Reached
    <3> QED BY <3>2, <3>3
  <2>15. HookOnce'
    BY <2>1, <2>2 DEF IInv, HookOnce
  <2> QED BY <2>5, <2>7, <2>9, <2>12, <2>13, <2>14, <2>15 DEF IInv
<1> QED BY <1>2, <1>3

LEMMA LeasedRow ==
  ASSUME NEW r \in Row, NEW w \in Workers
  PROVE  /\ [r EXCEPT !.lockedBy = w, !.age = 0] \in Row
         /\ [r EXCEPT !.lockedBy = w, !.age = 0].status = r.status
         /\ [r EXCEPT !.lockedBy = w, !.age = 0].lockedBy = w
         /\ [r EXCEPT !.lockedBy = w, !.age = 0].content = r.content
         /\ [r EXCEPT !.lockedBy = w, !.age = 0].delivered = r.delivered
  BY DEF Row

LEMMA ClaimedRowFacts ==
  ASSUME NEW r \in Row, NEW w \in Workers
  PROVE  /\ ClaimedRow(r, w) \in Row
         /\ ClaimedRow(r, w).status = "sending" /\ ClaimedRow(r, w).lockedBy = w
         /\ ClaimedRow(r, w).content = r.content
         /\ ClaimedRow(r, w).delivered = r.delivered
<1>1. r.attempts + 1 \in Nat
  BY DEF Row
<1> DEFINE q == [r EXCEPT !.status = "sending", !.attempts = r.attempts + 1]
<1>2. q \in Row /\ q.status = "sending" /\ q.content = r.content /\ q.delivered = r.delivered
  BY <1>1 DEF Row, Status
<1>3. ClaimedRow(r, w) = [q EXCEPT !.lockedBy = w, !.age = 0]
  BY DEF ClaimedRow
<1> HIDE DEF q
<1> DEFINE p == [q EXCEPT !.lockedBy = w, !.age = 0]
<1>4. /\ p \in Row /\ p.status = q.status /\ p.lockedBy = w
      /\ p.content = q.content /\ p.delivered = q.delivered
  BY <1>2, LeasedRow, Zenon
<1>5. ClaimedRow(r, w) = p
  BY <1>3
<1> HIDE DEF p
<1> QED BY <1>2, <1>4, <1>5

LEMMA ClaimDueStep ==
  ASSUME IInv, NEW w \in Workers, ClaimDue(w)
  PROVE  IInv'
<1>1. /\ TypeOK /\ HandAt(w) /\ pc[w] = "idle"
      /\ UNCHANGED <<job, received, hooked, requests, faults>>
      /\ pc' = [pc EXCEPT ![w] = "next"]
  BY DEF IInv, HandOK, ClaimDue
<1> DEFINE task(k) == [key |-> k, content |-> row[k].content, part |-> row[k].delivered]
<1>2. PICK S \in SUBSET Keys :
        /\ IsBatch(S)
        /\ row' = [k \in Keys |-> IF k \in S THEN ClaimedRow(row[k], w) ELSE row[k]]
        /\ batch' = [batch EXCEPT ![w] = {task(k) : k \in S}]
  BY DEF ClaimDue
<1>3. \A k \in S : row[k].status \in {"pending", "retry", "sending"}
  BY <1>2 DEF IsBatch, DueKeys, Due, Stale
<1>4. /\ \A k \in S : /\ row'[k] \in Row
                      /\ row'[k].status = "sending" /\ row'[k].lockedBy = w
                      /\ row'[k].content = row[k].content
                      /\ row'[k].delivered = row[k].delivered
      /\ \A k \in Keys \ S : row'[k] = row[k]
  BY <1>1, <1>2, ClaimedRowFacts DEF TypeOK
<1>5. row' \in [Keys -> Row]
  BY <1>1, <1>2, <1>4 DEF TypeOK
<1>6. \A k \in Keys : row'[k].status = "sending" <=> row'[k].lockedBy # None
  BY <1>1, <1>4, OutboxAssumption DEF TypeOK, OutboxAssumption
<1>7. \A k \in S : task(k) \in Task
  BY <1>1 DEF Task, TypeOK, Row
<1>8. /\ batch'[w] = {task(k) : k \in S} /\ pc'[w] = "next" /\ job'[w] = None
      /\ \A v \in Workers \ {w} : batch'[v] = batch[v] /\ pc'[v] = pc[v]
  BY <1>1, <1>2 DEF TypeOK, HandAt, Busy
<1>9. TypeOK'
  BY <1>1, <1>2, <1>5, <1>6, <1>7 DEF TypeOK, Stage
<1>10. HandOK'
  <2>1. \A t, u \in batch'[w] : t.key = u.key => t = u
    BY <1>8
  <2>2. HandAt(w)'
    BY <1>8, <2>1 DEF HandAt, Busy
  <2> QED BY <1>1, <1>8, <2>2 DEF IInv, HandOK, HandAt
<1>11. SnapshotOK'
  <2> SUFFICES ASSUME NEW v \in Workers, NEW u \in Hand(v)', Holds(v, u)'
               PROVE  row'[u.key].content = u.content /\ row'[u.key].delivered = u.part
    BY DEF SnapshotOK
  <2>1. CASE v = w
    <3>1. PICK k \in S : u = task(k)
      BY <1>8, <2>1 DEF Hand
    <3>2. u.key = k /\ u.content = row[k].content /\ u.part = row[k].delivered
      BY <3>1
    <3>3. row'[k].content = row[k].content /\ row'[k].delivered = row[k].delivered
      BY <1>4
    <3> QED BY <3>2, <3>3
  <2>2. CASE v # w
    <3>1. u \in Hand(v) /\ u.key \in Keys
      BY <1>1, <1>8, <2>2, HandTasks DEF Hand, Task
    <3>2. u.key \notin S
      BY <1>4, <2>2 DEF Holds
    <3> QED BY <1>4, <3>1, <3>2 DEF IInv, SnapshotOK, Holds
  <2> QED BY <2>1, <2>2
<1>12. StageOK'
  <2> SUFFICES ASSUME NEW v \in Workers PROVE StageAt(v)'
    BY DEF StageOK
  <2>1. CASE v = w
    BY <1>8, <2>1 DEF StageAt
  <2>2. CASE v # w
    <3>1. StageAt(v) /\ pc'[v] = pc[v] /\ UNCHANGED <<job, received, hooked>>
      BY <1>1, <1>8, <2>2 DEF IInv, StageOK
    <3>2. pc[v] = "hook" => job[v].key \in Keys
      BY <1>1 DEF IInv, HandOK, HandAt, Busy, TypeOK, Task
    <3>3. pc[v] = "hook" => row'[job[v].key].status = "sent"
      BY <1>3, <1>4, <3>1, <3>2 DEF StageAt
    <3> QED BY <3>1, <3>3 DEF StageAt
  <2> QED BY <2>1, <2>2
<1>13. HookAlone'
  BY <1>1, <1>8 DEF IInv, HookAlone
<1>14. SentMeansReceived'
  <2> SUFFICES ASSUME NEW k \in Keys, row'[k].status # Absent
               PROVE  /\ Reached(k, row[k].content, row[k].delivered)'
                      /\ row'[k].status = "sent" =>
                           /\ PartCount[row'[k].content] > 0
                           /\ row'[k].delivered = PartCount[row'[k].content]
    BY DEF SentMeansReceived
  <2>1. CASE k \in S
    BY <1>1, <1>3, <1>4, <2>1 DEF IInv, SentMeansReceived, Reached, Absent
  <2>2. CASE k \notin S
    BY <1>1, <1>4, <2>2 DEF IInv, SentMeansReceived, Reached
  <2> QED BY <2>1, <2>2
<1>15. HookOnce'
  BY <1>1, <1>3, <1>4 DEF IInv, HookOnce
<1> QED BY <1>9, <1>10, <1>11, <1>12, <1>13, <1>14, <1>15 DEF IInv

-----------------------------------------------------------------------------
(* The theorems. *)

LEMMA InitInvariant == Init => IInv
<1> SUFFICES ASSUME Init PROVE IInv
  OBVIOUS
<1>1. \A k \in Keys : row[k] \in Row /\ LeaseOK(row[k]) /\ row[k].status = Absent
  BY RowTypes DEF Init, NoRow
<1>2. TypeOK
  BY <1>1, RowTypes DEF Init, TypeOK, LeaseOK, Stage
<1>3. HandOK /\ SnapshotOK /\ StageOK /\ HookAlone
  BY DEF Init, HandOK, HandAt, SnapshotOK, Hand, StageOK, StageAt, HookAlone, Busy
<1>4. SentMeansReceived /\ HookOnce
  BY <1>1 DEF Init, SentMeansReceived, HookOnce
<1> QED BY <1>2, <1>3, <1>4 DEF IInv

LEMMA NextInvariant == IInv /\ [Next]_vars => IInv'
<1> SUFFICES ASSUME IInv, [Next]_vars PROVE IInv'
  OBVIOUS
<1>1. CASE Produce BY <1>1, ProduceStep
<1>2. ASSUME NEW w \in Workers, ClaimDue(w) PROVE IInv' BY <1>2, ClaimDueStep
<1>3. ASSUME NEW w \in Workers, NextTask(w) PROVE IInv' BY <1>3, NextTaskStep
<1>4. ASSUME NEW w \in Workers, CheckLease(w) PROVE IInv' BY <1>4, CheckLeaseStep
<1>5. ASSUME NEW w \in Workers, Push(w) PROVE IInv' BY <1>5, PushStep
<1>6. ASSUME NEW w \in Workers, MarkPartDelivered(w) PROVE IInv' BY <1>6, MarkPartStep
<1>7. ASSUME NEW w \in Workers, MarkSent(w) PROVE IInv' BY <1>7, MarkSentStep
<1>8. ASSUME NEW w \in Workers, AfterSent(w) PROVE IInv' BY <1>8, AfterSentStep
<1>9. ASSUME NEW w \in Workers, ReadAttempts(w) PROVE IInv' BY <1>9, ReadAttemptsStep
<1>10. ASSUME NEW w \in Workers, MarkFailed(w) PROVE IInv' BY <1>10, MarkFailedStep
<1>11. ASSUME NEW w \in Workers, DatabaseError(w) PROVE IInv' BY <1>11, DatabaseErrorStep
<1>12. ASSUME NEW w \in Workers, Crash(w) PROVE IInv' BY <1>12, CrashStep
<1>13. CASE Tick BY <1>13, TickStep
<1>14. CASE UNCHANGED vars
  <2>1. /\ row' = row /\ pc' = pc /\ batch' = batch /\ job' = job
        /\ received' = received /\ hooked' = hooked
        /\ requests' = requests /\ faults' = faults
    BY <1>14 DEF vars
  <2>2. TypeOK' BY <2>1 DEF IInv, TypeOK
  <2>3. QuietStep BY <2>1, SameRows DEF IInv
  <2> QED BY <2>1, <2>2, <2>3, IdleStep DEF worker
<1> QED BY <1>1, <1>2, <1>3, <1>4, <1>5, <1>6, <1>7, <1>8, <1>9, <1>10, <1>11,
           <1>12, <1>13, <1>14 DEF Next, Work

\* The inductive invariant holds in every reachable state.
THEOREM Invariance == Spec => []IInv
<1>1. Init => IInv BY InitInvariant
<1>2. IInv /\ [Next]_vars => IInv' BY NextInvariant
<1> QED BY <1>1, <1>2, PTL DEF Spec

\* Type correctness, the lease belonging to the status included.
THEOREM TypeCorrect == Spec => []TypeOK
<1>1. IInv => TypeOK BY DEF IInv
<1> QED BY <1>1, Invariance, PTL

\* What the outbox calls delivered or sent has reached the platform.
THEOREM SentIsReceived == Spec => []SentMeansReceived
<1>1. IInv => SentMeansReceived BY DEF IInv
<1> QED BY <1>1, Invariance, PTL

\* The sent hook runs at most once for a row, and only for a sent one.
THEOREM HookRunsOnce == Spec => []HookOnce
<1>1. IInv => HookOnce BY DEF IInv
<1> QED BY <1>1, Invariance, PTL

-----------------------------------------------------------------------------
(* Action properties. *)

LEMMA SentStep ==
  ASSUME IInv, [Next]_vars, NEW k \in Keys, row[k].status = "sent"
  PROVE  row'[k] = row[k]
<1>1. TypeOK BY DEF IInv
<1>2. ASSUME NEW w \in Workers, ~Holds(w, job[w]) \/ job[w].key # k
      PROVE  /\ MarkPartDelivered(w) => row'[k] = row[k]
             /\ MarkSent(w) => row'[k] = row[k]
             /\ MarkFailed(w) => row'[k] = row[k]
  BY <1>1, <1>2 DEF MarkPartDelivered, MarkSent, MarkFailed, HoldsAt, TypeOK
<1>3. \A w \in Workers : ~Holds(w, job[w]) \/ job[w].key # k
  BY DEF Holds
<1>4. CASE Produce
  BY <1>1, <1>4, ZenonT(40) DEF Produce, Upsert, UpsertRow, InsertIfAbsent, CancelBySource,
                    CancelBySourceType, CancelRow, Open, TypeOK, Absent
<1>5. ASSUME NEW w \in Workers, ClaimDue(w) PROVE row'[k] = row[k]
  BY <1>5 DEF ClaimDue, IsBatch, DueKeys, Due, Stale
<1>6. CASE Tick
  BY <1>6 DEF Tick, TickRow
<1>7. CASE \/ UNCHANGED row
           \/ \E w \in Workers : \/ NextTask(w) \/ CheckLease(w) \/ Push(w) \/ AfterSent(w)
                                 \/ ReadAttempts(w) \/ DatabaseError(w) \/ Crash(w)
  BY <1>7 DEF NextTask, CheckLease, Push, AfterSent, ReadAttempts, DatabaseError, Crash
<1> QED BY <1>2, <1>3, <1>4, <1>5, <1>6, <1>7 DEF Next, Work, vars

\* A sent row is final.
THEOREM SentStaysSent == Spec => SentIsFinal
<1>1. IInv /\ [Next]_vars => [\A k \in Keys : row[k].status = "sent" => row'[k] = row[k]]_vars
  BY SentStep
<1> QED BY <1>1, Invariance, PTL DEF Spec, SentIsFinal

LEMMA PushStart ==
  ASSUME IInv, [Next]_vars, NEW w \in Workers, pc[w] = "check", pc'[w] = "push"
  PROVE  /\ row[job[w].key].status = "sending" /\ row[job[w].key].lockedBy = w
         /\ row[job[w].key].content = job[w].content
         /\ row[job[w].key].delivered = job[w].part
         /\ Reached(job[w].key, row[job[w].key].content, job[w].part)
<1>1. /\ TypeOK /\ HandAt(w) /\ job[w] # None
      /\ job[w] \in Task /\ job[w].key \in Keys
  BY DEF IInv, HandOK, HandAt, Busy, TypeOK, Task
<1>2. HoldsAt(w, job[w])
  <2>1. ASSUME NEW v \in Workers, Work(v) \/ DatabaseError(v) \/ Crash(v), v # w
        PROVE  pc'[w] = pc[w]
    BY <1>1, <2>1 DEF Work, ClaimDue, NextTask, CheckLease, Push, MarkPartDelivered,
                      MarkSent, AfterSent, ReadAttempts, MarkFailed, DatabaseError,
                      Crash, Drop, TypeOK
  <2>2. CASE Produce \/ Tick \/ UNCHANGED vars
    BY <2>2 DEF Produce, Upsert, InsertIfAbsent, CancelBySource, CancelBySourceType,
                Tick, worker, vars
  <2>3. CASE DatabaseError(w) \/ Crash(w)
    BY <1>1, <2>3 DEF DatabaseError, Crash, TypeOK
  <2>4. CASE Work(w)
    <3>1. CheckLease(w)
      BY <2>4 DEF Work, ClaimDue, NextTask, Push, MarkPartDelivered,
                  MarkSent, AfterSent, ReadAttempts, MarkFailed
    <3> QED BY <1>1, <3>1 DEF CheckLease, Drop, TypeOK
  <2> QED BY <2>1, <2>2, <2>3, <2>4 DEF Next
<1>3. row[job[w].key].content = job[w].content /\ row[job[w].key].delivered = job[w].part
  BY <1>1, <1>2 DEF IInv, SnapshotOK, Hand, HoldsAt
<1> QED BY <1>1, <1>2, <1>3 DEF IInv, SentMeansReceived, HoldsAt, Holds, Absent

\* What a worker starts to push is what the row, leased to it, says.
THEOREM PushFollowsRow == Spec => PushesTheRow
<1>1. IInv /\ [Next]_vars =>
        [\A w \in Workers :
           pc[w] = "check" /\ pc'[w] = "push" =>
             LET r == row[job[w].key] IN
             /\ r.status = "sending" /\ r.lockedBy = w
             /\ r.content = job[w].content
             /\ r.delivered = job[w].part
             /\ Reached(job[w].key, r.content, job[w].part)]_vars
  BY PushStart
<1> QED BY <1>1, Invariance, PTL DEF Spec, PushesTheRow

-----------------------------------------------------------------------------
(* The outbox implements NotificationPromise. *)

\* A step the promise does not see.
LEMMA Unseen ==
  ASSUME \A k \in Keys : /\ Phase(row'[k]) = Phase(row[k])
                         /\ row'[k].content = row[k].content,
         received' = received, hooked' = hooked
  PROVE  UNCHANGED Promise!vars
  BY DEF Promise!vars

\* One key is queued, replaced or has its hook run.
LEMMA AcceptPromised ==
  ASSUME NEW k \in Keys, NEW c \in Contents,
         Phase(row[k]) # "sent", Phase(row'[k]) = "queued", row'[k].content = c,
         \A j \in Keys \ {k} : row'[j] = row[j],
         received' = received, hooked' = hooked
  PROVE  Promise!Next
<1>1. Promise!Accept(k, c)
  BY DEF Promise!Accept
<1> QED BY <1>1 DEF Promise!Next

LEMMA ReplacePromised ==
  ASSUME NEW k \in Keys, NEW c \in Contents,
         Phase(row[k]) = "cancelled", Phase(row'[k]) = "cancelled", row'[k].content = c,
         \A j \in Keys \ {k} : row'[j] = row[j],
         received' = received, hooked' = hooked
  PROVE  Promise!Next
<1>1. \A j \in Keys : Phase(row'[j]) = Phase(row[j])
  OBVIOUS
<1>2. Promise!Replace(k, c)
  BY <1>1 DEF Promise!Replace
<1> QED BY <1>2 DEF Promise!Next

LEMMA HookPromised ==
  ASSUME NEW k \in Keys,
         Phase(row[k]) = "sent", hooked[k] = 0, hooked'[k] = 1,
         \A j \in Keys \ {k} : hooked'[j] = hooked[j],
         row' = row, received' = received
  PROVE  Promise!Next
<1>1. {j \in Keys : hooked'[j] > 0} = {j \in Keys : hooked[j] > 0} \cup {k}
  OBVIOUS
<1>2. Promise!RunHook(k)
  BY <1>1 DEF Promise!RunHook
<1> QED BY <1>2 DEF Promise!Next

LEMMA UpsertPromised ==
  ASSUME IInv, NEW k \in Keys, NEW req \in Request, Upsert(k, req)
  PROVE  [Promise!Next]_(Promise!vars)
<1> DEFINE r == row[k]
           q == UpsertRow(r, req)
<1>1. TypeOK /\ r \in Row /\ req.content \in Contents
  BY DEF IInv, TypeOK, Request
<1>2. /\ row' = [row EXCEPT ![k] = q] /\ received' = received /\ hooked' = hooked
      /\ row'[k] = q /\ \A j \in Keys \ {k} : row'[j] = row[j]
  BY <1>1 DEF Upsert, TypeOK
<1>3. CASE r.status \in {"sent", "sending"}
  <2>1. q = r BY <1>3 DEF UpsertRow
  <2> QED BY <1>2, <2>1, Unseen
<1>4. CASE r.status = "cancelled" /\ ~req.reactivate
  <2>1. q.status = "cancelled" /\ q.content = req.content
    BY <1>1, <1>4 DEF UpsertRow, Row
  <2>2. Phase(row[k]) = "cancelled" /\ Phase(row'[k]) = "cancelled"
    BY <1>2, <1>4, <2>1 DEF Phase, Absent
  <2> QED BY <1>1, <1>2, <2>1, <2>2, ReplacePromised
<1>5. CASE r.status \notin {"sent", "sending"} /\ ~(r.status = "cancelled" /\ ~req.reactivate)
  <2>1. q.status = "pending" /\ q.content = req.content
    BY <1>1, <1>5 DEF UpsertRow, NewRow
  <2>2. Phase(q) = "queued" /\ Phase(r) # "sent"
    BY <1>5, <2>1 DEF Phase, Absent
  <2> QED BY <1>1, <1>2, <2>1, <2>2, AcceptPromised
<1> QED BY <1>3, <1>4, <1>5

LEMMA InsertPromised ==
  ASSUME IInv, NEW k \in Keys, NEW req \in Request, InsertIfAbsent(k, req)
  PROVE  [Promise!Next]_(Promise!vars)
<1>1. TypeOK /\ req.content \in Contents /\ row[k].status = Absent
  BY DEF IInv, TypeOK, Request, InsertIfAbsent
<1>2. /\ received' = received /\ hooked' = hooked
      /\ row'[k] = NewRow(req) /\ \A j \in Keys \ {k} : row'[j] = row[j]
  BY <1>1 DEF InsertIfAbsent, TypeOK
<1>3. /\ Phase(row'[k]) = "queued" /\ row'[k].content = req.content
      /\ Phase(row[k]) # "sent"
  BY <1>1, <1>2 DEF Phase, NewRow, Absent
<1> QED BY <1>1, <1>2, <1>3, AcceptPromised

LEMMA CancelPromised ==
  ASSUME IInv, NEW S \in SUBSET Keys,
         \A k \in S : row[k].status \in Open,
         \A k \in S : row'[k] = CancelRow(row[k]),
         \A k \in Keys \ S : row'[k] = row[k],
         received' = received, hooked' = hooked
  PROVE  [Promise!Next]_(Promise!vars)
<1>1. \A k \in Keys : row[k] \in Row
  BY DEF IInv, TypeOK
<1>2. \A k \in S : row'[k].status = "cancelled" /\ row'[k].content = row[k].content
  BY <1>1 DEF CancelRow, Row
<1>3. \A k \in S : Phase(row[k]) \in {"queued", "failed"} /\ Phase(row'[k]) = "cancelled"
  BY <1>2 DEF Phase, Open, Absent
<1>4. Promise!Cancel(S)
  BY <1>2, <1>3 DEF Promise!Cancel
<1> QED BY <1>4 DEF Promise!Next

LEMMA ProducePromised ==
  ASSUME IInv, Produce
  PROVE  [Promise!Next]_(Promise!vars)
<1>1. ASSUME NEW s \in Sources, CancelBySource(s)
      PROVE  [Promise!Next]_(Promise!vars)
  <2> DEFINE S == {k \in Keys : row[k].source = s /\ row[k].status \in Open}
  <2>1. /\ \A k \in S : row'[k] = CancelRow(row[k])
        /\ \A k \in Keys \ S : row'[k] = row[k]
        /\ received' = received /\ hooked' = hooked
    BY <1>1 DEF CancelBySource, CancelRow
  <2> QED BY <2>1, CancelPromised
<1>2. ASSUME NEW t \in Types, CancelBySourceType(t)
      PROVE  [Promise!Next]_(Promise!vars)
  <2> DEFINE S == {k \in Keys : TypeOf[row[k].source] = t /\ row[k].status \in Open}
  <2>1. /\ \A k \in S : row'[k] = CancelRow(row[k])
        /\ \A k \in Keys \ S : row'[k] = row[k]
        /\ received' = received /\ hooked' = hooked
    BY <1>2 DEF CancelBySourceType, CancelRow
  <2> QED BY <2>1, CancelPromised
<1> QED BY <1>1, <1>2, UpsertPromised, InsertPromised DEF Produce

LEMMA PushPromised ==
  ASSUME IInv, NEW w \in Workers, Push(w)
  PROVE  [Promise!Next]_(Promise!vars)
<1> DEFINE t == job[w]
<1>1. /\ row' = row /\ hooked' = hooked /\ pc[w] = "push"
      /\ received' = received \/ received' = received \cup {<<t.key, t.content, t.part>>}
  BY DEF Push
<1>2. t \in Task /\ t.part < PartCount[t.content]
  BY <1>1 DEF IInv, HandOK, HandAt, StageOK, StageAt, Busy, TypeOK
<1>3. t.key \in Keys /\ t.content \in Contents /\ t.part \in 0 .. (PartCount[t.content] - 1)
  BY <1>2, ConstTypes DEF Task
<1>4. CASE received' = received
  BY <1>1, <1>4, Unseen
<1>5. CASE received' = received \cup {<<t.key, t.content, t.part>>}
  <2>1. Promise!Transfer(t.key, t.content, t.part)
    BY <1>1, <1>3, <1>5 DEF Promise!Transfer
  <2> QED BY <1>3, <2>1 DEF Promise!Next
<1> QED BY <1>1, <1>4, <1>5

LEMMA MarkSentPromised ==
  ASSUME IInv, NEW w \in Workers, MarkSent(w)
  PROVE  [Promise!Next]_(Promise!vars)
<1> DEFINE t == job[w]
           k == t.key
<1>1. /\ TypeOK /\ StageAt(w) /\ pc[w] = "finish"
      /\ t \in Task /\ k \in Keys /\ t # None
      /\ received' = received /\ hooked' = hooked
  BY DEF IInv, HandOK, StageOK, MarkSent, HandAt, Busy, TypeOK, Task
<1>2. CASE ~HoldsAt(w, t)
  BY <1>1, <1>2, Unseen DEF MarkSent
<1>3. CASE HoldsAt(w, t)
  <2>1. row' = [row EXCEPT ![k] = SentRow(row[k])]
    BY <1>3 DEF MarkSent
  <2>2. /\ row[k].status = "sending" /\ row[k].content = t.content
        /\ row[k].delivered = t.part
    BY <1>1, <1>3 DEF IInv, SnapshotOK, Hand, HoldsAt, Holds
  <2>3. /\ row'[k].status = "sent" /\ row'[k].content = row[k].content
        /\ \A j \in Keys \ {k} : row'[j] = row[j]
    BY <1>1, <2>1 DEF TypeOK, Row, SentRow
  <2>4. Phase(row[k]) = "queued" /\ Phase(row'[k]) = "sent"
    BY <2>2, <2>3 DEF Phase, Absent
  <2>5. /\ PartCount[row[k].content] > 0
        /\ \A p \in 0 .. (PartCount[row[k].content] - 1) : <<k, row[k].content, p>> \in received
    BY <1>1, <2>2 DEF StageAt, IInv, SentMeansReceived, Reached, Absent
  <2>6. Promise!Complete(k)
    BY <1>1, <2>3, <2>4, <2>5 DEF Promise!Complete
  <2> QED BY <1>1, <2>6 DEF Promise!Next
<1> QED BY <1>2, <1>3

LEMMA MarkFailedPromised ==
  ASSUME IInv, NEW w \in Workers, MarkFailed(w)
  PROVE  [Promise!Next]_(Promise!vars)
<1> DEFINE t == job[w]
           k == t.key
<1>1. /\ TypeOK /\ t \in Task /\ k \in Keys
      /\ received' = received /\ hooked' = hooked
  BY DEF IInv, HandOK, MarkFailed, HandAt, Busy, TypeOK, Task
<1>2. CASE ~Holds(w, t)
  BY <1>1, <1>2, Unseen DEF MarkFailed
<1>3. CASE Holds(w, t)
  <2>1. row' = [row EXCEPT ![k] = FailedRow(row[k])] /\ row[k].status = "sending"
    BY <1>3 DEF MarkFailed, Holds
  <2>2. /\ row'[k] = FailedRow(row[k])
        /\ \A j \in Keys \ {k} : row'[j] = row[j]
    BY <1>1, <2>1 DEF TypeOK
  <2>3. row'[k].status \in {"failed", "retry"} /\ row'[k].content = row[k].content
    BY <1>1, <2>2 DEF FailedRow, Row, TypeOK
  <2>4. CASE row'[k].status = "retry"
    <3>1. Phase(row'[k]) = Phase(row[k])
      BY <2>1, <2>4 DEF Phase, Absent
    <3> QED BY <1>1, <2>2, <2>3, <3>1, Unseen
  <2>5. CASE row'[k].status = "failed"
    <3>1. Phase(row[k]) = "queued" /\ Phase(row'[k]) = "failed"
      BY <2>1, <2>5 DEF Phase, Absent
    <3>2. Promise!GiveUp(k)
      BY <1>1, <2>2, <2>3, <3>1 DEF Promise!GiveUp
    <3> QED BY <1>1, <3>2 DEF Promise!Next
  <2> QED BY <2>3, <2>4, <2>5
<1> QED BY <1>2, <1>3

LEMMA AfterSentPromised ==
  ASSUME IInv, NEW w \in Workers, AfterSent(w)
  PROVE  [Promise!Next]_(Promise!vars)
<1> DEFINE k == job[w].key
<1>1. /\ TypeOK /\ pc[w] = "hook" /\ k \in Keys
      /\ row[k].status = "sent" /\ hooked[k] = 0
      /\ row' = row /\ received' = received
      /\ hooked' = [hooked EXCEPT ![k] = @ + 1]
  BY DEF IInv, HandOK, HandAt, StageOK, StageAt, AfterSent, Busy, TypeOK, Task
<1>2. hooked'[k] = 1 /\ \A j \in Keys \ {k} : hooked'[j] = hooked[j]
  BY <1>1 DEF TypeOK
<1>3. Phase(row[k]) = "sent"
  BY <1>1 DEF Phase, Absent
<1> QED BY <1>1, <1>2, <1>3, HookPromised

LEMMA PromiseStep == IInv /\ [Next]_vars => [Promise!Next]_(Promise!vars)
<1> SUFFICES ASSUME IInv, [Next]_vars PROVE [Promise!Next]_(Promise!vars)
  OBVIOUS
<1>1. TypeOK BY DEF IInv
<1>2. CASE UNCHANGED <<row, received, hooked>>
  BY <1>2, Unseen
<1>3. ASSUME NEW w \in Workers,
             NextTask(w) \/ CheckLease(w) \/ ReadAttempts(w) \/ DatabaseError(w) \/ Crash(w)
      PROVE  UNCHANGED <<row, received, hooked>>
  BY <1>3 DEF NextTask, CheckLease, ReadAttempts, DatabaseError, Crash
<1>4. ASSUME NEW w \in Workers, ClaimDue(w) PROVE UNCHANGED Promise!vars
  <2>1. PICK S \in SUBSET Keys :
          /\ IsBatch(S)
          /\ row' = [k \in Keys |-> IF k \in S THEN ClaimedRow(row[k], w) ELSE row[k]]
    BY <1>4 DEF ClaimDue
  <2>2. \A k \in S : /\ row[k].status \in {"pending", "retry", "sending"}
                     /\ row'[k].status = "sending" /\ row'[k].content = row[k].content
    BY <1>1, <2>1, ClaimedRowFacts DEF IsBatch, DueKeys, Due, Stale, TypeOK
  <2>3. \A k \in Keys : Phase(row'[k]) = Phase(row[k]) /\ row'[k].content = row[k].content
    BY <2>1, <2>2 DEF Phase, Absent
  <2> QED BY <1>4, <2>3, Unseen DEF ClaimDue
<1>5. ASSUME NEW w \in Workers, MarkPartDelivered(w) PROVE UNCHANGED Promise!vars
  <2>1. job[w] \in Task /\ job[w].key \in Keys
    BY <1>5 DEF IInv, HandOK, HandAt, MarkPartDelivered, Busy, TypeOK, Task
  <2>2. \A k \in Keys : row'[k].status = row[k].status /\ row'[k].content = row[k].content
    BY <1>1, <1>5, <2>1 DEF MarkPartDelivered, TypeOK, Row
  <2> QED BY <1>5, <2>2, Unseen DEF MarkPartDelivered, Phase
<1>6. CASE Tick
  <2>1. \A k \in Keys : row'[k].status = row[k].status /\ row'[k].content = row[k].content
    BY <1>1, <1>6 DEF Tick, TickRow, TypeOK, Row
  <2> QED BY <1>6, <2>1, Unseen DEF Tick, Phase
<1> QED BY <1>2, <1>3, <1>4, <1>5, <1>6, ProducePromised, PushPromised, MarkSentPromised,
           MarkFailedPromised, AfterSentPromised DEF Next, Work, vars

LEMMA PromiseInit == Init => Promise!Init
<1> SUFFICES ASSUME Init PROVE Promise!Init
  OBVIOUS
<1>1. NoRow.content \in Contents /\ NoRow.status = Absent
  BY RowTypes DEF NoRow, Row
<1>2. \A k \in Keys : Phase(row[k]) = "none" /\ row[k].content \in Contents
  BY <1>1 DEF Init, Phase, Absent
<1>3. {k \in Keys : hooked[k] > 0} = {}
  BY DEF Init
<1>4. received = {}
  BY DEF Init
<1> QED BY <1>2, <1>3, <1>4 DEF Promise!Init

\* The outbox with its workers implements the promise made to the producers.
THEOREM OutboxKeepsPromise == Spec => KeepsPromise
<1>1. Init => Promise!Init BY PromiseInit
<1>2. IInv /\ [Next]_vars => [Promise!Next]_(Promise!vars) BY PromiseStep
<1> QED BY <1>1, <1>2, Invariance, PTL DEF Spec, KeepsPromise, Promise!Spec

-----------------------------------------------------------------------------
(* Leases and attempts. *)

\* The attempts of a row: a claim adds one, to a due row below the limit or, once
\* per fault, to a row whose lease is stale.
AttemptsFit(r) ==
  /\ r.attempts <= MaxAttempts + faults
  /\ r.status \in {"pending", "retry"} => r.attempts < MaxAttempts
  /\ r.status = "failed" => r.attempts >= MaxAttempts

\* A lease is fresh and in its holder's hand, or a fault has gone by that pays
\* for one more attempt.
LeaseFits(k) ==
  row[k].status = "sending" =>
    \/ row[k].age < LockTimeout /\ InHand(row[k].lockedBy, k)
    \/ faults > 0 /\ row[k].attempts < MaxAttempts + faults

LeasesFit == \A k \in Keys : AttemptsFit(row[k]) /\ LeaseFits(k)

\* Every row keeps its attempts and its lease; one in hand stays so, or a fault happens.
LEMMA KeptRows ==
  ASSUME IInv, LeasesFit, faults' \in Nat, faults' >= faults,
         \A k \in Keys :
           /\ row'[k].status = row[k].status /\ row'[k].attempts = row[k].attempts
           /\ row'[k].lockedBy = row[k].lockedBy
           /\ row[k].status = "sending" /\ row[k].age < LockTimeout =>
                faults' > faults \/ row'[k].age < LockTimeout,
         \A k \in Keys, v \in Workers :
           row[k].status = "sending" /\ row[k].lockedBy = v /\ InHand(v, k)
             => faults' > faults \/ InHand(v, k)'
  PROVE  LeasesFit'
<1> SUFFICES ASSUME NEW k \in Keys PROVE (AttemptsFit(row[k]) /\ LeaseFits(k))'
  BY DEF LeasesFit
<1>1. /\ row[k] \in Row /\ row[k].attempts \in Nat /\ faults \in Nat /\ MaxAttempts \in Nat
      /\ row[k].status = "sending" => row[k].lockedBy \in Workers
  BY ConstTypes DEF IInv, TypeOK, Row
<1>2. AttemptsFit(row[k]) /\ LeaseFits(k)
  BY DEF LeasesFit
<1>3. AttemptsFit(row[k])'
  BY <1>1, <1>2 DEF AttemptsFit
<1>4. ASSUME row'[k].status = "sending"
      PROVE  \/ row'[k].age < LockTimeout /\ InHand(row[k].lockedBy, k)'
             \/ faults' > 0 /\ row'[k].attempts < MaxAttempts + faults'
  <2>1. CASE faults' > faults
    BY <1>1, <1>2, <2>1 DEF AttemptsFit
  <2>2. CASE ~(faults' > faults) /\ row[k].age < LockTimeout /\ InHand(row[k].lockedBy, k)
    <3> DEFINE v == row[k].lockedBy
    <3>1. InHand(v, k) /\ v \in Workers
      BY <1>1, <1>4, <2>2
    <3>2. PICK u \in Workers : u = v
      BY <3>1
    <3>3. InHand(u, k)'
      BY <1>4, <2>2, <3>1, <3>2
    <3>4. u = row'[k].lockedBy
      BY <3>2
    <3> QED BY <1>4, <2>2, <3>3, <3>4 DEF InHand
  <2>3. CASE faults > 0 /\ row[k].attempts < MaxAttempts + faults
    BY <1>1, <2>3
  <2> QED BY <1>2, <1>4, <2>1, <2>2, <2>3 DEF LeaseFits
<1> QED BY <1>3, <1>4 DEF LeaseFits

\* A worker gives up a task whose lease it no longer holds.
LEMMA DroppedInHand ==
  ASSUME IInv, NEW w \in Workers, job[w] # None, ~Holds(w, job[w]), Drop(w), batch' = batch,
         NEW k \in Keys, NEW v \in Workers,
         row[k].status = "sending", row[k].lockedBy = v, InHand(v, k)
  PROVE  InHand(v, k)'
<1>1. v = w => job[w].key # k
  BY DEF Holds
<1>2. job \in [Workers -> Task \cup {None}]
  BY DEF IInv, TypeOK
<1> QED BY <1>1, <1>2 DEF InHand, Drop

\* The steps of a worker that leave the rows alone, or only write progress.
LEMMA WorkLeases ==
  ASSUME IInv, LeasesFit, NEW w \in Workers,
         NextTask(w) \/ CheckLease(w) \/ Push(w) \/ AfterSent(w) \/ ReadAttempts(w)
  PROVE  LeasesFit'
<1>1. /\ UNCHANGED <<row, faults>> /\ faults \in Nat
      /\ job \in [Workers -> Task \cup {None}] /\ batch \in [Workers -> SUBSET Task] /\ HandAt(w) /\ StageAt(w)
  BY DEF IInv, TypeOK, HandOK, StageOK, NextTask, CheckLease, Push, AfterSent, ReadAttempts
<1> SUFFICES ASSUME NEW k \in Keys, NEW v \in Workers,
                    row[k].status = "sending", row[k].lockedBy = v, InHand(v, k)
             PROVE  InHand(v, k)'
  BY <1>1, KeptRows
<1>2. CASE NextTask(w)
  <2>1. CASE v = w
    <3>1. job[w] = None
      BY <1>1, <1>2 DEF NextTask, HandAt, Busy
    <3>2. PICK t \in batch[w] : t.key = k
      BY <2>1, <3>1 DEF InHand
    <3>3. t # None /\ batch[w] # {}
      BY <1>1, <3>2, OutboxAssumption DEF OutboxAssumption
    <3>4. PICK u \in batch[w] : batch'[w] = batch[w] \ {u} /\ job'[w] = u
      BY <1>1, <1>2, <3>3 DEF NextTask
    <3>5. u # None
      BY <1>1, <3>4, OutboxAssumption DEF OutboxAssumption
    <3> QED BY <2>1, <3>2, <3>4, <3>5 DEF InHand
  <2>2. CASE v # w
    BY <1>1, <1>2, <2>2 DEF NextTask, InHand
  <2> QED BY <2>1, <2>2
<1>3. CASE CheckLease(w)
  <2>1. job[w] # None /\ batch' = batch
    BY <1>1, <1>3 DEF CheckLease, HandAt, Busy
  <2>2. CASE HoldsAt(w, job[w])
    BY <1>3, <2>1, <2>2 DEF CheckLease, InHand
  <2>3. CASE ~HoldsAt(w, job[w])
    <3>1. ~Holds(w, job[w])
      BY <2>1, <2>3 DEF HoldsAt, IInv, SnapshotOK, Hand
    <3> QED BY <1>3, <2>1, <2>3, <3>1, DroppedInHand DEF CheckLease
  <2> QED BY <2>2, <2>3
<1>4. CASE Push(w)
  BY <1>4 DEF Push, InHand
<1>5. CASE AfterSent(w)
  <2>1. job[w] # None /\ batch' = batch /\ row[job[w].key].status = "sent" /\ Drop(w)
    BY <1>1, <1>5 DEF AfterSent, HandAt, Busy, StageAt
  <2> QED BY <2>1, DroppedInHand DEF Holds
<1>6. CASE ReadAttempts(w)
  <2>1. job[w] # None /\ batch' = batch
    BY <1>1, <1>6 DEF ReadAttempts, HandAt, Busy
  <2>2. CASE Holds(w, job[w])
    BY <1>6, <2>1, <2>2 DEF ReadAttempts, InHand
  <2>3. CASE ~Holds(w, job[w])
    BY <1>6, <2>1, <2>3, DroppedInHand DEF ReadAttempts
  <2> QED BY <2>2, <2>3
<1> QED BY <1>2, <1>3, <1>4, <1>5, <1>6

\* What a producer makes of a row fits, whatever row there was.
LEMMA ProducedRow ==
  ASSUME NEW r \in Row, AttemptsFit(r), NEW req \in Request, faults \in Nat
  PROVE  /\ AttemptsFit(NewRow(req)) /\ AttemptsFit(UpsertRow(r, req))
         /\ NewRow(req).status = "pending"
         /\ UpsertRow(r, req).status = "sending" => UpsertRow(r, req) = r
<1>1. MaxAttempts \in Nat \ {0} /\ r.attempts \in Nat
  BY OutboxAssumption DEF OutboxAssumption, Row
<1>2. AttemptsFit(NewRow(req)) /\ NewRow(req).status = "pending"
  BY <1>1 DEF AttemptsFit, NewRow
<1>3. AttemptsFit(UpsertRow(r, req)) /\ (UpsertRow(r, req).status = "sending" => UpsertRow(r, req) = r)
  <2>1. CASE r.status \in {"sent", "sending"}
    BY <2>1 DEF UpsertRow
  <2>2. CASE r.status = "cancelled" /\ ~req.reactivate
    <3> DEFINE q == [r EXCEPT !.source = req.source, !.content = req.content,
                              !.wait = req.wait, !.delivered = 0]
    <3>1. UpsertRow(r, req) = q
      BY <2>2 DEF UpsertRow
    <3>2. q.status = r.status /\ q.attempts = r.attempts
      BY DEF Row
    <3> QED BY <2>2, <3>1, <3>2 DEF AttemptsFit
  <2>3. CASE r.status \notin {"sent", "sending"} /\ ~(r.status = "cancelled" /\ ~req.reactivate)
    <3> DEFINE q == [NewRow(req) EXCEPT !.delivered = UpsertDelivered(r, req)]
    <3>1. UpsertRow(r, req) = q
      BY <2>3 DEF UpsertRow
    <3>2. q.status = "pending" /\ q.attempts = 0
      BY DEF NewRow
    <3> QED BY <1>1, <3>1, <3>2 DEF AttemptsFit
  <2> QED BY <2>1, <2>2, <2>3
<1> QED BY <1>2, <1>3

LEMMA CancelledRow ==
  ASSUME NEW r \in Row, AttemptsFit(r)
  PROVE  AttemptsFit(CancelRow(r)) /\ (CancelRow(r).status # "sending" \/ CancelRow(r) = r)
<1>1. CASE r.status \in Open
  <2> DEFINE q == [r EXCEPT !.status = "cancelled", !.lockedBy = None, !.age = 0]
  <2>1. CancelRow(r) = q
    BY <1>1 DEF CancelRow
  <2>2. q.status = "cancelled" /\ q.attempts = r.attempts
    BY DEF Row
  <2> QED BY <2>1, <2>2 DEF AttemptsFit
<1>2. CASE r.status \notin Open
  BY <1>2 DEF CancelRow
<1> QED BY <1>1, <1>2

\* Each row is as it was, or fits and is not being sent.
LEMMA ChangedRows ==
  ASSUME IInv, LeasesFit, UNCHANGED <<batch, job, faults>>,
         \A k \in Keys : row'[k] = row[k] \/ (AttemptsFit(row'[k]) /\ row'[k].status # "sending")
  PROVE  LeasesFit'
<1> SUFFICES ASSUME NEW k \in Keys PROVE (AttemptsFit(row[k]) /\ LeaseFits(k))'
  BY DEF LeasesFit
<1>1. AttemptsFit(row[k]) /\ LeaseFits(k)
  BY DEF LeasesFit
<1>2. CASE row'[k] = row[k]
  BY <1>1, <1>2 DEF AttemptsFit, LeaseFits, InHand
<1>3. CASE AttemptsFit(row'[k]) /\ row'[k].status # "sending"
  BY <1>3 DEF AttemptsFit, LeaseFits
<1> QED BY <1>2, <1>3

LEMMA ProduceLeases ==
  ASSUME IInv, LeasesFit, Produce
  PROVE  LeasesFit'
<1>1. /\ row \in [Keys -> Row] /\ faults \in Nat /\ \A k \in Keys : AttemptsFit(row[k])
      /\ UNCHANGED <<batch, job, faults>>
  BY DEF IInv, TypeOK, LeasesFit, Produce, Upsert, InsertIfAbsent, CancelBySource,
         CancelBySourceType, worker
<1>2. ASSUME NEW k \in Keys, NEW req \in Request, Upsert(k, req) \/ InsertIfAbsent(k, req)
      PROVE  LeasesFit'
  <2>1. /\ row'[k] = UpsertRow(row[k], req) \/ row'[k] = NewRow(req)
        /\ \A q \in Keys \ {k} : row'[q] = row[q]
    BY <1>1, <1>2 DEF Upsert, InsertIfAbsent
  <2> QED BY <1>1, <2>1, ProducedRow, ChangedRows
<1>3. ASSUME NEW S \in SUBSET Keys, row' = [k \in Keys |-> IF k \in S THEN CancelRow(row[k]) ELSE row[k]]
      PROVE  LeasesFit'
  BY <1>1, <1>3, CancelledRow, ChangedRows
<1>4. ASSUME NEW s \in Sources, CancelBySource(s) PROVE LeasesFit'
  <2>1. row' = [k \in Keys |-> IF k \in {q \in Keys : row[q].source = s} THEN CancelRow(row[k]) ELSE row[k]]
    BY <1>4 DEF CancelBySource
  <2> QED BY <1>3, <2>1
<1>5. ASSUME NEW t \in Types, CancelBySourceType(t) PROVE LeasesFit'
  <2>1. row' = [k \in Keys |-> IF k \in {q \in Keys : TypeOf[row[q].source] = t} THEN CancelRow(row[k]) ELSE row[k]]
    BY <1>5 DEF CancelBySourceType
  <2> QED BY <1>3, <2>1
<1> QED BY <1>2, <1>4, <1>5 DEF Produce

\* A claimed row is in the hand of its new holder, its lease fresh.
LEMMA ClaimLeases ==
  ASSUME IInv, LeasesFit, NEW w \in Workers, ClaimDue(w)
  PROVE  LeasesFit'
<1>1. /\ row \in [Keys -> Row] /\ batch \in [Workers -> SUBSET Task] /\ job \in [Workers -> Task \cup {None}]
      /\ faults \in Nat /\ faults' = faults /\ job' = job
      /\ batch[w] = {} /\ job[w] = None
      /\ MaxAttempts \in Nat /\ LockTimeout \in Nat \ {0}
  BY OutboxAssumption DEF OutboxAssumption, IInv, TypeOK, HandOK, HandAt, Busy, ClaimDue
<1>2. PICK S \in SUBSET Keys :
        /\ IsBatch(S)
        /\ row' = [k \in Keys |-> IF k \in S THEN ClaimedRow(row[k], w) ELSE row[k]]
        /\ batch' = [batch EXCEPT ![w] =
             {[key |-> k, content |-> row[k].content, part |-> row[k].delivered] : k \in S}]
  BY DEF ClaimDue
<1> SUFFICES ASSUME NEW k \in Keys PROVE (AttemptsFit(row[k]) /\ LeaseFits(k))'
  BY DEF LeasesFit
<1>3. /\ row[k] \in Row /\ row[k].attempts \in Nat /\ row[k].age \in Nat
      /\ AttemptsFit(row[k]) /\ LeaseFits(k)
  BY <1>1 DEF Row, LeasesFit
<1>4. CASE k \in S
  <2>1. Due(row[k])
    BY <1>2, <1>4 DEF IsBatch, DueKeys
  <2>2. row[k].attempts < MaxAttempts + faults
    BY <1>1, <1>3, <2>1 DEF Due, Stale, AttemptsFit, LeaseFits
  <2>3. /\ row'[k].status = "sending" /\ row'[k].attempts = row[k].attempts + 1
        /\ row'[k].lockedBy = w /\ row'[k].age = 0
    <3> DEFINE r == row[k]
               q == [r EXCEPT !.status = "sending", !.attempts = r.attempts + 1]
    <3>1. row'[k] = [q EXCEPT !.lockedBy = w, !.age = 0]
      BY <1>2, <1>4 DEF ClaimedRow
    <3>2. r.attempts + 1 \in Nat
      BY <1>3
    <3>3. q \in Row /\ q.status = "sending" /\ q.attempts = r.attempts + 1
      BY <1>3, <3>2 DEF Row, Status
    <3> HIDE DEF q
    <3> QED BY <3>1, <3>3 DEF Row
  <2>4. InHand(w, k)'
    <3> DEFINE t == [key |-> k, content |-> row[k].content, part |-> row[k].delivered]
    <3>1. t \in batch'[w] /\ t.key = k
      BY <1>1, <1>2, <1>4
    <3> QED BY <3>1 DEF InHand
  <2>5. InHand(row[k].lockedBy, k)'
    BY <2>3, <2>4 DEF InHand
  <2> QED BY <1>1, <1>3, <2>2, <2>3, <2>5 DEF AttemptsFit, LeaseFits
<1>5. CASE k \notin S
  <2>1. row'[k] = row[k]
    BY <1>2, <1>5
  <2>2. \A v \in Workers : InHand(v, k) => InHand(v, k)'
    BY <1>1, <1>2 DEF InHand
  <2>3. row[k].status = "sending" => row[k].lockedBy \in Workers
    BY DEF IInv, TypeOK, Row
  <2>4. row[k].status = "sending" /\ InHand(row[k].lockedBy, k) => InHand(row[k].lockedBy, k)'
    BY <2>1, <2>2, <2>3 DEF InHand
  <2> QED BY <1>1, <1>3, <2>1, <2>4 DEF AttemptsFit, LeaseFits
<1> QED BY <1>4, <1>5

\* Progress is written under the lease, and makes it fresh.
LEMMA RecordLeases ==
  ASSUME IInv, LeasesFit, NEW w \in Workers, MarkPartDelivered(w)
  PROVE  LeasesFit'
<1>1. /\ row \in [Keys -> Row] /\ faults \in Nat /\ faults' = faults /\ batch' = batch
      /\ job \in [Workers -> Task \cup {None}] /\ job[w] \in Task /\ job[w] # None /\ job[w].key \in Keys
      /\ LockTimeout \in Nat \ {0}
  BY OutboxAssumption DEF OutboxAssumption, IInv, TypeOK, HandOK, HandAt, Busy, MarkPartDelivered, Task
<1>2. CASE ~HoldsAt(w, job[w])
  <2>1. ~Holds(w, job[w]) /\ Drop(w) /\ row' = row
    BY <1>1, <1>2 DEF HoldsAt, IInv, SnapshotOK, Hand, MarkPartDelivered
  <2>2. \A k \in Keys, v \in Workers :
          row[k].status = "sending" /\ row[k].lockedBy = v /\ InHand(v, k) => InHand(v, k)'
    BY <1>1, <2>1, DroppedInHand
  <2> QED BY <1>1, <2>1, <2>2, KeptRows
<1>3. CASE HoldsAt(w, job[w])
  <2> DEFINE t == job[w]
             n == [t EXCEPT !.part = @ + 1]
             r == row[t.key]
  <2>1. /\ job' = [job EXCEPT ![w] = n]
        /\ row' = [row EXCEPT ![t.key] = [r EXCEPT !.delivered = @ + 1, !.age = 0]]
    BY <1>1, <1>3 DEF MarkPartDelivered, Row
  <2>2. n.key = t.key /\ n # None
    <3>1. n \in Task /\ n.key = t.key
      BY <1>1 DEF Task
    <3> QED BY <3>1, OutboxAssumption DEF OutboxAssumption
  <2>3. \A k \in Keys : /\ row'[k].status = row[k].status /\ row'[k].attempts = row[k].attempts
                        /\ row'[k].lockedBy = row[k].lockedBy
                        /\ row'[k].age = row[k].age \/ row'[k].age = 0
    <3>1. r \in Row
      BY <1>1
    <3> DEFINE q == [r EXCEPT !.delivered = @ + 1, !.age = 0]
    <3>2. q.status = r.status /\ q.attempts = r.attempts /\ q.lockedBy = r.lockedBy /\ q.age = 0
      BY <3>1 DEF Row
    <3> HIDE DEF q
    <3>3. row' = [row EXCEPT ![t.key] = q]
      BY <2>1 DEF q
    <3> QED BY <1>1, <3>2, <3>3
  <2>4. \A k \in Keys, v \in Workers : InHand(v, k) => InHand(v, k)'
    BY <1>1, <2>1, <2>2 DEF InHand
  <2> HIDE DEF n
  <2> QED BY <1>1, <2>3, <2>4, KeptRows
<1> QED BY <1>2, <1>3

\* The row of a task that is finished or fails is not being sent any more.
LEMMA SettleLeases ==
  ASSUME IInv, LeasesFit, NEW w \in Workers, MarkSent(w) \/ MarkFailed(w)
  PROVE  LeasesFit'
<1>1. /\ row \in [Keys -> Row] /\ faults \in Nat /\ faults' = faults /\ batch' = batch
      /\ job \in [Workers -> Task \cup {None}] /\ job[w] \in Task /\ job[w] # None /\ job[w].key \in Keys
      /\ MaxAttempts \in Nat
  BY OutboxAssumption DEF OutboxAssumption, IInv, TypeOK, HandOK, HandAt, Busy, MarkSent, MarkFailed, Task
<1>2. CASE row' = row /\ Drop(w) /\ ~Holds(w, job[w])
  <2>1. \A k \in Keys, v \in Workers :
          row[k].status = "sending" /\ row[k].lockedBy = v /\ InHand(v, k) => InHand(v, k)'
    BY <1>1, <1>2, DroppedInHand
  <2> QED BY <1>1, <1>2, <2>1, KeptRows
<1>3. CASE /\ Holds(w, job[w]) /\ (job' = job \/ Drop(w))
           /\ \E q \in {SentRow(row[job[w].key]), FailedRow(row[job[w].key])} : row' = [row EXCEPT ![job[w].key] = q]
  <2> DEFINE k == job[w].key
             r == row[k]
  <2>1. r \in Row /\ AttemptsFit(r) /\ r.attempts \in Nat
    BY <1>1 DEF LeasesFit, Row
  <2>2. SentRow(r).status = "sent" /\ SentRow(r).attempts = r.attempts
    BY <2>1 DEF SentRow, Row
  <2>3. /\ FailedRow(r).attempts = r.attempts
        /\ FailedRow(r).status = IF r.attempts >= MaxAttempts THEN "failed" ELSE "retry"
    BY <1>1, <2>1 DEF FailedRow, Row
  <2>4. \A q \in {SentRow(r), FailedRow(r)} : AttemptsFit(q) /\ q.status # "sending"
    BY <1>1, <2>1, <2>2, <2>3 DEF AttemptsFit
  <2>5. /\ AttemptsFit(row'[k]) /\ row'[k].status # "sending"
        /\ \A p \in Keys \ {k} : row'[p] = row[p]
    BY <1>1, <1>3, <2>4
  <2> SUFFICES ASSUME NEW p \in Keys PROVE (AttemptsFit(row[p]) /\ LeaseFits(p))'
    BY DEF LeasesFit
  <2>6. CASE p = k
    BY <1>1, <2>5, <2>6 DEF AttemptsFit, LeaseFits
  <2>7. CASE p # k
    <3>1. AttemptsFit(row[p]) /\ LeaseFits(p) /\ row'[p] = row[p]
      BY <2>5, <2>7 DEF LeasesFit
    <3>2. \A v \in Workers : InHand(v, p) => InHand(v, p)'
      BY <1>1, <1>3, <2>7 DEF InHand, Drop
    <3>3. row[p].status = "sending" => row[p].lockedBy \in Workers
      BY DEF IInv, TypeOK, Row
    <3>4. row[p].status = "sending" /\ InHand(row[p].lockedBy, p) => InHand(row[p].lockedBy, p)'
      BY <3>1, <3>2, <3>3 DEF InHand
    <3> QED BY <1>1, <3>1, <3>4 DEF AttemptsFit, LeaseFits
  <2> QED BY <2>6, <2>7
<1>4. CASE MarkSent(w)
  <2>1. ~HoldsAt(w, job[w]) => ~Holds(w, job[w])
    BY <1>1 DEF HoldsAt, IInv, SnapshotOK, Hand
  <2> QED BY <1>2, <1>3, <1>4, <2>1 DEF MarkSent, HoldsAt
<1>5. CASE MarkFailed(w)
  BY <1>2, <1>3, <1>5 DEF MarkFailed
<1> QED BY <1>4, <1>5

\* A fault pays for the attempt its lease may cost.
LEMMA FaultLeases ==
  ASSUME IInv, LeasesFit, \E w \in Workers : DatabaseError(w) \/ Crash(w)
  PROVE  LeasesFit'
<1>1. row' = row /\ faults \in Nat /\ faults' = faults + 1
  BY DEF IInv, TypeOK, DatabaseError, Crash, Fault
<1> QED BY <1>1, KeptRows

LEMMA TickLeases ==
  ASSUME IInv, LeasesFit, Tick
  PROVE  LeasesFit'
<1>1. /\ row \in [Keys -> Row] /\ faults \in Nat /\ faults' \in Nat /\ faults' >= faults
      /\ UNCHANGED <<batch, job>> /\ LockTimeout \in Nat \ {0}
      /\ OutrunsLease => faults' > faults
      /\ row' = [k \in Keys |-> TickRow(row[k])]
  BY OutboxAssumption DEF OutboxAssumption, IInv, TypeOK, Tick, Fault, worker
<1>2. ASSUME NEW k \in Keys
      PROVE  /\ row'[k].status = row[k].status /\ row'[k].attempts = row[k].attempts
             /\ row'[k].lockedBy = row[k].lockedBy
             /\ row[k].status = "sending" /\ row[k].age < LockTimeout => row'[k].age = row[k].age + 1
  <2>1. row[k] \in Row /\ row'[k] = TickRow(row[k])
    BY <1>1
  <2> QED BY <2>1 DEF TickRow, Row
<1> SUFFICES ASSUME NEW k \in Keys PROVE (AttemptsFit(row[k]) /\ LeaseFits(k))'
  BY DEF LeasesFit
<1>3. /\ AttemptsFit(row[k]) /\ LeaseFits(k) /\ row[k].attempts \in Nat /\ row[k].age \in Nat
      /\ MaxAttempts \in Nat
  BY <1>1, ConstTypes DEF LeasesFit, Row
<1>4. AttemptsFit(row[k])'
  BY <1>1, <1>2, <1>3 DEF AttemptsFit
<1>5. ASSUME row'[k].status = "sending" PROVE LeaseFits(k)'
  <2> DEFINE v == row[k].lockedBy
  <2>1. v \in Workers /\ row'[k].lockedBy = v /\ row[k].status = "sending"
    BY <1>2, <1>5 DEF IInv, TypeOK, Row
  <2>2. InHand(v, k) => InHand(row[k].lockedBy, k)' /\ Alive(v)
    <3>1. InHand(v, k) => Alive(v)
      BY <2>1 DEF InHand, Alive, IInv, HandOK, HandAt, Busy
    <3> QED BY <1>1, <2>1, <3>1 DEF InHand
  <2>3. CASE faults > 0 /\ row[k].attempts < MaxAttempts + faults
    BY <1>1, <1>2, <1>3, <2>3 DEF LeaseFits
  <2>4. CASE row[k].age < LockTimeout /\ InHand(v, k)
    <3>1. CASE row[k].age = LockTimeout - 1
      <4>1. OutrunsLease
        BY <2>1, <2>2, <2>4, <3>1 DEF OutrunsLease
      <4> QED BY <1>1, <1>2, <1>3, <4>1 DEF LeaseFits, AttemptsFit
    <3>2. CASE row[k].age # LockTimeout - 1
      <4>1. row'[k].age < LockTimeout
        BY <1>1, <1>2, <1>3, <2>1, <2>4, <3>2
      <4> QED BY <2>2, <2>4, <4>1 DEF LeaseFits
    <3> QED BY <3>1, <3>2
  <2> QED BY <1>3, <2>1, <2>3, <2>4 DEF LeaseFits
<1> QED BY <1>4, <1>5 DEF LeaseFits

\* A row that keeps failing is given up at max_attempts, a claim beyond it taking
\* over a stale lease, one for each fault at most; and without a fault a row that
\* is being sent is in the hand of its lease holder, so that no early return of
\* deliver or run_once forgets a task (claim_due, mark_failed, run_once).
THEOREM LeasesStaySound == Spec => []LeasesAreSound
<1>1. Init => LeasesFit
  BY ConstTypes DEF Init, LeasesFit, AttemptsFit, LeaseFits, NoRow, Absent
<1>2. IInv /\ LeasesFit /\ [Next]_vars => LeasesFit'
  <2> SUFFICES ASSUME IInv, LeasesFit, [Next]_vars PROVE LeasesFit'
    OBVIOUS
  <2>1. CASE UNCHANGED vars
    BY <2>1, ChangedRows DEF vars
  <2>2. ASSUME NEW w \in Workers, Work(w) PROVE LeasesFit'
    BY <2>2, ClaimLeases, WorkLeases, RecordLeases, SettleLeases DEF Work
  <2> QED BY <2>1, <2>2, ProduceLeases, FaultLeases, TickLeases DEF Next
<1>3. IInv /\ LeasesFit => LeasesAreSound
  BY DEF IInv, TypeOK, LeasesFit, AttemptsFit, LeaseFits, LeasesAreSound, AttemptsBounded, LeaseInHand
<1> QED BY <1>1, <1>2, <1>3, Invariance, PTL DEF Spec
=============================================================================

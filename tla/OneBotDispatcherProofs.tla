----------------------- MODULE OneBotDispatcherProofs -----------------------
(***************************************************************************)
(* Proofs about OneBotDispatcher, for any number of deliveries, scopes and *)
(* keys, any limits and any number of panics and expiries.                 *)
(***************************************************************************)
EXTENDS OneBotDispatcher, FiniteSetTheorems, SequenceTheorems, TLAPS

-----------------------------------------------------------------------------
(* The inductive invariant. *)

Stages == Holding \cup {"unborn", "gone"}
Worker == [stage : Stages, scope : Scopes \cup {None}, rx : Seq(Deliveries),
           hand : Deliveries \cup {None}]
Fates == {"new", "reserved", "accepted", "done", "refused", "duplicate", "lost"}
Marks == {Dedupe!Free, Dedupe!Committed} \cup {Dedupe!Reserved(d) : d \in Deliveries}

Types ==
  /\ seen \in [Keys -> Marks]
  /\ scopes \in [Scopes -> {0} \cup Gens]
  /\ worker \in [Gens -> Worker]
  /\ fate \in [Deliveries -> Fates]
  /\ accepting \in BOOLEAN /\ cancelled \in BOOLEAN
  /\ closing \in {"no", "cancel", "wait", "abort", "done"}
  /\ panics \in 0 .. MaxPanics
  /\ expiries \in 0 .. MaxExpiries

\* What a worker has at each of its stages.
Fits(w) ==
  /\ w.stage \in {"took", "handling"} <=> w.hand # None
  /\ w.stage \in {"unborn", "gone"} => w.rx = <<>>
  /\ w.stage # "unborn" => w.scope # None
  /\ Len(w.rx) <= Capacity

WorkersFit ==
  \A g \in Gens :
    /\ Fits(worker[g])
    /\ worker[g].stage = "unborn" => worker[g] = Unborn

\* The deliveries that were accepted, whatever came of them.
Taken == {d \in Deliveries : fate[d] \in {"accepted", "done", "lost"}}

\* Generations are given out in order, each with a delivery of its own.
Born == {g \in Gens : worker[g].stage # "unborn"}

BirthsFit ==
  /\ Born = 1 .. Cardinality(Born)
  /\ Cardinality(Born) <= Cardinality(Taken)

\* The entry of a scope is of a worker of that scope.
EntriesFit == \A s \in Entries : worker[scopes[s]].scope = s

\* The messages a worker still has.
Has(w) == {d \in Deliveries : d = w.hand \/ \E i \in 1 .. Len(w.rx) : w.rx[i] = d}

\* A worker has only accepted messages, and one that is neither done nor lost is had.
FatesFit ==
  /\ \A g \in Gens : Has(worker[g]) \subseteq Taken
  /\ \A d \in Deliveries : fate[d] = "accepted" => \E g \in Gens : d \in Has(worker[g])

\* A reservation is that of the delivery in enqueue, on all of its keys; the key
\* of an accepted one is committed until it expires.
KeysFit ==
  /\ \A d \in Deliveries : fate[d] = "reserved" => \A k \in KeyOf[d] : seen[k] = Dedupe!Reserved(d)
  /\ \A k \in Keys, d \in Deliveries :
       seen[k] = Dedupe!Reserved(d) => fate[d] = "reserved" /\ k \in KeyOf[d]
  /\ expiries = 0 => \A d \in Taken : \A k \in KeyOf[d] : seen[k] = Dedupe!Committed
  /\ expiries = 0 => \A d, e \in Taken : KeyOf[d] \cap KeyOf[e] # {} => d = e

\* The order shutdown() keeps; a worker leaves its loop for a reason.
ClosingFits ==
  /\ closing # "no" => ~accepting
  /\ closing \in {"wait", "abort", "done"} => cancelled
  /\ \A g \in Gens : worker[g].stage = "leaving" => panics > 0 \/ cancelled

IInv ==
  /\ Types
  /\ WorkersFit
  /\ BirthsFit
  /\ EntriesFit
  /\ FatesFit
  /\ KeysFit
  /\ ClosingFits
  /\ EntryHasReceiver
  /\ LossHasCause
  /\ ShutdownIsFinal

-----------------------------------------------------------------------------
(* Facts about the model's operators. *)

LEMMA ConstTypes ==
  /\ IsFiniteSet(Deliveries) /\ ScopeOf \in [Deliveries -> Scopes]
  /\ KeyOf \in [Deliveries -> SUBSET Keys]
  /\ Capacity \in Nat /\ Capacity > 0
  /\ MaxScopes \in Nat /\ MaxPanics \in Nat /\ MaxExpiries \in Nat
  /\ None \notin Deliveries /\ None \notin Scopes
  BY OneBotAssumption DEF OneBotAssumption

\* There is a generation for each delivery, and none is 0.
LEMMA GensType ==
  /\ Cardinality(Deliveries) \in Nat
  /\ Gens \subseteq Nat \ {0}
  BY ConstTypes, FS_CardinalityType DEF Gens

LEMMA BornType ==
  IsFiniteSet(Born) /\ Cardinality(Born) \in Nat
<1>1. IsFiniteSet(Gens)
  BY GensType, FS_Interval DEF Gens
<1>2. Born \subseteq Gens
  BY DEF Born
<1> QED BY <1>1, <1>2, FS_Subset, FS_CardinalityType

LEMMA MarksDiffer ==
  /\ Dedupe!Free # Dedupe!Committed
  /\ \A d \in Deliveries : Dedupe!Reserved(d) \notin {Dedupe!Free, Dedupe!Committed}
  /\ \A d, e \in Deliveries : Dedupe!Reserved(d) = Dedupe!Reserved(e) => d = e
  BY DEF Dedupe!Free, Dedupe!Committed, Dedupe!Reserved

LEMMA UnbornFits ==
  /\ Unborn \in Worker /\ Fits(Unborn) /\ Has(Unborn) = {}
  /\ Unborn.stage = "unborn" /\ Unborn.scope = None /\ Unborn.rx = <<>> /\ Unborn.hand = None
<1>1. Unborn \in Worker /\ Fits(Unborn)
  BY ConstTypes DEF Unborn, Worker, Stages, Holding, Fits
<1>2. Has(Unborn) = {}
  BY ConstTypes DEF Unborn, Has
<1> QED BY <1>1, <1>2 DEF Unborn

\* The fields of a worker.
LEMMA WorkerType ==
  ASSUME NEW w \in Worker
  PROVE  /\ w.stage \in Stages /\ w.scope \in Scopes \cup {None}
         /\ w.rx \in Seq(Deliveries) /\ Len(w.rx) \in Nat
         /\ w.hand \in Deliveries \cup {None}
         /\ Has(w) \subseteq Deliveries
  BY DEF Worker, Has

\* What a worker has when a message is taken from the head of its channel.
LEMMA TakingKeeps ==
  ASSUME NEW q \in Seq(Deliveries), q # <<>>
  PROVE  /\ Head(q) \in Deliveries /\ Tail(q) \in Seq(Deliveries) /\ Len(Tail(q)) = Len(q) - 1
         /\ \A d : (\E i \in 1 .. Len(q) : q[i] = d)
              <=> d = Head(q) \/ \E i \in 1 .. Len(Tail(q)) : Tail(q)[i] = d
<1>1. /\ Head(q) \in Deliveries /\ Tail(q) \in Seq(Deliveries) /\ Len(Tail(q)) = Len(q) - 1
      /\ Len(q) \in Nat \ {0} /\ Head(q) = q[1]
      /\ \A i \in 1 .. Len(Tail(q)) : Tail(q)[i] = q[i + 1]
  BY EmptySeq, HeadTailProperties
<1>2. ASSUME NEW d, NEW i \in 1 .. Len(q), q[i] = d
      PROVE  d = Head(q) \/ \E j \in 1 .. Len(Tail(q)) : Tail(q)[j] = d
  <2>1. CASE i = 1  BY <2>1, <1>1, <1>2
  <2>2. CASE i # 1
    <3>1. i - 1 \in 1 .. Len(Tail(q)) /\ Tail(q)[i - 1] = q[i]  BY <2>2, <1>1
    <3> QED BY <3>1, <1>2
  <2> QED BY <2>1, <2>2
<1>3. ASSUME NEW d, NEW i \in 1 .. Len(Tail(q)), Tail(q)[i] = d
      PROVE  \E j \in 1 .. Len(q) : q[j] = d
  <2>1. i + 1 \in 1 .. Len(q) /\ q[i + 1] = d  BY <1>1, <1>3
  <2> QED BY <2>1
<1>4. 1 \in 1 .. Len(q)  BY <1>1
<1> QED BY <1>1, <1>2, <1>3, <1>4

LEMMA AppendingAdds ==
  ASSUME NEW q \in Seq(Deliveries), NEW e \in Deliveries
  PROVE  /\ Append(q, e) \in Seq(Deliveries) /\ Len(Append(q, e)) = Len(q) + 1
         /\ \A d : (\E i \in 1 .. Len(Append(q, e)) : Append(q, e)[i] = d)
              <=> d = e \/ \E i \in 1 .. Len(q) : q[i] = d
<1> DEFINE r == Append(q, e)
<1>1. /\ r \in Seq(Deliveries) /\ Len(r) = Len(q) + 1 /\ Len(q) \in Nat
      /\ \A i \in 1 .. Len(q) : r[i] = q[i]
      /\ r[Len(q) + 1] = e
  BY AppendProperties
<1>2. ASSUME NEW d, NEW i \in 1 .. Len(r), r[i] = d
      PROVE  d = e \/ \E j \in 1 .. Len(q) : q[j] = d
  <2>1. i \in 1 .. Len(q) \/ i = Len(q) + 1  BY <1>1
  <2> QED BY <2>1, <1>1, <1>2
<1>3. \A i \in 1 .. Len(q) : i \in 1 .. Len(r)  BY <1>1
<1>4. Len(q) + 1 \in 1 .. Len(r)  BY <1>1
<1> QED BY <1>1, <1>2, <1>3, <1>4

-----------------------------------------------------------------------------
(* Steps of a worker. *)

\* What every step of worker g, which leaves it as w, has in common.
Moves(g, w) ==
  /\ worker[g].stage \in Holding
  /\ w \in Worker /\ Fits(w) /\ w.stage # "unborn" /\ w.scope = worker[g].scope
  /\ worker' = [worker EXCEPT ![g] = w]
  /\ Has(w) \subseteq Has(worker[g])
  /\ fate' \in [Deliveries -> Fates]
  /\ \A d \in Deliveries : fate'[d] = fate[d] \/ (d \in Has(worker[g]) /\ fate'[d] \in {"done", "lost"})
  /\ \A d \in Has(worker[g]) \ Has(w) : fate'[d] # "accepted"
  /\ \A d \in Deliveries : fate'[d] = "lost" => fate[d] = "lost" \/ panics' > 0 \/ cancelled
  /\ w.stage = "leaving" => panics' > 0 \/ cancelled
  /\ \/ scopes' = scopes /\ (w.stage = "gone" => ~Open)
     \/ w.stage = "gone" /\ RemoveGeneration(g)
  /\ panics' \in panics .. MaxPanics
  /\ UNCHANGED <<seen, accepting, cancelled, closing, expiries>>

LEMMA MovesKeepTaken ==
  ASSUME Types, FatesFit, NEW g \in Gens, NEW w, Moves(g, w)
  PROVE  Taken' = Taken
<1>1. \A d \in Has(worker[g]) : fate[d] \in {"accepted", "done", "lost"}
  BY DEF FatesFit, Taken
<1>2. \A d \in Deliveries :
        fate'[d] = fate[d] \/ (d \in Has(worker[g]) /\ fate'[d] \in {"done", "lost"})
  BY DEF Moves
<1>3. \A d \in Deliveries : fate'[d] \in {"accepted", "done", "lost"} <=> fate[d] \in {"accepted", "done", "lost"}
  BY <1>1, <1>2
<1> QED BY <1>3 DEF Taken

\* The number of accepted messages, and of what was done about them, is bounded.
LEMMA TakenType ==
  /\ Taken \subseteq Deliveries /\ IsFiniteSet(Taken)
  /\ Cardinality(Taken) \in Nat /\ Cardinality(Taken) <= Cardinality(Deliveries)
<1>1. Taken \subseteq Deliveries  BY DEF Taken
<1> QED BY <1>1, ConstTypes, FS_Subset, FS_CardinalityType

LEMMA MovesKeepIInv ==
  ASSUME IInv, NEW g \in Gens, NEW w, Moves(g, w)
  PROVE  IInv'
<1> USE DEF IInv
<1>0. Taken' = Taken
  BY MovesKeepTaken
<1>1. /\ worker \in [Gens -> Worker] /\ scopes \in [Scopes -> {0} \cup Gens] /\ g # 0
      /\ worker[g].stage \in Holding /\ w \in Worker /\ w.stage # "unborn"
      /\ w.scope = worker[g].scope /\ worker[g].scope \in Scopes
      /\ worker'[g] = w /\ \A h \in Gens : h # g => worker'[h] = worker[h]
  BY WorkerType, GensType DEF Moves, Types, WorkersFit, Fits, Holding
<1>2. /\ scopes[w.scope] = g
      /\ scopes' \in [Scopes -> {0} \cup Gens]
      /\ \A s \in Scopes : s # w.scope => scopes'[s] = scopes[s]
      /\ \/ scopes'[w.scope] = g /\ (w.stage = "gone" => ~Open)
         \/ scopes'[w.scope] = 0 /\ w.stage = "gone"
  BY <1>1 DEF Moves, RemoveGeneration, EntryHasReceiver
<1>3. Types'
  BY <1>1, <1>2 DEF Types, Moves
<1>4. WorkersFit'
  BY <1>1 DEF WorkersFit, Moves
<1>5. BirthsFit'
  <2>1. Born' = Born
    BY <1>1 DEF Born, Holding
  <2> QED BY <2>1, <1>0 DEF BirthsFit
<1>6. EntriesFit'
  <2> SUFFICES ASSUME NEW s \in Scopes, scopes'[s] # 0
               PROVE  worker'[scopes'[s]].scope = s
    BY DEF EntriesFit, Entries
  <2>1. CASE s = w.scope
    BY <2>1, <1>1, <1>2
  <2>2. CASE s # w.scope
    <3>1. scopes[s] # 0 /\ worker[scopes[s]].scope = s /\ scopes'[s] = scopes[s] /\ scopes[s] \in Gens
      BY <2>2, <1>2, <1>1 DEF EntriesFit, Entries
    <3> QED BY <3>1, <1>1
  <2> QED BY <2>1, <2>2
<1>7. FatesFit'
  <2>1. \A h \in Gens : Has(worker'[h]) \subseteq Taken
    BY <1>1 DEF FatesFit, Moves
  <2>2. ASSUME NEW d \in Deliveries, fate'[d] = "accepted"
        PROVE  \E h \in Gens : d \in Has(worker'[h])
    <3>1. fate[d] = "accepted"
      BY <2>2 DEF Moves
    <3>2. PICK h \in Gens : d \in Has(worker[h])
      BY <3>1 DEF FatesFit
    <3>3. h = g => d \in Has(w)
      BY <3>2, <2>2 DEF Moves
    <3> QED BY <3>2, <3>3, <1>1
  <2> QED BY <2>1, <2>2, <1>0 DEF FatesFit
<1>8. KeysFit'
  <2>1. \A d \in Deliveries : fate'[d] = "reserved" <=> fate[d] = "reserved"
    <3>1. \A d \in Has(worker[g]) : fate[d] # "reserved"  BY DEF FatesFit, Taken
    <3> QED BY <3>1 DEF Moves
  <2>2. seen' = seen /\ expiries' = expiries
    BY DEF Moves
  <2> QED BY <2>1, <2>2, <1>0 DEF KeysFit
<1>9. ClosingFits'
  <2>1. panics' \in Int /\ panics \in Int /\ panics' >= panics
    BY ConstTypes DEF Moves, Types
  <2>2. UNCHANGED <<accepting, cancelled, closing>> /\ (w.stage = "leaving" => panics' > 0 \/ cancelled)
    BY DEF Moves
  <2> QED BY <2>1, <2>2, <1>1 DEF ClosingFits
<1>10. EntryHasReceiver'
  <2>1. ASSUME NEW h \in Gens, worker'[h].stage \in Holding
        PROVE  scopes'[worker'[h].scope] = h
    <3>1. CASE h = g
      BY <3>1, <2>1, <1>1, <1>2 DEF Holding
    <3>2. CASE h # g
      <4>1. scopes[worker[h].scope] = h /\ worker'[h] = worker[h] /\ worker[h].scope \in Scopes \cup {None}
        BY <3>2, <2>1, <1>1, WorkerType DEF EntryHasReceiver
      <4>2. worker[h].scope \in Scopes
        BY <4>1, <2>1 DEF WorkersFit, Fits, Holding
      <4> QED BY <4>1, <4>2, <1>2, <3>2
    <3> QED BY <3>1, <3>2
  <2>2. ASSUME Open', NEW s \in Scopes, scopes'[s] # 0
        PROVE  worker'[scopes'[s]].stage \in Holding
    <3>0. Open
      BY <2>2 DEF Open, Moves
    <3>1. CASE s = w.scope
      BY <3>0, <3>1, <2>2, <1>1, <1>2, WorkerType DEF Stages
    <3>2. CASE s # w.scope
      <4>1. scopes'[s] = scopes[s] /\ scopes[s] \in Gens /\ worker[scopes[s]].stage \in Holding
            /\ worker[scopes[s]].scope = s
        BY <3>0, <3>2, <2>2, <1>1, <1>2 DEF EntryHasReceiver, EntriesFit, Entries
      <4> QED BY <4>1, <1>1, <3>2
    <3> QED BY <3>1, <3>2
  <2> QED BY <2>1, <2>2 DEF EntryHasReceiver, Entries
<1>11. LossHasCause'
  <2>1. panics' \in Int /\ panics \in Int /\ panics' >= panics /\ panics >= 0
    BY ConstTypes DEF Moves, Types
  <2> QED BY <2>1 DEF LossHasCause, Moves
<1>12. ShutdownIsFinal'
  BY <1>1 DEF ShutdownIsFinal, Holding, Moves
<1> QED BY <1>3, <1>4, <1>5, <1>6, <1>7, <1>8, <1>9, <1>10, <1>11, <1>12

-----------------------------------------------------------------------------
(* The steps of a worker are moves. *)

\* The two ways of taking a message.
Took(g) == [worker[g] EXCEPT !.stage = "took", !.hand = Head(worker[g].rx), !.rx = Tail(@)]
Ended(g) == [worker[g] EXCEPT !.stage = "gone", !.rx = <<>>, !.hand = None]
At(g, stage) == [worker[g] EXCEPT !.stage = stage]
Free(g, stage) == [worker[g] EXCEPT !.stage = stage, !.hand = None]

LEMMA FieldsOf ==
  ASSUME IInv, NEW g \in Gens
  PROVE  /\ worker[g] \in Worker /\ Fits(worker[g]) /\ Has(worker[g]) \subseteq Taken
         /\ worker[g].stage \in Stages
         /\ worker[g].rx \in Seq(Deliveries) /\ Len(worker[g].rx) \in Nat
         /\ worker[g].hand \in Deliveries \cup {None}
         /\ worker[g].stage # "unborn" => worker[g].scope \in Scopes
  BY WorkerType DEF IInv, Types, WorkersFit, Fits, FatesFit

LEMMA TookFits ==
  ASSUME IInv, NEW g \in Gens, worker[g].rx # <<>>, worker[g].stage \in {"receive", "expired"}
  PROVE  /\ Took(g) \in Worker /\ Fits(Took(g)) /\ Has(Took(g)) = Has(worker[g])
         /\ Took(g).stage = "took" /\ Took(g).scope = worker[g].scope
         /\ Took(g).hand = Head(worker[g].rx) /\ Took(g).rx = Tail(worker[g].rx)
<1> DEFINE v == worker[g]
           w == Took(g)
<1>1. /\ v \in Worker /\ v.rx \in Seq(Deliveries) /\ Len(v.rx) <= Capacity /\ v.hand = None
      /\ v.scope # None /\ Len(v.rx) \in Nat
  BY FieldsOf DEF Fits
<1>2. /\ Head(v.rx) \in Deliveries /\ Tail(v.rx) \in Seq(Deliveries) /\ Len(Tail(v.rx)) = Len(v.rx) - 1
      /\ \A d : (\E i \in 1 .. Len(v.rx) : v.rx[i] = d)
           <=> d = Head(v.rx) \/ \E i \in 1 .. Len(Tail(v.rx)) : Tail(v.rx)[i] = d
  BY <1>1, TakingKeeps
<1>3. /\ w \in Worker /\ w.stage = "took" /\ w.scope = v.scope
      /\ w.hand = Head(v.rx) /\ w.rx = Tail(v.rx)
  BY <1>1, <1>2 DEF Took, Worker, Stages, Holding
<1>4. Fits(w)
  BY <1>1, <1>2, <1>3, ConstTypes DEF Fits
<1>5. Has(w) = Has(v)
  BY <1>1, <1>2, <1>3, ConstTypes DEF Has
<1> QED BY <1>3, <1>4, <1>5

LEMMA EndedFits ==
  ASSUME IInv, NEW g \in Gens, worker[g].stage \in Holding
  PROVE  /\ Ended(g) \in Worker /\ Fits(Ended(g)) /\ Has(Ended(g)) = {}
         /\ Ended(g).stage = "gone" /\ Ended(g).scope = worker[g].scope
         /\ Ended(g).rx = <<>> /\ Ended(g).hand = None
<1>1. worker[g] \in Worker /\ worker[g].scope # None
  BY FieldsOf DEF Fits, Holding
<1>2. /\ Ended(g) \in Worker
      /\ Ended(g).stage = "gone" /\ Ended(g).scope = worker[g].scope
      /\ Ended(g).rx = <<>> /\ Ended(g).hand = None
  BY <1>1, EmptySeq DEF Ended, Worker, Stages
<1> QED BY <1>1, <1>2, ConstTypes DEF Fits, Has

LEMMA AtFits ==
  ASSUME IInv, NEW g \in Gens, NEW stage \in Holding, worker[g].stage \in Holding,
         stage \in {"took", "handling"} <=> worker[g].hand # None
  PROVE  /\ At(g, stage) \in Worker /\ Fits(At(g, stage)) /\ Has(At(g, stage)) = Has(worker[g])
         /\ At(g, stage).stage = stage /\ At(g, stage).scope = worker[g].scope
         /\ At(g, stage).rx = worker[g].rx /\ At(g, stage).hand = worker[g].hand
<1> DEFINE w == At(g, stage)
<1>1. worker[g] \in Worker /\ Fits(worker[g]) /\ worker[g].scope # None
  BY FieldsOf DEF Fits, Holding
<1>2. /\ w \in Worker /\ w.stage = stage /\ w.scope = worker[g].scope
      /\ w.rx = worker[g].rx /\ w.hand = worker[g].hand
  BY <1>1 DEF At, Worker, Stages
<1>3. stage \notin {"unborn", "gone"}
  BY DEF Holding
<1> HIDE DEF w
<1> QED BY <1>1, <1>2, <1>3 DEF Fits, Has, w

LEMMA FreeFits ==
  ASSUME IInv, NEW g \in Gens, NEW stage \in Holding \ {"took", "handling"}, worker[g].stage \in Holding
  PROVE  /\ Free(g, stage) \in Worker /\ Fits(Free(g, stage))
         /\ Has(Free(g, stage)) \subseteq Has(worker[g])
         /\ Has(worker[g]) \ Has(Free(g, stage)) \subseteq {worker[g].hand}
         /\ Free(g, stage).stage = stage /\ Free(g, stage).scope = worker[g].scope
         /\ Free(g, stage).rx = worker[g].rx /\ Free(g, stage).hand = None
<1> DEFINE w == Free(g, stage)
<1>1. worker[g] \in Worker /\ Fits(worker[g]) /\ worker[g].scope # None
  BY FieldsOf DEF Fits, Holding
<1>2. /\ w \in Worker /\ w.stage = stage /\ w.scope = worker[g].scope
      /\ w.rx = worker[g].rx /\ w.hand = None
  BY <1>1 DEF Free, Worker, Stages
<1>3. stage \notin {"unborn", "gone"}
  BY DEF Holding
<1>4. Fits(w)
  BY <1>1, <1>2, <1>3 DEF Fits
<1>5. Has(w) \subseteq Has(worker[g]) /\ Has(worker[g]) \ Has(w) \subseteq {worker[g].hand}
  BY <1>2, ConstTypes DEF Has
<1> QED BY <1>2, <1>4, <1>5

\* Panics counted are within their bound.
LEMMA PanicsType ==
  ASSUME IInv
  PROVE  /\ panics \in panics .. MaxPanics /\ panics \in Int /\ panics >= 0
         /\ panics < MaxPanics => panics + 1 \in panics .. MaxPanics /\ panics + 1 > 0
  BY ConstTypes DEF IInv, Types

LEMMA TakingMoves ==
  ASSUME IInv, NEW g \in Gens,
         worker[g].rx # <<>>, worker[g].stage \in {"receive", "expired"},
         worker' = [worker EXCEPT ![g].stage = "took", ![g].hand = Head(worker[g].rx), ![g].rx = Tail(@)],
         UNCHANGED <<seen, scopes, fate, accepting, cancelled, closing, panics, expiries>>
  PROVE  Moves(g, Took(g))
<1>1. worker' = [worker EXCEPT ![g] = Took(g)]
  BY DEF Took, IInv, Types
<1> QED BY <1>1, TookFits, PanicsType DEF Moves, Holding, IInv, Types

LEMMA StagingMoves ==
  ASSUME IInv, NEW g \in Gens, NEW stage \in Holding \ {"leaving"}, worker[g].stage \in Holding,
         stage \in {"took", "handling"} <=> worker[g].hand # None,
         worker' = [worker EXCEPT ![g].stage = stage],
         UNCHANGED <<seen, scopes, fate, accepting, cancelled, closing, panics, expiries>>
  PROVE  Moves(g, At(g, stage))
<1>1. worker' = [worker EXCEPT ![g] = At(g, stage)]
  BY DEF At, IInv, Types
<1> QED BY <1>1, AtFits, PanicsType DEF Moves, Holding, IInv, Types

LEMMA FinishMoves ==
  ASSUME IInv, NEW g \in Gens, FinishHandling(g)
  PROVE  Moves(g, Free(g, "receive"))
<1> USE DEF FinishHandling
<1>1. worker' = [worker EXCEPT ![g] = Free(g, "receive")]
  BY DEF Free, IInv, Types
<1>2. worker[g].stage \in Holding /\ "receive" \in Holding \ {"took", "handling"}
  BY DEF Holding
<1>3. worker[g].hand \in Has(worker[g])
  BY FieldsOf DEF Fits, Has
<1>4. /\ fate' \in [Deliveries -> Fates]
      /\ fate'[worker[g].hand] = "done"
      /\ \A d \in Deliveries : d # worker[g].hand => fate'[d] = fate[d]
  BY <1>3 DEF IInv, Types, Fates, Has
<1> DEFINE w == Free(g, "receive")
<1>5. /\ w \in Worker /\ Fits(w) /\ w.stage = "receive" /\ w.scope = worker[g].scope
      /\ Has(w) \subseteq Has(worker[g]) /\ Has(worker[g]) \ Has(w) \subseteq {worker[g].hand}
  BY <1>2, FreeFits
<1>6. /\ \A d \in Deliveries : fate'[d] = fate[d] \/ (d \in Has(worker[g]) /\ fate'[d] \in {"done", "lost"})
      /\ \A d \in Has(worker[g]) \ Has(w) : fate'[d] # "accepted"
      /\ \A d \in Deliveries : fate'[d] = "lost" => fate[d] = "lost"
  BY <1>3, <1>4, <1>5
<1>7. panics' \in panics .. MaxPanics
  BY PanicsType
<1> HIDE DEF w
<1>8. Moves(g, w)
  BY <1>1, <1>2, <1>4, <1>5, <1>6, <1>7 DEF Moves, w
<1> QED BY <1>8 DEF w

LEMMA LeaveLoopMoves ==
  ASSUME IInv, NEW g \in Gens, worker[g].stage \in {"receive", "took", "handling"}, LeaveLoop(g),
         panics' > 0 \/ cancelled, panics' \in panics .. MaxPanics
  PROVE  Moves(g, Free(g, "leaving"))
<1> USE DEF LeaveLoop
<1>1. worker' = [worker EXCEPT ![g] = Free(g, "leaving")]
  BY DEF Free, IInv, Types
<1>2. worker[g].stage \in Holding /\ "leaving" \in Holding \ {"took", "handling"}
  BY DEF Holding
<1>3. worker[g].hand \in Deliveries => worker[g].hand \in Has(worker[g])
  BY DEF Has
<1>4. /\ fate' \in [Deliveries -> Fates]
      /\ \A d \in Deliveries : fate'[d] = IF d = worker[g].hand THEN "lost" ELSE fate[d]
  BY DEF IInv, Types, Fates
<1> DEFINE w == Free(g, "leaving")
<1>5. /\ w \in Worker /\ Fits(w) /\ w.stage = "leaving" /\ w.scope = worker[g].scope
      /\ Has(w) \subseteq Has(worker[g]) /\ Has(worker[g]) \ Has(w) \subseteq {worker[g].hand}
      /\ Has(worker[g]) \subseteq Deliveries
  BY <1>2, FreeFits DEF Has
<1>6. /\ \A d \in Deliveries : fate'[d] = fate[d] \/ (d \in Has(worker[g]) /\ fate'[d] \in {"done", "lost"})
      /\ \A d \in Has(worker[g]) \ Has(w) : fate'[d] # "accepted"
      /\ \A d \in Deliveries : fate'[d] = "lost" => fate[d] = "lost" \/ panics' > 0 \/ cancelled
  BY <1>3, <1>4, <1>5
<1> HIDE DEF w
<1>8. Moves(g, w)
  BY <1>1, <1>2, <1>4, <1>5, <1>6 DEF Moves, w
<1> QED BY <1>8 DEF w

\* The end of a worker: what it still had is lost.
LEMMA EndMoves ==
  ASSUME IInv, NEW g \in Gens, worker[g].stage \in Holding, Ends(g),
         panics > 0 \/ cancelled \/ Has(worker[g]) = {},
         (scopes' = scopes /\ ~Open) \/ RemoveGeneration(g),
         UNCHANGED <<seen, accepting, cancelled, closing, panics, expiries>>
  PROVE  Moves(g, Ended(g))
<1>1. worker' = [worker EXCEPT ![g] = Ended(g)]
  BY DEF Ends, Ended, IInv, Types
<1>2. ToSet(worker[g].rx) = {worker[g].rx[i] : i \in 1 .. Len(worker[g].rx)}
  BY FieldsOf, LenProperties DEF ToSet
<1>3. \A d \in Deliveries : d \in ToSet(worker[g].rx) \cup {worker[g].hand} <=> d \in Has(worker[g])
  BY <1>2 DEF Has
<1>4. /\ fate' \in [Deliveries -> Fates]
      /\ \A d \in Deliveries : fate'[d] = IF d \in Has(worker[g]) THEN "lost" ELSE fate[d]
  BY <1>3 DEF Ends, IInv, Types, Fates
<1> QED BY <1>1, <1>4, EndedFits, PanicsType DEF Moves, Has

-----------------------------------------------------------------------------
(* Every step preserves the invariant. *)

LEMMA WorkersKeepIInv ==
  ASSUME IInv, NEW g \in Gens, WorkerStep(g) \/ Panic(g) \/ Aborted(g)
  PROVE  IInv'
<1>0. /\ worker[g].stage \in {"took", "handling"} <=> worker[g].hand # None
      /\ {"receive", "expired", "took", "handling"} \subseteq Holding \ {"leaving"}
  BY FieldsOf DEF Fits, Holding
<1>1. ASSUME Receive(g) PROVE IInv'
  BY <1>1, TakingMoves, MovesKeepIInv DEF Receive
<1>2. ASSUME IdleTimeout(g) PROVE IInv'
  <2>1. Moves(g, At(g, "expired"))
    BY <1>0, <1>2, StagingMoves DEF IdleTimeout
  <2> QED BY <2>1, MovesKeepIInv
<1>3. ASSUME RetireOrTake(g) PROVE IInv'
  <2>1. CASE worker[g].rx # <<>>
    BY <1>3, <2>1, TakingMoves, MovesKeepIInv DEF RetireOrTake
  <2>2. CASE worker[g].rx = <<>>
    <3>1. Has(worker[g]) = {}
      BY <1>0, <1>3, <2>2, ConstTypes DEF Has, RetireOrTake
    <3>2. Moves(g, Ended(g))
      BY <1>0, <1>3, <2>2, <3>1, EndMoves DEF RetireOrTake
    <3> QED BY <3>2, MovesKeepIInv
  <2> QED BY <2>1, <2>2
<1>4. ASSUME BeginHandling(g) PROVE IInv'
  <2>1. Moves(g, At(g, "handling"))
    BY <1>0, <1>4, StagingMoves DEF BeginHandling
  <2> QED BY <2>1, MovesKeepIInv
<1>5. ASSUME FinishHandling(g) PROVE IInv'
  BY <1>5, FinishMoves, MovesKeepIInv
<1>6. ASSUME Cancelled(g) PROVE IInv'
  <2>1. Moves(g, Free(g, "leaving"))
    BY <1>6, LeaveLoopMoves, PanicsType DEF Cancelled
  <2> QED BY <2>1, MovesKeepIInv
<1>7. ASSUME Leave(g) PROVE IInv'
  <2>1. worker[g].stage \in Holding /\ (panics > 0 \/ cancelled)
    BY <1>7 DEF Leave, IInv, ClosingFits, Holding
  <2>2. Moves(g, Ended(g))
    BY <1>7, <2>1, EndMoves DEF Leave
  <2> QED BY <2>2, MovesKeepIInv
<1>8. ASSUME Panic(g) PROVE IInv'
  <2>1. Moves(g, Free(g, "leaving"))
    BY <1>8, LeaveLoopMoves, PanicsType DEF Panic
  <2> QED BY <2>1, MovesKeepIInv
<1>9. ASSUME Aborted(g) PROVE IInv'
  <2>1. cancelled /\ ~Open
    BY <1>9 DEF Aborted, IInv, ClosingFits, Open
  <2>2. Moves(g, Ended(g))
    BY <1>0, <1>9, <2>1, EndMoves DEF Aborted
  <2> QED BY <2>2, MovesKeepIInv
<1> QED BY <1>1, <1>2, <1>3, <1>4, <1>5, <1>6, <1>7, <1>8, <1>9 DEF WorkerStep

\* The parts of the invariant that only speak of the workers and their entries.
LEMMA WorkersAlone ==
  ASSUME IInv, UNCHANGED <<scopes, worker>>
  PROVE  WorkersFit' /\ EntriesFit' /\ Born' = Born /\ Entries' = Entries
  BY DEF IInv, WorkersFit, EntriesFit, Entries, Born

\* A delivery that was not accepted is no worker's.
LEMMA NotHad ==
  ASSUME IInv, NEW d \in Deliveries, fate[d] \notin {"accepted", "done", "lost"}
  PROVE  \A g \in Gens : d \notin Has(worker[g])
  BY DEF IInv, FatesFit, Taken

\* A delivery is refused, or its reservation is made.
LEMMA ReserveKeeps ==
  ASSUME IInv, NEW d \in Deliveries, Reserve(d)
  PROVE  IInv'
<1> USE DEF IInv
<1>1. /\ fate[d] = "new" /\ fate' \in [Deliveries -> Fates]
      /\ fate'[d] \in {"refused", "duplicate", "reserved"}
      /\ \A e \in Deliveries : e # d => fate'[e] = fate[e]
  BY DEF Reserve, Types, Fates
<1>2. Taken' = Taken
  BY <1>1 DEF Taken
<1>3. UNCHANGED <<scopes, worker, accepting, cancelled, closing, panics, expiries>>
  BY DEF Reserve
<1>4. seen' \in [Keys -> Marks] /\ KeysFit'
  <2>1. CASE fate'[d] = "reserved"
    <3>1. /\ \A k \in KeyOf[d] : seen[k] = Dedupe!Free
          /\ seen' = [k \in Keys |-> IF k \in KeyOf[d] THEN Dedupe!Reserved(d) ELSE seen[k]]
      BY <2>1, <1>1 DEF Reserve, Dedupe!Reserve, Dedupe!Seen, Types
    <3>2. seen' \in [Keys -> Marks] /\ seen \in [Keys -> Marks]
      BY <3>1 DEF Types, Marks
    <3>3. \A e \in Deliveries : fate'[e] = "reserved" => \A k \in KeyOf[e] : seen'[k] = Dedupe!Reserved(e)
      <4> SUFFICES ASSUME NEW e \in Deliveries, fate'[e] = "reserved", NEW k \in KeyOf[e]
                   PROVE  seen'[k] = Dedupe!Reserved(e)
        OBVIOUS
      <4>1. k \in Keys
        BY ConstTypes
      <4>2. CASE e = d
        BY <3>1, <4>1, <4>2
      <4>3. CASE e # d
        <5>1. seen[k] = Dedupe!Reserved(e)
          BY <1>1, <4>3 DEF KeysFit
        <5> QED BY <5>1, <3>1, <4>1, MarksDiffer
      <4> QED BY <4>2, <4>3
    <3>4. \A k \in Keys, e \in Deliveries :
            seen'[k] = Dedupe!Reserved(e) => fate'[e] = "reserved" /\ k \in KeyOf[e]
      BY <1>1, <2>1, <3>1, MarksDiffer DEF KeysFit
    <3>5. expiries' = 0 => \A e \in Taken' : \A k \in KeyOf[e] : seen'[k] = Dedupe!Committed
      <4> SUFFICES ASSUME expiries = 0, NEW e \in Taken, NEW k \in KeyOf[e]
                   PROVE  seen'[k] = Dedupe!Committed
        BY <1>2, <1>3
      <4>1. e \in Deliveries /\ k \in Keys /\ seen[k] = Dedupe!Committed
        BY ConstTypes DEF Taken, KeysFit
      <4> QED BY <4>1, <3>1, MarksDiffer
    <3>6. expiries' = 0 => \A e, f \in Taken' : KeyOf[e] \cap KeyOf[f] # {} => e = f
      BY <1>2, <1>3 DEF KeysFit
    <3> QED BY <3>2, <3>3, <3>4, <3>5, <3>6 DEF KeysFit
  <2>2. CASE fate'[d] # "reserved"
    <3>1. seen' = seen
      BY <2>2, <1>1 DEF Reserve, Types
    <3> QED BY <3>1, <2>2, <1>1, <1>2, <1>3 DEF KeysFit, Types
  <2> QED BY <2>1, <2>2
<1>5. WorkersFit' /\ EntriesFit' /\ BirthsFit'
  BY <1>2, <1>3, WorkersAlone DEF BirthsFit
<1>6. FatesFit'
  BY <1>1, <1>2, <1>3 DEF FatesFit
<1>7. ClosingFits' /\ EntryHasReceiver'
  BY <1>3, WorkersAlone DEF ClosingFits, EntryHasReceiver, Open
<1>8. LossHasCause' /\ ShutdownIsFinal'
  BY <1>1, <1>3, WorkersAlone DEF LossHasCause, ShutdownIsFinal
<1>9. Types'
  BY <1>1, <1>3, <1>4 DEF Types
<1> QED BY <1>4, <1>5, <1>6, <1>7, <1>8, <1>9

LEMMA RefusedKeeps ==
  ASSUME IInv, NEW d \in Deliveries, fate[d] = "reserved", Refused(d),
         UNCHANGED <<accepting, cancelled, closing, panics, expiries>>
  PROVE  IInv'
<1> USE DEF IInv
<1>1. /\ fate' \in [Deliveries -> Fates] /\ fate'[d] = "refused"
      /\ \A e \in Deliveries : e # d => fate'[e] = fate[e]
  BY DEF Refused, Types, Fates
<1>2. Taken' = Taken
  BY <1>1 DEF Taken
<1>3. /\ UNCHANGED <<scopes, worker, accepting, cancelled, closing, panics, expiries>>
      /\ seen' = [k \in Keys |-> IF seen[k] = Dedupe!Reserved(d) THEN Dedupe!Free ELSE seen[k]]
  BY DEF Refused, Dedupe!Rollback, Dedupe!HeldBy
<1>4. seen \in [Keys -> Marks] /\ seen' \in [Keys -> Marks]
  BY <1>3 DEF Types, Marks
<1>5. KeysFit'
  <2>1. ASSUME NEW e \in Deliveries, fate'[e] = "reserved", NEW k \in KeyOf[e]
        PROVE  seen'[k] = Dedupe!Reserved(e)
    <3>1. e # d /\ k \in Keys /\ seen[k] = Dedupe!Reserved(e)
      BY <1>1, <2>1, ConstTypes DEF KeysFit
    <3> QED BY <3>1, <1>3, MarksDiffer
  <2>2. \A k \in Keys, e \in Deliveries :
          seen'[k] = Dedupe!Reserved(e) => fate'[e] = "reserved" /\ k \in KeyOf[e]
    BY <1>1, <1>3, MarksDiffer DEF KeysFit
  <2>3. ASSUME expiries = 0, NEW e \in Taken, NEW k \in KeyOf[e]
        PROVE  seen'[k] = Dedupe!Committed
    <3>1. e \in Deliveries /\ k \in Keys /\ seen[k] = Dedupe!Committed
      BY <2>3, ConstTypes DEF Taken, KeysFit
    <3> QED BY <3>1, <1>3, MarksDiffer
  <2> QED BY <2>1, <2>2, <2>3, <1>2, <1>3 DEF KeysFit
<1>6. WorkersFit' /\ EntriesFit' /\ BirthsFit'
  BY <1>2, <1>3, WorkersAlone DEF BirthsFit
<1>7. FatesFit'
  BY <1>1, <1>2, <1>3 DEF FatesFit
<1>8. ClosingFits' /\ EntryHasReceiver'
  BY <1>3, WorkersAlone DEF ClosingFits, EntryHasReceiver, Open
<1>9. LossHasCause' /\ ShutdownIsFinal'
  BY <1>1, <1>3, WorkersAlone DEF LossHasCause, ShutdownIsFinal
<1> QED BY <1>1, <1>3, <1>4, <1>5, <1>6, <1>7, <1>8, <1>9 DEF Types

\* What becomes of the fates and the keys when delivery d is accepted.
LEMMA AcceptedKeeps ==
  ASSUME IInv, NEW d \in Deliveries, fate[d] = "reserved", Accepted(d), expiries' = expiries
  PROVE  /\ fate' \in [Deliveries -> Fates] /\ fate'[d] = "accepted"
         /\ \A e \in Deliveries : e # d => fate'[e] = fate[e]
         /\ d \notin Taken /\ Taken' = Taken \cup {d}
         /\ Cardinality(Taken') = Cardinality(Taken) + 1
         /\ seen' \in [Keys -> Marks] /\ KeysFit'
<1> USE DEF IInv
<1>1. /\ fate' \in [Deliveries -> Fates] /\ fate'[d] = "accepted"
      /\ \A e \in Deliveries : e # d => fate'[e] = fate[e]
  BY DEF Accepted, Types, Fates
<1>2. d \notin Taken /\ Taken' = Taken \cup {d}
  BY <1>1 DEF Taken
<1>3. Cardinality(Taken') = Cardinality(Taken) + 1
  BY <1>2, TakenType, FS_AddElement
<1>4. /\ seen' = [k \in Keys |-> IF seen[k] = Dedupe!Reserved(d) THEN Dedupe!Committed ELSE seen[k]]
      /\ seen \in [Keys -> Marks]
  BY DEF Accepted, Dedupe!Commit, Dedupe!HeldBy, Types
<1>5. seen' \in [Keys -> Marks]
  BY <1>4 DEF Marks
<1>6. ASSUME NEW e \in Deliveries, fate'[e] = "reserved", NEW k \in KeyOf[e]
      PROVE  seen'[k] = Dedupe!Reserved(e)
  <2>1. e # d /\ k \in Keys /\ seen[k] = Dedupe!Reserved(e)
    BY <1>1, <1>6, ConstTypes DEF KeysFit
  <2> QED BY <2>1, <1>4, MarksDiffer
<1>7. \A k \in Keys, e \in Deliveries :
        seen'[k] = Dedupe!Reserved(e) => fate'[e] = "reserved" /\ k \in KeyOf[e]
  BY <1>1, <1>4, MarksDiffer DEF KeysFit
<1>8. ASSUME expiries = 0, NEW e \in Taken', NEW k \in KeyOf[e]
      PROVE  seen'[k] = Dedupe!Committed
  <2>1. e \in Deliveries /\ k \in Keys
    BY ConstTypes DEF Taken
  <2>2. seen[k] = IF e = d THEN Dedupe!Reserved(d) ELSE Dedupe!Committed
    BY <1>2, <1>8, <2>1 DEF KeysFit
  <2> QED BY <2>1, <2>2, <1>4
<1>9. ASSUME expiries = 0, NEW e \in Taken, KeyOf[d] \cap KeyOf[e] # {}
      PROVE  FALSE
  <2>1. PICK k \in KeyOf[d] \cap KeyOf[e] : TRUE
    BY <1>9
  <2>2. seen[k] = Dedupe!Reserved(d) /\ seen[k] = Dedupe!Committed
    BY <1>9 DEF KeysFit
  <2> QED BY <2>2, MarksDiffer
<1>10. expiries = 0 => \A e, f \in Taken' : KeyOf[e] \cap KeyOf[f] # {} => e = f
  BY <1>2, <1>9 DEF KeysFit
<1>11. KeysFit'
  BY <1>6, <1>7, <1>8, <1>10 DEF KeysFit
<1> QED BY <1>1, <1>2, <1>3, <1>5, <1>11

\* A delivery that no worker has is put to worker g of its scope, which becomes w
\* and may be a new one.
Joins(d, g, w) ==
  /\ w \in Worker /\ Fits(w) /\ w.stage \in Holding /\ w.scope = ScopeOf[d]
  /\ Has(w) = Has(worker[g]) \cup {d}
  /\ w.stage = "leaving" => worker[g].stage = "leaving"
  /\ worker' = [worker EXCEPT ![g] = w]
  /\ scopes' = [scopes EXCEPT ![ScopeOf[d]] = g]
  /\ scopes[ScopeOf[d]] \in {0, g}
  /\ \A h \in Gens : worker[h].scope = ScopeOf[d] /\ worker[h].stage \in Holding => h = g
  /\ \A s \in Entries : scopes[s] = g => s = ScopeOf[d]

LEMMA JoinsKeeps ==
  ASSUME IInv, NEW d \in Deliveries, NEW g \in Gens, NEW w,
         fate[d] = "reserved", Open, Accepted(d), Joins(d, g, w), BirthsFit',
         UNCHANGED <<accepting, cancelled, closing, panics, expiries>>
  PROVE  IInv'
<1> USE DEF IInv
<1>1. /\ fate' \in [Deliveries -> Fates] /\ fate'[d] = "accepted"
      /\ \A e \in Deliveries : e # d => fate'[e] = fate[e]
      /\ Taken' = Taken \cup {d} /\ seen' \in [Keys -> Marks] /\ KeysFit'
  BY AcceptedKeeps
<1>2. /\ worker \in [Gens -> Worker] /\ scopes \in [Scopes -> {0} \cup Gens] /\ g # 0
      /\ w \in Worker /\ ScopeOf[d] \in Scopes
      /\ worker'[g] = w /\ \A h \in Gens : h # g => worker'[h] = worker[h]
      /\ scopes'[ScopeOf[d]] = g /\ \A s \in Scopes : s # ScopeOf[d] => scopes'[s] = scopes[s]
      /\ w.stage \in Holding /\ w.scope = ScopeOf[d]
  BY ConstTypes, GensType DEF Joins, Types
<1>3. Types'
  BY <1>1, <1>2 DEF Types, Joins
<1>4. WorkersFit'
  BY <1>2 DEF WorkersFit, Joins, Holding
<1>5. EntriesFit'
  <2> SUFFICES ASSUME NEW s \in Scopes, scopes'[s] # 0
               PROVE  worker'[scopes'[s]].scope = s
    BY DEF EntriesFit, Entries
  <2>1. CASE s = ScopeOf[d]
    BY <2>1, <1>2
  <2>2. CASE s # ScopeOf[d]
    <3>1. scopes'[s] = scopes[s] /\ scopes[s] \in Gens /\ s \in Entries /\ worker[scopes[s]].scope = s
      BY <2>2, <1>2 DEF EntriesFit, Entries
    <3>2. scopes[s] # g
      BY <2>2, <3>1 DEF Joins
    <3> QED BY <3>1, <3>2, <1>2
  <2> QED BY <2>1, <2>2
<1>6. FatesFit'
  <2>1. \A h \in Gens : Has(worker'[h]) \subseteq Taken'
    BY <1>1, <1>2 DEF FatesFit, Joins
  <2>2. ASSUME NEW e \in Deliveries, fate'[e] = "accepted"
        PROVE  \E h \in Gens : e \in Has(worker'[h])
    <3>1. CASE e = d
      BY <3>1, <1>2 DEF Joins
    <3>2. CASE e # d
      <4>1. PICK h \in Gens : e \in Has(worker[h])
        BY <3>2, <2>2, <1>1 DEF FatesFit
      <4> QED BY <4>1, <1>2 DEF Joins
    <3> QED BY <3>1, <3>2
  <2> QED BY <2>1, <2>2 DEF FatesFit
<1>7. ClosingFits'
  BY <1>2 DEF ClosingFits, Joins
<1>8. EntryHasReceiver'
  <2>1. ASSUME NEW h \in Gens, worker'[h].stage \in Holding
        PROVE  scopes'[worker'[h].scope] = h
    <3>1. CASE h = g
      BY <3>1, <1>2
    <3>2. CASE h # g
      <4>1. worker'[h] = worker[h] /\ worker[h].scope \in Scopes /\ scopes[worker[h].scope] = h
        BY <3>2, <2>1, <1>2, FieldsOf DEF EntryHasReceiver, Holding
      <4>2. worker[h].scope # ScopeOf[d]
        BY <4>1, <3>2, <2>1 DEF Joins
      <4> QED BY <4>1, <4>2, <1>2
    <3> QED BY <3>1, <3>2
  <2>2. ASSUME NEW s \in Scopes, scopes'[s] # 0
        PROVE  worker'[scopes'[s]].stage \in Holding
    <3>1. CASE s = ScopeOf[d]
      BY <3>1, <1>2
    <3>2. CASE s # ScopeOf[d]
      <4>1. scopes'[s] = scopes[s] /\ scopes[s] \in Gens /\ s \in Entries /\ worker[scopes[s]].stage \in Holding
        BY <3>2, <2>2, <1>2 DEF EntryHasReceiver, Entries
      <4> QED BY <4>1, <1>2
    <3> QED BY <3>1, <3>2
  <2> QED BY <2>1, <2>2 DEF EntryHasReceiver, Entries
<1>9. LossHasCause'
  BY <1>1 DEF LossHasCause
<1>10. closing # "done"
  <2>1. closing = "done" => ~accepting
    BY DEF ClosingFits
  <2> QED BY <2>1 DEF Open
<1>11. ShutdownIsFinal'
  BY <1>10 DEF ShutdownIsFinal
<1> QED BY <1>1, <1>3, <1>4, <1>5, <1>6, <1>7, <1>8, <1>9, <1>11

\* try_send succeeds: the worker of the entry has its receiver.
LEMMA SendJoins ==
  ASSUME IInv, NEW d \in Deliveries, Open, fate[d] = "reserved",
         NEW g \in Gens, g = scopes[ScopeOf[d]], Room(g),
         worker' = [worker EXCEPT ![g].rx = Append(@, d)], Accepted(d),
         UNCHANGED <<scopes, expiries>>
  PROVE  /\ Joins(d, g, [worker[g] EXCEPT !.rx = Append(@, d)])
         /\ worker[g].stage \in Holding
         /\ BirthsFit'
<1> USE DEF IInv
<1> DEFINE w == [worker[g] EXCEPT !.rx = Append(@, d)]
<1>1. ScopeOf[d] \in Entries /\ g # 0 /\ ScopeOf[d] \in Scopes
  BY ConstTypes, GensType DEF Entries
<1>2. worker[g].stage \in Holding /\ worker[g].scope = ScopeOf[d]
  BY <1>1 DEF EntryHasReceiver, EntriesFit
<1>3. worker[g] \in Worker /\ Fits(worker[g]) /\ worker[g].rx \in Seq(Deliveries) /\ Len(worker[g].rx) \in Nat
  BY FieldsOf
<1>4. /\ Append(worker[g].rx, d) \in Seq(Deliveries) /\ Len(Append(worker[g].rx, d)) = Len(worker[g].rx) + 1
      /\ \A e : (\E i \in 1 .. Len(Append(worker[g].rx, d)) : Append(worker[g].rx, d)[i] = e)
           <=> e = d \/ \E i \in 1 .. Len(worker[g].rx) : worker[g].rx[i] = e
  BY <1>3, AppendingAdds
<1>5. /\ w \in Worker /\ w.stage = worker[g].stage /\ w.scope = worker[g].scope
      /\ w.hand = worker[g].hand /\ w.rx = Append(worker[g].rx, d)
  BY <1>3, <1>4 DEF Worker
<1>6. Len(w.rx) <= Capacity
  <2>1. Len(worker[g].rx) < Capacity /\ Capacity \in Nat
    BY ConstTypes DEF Room
  <2>2. Len(w.rx) = Len(worker[g].rx) + 1
    BY <1>4, <1>5
  <2> QED BY <1>3, <2>1, <2>2
<1>7. worker' = [worker EXCEPT ![g] = w]
  BY DEF Types
<1> HIDE DEF w
<1>8. Fits(w)
  BY <1>2, <1>3, <1>5, <1>6 DEF Fits, Holding
<1>9. Has(w) = Has(worker[g]) \cup {d}
  <2>1. \A e : (\E i \in 1 .. Len(w.rx) : w.rx[i] = e)
               <=> e = d \/ \E i \in 1 .. Len(worker[g].rx) : worker[g].rx[i] = e
    <3> DEFINE r == Append(worker[g].rx, d)
    <3>1. w.rx = r
      BY <1>5
    <3>2. \A e : (\E i \in 1 .. Len(r) : r[i] = e)
                 <=> e = d \/ \E i \in 1 .. Len(worker[g].rx) : worker[g].rx[i] = e
      BY <1>4
    <3> HIDE DEF r
    <3> QED BY <3>1, <3>2
  <2>2. w.hand = worker[g].hand
    BY <1>5
  <2> QED BY <2>1, <2>2 DEF Has
<1>10. scopes' = [scopes EXCEPT ![ScopeOf[d]] = g]
  BY <1>1 DEF Types
<1>11. \A h \in Gens : worker[h].scope = ScopeOf[d] /\ worker[h].stage \in Holding => h = g
  BY DEF EntryHasReceiver
<1>12. \A s \in Entries : scopes[s] = g => s = ScopeOf[d]
  BY <1>1 DEF EntriesFit
<1>13. Joins(d, g, w)
  BY <1>2, <1>5, <1>7, <1>8, <1>9, <1>10, <1>11, <1>12 DEF Joins
<1>14. BirthsFit'
  <2>1. worker \in [Gens -> Worker] /\ worker'[g].stage = worker[g].stage /\ \A h \in Gens : h # g => worker'[h] = worker[h]
    BY <1>5, <1>7 DEF Types
  <2>2. Born' = Born
    BY <2>1 DEF Born
  <2>3. Cardinality(Taken') = Cardinality(Taken) + 1 /\ Cardinality(Taken) \in Nat
    BY AcceptedKeeps, TakenType
  <2>4. IsFiniteSet(Born) /\ Cardinality(Born) \in Nat
    BY BornType
  <2> QED BY <2>2, <2>3, <2>4 DEF BirthsFit
<1> QED BY <1>2, <1>13, <1>14 DEF w

\* A scope without an entry gets a worker of a new generation.
LEMMA NewScopeJoins ==
  ASSUME IInv, NEW d \in Deliveries, Open, fate[d] = "reserved",
         scopes[ScopeOf[d]] = 0,
         worker' = [worker EXCEPT ![NextGen] =
           [stage |-> "receive", scope |-> ScopeOf[d], rx |-> <<d>>, hand |-> None]],
         scopes' = [scopes EXCEPT ![ScopeOf[d]] = NextGen],
         Accepted(d), UNCHANGED expiries
  PROVE  /\ NextGen \in Gens
         /\ Joins(d, NextGen, [stage |-> "receive", scope |-> ScopeOf[d], rx |-> <<d>>, hand |-> None])
         /\ BirthsFit'
<1> USE DEF IInv
<1> DEFINE n == NextGen
           w == [stage |-> "receive", scope |-> ScopeOf[d], rx |-> <<d>>, hand |-> None]
<1>1. /\ n = 1 + Cardinality(Born) /\ Cardinality(Born) \in Nat /\ Born = 1 .. Cardinality(Born)
      /\ Cardinality(Born) <= Cardinality(Taken)
  BY BornType DEF NextGen, Born, BirthsFit
<1>2. /\ Taken' = Taken \cup {d} /\ Cardinality(Taken') = Cardinality(Taken) + 1
      /\ Cardinality(Taken) \in Nat
  BY AcceptedKeeps, TakenType
<1>3. Cardinality(Taken') <= Cardinality(Deliveries)
  <2>1. Taken' \subseteq Deliveries
    BY DEF Taken
  <2> QED BY <2>1, ConstTypes, FS_Subset
<1>4. n \in Gens /\ n \notin Born /\ n \in Nat
  BY <1>1, <1>2, <1>3, GensType DEF Gens
<1>5. worker[n].stage = "unborn" /\ worker[n] = Unborn
  BY <1>4 DEF Born, WorkersFit
<1>6. /\ w \in Worker /\ w.stage = "receive" /\ w.scope = ScopeOf[d] /\ w.rx = <<d>> /\ w.hand = None
      /\ ScopeOf[d] \in Scopes
  BY ConstTypes DEF Worker, Stages, Holding
<1>7. Fits(w)
  BY <1>6, ConstTypes DEF Fits
<1>8. Has(w) = {d} /\ Has(worker[n]) = {}
  BY <1>5, UnbornFits, ConstTypes DEF Has
<1>9. \A h \in Gens : worker[h].scope = ScopeOf[d] /\ worker[h].stage \in Holding => h = n
  <2>1. \A h \in Gens : worker[h].stage \in Holding => scopes[worker[h].scope] = h
    BY DEF EntryHasReceiver
  <2> QED BY <2>1, GensType
<1>10. \A s \in Entries : scopes[s] = n => s = ScopeOf[d]
  <2>1. \A s \in Entries : worker[scopes[s]].scope = s /\ s \in Scopes
    BY DEF EntriesFit, Entries
  <2> QED BY <2>1, <1>5, UnbornFits, ConstTypes
<1>11. worker' = [worker EXCEPT ![n] = w] /\ scopes' = [scopes EXCEPT ![ScopeOf[d]] = n]
  OBVIOUS
<1> HIDE DEF n, w
<1>12. Joins(d, n, w)
  BY <1>6, <1>7, <1>8, <1>9, <1>10, <1>11 DEF Joins, Holding
<1>13. BirthsFit'
  <2>1. worker \in [Gens -> Worker] /\ worker'[n] = w /\ \A h \in Gens : h # n => worker'[h] = worker[h]
    BY <1>4, <1>11 DEF Types
  <2>2. Born' = Born \cup {n}
    BY <2>1, <1>4, <1>6 DEF Born
  <2>3. Cardinality(Born') = Cardinality(Born) + 1
    BY <2>2, <1>4, BornType, FS_AddElement
  <2>4. Born' = 1 .. Cardinality(Born')
    <3>1. \A i : i \in 1 .. n <=> i \in (1 .. Cardinality(Born)) \/ i = n
      BY <1>1, <1>4
    <3> QED BY <3>1, <2>2, <2>3, <1>1
  <2> QED BY <2>3, <2>4, <1>1, <1>2 DEF BirthsFit
<1> QED BY <1>4, <1>12, <1>13 DEF n, w

LEMMA EnqueueKeeps ==
  ASSUME IInv, NEW d \in Deliveries, EnqueueLocked(d)
  PROVE  IInv'
<1>1. fate[d] = "reserved" /\ UNCHANGED <<accepting, cancelled, closing, panics, expiries>>
  BY DEF EnqueueLocked
<1>2. ASSUME Refused(d) PROVE IInv'
  BY <1>1, <1>2, RefusedKeeps
<1>3. ASSUME Open, EnqueueToWorker(d), ~Refused(d) PROVE IInv'
  <2> DEFINE g == scopes[ScopeOf[d]]
  <2>1. g \in Gens /\ Room(g) /\ worker' = [worker EXCEPT ![g].rx = Append(@, d)]
        /\ Accepted(d) /\ UNCHANGED scopes
    BY <1>3, ConstTypes DEF EnqueueToWorker, IInv, Types
  <2>2. Joins(d, g, [worker[g] EXCEPT !.rx = Append(@, d)]) /\ BirthsFit'
    BY <1>1, <1>3, <2>1, SendJoins
  <2> QED BY <1>1, <1>3, <2>1, <2>2, JoinsKeeps
<1>4. ASSUME Open, EnqueueNewScope(d), ~Refused(d) PROVE IInv'
  <2> DEFINE w == [stage |-> "receive", scope |-> ScopeOf[d], rx |-> <<d>>, hand |-> None]
  <2>1. /\ scopes[ScopeOf[d]] = 0 /\ worker' = [worker EXCEPT ![NextGen] = w]
        /\ scopes' = [scopes EXCEPT ![ScopeOf[d]] = NextGen] /\ Accepted(d)
    BY <1>4 DEF EnqueueNewScope
  <2>2. NextGen \in Gens /\ Joins(d, NextGen, w) /\ BirthsFit'
    BY <1>1, <1>4, <2>1, NewScopeJoins
  <2> QED BY <1>1, <1>4, <2>1, <2>2, JoinsKeeps
<1> QED BY <1>2, <1>3, <1>4 DEF EnqueueLocked

\* The steps that touch no delivery: those of shutdown() and an expiry.
LEMMA ClosingKeeps ==
  ASSUME IInv, ParentCancelled \/ StopAccepting \/ Cancel \/ WaitTimeout
  PROVE  IInv'
<1> USE DEF IInv
<1> DEFINE Steps ==
      /\ UNCHANGED <<seen, scopes, worker, fate, panics, expiries>>
      /\ accepting' \in BOOLEAN /\ cancelled' \in BOOLEAN
      /\ (cancelled => cancelled') /\ (accepting' => accepting)
      /\ closing' = closing \/ closing' \in {"cancel", "wait", "abort"}
      /\ closing' # "no" => ~accepting'
      /\ closing' \in {"wait", "abort", "done"} => cancelled'
<1>1. /\ accepting \in BOOLEAN /\ cancelled \in BOOLEAN
      /\ closing # "no" => ~accepting
      /\ closing \in {"wait", "abort", "done"} => cancelled
  BY DEF Types, ClosingFits
<1>2. ParentCancelled => Steps
  BY <1>1 DEF ParentCancelled
<1>3. StopAccepting => Steps
  <2> SUFFICES ASSUME StopAccepting PROVE Steps
    OBVIOUS
  <2>1. /\ accepting' = FALSE /\ closing' = "cancel" /\ cancelled' = cancelled
        /\ UNCHANGED <<seen, scopes, worker, fate, panics, expiries>>
    BY DEF StopAccepting
  <2>2. accepting' \in BOOLEAN /\ ~accepting'
    BY <2>1
  <2> QED BY <1>1, <2>1, <2>2
<1>4. Cancel => Steps
  BY <1>1 DEF Cancel
<1>5. WaitTimeout => Steps
  BY <1>1 DEF WaitTimeout
<1>6. Steps
  BY <1>2, <1>3, <1>4, <1>5
<1>7. Taken' = Taken /\ Born' = Born /\ Entries' = Entries
  BY <1>6 DEF Taken, Born, Entries
<1>8. Types' /\ WorkersFit' /\ BirthsFit' /\ EntriesFit' /\ FatesFit' /\ KeysFit'
  BY <1>6, <1>7 DEF Types, WorkersFit, BirthsFit, EntriesFit, FatesFit, KeysFit
<1>9. ClosingFits' /\ EntryHasReceiver'
  BY <1>6, <1>7 DEF ClosingFits, EntryHasReceiver, Open
<1>10. LossHasCause' /\ ShutdownIsFinal'
  BY <1>6, <1>7 DEF LossHasCause, ShutdownIsFinal
<1> QED BY <1>8, <1>9, <1>10

LEMMA ClearKeeps ==
  ASSUME IInv, ClearScopes
  PROVE  IInv'
<1> USE DEF IInv, ClearScopes
<1>1. /\ UNCHANGED <<seen, worker, fate, accepting, cancelled, panics, expiries>>
      /\ scopes' \in [Scopes -> {0} \cup Gens] /\ \A s \in Scopes : scopes'[s] = 0
      /\ closing' = "done" /\ cancelled /\ ~accepting
      /\ \A g \in Gens : worker[g].stage \in {"unborn", "gone"}
  BY DEF ClosingFits
<1>2. Taken' = Taken /\ Born' = Born /\ Entries' = {}
  BY <1>1 DEF Taken, Born, Entries
<1>3. Types' /\ WorkersFit' /\ BirthsFit' /\ EntriesFit' /\ FatesFit' /\ KeysFit'
  BY <1>1, <1>2 DEF Types, WorkersFit, BirthsFit, EntriesFit, FatesFit, KeysFit
<1>4. ClosingFits' /\ EntryHasReceiver' /\ LossHasCause'
  BY <1>1, <1>2 DEF ClosingFits, EntryHasReceiver, Holding, Open, LossHasCause
<1>5. \A g \in Gens : Has(worker[g]) = {}
  BY <1>1, FieldsOf, ConstTypes DEF Has, Fits
<1>6. ShutdownIsFinal'
  BY <1>1, <1>2, <1>5 DEF ShutdownIsFinal, FatesFit
<1> QED BY <1>3, <1>4, <1>6

LEMMA ExpireKeeps ==
  ASSUME IInv, NEW k \in Keys, Expire(k)
  PROVE  IInv'
<1> USE DEF IInv
<1>1. /\ UNCHANGED <<scopes, worker, fate, accepting, cancelled, closing, panics>>
      /\ expiries' = expiries + 1 /\ expiries' \in 0 .. MaxExpiries /\ expiries' # 0
      /\ seen[k] = Dedupe!Committed /\ seen' = [seen EXCEPT ![k] = Dedupe!Free]
      /\ seen \in [Keys -> Marks]
  BY ConstTypes DEF Expire, Dedupe!Expire, Types
<1>2. Taken' = Taken /\ Born' = Born /\ Entries' = Entries
  BY <1>1 DEF Taken, Born, Entries
<1>3. seen' \in [Keys -> Marks]
  BY <1>1 DEF Marks
<1>4. Types' /\ WorkersFit' /\ BirthsFit' /\ EntriesFit' /\ FatesFit'
  BY <1>1, <1>2, <1>3 DEF Types, WorkersFit, BirthsFit, EntriesFit, FatesFit
<1>5. KeysFit'
  <2>1. \A e \in Deliveries : fate[e] = "reserved" => \A j \in KeyOf[e] : seen'[j] = Dedupe!Reserved(e)
    BY <1>1, ConstTypes, MarksDiffer DEF KeysFit
  <2>2. \A j \in Keys, e \in Deliveries :
          seen'[j] = Dedupe!Reserved(e) => fate[e] = "reserved" /\ j \in KeyOf[e]
    BY <1>1, MarksDiffer DEF KeysFit
  <2> QED BY <2>1, <2>2, <1>1 DEF KeysFit
<1>6. ClosingFits' /\ EntryHasReceiver' /\ LossHasCause' /\ ShutdownIsFinal'
  BY <1>1, <1>2 DEF ClosingFits, EntryHasReceiver, Open, LossHasCause, ShutdownIsFinal
<1> QED BY <1>4, <1>5, <1>6

LEMMA InitIInv == Init => IInv
<1> SUFFICES ASSUME Init PROVE IInv
  OBVIOUS
<1> USE DEF Init
<1>1. Types
  <2>1. seen \in [Keys -> Marks]
    BY DEF Marks, Dedupe!Init
  <2>2. worker \in [Gens -> Worker] /\ scopes \in [Scopes -> {0} \cup Gens]
    BY UnbornFits
  <2>3. fate \in [Deliveries -> Fates]
    BY DEF Fates
  <2>4. 0 \in 0 .. MaxPanics /\ 0 \in 0 .. MaxExpiries
    BY ConstTypes
  <2> QED BY <2>1, <2>2, <2>3, <2>4 DEF Types
<1>2. \A g \in Gens : worker[g] = Unborn /\ worker[g].stage = "unborn"
  BY UnbornFits
<1>3. \A k \in Keys : seen[k] = Dedupe!Free
  BY DEF Dedupe!Init
<1>4. WorkersFit
  BY <1>2, UnbornFits DEF WorkersFit
<1>5. Born = {} /\ Taken = {} /\ Entries = {}
  BY <1>2 DEF Born, Taken, Entries
<1>6. BirthsFit
  BY <1>5, FS_EmptySet DEF BirthsFit
<1>7. EntriesFit /\ FatesFit
  BY <1>2, <1>5, UnbornFits DEF EntriesFit, FatesFit
<1>8. KeysFit
  BY <1>3, <1>5, MarksDiffer DEF KeysFit
<1>9. ClosingFits /\ EntryHasReceiver /\ LossHasCause /\ ShutdownIsFinal
  BY <1>2, <1>5 DEF ClosingFits, EntryHasReceiver, LossHasCause, ShutdownIsFinal, Holding
<1> QED BY <1>1, <1>4, <1>6, <1>7, <1>8, <1>9 DEF IInv

LEMMA StutterKeeps ==
  ASSUME IInv, UNCHANGED vars
  PROVE  IInv'
<1> USE DEF vars
<1>1. Taken' = Taken /\ Born' = Born /\ Entries' = Entries /\ Open' = Open
  BY DEF Taken, Born, Entries, Open
<1>2. (Types /\ WorkersFit /\ BirthsFit /\ EntriesFit /\ FatesFit /\ KeysFit)'
  BY <1>1 DEF IInv, Types, WorkersFit, BirthsFit, EntriesFit, FatesFit, KeysFit
<1>3. (ClosingFits /\ EntryHasReceiver /\ LossHasCause /\ ShutdownIsFinal)'
  BY <1>1 DEF IInv, ClosingFits, EntryHasReceiver, LossHasCause, ShutdownIsFinal
<1> QED BY <1>2, <1>3 DEF IInv

LEMMA NextIInv == IInv /\ [Next]_vars => IInv'
<1> SUFFICES ASSUME IInv, [Next]_vars PROVE IInv'
  OBVIOUS
<1>1. ASSUME NEW d \in Deliveries, Reserve(d) \/ EnqueueLocked(d) PROVE IInv'
  BY <1>1, ReserveKeeps, EnqueueKeeps
<1>2. ASSUME NEW g \in Gens, WorkerStep(g) \/ Panic(g) \/ Aborted(g) PROVE IInv'
  BY <1>2, WorkersKeepIInv
<1>3. ASSUME ParentCancelled \/ Shutdown PROVE IInv'
  BY <1>3, ClosingKeeps, ClearKeeps DEF Shutdown
<1>4. ASSUME NEW k \in Keys, Expire(k) PROVE IInv'
  BY <1>4, ExpireKeeps
<1>5. CASE UNCHANGED vars
  BY <1>5, StutterKeeps
<1> QED BY <1>1, <1>2, <1>3, <1>4, <1>5 DEF Next

-----------------------------------------------------------------------------
(* The invariants of the runs. *)

LEMMA TypesFit ==
  ASSUME IInv
  PROVE  TypeOK
<1>1. \A q \in Seq(Deliveries) : Len(q) <= Capacity => q \in SeqOf(Deliveries, Capacity)
  <2> SUFFICES ASSUME NEW q \in Seq(Deliveries), Len(q) <= Capacity
               PROVE  q \in SeqOf(Deliveries, Capacity)
    OBVIOUS
  <2>1. q \in [1 .. Len(q) -> Deliveries] /\ Len(q) \in 0 .. Capacity
    BY ConstTypes, LenProperties
  <2> QED BY <2>1 DEF SeqOf
<1>2. \A g \in Gens : worker[g] \in [stage : Holding \cup {"unborn", "gone"}, scope : Scopes \cup {None},
                          rx : SeqOf(Deliveries, Capacity), hand : Deliveries \cup {None}]
  <2> SUFFICES ASSUME NEW g \in Gens
               PROVE  worker[g] \in [stage : Stages, scope : Scopes \cup {None},
                          rx : SeqOf(Deliveries, Capacity), hand : Deliveries \cup {None}]
    BY DEF Stages
  <2>1. worker[g] \in Worker /\ worker[g].rx \in SeqOf(Deliveries, Capacity)
    BY <1>1, FieldsOf DEF Fits
  <2> QED BY <2>1 DEF Worker
<1>3. worker \in [Gens -> [stage : Holding \cup {"unborn", "gone"}, scope : Scopes \cup {None},
                          rx : SeqOf(Deliveries, Capacity), hand : Deliveries \cup {None}]]
  BY <1>2 DEF IInv, Types
<1>4. Dedupe!TypeOK
  BY DEF Dedupe!TypeOK, Marks, IInv, Types
<1> QED BY <1>3, <1>4 DEF TypeOK, IInv, Types, Fates

\* IInv holds in every state.
THEOREM InvariantHolds == Spec => []IInv
<1> QED BY InitIInv, NextIInv, PTL DEF Spec

\* A scope's entry is of the one worker that may handle its messages and that
\* has its receiver; a message is lost by a panic or a cancellation alone; and
\* when shutdown() has returned nothing is left (OneBotDispatcher, run_scope_worker
\* and shutdown).
THEOREM WorkersStaySound == Spec => []WorkersAreSound
<1>1. IInv => WorkersAreSound
  BY TypesFit DEF IInv, WorkersAreSound
<1> QED BY <1>1, InvariantHolds, PTL

\* Two deliveries of one message are not both accepted unless the key expired,
\* and only a call of enqueue that has not returned holds a reservation.
THEOREM AcceptedOnce == Spec => []OnceOrAgain
<1>1. IInv => OnceOrAgain
  BY ConstTypes DEF IInv, Types, KeysFit, Taken, OnceOrAgain
<1> QED BY <1>1, InvariantHolds, PTL

-----------------------------------------------------------------------------
(* The refinement of SerialMailbox.  Its variables, in the terms of this module. *)

MQ == [s \in Scopes |-> Queue(s)]
MR == [s \in Scopes |-> IF Handling(s) = {} THEN None ELSE CHOOSE d \in Handling(s) : TRUE]
MA == [d \in Deliveries |->
        IF fate[d] \in {"new", "reserved"} THEN "none"
        ELSE IF fate[d] \in {"refused", "duplicate"} THEN "refused" ELSE "accepted"]

\* What worker w has not begun, and the message it handles.
Ahead(w) == (IF w.stage = "took" THEN <<w.hand>> ELSE <<>>) \o w.rx
Doing(w) == IF w.stage = "handling" THEN w.hand ELSE None

\* The message a scope is handling is that of the worker of its entry.
LEMMA RunningIs ==
  IInv => MR = [s \in Scopes |-> IF scopes[s] = 0 THEN None ELSE Doing(worker[scopes[s]])]
<1> SUFFICES ASSUME IInv, NEW s \in Scopes
             PROVE  (IF Handling(s) = {} THEN None ELSE CHOOSE d \in Handling(s) : TRUE)
                      = IF scopes[s] = 0 THEN None ELSE Doing(worker[scopes[s]])
  BY DEF MR
<1>1. \A h \in Gens : worker[h].scope = s /\ worker[h].stage = "handling" => scopes[s] = h /\ scopes[s] # 0
  BY GensType DEF IInv, EntryHasReceiver, Holding
<1>2. scopes[s] # 0 => scopes[s] \in Gens /\ worker[scopes[s]].scope = s
  BY DEF IInv, Types, EntriesFit, Entries
<1>3. CASE scopes[s] # 0 /\ worker[scopes[s]].stage = "handling"
  <2>1. Handling(s) = {worker[scopes[s]].hand}
    BY <1>1, <1>2, <1>3 DEF Handling
  <2> QED BY <1>3, <2>1 DEF Doing
<1>4. CASE ~(scopes[s] # 0 /\ worker[scopes[s]].stage = "handling")
  <2>1. Handling(s) = {}
    BY <1>1, <1>4 DEF Handling
  <2> QED BY <1>4, <2>1 DEF Doing
<1> QED BY <1>3, <1>4

LEMMA QueueIs ==
  MQ = [s \in Scopes |-> IF scopes[s] = 0 THEN <<>> ELSE Ahead(worker[scopes[s]])]
  BY DEF MQ, Queue, Unbegun, Ahead

LEMMA AheadType ==
  ASSUME NEW w \in Worker, Fits(w)
  PROVE  Ahead(w) \in Seq(Deliveries) /\ Doing(w) \in Deliveries \cup {None}
<1>1. w.rx \in Seq(Deliveries) /\ (w.stage = "took" => w.hand \in Deliveries)
  BY WorkerType DEF Fits
<1> DEFINE taken == IF w.stage = "took" THEN <<w.hand>> ELSE <<>>
<1>2. taken \in Seq(Deliveries)
  BY <1>1
<1>3. Ahead(w) \in Seq(Deliveries)
  BY <1>1, <1>2, ConcatProperties DEF Ahead
<1> QED BY <1>3, WorkerType DEF Doing

LEMMA MappedTypes ==
  IInv => /\ MQ \in [Scopes -> Seq(Deliveries)]
          /\ MR \in [Scopes -> Deliveries \cup {None}]
          /\ MA \in [Deliveries -> {"none", "accepted", "refused"}]
<1> SUFFICES ASSUME IInv
             PROVE  /\ MQ \in [Scopes -> Seq(Deliveries)]
                    /\ MR \in [Scopes -> Deliveries \cup {None}]
                    /\ MA \in [Deliveries -> {"none", "accepted", "refused"}]
  OBVIOUS
<1>1. ASSUME NEW s \in Scopes, scopes[s] # 0
      PROVE  /\ Ahead(worker[scopes[s]]) \in Seq(Deliveries)
             /\ Doing(worker[scopes[s]]) \in Deliveries \cup {None}
  <2>1. scopes[s] \in Gens
    BY <1>1 DEF IInv, Types
  <2> QED BY <2>1, FieldsOf, AheadType
<1>2. MQ \in [Scopes -> Seq(Deliveries)]
  BY <1>1, QueueIs
<1>3. MR \in [Scopes -> Deliveries \cup {None}]
  BY <1>1, RunningIs
<1>4. MA \in [Deliveries -> {"none", "accepted", "refused"}]
  BY DEF MA
<1> QED BY <1>2, <1>3, <1>4

\* The steps of the mailbox.
LEMMA StutterIs ==
  ASSUME MQ' = MQ, MR' = MR, MA' = MA
  PROVE  UNCHANGED Mailbox!vars
  BY DEF MQ, MR, MA, Mailbox!vars

LEMMA AcceptIs ==
  ASSUME NEW d \in Deliveries, MA[d] = "none", MA' = [MA EXCEPT ![d] = "accepted"],
         MQ' = [MQ EXCEPT ![ScopeOf[d]] = Append(@, d)], MR' = MR
  PROVE  Mailbox!Next
<1>1. Mailbox!Accept(d)
  BY DEF MQ, MR, MA, Mailbox!Accept
<1> QED BY <1>1 DEF Mailbox!Next

LEMMA RefuseIs ==
  ASSUME NEW d \in Deliveries, MA[d] = "none", MA' = [MA EXCEPT ![d] = "refused"],
         MQ' = MQ, MR' = MR
  PROVE  Mailbox!Next
<1>1. Mailbox!Refuse(d)
  BY DEF MQ, MR, MA, Mailbox!Refuse
<1> QED BY <1>1 DEF Mailbox!Next

LEMMA BeginIs ==
  ASSUME NEW s \in Scopes, MR[s] = None, MQ[s] # <<>>,
         MR' = [MR EXCEPT ![s] = Head(MQ[s])], MQ' = [MQ EXCEPT ![s] = Tail(@)], MA' = MA
  PROVE  Mailbox!Next
<1>1. Mailbox!Begin(s)
  BY DEF MQ, MR, MA, Mailbox!Begin
<1> QED BY <1>1 DEF Mailbox!Next

LEMMA EndIs ==
  ASSUME NEW s \in Scopes, MR[s] # None, MR' = [MR EXCEPT ![s] = None], MQ' = MQ, MA' = MA
  PROVE  Mailbox!Next
<1>1. Mailbox!End(s)
  BY DEF MQ, MR, MA, Mailbox!End
<1> QED BY <1>1 DEF Mailbox!Next

LEMMA LoseIs ==
  ASSUME MQ' \in [Scopes -> Seq(Deliveries)], MR' \in [Scopes -> Deliveries \cup {None}],
         MA \in [Deliveries -> {"none", "accepted", "refused"}], MA' = MA,
         \A s \in Scopes :
           /\ \E n \in 0 .. Len(MQ[s]) : MQ'[s] = SubSeq(MQ[s], n + 1, Len(MQ[s]))
           /\ MR'[s] \in {MR[s], None}
  PROVE  Mailbox!Next
<1>1. Mailbox!Lose
  BY DEF MQ, MR, MA, Mailbox!Lose
<1> QED BY <1>1 DEF Mailbox!Next

\* The answers a worker's step, which only settles accepted messages, leaves alone.
LEMMA MovesSeen ==
  ASSUME IInv, IInv', NEW g \in Gens, NEW w, Moves(g, w), NEW t, t = worker[g].scope
  PROVE  /\ t \in Scopes /\ MA' = MA
         /\ MQ[t] = Ahead(worker[g]) /\ MR[t] = Doing(worker[g])
         /\ MQ' = [MQ EXCEPT ![t] = Ahead(w)]
         /\ MR' = [MR EXCEPT ![t] = Doing(w)]
<1>1. /\ worker \in [Gens -> Worker] /\ worker[g].stage \in Holding /\ g # 0
      /\ w \in Worker /\ Fits(w) /\ worker' = [worker EXCEPT ![g] = w] /\ w.stage # "unborn"
      /\ t \in Scopes /\ scopes[t] = g /\ scopes \in [Scopes -> {0} \cup Gens]
  BY GensType, FieldsOf DEF IInv, Types, Moves, EntryHasReceiver, Holding
<1>2. \A s \in Scopes : s # t => scopes'[s] = scopes[s]
  BY <1>1 DEF Moves, RemoveGeneration
<1>3. scopes'[t] = g \/ (scopes'[t] = 0 /\ w.stage = "gone")
  BY <1>1 DEF Moves, RemoveGeneration
<1>4. MA' = MA
  <2>1. \A d \in Has(worker[g]) : fate[d] \in {"accepted", "done", "lost"}
    BY DEF IInv, FatesFit, Taken
  <2>2. \A d \in Deliveries :
          fate'[d] = fate[d] \/ (d \in Has(worker[g]) /\ fate'[d] \in {"done", "lost"})
    BY DEF Moves
  <2>3. \A d \in Deliveries :
          /\ fate'[d] \in {"new", "reserved"} <=> fate[d] \in {"new", "reserved"}
          /\ fate'[d] \in {"refused", "duplicate"} <=> fate[d] \in {"refused", "duplicate"}
    BY <2>1, <2>2
  <2> QED BY <2>3 DEF MA
<1>5. w.stage = "gone" => Ahead(w) = <<>> /\ Doing(w) = None
  BY <1>1 DEF Ahead, Doing, Fits
<1>6. /\ MQ = [s \in Scopes |-> IF scopes[s] = 0 THEN <<>> ELSE Ahead(worker[scopes[s]])]
      /\ MQ' = [s \in Scopes |-> IF scopes'[s] = 0 THEN <<>> ELSE Ahead(worker'[scopes'[s]])]
  <2>1. (MQ = [s \in Scopes |-> IF scopes[s] = 0 THEN <<>> ELSE Ahead(worker[scopes[s]])])'
    BY QueueIs, PTL
  <2> QED BY <2>1, QueueIs
<1>7. /\ MR = [s \in Scopes |-> IF scopes[s] = 0 THEN None ELSE Doing(worker[scopes[s]])]
      /\ MR' = [s \in Scopes |-> IF scopes'[s] = 0 THEN None ELSE Doing(worker'[scopes'[s]])]
  <2>1. (MR = [s \in Scopes |-> IF scopes[s] = 0 THEN None ELSE Doing(worker[scopes[s]])])'
    BY RunningIs, PTL
  <2> QED BY <2>1, RunningIs
<1>8. \A s \in Scopes : s # t /\ scopes[s] # 0 => worker'[scopes'[s]] = worker[scopes[s]]
  <2> SUFFICES ASSUME NEW s \in Scopes, s # t, scopes[s] # 0
               PROVE  worker'[scopes'[s]] = worker[scopes[s]]
    OBVIOUS
  <2>1. scopes[s] \in Gens /\ worker[scopes[s]].scope = s /\ scopes'[s] = scopes[s]
    BY <1>1, <1>2 DEF IInv, EntriesFit, Entries
  <2> QED BY <2>1, <1>1
<1>9. worker'[g] = w
  BY <1>1
<1>10. MQ' = [MQ EXCEPT ![t] = Ahead(w)]
  <2>1. \A s \in Scopes : MQ'[s] = IF s = t THEN Ahead(w) ELSE MQ[s]
    BY <1>1, <1>2, <1>3, <1>5, <1>6, <1>8, <1>9
  <2> QED BY <2>1, <1>6
<1>11. MR' = [MR EXCEPT ![t] = Doing(w)]
  <2>1. \A s \in Scopes : MR'[s] = IF s = t THEN Doing(w) ELSE MR[s]
    BY <1>1, <1>2, <1>3, <1>5, <1>7, <1>8, <1>9
  <2> QED BY <2>1, <1>7
<1> QED BY <1>1, <1>4, <1>6, <1>7, <1>10, <1>11

\* A step that begins nothing takes only the oldest messages away.
LEMMA MovesLose ==
  ASSUME IInv, IInv', NEW g \in Gens, NEW w, Moves(g, w),
         \E n \in 0 .. Len(Ahead(worker[g])) :
           Ahead(w) = SubSeq(Ahead(worker[g]), n + 1, Len(Ahead(worker[g]))),
         Doing(w) \in {Doing(worker[g]), None}
  PROVE  Mailbox!Next
<1> DEFINE t == worker[g].scope
<1>1. /\ t \in Scopes /\ MA' = MA /\ MQ[t] = Ahead(worker[g]) /\ MR[t] = Doing(worker[g])
      /\ MQ' = [MQ EXCEPT ![t] = Ahead(w)] /\ MR' = [MR EXCEPT ![t] = Doing(w)]
  BY MovesSeen
<1>2. /\ MQ \in [Scopes -> Seq(Deliveries)] /\ MR \in [Scopes -> Deliveries \cup {None}]
      /\ MA \in [Deliveries -> {"none", "accepted", "refused"}]
  BY MappedTypes
<1>3. (/\ MQ \in [Scopes -> Seq(Deliveries)]
       /\ MR \in [Scopes -> Deliveries \cup {None}]
       /\ MA \in [Deliveries -> {"none", "accepted", "refused"}])'
  BY MappedTypes, PTL
<1> HIDE DEF t
<1>4. ASSUME NEW s \in Scopes
      PROVE  /\ \E n \in 0 .. Len(MQ[s]) : MQ'[s] = SubSeq(MQ[s], n + 1, Len(MQ[s]))
             /\ MR'[s] \in {MR[s], None}
  <2>1. CASE s = t
    BY <2>1, <1>1, <1>2
  <2>2. CASE s # t
    <3>1. MQ'[s] = MQ[s] /\ MR'[s] = MR[s] /\ MQ[s] \in Seq(Deliveries)
      BY <2>2, <1>1, <1>2
    <3>2. MQ[s] = SubSeq(MQ[s], 0 + 1, Len(MQ[s])) /\ 0 \in 0 .. Len(MQ[s])
      BY <3>1, SubSeqFull, LenProperties
    <3> QED BY <3>1, <3>2
  <2> QED BY <2>1, <2>2
<1> QED BY <1>1, <1>2, <1>3, <1>4, LoseIs

\* What is ahead of a worker that has taken a message, and of one that has not.
LEMMA AheadIs ==
  ASSUME NEW w \in Worker, Fits(w)
  PROVE  /\ w.stage # "took" => Ahead(w) = w.rx
         /\ w.stage = "took" => /\ Ahead(w) = <<w.hand>> \o w.rx /\ Ahead(w) # <<>>
                                /\ Head(Ahead(w)) = w.hand /\ Tail(Ahead(w)) = w.rx
                                /\ w.rx = SubSeq(Ahead(w), 1 + 1, Len(Ahead(w)))
                                /\ 1 \in 0 .. Len(Ahead(w))
         /\ Ahead(w) = SubSeq(Ahead(w), 0 + 1, Len(Ahead(w))) /\ 0 \in 0 .. Len(Ahead(w))
         /\ <<>> = SubSeq(Ahead(w), Len(Ahead(w)) + 1, Len(Ahead(w)))
         /\ Len(Ahead(w)) \in Nat
<1>1. w.rx \in Seq(Deliveries) /\ (w.stage = "took" => w.hand \in Deliveries)
  BY WorkerType DEF Fits
<1>2. w.stage # "took" => Ahead(w) = w.rx
  BY <1>1, ConcatEmptySeq DEF Ahead
<1>3. ASSUME w.stage = "took"
      PROVE  /\ Ahead(w) = <<w.hand>> \o w.rx /\ Ahead(w) # <<>>
             /\ Head(Ahead(w)) = w.hand /\ Tail(Ahead(w)) = w.rx
  <2> DEFINE a == <<w.hand>> \o w.rx
  <2>1. Ahead(w) = a
    BY <1>3 DEF Ahead
  <2>2. a \in Seq(Deliveries) /\ Len(a) = 1 + Len(w.rx) /\ a[1] = w.hand
        /\ \A i \in 1 .. Len(w.rx) : a[i + 1] = w.rx[i]
    BY <1>1, <1>3
  <2> HIDE DEF a
  <2>3. a # <<>> /\ Len(w.rx) \in Nat
    BY <1>1, <2>2
  <2>4. /\ Head(a) = w.hand /\ Tail(a) \in Seq(Deliveries) /\ Len(Tail(a)) = Len(w.rx)
        /\ \A i \in 1 .. Len(w.rx) : Tail(a)[i] = w.rx[i]
    BY <2>2, <2>3, HeadTailProperties
  <2>5. Tail(a) = w.rx
    BY <1>1, <2>4, SeqEqual
  <2> QED BY <2>1, <2>3, <2>4, <2>5 DEF a
<1>4. Ahead(w) \in Seq(Deliveries)
  BY AheadType
<1>5. /\ Ahead(w) = SubSeq(Ahead(w), 0 + 1, Len(Ahead(w))) /\ 0 \in 0 .. Len(Ahead(w))
      /\ <<>> = SubSeq(Ahead(w), Len(Ahead(w)) + 1, Len(Ahead(w)))
      /\ Len(Ahead(w)) \in Nat
  BY <1>4, SubSeqFull, SubSeqEmpty
<1>6. Ahead(w) # <<>> => /\ Tail(Ahead(w)) = SubSeq(Ahead(w), 1 + 1, Len(Ahead(w)))
                         /\ 1 \in 0 .. Len(Ahead(w))
  BY <1>4, <1>5, TailIsSubSeq, EmptySeq
<1> QED BY <1>2, <1>3, <1>5, <1>6

\* A worker begins a message, ends it, or loses what it holds.
LEMMA WorkerImplements ==
  ASSUME IInv, IInv', NEW g \in Gens, WorkerStep(g) \/ Panic(g) \/ Aborted(g)
  PROVE  [Mailbox!Next]_(Mailbox!vars)
<1> DEFINE v == worker[g]
<1>1. /\ v \in Worker /\ Fits(v) /\ (v.stage \in {"took", "handling"} <=> v.hand # None)
      /\ {"receive", "expired", "took", "handling"} \subseteq Holding \ {"leaving"}
      /\ {"receive", "leaving"} \subseteq Holding \ {"took", "handling"}
      /\ "gone" \notin Holding
  BY FieldsOf DEF Fits, Holding
<1>2. ASSUME NEW w, Moves(g, w), Ahead(w) = Ahead(v), Doing(w) = Doing(v)
      PROVE  [Mailbox!Next]_(Mailbox!vars)
  <2>1. 0 \in 0 .. Len(Ahead(v)) /\ Ahead(w) = SubSeq(Ahead(v), 0 + 1, Len(Ahead(v)))
    BY <1>1, <1>2, AheadIs
  <2> QED BY <1>2, <2>1, MovesLose
<1>3. ASSUME NEW w, Moves(g, w), Ahead(w) = <<>>, Doing(w) = None
      PROVE  [Mailbox!Next]_(Mailbox!vars)
  <2>1. Len(Ahead(v)) \in 0 .. Len(Ahead(v)) /\ Ahead(w) = SubSeq(Ahead(v), Len(Ahead(v)) + 1, Len(Ahead(v)))
    BY <1>1, <1>3, AheadIs
  <2> QED BY <1>3, <2>1, MovesLose
<1>4. ASSUME v.rx # <<>>, v.stage \in {"receive", "expired"}
      PROVE  Ahead(Took(g)) = Ahead(v) /\ Doing(Took(g)) = Doing(v)
  <2>1. /\ Took(g) \in Worker /\ Fits(Took(g)) /\ Took(g).stage = "took"
        /\ Took(g).hand = Head(v.rx) /\ Took(g).rx = Tail(v.rx)
    BY <1>4, TookFits
  <2>2. Ahead(v) = v.rx /\ v.rx \in Seq(Deliveries)
    BY <1>1, <1>4, AheadIs, WorkerType
  <2>3. Ahead(Took(g)) = <<Head(v.rx)>> \o Tail(v.rx)
    BY <2>1, AheadIs
  <2>4. v.rx = <<Head(v.rx)>> \o Tail(v.rx)
    BY <1>4, <2>2
  <2> QED BY <1>4, <2>1, <2>2, <2>3, <2>4 DEF Doing
<1>5. ASSUME Receive(g) PROVE [Mailbox!Next]_(Mailbox!vars)
  BY <1>2, <1>4, <1>5, TakingMoves DEF Receive
<1>6. ASSUME IdleTimeout(g) PROVE [Mailbox!Next]_(Mailbox!vars)
  <2> DEFINE w == At(g, "expired")
  <2>1. Moves(g, w)
    BY <1>1, <1>6, StagingMoves DEF IdleTimeout
  <2>2. w \in Worker /\ Fits(w) /\ w.stage = "expired" /\ w.rx = v.rx
    BY <1>1, <1>6, AtFits DEF IdleTimeout
  <2> HIDE DEF w
  <2>3. Ahead(w) = Ahead(v) /\ Doing(w) = Doing(v)
    BY <1>1, <1>6, <2>2, AheadIs DEF Doing, IdleTimeout
  <2> QED BY <1>2, <2>1, <2>3
<1>7. ASSUME RetireOrTake(g) PROVE [Mailbox!Next]_(Mailbox!vars)
  <2>1. CASE v.rx # <<>>
    BY <1>2, <1>4, <1>7, <2>1, TakingMoves DEF RetireOrTake
  <2>2. CASE v.rx = <<>>
    <3>1. Has(v) = {}
      BY <1>1, <1>7, <2>2, ConstTypes DEF Has, RetireOrTake
    <3>2. Moves(g, Ended(g)) /\ Ended(g).stage = "gone" /\ Ended(g).rx = <<>>
          /\ Ended(g) \in Worker /\ Fits(Ended(g))
      BY <1>1, <1>7, <2>2, <3>1, EndMoves, EndedFits DEF RetireOrTake
    <3>3. Ahead(Ended(g)) = <<>> /\ Doing(Ended(g)) = None
      BY <3>2, AheadIs DEF Doing
    <3> QED BY <1>3, <3>2, <3>3
  <2> QED BY <2>1, <2>2
<1>8. ASSUME BeginHandling(g) PROVE [Mailbox!Next]_(Mailbox!vars)
  <2> DEFINE w == At(g, "handling")
             t == v.scope
  <2>1. Moves(g, w)
    BY <1>1, <1>8, StagingMoves DEF BeginHandling
  <2>2. /\ w \in Worker /\ Fits(w) /\ w.stage = "handling" /\ w.rx = v.rx /\ w.hand = v.hand
        /\ v.stage = "took"
    BY <1>1, <1>8, AtFits DEF BeginHandling
  <2> HIDE DEF w
  <2>3. /\ Ahead(w) = Tail(Ahead(v)) /\ Doing(w) = Head(Ahead(v)) /\ Ahead(v) # <<>>
        /\ Doing(v) = None
    BY <1>1, <2>2, AheadIs DEF Doing
  <2>4. /\ t \in Scopes /\ MA' = MA /\ MQ[t] = Ahead(v) /\ MR[t] = Doing(v)
        /\ MQ' = [MQ EXCEPT ![t] = Ahead(w)] /\ MR' = [MR EXCEPT ![t] = Doing(w)]
    BY <2>1, MovesSeen
  <2>5. MQ' = [MQ EXCEPT ![t] = Tail(@)] /\ MR' = [MR EXCEPT ![t] = Head(MQ[t])]
    BY <2>3, <2>4
  <2> QED BY <2>3, <2>4, <2>5, BeginIs
<1>9. ASSUME NEW stage \in {"receive", "leaving"}, Moves(g, Free(g, stage)),
             v.stage \in {"receive", "took", "handling"}
      PROVE  [Mailbox!Next]_(Mailbox!vars)
  <2> DEFINE w == Free(g, stage)
             t == v.scope
  <2>1. /\ w \in Worker /\ Fits(w) /\ w.stage = stage /\ w.rx = v.rx /\ w.hand = None
    BY <1>1, <1>9, FreeFits
  <2> HIDE DEF w
  <2>2. Ahead(w) = v.rx /\ Doing(w) = None
    BY <2>1, AheadIs DEF Doing
  <2>3. CASE v.stage = "receive"
    <3>1. Ahead(v) = v.rx /\ Doing(v) = None
      BY <1>1, <2>3, AheadIs DEF Doing
    <3> QED BY <1>2, <1>9, <2>2, <3>1 DEF w
  <2>4. CASE v.stage = "took"
    <3>1. 1 \in 0 .. Len(Ahead(v)) /\ Ahead(w) = SubSeq(Ahead(v), 1 + 1, Len(Ahead(v)))
      BY <1>1, <2>2, <2>4, AheadIs
    <3> QED BY <1>9, <2>2, <3>1, MovesLose DEF w
  <2>5. CASE v.stage = "handling"
    <3>1. Ahead(v) = v.rx /\ Doing(v) # None
      BY <1>1, <2>5, AheadIs DEF Doing
    <3>2. /\ t \in Scopes /\ MA' = MA /\ MQ[t] = Ahead(v) /\ MR[t] = Doing(v)
          /\ MQ' = [MQ EXCEPT ![t] = Ahead(w)] /\ MR' = [MR EXCEPT ![t] = Doing(w)]
      BY <1>9, MovesSeen DEF w
    <3>3. MQ' = MQ /\ MR' = [MR EXCEPT ![t] = None]
      BY <2>2, <3>1, <3>2 DEF MQ
    <3> QED BY <3>1, <3>2, <3>3, EndIs
  <2> QED BY <1>9, <2>3, <2>4, <2>5
<1>10. ASSUME FinishHandling(g) PROVE [Mailbox!Next]_(Mailbox!vars)
  BY <1>9, <1>10, FinishMoves DEF FinishHandling
<1>11. ASSUME Cancelled(g) \/ Panic(g) PROVE [Mailbox!Next]_(Mailbox!vars)
  <2>1. Moves(g, Free(g, "leaving")) /\ v.stage \in {"receive", "took", "handling"}
    BY <1>11, LeaveLoopMoves, PanicsType DEF Cancelled, Panic
  <2> QED BY <1>9, <2>1
<1>12. ASSUME Leave(g) \/ Aborted(g) PROVE [Mailbox!Next]_(Mailbox!vars)
  <2>1. v.stage \in Holding /\ (panics > 0 \/ cancelled) /\ (Aborted(g) => ~Open)
    BY <1>1, <1>12 DEF Leave, Aborted, IInv, ClosingFits, Holding, Open
  <2>2. Moves(g, Ended(g))
    BY <1>12, <2>1, EndMoves DEF Leave, Aborted
  <2>3. Ended(g).stage = "gone" /\ Ended(g).rx = <<>> /\ Ended(g) \in Worker /\ Fits(Ended(g))
    BY <2>1, EndedFits
  <2>4. Ahead(Ended(g)) = <<>> /\ Doing(Ended(g)) = None
    BY <2>3, AheadIs DEF Doing
  <2> QED BY <1>3, <2>2, <2>4
<1> QED BY <1>5, <1>6, <1>7, <1>8, <1>10, <1>11, <1>12 DEF WorkerStep

\* A step that leaves the workers and their entries alone.
LEMMA SeenAlone ==
  ASSUME UNCHANGED <<scopes, worker>>
  PROVE  MQ' = MQ /\ MR' = MR
  BY DEF MQ, MR, Queue, Unbegun, Handling

\* An accepted message joins the end of its scope's queue.
LEMMA JoinsSeen ==
  ASSUME IInv, IInv', NEW d \in Deliveries, NEW g \in Gens, NEW w, Joins(d, g, w),
         Ahead(w) = Append(IF scopes[ScopeOf[d]] = 0 THEN <<>> ELSE Ahead(worker[g]), d),
         Doing(w) = IF scopes[ScopeOf[d]] = 0 THEN None ELSE Doing(worker[g])
  PROVE  MQ' = [MQ EXCEPT ![ScopeOf[d]] = Append(@, d)] /\ MR' = MR
<1> DEFINE t == ScopeOf[d]
<1>1. /\ worker \in [Gens -> Worker] /\ g # 0 /\ worker' = [worker EXCEPT ![g] = w]
      /\ t \in Scopes /\ scopes[t] \in {0, g} /\ scopes \in [Scopes -> {0} \cup Gens]
      /\ scopes' = [scopes EXCEPT ![t] = g]
  BY ConstTypes, GensType DEF IInv, Types, Joins
<1>2. \A s \in Scopes : s # t => scopes'[s] = scopes[s] /\ scopes[s] # g
  BY <1>1 DEF Joins, Entries
<1>3. /\ MQ = [s \in Scopes |-> IF scopes[s] = 0 THEN <<>> ELSE Ahead(worker[scopes[s]])]
      /\ MQ' = [s \in Scopes |-> IF scopes'[s] = 0 THEN <<>> ELSE Ahead(worker'[scopes'[s]])]
  <2>1. (MQ = [s \in Scopes |-> IF scopes[s] = 0 THEN <<>> ELSE Ahead(worker[scopes[s]])])'
    BY QueueIs, PTL
  <2> QED BY <2>1, QueueIs
<1>4. /\ MR = [s \in Scopes |-> IF scopes[s] = 0 THEN None ELSE Doing(worker[scopes[s]])]
      /\ MR' = [s \in Scopes |-> IF scopes'[s] = 0 THEN None ELSE Doing(worker'[scopes'[s]])]
  <2>1. (MR = [s \in Scopes |-> IF scopes[s] = 0 THEN None ELSE Doing(worker[scopes[s]])])'
    BY RunningIs, PTL
  <2> QED BY <2>1, RunningIs
<1>5. \A s \in Scopes : s # t /\ scopes[s] # 0 => worker'[scopes'[s]] = worker[scopes[s]]
  BY <1>1, <1>2
<1>6. worker'[g] = w /\ scopes'[t] = g
  BY <1>1
<1>7. MQ' = [MQ EXCEPT ![t] = Append(@, d)]
  <2>1. \A s \in Scopes : MQ'[s] = IF s = t THEN Append(MQ[t], d) ELSE MQ[s]
    BY <1>1, <1>2, <1>3, <1>5, <1>6
  <2> QED BY <2>1, <1>3
<1>8. MR' = MR
  <2>1. \A s \in Scopes : MR'[s] = MR[s]
    BY <1>1, <1>2, <1>4, <1>5, <1>6
  <2> QED BY <2>1, <1>4
<1> QED BY <1>7, <1>8

LEMMA EnqueueImplements ==
  ASSUME IInv, IInv', NEW d \in Deliveries, EnqueueLocked(d)
  PROVE  [Mailbox!Next]_(Mailbox!vars)
<1>1. /\ fate[d] = "reserved" /\ MA[d] = "none" /\ fate \in [Deliveries -> Fates]
      /\ UNCHANGED <<accepting, cancelled, closing, panics, expiries>>
  BY DEF EnqueueLocked, MA, IInv, Types
<1>2. ASSUME Refused(d) PROVE [Mailbox!Next]_(Mailbox!vars)
  <2>1. MQ' = MQ /\ MR' = MR
    BY <1>2, SeenAlone DEF Refused
  <2>2. MA' = [MA EXCEPT ![d] = "refused"]
    BY <1>1, <1>2 DEF MA, Refused
  <2> QED BY <1>1, <2>1, <2>2, RefuseIs
<1>3. ASSUME Accepted(d) PROVE MA' = [MA EXCEPT ![d] = "accepted"]
  BY <1>1, <1>3 DEF MA, Accepted
<1>4. ASSUME Open, EnqueueToWorker(d), ~Refused(d) PROVE [Mailbox!Next]_(Mailbox!vars)
  <2> DEFINE g == scopes[ScopeOf[d]]
             v == worker[g]
             w == [v EXCEPT !.rx = Append(@, d)]
  <2>1. g \in Gens /\ g # 0 /\ Room(g) /\ worker' = [worker EXCEPT ![g].rx = Append(@, d)]
        /\ Accepted(d) /\ UNCHANGED scopes
    BY <1>4, ConstTypes DEF EnqueueToWorker, IInv, Types
  <2>2. Joins(d, g, w)
    BY <1>1, <1>4, <2>1, SendJoins
  <2>3. v \in Worker /\ Fits(v) /\ v.rx \in Seq(Deliveries) /\ (v.stage = "took" => v.hand \in Deliveries)
    BY <2>1, FieldsOf DEF Fits
  <2>4. w.stage = v.stage /\ w.hand = v.hand /\ w.rx = Append(v.rx, d)
    BY <2>3 DEF Worker
  <2> HIDE DEF w
  <2>5. Doing(w) = Doing(v)
    BY <2>4 DEF Doing
  <2>6. Ahead(w) = Append(Ahead(v), d)
    <3> DEFINE taken == IF v.stage = "took" THEN <<v.hand>> ELSE <<>>
    <3>1. taken \in Seq(Deliveries)
      BY <2>3
    <3>2. Ahead(w) = taken \o Append(v.rx, d) /\ Ahead(v) = taken \o v.rx
      BY <2>4 DEF Ahead
    <3> HIDE DEF taken
    <3>3. taken \o v.rx \in Seq(Deliveries) /\ <<d>> \in Seq(Deliveries)
      BY <2>3, <3>1, ConcatProperties
    <3>4. taken \o Append(v.rx, d) = Append(taken \o v.rx, d)
      <4>1. Append(v.rx, d) = v.rx \o <<d>>
        BY <2>3, AppendIsConcat
      <4>2. Append(taken \o v.rx, d) = (taken \o v.rx) \o <<d>>
        BY <3>3, AppendIsConcat, Zenon
      <4>3. (taken \o v.rx) \o <<d>> = taken \o (v.rx \o <<d>>)
        <5> DEFINE q == v.rx
                   one == <<d>>
        <5>1. taken \in Seq(Deliveries) /\ q \in Seq(Deliveries) /\ one \in Seq(Deliveries)
          BY <2>3, <3>1, <3>3
        <5> HIDE DEF q, one
        <5>2. (taken \o q) \o one = taken \o (q \o one)
          BY <5>1, ConcatAssociative, SMTT(30)
        <5> QED BY <5>2 DEF q, one
      <4> QED BY <4>1, <4>2, <4>3, Zenon
    <3> QED BY <3>2, <3>4
  <2>7. MQ' = [MQ EXCEPT ![ScopeOf[d]] = Append(@, d)] /\ MR' = MR
    BY <2>1, <2>2, <2>5, <2>6, JoinsSeen
  <2> QED BY <1>1, <1>3, <2>1, <2>7, AcceptIs
<1>5. ASSUME Open, EnqueueNewScope(d), ~Refused(d) PROVE [Mailbox!Next]_(Mailbox!vars)
  <2> DEFINE w == [stage |-> "receive", scope |-> ScopeOf[d], rx |-> <<d>>, hand |-> None]
  <2>1. /\ scopes[ScopeOf[d]] = 0 /\ worker' = [worker EXCEPT ![NextGen] = w]
        /\ scopes' = [scopes EXCEPT ![ScopeOf[d]] = NextGen] /\ Accepted(d)
    BY <1>5 DEF EnqueueNewScope
  <2>2. NextGen \in Gens /\ Joins(d, NextGen, w)
    BY <1>1, <1>5, <2>1, NewScopeJoins
  <2>3. Ahead(w) = Append(<<>>, d) /\ Doing(w) = None
    BY DEF Ahead, Doing
  <2> HIDE DEF w
  <2>4. MQ' = [MQ EXCEPT ![ScopeOf[d]] = Append(@, d)] /\ MR' = MR
    BY <2>1, <2>2, <2>3, JoinsSeen
  <2> QED BY <1>1, <1>3, <2>1, <2>4, AcceptIs
<1> QED BY <1>2, <1>4, <1>5 DEF EnqueueLocked

LEMMA ReserveImplements ==
  ASSUME IInv, NEW d \in Deliveries, Reserve(d)
  PROVE  [Mailbox!Next]_(Mailbox!vars)
<1>1. fate[d] = "new" /\ MA[d] = "none" /\ fate \in [Deliveries -> Fates]
  BY DEF Reserve, MA, IInv, Types
<1>2. MQ' = MQ /\ MR' = MR
  BY SeenAlone DEF Reserve
<1>3. CASE fate' = [fate EXCEPT ![d] = "refused"] \/ fate' = [fate EXCEPT ![d] = "duplicate"]
  <2>1. MA' = [MA EXCEPT ![d] = "refused"]
    BY <1>1, <1>3 DEF MA
  <2> QED BY <1>1, <1>2, <2>1, RefuseIs
<1>4. CASE fate' = [fate EXCEPT ![d] = "reserved"]
  <2>1. MA' = MA
    BY <1>1, <1>4 DEF MA
  <2> QED BY <1>2, <2>1, StutterIs
<1> QED BY <1>3, <1>4 DEF Reserve

LEMMA ClearImplements ==
  ASSUME IInv, IInv', ClearScopes
  PROVE  [Mailbox!Next]_(Mailbox!vars)
<1>1. /\ scopes \in [Scopes -> {0} \cup Gens] /\ UNCHANGED <<worker, fate>>
      /\ \A g \in Gens : worker[g].stage \in {"unborn", "gone"}
      /\ scopes' = [s \in Scopes |-> 0]
  BY DEF ClearScopes, IInv, Types
<1>2. \A s \in Scopes : scopes[s] # 0 => Ahead(worker[scopes[s]]) = <<>> /\ Doing(worker[scopes[s]]) = None
  <2> SUFFICES ASSUME NEW s \in Scopes, scopes[s] # 0
               PROVE  Ahead(worker[scopes[s]]) = <<>> /\ Doing(worker[scopes[s]]) = None
    OBVIOUS
  <2>1. scopes[s] \in Gens
    BY <1>1
  <2> QED BY <1>1, <2>1, FieldsOf DEF Ahead, Doing, Fits
<1>3. (MQ = [s \in Scopes |-> IF scopes[s] = 0 THEN <<>> ELSE Ahead(worker[scopes[s]])])'
  BY QueueIs, PTL
<1>4. (MR = [s \in Scopes |-> IF scopes[s] = 0 THEN None ELSE Doing(worker[scopes[s]])])'
  BY RunningIs, PTL
<1>5. MQ' = MQ /\ MR' = MR
  BY <1>1, <1>2, <1>3, <1>4, QueueIs, RunningIs
<1>6. MA' = MA
  BY <1>1 DEF MA
<1> QED BY <1>5, <1>6, StutterIs

\* The mutex keeps the mailbox's promise: whatever the order of an idle timeout,
\* an arrival, a panic, a successor and a shutdown, the messages of a scope are
\* begun in the order they were accepted, one at a time and each at most once,
\* a refused one never (enqueue and run_scope_worker of the OneBot dispatcher).
THEOREM OrderIsKept == Spec => KeepsOrder
<1>1. Init => Mailbox!Init
  <2> SUFFICES ASSUME Init PROVE Mailbox!Init
    OBVIOUS
  <2>1. IInv
    BY InitIInv
  <2>2. \A s \in Scopes : scopes[s] = 0
    BY DEF Init
  <2>3. MQ = [s \in Scopes |-> <<>>] /\ MR = [s \in Scopes |-> None]
    BY <2>1, <2>2, QueueIs, RunningIs
  <2>4. MA = [d \in Deliveries |-> "none"]
    BY DEF Init, MA
  <2> QED BY <2>3, <2>4 DEF MQ, MR, MA, Mailbox!Init
<1>2. IInv /\ IInv' /\ [Next]_vars => [Mailbox!Next]_(Mailbox!vars)
  <2> SUFFICES ASSUME IInv, IInv', [Next]_vars PROVE [Mailbox!Next]_(Mailbox!vars)
    OBVIOUS
  <2>1. ASSUME NEW d \in Deliveries, Reserve(d) \/ EnqueueLocked(d)
        PROVE  [Mailbox!Next]_(Mailbox!vars)
    BY <2>1, ReserveImplements, EnqueueImplements
  <2>2. ASSUME NEW g \in Gens, WorkerStep(g) \/ Panic(g) \/ Aborted(g)
        PROVE  [Mailbox!Next]_(Mailbox!vars)
    BY <2>2, WorkerImplements
  <2>3. ASSUME UNCHANGED <<scopes, worker, fate>> PROVE [Mailbox!Next]_(Mailbox!vars)
    <3>1. MA' = MA
      BY <2>3 DEF MA
    <3> QED BY <2>3, <3>1, SeenAlone, StutterIs
  <2>4. ASSUME ParentCancelled \/ Shutdown PROVE [Mailbox!Next]_(Mailbox!vars)
    BY <2>3, <2>4, ClearImplements DEF ParentCancelled, Shutdown, StopAccepting, Cancel, WaitTimeout
  <2>5. ASSUME NEW k \in Keys, Expire(k) PROVE [Mailbox!Next]_(Mailbox!vars)
    BY <2>3, <2>5 DEF Expire
  <2>6. CASE UNCHANGED vars
    BY <2>3, <2>6 DEF vars
  <2> QED BY <2>1, <2>2, <2>4, <2>5, <2>6 DEF Next
<1> QED BY <1>1, <1>2, InvariantHolds, PTL DEF Spec, KeepsOrder, Mailbox!Spec
=============================================================================

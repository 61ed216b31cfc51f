-------------------------- MODULE DispatcherProofs --------------------------
(***************************************************************************)
(* Proofs about Dispatcher, for any number of messages and scopes, any     *)
(* capacities, and any number of panics.                                   *)
(***************************************************************************)
EXTENDS Dispatcher, FiniteSetTheorems, SequenceTheorems, TLAPS

-----------------------------------------------------------------------------
(* The inductive invariant. *)

Down == {"ended", "leaving", "gone"}
Stages == Serving \cup Down \cup {"unborn"}
Worker == [stage : Stages, scope : Scopes \cup {None}, rx : Seq(Messages),
           hand : Messages \cup {None}]
Entry == [state : {"none", "active", "retiring"}, gen : {0} \cup Gens, queued : Nat,
          backlog : Seq(Messages)]
Commands == {Enqueue(m) : m \in Messages} \cup {IdleExpired(g) : g \in Gens}
            \cup {Dequeued(g) : g \in Gens} \cup {Exited(g) : g \in Gens}
Fates == {"new", "sent", "accepted", "done", "refused", "unavailable", "evicted", "lost"}

Types ==
  /\ entry \in [Scopes -> Entry]
  /\ worker \in [Gens -> Worker]
  /\ channel \in Seq(Commands) /\ Len(channel) <= CommandRoom
  /\ slots \in Nat
  /\ cooling \subseteq Groups
  /\ notices \in Seq(Messages) /\ Len(notices) <= NoticeRoom
  /\ fate \in [Messages -> Fates]
  /\ panics \in 0 .. MaxPanics
  /\ shutdown \in BOOLEAN /\ stopped \in BOOLEAN

\* What a worker has at each of its stages.
Fits(w) ==
  /\ w.stage \in {"took", "handling"} <=> w.hand # None
  /\ w.stage \in Down \cup {"unborn"} => w.rx = <<>>
  /\ w.stage # "unborn" => w.scope # None
  /\ Len(w.rx) <= Capacity

WorkersFit ==
  \A g \in Gens :
    /\ Fits(worker[g])
    /\ worker[g].stage = "unborn" => worker[g] = Unborn

\* The messages that were accepted, whatever came of them.
Taken == {m \in Messages : fate[m] \in {"accepted", "done", "evicted", "lost"}}

\* The messages a worker still has, and those of a queue.
In(q) == {m \in Messages : \E i \in 1 .. Len(q) : q[i] = m}
Has(w) == {m \in Messages : m = w.hand \/ m \in In(w.rx)}

\* The messages a worker has not begun.
Ahead(w) == (IF w.stage = "took" THEN <<w.hand>> ELSE <<>>) \o w.rx

\* What the entry of a scope says of its worker: whose it is, that only the one
\* of an active scope can still serve, and what is in its queue.
EntryFits(s, e) ==
  /\ e.state = "none" <=> e = NoEntry
  /\ e.state # "none" => e.gen \in Gens /\ worker[e.gen].scope = s
  /\ e.state = "active" => e.backlog = <<>>
  /\ e.state = "retiring" => e.queued = 0 /\ worker[e.gen].stage \notin Serving
  /\ e.queued + Len(e.backlog) <= Capacity
  /\ In(e.backlog) \subseteq {m \in Taken : ScopeOf[m] = s}
  /\ e.state # "none" /\ worker[e.gen].stage \in Serving =>
       e.queued = Len(Ahead(worker[e.gen])) + Reports(e.gen)

EntriesFit == \A s \in Scopes : EntryFits(s, entry[s])

\* A worker that can serve is its scope's only one, and known to the actor.
ServersFit ==
  /\ \A g \in Gens : worker[g].stage \in Serving /\ ~stopped => entry[worker[g].scope].gen = g
  /\ \A g, h \in Gens : worker[g].stage \in Serving /\ worker[h].stage \in Serving
                        /\ worker[g].scope = worker[h].scope => g = h

\* What a command that is on its way says is still so.
CommandFits(c) ==
  /\ \A m \in Messages : c = Enqueue(m) => fate[m] = "sent"
  /\ \A g \in Gens : /\ c = IdleExpired(g) => worker[g].stage = "asking"
                     /\ c = Dequeued(g) => worker[g].stage # "unborn"
                     /\ c = Exited(g) => worker[g].stage = "gone"

\* A message is sent once, and a worker asks once.
ChannelFits ==
  /\ \A i \in 1 .. Len(channel) : CommandFits(channel[i])
  /\ \A i, j \in 1 .. Len(channel) :
       channel[i] = channel[j] /\ i # j => channel[i].kind \notin {"enqueue", "idle"}

\* Generations are given out in order, each with a message of its own: those
\* not accepted yet and those in a backlog are left for generations to come.
Born == {g \in Gens : worker[g].stage # "unborn"}
Waiting == {m \in Messages : fate[m] \in {"new", "sent"} \/ m \in In(entry[ScopeOf[m]].backlog)}

BirthsFit ==
  /\ Born = 1 .. Cardinality(Born)
  /\ Cardinality(Born) + Cardinality(Waiting) <= Cardinality(Messages)

\* A slot is taken by a worker until its task has ended.
Working == {g \in Gens : worker[g].stage \in Serving \cup {"ended"}}
SlotsFit == slots + Cardinality(Working) = MaxWorkers

\* A worker has only accepted messages.
FatesFit == \A g \in Gens : Has(worker[g]) \subseteq Taken

StoppedFits ==
  stopped => shutdown /\ channel = <<>> /\ \A s \in Scopes : entry[s] = NoEntry

IInv ==
  /\ Types
  /\ WorkersFit
  /\ EntriesFit
  /\ ServersFit
  /\ ChannelFits
  /\ BirthsFit
  /\ SlotsFit
  /\ FatesFit
  /\ StoppedFits
  /\ LossHasCause

-----------------------------------------------------------------------------
(* Facts about the model's operators. *)

LEMMA ConstTypes ==
  /\ IsFiniteSet(Messages) /\ ScopeOf \in [Messages -> Scopes]
  /\ Groups \subseteq Scopes
  /\ Capacity \in Nat /\ Capacity > 0 /\ MaxWorkers \in Nat
  /\ CommandRoom \in Nat /\ NoticeRoom \in Nat /\ MaxPanics \in Nat
  /\ None \notin Messages /\ None \notin Scopes
  BY DispatcherAssumption DEF DispatcherAssumption

\* There is a generation for each message, and none is 0.
LEMMA GensType ==
  /\ Cardinality(Messages) \in Nat
  /\ Gens \subseteq Nat \ {0} /\ 0 \notin Gens
  /\ IsFiniteSet(Gens)
<1>1. Cardinality(Messages) \in Nat
  BY ConstTypes, FS_CardinalityType
<1>2. IsFiniteSet(Gens)
  BY <1>1, FS_Interval DEF Gens
<1> QED BY <1>1, <1>2 DEF Gens

LEMMA BornType == IsFiniteSet(Born) /\ Cardinality(Born) \in Nat /\ NextGen = Cardinality(Born) + 1
<1>1. Born \subseteq Gens
  BY DEF Born
<1>2. IsFiniteSet(Born) /\ Cardinality(Born) \in Nat
  BY <1>1, GensType, FS_Subset, FS_CardinalityType
<1> QED BY <1>2 DEF Born, NextGen

LEMMA WorkingType == IsFiniteSet(Working) /\ Cardinality(Working) \in Nat
<1>1. Working \subseteq Gens
  BY DEF Working
<1> QED BY <1>1, GensType, FS_Subset, FS_CardinalityType

LEMMA WaitingType == IsFiniteSet(Waiting) /\ Cardinality(Waiting) \in Nat
<1>1. Waiting \subseteq Messages
  BY DEF Waiting
<1> QED BY <1>1, ConstTypes, FS_Subset, FS_CardinalityType

\* The stages are told apart.
LEMMA StagesDiffer ==
  /\ Serving \cap Down = {} /\ "unborn" \notin Serving \cup Down
  /\ {"took", "handling", "receive", "expired", "asking"} = Serving
  BY DEF Serving, Down

\* A command says its kind, and whose it is.
LEMMA CommandsDiffer ==
  /\ \A m : Enqueue(m).kind = "enqueue" /\ Enqueue(m).msg = m
  /\ \A g : IdleExpired(g).kind = "idle" /\ IdleExpired(g).gen = g
  /\ \A g : Dequeued(g).kind = "dequeued" /\ Dequeued(g).gen = g
  /\ \A g : Exited(g).kind = "exited" /\ Exited(g).gen = g
  /\ \A g, h : /\ Enqueue(g) = Enqueue(h) => g = h
               /\ IdleExpired(g) = IdleExpired(h) => g = h
               /\ Dequeued(g) = Dequeued(h) => g = h
               /\ Exited(g) = Exited(h) => g = h
  BY DEF Enqueue, IdleExpired, Dequeued, Exited

LEMMA UnbornFits ==
  /\ Unborn \in Worker /\ Fits(Unborn) /\ Has(Unborn) = {}
  /\ Unborn.stage = "unborn" /\ Unborn.scope = None /\ Unborn.rx = <<>> /\ Unborn.hand = None
<1>1. Unborn \in Worker /\ Fits(Unborn)
  BY ConstTypes DEF Unborn, Worker, Stages, Serving, Down, Fits
<1>2. Has(Unborn) = {}
  BY ConstTypes DEF Unborn, Has, In
<1> QED BY <1>1, <1>2 DEF Unborn

LEMMA NoEntryFits ==
  /\ NoEntry \in Entry /\ NoEntry.state = "none" /\ NoEntry.gen = 0
  /\ NoEntry.queued = 0 /\ NoEntry.backlog = <<>> /\ Len(NoEntry.backlog) = 0
  /\ In(NoEntry.backlog) = {}
  BY DEF NoEntry, Entry, In

\* The fields of a worker, and of an entry.
LEMMA WorkerType ==
  ASSUME NEW w \in Worker
  PROVE  /\ w.stage \in Stages /\ w.scope \in Scopes \cup {None}
         /\ w.rx \in Seq(Messages) /\ Len(w.rx) \in Nat
         /\ w.hand \in Messages \cup {None}
         /\ Has(w) \subseteq Messages
  BY DEF Worker, Has

LEMMA EntryType ==
  ASSUME NEW e \in Entry
  PROVE  /\ e.state \in {"none", "active", "retiring"} /\ e.gen \in {0} \cup Gens
         /\ e.queued \in Nat /\ e.backlog \in Seq(Messages) /\ Len(e.backlog) \in Nat
  BY DEF Entry

\* What a queue has when a message is taken from its head or put at its end.
LEMMA TakingKeeps ==
  ASSUME NEW q \in Seq(Messages), q # <<>>
  PROVE  /\ Head(q) \in Messages /\ Tail(q) \in Seq(Messages) /\ Len(Tail(q)) = Len(q) - 1
         /\ In(q) = {Head(q)} \cup In(Tail(q))
<1>1. /\ Head(q) \in Messages /\ Tail(q) \in Seq(Messages) /\ Len(Tail(q)) = Len(q) - 1
      /\ Len(q) \in Nat \ {0} /\ Head(q) = q[1]
      /\ \A i \in 1 .. Len(Tail(q)) : Tail(q)[i] = q[i + 1]
  BY EmptySeq, HeadTailProperties
<1>2. ASSUME NEW d, NEW i \in 1 .. Len(q), q[i] = d
      PROVE  d = Head(q) \/ \E j \in 1 .. Len(Tail(q)) : Tail(q)[j] = d
  <2>1. CASE i = 1  BY <2>1, <1>1, <1>2
  <2>2. CASE i # 1
    <3>1. i - 1 \in 1 .. Len(Tail(q)) /\ Tail(q)[i - 1] = q[i]  BY <2>2, <1>1
    <3> QED BY <3>1, <1>2
  <2> QED BY <2>1, <2>2
<1>3. ASSUME NEW d, NEW i \in 1 .. Len(Tail(q)), Tail(q)[i] = d
      PROVE  \E j \in 1 .. Len(q) : q[j] = d
  <2>1. i + 1 \in 1 .. Len(q) /\ q[i + 1] = d  BY <1>1, <1>3
  <2> QED BY <2>1
<1>4. 1 \in 1 .. Len(q)  BY <1>1
<1> QED BY <1>1, <1>2, <1>3, <1>4 DEF In

LEMMA AppendingAdds ==
  ASSUME NEW q \in Seq(Messages), NEW m \in Messages
  PROVE  /\ Append(q, m) \in Seq(Messages) /\ Len(Append(q, m)) = Len(q) + 1
         /\ In(Append(q, m)) = In(q) \cup {m}
<1> DEFINE r == Append(q, m)
<1>1. /\ r \in Seq(Messages) /\ Len(r) = Len(q) + 1 /\ Len(q) \in Nat
      /\ \A i \in 1 .. Len(q) : r[i] = q[i]
      /\ r[Len(q) + 1] = m
  BY AppendProperties
<1>2. ASSUME NEW d, NEW i \in 1 .. Len(r), r[i] = d
      PROVE  d = m \/ \E j \in 1 .. Len(q) : q[j] = d
  <2>1. i \in 1 .. Len(q) \/ i = Len(q) + 1  BY <1>1
  <2> QED BY <2>1, <1>1, <1>2
<1>3. \A i \in 1 .. Len(q) : i \in 1 .. Len(r)  BY <1>1
<1>4. Len(q) + 1 \in 1 .. Len(r)  BY <1>1
<1> QED BY <1>1, <1>2, <1>3, <1>4 DEF In

\* The members of a queue, in the terms of the model.
LEMMA MembersAre ==
  ASSUME NEW q \in Seq(Messages)
  PROVE  ToSet(q) = In(q)
  BY LenProperties, ElementOfSeq DEF ToSet, In

\* What a worker has not begun when it has taken a message and when it has not.
LEMMA AheadIs ==
  ASSUME NEW w \in Worker, Fits(w)
  PROVE  /\ Ahead(w) \in Seq(Messages) /\ Len(Ahead(w)) \in Nat
         /\ w.stage # "took" => Ahead(w) = w.rx
         /\ w.stage = "took" => /\ Ahead(w) = <<w.hand>> \o w.rx /\ Ahead(w) # <<>>
                                /\ Head(Ahead(w)) = w.hand /\ Tail(Ahead(w)) = w.rx
                                /\ Len(Ahead(w)) = Len(w.rx) + 1
         /\ Len(w.rx) <= Len(Ahead(w))
<1>1. w.rx \in Seq(Messages) /\ Len(w.rx) \in Nat /\ (w.stage = "took" => w.hand \in Messages)
  BY WorkerType DEF Fits
<1>2. w.stage # "took" => Ahead(w) = w.rx
  BY <1>1, ConcatEmptySeq DEF Ahead
<1>3. ASSUME w.stage = "took"
      PROVE  /\ Ahead(w) = <<w.hand>> \o w.rx /\ Ahead(w) # <<>>
             /\ Head(Ahead(w)) = w.hand /\ Tail(Ahead(w)) = w.rx
             /\ Len(Ahead(w)) = Len(w.rx) + 1 /\ Ahead(w) \in Seq(Messages)
  <2> DEFINE a == <<w.hand>> \o w.rx
  <2>1. Ahead(w) = a
    BY <1>3 DEF Ahead
  <2>2. a \in Seq(Messages) /\ Len(a) = 1 + Len(w.rx) /\ a[1] = w.hand
        /\ \A i \in 1 .. Len(w.rx) : a[i + 1] = w.rx[i]
    BY <1>1, <1>3
  <2> HIDE DEF a
  <2>3. a # <<>> /\ Len(w.rx) \in Nat
    BY <1>1, <2>2
  <2>4. /\ Head(a) = w.hand /\ Tail(a) \in Seq(Messages) /\ Len(Tail(a)) = Len(w.rx)
        /\ \A i \in 1 .. Len(w.rx) : Tail(a)[i] = w.rx[i]
    BY <2>2, <2>3, HeadTailProperties
  <2>5. Tail(a) = w.rx
    BY <1>1, <2>4, SeqEqual
  <2>6. Len(a) = Len(w.rx) + 1
    BY <2>2, <2>3
  <2> QED BY <2>1, <2>2, <2>3, <2>4, <2>5, <2>6 DEF a
<1> QED BY <1>1, <1>2, <1>3

-----------------------------------------------------------------------------
(* How many reports of a worker are on their way. *)

Places(c, q) == {i \in DOMAIN q : q[i] = c}

LEMMA PlacesType ==
  ASSUME NEW C, NEW q \in Seq(C), NEW c
  PROVE  IsFiniteSet(Places(c, q)) /\ Cardinality(Places(c, q)) \in Nat
<1>1. Len(q) \in Nat /\ DOMAIN q = 1 .. Len(q)
  BY LenProperties
<1>2. IsFiniteSet(1 .. Len(q)) /\ Places(c, q) \subseteq 1 .. Len(q)
  BY <1>1, FS_Interval DEF Places
<1> QED BY <1>2, FS_Subset, FS_CardinalityType

LEMMA PlacesAppend ==
  ASSUME NEW C, NEW q \in Seq(C), NEW c, NEW d \in C
  PROVE  Cardinality(Places(c, Append(q, d)))
           = Cardinality(Places(c, q)) + (IF d = c THEN 1 ELSE 0)
<1> DEFINE r == Append(q, d)
           n == Len(q) + 1
<1>1. /\ Len(q) \in Nat /\ DOMAIN q = 1 .. Len(q) /\ DOMAIN r = 1 .. n /\ r[n] = d
      /\ \A i \in 1 .. Len(q) : r[i] = q[i]
  BY AppendProperties, LenProperties
<1>2. n \notin Places(c, q) /\ \A i : i \in 1 .. n <=> i \in 1 .. Len(q) \/ i = n
  BY <1>1 DEF Places
<1>3. Places(c, r) = IF d = c THEN Places(c, q) \cup {n} ELSE Places(c, q)
  <2> HIDE DEF r, n
  <2> QED BY <1>1, <1>2 DEF Places
<1>4. IsFiniteSet(Places(c, q)) /\ Cardinality(Places(c, q)) \in Nat
  BY PlacesType
<1>5. Cardinality(Places(c, q) \cup {n}) = Cardinality(Places(c, q)) + 1
  BY <1>2, <1>4, FS_AddElement
<1> QED BY <1>3, <1>4, <1>5

LEMMA PlacesTail ==
  ASSUME NEW C, NEW q \in Seq(C), q # <<>>, NEW c
  PROVE  Cardinality(Places(c, q))
           = Cardinality(Places(c, Tail(q))) + (IF Head(q) = c THEN 1 ELSE 0)
<1> DEFINE t == Tail(q)
           Rest == {i \in 2 .. Len(q) : q[i] = c}
           f == [i \in Places(c, t) |-> i + 1]
<1>1. /\ Len(q) \in Nat \ {0} /\ DOMAIN q = 1 .. Len(q) /\ Head(q) = q[1]
      /\ t \in Seq(C) /\ DOMAIN t = 1 .. (Len(q) - 1)
      /\ \A i \in 1 .. (Len(q) - 1) : t[i] = q[i + 1]
  BY EmptySeq, HeadTailProperties, LenProperties
<1>2. \A i : /\ i \in 1 .. Len(q) <=> i \in 2 .. Len(q) \/ i = 1
             /\ i \in 2 .. Len(q) => i - 1 \in 1 .. (Len(q) - 1) /\ (i - 1) + 1 = i
             /\ i \in 1 .. (Len(q) - 1) => i + 1 \in 2 .. Len(q)
  BY <1>1
<1>3. \A i, j \in 1 .. (Len(q) - 1) : i + 1 = j + 1 => i = j
  BY <1>1
<1>4. 1 \notin Rest /\ Places(c, q) = IF Head(q) = c THEN Rest \cup {1} ELSE Rest
  <2>1. 1 \notin Rest
    OBVIOUS
  <2> QED BY <1>1, <1>2, <2>1 DEF Places
<1>5. Places(c, t) \subseteq 1 .. (Len(q) - 1)
  BY <1>1 DEF Places
<1>6. f \in Bijection(Places(c, t), Rest)
  <2>1. \A i \in Places(c, t) : i + 1 \in Rest
    BY <1>1, <1>2, <1>5 DEF Places
  <2>2. \A j \in Rest : \E i \in Places(c, t) : i + 1 = j
    <3> SUFFICES ASSUME NEW j \in Rest PROVE j - 1 \in Places(c, t) /\ (j - 1) + 1 = j
      OBVIOUS
    <3>1. j \in 2 .. Len(q) /\ q[j] = c
      OBVIOUS
    <3> HIDE DEF t, Rest
    <3>2. j - 1 \in 1 .. (Len(q) - 1) /\ (j - 1) + 1 = j
      BY <1>1, <3>1
    <3> QED BY <1>1, <3>1, <3>2 DEF Places
  <2> HIDE DEF t, Rest
  <2> QED BY <1>3, <1>5, <2>1, <2>2 DEF Bijection, Injection, Surjection, IsInjective
<1>7. IsFiniteSet(Places(c, t)) /\ Cardinality(Places(c, t)) \in Nat
  BY <1>1, PlacesType
<1>8. IsFiniteSet(Rest) /\ Cardinality(Rest) = Cardinality(Places(c, t))
  BY <1>6, <1>7, FS_Bijection DEF ExistsBijection
<1>9. Cardinality(Rest \cup {1}) = Cardinality(Rest) + 1
  BY <1>4, <1>8, FS_AddElement
<1> HIDE DEF Rest, t
<1> QED BY <1>4, <1>7, <1>8, <1>9 DEF t

LEMMA ReportsAre == \A g : Reports(g) = Cardinality(Places(Dequeued(g), channel))
  BY DEF Reports, Places

LEMMA ReportsGrow ==
  ASSUME channel \in Seq(Commands), NEW c \in Commands, channel' = Append(channel, c), NEW h \in Gens
  PROVE  Reports(h)' = Reports(h) + (IF c = Dequeued(h) THEN 1 ELSE 0)
<1>1. Reports(h)' = Cardinality(Places(Dequeued(h), Append(channel, c)))
  BY DEF Reports, Places
<1>2. Reports(h) = Cardinality(Places(Dequeued(h), channel))
  BY ReportsAre
<1> QED BY <1>1, <1>2, PlacesAppend

LEMMA ReportsShrink ==
  ASSUME channel \in Seq(Commands), channel # <<>>, channel' = Tail(channel), NEW h \in Gens
  PROVE  Reports(h) = Reports(h)' + (IF Head(channel) = Dequeued(h) THEN 1 ELSE 0)
<1>1. Reports(h)' = Cardinality(Places(Dequeued(h), Tail(channel)))
  BY DEF Reports, Places
<1>2. Reports(h) = Cardinality(Places(Dequeued(h), channel))
  BY ReportsAre
<1> QED BY <1>1, <1>2, PlacesTail

LEMMA ReportsType ==
  ASSUME channel \in Seq(Commands), NEW h
  PROVE  Reports(h) \in Nat
  BY ReportsAre, PlacesType

\* The commands in the channel are true, one by one, of what they are about.
LEMMA ChannelGrows ==
  ASSUME ChannelFits, channel \in Seq(Commands), NEW c \in Commands, channel' = Append(channel, c),
         \A d \in Commands : d = c \/ (\E i \in 1 .. Len(channel) : channel[i] = d) => CommandFits(d)',
         c.kind \in {"enqueue", "idle"} => \A i \in 1 .. Len(channel) : channel[i] # c
  PROVE  ChannelFits'
<1>1. /\ Len(channel) \in Nat /\ Len(channel') = Len(channel) + 1 /\ channel'[Len(channel) + 1] = c
      /\ \A i \in 1 .. Len(channel) : channel'[i] = channel[i] /\ channel[i] \in Commands
  BY AppendProperties, ElementOfSeq
<1>2. \A i : i \in 1 .. Len(channel') <=> i \in 1 .. Len(channel) \/ i = Len(channel) + 1
  BY <1>1
<1>3. ASSUME NEW i \in 1 .. Len(channel') PROVE CommandFits(channel[i])'
  <2>1. PICK d \in Commands : d = channel'[i] /\ (d = c \/ \E j \in 1 .. Len(channel) : channel[j] = d)
    BY <1>1, <1>2
  <2>2. CommandFits(d)'
    BY <2>1
  <2> QED BY <2>1, <2>2 DEF CommandFits
<1>4. \A i, j \in 1 .. Len(channel') :
        channel'[i] = channel'[j] /\ i # j => channel'[i].kind \notin {"enqueue", "idle"}
  BY <1>1, <1>2 DEF ChannelFits
<1> QED BY <1>3, <1>4 DEF ChannelFits

LEMMA ChannelShrinks ==
  ASSUME ChannelFits, channel \in Seq(Commands), channel # <<>>, channel' = Tail(channel),
         \A d \in Commands : (\E i \in 1 .. Len(channel) : channel[i] = d /\ i # 1) => CommandFits(d)'
  PROVE  ChannelFits'
<1>1. /\ Len(channel) \in Nat /\ Len(channel') = Len(channel) - 1
      /\ \A i \in 1 .. Len(channel') : channel'[i] = channel[i + 1]
      /\ \A i \in 1 .. Len(channel) : channel[i] \in Commands
  BY EmptySeq, HeadTailProperties, ElementOfSeq
<1>2. \A i \in 1 .. Len(channel') : i + 1 \in 1 .. Len(channel) /\ i + 1 # 1
  BY <1>1
<1>3. \A i, j \in 1 .. Len(channel') : i # j => i + 1 # j + 1
  BY <1>1
<1>4. ASSUME NEW i \in 1 .. Len(channel') PROVE CommandFits(channel[i])'
  <2>1. PICK d \in Commands : d = channel'[i] /\ \E j \in 1 .. Len(channel) : channel[j] = d /\ j # 1
    BY <1>1, <1>2
  <2>2. CommandFits(d)'
    BY <2>1
  <2> QED BY <2>1, <2>2 DEF CommandFits
<1>5. \A i, j \in 1 .. Len(channel') :
        channel'[i] = channel'[j] /\ i # j => channel'[i].kind \notin {"enqueue", "idle"}
  BY <1>1, <1>2, <1>3 DEF ChannelFits
<1> QED BY <1>4, <1>5 DEF ChannelFits

\* The command the actor handles is true, and no other one says the same.
LEMMA HeadFits ==
  ASSUME IInv, channel # <<>>
  PROVE  /\ channel \in Seq(Commands) /\ Head(channel) \in Commands /\ CommandFits(Head(channel))
         /\ Head(channel).kind \in {"enqueue", "idle"} =>
              \A i \in 1 .. Len(channel) : i # 1 => channel[i] # Head(channel)
         /\ \A i \in 1 .. Len(channel) : channel[i] \in Commands /\ CommandFits(channel[i])
         /\ Tail(channel) \in Seq(Commands) /\ Len(Tail(channel)) <= CommandRoom
<1>1. channel \in Seq(Commands) /\ ChannelFits /\ Len(channel) <= CommandRoom
  BY DEF IInv, Types
<1>2. /\ Len(channel) \in Nat \ {0} /\ Head(channel) = channel[1] /\ Tail(channel) \in Seq(Commands)
      /\ Len(Tail(channel)) = Len(channel) - 1 /\ 1 \in 1 .. Len(channel)
      /\ \A i \in 1 .. Len(channel) : channel[i] \in Commands
  BY <1>1, EmptySeq, HeadTailProperties, ElementOfSeq
<1>3. Len(Tail(channel)) <= CommandRoom
  BY <1>1, <1>2, ConstTypes
<1> QED BY <1>1, <1>2, <1>3 DEF ChannelFits

-----------------------------------------------------------------------------
(* Steps of a worker. *)

\* What a step of worker g, which leaves it as w, tells the actor.
Tells(g, w) ==
  \/ /\ channel' = channel
     /\ w.stage \in Serving => Len(Ahead(w)) = Len(Ahead(worker[g]))
  \/ /\ channel' = Append(channel, Dequeued(g))
     /\ w.stage \in Serving /\ Len(Ahead(worker[g])) = Len(Ahead(w)) + 1
  \/ /\ channel' = Append(channel, IdleExpired(g))
     /\ worker[g].stage = "expired" /\ w.stage = "asking" /\ Len(Ahead(w)) = Len(Ahead(worker[g]))
  \/ /\ channel' = Append(channel, Exited(g))
     /\ w.stage = "gone"

\* What every step of worker g has in common.
Moves(g, w) ==
  /\ worker[g].stage \in Serving \cup {"ended", "leaving"}
  /\ worker[g].stage = "asking" => stopped
  /\ w \in Worker /\ Fits(w) /\ w.stage # "unborn" /\ w.scope = worker[g].scope
  /\ w.stage \in Serving => worker[g].stage \in Serving
  /\ worker' = [worker EXCEPT ![g] = w]
  /\ Has(w) \subseteq Has(worker[g])
  /\ Tells(g, w) /\ (channel' # channel => Room)
  /\ \/ slots' = slots + 1 /\ worker[g].stage = "ended" /\ w.stage = "leaving"
     \/ slots' = slots /\ (w.stage \in Serving \cup {"ended"} <=> worker[g].stage \in Serving \cup {"ended"})
  /\ fate' \in [Messages -> Fates]
  /\ \A m \in Messages : fate'[m] = fate[m] \/ (m \in Has(worker[g]) /\ fate'[m] \in {"done", "lost"})
  /\ \A m \in Messages : fate'[m] = "lost" => fate[m] = "lost" \/ panics' > 0 \/ shutdown
  /\ panics' \in panics .. MaxPanics
  /\ UNCHANGED <<entry, cooling, notices, shutdown, stopped>>

\* Accepted messages stay accepted.
LEMMA MovesKeepTaken ==
  ASSUME IInv, NEW g \in Gens, NEW w, Moves(g, w)
  PROVE  /\ Taken' = Taken
         /\ \A m \in Messages : /\ fate'[m] = "sent" <=> fate[m] = "sent"
                                /\ fate'[m] \in {"new", "sent"} <=> fate[m] \in {"new", "sent"}
<1>1. \A m \in Has(worker[g]) : fate[m] \in {"accepted", "done", "evicted", "lost"}
  BY DEF IInv, FatesFit, Taken
<1>2. \A m \in Messages :
        fate'[m] = fate[m] \/ (m \in Has(worker[g]) /\ fate'[m] \in {"done", "lost"})
  BY DEF Moves
<1>3. \A m \in Messages :
        fate'[m] \in {"accepted", "done", "evicted", "lost"} <=> fate[m] \in {"accepted", "done", "evicted", "lost"}
  BY <1>1, <1>2
<1>4. Taken' = Taken
  BY <1>3 DEF Taken
<1> QED BY <1>1, <1>2, <1>4

\* The fields of a worker that can move.
LEMMA FieldsOf ==
  ASSUME IInv, NEW g \in Gens
  PROVE  /\ worker[g] \in Worker /\ Fits(worker[g]) /\ Has(worker[g]) \subseteq Taken
         /\ worker[g].stage \in Stages
         /\ worker[g].rx \in Seq(Messages) /\ Len(worker[g].rx) \in Nat
         /\ worker[g].hand \in Messages \cup {None}
         /\ worker[g].stage # "unborn" => worker[g].scope \in Scopes
  BY WorkerType DEF IInv, Types, WorkersFit, Fits, FatesFit

LEMMA EntryOf ==
  ASSUME IInv, NEW s \in Scopes
  PROVE  /\ entry[s] \in Entry /\ EntryFits(s, entry[s])
         /\ entry[s].gen \in {0} \cup Gens
         /\ entry[s].gen # 0 <=> entry[s].state # "none"
         /\ entry[s].gen # 0 => worker[entry[s].gen].scope = s
         /\ entry[s].state = "none" <=> entry[s] = NoEntry
<1>1. entry[s] \in Entry /\ EntryFits(s, entry[s])
  BY DEF IInv, Types, EntriesFit
<1> QED BY <1>1, EntryType, NoEntryFits, GensType DEF EntryFits

\* A worker's step touches the entry of its own scope only, and that one not.
LEMMA MovesKeepEntries ==
  ASSUME IInv, NEW g \in Gens, NEW w, Moves(g, w)
  PROVE  EntriesFit'
<1>1. /\ Taken' = Taken /\ entry' = entry /\ w.scope = worker[g].scope
      /\ worker'[g] = w /\ \A h \in Gens : h # g => worker'[h] = worker[h]
      /\ (w.stage \in Serving => worker[g].stage \in Serving)
  BY MovesKeepTaken DEF Moves, IInv, Types
<1>2. SUFFICES ASSUME NEW s \in Scopes PROVE EntryFits(s, entry[s])'
  BY DEF EntriesFit
<1> DEFINE e == entry[s]
<1>3. e \in Entry /\ EntryFits(s, e)
  BY <1>2, EntryOf
<1>4. e.state # "none" => e.gen \in Gens /\ worker'[e.gen].scope = worker[e.gen].scope
                          /\ (worker'[e.gen].stage \in Serving => worker[e.gen].stage \in Serving)
  BY <1>1, <1>3 DEF EntryFits
<1>5. ASSUME NEW h \in Gens, e.gen = h, e.state # "none", worker'[h].stage \in Serving
      PROVE  e.queued = Len(Ahead(worker'[h])) + Reports(h)'
  <2>1. worker[h].stage \in Serving /\ e.queued = Len(Ahead(worker[h])) + Reports(h)
    BY <1>3, <1>4, <1>5 DEF EntryFits
  <2>2. /\ channel \in Seq(Commands) /\ Reports(h) \in Nat
        /\ Dequeued(g) \in Commands /\ IdleExpired(g) \in Commands /\ Exited(g) \in Commands
    BY ReportsType DEF Commands, IInv, Types
  <2>3. w \in Worker /\ Fits(w) /\ worker[g] \in Worker /\ Fits(worker[g])
    BY FieldsOf DEF Moves
  <2>4. Len(Ahead(w)) \in Nat /\ Len(Ahead(worker[g])) \in Nat
    BY <2>3, AheadIs
  <2>5. CASE channel' = channel /\ (w.stage \in Serving => Len(Ahead(w)) = Len(Ahead(worker[g])))
    <3>1. Reports(h)' = Reports(h)
      BY <2>5 DEF Reports
    <3>2. CASE h = g
      <4>1. worker'[h] = w /\ w.stage \in Serving
        BY <1>1, <1>5, <3>2
      <4> QED BY <2>1, <2>5, <3>1, <3>2, <4>1
    <3>3. CASE h # g
      <4>1. worker'[h] = worker[h]
        BY <1>1, <2>1, <3>3
      <4> QED BY <2>1, <3>1, <4>1
    <3> QED BY <3>2, <3>3
  <2>6. CASE /\ channel' = Append(channel, Dequeued(g))
             /\ w.stage \in Serving /\ Len(Ahead(worker[g])) = Len(Ahead(w)) + 1
    <3>1. Reports(h)' = Reports(h) + (IF Dequeued(g) = Dequeued(h) THEN 1 ELSE 0)
      BY <2>1, <2>2, <2>6, ReportsGrow
    <3>2. Dequeued(g) = Dequeued(h) <=> h = g
      BY CommandsDiffer
    <3>3. CASE h = g
      <4>1. worker'[h] = w /\ Reports(h)' = Reports(h) + 1
        BY <1>1, <3>1, <3>2, <3>3
      <4>2. Len(Ahead(worker'[h])) = Len(Ahead(w)) /\ Len(Ahead(worker[h])) = Len(Ahead(w)) + 1
        BY <2>6, <3>3, <4>1
      <4>3. e.queued = (Len(Ahead(w)) + 1) + Reports(h)
        BY <2>1, <4>2
      <4> QED BY <2>2, <2>4, <4>1, <4>2, <4>3
    <3>4. CASE h # g
      <4>1. worker'[h] = worker[h] /\ Reports(h)' = Reports(h)
        BY <1>1, <2>1, <2>2, <3>1, <3>2, <3>4
      <4> QED BY <2>1, <4>1
    <3> QED BY <3>3, <3>4
  <2>7. CASE \/ /\ channel' = Append(channel, IdleExpired(g)) /\ Len(Ahead(w)) = Len(Ahead(worker[g]))
             \/ channel' = Append(channel, Exited(g)) /\ w.stage = "gone"
    <3>1. IdleExpired(g) # Dequeued(h) /\ Exited(g) # Dequeued(h)
      BY CommandsDiffer
    <3>2. Reports(h)' = Reports(h)
      BY <2>1, <2>2, <2>7, <3>1, ReportsGrow
    <3>3. CASE h = g
      <4>1. worker'[h] = w /\ w.stage \in Serving /\ w.stage # "gone"
        BY <1>1, <1>5, <3>3 DEF Serving
      <4> QED BY <2>1, <2>7, <3>2, <3>3, <4>1
    <3>4. CASE h # g
      <4>1. worker'[h] = worker[h]
        BY <1>1, <2>1, <3>4
      <4> QED BY <2>1, <3>2, <4>1
    <3> QED BY <3>3, <3>4
  <2> QED BY <2>5, <2>6, <2>7 DEF Moves, Tells
<1>6. e.state # "none" /\ worker'[e.gen].stage \in Serving =>
        e.queued = Len(Ahead(worker'[e.gen])) + Reports(e.gen)'
  <2> SUFFICES ASSUME e.state # "none", worker'[e.gen].stage \in Serving
               PROVE  e.queued = Len(Ahead(worker'[e.gen])) + Reports(e.gen)'
    OBVIOUS
  <2>1. PICK h \in Gens : h = e.gen
    BY <1>4
  <2>2. Reports(e.gen)' = Reports(h)'
    BY <1>1, <2>1 DEF Reports
  <2> QED BY <1>5, <2>1, <2>2
<1> QED BY <1>1, <1>3, <1>4, <1>6 DEF EntryFits

LEMMA MovesKeepChannel ==
  ASSUME IInv, NEW g \in Gens, NEW w, Moves(g, w)
  PROVE  ChannelFits' /\ channel' \in Seq(Commands) /\ Len(channel') <= CommandRoom
<1>1. /\ ChannelFits /\ channel \in Seq(Commands) /\ Len(channel) <= CommandRoom
      /\ Dequeued(g) \in Commands /\ IdleExpired(g) \in Commands /\ Exited(g) \in Commands
      /\ stopped => channel = <<>>
  BY DEF Commands, IInv, Types, StoppedFits
<1>2. /\ worker'[g] = w /\ \A h \in Gens : h # g => worker'[h] = worker[h]
      /\ \A m \in Messages : fate'[m] = "sent" <=> fate[m] = "sent"
      /\ worker[g].stage \notin {"gone", "unborn"} /\ w.stage # "unborn"
  BY MovesKeepTaken DEF Moves, IInv, Types, Serving
<1>3. \A d \in Commands : (\E i \in 1 .. Len(channel) : channel[i] = d) => CommandFits(d)'
  <2>1. SUFFICES ASSUME NEW d \in Commands, NEW i \in 1 .. Len(channel), channel[i] = d
                 PROVE  CommandFits(d)'
    OBVIOUS
  <2>2. CommandFits(d) /\ Len(channel) # 0
    BY <1>1, <2>1 DEF ChannelFits
  <2>3. ~stopped
    BY <1>1, <2>2
  <2>4. worker[g].stage # "asking"
    BY <2>3 DEF Moves
  <2>5. ASSUME NEW h \in Gens
        PROVE  /\ d = IdleExpired(h) => worker'[h].stage = "asking"
               /\ d = Dequeued(h) => worker'[h].stage # "unborn"
               /\ d = Exited(h) => worker'[h].stage = "gone"
    BY <1>2, <2>2, <2>4, <2>5 DEF CommandFits
  <2> QED BY <1>2, <2>2, <2>5 DEF CommandFits
<1>4. CASE channel' = channel
  <2>1. ASSUME NEW i \in 1 .. Len(channel') PROVE CommandFits(channel[i])'
    <3>1. PICK d \in Commands : d = channel'[i] /\ \E j \in 1 .. Len(channel) : channel[j] = d
      BY <1>1, <1>4, <2>1, ElementOfSeq
    <3>2. CommandFits(d)'
      BY <1>3, <3>1
    <3> QED BY <3>1, <3>2 DEF CommandFits
  <2> QED BY <1>1, <1>4, <2>1 DEF ChannelFits
<1>5. ASSUME NEW c \in {Dequeued(g), IdleExpired(g), Exited(g)}, channel' = Append(channel, c),
             c = IdleExpired(g) => worker[g].stage = "expired" /\ w.stage = "asking",
             c = Exited(g) => w.stage = "gone"
      PROVE  ChannelFits' /\ channel' \in Seq(Commands) /\ Len(channel') <= CommandRoom
  <2>1. /\ c \in Commands /\ channel' \in Seq(Commands) /\ Len(channel') = Len(channel) + 1
        /\ channel' # channel
    BY <1>1, <1>5, AppendProperties
  <2>2. Len(channel') <= CommandRoom
    BY <1>1, <2>1, ConstTypes DEF Moves, Room
  <2>3. /\ CommandFits(c)'
        /\ c.kind \in {"enqueue", "idle"} => \A i \in 1 .. Len(channel) : channel[i] # c
    <3>1. CASE c = Dequeued(g)
      <4>1. \A h : c = Dequeued(h) => h = g
        BY <3>1, CommandsDiffer
      <4>2. c.kind = "dequeued" /\ (\A h : IdleExpired(h) # c /\ Exited(h) # c /\ Enqueue(h) # c)
        BY <3>1, CommandsDiffer
      <4> QED BY <1>2, <4>1, <4>2 DEF CommandFits
    <3>2. CASE c = IdleExpired(g)
      <4>1. \A h : c = IdleExpired(h) => h = g
        BY <3>2, CommandsDiffer
      <4>2. c.kind = "idle" /\ (\A h : Dequeued(h) # c /\ Exited(h) # c /\ Enqueue(h) # c)
        BY <3>2, CommandsDiffer
      <4>3. CommandFits(c)'
        BY <1>2, <1>5, <3>2, <4>1, <4>2 DEF CommandFits
      <4>4. \A i \in 1 .. Len(channel) : channel[i] # c
        BY <1>1, <1>5, <3>2 DEF ChannelFits, CommandFits
      <4> QED BY <4>3, <4>4
    <3>3. CASE c = Exited(g)
      <4>1. \A h : c = Exited(h) => h = g
        BY <3>3, CommandsDiffer
      <4>2. c.kind = "exited" /\ (\A h : Dequeued(h) # c /\ IdleExpired(h) # c /\ Enqueue(h) # c)
        BY <3>3, CommandsDiffer
      <4> QED BY <1>2, <1>5, <3>3, <4>1, <4>2 DEF CommandFits
    <3> QED BY <1>5, <3>1, <3>2, <3>3
  <2>4. \A d \in Commands : d = c \/ (\E i \in 1 .. Len(channel) : channel[i] = d) => CommandFits(d)'
    BY <1>3, <2>3
  <2>5. ChannelFits'
    BY <1>1, <1>5, <2>1, <2>3, <2>4, ChannelGrows
  <2> QED BY <2>1, <2>2, <2>5
<1> QED
  <2>1. CASE channel' = Append(channel, Dequeued(g))
    <3>1. Dequeued(g) # IdleExpired(g) /\ Dequeued(g) # Exited(g)
      BY CommandsDiffer
    <3> QED BY <1>5, <2>1, <3>1
  <2>2. CASE channel' = Append(channel, IdleExpired(g)) /\ worker[g].stage = "expired" /\ w.stage = "asking"
    <3>1. IdleExpired(g) # Exited(g)
      BY CommandsDiffer
    <3> QED BY <1>5, <2>2, <3>1
  <2>3. CASE channel' = Append(channel, Exited(g)) /\ w.stage = "gone"
    <3>1. IdleExpired(g) # Exited(g)
      BY CommandsDiffer
    <3> QED BY <1>5, <2>3, <3>1
  <2> QED BY <1>1, <1>4, <2>1, <2>2, <2>3 DEF Moves, Tells

\* Slots and births: counts that one worker's step changes by at most one.
LEMMA MovesKeepCounts ==
  ASSUME IInv, NEW g \in Gens, NEW w, Moves(g, w)
  PROVE  BirthsFit' /\ SlotsFit' /\ slots' \in Nat
<1>1. /\ worker'[g] = w /\ \A h \in Gens : h # g => worker'[h] = worker[h]
      /\ \A m \in Messages : fate'[m] \in {"new", "sent"} <=> fate[m] \in {"new", "sent"}
      /\ worker[g].stage # "unborn" /\ w.stage # "unborn" /\ entry' = entry
  BY MovesKeepTaken DEF Moves, IInv, Types, Serving
<1>2. Born' = Born /\ Waiting' = Waiting
  BY <1>1 DEF Born, Waiting
<1>3. BirthsFit'
  BY <1>2 DEF BirthsFit, IInv
<1>4. slots \in Nat /\ SlotsFit /\ IsFiniteSet(Working) /\ Cardinality(Working) \in Nat /\ MaxWorkers \in Nat
  BY WorkingType, ConstTypes DEF IInv, Types
<1>5. CASE slots' = slots + 1 /\ worker[g].stage = "ended" /\ w.stage = "leaving"
  <2>1. g \in Working /\ Working' = Working \ {g}
    BY <1>1, <1>5 DEF Working, Serving
  <2>2. Cardinality(Working') = Cardinality(Working) - 1
    BY <1>4, <2>1, FS_RemoveElement
  <2> QED BY <1>3, <1>4, <1>5, <2>2 DEF SlotsFit
<1>6. CASE slots' = slots /\ (w.stage \in Serving \cup {"ended"} <=> worker[g].stage \in Serving \cup {"ended"})
  <2>1. Working' = Working
    BY <1>1, <1>6 DEF Working
  <2> QED BY <1>3, <1>4, <1>6, <2>1 DEF SlotsFit
<1> QED BY <1>5, <1>6 DEF Moves

LEMMA MovesKeepIInv ==
  ASSUME IInv, NEW g \in Gens, NEW w, Moves(g, w)
  PROVE  IInv'
<1>1. /\ worker \in [Gens -> Worker] /\ w \in Worker /\ Fits(w) /\ w.stage # "unborn"
      /\ worker' = [worker EXCEPT ![g] = w] /\ w.scope = worker[g].scope
      /\ worker'[g] = w /\ \A h \in Gens : h # g => worker'[h] = worker[h]
      /\ (w.stage \in Serving => worker[g].stage \in Serving)
      /\ UNCHANGED <<entry, cooling, notices, shutdown, stopped>>
  BY DEF Moves, IInv, Types
<1>2. Types'
  <2>1. panics' \in 0 .. MaxPanics /\ fate' \in [Messages -> Fates]
    BY ConstTypes DEF Moves, IInv, Types
  <2> QED BY <1>1, <2>1, MovesKeepChannel, MovesKeepCounts DEF IInv, Types
<1>3. WorkersFit'
  BY <1>1 DEF WorkersFit, IInv
<1>4. ServersFit'
  <2>1. \A h \in Gens : worker'[h].scope = worker[h].scope
                        /\ (worker'[h].stage \in Serving => worker[h].stage \in Serving)
    BY <1>1
  <2> QED BY <1>1, <2>1 DEF ServersFit, IInv
<1>5. FatesFit'
  <2>1. Taken' = Taken /\ Has(w) \subseteq Has(worker[g])
    BY MovesKeepTaken DEF Moves
  <2> QED BY <1>1, <2>1 DEF FatesFit, IInv
<1>6. StoppedFits'
  <2>1. stopped => channel' = channel
    BY DEF Moves, Room
  <2> QED BY <1>1, <2>1 DEF StoppedFits, IInv
<1>7. LossHasCause'
  <2>1. panics' \in Int /\ panics \in Int /\ panics' >= panics /\ panics >= 0
    BY ConstTypes DEF Moves, IInv, Types
  <2>2. \A m \in Messages : fate'[m] = "lost" => fate[m] = "lost" \/ panics' > 0 \/ shutdown
    BY DEF Moves
  <2> QED BY <1>1, <2>1, <2>2 DEF LossHasCause, IInv
<1> QED BY <1>2, <1>3, <1>4, <1>5, <1>6, <1>7, MovesKeepEntries, MovesKeepChannel, MovesKeepCounts DEF IInv

-----------------------------------------------------------------------------
(* The steps of a worker are moves. *)

Took(g) == [worker[g] EXCEPT !.stage = "took", !.hand = Head(worker[g].rx), !.rx = Tail(@)]
At(g, stage) == [worker[g] EXCEPT !.stage = stage]
Free(g) == [worker[g] EXCEPT !.stage = "receive", !.hand = None]
Ended(g) == [worker[g] EXCEPT !.stage = "ended", !.rx = <<>>, !.hand = None]

LEMMA TookFits ==
  ASSUME IInv, NEW g \in Gens, worker[g].rx # <<>>, worker[g].stage = "receive"
  PROVE  /\ Took(g) \in Worker /\ Fits(Took(g)) /\ Has(Took(g)) = Has(worker[g])
         /\ Took(g).stage = "took" /\ Took(g).scope = worker[g].scope
         /\ Ahead(Took(g)) = Ahead(worker[g])
<1> DEFINE v == worker[g]
           w == Took(g)
<1>1. /\ v \in Worker /\ Fits(v) /\ v.rx \in Seq(Messages) /\ Len(v.rx) <= Capacity /\ v.hand = None
      /\ v.scope # None /\ Len(v.rx) \in Nat
  BY FieldsOf DEF Fits
<1>2. /\ Head(v.rx) \in Messages /\ Tail(v.rx) \in Seq(Messages) /\ Len(Tail(v.rx)) = Len(v.rx) - 1
      /\ In(v.rx) = {Head(v.rx)} \cup In(Tail(v.rx))
  BY <1>1, TakingKeeps
<1>3. /\ w \in Worker /\ w.stage = "took" /\ w.scope = v.scope
      /\ w.hand = Head(v.rx) /\ w.rx = Tail(v.rx)
  BY <1>1, <1>2 DEF Took, Worker, Stages, Serving
<1>4. Fits(w)
  BY <1>1, <1>2, <1>3, ConstTypes DEF Fits, Down
<1>5. Has(w) = Has(v)
  BY <1>1, <1>2, <1>3, ConstTypes DEF Has
<1>6. Ahead(w) = Ahead(v)
  <2>1. Ahead(v) = v.rx /\ Ahead(w) = <<Head(v.rx)>> \o Tail(v.rx)
    BY <1>1, <1>3, <1>4, AheadIs
  <2>2. v.rx = <<Head(v.rx)>> \o Tail(v.rx)
    BY <1>1
  <2> QED BY <2>1, <2>2
<1> QED BY <1>3, <1>4, <1>5, <1>6

LEMMA AtFits ==
  ASSUME IInv, NEW g \in Gens, NEW stage \in Serving \cup {"leaving", "gone"},
         worker[g].stage # "unborn",
         stage \in {"took", "handling"} <=> worker[g].hand # None,
         stage \in Down => worker[g].rx = <<>>
  PROVE  /\ At(g, stage) \in Worker /\ Fits(At(g, stage)) /\ Has(At(g, stage)) = Has(worker[g])
         /\ At(g, stage).stage = stage /\ At(g, stage).scope = worker[g].scope
         /\ At(g, stage).rx = worker[g].rx /\ At(g, stage).hand = worker[g].hand
<1> DEFINE w == At(g, stage)
<1>1. worker[g] \in Worker /\ Fits(worker[g]) /\ worker[g].scope # None
  BY FieldsOf DEF Fits
<1>2. /\ w \in Worker /\ w.stage = stage /\ w.scope = worker[g].scope
      /\ w.rx = worker[g].rx /\ w.hand = worker[g].hand
  BY <1>1 DEF At, Worker, Stages, Down
<1>3. stage # "unborn"
  BY DEF Serving
<1> HIDE DEF w
<1> QED BY <1>1, <1>2, <1>3 DEF Fits, Has, w

LEMMA FreeFits ==
  ASSUME IInv, NEW g \in Gens, worker[g].stage = "handling"
  PROVE  /\ Free(g) \in Worker /\ Fits(Free(g))
         /\ Has(Free(g)) \subseteq Has(worker[g])
         /\ Free(g).stage = "receive" /\ Free(g).scope = worker[g].scope
         /\ Free(g).rx = worker[g].rx /\ Free(g).hand = None
<1> DEFINE w == Free(g)
<1>1. worker[g] \in Worker /\ Fits(worker[g]) /\ worker[g].scope # None
  BY FieldsOf DEF Fits
<1>2. /\ w \in Worker /\ w.stage = "receive" /\ w.scope = worker[g].scope
      /\ w.rx = worker[g].rx /\ w.hand = None
  BY <1>1, ConstTypes DEF Free, Worker, Stages, Serving
<1>3. Fits(w)
  BY <1>1, <1>2 DEF Fits, Down
<1>4. Has(w) \subseteq Has(worker[g])
  BY <1>2, ConstTypes DEF Has
<1> QED BY <1>2, <1>3, <1>4

LEMMA EndedFits ==
  ASSUME IInv, NEW g \in Gens, worker[g].stage \in Serving
  PROVE  /\ Ended(g) \in Worker /\ Fits(Ended(g)) /\ Has(Ended(g)) = {}
         /\ Ended(g).stage = "ended" /\ Ended(g).scope = worker[g].scope
         /\ Ended(g).rx = <<>> /\ Ended(g).hand = None
<1>1. worker[g] \in Worker /\ worker[g].scope # None
  BY FieldsOf DEF Fits, Serving
<1>2. /\ Ended(g) \in Worker
      /\ Ended(g).stage = "ended" /\ Ended(g).scope = worker[g].scope
      /\ Ended(g).rx = <<>> /\ Ended(g).hand = None
  BY <1>1, EmptySeq DEF Ended, Worker, Stages, Down
<1>3. In(<<>>) = {}
  BY DEF In
<1>4. Has(Ended(g)) = {}
  BY <1>2, <1>3, ConstTypes DEF Has
<1>5. Len(Ended(g).rx) <= Capacity
  BY <1>2, ConstTypes
<1> QED BY <1>1, <1>2, <1>4, <1>5 DEF Fits

\* Panics counted are within their bound.
LEMMA PanicsType ==
  ASSUME IInv
  PROVE  /\ panics \in panics .. MaxPanics /\ panics \in Int /\ panics >= 0
         /\ panics < MaxPanics => panics + 1 \in panics .. MaxPanics /\ panics + 1 > 0
  BY ConstTypes DEF IInv, Types

LEMMA ReceiveMoves ==
  ASSUME IInv, NEW g \in Gens, Receive(g)
  PROVE  Moves(g, Took(g))
<1>1. worker' = [worker EXCEPT ![g] = Took(g)]
  BY DEF Receive, Took, IInv, Types
<1>2. /\ worker[g].rx # <<>> /\ worker[g].stage = "receive"
      /\ UNCHANGED <<entry, channel, slots, cooling, notices, fate, panics, shutdown, stopped>>
  BY DEF Receive
<1>3. fate \in [Messages -> Fates]
  BY DEF IInv, Types
<1> QED BY <1>1, <1>2, <1>3, TookFits, PanicsType DEF Moves, Tells, Serving

\* A step that changes the stage only, from one with a receiver to another.
LEMMA StagingMoves ==
  ASSUME IInv, NEW g \in Gens, NEW stage,
         \/ IdleTimeout(g) /\ stage = "expired"
         \/ AskToRetire(g) /\ stage = "asking"
         \/ ReportDequeued(g) /\ stage = "handling"
         \/ ReleaseSlot(g) /\ stage = "leaving"
         \/ ReportExited(g) /\ stage = "gone"
  PROVE  Moves(g, At(g, stage)) /\ fate' = fate
<1>1. /\ worker' = [worker EXCEPT ![g] = At(g, stage)]
      /\ UNCHANGED <<entry, cooling, notices, fate, panics, shutdown, stopped>>
  BY DEF At, IInv, Types, IdleTimeout, AskToRetire, ReportDequeued, ReleaseSlot, ReportExited
<1>2. /\ fate \in [Messages -> Fates] /\ Fits(worker[g]) /\ worker[g] \in Worker
      /\ channel \in Seq(Commands)
  BY FieldsOf DEF IInv, Types
<1> DEFINE v == worker[g]
           w == At(g, stage)
<1>3. /\ stage \in Serving \cup {"leaving", "gone"} /\ v.stage \in Serving \cup {"ended", "leaving"}
      /\ v.stage # "unborn" /\ v.stage # "asking"
      /\ (stage \in {"took", "handling"} <=> v.hand # None)
      /\ (stage \in Down => v.rx = <<>>) /\ (stage \in Serving => v.stage \in Serving)
  BY <1>2 DEF Serving, Down, Fits, IdleTimeout, AskToRetire, ReportDequeued, ReleaseSlot, ReportExited
<1>4. /\ w \in Worker /\ Fits(w) /\ Has(w) = Has(v) /\ w.stage = stage /\ w.scope = v.scope
      /\ w.rx = v.rx /\ w.hand = v.hand
  BY <1>3, AtFits
<1> HIDE DEF w
<1>5. /\ stage # "took" => Len(Ahead(w)) = Len(v.rx)
      /\ Len(Ahead(v)) = Len(v.rx) + (IF v.stage = "took" THEN 1 ELSE 0)
      /\ Len(v.rx) \in Nat
  <2>1. Len(v.rx) \in Nat
    BY <1>2, WorkerType
  <2>2. stage # "took" => Ahead(w) = w.rx
    BY <1>4, AheadIs
  <2>3. v.stage # "took" => Ahead(v) = v.rx
    BY <1>2, AheadIs
  <2>4. v.stage = "took" => Len(Ahead(v)) = Len(v.rx) + 1
    BY <1>2, AheadIs
  <2>5. stage # "took" => Len(Ahead(w)) = Len(v.rx)
    BY <1>4, <2>2
  <2>6. Len(Ahead(v)) = Len(v.rx) + (IF v.stage = "took" THEN 1 ELSE 0)
    <3>1. CASE v.stage = "took"
      BY <2>4, <3>1
    <3>2. CASE v.stage # "took"
      <4>1. Len(Ahead(v)) = Len(v.rx)
        BY <2>3, <3>2
      <4> QED BY <2>1, <3>2, <4>1
    <3> QED BY <3>1, <3>2
  <2> QED BY <2>1, <2>5, <2>6
<1>6. Tells(g, w) /\ (channel' # channel => Room)
  <2>1. CASE IdleTimeout(g) /\ stage = "expired"
    BY <1>4, <1>5, <2>1 DEF Tells, IdleTimeout
  <2>2. CASE AskToRetire(g) /\ stage = "asking"
    BY <1>4, <1>5, <2>2 DEF Tells, AskToRetire
  <2>3. CASE ReportDequeued(g) /\ stage = "handling"
    BY <1>4, <1>5, <2>3 DEF Tells, ReportDequeued, Serving
  <2>4. CASE ReleaseSlot(g) /\ stage = "leaving"
    BY <1>4, <2>4 DEF Tells, ReleaseSlot, Serving
  <2>5. CASE ReportExited(g) /\ stage = "gone"
    BY <1>4, <2>5 DEF Tells, ReportExited, Serving
  <2> QED BY <2>1, <2>2, <2>3, <2>4, <2>5
<1>7. \/ slots' = slots + 1 /\ v.stage = "ended" /\ w.stage = "leaving"
      \/ slots' = slots /\ (w.stage \in Serving \cup {"ended"} <=> v.stage \in Serving \cup {"ended"})
  BY <1>4 DEF Serving, IdleTimeout, AskToRetire, ReportDequeued, ReleaseSlot, ReportExited
<1>8. worker' = [worker EXCEPT ![g] = w] /\ w.stage # "unborn"
  BY <1>1, <1>3, <1>4, StagesDiffer DEF w, Down
<1>9. Moves(g, w)
  BY <1>1, <1>2, <1>3, <1>4, <1>6, <1>7, <1>8, PanicsType DEF Moves
<1> QED BY <1>1, <1>9 DEF w

LEMMA FinishMoves ==
  ASSUME IInv, NEW g \in Gens, FinishHandling(g)
  PROVE  Moves(g, Free(g))
<1> DEFINE v == worker[g]
           w == Free(g)
<1>1. /\ worker' = [worker EXCEPT ![g] = Free(g)] /\ v.stage = "handling"
      /\ fate' = [fate EXCEPT ![v.hand] = "done"]
      /\ UNCHANGED <<entry, channel, slots, cooling, notices, panics, shutdown, stopped>>
  BY DEF FinishHandling, Free, IInv, Types
<1>2. /\ fate \in [Messages -> Fates] /\ Fits(v) /\ v \in Worker /\ v.hand \in Messages
  BY <1>1, FieldsOf DEF IInv, Types, Fits
<1>3. /\ w \in Worker /\ Fits(w) /\ Has(w) \subseteq Has(v)
      /\ w.stage = "receive" /\ w.scope = v.scope /\ w.rx = v.rx /\ w.hand = None
  BY <1>1, FreeFits
<1> HIDE DEF w
<1>4. Len(Ahead(w)) = Len(Ahead(v))
  BY <1>1, <1>2, <1>3, AheadIs
<1>5. v.hand \in Has(v)
  BY <1>2 DEF Has
<1>6. /\ fate' \in [Messages -> Fates]
      /\ \A m \in Messages : fate'[m] = fate[m] \/ (m \in Has(v) /\ fate'[m] \in {"done", "lost"})
      /\ \A m \in Messages : fate'[m] = "lost" => fate[m] = "lost"
  BY <1>1, <1>2, <1>5 DEF Fates
<1> QED BY <1>1, <1>2, <1>3, <1>4, <1>6, PanicsType DEF Moves, Tells, Serving, w

LEMMA EndMoves ==
  ASSUME IInv, NEW g \in Gens, Panic(g) \/ Cancelled(g)
  PROVE  Moves(g, Ended(g))
<1> DEFINE v == worker[g]
           w == Ended(g)
<1>1. /\ worker' = [worker EXCEPT ![g] = Ended(g)]
      /\ fate' = Dropped(fate, ToSet(v.rx) \cup ({v.hand} \ {None}), "lost")
      /\ UNCHANGED <<entry, channel, slots, cooling, notices, shutdown, stopped>>
  BY DEF Panic, Cancelled, End, Ended, IInv, Types
<1>2. /\ v.stage \in Serving /\ (v.stage = "asking" => stopped) /\ panics' \in panics .. MaxPanics
      /\ (panics' > 0 \/ shutdown)
  BY PanicsType DEF Panic, Cancelled, Serving, IInv, StoppedFits
<1>3. /\ fate \in [Messages -> Fates] /\ v \in Worker /\ v.rx \in Seq(Messages)
  BY FieldsOf DEF IInv, Types
<1>4. /\ w \in Worker /\ Fits(w) /\ Has(w) = {} /\ w.stage = "ended" /\ w.scope = v.scope
  BY <1>2, EndedFits
<1> HIDE DEF w
<1>5. /\ fate' \in [Messages -> Fates]
      /\ \A m \in Messages : fate'[m] = fate[m] \/ (m \in Has(v) /\ fate'[m] \in {"done", "lost"})
  <2>1. ToSet(v.rx) = In(v.rx)
    BY <1>3, MembersAre
  <2>2. \A m \in Messages : m \in ToSet(v.rx) \cup ({v.hand} \ {None}) => m \in Has(v)
    BY <2>1, ConstTypes DEF Has
  <2> QED BY <1>1, <1>3, <2>2 DEF Dropped, Fates
<1> QED BY <1>1, <1>2, <1>4, <1>5 DEF Moves, Tells, Serving, w

\* Every step of a worker keeps the invariant.
LEMMA WorkerStepIInv ==
  ASSUME IInv, NEW g \in Gens, WorkerStep(g) \/ Panic(g)
  PROVE  IInv'
<1>1. ASSUME NEW w, Moves(g, w) PROVE IInv'
  BY <1>1, MovesKeepIInv
<1>2. ASSUME Receive(g) PROVE IInv'
  BY <1>1, <1>2, ReceiveMoves
<1>3. ASSUME IdleTimeout(g) \/ AskToRetire(g) \/ ReportDequeued(g) \/ ReleaseSlot(g) \/ ReportExited(g)
      PROVE  IInv'
  BY <1>1, <1>3, StagingMoves
<1>4. ASSUME FinishHandling(g) PROVE IInv'
  BY <1>1, <1>4, FinishMoves
<1>5. ASSUME Panic(g) \/ Cancelled(g) PROVE IInv'
  BY <1>1, <1>5, EndMoves
<1> QED BY <1>2, <1>3, <1>4, <1>5 DEF WorkerStep

-----------------------------------------------------------------------------
(* Steps of the actor. *)

\* The commands behind the one that is handled stay true.
LEMMA ActorChannel ==
  ASSUME IInv, channel # <<>>, channel' = Tail(channel),
         \A m \in Messages : fate[m] = "sent" /\ Head(channel) # Enqueue(m) => fate'[m] = "sent",
         \A h \in Gens :
           /\ worker[h].stage = "asking" /\ Head(channel) # IdleExpired(h) => worker'[h].stage = "asking"
           /\ worker[h].stage # "unborn" => worker'[h].stage # "unborn"
           /\ worker[h].stage = "gone" => worker'[h].stage = "gone"
  PROVE  ChannelFits' /\ channel' \in Seq(Commands) /\ Len(channel') <= CommandRoom
<1>1. /\ channel \in Seq(Commands) /\ ChannelFits
      /\ Tail(channel) \in Seq(Commands) /\ Len(Tail(channel)) <= CommandRoom
      /\ \A i \in 1 .. Len(channel) : CommandFits(channel[i])
      /\ Head(channel).kind \in {"enqueue", "idle"} =>
           \A i \in 1 .. Len(channel) : i # 1 => channel[i] # Head(channel)
  BY HeadFits DEF IInv
<1>2. ASSUME NEW d \in Commands, NEW i \in 1 .. Len(channel), channel[i] = d, i # 1
      PROVE  CommandFits(d)'
  <2>1. CommandFits(d)
    BY <1>1, <1>2
  <2>2. \A m \in Messages : d = Enqueue(m) => Head(channel) # Enqueue(m)
    BY <1>1, <1>2, CommandsDiffer
  <2>3. \A h \in Gens : d = IdleExpired(h) => Head(channel) # IdleExpired(h)
    BY <1>1, <1>2, CommandsDiffer
  <2> QED BY <2>1, <2>2, <2>3 DEF CommandFits
<1>3. ChannelFits'
  BY <1>1, <1>2, ChannelShrinks
<1> QED BY <1>1, <1>3

\* Handling another command leaves the number of reports alone.
LEMMA ActorReports ==
  ASSUME IInv, channel # <<>>, channel' = Tail(channel), Head(channel).kind # "dequeued"
  PROVE  \A h \in Gens : Reports(h)' = Reports(h)
<1> SUFFICES ASSUME NEW h \in Gens PROVE Reports(h)' = Reports(h)
  OBVIOUS
<1>1. channel \in Seq(Commands) /\ channel' \in Seq(Commands)
  BY HeadFits
<1>2. Head(channel) # Dequeued(h)
  BY CommandsDiffer
<1>3. Reports(h)' \in Nat
  <2>1. Reports(h)' = Cardinality(Places(Dequeued(h), channel'))
    BY DEF Reports, Places
  <2> QED BY <1>1, <2>1, PlacesType
<1> QED BY <1>1, <1>2, <1>3, ReportsShrink

\* An entry that stays as it is, and whose worker does.
LEMMA EntryKept ==
  ASSUME IInv, NEW s \in Scopes, entry'[s] = entry[s], Taken \subseteq Taken',
         NEW g, g = entry[s].gen,
         g # 0 => /\ worker'[g].scope = worker[g].scope
                  /\ worker'[g].stage \in Serving =>
                       /\ worker[g].stage \in Serving
                       /\ Len(Ahead(worker'[g])) = Len(Ahead(worker[g]))
                       /\ Reports(g)' = Reports(g)
  PROVE  EntryFits(s, entry[s])'
<1> DEFINE e == entry[s]
<1>1. /\ EntryFits(s, e) /\ (e.state = "none" <=> e = NoEntry) /\ (g # 0 <=> e.state # "none")
  BY EntryOf
<1>2. g # 0 => g \in Gens /\ worker'[g].scope = s
  BY <1>1 DEF EntryFits
<1>3. In(e.backlog) \subseteq {m \in Taken' : ScopeOf[m] = s}
  BY <1>1 DEF EntryFits
<1>4. e.state = "retiring" => e.queued = 0 /\ worker'[g].stage \notin Serving
  BY <1>1 DEF EntryFits
<1>5. e.state # "none" /\ worker'[g].stage \in Serving => e.queued = Len(Ahead(worker'[g])) + Reports(g)'
  BY <1>1 DEF EntryFits
<1>6. entry'[s].gen = g /\ Reports(entry[s].gen)' = Reports(g)'
  BY DEF Reports
<1>7. (e.state = "active" => e.backlog = <<>>) /\ e.queued + Len(e.backlog) <= Capacity
  BY <1>1 DEF EntryFits
<1> QED BY <1>1, <1>2, <1>3, <1>4, <1>5, <1>6, <1>7 DEF EntryFits

\* The counts of slots and births when no worker is born and none ends.
LEMMA CountsKept ==
  ASSUME IInv, slots' = slots, Waiting' \subseteq Waiting,
         \A h \in Gens : /\ worker'[h].stage = "unborn" <=> worker[h].stage = "unborn"
                         /\ worker'[h].stage \in Serving \cup {"ended"}
                              <=> worker[h].stage \in Serving \cup {"ended"}
  PROVE  BirthsFit' /\ SlotsFit'
<1>1. Born' = Born /\ Working' = Working
  BY DEF Born, Working
<1>2. Cardinality(Waiting') \in Nat /\ Cardinality(Waiting') <= Cardinality(Waiting)
  BY WaitingType, FS_Subset, FS_CardinalityType
<1>3. Cardinality(Waiting) \in Nat /\ Cardinality(Born) \in Nat /\ Cardinality(Messages) \in Nat
  BY WaitingType, BornType, GensType
<1> QED BY <1>1, <1>2, <1>3 DEF BirthsFit, SlotsFit, IInv

\* A notice is queued only while there is room, and a cooldown is a group's.
LEMMA NotifyFits ==
  ASSUME IInv, NEW s \in Scopes, NEW q \in Seq(Messages), Notify(s, q)
  PROVE  /\ notices' \in Seq(Messages) /\ Len(notices') <= NoticeRoom
         /\ cooling' \subseteq Groups
<1>1. /\ notices \in Seq(Messages) /\ Len(notices) <= NoticeRoom /\ Len(notices) \in Nat
      /\ cooling \subseteq Groups /\ NoticeRoom \in Nat /\ Len(q) \in Nat
  BY ConstTypes, LenProperties DEF IInv, Types
<1> DEFINE S == {Len(q), NoticeRoom - Len(notices)} \cup IF s \in Groups THEN {1} ELSE {}
           n == Min(S)
<1>2. n \in Nat /\ n <= Len(q) /\ n <= NoticeRoom - Len(notices)
  <2>1. \A a, b, c \in Int : \E x \in {a, b, c} : x <= a /\ x <= b /\ x <= c
    OBVIOUS
  <2>2. \A a, b \in Int : \E x \in {a, b} : x <= a /\ x <= b
    OBVIOUS
  <2>3. \E x \in S : \A y \in S : x <= y
    <3>1. Len(q) \in Int /\ NoticeRoom - Len(notices) \in Int /\ 1 \in Int
      BY <1>1
    <3>2. S = {Len(q), NoticeRoom - Len(notices), 1} \/ S = {Len(q), NoticeRoom - Len(notices)}
      OBVIOUS
    <3> HIDE DEF S
    <3> QED BY <2>1, <2>2, <3>1, <3>2
  <2>4. n \in S /\ \A y \in S : n <= y
    BY <2>3 DEF Min
  <2>5. \A y \in S : y \in Nat
    BY <1>1
  <2> HIDE DEF n
  <2> QED BY <2>4, <2>5
<1>3. Told(s, q) \in Seq(Messages) /\ Len(Told(s, q)) <= NoticeRoom - Len(notices) /\ Len(Told(s, q)) \in Nat
  <2>1. CASE s \in cooling
    BY <1>1, <2>1, EmptySeq DEF Told
  <2>2. CASE s \notin cooling
    <3>1. Told(s, q) = SubSeq(q, 1, n)
      BY <2>2 DEF Told
    <3> HIDE DEF n
    <3>2. n \in 0 .. Len(q)
      BY <1>1, <1>2
    <3>3. SubSeq(q, 1, n) \in Seq(Messages) /\ Len(SubSeq(q, 1, n)) = n
      BY <1>1, <3>2
    <3> QED BY <1>2, <3>1, <3>3
  <2> QED BY <2>1, <2>2
<1>4. notices' \in Seq(Messages) /\ Len(notices') = Len(notices) + Len(Told(s, q))
  <2> DEFINE t == Told(s, q)
  <2>1. notices' = notices \o t
    BY DEF Notify
  <2> HIDE DEF t
  <2> QED BY <1>1, <1>3, <2>1, ConcatProperties DEF t
<1>5. cooling' \subseteq Groups
  BY <1>1 DEF Notify
<1> QED BY <1>1, <1>3, <1>4, <1>5

\* The message whose command is handled is one that was sent.
LEMMA EnqueueHead ==
  ASSUME IInv, Command("enqueue"), NEW m, m = Head(channel).msg
  PROVE  /\ m \in Messages /\ Head(channel) = Enqueue(m) /\ fate[m] = "sent" /\ m \in Waiting
         /\ m \notin Taken /\ ScopeOf[m] \in Scopes /\ ~stopped /\ channel # <<>>
         /\ channel' = Tail(channel) /\ Head(channel).kind = "enqueue"
<1>1. Head(channel) \in Commands /\ CommandFits(Head(channel)) /\ Head(channel).kind = "enqueue"
  BY HeadFits DEF Command
<1>2. \E n \in Messages : Head(channel) = Enqueue(n)
  BY <1>1, CommandsDiffer DEF Commands
<1>3. m \in Messages /\ Head(channel) = Enqueue(m)
  BY <1>2, CommandsDiffer
<1>4. fate[m] = "sent"
  BY <1>1, <1>3 DEF CommandFits
<1> QED BY <1>1, <1>3, <1>4, ConstTypes DEF Command, Waiting, Taken

\* A message that is not accepted changes nothing but its fate, and the notices.
LEMMA RefuseIInv ==
  ASSUME IInv, NEW m \in Messages, fate[m] = "sent", m \notin Taken,
         channel # <<>>, Head(channel) = Enqueue(m), channel' = Tail(channel), ~stopped,
         NEW how \in {"refused", "unavailable"}, fate' = [fate EXCEPT ![m] = how],
         notices' \in Seq(Messages), Len(notices') <= NoticeRoom, cooling' \subseteq Groups,
         UNCHANGED <<entry, worker, slots, panics, shutdown, stopped>>
  PROVE  IInv'
<1>1. /\ fate' \in [Messages -> Fates] /\ fate'[m] = how
      /\ \A n \in Messages : n # m => fate'[n] = fate[n]
  BY DEF IInv, Types, Fates
<1>2. Taken' = Taken
  BY <1>1 DEF Taken
<1>3. Waiting' \subseteq Waiting
  BY <1>1 DEF Waiting
<1>4. ChannelFits' /\ channel' \in Seq(Commands) /\ Len(channel') <= CommandRoom
  BY <1>1, ActorChannel
<1>5. Head(channel).kind # "dequeued"
  BY CommandsDiffer
<1>6. \A h \in Gens : Reports(h)' = Reports(h)
  BY <1>5, ActorReports
<1>7. Types'
  BY <1>1, <1>4 DEF IInv, Types
<1>8. EntriesFit'
  <2> SUFFICES ASSUME NEW s \in Scopes PROVE EntryFits(s, entry[s])'
    BY DEF EntriesFit
  <2>1. entry[s].gen \in {0} \cup Gens
    BY EntryOf
  <2> QED BY <1>2, <1>6, <2>1, EntryKept
<1>9. BirthsFit' /\ SlotsFit'
  BY <1>3, CountsKept
<1>10. (WorkersFit /\ ServersFit /\ FatesFit /\ StoppedFits)'
  BY <1>2 DEF IInv, WorkersFit, ServersFit, FatesFit, StoppedFits
<1>11. LossHasCause'
  BY <1>1 DEF IInv, LossHasCause
<1> QED BY <1>4, <1>7, <1>8, <1>9, <1>10, <1>11 DEF IInv

\* A message that joins the queue of its scope's worker.
Sends(m, g) ==
  /\ fate[m] = "sent" /\ m \notin Taken
  /\ channel # <<>> /\ Head(channel) = Enqueue(m) /\ channel' = Tail(channel) /\ ~stopped
  /\ entry[ScopeOf[m]].state = "active" /\ g = entry[ScopeOf[m]].gen /\ ~Full(ScopeOf[m])
  /\ worker[g].stage \in Serving /\ Len(worker[g].rx) < Capacity
  /\ worker' = [worker EXCEPT ![g].rx = Append(@, m)]
  /\ entry' = [entry EXCEPT ![ScopeOf[m]].queued = @ + 1]
  /\ fate' = [fate EXCEPT ![m] = "accepted"]
  /\ UNCHANGED <<slots, cooling, notices, panics, shutdown, stopped>>

Longer(g, m) == [worker[g] EXCEPT !.rx = Append(@, m)]

LEMMA LongerFits ==
  ASSUME IInv, NEW g \in Gens, NEW m \in Messages, worker[g].stage \in Serving, Len(worker[g].rx) < Capacity
  PROVE  /\ Longer(g, m) \in Worker /\ Fits(Longer(g, m)) /\ Has(Longer(g, m)) = Has(worker[g]) \cup {m}
         /\ Longer(g, m).stage = worker[g].stage /\ Longer(g, m).scope = worker[g].scope
         /\ Longer(g, m).hand = worker[g].hand /\ Longer(g, m).rx = Append(worker[g].rx, m)
         /\ Ahead(Longer(g, m)) = Append(Ahead(worker[g]), m)
         /\ Len(Ahead(Longer(g, m))) = Len(Ahead(worker[g])) + 1
<1> DEFINE v == worker[g]
           w == Longer(g, m)
<1>1. /\ v \in Worker /\ Fits(v) /\ v.rx \in Seq(Messages) /\ Len(v.rx) \in Nat
      /\ (v.stage = "took" => v.hand \in Messages)
  BY FieldsOf DEF Fits
<1>2. /\ Append(v.rx, m) \in Seq(Messages) /\ Len(Append(v.rx, m)) = Len(v.rx) + 1
      /\ In(Append(v.rx, m)) = In(v.rx) \cup {m}
  BY <1>1, AppendingAdds
<1>3. /\ w \in Worker /\ w.stage = v.stage /\ w.scope = v.scope
      /\ w.hand = v.hand /\ w.rx = Append(v.rx, m)
  BY <1>1, <1>2 DEF Longer, Worker
<1>4. Len(w.rx) <= Capacity
  <2>1. Len(w.rx) = Len(v.rx) + 1
    BY <1>2, <1>3
  <2> HIDE DEF w
  <2> QED BY <1>1, <2>1, ConstTypes
<1> HIDE DEF w
<1>5. Fits(w)
  BY <1>1, <1>3, <1>4, StagesDiffer DEF Fits
<1>6. Has(w) = Has(v) \cup {m}
  BY <1>2, <1>3 DEF Has
<1> DEFINE taken == IF v.stage = "took" THEN <<v.hand>> ELSE <<>>
<1>7. Ahead(w) = Append(Ahead(v), m)
  <2>1. taken \in Seq(Messages)
    BY <1>1
  <2>2. Ahead(w) = taken \o Append(v.rx, m) /\ Ahead(v) = taken \o v.rx
    BY <1>3 DEF Ahead
  <2> HIDE DEF taken
  <2>3. taken \o v.rx \in Seq(Messages) /\ <<m>> \in Seq(Messages)
    BY <1>1, <2>1, ConcatProperties
  <2>4. Append(v.rx, m) = v.rx \o <<m>>
    BY <1>1, AppendIsConcat
  <2>5. Append(taken \o v.rx, m) = (taken \o v.rx) \o <<m>>
    BY <2>3, AppendIsConcat, Zenon
  <2>6. (taken \o v.rx) \o <<m>> = taken \o (v.rx \o <<m>>)
    <3> DEFINE q == v.rx
               one == <<m>>
    <3>1. taken \in Seq(Messages) /\ q \in Seq(Messages) /\ one \in Seq(Messages)
      BY <1>1, <2>1, <2>3
    <3> HIDE DEF q, one
    <3>2. (taken \o q) \o one = taken \o (q \o one)
      BY <3>1, ConcatAssociative, SMTT(30)
    <3> QED BY <3>2 DEF q, one
  <2> QED BY <2>2, <2>4, <2>5, <2>6, Zenon
<1>8. Len(Ahead(w)) = Len(Ahead(v)) + 1
  BY <1>1, <1>7, AheadIs, AppendProperties
<1> QED BY <1>1, <1>3, <1>5, <1>6, <1>7, <1>8 DEF w

LEMMA SendsIInv ==
  ASSUME IInv, NEW m \in Messages, NEW g, Sends(m, g)
  PROVE  IInv'
<1> DEFINE s == ScopeOf[m]
           e == entry[s]
           w == Longer(g, m)
<1>1. /\ s \in Scopes /\ e \in Entry /\ EntryFits(s, e) /\ g \in Gens /\ g # 0 /\ worker[g].scope = s
      /\ e.state = "active" /\ e.gen = g /\ e.backlog = <<>> /\ e # NoEntry
      /\ e.queued \in Nat /\ e.queued = Len(Ahead(worker[g])) + Reports(g)
  <2>1. s \in Scopes
    BY ConstTypes
  <2>2. e \in Entry /\ EntryFits(s, e) /\ e.state = "active" /\ e.gen = g
    BY <2>1, EntryOf DEF Sends
  <2> QED BY <2>1, <2>2, EntryType, GensType, NoEntryFits DEF EntryFits, Sends
<1>2. /\ w \in Worker /\ Fits(w) /\ Has(w) = Has(worker[g]) \cup {m}
      /\ w.stage = worker[g].stage /\ w.scope = s /\ Len(Ahead(w)) = Len(Ahead(worker[g])) + 1
  BY <1>1, LongerFits DEF Sends
<1>3. /\ worker' = [worker EXCEPT ![g] = w] /\ worker \in [Gens -> Worker]
      /\ entry' = [entry EXCEPT ![s] = [e EXCEPT !.queued = @ + 1]] /\ entry \in [Scopes -> Entry]
  BY <1>1 DEF Sends, Longer, IInv, Types
<1> DEFINE f == [e EXCEPT !.queued = @ + 1]
<1>4. /\ f \in Entry /\ f.state = "active" /\ f.gen = g /\ f.queued = e.queued + 1 /\ f.backlog = <<>>
  BY <1>1 DEF Entry
<1> HIDE DEF w, f
<1>5. /\ worker'[g] = w /\ \A h \in Gens : h # g => worker'[h] = worker[h]
      /\ \A h \in Gens : worker'[h].stage = worker[h].stage /\ worker'[h].scope = worker[h].scope
      /\ entry'[s] = f /\ \A t \in Scopes : t # s => entry'[t] = entry[t]
      /\ \A t \in Scopes : entry'[t].gen = entry[t].gen
  BY <1>1, <1>2, <1>3, <1>4 DEF f
<1>6. /\ fate' \in [Messages -> Fates] /\ fate'[m] = "accepted"
      /\ \A n \in Messages : n # m => fate'[n] = fate[n]
  BY DEF Sends, IInv, Types, Fates
<1>7. Taken' = Taken \cup {m} /\ Taken \subseteq Taken'
  BY <1>6 DEF Taken, Sends
<1>8. ChannelFits' /\ channel' \in Seq(Commands) /\ Len(channel') <= CommandRoom
  BY <1>5, <1>6, ActorChannel DEF Sends
<1>9. \A h \in Gens : Reports(h)' = Reports(h)
  BY ActorReports, CommandsDiffer DEF Sends
<1>10. Types'
  BY <1>2, <1>3, <1>4, <1>6, <1>8 DEF IInv, Types, Sends, f
<1>11. WorkersFit'
  BY <1>1, <1>2, <1>5, StagesDiffer DEF IInv, WorkersFit, Sends
<1>12. EntriesFit'
  <2> SUFFICES ASSUME NEW t \in Scopes PROVE EntryFits(t, entry[t])'
    BY DEF EntriesFit
  <2>1. CASE t = s
    <3>2. f.queued = Len(Ahead(w)) + Reports(g)
      <4>1. Len(Ahead(worker[g])) \in Nat /\ Reports(g) \in Nat
        BY <1>1, FieldsOf, AheadIs, ReportsType DEF IInv, Types
      <4> QED BY <1>1, <1>2, <1>4, <4>1
    <3>3. f.queued + Len(f.backlog) <= Capacity
      <4>1. ~(e.queued + Len(e.backlog) >= Capacity)
        BY DEF Sends, Full
      <4>2. Len(e.backlog) = 0 /\ Len(f.backlog) = 0
        BY <1>1, <1>4
      <4> QED BY <1>1, <1>4, <4>1, <4>2, ConstTypes
    <3>4. In(f.backlog) = {}
      BY <1>4 DEF In
    <3>5. f # NoEntry
      BY <1>4, NoEntryFits
    <3>6. entry'[t] = f /\ worker'[f.gen] = w /\ Reports(entry[t].gen)' = Reports(g)
      BY <1>1, <1>4, <1>5, <1>9, <2>1
    <3> QED BY <1>1, <1>2, <1>4, <2>1, <3>2, <3>3, <3>4, <3>5, <3>6 DEF EntryFits
  <2>2. CASE t # s
    <3>1. entry[t].gen \in {0} \cup Gens /\ (entry[t].gen # 0 => worker[entry[t].gen].scope = t)
      BY EntryOf
    <3>2. entry[t].gen # g
      BY <1>1, <2>2, <3>1
    <3>3. entry[t].gen # 0 => worker'[entry[t].gen] = worker[entry[t].gen]
      BY <1>5, <3>1, <3>2
    <3>4. entry'[t] = entry[t]
      BY <1>5, <2>2
    <3> QED BY <1>7, <1>9, <3>1, <3>3, <3>4, EntryKept
  <2> QED BY <2>1, <2>2
<1>13. ServersFit'
  <2>1. \A h \in Gens : worker[h].stage \in Serving => worker[h].scope \in Scopes
    BY FieldsOf, StagesDiffer
  <2>2. stopped' = stopped /\ ServersFit
    BY DEF IInv, Sends
  <2> QED BY <1>5, <2>1, <2>2 DEF ServersFit
<1>14. BirthsFit' /\ SlotsFit'
  <2>1. Waiting' \subseteq Waiting
    <3>1. SUFFICES ASSUME NEW n \in Waiting' PROVE n \in Waiting
      OBVIOUS
    <3>2. n \in Messages /\ ScopeOf[n] \in Scopes
      BY <3>1, ConstTypes DEF Waiting
    <3>3. entry'[ScopeOf[n]].backlog = entry[ScopeOf[n]].backlog
      BY <1>1, <1>4, <1>5, <3>2
    <3> QED BY <1>6, <3>1, <3>2, <3>3 DEF Waiting, Sends
  <2> QED BY <1>5, <2>1, CountsKept DEF Sends
<1>15. FatesFit'
  BY <1>1, <1>2, <1>5, <1>7 DEF IInv, FatesFit
<1>16. StoppedFits' /\ LossHasCause'
  BY <1>6 DEF IInv, StoppedFits, LossHasCause, Sends
<1> QED BY <1>8, <1>10, <1>11, <1>12, <1>13, <1>14, <1>15, <1>16 DEF IInv

\* A message that joins the backlog of a retiring scope.
LEMMA BacklogIInv ==
  ASSUME IInv, NEW m \in Messages, fate[m] = "sent", m \notin Taken,
         channel # <<>>, Head(channel) = Enqueue(m), channel' = Tail(channel), ~stopped,
         EnqueueRetiring(m), UNCHANGED <<panics, shutdown, stopped>>
  PROVE  IInv'
<1> DEFINE s == ScopeOf[m]
           e == entry[s]
           f == [e EXCEPT !.backlog = Append(@, m)]
<1>1. /\ s \in Scopes /\ e \in Entry /\ EntryFits(s, e) /\ e.state = "retiring" /\ e.gen \in Gens
      /\ e.queued = 0 /\ worker[e.gen].stage \notin Serving /\ worker[e.gen].scope = s
      /\ e.backlog \in Seq(Messages) /\ Len(e.backlog) \in Nat /\ ~Full(s)
      /\ m \in Waiting
  <2>1. s \in Scopes
    BY ConstTypes
  <2>2. e \in Entry /\ EntryFits(s, e) /\ e.state = "retiring"
    BY <2>1, EntryOf DEF EnqueueRetiring
  <2> QED BY <2>1, <2>2, EntryType DEF EntryFits, EnqueueRetiring, Waiting
<1>2. /\ Append(e.backlog, m) \in Seq(Messages) /\ Len(Append(e.backlog, m)) = Len(e.backlog) + 1
      /\ In(Append(e.backlog, m)) = In(e.backlog) \cup {m}
  BY <1>1, AppendingAdds
<1>3. /\ entry' = [entry EXCEPT ![s] = f] /\ entry \in [Scopes -> Entry]
      /\ UNCHANGED <<worker, slots, notices, cooling>>
  BY <1>1 DEF EnqueueRetiring, IInv, Types
<1>4. /\ f \in Entry /\ f.state = "retiring" /\ f.gen = e.gen /\ f.queued = 0
      /\ f.backlog = Append(e.backlog, m)
  BY <1>1, <1>2 DEF Entry
<1> HIDE DEF f
<1>5. /\ entry'[s] = f /\ \A t \in Scopes : t # s => entry'[t] = entry[t]
      /\ \A t \in Scopes : entry'[t].gen = entry[t].gen
  BY <1>1, <1>3, <1>4
<1>6. /\ fate' \in [Messages -> Fates] /\ fate'[m] = "accepted"
      /\ \A n \in Messages : n # m => fate'[n] = fate[n]
  BY DEF EnqueueRetiring, IInv, Types, Fates
<1>7. Taken' = Taken \cup {m} /\ Taken \subseteq Taken'
  BY <1>6 DEF Taken
<1>8. ChannelFits' /\ channel' \in Seq(Commands) /\ Len(channel') <= CommandRoom
  BY <1>3, <1>6, ActorChannel
<1>9. \A h \in Gens : Reports(h)' = Reports(h)
  BY ActorReports, CommandsDiffer
<1>10. Types'
  BY <1>3, <1>4, <1>6, <1>8 DEF IInv, Types
<1>11. EntriesFit'
  <2> SUFFICES ASSUME NEW t \in Scopes PROVE EntryFits(t, entry[t])'
    BY DEF EntriesFit
  <2>1. CASE t = s
    <3>1. f.queued + Len(f.backlog) <= Capacity
      <4>1. ~(e.queued + Len(e.backlog) >= Capacity)
        BY <1>1 DEF Full
      <4> QED BY <1>1, <1>2, <1>4, <4>1, ConstTypes
    <3>2. In(f.backlog) \subseteq {n \in Taken' : ScopeOf[n] = s}
      BY <1>1, <1>2, <1>4, <1>7 DEF EntryFits
    <3>3. f # NoEntry
      BY <1>4, NoEntryFits
    <3>4. entry'[t] = f /\ worker' = worker
      BY <1>3, <1>5, <2>1
    <3> QED BY <1>1, <1>4, <2>1, <3>1, <3>2, <3>3, <3>4 DEF EntryFits
  <2>2. CASE t # s
    <3>1. entry[t].gen \in {0} \cup Gens /\ entry'[t] = entry[t]
      BY <1>5, <2>2, EntryOf
    <3> QED BY <1>3, <1>7, <1>9, <3>1, EntryKept
  <2> QED BY <2>1, <2>2
<1>12. (WorkersFit /\ ServersFit)'
  <2>1. \A h \in Gens : worker[h].stage \in Serving => worker[h].scope \in Scopes
    BY FieldsOf, StagesDiffer
  <2>2. stopped' = stopped /\ ServersFit /\ WorkersFit
    BY DEF IInv
  <2> QED BY <1>3, <1>5, <2>1, <2>2 DEF ServersFit, WorkersFit
<1>13. BirthsFit' /\ SlotsFit'
  <2>1. Waiting' \subseteq Waiting
    <3>1. SUFFICES ASSUME NEW n \in Waiting', n # m PROVE n \in Waiting
      BY <1>1
    <3>2. n \in Messages /\ ScopeOf[n] \in Scopes
      BY <3>1, ConstTypes DEF Waiting
    <3>3. n \in In(entry'[ScopeOf[n]].backlog) => n \in In(entry[ScopeOf[n]].backlog)
      <4>1. CASE ScopeOf[n] = s
        BY <1>2, <1>4, <1>5, <3>1, <4>1
      <4>2. CASE ScopeOf[n] # s
        BY <1>5, <3>2, <4>2
      <4> QED BY <4>1, <4>2
    <3> QED BY <1>6, <3>1, <3>2, <3>3 DEF Waiting
  <2> QED BY <1>3, <2>1, CountsKept
<1>14. FatesFit'
  BY <1>3, <1>7 DEF IInv, FatesFit
<1>15. StoppedFits' /\ LossHasCause'
  BY <1>6 DEF IInv, StoppedFits, LossHasCause
<1> QED BY <1>8, <1>10, <1>11, <1>12, <1>13, <1>14, <1>15 DEF IInv

\* A worker is born for scope s with the messages of q.
Spawns(s, q) ==
  /\ slots > 0 /\ slots' = slots - 1
  /\ worker' = [worker EXCEPT ![NextGen] = NewWorker(s, q)]
  /\ entry' = [entry EXCEPT ![s] = Active(NextGen, Len(q))]
  /\ \A g \in Gens : worker[g].stage \in Serving => worker[g].scope # s
  /\ Taken' = Taken \cup In(q) /\ fate' \in [Messages -> Fates]
  /\ Waiting' \subseteq Waiting /\ Waiting' # Waiting
  /\ \A m \in Messages : fate[m] = "sent" /\ Head(channel) # Enqueue(m) => fate'[m] = "sent"
  /\ \A m \in Messages : fate'[m] = "lost" => fate[m] = "lost"
  /\ channel # <<>> /\ channel' = Tail(channel) /\ ~stopped
  /\ Head(channel).kind \in {"enqueue", "exited"}
  /\ UNCHANGED <<cooling, notices, panics, shutdown, stopped>>

\* There is a generation left for it.
LEMMA NextGenIs ==
  ASSUME IInv, NEW W, W \subseteq Waiting, W # Waiting
  PROVE  /\ NextGen \in Gens /\ NextGen # 0 /\ worker[NextGen] = Unborn
         /\ \A g \in Gens : worker[g].stage # "unborn" => g # NextGen
         /\ Cardinality(W) \in Nat /\ Cardinality(W) + 1 <= Cardinality(Waiting)
<1>1. /\ IsFiniteSet(Waiting) /\ Cardinality(Waiting) \in Nat
      /\ Cardinality(Born) \in Nat /\ NextGen = Cardinality(Born) + 1
      /\ Cardinality(Messages) \in Nat
  BY WaitingType, BornType, GensType
<1>2. IsFiniteSet(W) /\ Cardinality(W) \in Nat /\ Cardinality(W) <= Cardinality(Waiting)
      /\ (Cardinality(W) = Cardinality(Waiting) => W = Waiting)
  BY <1>1, FS_Subset, FS_CardinalityType
<1>3. Cardinality(W) + 1 <= Cardinality(Waiting)
  BY <1>1, <1>2
<1>4. Born = 1 .. Cardinality(Born) /\ Cardinality(Born) + Cardinality(Waiting) <= Cardinality(Messages)
  BY DEF IInv, BirthsFit
<1>5. NextGen \in 1 .. Cardinality(Messages)
  BY <1>1, <1>2, <1>3, <1>4
<1>6. NextGen \notin Born
  BY <1>1, <1>4
<1>7. NextGen \in Gens /\ NextGen # 0
  BY <1>5, <1>1 DEF Gens
<1>8. worker[NextGen] = Unborn
  BY <1>6, <1>7 DEF Born, IInv, WorkersFit
<1> QED BY <1>2, <1>3, <1>6, <1>7, <1>8 DEF Born

LEMMA NewWorkerFits ==
  ASSUME NEW s \in Scopes, NEW q \in Seq(Messages), Len(q) <= Capacity
  PROVE  /\ NewWorker(s, q) \in Worker /\ Fits(NewWorker(s, q)) /\ Has(NewWorker(s, q)) = In(q)
         /\ NewWorker(s, q).stage = "receive" /\ NewWorker(s, q).scope = s
         /\ NewWorker(s, q).rx = q /\ NewWorker(s, q).hand = None /\ Ahead(NewWorker(s, q)) = q
<1> DEFINE w == NewWorker(s, q)
<1>1. /\ w \in Worker /\ w.stage = "receive" /\ w.scope = s /\ w.rx = q /\ w.hand = None
  BY ConstTypes DEF NewWorker, Worker, Stages, Serving
<1> HIDE DEF w
<1>2. Fits(w)
  BY <1>1, ConstTypes DEF Fits, Down
<1>3. Has(w) = In(q)
  BY <1>1, ConstTypes DEF Has, In
<1>4. Ahead(w) = q
  BY <1>1, <1>2, AheadIs
<1> QED BY <1>1, <1>2, <1>3, <1>4 DEF w

\* Nothing reports of a worker that is not born.
LEMMA UnbornReports ==
  ASSUME IInv, NEW g \in Gens, worker[g].stage = "unborn"
  PROVE  Reports(g) = 0
<1>1. ChannelFits /\ channel \in Seq(Commands)
  BY DEF IInv, Types
<1>2. Places(Dequeued(g), channel) = {}
  BY <1>1, LenProperties DEF Places, ChannelFits, CommandFits
<1> QED BY <1>2, ReportsAre, FS_EmptySet

LEMMA SpawnsIInv ==
  ASSUME IInv, NEW s \in Scopes, NEW q \in Seq(Messages), Len(q) <= Capacity, Spawns(s, q)
  PROVE  IInv'
<1>0. PICK g : g = NextGen
  OBVIOUS
<1> DEFINE w == NewWorker(s, q)
           f == Active(g, Len(q))
<1>1. /\ g \in Gens /\ g # 0 /\ worker[g] = Unborn
      /\ \A h \in Gens : worker[h].stage # "unborn" => h # g
      /\ Cardinality(Waiting') \in Nat /\ Cardinality(Waiting') + 1 <= Cardinality(Waiting)
  <2> DEFINE W == Waiting'
  <2>1. W \subseteq Waiting /\ W # Waiting
    BY DEF Spawns
  <2> HIDE DEF W
  <2>2. /\ Cardinality(W) \in Nat /\ Cardinality(W) + 1 <= Cardinality(Waiting)
        /\ NextGen \in Gens /\ NextGen # 0 /\ worker[NextGen] = Unborn
        /\ \A h \in Gens : worker[h].stage # "unborn" => h # NextGen
    BY <2>1, NextGenIs
  <2> QED BY <1>0, <2>2 DEF W
<1>2. /\ w \in Worker /\ Fits(w) /\ Has(w) = In(q) /\ w.stage = "receive" /\ w.scope = s /\ Ahead(w) = q
  BY NewWorkerFits
<1>3. Len(q) \in Nat
  BY LenProperties
<1>4. /\ f \in Entry /\ f.state = "active" /\ f.gen = g /\ f.queued = Len(q) /\ f.backlog = <<>> /\ f # NoEntry
  BY <1>1, <1>3 DEF Active, Entry, NoEntry
<1>5. /\ worker' = [worker EXCEPT ![g] = w] /\ entry' = [entry EXCEPT ![s] = f]
      /\ worker \in [Gens -> Worker] /\ entry \in [Scopes -> Entry]
      /\ slots \in Nat /\ slots > 0 /\ slots' = slots - 1
  BY <1>0 DEF Spawns, IInv, Types
<1> HIDE DEF w, f
<1>6. /\ worker'[g] = w /\ \A h \in Gens : h # g => worker'[h] = worker[h]
      /\ entry'[s] = f /\ \A t \in Scopes : t # s => entry'[t] = entry[t]
      /\ worker[g].stage = "unborn"
  BY <1>1, <1>5, UnbornFits
<1>7. Taken' = Taken \cup In(q) /\ Taken \subseteq Taken'
  BY DEF Spawns
<1>8. ChannelFits' /\ channel' \in Seq(Commands) /\ Len(channel') <= CommandRoom
  <2>1. \A h \in Gens :
          /\ worker[h].stage = "asking" => worker'[h].stage = "asking"
          /\ worker[h].stage # "unborn" => worker'[h].stage # "unborn"
          /\ worker[h].stage = "gone" => worker'[h].stage = "gone"
    BY <1>6
  <2> QED BY <2>1, ActorChannel DEF Spawns
<1>9. \A h \in Gens : Reports(h)' = Reports(h)
  BY ActorReports DEF Spawns
<1>10. Types'
  <2>1. worker' \in [Gens -> Worker] /\ entry' \in [Scopes -> Entry] /\ slots' \in Nat
    BY <1>1, <1>2, <1>4, <1>5
  <2> QED BY <1>8, <2>1 DEF IInv, Types, Spawns
<1>11. WorkersFit'
  BY <1>2, <1>6 DEF IInv, WorkersFit
<1>12. EntriesFit'
  <2> SUFFICES ASSUME NEW t \in Scopes PROVE EntryFits(t, entry[t])'
    BY DEF EntriesFit
  <2>1. CASE t = s
    <3>1. Reports(g) = 0 /\ Reports(g)' = 0
      BY <1>1, <1>6, <1>9, UnbornReports
    <3>2. entry'[t] = f /\ worker'[f.gen] = w /\ Reports(entry[t].gen)' = 0
      <4>1. entry'[t].gen = g
        BY <1>4, <1>6, <2>1
      <4>2. Reports(entry[t].gen)' = Reports(g)'
        BY <4>1 DEF Reports
      <4> QED BY <1>4, <1>6, <2>1, <3>1, <4>2
    <3>3. f.queued = Len(Ahead(w)) + 0 /\ f.queued + Len(f.backlog) <= Capacity /\ In(f.backlog) = {}
      <4>1. Len(f.backlog) = 0 /\ In(f.backlog) = {}
        BY <1>4 DEF In
      <4> QED BY <1>2, <1>3, <1>4, <4>1
    <3> QED BY <1>1, <1>2, <1>4, <2>1, <3>2, <3>3 DEF EntryFits
  <2>2. CASE t # s
    <3>1. entry[t].gen \in {0} \cup Gens /\ (entry[t].gen # 0 => worker[entry[t].gen].scope = t)
      BY EntryOf
    <3>2. entry[t].gen # g
      BY <1>1, <3>1, UnbornFits, ConstTypes
    <3>3. entry[t].gen # 0 => worker'[entry[t].gen] = worker[entry[t].gen]
      BY <1>6, <3>1, <3>2
    <3>4. entry'[t] = entry[t]
      BY <1>6, <2>2
    <3> QED BY <1>7, <1>9, <3>1, <3>3, <3>4, EntryKept
  <2> QED BY <2>1, <2>2
<1>13. ServersFit'
  <2>1. ASSUME NEW h \in Gens, worker'[h].stage \in Serving
        PROVE  entry'[worker'[h].scope].gen = h
    <3>1. CASE h = g
      BY <1>2, <1>4, <1>6, <3>1
    <3>2. CASE h # g
      <4>1. worker'[h] = worker[h] /\ worker[h].scope \in Scopes /\ worker[h].scope # s
        BY <1>6, <2>1, <3>2, FieldsOf, StagesDiffer DEF Spawns
      <4>2. entry[worker[h].scope].gen = h
        BY <2>1, <4>1 DEF IInv, ServersFit, Spawns
      <4> QED BY <1>6, <4>1, <4>2
    <3> QED BY <3>1, <3>2
  <2>2. ASSUME NEW h \in Gens, NEW k \in Gens, worker'[h].stage \in Serving, worker'[k].stage \in Serving,
               worker'[h].scope = worker'[k].scope
        PROVE  h = k
    BY <2>1, <2>2
  <2> QED BY <2>1, <2>2 DEF ServersFit
<1>14. BirthsFit'
  <2>1. Born' = Born \cup {g} /\ g \notin Born
    BY <1>1, <1>2, <1>6 DEF Born
  <2>2. IsFiniteSet(Born) /\ Cardinality(Born) \in Nat /\ g = Cardinality(Born) + 1
    BY <1>0, BornType
  <2>3. Cardinality(Born') = Cardinality(Born) + 1
    BY <2>1, <2>2, FS_AddElement
  <2>4. Born = 1 .. Cardinality(Born) /\ Cardinality(Born) + Cardinality(Waiting) <= Cardinality(Messages)
    BY DEF IInv, BirthsFit
  <2>5. Born' = 1 .. Cardinality(Born')
    <3> DEFINE n == Cardinality(Born)
    <3>1. n \in Nat /\ (1 .. n) \cup {n + 1} = 1 .. (n + 1)
      BY <2>2
    <3> HIDE DEF n
    <3>2. Born' = (1 .. n) \cup {n + 1}
      BY <2>1, <2>2, <2>4 DEF n
    <3>3. Cardinality(Born') = n + 1
      BY <2>3 DEF n
    <3> QED BY <3>1, <3>2, <3>3
  <2>6. Cardinality(Born') + Cardinality(Waiting') <= Cardinality(Messages)
    BY <1>1, <2>2, <2>3, <2>4, GensType, WaitingType
  <2> QED BY <2>5, <2>6 DEF BirthsFit
<1>15. SlotsFit'
  <2>1. Working' = Working \cup {g} /\ g \notin Working
    BY <1>1, <1>2, <1>6 DEF Working, Serving
  <2>2. IsFiniteSet(Working) /\ Cardinality(Working) \in Nat
    BY WorkingType
  <2>3. Cardinality(Working') = Cardinality(Working) + 1
    BY <2>1, <2>2, FS_AddElement
  <2> QED BY <1>5, <2>2, <2>3, ConstTypes DEF IInv, SlotsFit
<1>16. FatesFit'
  BY <1>2, <1>6, <1>7 DEF IInv, FatesFit
<1>17. StoppedFits' /\ LossHasCause'
  BY DEF IInv, StoppedFits, LossHasCause, Spawns
<1> QED BY <1>8, <1>10, <1>11, <1>12, <1>13, <1>14, <1>15, <1>16, <1>17 DEF IInv

\* A worker that could serve a scope would be in its entry.
LEMMA NobodyServes ==
  ASSUME IInv, ~stopped, NEW s \in Scopes,
         entry[s].gen = 0 \/ worker[entry[s].gen].stage \notin Serving
  PROVE  \A g \in Gens : worker[g].stage \in Serving => worker[g].scope # s
<1> SUFFICES ASSUME NEW g \in Gens, worker[g].stage \in Serving, worker[g].scope = s PROVE FALSE
  OBVIOUS
<1>1. entry[s].gen = g /\ g # 0
  BY GensType DEF IInv, ServersFit
<1> QED BY <1>1

\* A message for a scope without a worker, when there is a slot.
LEMMA NewSpawns ==
  ASSUME IInv, NEW m \in Messages, Head(channel) = Enqueue(m), fate[m] = "sent", m \in Waiting,
         m \notin Taken, ~stopped, channel # <<>>, channel' = Tail(channel),
         Head(channel).kind = "enqueue", NEW s \in Scopes, s = ScopeOf[m],
         UNCHANGED <<panics, shutdown, stopped>>, EnqueueNew(m), slots # 0
  PROVE  Spawns(s, <<m>>) /\ Len(<<m>>) <= Capacity
<1>1. /\ slots > 0 /\ slots' = slots - 1 /\ entry[s] = NoEntry
      /\ worker' = [worker EXCEPT ![NextGen] = NewWorker(s, <<m>>)]
      /\ entry' = [entry EXCEPT ![s] = Active(NextGen, 1)]
      /\ fate' = [fate EXCEPT ![m] = "accepted"]
      /\ UNCHANGED <<notices, cooling>>
  BY DEF EnqueueNew, IInv, Types
<1> DEFINE q == <<m>>
<1>2. q \in Seq(Messages) /\ Len(q) = 1 /\ In(q) = {m}
  BY <1>1 DEF In
<1>3. /\ fate' \in [Messages -> Fates] /\ fate'[m] = "accepted"
      /\ \A n \in Messages : n # m => fate'[n] = fate[n]
  BY <1>1 DEF IInv, Types, Fates
<1>4. Taken' = Taken \cup {m}
  BY <1>1, <1>3 DEF Taken
<1>5. \A g \in Gens : worker[g].stage \in Serving => worker[g].scope # s
  BY <1>1, NobodyServes, NoEntryFits
<1>6. \A t \in Scopes : entry'[t].backlog = entry[t].backlog
  BY <1>1, NoEntryFits DEF Active, IInv, Types
<1>7. Waiting' \subseteq Waiting /\ m \notin Waiting'
  <2>1. \A n \in Messages : ScopeOf[n] \in Scopes
    BY ConstTypes
  <2>2. m \notin In(entry[s].backlog)
    BY <1>1, NoEntryFits
  <2> QED BY <1>1, <1>3, <1>6, <2>1, <2>2 DEF Waiting
<1>8. \A n \in Messages : fate[n] = "sent" /\ Head(channel) # Enqueue(n) => fate'[n] = "sent"
  BY <1>1, <1>3
<1>9. Len(q) <= Capacity
  BY <1>2, ConstTypes
<1>10. entry' = [entry EXCEPT ![s] = Active(NextGen, Len(q))]
  BY <1>1, <1>2
<1>11. \A n \in Messages : fate'[n] = "lost" => fate[n] = "lost"
  BY <1>3
<1>12. worker' = [worker EXCEPT ![NextGen] = NewWorker(s, q)]
  BY <1>1
<1> HIDE DEF q
<1>13. Spawns(s, q)
  BY <1>1, <1>2, <1>3, <1>4, <1>5, <1>7, <1>8, <1>10, <1>11, <1>12 DEF Spawns
<1> QED BY <1>9, <1>13 DEF q

\* Handling a message that was sent, in each of the scope's states.
LEMMA EnqueueIInv ==
  ASSUME IInv, HandleEnqueue
  PROVE  IInv'
<1>1. PICK m : m = Head(channel).msg
  OBVIOUS
<1> DEFINE s == ScopeOf[m]
<1>2. /\ m \in Messages /\ Head(channel) = Enqueue(m) /\ fate[m] = "sent" /\ m \in Waiting
      /\ m \notin Taken /\ s \in Scopes /\ ~stopped /\ channel # <<>>
      /\ channel' = Tail(channel) /\ Head(channel).kind = "enqueue"
      /\ UNCHANGED <<panics, shutdown, stopped>>
  BY <1>1, EnqueueHead DEF HandleEnqueue
<1>3. notices \in Seq(Messages) /\ Len(notices) <= NoticeRoom /\ cooling \subseteq Groups
  BY DEF IInv, Types
<1>4. ASSUME NEW how \in {"refused", "unavailable"}, fate' = [fate EXCEPT ![m] = how],
             notices' \in Seq(Messages), Len(notices') <= NoticeRoom, cooling' \subseteq Groups,
             UNCHANGED <<entry, worker, slots>>
      PROVE  IInv'
  BY <1>2, <1>4, RefuseIInv
<1>5. ASSUME Reject(m), UNCHANGED <<entry, worker, slots>> PROVE IInv'
  <2>1. CASE m \in Silent
    BY <1>3, <1>4, <1>5, <2>1 DEF Reject
  <2>2. CASE m \notin Silent
    <3>1. Notify(s, <<m>>) /\ <<m>> \in Seq(Messages)
      BY <1>2, <1>5, <2>2 DEF Reject
    <3>2. notices' \in Seq(Messages) /\ Len(notices') <= NoticeRoom /\ cooling' \subseteq Groups
      BY <1>2, <3>1, NotifyFits
    <3>3. PICK how \in {"refused", "unavailable"} : fate' = [fate EXCEPT ![m] = how]
      BY <1>5, <2>2 DEF Reject
    <3> QED BY <1>4, <1>5, <3>2, <3>3
  <2> QED BY <2>1, <2>2
<1>6. CASE EnqueueAfterShutdown(m)
  BY <1>3, <1>4, <1>6 DEF EnqueueAfterShutdown
<1>7. CASE EnqueueFull(m)
  BY <1>5, <1>7 DEF EnqueueFull
<1>8. CASE EnqueueActive(m)
  <2>1. PICK g : g = entry[s].gen
    OBVIOUS
  <2>2. CASE worker[g].stage \in Serving /\ Len(worker[g].rx) < Capacity
    <3>1. g \in Gens /\ Len(worker[g].rx) \in Nat
      <4>1. g \in Gens
        BY <1>2, <1>8, <2>1, EntryOf DEF EnqueueActive, EntryFits
      <4> QED BY <4>1, FieldsOf
    <3>2. ~(Len(worker[g].rx) >= Capacity)
      BY <2>2, <3>1, ConstTypes
    <3>3. Sends(m, g)
      BY <1>2, <1>8, <2>1, <2>2, <3>2 DEF EnqueueActive, Sends
    <3> QED BY <1>2, <3>3, SendsIInv
  <2>3. CASE ~(worker[g].stage \in Serving /\ Len(worker[g].rx) < Capacity)
    <3>1. fate' = [fate EXCEPT ![m] = "unavailable"] /\ UNCHANGED <<worker, entry, slots, notices, cooling>>
      BY <1>8, <2>1, <2>3 DEF EnqueueActive
    <3> QED BY <1>3, <1>4, <3>1
  <2> QED BY <2>2, <2>3
<1>9. CASE EnqueueRetiring(m)
  BY <1>2, <1>9, BacklogIInv
<1>10. CASE EnqueueNew(m)
  <2>1. CASE slots = 0
    <3>1. Reject(m) /\ UNCHANGED <<entry, worker, slots>>
      BY <1>10, <2>1 DEF EnqueueNew
    <3> QED BY <1>5, <3>1
  <2>2. CASE slots # 0
    <3>1. Spawns(s, <<m>>) /\ Len(<<m>>) <= Capacity /\ <<m>> \in Seq(Messages)
      BY <1>2, <1>10, <2>2, NewSpawns
    <3> QED BY <1>2, <3>1, SpawnsIInv
  <2> QED BY <2>1, <2>2
<1> QED BY <1>1, <1>6, <1>7, <1>8, <1>9, <1>10 DEF HandleEnqueue

\* The worker whose command is handled, and what the command says of it.
LEMMA CommandHead ==
  ASSUME IInv, NEW kind \in {"idle", "dequeued", "exited"}, Command(kind)
  PROVE  \E g \in Gens :
           /\ g = Head(channel).gen /\ worker[g].scope \in Scopes /\ worker[g].stage # "unborn"
           /\ kind = "idle" => Head(channel) = IdleExpired(g) /\ worker[g].stage = "asking"
           /\ kind = "dequeued" => Head(channel) = Dequeued(g)
           /\ kind = "exited" => Head(channel) = Exited(g) /\ worker[g].stage = "gone"
<1>1. Head(channel) \in Commands /\ CommandFits(Head(channel)) /\ Head(channel).kind = kind
  BY HeadFits DEF Command
<1>2. PICK g \in Gens :
        /\ kind = "idle" => Head(channel) = IdleExpired(g)
        /\ kind = "dequeued" => Head(channel) = Dequeued(g)
        /\ kind = "exited" => Head(channel) = Exited(g)
        /\ Head(channel) \in {IdleExpired(g), Dequeued(g), Exited(g)}
  BY <1>1, CommandsDiffer DEF Commands
<1>3. g = Head(channel).gen
  BY <1>2, CommandsDiffer
<1>4. /\ kind = "idle" => worker[g].stage = "asking"
      /\ kind = "dequeued" => worker[g].stage # "unborn"
      /\ kind = "exited" => worker[g].stage = "gone"
  BY <1>1, <1>2 DEF CommandFits
<1>5. worker[g].stage # "unborn" /\ worker[g].scope \in Scopes
  BY <1>4, FieldsOf
<1> QED BY <1>2, <1>3, <1>4, <1>5

\* The worker that asked is told to stay, and waits for messages again.
LEMMA StayIInv ==
  ASSUME IInv, HandleIdleExpired, NEW g \in Gens, Head(channel) = IdleExpired(g), g = Head(channel).gen,
         worker[g].stage = "asking", StaysActive(g)
  PROVE  IInv'
<1> DEFINE v == worker[g]
           w == At(g, "receive")
<1>1. /\ worker' = [worker EXCEPT ![g] = w] /\ worker \in [Gens -> Worker]
      /\ channel # <<>> /\ channel' = Tail(channel) /\ Head(channel).kind = "idle" /\ ~stopped
      /\ UNCHANGED <<entry, fate, slots, cooling, notices, panics, shutdown, stopped>>
  BY DEF HandleIdleExpired, Command, At, IInv, Types
<1>2. v \in Worker /\ Fits(v) /\ v.hand = None
  BY FieldsOf DEF Fits
<1>3. /\ w \in Worker /\ Fits(w) /\ Has(w) = Has(v) /\ w.stage = "receive" /\ w.scope = v.scope
      /\ w.rx = v.rx /\ w.hand = v.hand
  BY <1>2, AtFits, StagesDiffer DEF Serving, Down
<1> HIDE DEF w
<1>4. Ahead(w) = Ahead(v)
  BY <1>2, <1>3, AheadIs
<1>5. /\ worker'[g] = w /\ \A h \in Gens : h # g => worker'[h] = worker[h]
      /\ v.stage = "asking"
      /\ \A h \in Gens : worker'[h].scope = worker[h].scope
                         /\ (worker'[h].stage \in Serving <=> worker[h].stage \in Serving)
  BY <1>1, <1>3 DEF Serving
<1>6. Taken' = Taken
  BY <1>1 DEF Taken
<1>7. ChannelFits' /\ channel' \in Seq(Commands) /\ Len(channel') <= CommandRoom
  <2>1. \A h \in Gens :
          /\ worker[h].stage = "asking" /\ Head(channel) # IdleExpired(h) => worker'[h].stage = "asking"
          /\ worker[h].stage # "unborn" => worker'[h].stage # "unborn"
          /\ worker[h].stage = "gone" => worker'[h].stage = "gone"
    BY <1>3, <1>5
  <2> QED BY <1>1, <2>1, ActorChannel
<1>8. \A h \in Gens : Reports(h)' = Reports(h)
  BY <1>1, ActorReports
<1>9. Types'
  BY <1>1, <1>3, <1>7 DEF IInv, Types
<1>10. WorkersFit'
  BY <1>3, <1>5 DEF IInv, WorkersFit
<1>11. EntriesFit'
  <2> SUFFICES ASSUME NEW t \in Scopes PROVE EntryFits(t, entry[t])'
    BY DEF EntriesFit
  <2>1. entry[t].gen \in {0} \cup Gens /\ entry'[t] = entry[t]
    BY <1>1, EntryOf
  <2>2. \A h \in Gens : worker'[h].stage \in Serving =>
          /\ worker[h].stage \in Serving /\ Len(Ahead(worker'[h])) = Len(Ahead(worker[h]))
          /\ Reports(h)' = Reports(h)
    BY <1>4, <1>5, <1>8
  <2> QED BY <1>5, <1>6, <2>1, <2>2, EntryKept
<1>12. ServersFit'
  BY <1>1, <1>5 DEF IInv, ServersFit
<1>13. BirthsFit' /\ SlotsFit'
  <2>1. Waiting' \subseteq Waiting
    BY <1>1 DEF Waiting
  <2>2. \A h \in Gens : /\ worker'[h].stage = "unborn" <=> worker[h].stage = "unborn"
                        /\ worker'[h].stage \in Serving \cup {"ended"}
                             <=> worker[h].stage \in Serving \cup {"ended"}
    BY <1>3, <1>5 DEF Serving
  <2> QED BY <1>1, <2>1, <2>2, CountsKept
<1>14. FatesFit'
  BY <1>3, <1>5, <1>6 DEF IInv, FatesFit
<1>15. StoppedFits' /\ LossHasCause'
  BY <1>1 DEF IInv, StoppedFits, LossHasCause
<1> QED BY <1>7, <1>9, <1>10, <1>11, <1>12, <1>13, <1>14, <1>15 DEF IInv

\* A worker that may go has nothing left: the queue the actor counts is empty,
\* and what is in the worker's channel is part of it.
LEMMA NothingLeft ==
  ASSUME IInv, ~stopped, NEW g \in Gens, worker[g].stage = "asking", ~StaysActive(g)
  PROVE  LET s == worker[g].scope
         IN  /\ s \in Scopes /\ entry[s].gen = g /\ g # 0 /\ entry[s].state = "active"
             /\ entry[s].queued = 0 /\ entry[s].backlog = <<>> /\ entry[s] # NoEntry
             /\ worker[g].rx = <<>> /\ worker[g].hand = None /\ Reports(g) = 0
<1> DEFINE v == worker[g]
           s == v.scope
           e == entry[s]
<1>1. v \in Worker /\ Fits(v) /\ v.hand = None /\ s \in Scopes /\ v.stage \in Serving
      /\ v.rx \in Seq(Messages)
  BY FieldsOf DEF Fits, Serving
<1>2. e.gen = g /\ g # 0
  BY <1>1, GensType DEF IInv, ServersFit
<1>3. e \in Entry /\ EntryFits(s, e) /\ e # NoEntry /\ e.state # "none"
  BY <1>1, <1>2, EntryOf
<1>4. e.state = "active" /\ ~(e.queued > 0) /\ e.queued \in Nat
  BY <1>2, <1>3, EntryType DEF StaysActive
<1>5. e.queued = 0 /\ e.backlog = <<>>
  BY <1>3, <1>4 DEF EntryFits
<1>6. e.queued = Len(Ahead(v)) + Reports(g) /\ Ahead(v) = v.rx
  BY <1>1, <1>2, <1>3, AheadIs DEF EntryFits
<1>7. Len(v.rx) \in Nat /\ Reports(g) \in Nat
  BY <1>1, LenProperties, ReportsType DEF IInv, Types
<1>8. Len(v.rx) = 0 /\ Reports(g) = 0
  BY <1>5, <1>6, <1>7
<1>9. v.rx = <<>>
  BY <1>1, <1>8, EmptySeq
<1> QED BY <1>1, <1>2, <1>3, <1>4, <1>5, <1>8, <1>9

\* The worker that asked goes, and its scope retires.
LEMMA RetireIInv ==
  ASSUME IInv, HandleIdleExpired, NEW g \in Gens, Head(channel) = IdleExpired(g), g = Head(channel).gen,
         worker[g].stage = "asking", ~StaysActive(g)
  PROVE  IInv' /\ fate' = fate
<1> DEFINE v == worker[g]
           s == v.scope
           e == entry[s]
           w == Ended(g)
           f == [e EXCEPT !.state = "retiring"]
<1>1. /\ channel # <<>> /\ channel' = Tail(channel) /\ Head(channel).kind = "idle" /\ ~stopped
      /\ worker' = [worker EXCEPT ![g].stage = "ended", ![g].rx = <<>>]
      /\ fate' = Dropped(fate, ToSet(v.rx), "lost")
      /\ entry' = [entry EXCEPT ![s].state = IF e = NoEntry THEN "none" ELSE "retiring"]
      /\ UNCHANGED <<slots, cooling, notices, panics, shutdown, stopped>>
  BY DEF HandleIdleExpired, Command
<1>2. /\ s \in Scopes /\ e.gen = g /\ g # 0 /\ e.state = "active" /\ e.queued = 0
      /\ e.backlog = <<>> /\ e # NoEntry /\ v.rx = <<>> /\ v.hand = None /\ Reports(g) = 0
  BY <1>1, NothingLeft
<1>3. /\ worker \in [Gens -> Worker] /\ entry \in [Scopes -> Entry] /\ fate \in [Messages -> Fates]
      /\ v \in Worker /\ e \in Entry
  BY <1>2 DEF IInv, Types
<1>4. fate' = fate
  <2>1. ToSet(v.rx) = {}
    BY <1>2 DEF ToSet
  <2> QED BY <1>1, <1>3, <2>1 DEF Dropped
<1>5. /\ worker' = [worker EXCEPT ![g] = w] /\ entry' = [entry EXCEPT ![s] = f]
  <2>1. w = [v EXCEPT !.stage = "ended", !.rx = <<>>]
    BY <1>2, <1>3 DEF Ended, Worker
  <2> QED BY <1>1, <1>2, <1>3, <2>1
<1>6. /\ w \in Worker /\ Fits(w) /\ Has(w) = {} /\ w.stage = "ended" /\ w.scope = s
  BY EndedFits DEF Serving
<1>7. f \in Entry /\ f.state = "retiring" /\ f.gen = g /\ f.queued = 0 /\ f.backlog = <<>> /\ f # NoEntry
  BY <1>2, <1>3, NoEntryFits DEF Entry
<1> HIDE DEF w, f
<1>8. /\ worker'[g] = w /\ \A h \in Gens : h # g => worker'[h] = worker[h]
      /\ v.stage = "asking" /\ w.stage \notin Serving
      /\ \A h \in Gens : worker'[h].scope = worker[h].scope
                         /\ (worker'[h].stage \in Serving => worker[h].stage \in Serving /\ h # g)
      /\ entry'[s] = f /\ \A t \in Scopes : t # s => entry'[t] = entry[t]
      /\ \A t \in Scopes : entry'[t].gen = entry[t].gen
  BY <1>2, <1>3, <1>5, <1>6, <1>7 DEF Serving
<1>9. Taken' = Taken
  BY <1>4 DEF Taken
<1>10. ChannelFits' /\ channel' \in Seq(Commands) /\ Len(channel') <= CommandRoom
  <2>1. \A h \in Gens :
          /\ worker[h].stage = "asking" /\ Head(channel) # IdleExpired(h) => worker'[h].stage = "asking"
          /\ worker[h].stage # "unborn" => worker'[h].stage # "unborn"
          /\ worker[h].stage = "gone" => worker'[h].stage = "gone"
    BY <1>6, <1>8
  <2> QED BY <1>1, <1>4, <2>1, ActorChannel
<1>11. \A h \in Gens : Reports(h)' = Reports(h)
  BY <1>1, ActorReports
<1>12. Types'
  <2>1. worker' \in [Gens -> Worker] /\ entry' \in [Scopes -> Entry] /\ fate' \in [Messages -> Fates]
    BY <1>2, <1>3, <1>4, <1>5, <1>6, <1>7
  <2> QED BY <1>1, <1>10, <2>1 DEF IInv, Types
<1>13. WorkersFit'
  BY <1>6, <1>8 DEF IInv, WorkersFit
<1>14. EntriesFit'
  <2> SUFFICES ASSUME NEW t \in Scopes PROVE EntryFits(t, entry[t])'
    BY DEF EntriesFit
  <2>1. CASE t = s
    <3>1. In(f.backlog) = {} /\ f.queued + Len(f.backlog) <= Capacity
      BY <1>7, ConstTypes DEF In
    <3> QED BY <1>6, <1>7, <1>8, <2>1, <3>1 DEF EntryFits
  <2>2. CASE t # s
    <3>1. entry[t].gen \in {0} \cup Gens /\ (entry[t].gen # 0 => worker[entry[t].gen].scope = t)
      BY EntryOf
    <3>2. entry[t].gen # 0 => worker'[entry[t].gen] = worker[entry[t].gen]
      BY <1>8, <2>2, <3>1
    <3> QED BY <1>8, <1>9, <1>11, <2>2, <3>1, <3>2, EntryKept
  <2> QED BY <2>1, <2>2
<1>15. ServersFit'
  <2>1. \A h \in Gens : worker[h].stage \in Serving => worker[h].scope \in Scopes
    BY FieldsOf, StagesDiffer
  <2>2. ASSUME NEW h \in Gens, worker'[h].stage \in Serving
        PROVE  entry'[worker'[h].scope].gen = h
    <3>1. /\ worker[h].stage \in Serving /\ worker'[h].scope = worker[h].scope /\ worker[h].scope \in Scopes
      BY <1>8, <2>1, <2>2
    <3>2. entry[worker[h].scope].gen = h
      BY <1>1, <3>1 DEF IInv, ServersFit
    <3> QED BY <1>8, <3>1, <3>2
  <2>3. ASSUME NEW h \in Gens, NEW k \in Gens, worker'[h].stage \in Serving, worker'[k].stage \in Serving,
               worker'[h].scope = worker'[k].scope
        PROVE  h = k
    BY <2>2, <2>3
  <2> QED BY <2>2, <2>3 DEF ServersFit
<1>16. BirthsFit' /\ SlotsFit'
  <2>1. Waiting' \subseteq Waiting
    <3>1. \A n \in Messages : ScopeOf[n] \in Scopes
      BY ConstTypes
    <3>2. \A t \in Scopes : entry'[t].backlog = entry[t].backlog
      BY <1>2, <1>7, <1>8
    <3> QED BY <1>4, <3>1, <3>2 DEF Waiting
  <2>2. \A h \in Gens : /\ worker'[h].stage = "unborn" <=> worker[h].stage = "unborn"
                        /\ worker'[h].stage \in Serving \cup {"ended"}
                             <=> worker[h].stage \in Serving \cup {"ended"}
    BY <1>6, <1>8 DEF Serving
  <2> QED BY <1>1, <2>1, <2>2, CountsKept
<1>17. FatesFit'
  BY <1>6, <1>8, <1>9 DEF IInv, FatesFit
<1>18. StoppedFits' /\ LossHasCause'
  BY <1>1, <1>4 DEF IInv, StoppedFits, LossHasCause
<1> QED BY <1>4, <1>10, <1>12, <1>13, <1>14, <1>15, <1>16, <1>17, <1>18 DEF IInv

LEMMA IdleIInv ==
  ASSUME IInv, HandleIdleExpired
  PROVE  IInv'
<1>1. PICK g \in Gens : /\ g = Head(channel).gen /\ Head(channel) = IdleExpired(g)
                        /\ worker[g].stage = "asking"
  BY CommandHead DEF HandleIdleExpired
<1> QED BY <1>1, StayIInv, RetireIInv

\* A report of a message taken: the actor's count follows.
LEMMA DequeuedIInv ==
  ASSUME IInv, HandleDequeued
  PROVE  IInv'
<1>1. PICK g \in Gens : /\ g = Head(channel).gen /\ Head(channel) = Dequeued(g)
                        /\ worker[g].scope \in Scopes
  BY CommandHead DEF HandleDequeued
<1>0. PICK s \in Scopes : s = worker[g].scope
  BY <1>1
<1> DEFINE e == entry[s]
<1>2. /\ channel # <<>> /\ channel' = Tail(channel) /\ ~stopped /\ channel \in Seq(Commands)
      /\ entry' = IF e.gen = g /\ e.queued > 0 THEN [entry EXCEPT ![s].queued = @ - 1] ELSE entry
      /\ UNCHANGED <<worker, slots, cooling, notices, fate, panics, shutdown, stopped>>
  BY <1>0, <1>1 DEF HandleDequeued, Command, IInv, Types
<1>3. \A h \in Gens : Reports(h) = Reports(h)' + (IF h = g THEN 1 ELSE 0)
  <2> SUFFICES ASSUME NEW h \in Gens PROVE Reports(h) = Reports(h)' + (IF h = g THEN 1 ELSE 0)
    OBVIOUS
  <2>1. Dequeued(g) = Dequeued(h) <=> h = g
    BY CommandsDiffer
  <2> QED BY <1>1, <1>2, <2>1, ReportsShrink
<1>4. \A h \in Gens : Reports(h)' \in Nat
  <2> SUFFICES ASSUME NEW h \in Gens PROVE Reports(h)' \in Nat
    OBVIOUS
  <2>1. Reports(h)' = Cardinality(Places(Dequeued(h), channel'))
    BY DEF Reports, Places
  <2> QED BY <1>2, <2>1, HeadFits, PlacesType
<1>5. Taken' = Taken
  BY <1>2 DEF Taken
<1>6. ChannelFits' /\ channel' \in Seq(Commands) /\ Len(channel') <= CommandRoom
  BY <1>2, ActorChannel
<1>7. e \in Entry /\ EntryFits(s, e) /\ entry \in [Scopes -> Entry]
  BY <1>1, EntryOf DEF IInv, Types
<1> DEFINE f == [e EXCEPT !.queued = @ - 1]
<1>8. ASSUME e.gen = g, e.queued > 0
      PROVE  /\ f \in Entry /\ f.state = e.state /\ f.gen = g /\ f.queued = e.queued - 1
             /\ f.backlog = e.backlog /\ e.queued \in Nat
             /\ entry' = [entry EXCEPT ![s] = f]
  <2>1. e.queued \in Nat /\ e.queued - 1 \in Nat
    BY <1>7, <1>8, EntryType
  <2> QED BY <1>2, <1>7, <1>8, <2>1 DEF Entry
<1> HIDE DEF f
<1>9. ASSUME NEW t \in Scopes, t # s PROVE entry'[t] = entry[t] /\ EntryFits(t, entry[t])'
  <2>1. entry'[t] = entry[t]
    BY <1>2, <1>7, <1>9
  <2>2. entry[t].gen \in {0} \cup Gens /\ (entry[t].gen # 0 => worker[entry[t].gen].scope = t)
    BY EntryOf
  <2>3. entry[t].gen # 0 => Reports(entry[t].gen)' = Reports(entry[t].gen)
    <3> SUFFICES ASSUME NEW h \in Gens, h = entry[t].gen, h # g PROVE Reports(h)' = Reports(h)
      <4>1. entry[t].gen # g
        BY <1>0, <1>9, <2>2, GensType
      <4>2. \A h \in Gens : h = entry[t].gen => Reports(entry[t].gen)' = Reports(h)'
        BY <2>1 DEF Reports
      <4> QED BY <2>2, <4>1, <4>2
    <3> QED BY <1>3, <1>4
  <2>4. PICK h : h = entry[t].gen
    OBVIOUS
  <2>5. Reports(entry[t].gen)' = Reports(h)'
    BY <2>1, <2>4 DEF Reports
  <2>6. h # 0 => Reports(h)' = Reports(h)
    BY <2>3, <2>4, <2>5
  <2> QED BY <1>2, <1>5, <2>1, <2>4, <2>6, EntryKept
<1>10. CASE e.gen = g /\ e.queued > 0
  <2>1. /\ f \in Entry /\ f.state = e.state /\ f.gen = g /\ f.queued = e.queued - 1
        /\ f.backlog = e.backlog /\ e.queued \in Nat /\ entry' = [entry EXCEPT ![s] = f]
    BY <1>8, <1>10
  <2>2. entry'[s] = f /\ \A t \in Scopes : entry'[t].gen = entry[t].gen /\ entry'[t].backlog = entry[t].backlog
    BY <1>1, <1>7, <1>10, <2>1
  <2>3. Types'
    BY <1>2, <1>6, <1>7, <2>1 DEF IInv, Types
  <2>4. EntryFits(s, entry[s])'
    <3>1. e.state \in {"active", "none", "retiring"} /\ e.state # "none" /\ e.state # "retiring"
          /\ Len(e.backlog) \in Nat
      BY <1>7, <1>10, <2>1, EntryType, NoEntryFits, GensType DEF EntryFits
    <3>2. e.state = "active" /\ f # NoEntry
      BY <2>1, <3>1, NoEntryFits
    <3>3. worker[g].stage \in Serving => f.queued = Len(Ahead(worker[g])) + Reports(g)'
      <4>1. Reports(g) = Reports(g)' + 1 /\ Reports(g)' \in Nat
        BY <1>3, <1>4
      <4>2. Len(Ahead(worker[g])) \in Nat
        BY FieldsOf, AheadIs
      <4>3. worker[g].stage \in Serving => e.queued = Len(Ahead(worker[g])) + Reports(g)
        BY <1>7, <1>10, <3>1 DEF EntryFits
      <4> QED BY <2>1, <4>1, <4>2, <4>3
    <3>4. f.queued + Len(f.backlog) <= Capacity
      <4>1. e.queued + Len(e.backlog) <= Capacity
        BY <1>7 DEF EntryFits
      <4> QED BY <2>1, <3>1, <4>1, ConstTypes
    <3>5. Reports(entry[s].gen)' = Reports(g)'
      <4>1. entry'[s].gen = g
        BY <2>1, <2>2
      <4> QED BY <4>1 DEF Reports
    <3> QED BY <1>2, <1>5, <1>7, <2>1, <2>2, <3>1, <3>2, <3>3, <3>4, <3>5 DEF EntryFits
  <2>5. EntriesFit'
    BY <1>9, <2>4 DEF EntriesFit
  <2>6. BirthsFit' /\ SlotsFit'
    <3>1. Waiting' \subseteq Waiting
      BY <1>2, <2>2, ConstTypes DEF Waiting
    <3> QED BY <1>2, <3>1, CountsKept
  <2>7. ServersFit'
    <3>1. \A h \in Gens : worker[h].stage \in Serving => worker[h].scope \in Scopes
      BY FieldsOf, StagesDiffer
    <3> QED BY <1>2, <2>2, <3>1 DEF IInv, ServersFit
  <2> QED BY <1>2, <1>5, <1>6, <2>3, <2>5, <2>6, <2>7
          DEF IInv, WorkersFit, FatesFit, StoppedFits, LossHasCause
<1>11. CASE ~(e.gen = g /\ e.queued > 0)
  <2>1. entry' = entry
    BY <1>2, <1>11
  <2>2. EntryFits(s, entry[s])'
    <3>1. PICK h : h = e.gen
      OBVIOUS
    <3>2. h \in {0} \cup Gens /\ (h # 0 <=> e.state # "none")
      BY <1>1, <3>1, EntryOf
    <3>3. ASSUME h # 0, worker[h].stage \in Serving PROVE Reports(h)' = Reports(h)
      <4>1. CASE h = g
        <5>1. e.queued = Len(Ahead(worker[g])) + Reports(g)
          BY <1>7, <3>1, <3>2, <3>3, <4>1 DEF EntryFits
        <5>2. Reports(g) = Reports(g)' + 1 /\ Reports(g)' \in Nat /\ Len(Ahead(worker[g])) \in Nat
          BY <1>3, <1>4, FieldsOf, AheadIs
        <5>3. e.queued > 0
          BY <5>1, <5>2
        <5> QED BY <1>11, <3>1, <4>1, <5>3
      <4>2. CASE h # g
        BY <1>3, <1>4, <3>2, <3>3, <4>2
      <4> QED BY <4>1, <4>2
    <3> QED BY <1>1, <1>2, <1>5, <2>1, <3>1, <3>3, EntryKept
  <2>3. EntriesFit'
    BY <1>9, <2>2 DEF EntriesFit
  <2>4. BirthsFit' /\ SlotsFit'
    <3>1. Waiting' \subseteq Waiting
      BY <1>2, <2>1 DEF Waiting
    <3> QED BY <1>2, <3>1, CountsKept
  <2> QED BY <1>2, <1>5, <1>6, <2>1, <2>3, <2>4
          DEF IInv, Types, WorkersFit, ServersFit, FatesFit, StoppedFits, LossHasCause
<1> QED BY <1>10, <1>11

\* The scope of a worker that left is forgotten, with the messages of its backlog.
Forgets(s, how) ==
  /\ entry[s].gen # 0 /\ worker[entry[s].gen].stage = "gone"
  /\ entry' = [entry EXCEPT ![s] = NoEntry]
  /\ fate' = Dropped(fate, ToSet(entry[s].backlog), how)
  /\ how = "evicted" \/ (how = "lost" /\ (entry[s].backlog = <<>> \/ shutdown))
  /\ channel # <<>> /\ channel' = Tail(channel) /\ ~stopped /\ Head(channel).kind = "exited"
  /\ notices' \in Seq(Messages) /\ Len(notices') <= NoticeRoom /\ cooling' \subseteq Groups
  /\ UNCHANGED <<worker, slots, panics, shutdown, stopped>>

LEMMA ForgetsIInv ==
  ASSUME IInv, NEW s \in Scopes, NEW how, Forgets(s, how)
  PROVE  IInv'
<1> DEFINE q == entry[s].backlog
<1>1. /\ q \in Seq(Messages) /\ ToSet(q) = In(q) /\ In(q) \subseteq Taken
      /\ entry \in [Scopes -> Entry] /\ fate \in [Messages -> Fates]
  <2>1. q \in Seq(Messages) /\ EntryFits(s, entry[s])
    BY EntryOf, EntryType
  <2> QED BY <2>1, MembersAre DEF EntryFits, IInv, Types
<1>2. /\ fate' \in [Messages -> Fates]
      /\ \A n \in Messages : fate'[n] = fate[n] \/ (n \in Taken /\ fate'[n] = how)
      /\ how \in {"evicted", "lost"}
  BY <1>1 DEF Forgets, Dropped, Fates
<1>3. Taken' = Taken
  BY <1>2 DEF Taken
<1>4. /\ \A n \in Messages : /\ fate'[n] \in {"new", "sent"} <=> fate[n] \in {"new", "sent"}
                             /\ fate[n] = "sent" => fate'[n] = "sent"
  BY <1>2 DEF Taken
<1>5. /\ entry'[s] = NoEntry /\ \A t \in Scopes : t # s => entry'[t] = entry[t]
      /\ entry' \in [Scopes -> Entry] /\ worker' = worker
  BY <1>1, NoEntryFits DEF Forgets
<1>6. ChannelFits' /\ channel' \in Seq(Commands) /\ Len(channel') <= CommandRoom
  BY <1>4, ActorChannel DEF Forgets
<1>7. \A h \in Gens : Reports(h)' = Reports(h)
  BY ActorReports DEF Forgets
<1>8. Types'
  BY <1>2, <1>5, <1>6 DEF IInv, Types, Forgets
<1>9. EntriesFit'
  <2> SUFFICES ASSUME NEW t \in Scopes PROVE EntryFits(t, entry[t])'
    BY DEF EntriesFit
  <2>1. CASE t = s
    BY <1>5, <2>1, NoEntryFits, ConstTypes DEF EntryFits
  <2>2. CASE t # s
    <3>1. entry[t].gen \in {0} \cup Gens /\ entry'[t] = entry[t]
      BY <1>5, <2>2, EntryOf
    <3> QED BY <1>3, <1>5, <1>7, <3>1, EntryKept
  <2> QED BY <2>1, <2>2
<1>10. BirthsFit' /\ SlotsFit'
  <2>1. Waiting' \subseteq Waiting
    BY <1>4, <1>5, NoEntryFits, ConstTypes DEF Waiting
  <2> QED BY <1>5, <2>1, CountsKept DEF Forgets
<1>11. ServersFit'
  <2>1. ~stopped /\ stopped' = stopped /\ ServersFit /\ worker[entry[s].gen].stage = "gone"
    BY DEF Forgets, IInv
  <2>2. \A h \in Gens : worker[h].stage \in Serving => worker[h].scope \in Scopes /\ worker[h].scope # s
    BY <2>1, FieldsOf, StagesDiffer, NobodyServes DEF Down
  <2> QED BY <1>5, <2>1, <2>2 DEF ServersFit
<1>12. (WorkersFit /\ FatesFit /\ StoppedFits)'
  BY <1>3, <1>5 DEF IInv, WorkersFit, FatesFit, StoppedFits, Forgets
<1>13. LossHasCause'
  <2>1. ASSUME q = <<>> PROVE fate' = fate
    <3>1. ToSet(q) = {}
      BY <2>1 DEF ToSet
    <3> QED BY <1>1, <3>1 DEF Forgets, Dropped
  <2> QED BY <1>2, <2>1 DEF IInv, LossHasCause, Forgets
<1> QED BY <1>6, <1>8, <1>9, <1>10, <1>11, <1>12, <1>13 DEF IInv

\* A backlog finds a successor, when there is a slot.
LEMMA SucceedSpawns ==
  ASSUME IInv, NEW g \in Gens, worker[g].stage = "gone", NEW s \in Scopes, entry[s].gen = g,
         channel # <<>>, channel' = Tail(channel), ~stopped, Head(channel).kind = "exited",
         UNCHANGED <<panics, shutdown, stopped>>, Succeed(s)
  PROVE  Spawns(s, entry[s].backlog) /\ Len(entry[s].backlog) <= Capacity
<1> DEFINE e == entry[s]
           q == e.backlog
<1>0. /\ EntryFits(s, e) /\ q \in Seq(Messages) /\ e.queued \in Nat /\ Len(q) \in Nat
  BY EntryOf, EntryType
<1>1. Len(q) <= Capacity
  <2>1. e.queued + Len(q) <= Capacity
    BY <1>0 DEF EntryFits
  <2> QED BY <1>0, <2>1, ConstTypes
<1>2. /\ slots > 0 /\ slots' = slots - 1 /\ q # <<>>
      /\ worker' = [worker EXCEPT ![NextGen] = NewWorker(s, q)]
      /\ entry' = [entry EXCEPT ![s] = Active(NextGen, Len(q))]
      /\ UNCHANGED <<fate, notices, cooling>>
  BY DEF Succeed
<1>3. In(q) \subseteq {m \in Taken : ScopeOf[m] = s}
  BY <1>0 DEF EntryFits
<1>4. Taken' = Taken /\ Taken' = Taken \cup In(q) /\ fate' \in [Messages -> Fates]
  BY <1>2, <1>3 DEF Taken, IInv, Types
<1>5. \A h \in Gens : worker[h].stage \in Serving => worker[h].scope # s
  BY NobodyServes, StagesDiffer DEF Down
<1>6. /\ entry'[s].backlog = <<>> /\ \A t \in Scopes : t # s => entry'[t] = entry[t]
  BY <1>2 DEF Active, IInv, Types
<1>7. PICK m \in Messages : m \in In(q)
  <2>1. 1 \in 1 .. Len(q) /\ q[1] \in Messages
    BY <1>0, <1>2, EmptySeq
  <2> QED BY <2>1 DEF In
<1>8. m \in Waiting /\ m \notin Waiting'
  <2>1. In(<<>>) = {}
    BY DEF In
  <2> QED BY <1>2, <1>3, <1>6, <1>7, <2>1 DEF Waiting, Taken
<1>9. Waiting' \subseteq Waiting
  <2>1. In(<<>>) = {}
    BY DEF In
  <2> QED BY <1>2, <1>6, <2>1, ConstTypes DEF Waiting
<1>10. Spawns(s, q)
  BY <1>2, <1>4, <1>5, <1>8, <1>9 DEF Spawns
<1> QED BY <1>1, <1>10

LEMMA ExitedIInv ==
  ASSUME IInv, HandleExited
  PROVE  IInv'
<1>1. PICK g \in Gens : /\ g = Head(channel).gen /\ Head(channel) = Exited(g)
                        /\ worker[g].stage = "gone" /\ worker[g].scope \in Scopes
  BY CommandHead DEF HandleExited
<1> DEFINE s == worker[g].scope
           e == entry[s]
           q == e.backlog
<1>2. /\ channel # <<>> /\ channel' = Tail(channel) /\ ~stopped /\ Head(channel).kind = "exited"
      /\ UNCHANGED <<panics, shutdown, stopped>>
      /\ IF e.gen = g THEN ForgetScope(s) \/ Succeed(s) \/ EvictBacklog(s)
         ELSE UNCHANGED <<entry, worker, slots, cooling, notices, fate>>
  BY <1>1 DEF HandleExited, Command
<1>3. CASE e.gen # g
  <2>1. UNCHANGED <<entry, worker, slots, cooling, notices, fate>>
    BY <1>2, <1>3
  <2>2. Taken' = Taken /\ Waiting' = Waiting
    BY <2>1 DEF Taken, Waiting
  <2>3. ChannelFits' /\ channel' \in Seq(Commands) /\ Len(channel') <= CommandRoom
    BY <1>2, <2>1, ActorChannel
  <2>4. \A h \in Gens : Reports(h)' = Reports(h)
    BY <1>2, ActorReports
  <2>5. EntriesFit'
    <3> SUFFICES ASSUME NEW t \in Scopes PROVE EntryFits(t, entry[t])'
      BY DEF EntriesFit
    <3>1. entry[t].gen \in {0} \cup Gens
      BY EntryOf
    <3> QED BY <2>1, <2>2, <2>4, <3>1, EntryKept
  <2>6. BirthsFit' /\ SlotsFit'
    BY <2>1, <2>2, CountsKept
  <2> QED BY <1>2, <2>1, <2>2, <2>3, <2>5, <2>6
          DEF IInv, Types, WorkersFit, ServersFit, FatesFit, StoppedFits, LossHasCause
<1>4. CASE e.gen = g
  <2>1. /\ g # 0 /\ e \in Entry /\ EntryFits(s, e) /\ q \in Seq(Messages) /\ e.queued \in Nat
        /\ Len(q) \in Nat /\ e.state # "none"
    BY <1>1, <1>4, GensType, EntryOf, EntryType
  <2>2. notices \in Seq(Messages) /\ Len(notices) <= NoticeRoom /\ cooling \subseteq Groups
    BY DEF IInv, Types
  <2>3. CASE ForgetScope(s)
    <3>1. Forgets(s, "lost")
      BY <1>1, <1>2, <1>4, <2>1, <2>2, <2>3 DEF ForgetScope, Forgets
    <3> QED BY <1>1, <3>1, ForgetsIInv
  <2>4. CASE EvictBacklog(s)
    <3>1. notices' \in Seq(Messages) /\ Len(notices') <= NoticeRoom /\ cooling' \subseteq Groups
      BY <1>1, <2>1, <2>4, NotifyFits DEF EvictBacklog
    <3>2. Forgets(s, "evicted")
      BY <1>1, <1>2, <1>4, <2>1, <2>4, <3>1 DEF EvictBacklog, Forgets
    <3> QED BY <1>1, <3>2, ForgetsIInv
  <2>5. CASE Succeed(s)
    <3>1. Spawns(s, q) /\ Len(q) <= Capacity
      BY <1>1, <1>2, <1>4, <2>5, SucceedSpawns
    <3> QED BY <1>1, <2>1, <3>1, SpawnsIInv
  <2> QED BY <1>2, <1>4, <2>3, <2>4, <2>5
<1> QED BY <1>3, <1>4

LEMMA ActorIInv ==
  ASSUME IInv, Actor
  PROVE  IInv'
  BY EnqueueIInv, IdleIInv, DequeuedIInv, ExitedIInv DEF Actor

-----------------------------------------------------------------------------
(* The other steps. *)

\* A step that leaves the scopes, the workers, the channel and the fates alone.
LEMMA RestIInv ==
  ASSUME IInv, UNCHANGED <<entry, worker, channel, slots, fate, panics, stopped>>,
         shutdown' \in BOOLEAN, shutdown => shutdown',
         notices' \in Seq(Messages), Len(notices') <= NoticeRoom, cooling' \subseteq Groups
  PROVE  IInv'
<1>1. Types'
  BY DEF IInv, Types
<1>2. EntriesFit' /\ ChannelFits'
  <2>1. Taken' = Taken /\ \A h : Reports(h)' = Reports(h)
    BY DEF Taken, Reports
  <2>2. \A t \in Scopes : EntryFits(t, entry[t])'
    BY <2>1 DEF IInv, EntriesFit, EntryFits
  <2> QED BY <2>2 DEF IInv, EntriesFit, ChannelFits, CommandFits
<1>3. BirthsFit' /\ SlotsFit'
  BY CountsKept DEF Waiting
<1>4. (WorkersFit /\ ServersFit /\ FatesFit /\ StoppedFits /\ LossHasCause)'
  BY DEF IInv, WorkersFit, ServersFit, FatesFit, Taken, StoppedFits, LossHasCause
<1> QED BY <1>1, <1>2, <1>3, <1>4 DEF IInv

LEMMA OtherIInv ==
  ASSUME IInv,
         \/ SendNotice \/ (\E s \in Scopes : CooldownOver(s)) \/ Shutdown
         \/ UNCHANGED vars
  PROVE  IInv'
<1>1. /\ notices \in Seq(Messages) /\ Len(notices) <= NoticeRoom /\ cooling \subseteq Groups
      /\ shutdown \in BOOLEAN /\ NoticeRoom \in Nat
  BY ConstTypes DEF IInv, Types
<1>2. CASE SendNotice
  <2>1. Tail(notices) \in Seq(Messages) /\ Len(Tail(notices)) = Len(notices) - 1 /\ Len(notices) \in Nat
    BY <1>1, <1>2, EmptySeq, HeadTailProperties DEF SendNotice
  <2>2. Len(Tail(notices)) <= NoticeRoom
    BY <1>1, <2>1
  <2> QED BY <1>1, <1>2, <2>1, <2>2, RestIInv DEF SendNotice
<1>3. CASE \E s \in Scopes : CooldownOver(s)
  BY <1>1, <1>3, RestIInv DEF CooldownOver
<1>4. CASE Shutdown
  BY <1>1, <1>4, RestIInv DEF Shutdown
<1>5. CASE UNCHANGED vars
  BY <1>1, <1>5, RestIInv DEF vars
<1> QED BY <1>2, <1>3, <1>4, <1>5

LEMMA SendIInv ==
  ASSUME IInv, NEW m \in Messages, Send(m)
  PROVE  IInv'
<1>1. /\ fate[m] = "new" /\ fate' \in [Messages -> Fates] /\ fate'[m] \in {"sent", "unavailable"}
      /\ \A n \in Messages : n # m => fate'[n] = fate[n]
      /\ UNCHANGED <<entry, worker, slots, cooling, notices, panics, shutdown, stopped>>
  BY DEF Send, IInv, Types, Fates
<1>2. Taken' = Taken /\ Waiting' \subseteq Waiting
  BY <1>1 DEF Taken, Waiting
<1>3. /\ channel \in Seq(Commands) /\ ChannelFits /\ Len(channel) <= CommandRoom
      /\ Enqueue(m) \in Commands
  BY DEF IInv, Types, Commands
<1>4. \A d \in Commands : (\E i \in 1 .. Len(channel) : channel[i] = d) => CommandFits(d)' /\ d # Enqueue(m)
  <2>1. SUFFICES ASSUME NEW d \in Commands, NEW i \in 1 .. Len(channel), channel[i] = d
                 PROVE  CommandFits(d)' /\ d # Enqueue(m)
    OBVIOUS
  <2>2. CommandFits(d)
    BY <1>3, <2>1 DEF ChannelFits
  <2> QED BY <1>1, <2>2 DEF CommandFits
<1>5. /\ ChannelFits' /\ channel' \in Seq(Commands) /\ Len(channel') <= CommandRoom
      /\ \A h \in Gens : Reports(h)' = Reports(h)
      /\ stopped => channel' = channel
  <2>1. CASE stopped /\ channel' = channel
    <3>1. ASSUME NEW i \in 1 .. Len(channel') PROVE CommandFits(channel[i])'
      <4>1. PICK d \in Commands : d = channel'[i] /\ \E j \in 1 .. Len(channel) : channel[j] = d
        BY <1>3, <2>1, <3>1, ElementOfSeq
      <4>2. CommandFits(d)'
        BY <1>4, <4>1
      <4> QED BY <4>1, <4>2 DEF CommandFits
    <3> QED BY <1>3, <2>1, <3>1 DEF ChannelFits, Reports
  <2>2. CASE Room /\ channel' = Append(channel, Enqueue(m)) /\ fate'[m] = "sent"
    <3>1. channel' \in Seq(Commands) /\ Len(channel') <= CommandRoom
      <4>1. channel' \in Seq(Commands) /\ Len(channel') = Len(channel) + 1 /\ Len(channel) \in Nat
        BY <1>3, <2>2, AppendProperties
      <4> QED BY <2>2, <4>1, ConstTypes DEF Room
    <3>2. CommandFits(Enqueue(m))'
      BY <2>2, CommandsDiffer DEF CommandFits
    <3>3. ChannelFits'
      <4>1. \A d \in Commands :
              d = Enqueue(m) \/ (\E i \in 1 .. Len(channel) : channel[i] = d) => CommandFits(d)'
        BY <1>4, <3>2
      <4>2. \A i \in 1 .. Len(channel) : channel[i] # Enqueue(m)
        BY <1>3, <1>4, ElementOfSeq
      <4> QED BY <1>3, <2>2, <4>1, <4>2, ChannelGrows
    <3>4. \A h \in Gens : Reports(h)' = Reports(h)
      <4> SUFFICES ASSUME NEW h \in Gens PROVE Reports(h)' = Reports(h)
        OBVIOUS
      <4>1. Enqueue(m) # Dequeued(h) /\ Reports(h) \in Nat
        BY <1>3, CommandsDiffer, ReportsType
      <4> QED BY <1>3, <2>2, <4>1, ReportsGrow
    <3> QED BY <2>2, <3>1, <3>3, <3>4 DEF Room
  <2>3. \/ stopped /\ channel' = channel
        \/ Room /\ channel' = Append(channel, Enqueue(m)) /\ fate'[m] = "sent"
    BY DEF Send, IInv, Types
  <2> QED BY <2>1, <2>2, <2>3
<1>6. Types'
  BY <1>1, <1>5 DEF IInv, Types
<1>7. EntriesFit'
  <2> SUFFICES ASSUME NEW t \in Scopes PROVE EntryFits(t, entry[t])'
    BY DEF EntriesFit
  <2>1. entry[t].gen \in {0} \cup Gens
    BY EntryOf
  <2> QED BY <1>1, <1>2, <1>5, <2>1, EntryKept
<1>8. BirthsFit' /\ SlotsFit'
  BY <1>1, <1>2, CountsKept
<1>9. (WorkersFit /\ ServersFit /\ FatesFit /\ StoppedFits)'
  BY <1>1, <1>2, <1>5 DEF IInv, WorkersFit, ServersFit, FatesFit, StoppedFits
<1>10. LossHasCause'
  BY <1>1 DEF IInv, LossHasCause
<1> QED BY <1>5, <1>6, <1>7, <1>8, <1>9, <1>10 DEF IInv

LEMMA StopIInv ==
  ASSUME IInv, Stop
  PROVE  IInv'
<1>1. \A n \in Messages : /\ ScopeOf[n] \in Scopes
                          /\ ToSet(entry[ScopeOf[n]].backlog) \subseteq Taken
  <2> SUFFICES ASSUME NEW n \in Messages
               PROVE  ScopeOf[n] \in Scopes /\ ToSet(entry[ScopeOf[n]].backlog) \subseteq Taken
    OBVIOUS
  <2>1. ScopeOf[n] \in Scopes
    BY ConstTypes
  <2>2. entry[ScopeOf[n]].backlog \in Seq(Messages) /\ EntryFits(ScopeOf[n], entry[ScopeOf[n]])
    BY <2>1, EntryOf, EntryType
  <2> QED BY <2>1, <2>2, MembersAre DEF EntryFits
<1>2. /\ fate' \in [Messages -> Fates] /\ fate \in [Messages -> Fates]
      /\ \A n \in Messages : \/ fate[n] = "sent" /\ fate'[n] = "unavailable"
                             \/ fate[n] # "sent" /\ n \in Taken /\ fate'[n] = "lost"
                             \/ fate[n] # "sent" /\ fate'[n] = fate[n]
  BY <1>1 DEF Stop, IInv, Types, Fates
<1>3. Taken' = Taken
  BY <1>2 DEF Taken
<1>4. \A n \in Messages : fate'[n] \in {"new", "sent"} => fate[n] \in {"new", "sent"}
  BY <1>2
<1>5. /\ channel' = <<>> /\ notices' = <<>> /\ shutdown /\ stopped' = TRUE
      /\ entry' \in [Scopes -> Entry] /\ \A t \in Scopes : entry'[t] = NoEntry
      /\ UNCHANGED <<worker, slots, cooling, panics, shutdown>>
  BY NoEntryFits DEF Stop
<1>6. /\ channel' \in Seq(Commands) /\ Len(channel') = 0
      /\ notices' \in Seq(Messages) /\ Len(notices') = 0
  BY <1>5
<1>7. Types'
  BY <1>2, <1>5, <1>6, ConstTypes DEF IInv, Types
<1>8. ChannelFits'
  BY <1>6 DEF ChannelFits
<1>9. EntriesFit'
  BY <1>5, NoEntryFits, ConstTypes DEF EntriesFit, EntryFits
<1>10. BirthsFit' /\ SlotsFit'
  <2>1. Waiting' \subseteq Waiting
    BY <1>1, <1>4, <1>5, NoEntryFits DEF Waiting
  <2> QED BY <1>5, <2>1, CountsKept
<1>11. (WorkersFit /\ ServersFit /\ FatesFit /\ StoppedFits /\ LossHasCause)'
  BY <1>3, <1>5 DEF IInv, WorkersFit, ServersFit, FatesFit, StoppedFits, LossHasCause
<1> QED BY <1>7, <1>8, <1>9, <1>10, <1>11 DEF IInv

LEMMA InitIInv == Init => IInv
<1> SUFFICES ASSUME Init PROVE IInv
  OBVIOUS
<1>1. /\ entry \in [Scopes -> Entry] /\ \A s \in Scopes : entry[s] = NoEntry
      /\ worker \in [Gens -> Worker] /\ \A g \in Gens : worker[g] = Unborn
      /\ channel = <<>> /\ notices = <<>> /\ \A m \in Messages : fate[m] = "new"
  BY NoEntryFits, UnbornFits DEF Init
<1>2. /\ channel \in Seq(Commands) /\ Len(channel) = 0
      /\ notices \in Seq(Messages) /\ Len(notices) = 0
  BY <1>1
<1>3. Types
  <2>1. /\ fate \in [Messages -> Fates] /\ slots \in Nat /\ cooling \subseteq Groups
        /\ panics \in 0 .. MaxPanics /\ shutdown \in BOOLEAN /\ stopped \in BOOLEAN
    <3>1. fate \in [Messages -> Fates]
      BY DEF Init, Fates
    <3>2. slots = MaxWorkers /\ cooling = {} /\ panics = 0 /\ shutdown = FALSE /\ stopped = FALSE
      BY DEF Init
    <3>3. MaxWorkers \in Nat /\ 0 \in 0 .. MaxPanics
      BY ConstTypes
    <3>4. shutdown \in BOOLEAN /\ stopped \in BOOLEAN
      BY <3>2
    <3> QED BY <3>1, <3>2, <3>3, <3>4
  <2>2. Len(channel) <= CommandRoom /\ Len(notices) <= NoticeRoom
    BY <1>2, ConstTypes
  <2> QED BY <1>1, <1>2, <2>1, <2>2 DEF Types
<1>4. WorkersFit /\ FatesFit
  BY <1>1, UnbornFits DEF WorkersFit, FatesFit
<1>5. EntriesFit
  BY <1>1, NoEntryFits, ConstTypes DEF EntriesFit, EntryFits
<1>6. ServersFit
  BY <1>1, UnbornFits, StagesDiffer DEF ServersFit
<1>7. ChannelFits
  BY <1>2 DEF ChannelFits
<1>8. BirthsFit
  <2>1. Born = {} /\ Waiting \subseteq Messages
    BY <1>1, UnbornFits DEF Born, Waiting
  <2>2. Cardinality(Born) = 0
    BY <2>1, FS_EmptySet
  <2>3. Cardinality(Waiting) <= Cardinality(Messages) /\ Cardinality(Waiting) \in Nat
    BY <2>1, ConstTypes, WaitingType, FS_Subset
  <2>4. 1 .. 0 = {}
    OBVIOUS
  <2> QED BY <2>1, <2>2, <2>3, <2>4, GensType DEF BirthsFit
<1>9. SlotsFit
  <2>1. Working = {}
    BY <1>1, UnbornFits DEF Working, Serving
  <2> QED BY <2>1, FS_EmptySet, ConstTypes DEF SlotsFit, Init
<1>10. StoppedFits /\ LossHasCause
  BY <1>1 DEF Init, StoppedFits, LossHasCause
<1> QED BY <1>3, <1>4, <1>5, <1>6, <1>7, <1>8, <1>9, <1>10 DEF IInv

LEMMA StepIInv == IInv /\ [Next]_vars => IInv'
<1> SUFFICES ASSUME IInv, [Next]_vars PROVE IInv'
  OBVIOUS
<1>1. ASSUME NEW m \in Messages, Send(m) PROVE IInv'
  BY <1>1, SendIInv
<1>2. CASE Actor
  BY <1>2, ActorIInv
<1>3. ASSUME NEW g \in Gens, WorkerStep(g) \/ Panic(g) PROVE IInv'
  BY <1>3, WorkerStepIInv
<1>4. CASE SendNotice \/ (\E s \in Scopes : CooldownOver(s)) \/ Shutdown \/ UNCHANGED vars
  BY <1>4, OtherIInv
<1>5. CASE Stop
  BY <1>5, StopIInv
<1> QED BY <1>1, <1>2, <1>3, <1>4, <1>5 DEF Next

LEMMA Invariance == Spec => []IInv
<1> QED BY InitIInv, StepIInv, PTL DEF Spec

-----------------------------------------------------------------------------
(* The table of scopes. *)

LEMMA BoundedQueue ==
  ASSUME NEW q \in Seq(Messages), Len(q) <= Capacity
  PROVE  q \in SeqOf(Messages, Capacity)
<1>1. Len(q) \in 0 .. Capacity /\ DOMAIN q = 1 .. Len(q) /\ q \in [1 .. Len(q) -> Messages]
  BY LenProperties, ConstTypes
<1> QED BY <1>1 DEF SeqOf

LEMMA CountIsExact ==
  ASSUME IInv
  PROVE  QueueLenIsExact
<1> SUFFICES ASSUME NEW s \in Scopes
             PROVE  LET e == entry[s]
                    IN  /\ e # NoEntry /\ worker[e.gen].stage \in Serving =>
                             e.queued = Len(Unbegun(e.gen)) + Reports(e.gen)
                        /\ e.state = "retiring" => e.queued = 0
                        /\ e.queued + Len(e.backlog) <= Capacity
  BY DEF QueueLenIsExact
<1>1. EntryFits(s, entry[s])
  BY EntryOf
<1> QED BY <1>1 DEF EntryFits, Unbegun, Ahead

LEMMA TypeIsOK ==
  ASSUME IInv
  PROVE  TypeOK
<1>1. ASSUME NEW s \in Scopes
      PROVE  entry[s] \in [state : {"none", "active", "retiring"}, gen : 0 .. Cardinality(Messages),
                           queued : 0 .. Capacity, backlog : SeqOf(Messages, Capacity)]
  <2>1. /\ entry[s] \in Entry /\ entry[s].queued + Len(entry[s].backlog) <= Capacity
    BY <1>1, EntryOf DEF EntryFits
  <2>2. entry[s].backlog \in Seq(Messages) /\ entry[s].queued \in Nat /\ Len(entry[s].backlog) \in Nat
    BY <2>1, EntryType
  <2>3. entry[s].queued \in 0 .. Capacity /\ Len(entry[s].backlog) <= Capacity
    BY <2>1, <2>2, ConstTypes
  <2>4. entry[s].backlog \in SeqOf(Messages, Capacity)
    BY <2>2, <2>3, BoundedQueue
  <2>5. entry[s].gen \in 0 .. Cardinality(Messages)
    BY <2>1, EntryType, GensType DEF Gens
  <2> QED BY <2>1, <2>3, <2>4, <2>5 DEF Entry
<1>2. ASSUME NEW g \in Gens
      PROVE  worker[g] \in [stage : Serving \cup {"unborn", "ended", "leaving", "gone"},
                            scope : Scopes \cup {None}, rx : SeqOf(Messages, Capacity),
                            hand : Messages \cup {None}]
  <2>1. worker[g] \in Worker /\ Fits(worker[g]) /\ worker[g].rx \in Seq(Messages)
    BY <1>2, FieldsOf
  <2>2. worker[g].rx \in SeqOf(Messages, Capacity)
    BY <2>1, BoundedQueue DEF Fits
  <2> QED BY <2>1, <2>2 DEF Worker, Stages, Down
<1>3. slots \in 0 .. MaxWorkers
  BY WorkingType, ConstTypes DEF IInv, SlotsFit, Types
<1>4. entry \in [Scopes -> Entry] /\ worker \in [Gens -> Worker]
  BY DEF IInv, Types
<1> QED BY <1>1, <1>2, <1>3, <1>4 DEF TypeOK, IInv, Types, Fates

\* At any moment, whatever the order of idle timeouts, new messages, the
\* actor's decisions and the workers' exits, the table of scopes is sound: the
\* actor's queue_len is the number of messages its worker has not begun and of
\* reports on their way, a retiring scope's worker has nothing left, no queue
\* is longer than its capacity, and without a panic or a shutdown no accepted
\* message is lost.
THEOREM TableStaysSound == Spec => []TableIsSound
<1>1. IInv => TableIsSound
  BY CountIsExact, TypeIsOK DEF TableIsSound, IInv
<1> QED BY <1>1, Invariance, PTL

-----------------------------------------------------------------------------
(* The refinement of SerialMailbox.  Its variables, in the terms of this module. *)

MQ == [s \in Scopes |-> Queue(s)]
MR == [s \in Scopes |-> IF Handling(s) = {} THEN None ELSE CHOOSE m \in Handling(s) : TRUE]
MA == [m \in Messages |->
        IF fate[m] \in {"new", "sent"} THEN "none"
        ELSE IF fate[m] \in {"refused", "unavailable"} THEN "refused" ELSE "accepted"]

\* The message a worker handles.
Doing(w) == IF w.stage = "handling" THEN w.hand ELSE None

\* A scope's queue is what its worker has not begun as long as it can serve,
\* and its backlog afterwards: it never has both.
Left(s) ==
  IF entry[s].gen = 0 THEN <<>>
  ELSE IF worker[entry[s].gen].stage \in Serving THEN Ahead(worker[entry[s].gen])
  ELSE entry[s].backlog

LEMMA QueueIs == IInv => MQ = [s \in Scopes |-> Left(s)]
<1> SUFFICES ASSUME IInv, NEW s \in Scopes PROVE Queue(s) = Left(s)
  BY DEF MQ
<1> DEFINE e == entry[s]
<1>1. /\ EntryFits(s, e) /\ (e.gen # 0 <=> e # NoEntry) /\ (e.gen # 0 => e.gen \in Gens)
      /\ e.backlog \in Seq(Messages)
  BY EntryOf, EntryType
<1>2. CASE e.gen = 0
  BY <1>1, <1>2 DEF Queue, Left
<1>3. CASE e.gen # 0
  <2> DEFINE w == worker[e.gen]
  <2>1. /\ w \in Worker /\ Fits(w) /\ Ahead(w) \in Seq(Messages) /\ w.rx \in Seq(Messages)
        /\ (w.stage # "took" => Ahead(w) = w.rx) /\ w.stage \in Stages /\ w.scope = s
    BY <1>1, <1>3, EntryOf, FieldsOf, AheadIs
  <2>2. Queue(s) = Ahead(w) \o e.backlog
    BY <1>1, <1>3 DEF Queue, Unbegun, Ahead
  <2>3. CASE w.stage \in Serving
    <3>1. e.backlog = <<>>
      BY <1>1, <1>3, <2>3, NoEntryFits, EntryOf, EntryType DEF EntryFits
    <3> HIDE DEF w, e
    <3>2. Ahead(w) \o <<>> = Ahead(w)
      BY <2>1, ConcatEmptySeq
    <3> QED BY <1>3, <2>2, <2>3, <3>1, <3>2 DEF Left, w, e
  <2>4. CASE w.stage \notin Serving
    <3>1. Ahead(w) = <<>>
      BY <2>1, <2>4, StagesDiffer DEF Fits, Stages
    <3> HIDE DEF w, e
    <3>2. <<>> \o e.backlog = e.backlog
      BY <1>1, ConcatEmptySeq
    <3> QED BY <1>3, <2>2, <2>4, <3>1, <3>2 DEF Left, w, e
  <2> QED BY <2>3, <2>4
<1> QED BY <1>2, <1>3

\* The message a scope is handling is the one its only serving worker handles.
LEMMA RunningIs ==
  IInv => \A s \in Scopes :
            /\ \A g \in Gens : worker[g].scope = s /\ worker[g].stage \in Serving => MR[s] = Doing(worker[g])
            /\ (\A g \in Gens : worker[g].scope = s => worker[g].stage \notin Serving) => MR[s] = None
<1> SUFFICES ASSUME IInv, NEW s \in Scopes
             PROVE  /\ \A g \in Gens : worker[g].scope = s /\ worker[g].stage \in Serving
                                         => MR[s] = Doing(worker[g])
                    /\ (\A g \in Gens : worker[g].scope = s => worker[g].stage \notin Serving)
                         => MR[s] = None
  OBVIOUS
<1>1. ASSUME NEW g \in Gens, worker[g].scope = s, worker[g].stage \in Serving
      PROVE  MR[s] = Doing(worker[g])
  <2>1. \A h \in Gens : worker[h].scope = s /\ worker[h].stage = "handling" => h = g
    BY <1>1 DEF IInv, ServersFit, Serving
  <2>2. CASE worker[g].stage = "handling"
    <3>1. Handling(s) = {worker[g].hand}
      BY <1>1, <2>1, <2>2 DEF Handling
    <3> QED BY <2>2, <3>1 DEF MR, Doing
  <2>3. CASE worker[g].stage # "handling"
    <3>1. Handling(s) = {}
      BY <2>1, <2>3 DEF Handling
    <3> QED BY <2>3, <3>1 DEF MR, Doing
  <2> QED BY <2>2, <2>3
<1>2. ASSUME \A g \in Gens : worker[g].scope = s => worker[g].stage \notin Serving
      PROVE  MR[s] = None
  <2>1. Handling(s) = {}
    BY <1>2 DEF Handling, Serving
  <2> QED BY <2>1 DEF MR
<1> QED BY <1>1, <1>2

LEMMA MappedTypes ==
  IInv => /\ MQ \in [Scopes -> Seq(Messages)]
          /\ MR \in [Scopes -> Messages \cup {None}]
          /\ MA \in [Messages -> {"none", "accepted", "refused"}]
<1> SUFFICES ASSUME IInv
             PROVE  /\ MQ \in [Scopes -> Seq(Messages)]
                    /\ MR \in [Scopes -> Messages \cup {None}]
                    /\ MA \in [Messages -> {"none", "accepted", "refused"}]
  OBVIOUS
<1>1. ASSUME NEW s \in Scopes PROVE Left(s) \in Seq(Messages)
  <2>1. /\ entry[s].backlog \in Seq(Messages) /\ <<>> \in Seq(Messages)
        /\ (entry[s].gen # 0 => entry[s].gen \in Gens)
    BY <1>1, EntryOf, EntryType, EmptySeq
  <2>2. entry[s].gen # 0 => Ahead(worker[entry[s].gen]) \in Seq(Messages)
    BY <2>1, FieldsOf, AheadIs
  <2> QED BY <2>1, <2>2 DEF Left
<1>2. MQ \in [Scopes -> Seq(Messages)]
  BY <1>1, QueueIs
<1>3. ASSUME NEW s \in Scopes PROVE MR[s] \in Messages \cup {None}
  <2>1. \A g \in Gens : Doing(worker[g]) \in Messages \cup {None}
    BY FieldsOf DEF Doing
  <2> QED BY <2>1, <1>3, RunningIs
<1>4. MR \in [Scopes -> Messages \cup {None}]
  BY <1>3 DEF MR
<1>5. MA \in [Messages -> {"none", "accepted", "refused"}]
  BY DEF MA
<1> QED BY <1>2, <1>4, <1>5

\* The steps of the mailbox.
LEMMA StutterIs ==
  ASSUME MQ' = MQ, MR' = MR, MA' = MA
  PROVE  UNCHANGED Mailbox!vars
  BY DEF MQ, MR, MA, Mailbox!vars

LEMMA AcceptIs ==
  ASSUME NEW m \in Messages, MA[m] = "none", MA' = [MA EXCEPT ![m] = "accepted"],
         MQ' = [MQ EXCEPT ![ScopeOf[m]] = Append(@, m)], MR' = MR
  PROVE  Mailbox!Next
<1>1. Mailbox!Accept(m)
  BY DEF MQ, MR, MA, Mailbox!Accept
<1> QED BY <1>1 DEF Mailbox!Next

LEMMA RefuseIs ==
  ASSUME NEW m \in Messages, MA[m] = "none", MA' = [MA EXCEPT ![m] = "refused"],
         MQ' = MQ, MR' = MR
  PROVE  Mailbox!Next
<1>1. Mailbox!Refuse(m)
  BY DEF MQ, MR, MA, Mailbox!Refuse
<1> QED BY <1>1 DEF Mailbox!Next

LEMMA BeginIs ==
  ASSUME NEW s \in Scopes, MR[s] = None, MQ[s] # <<>>,
         MR' = [MR EXCEPT ![s] = Head(MQ[s])], MQ' = [MQ EXCEPT ![s] = Tail(@)], MA' = MA
  PROVE  Mailbox!Next
<1>1. Mailbox!Begin(s)
  BY DEF MQ, MR, MA, Mailbox!Begin
<1> QED BY <1>1 DEF Mailbox!Next

LEMMA EndIs ==
  ASSUME NEW s \in Scopes, MR[s] # None, MR' = [MR EXCEPT ![s] = None], MQ' = MQ, MA' = MA
  PROVE  Mailbox!Next
<1>1. Mailbox!End(s)
  BY DEF MQ, MR, MA, Mailbox!End
<1> QED BY <1>1 DEF Mailbox!Next

LEMMA LoseIs ==
  ASSUME MQ' \in [Scopes -> Seq(Messages)], MR' \in [Scopes -> Messages \cup {None}],
         MA' \in [Messages -> {"none", "accepted", "refused"}],
         \A s \in Scopes :
           /\ \E n \in 0 .. Len(MQ[s]) : MQ'[s] = SubSeq(MQ[s], n + 1, Len(MQ[s]))
           /\ MR'[s] \in {MR[s], None},
         \A m \in Messages : MA'[m] = MA[m] \/ (MA[m] = "none" /\ MA'[m] = "refused")
  PROVE  Mailbox!Next
<1>1. Mailbox!Lose
  BY DEF MQ, MR, MA, Mailbox!Lose
<1> QED BY <1>1 DEF Mailbox!Next

\* A queue loses nothing, or all it has.
LEMMA LosesSome ==
  ASSUME NEW q \in Seq(Messages), NEW r, r = q \/ r = <<>>
  PROVE  \E n \in 0 .. Len(q) : r = SubSeq(q, n + 1, Len(q))
<1>1. /\ Len(q) \in Nat /\ q = SubSeq(q, 0 + 1, Len(q)) /\ <<>> = SubSeq(q, Len(q) + 1, Len(q))
      /\ 0 \in 0 .. Len(q) /\ Len(q) \in 0 .. Len(q)
  BY SubSeqFull, SubSeqEmpty, LenProperties
<1> QED BY <1>1

\* Scopes that lose all their queues hold, and the messages handled there.
LEMMA LosingIs ==
  ASSUME IInv, IInv',
         \A s \in Scopes : MQ'[s] \in {MQ[s], <<>>} /\ MR'[s] \in {MR[s], None},
         \A m \in Messages : MA'[m] = MA[m] \/ (MA[m] = "none" /\ MA'[m] = "refused")
  PROVE  Mailbox!Next
<1>1. MQ \in [Scopes -> Seq(Messages)]
  BY MappedTypes
<1>2. (/\ MQ \in [Scopes -> Seq(Messages)]
       /\ MR \in [Scopes -> Messages \cup {None}]
       /\ MA \in [Messages -> {"none", "accepted", "refused"}])'
  BY MappedTypes, PTL
<1>3. \A s \in Scopes : \E n \in 0 .. Len(MQ[s]) : MQ'[s] = SubSeq(MQ[s], n + 1, Len(MQ[s]))
  <2> SUFFICES ASSUME NEW s \in Scopes
               PROVE  \E n \in 0 .. Len(MQ[s]) : MQ'[s] = SubSeq(MQ[s], n + 1, Len(MQ[s]))
    OBVIOUS
  <2> DEFINE q == MQ[s]
             r == MQ'[s]
  <2>1. q \in Seq(Messages) /\ (r = q \/ r = <<>>)
    BY <1>1
  <2> HIDE DEF q, r
  <2>2. \E n \in 0 .. Len(q) : r = SubSeq(q, n + 1, Len(q))
    BY <2>1, LosesSome
  <2> QED BY <2>2 DEF q, r
<1> QED BY <1>2, <1>3, LoseIs

\* What a step leaves of the queues, of the messages handled and of the answers.
LEMMA RunningKept ==
  ASSUME \A h \in Gens :
           /\ worker'[h].stage = "handling" <=> worker[h].stage = "handling"
           /\ worker[h].stage = "handling" =>
                worker'[h].scope = worker[h].scope /\ worker'[h].hand = worker[h].hand
  PROVE  MR' = MR
<1>1. \A s : Handling(s)' = Handling(s)
  BY DEF Handling
<1> DEFINE Pick(S) == IF S = {} THEN None ELSE CHOOSE m \in S : TRUE
<1>2. MR = [s \in Scopes |-> Pick(Handling(s))] /\ MR' = [s \in Scopes |-> Pick(Handling(s)')]
  BY DEF MR
<1> HIDE DEF Pick
<1>3. \A s : Pick(Handling(s)') = Pick(Handling(s))
  BY <1>1
<1> QED BY <1>2, <1>3

LEMMA QueuesAfter ==
  ASSUME IInv, IInv'
  PROVE  /\ \A s \in Scopes : MQ[s] = Left(s) /\ MQ'[s] = Left(s)'
         /\ MQ \in [Scopes -> Seq(Messages)] /\ MQ' \in [Scopes -> Seq(Messages)]
<1>1. (MQ = [s \in Scopes |-> Left(s)])' /\ (MQ \in [Scopes -> Seq(Messages)])'
  BY QueueIs, MappedTypes, PTL
<1> QED BY <1>1, QueueIs, MappedTypes

LEMMA AnswersKept ==
  ASSUME \A m \in Messages :
           /\ fate'[m] \in {"new", "sent"} <=> fate[m] \in {"new", "sent"}
           /\ fate'[m] \in {"refused", "unavailable"} <=> fate[m] \in {"refused", "unavailable"}
  PROVE  MA' = MA
  BY DEF MA

LEMMA SeenAlone ==
  ASSUME \A s \in Scopes : /\ entry'[s].gen = entry[s].gen
                           /\ entry'[s].backlog = entry[s].backlog,
         UNCHANGED worker, IInv, IInv'
  PROVE  MQ' = MQ /\ MR' = MR
<1>1. MR' = MR
  BY RunningKept
<1>2. \A s \in Scopes : Left(s)' = Left(s)
  BY DEF Left
<1> QED BY <1>1, <1>2, QueuesAfter

\* The messages handled elsewhere are the same.
LEMMA RunningElsewhere ==
  ASSUME NEW t, \A s \in Scopes : s # t => Handling(s)' = Handling(s), NEW m, MR'[t] = m
  PROVE  MR' = [MR EXCEPT ![t] = m]
<1> DEFINE Pick(S) == IF S = {} THEN None ELSE CHOOSE n \in S : TRUE
<1>1. MR = [s \in Scopes |-> Pick(Handling(s))] /\ MR' = [s \in Scopes |-> Pick(Handling(s)')]
  BY DEF MR
<1> HIDE DEF Pick
<1>2. \A s \in Scopes : MR'[s] = IF s = t THEN m ELSE MR[s]
  BY <1>1
<1> QED BY <1>1, <1>2

-----------------------------------------------------------------------------
(* What the mailbox sees of a worker's steps. *)

LEMMA MovesSeen ==
  ASSUME IInv, IInv', NEW g \in Gens, NEW w, Moves(g, w), NEW t, t = worker[g].scope
  PROVE  /\ t \in Scopes /\ MA' = MA
         /\ worker[g].stage \in Serving =>
              MR[t] = Doing(worker[g]) /\ MR' = [MR EXCEPT ![t] = Doing(w)]
         /\ worker[g].stage \in Serving /\ entry[t].gen = g =>
              MQ[t] = Ahead(worker[g]) /\ MQ' = [MQ EXCEPT ![t] = Ahead(w)]
         /\ entry[t].gen # g \/ worker[g].stage \notin Serving => MQ' = MQ
         /\ worker[g].stage \notin Serving => MR' = MR
<1> DEFINE v == worker[g]
<1>1. /\ worker \in [Gens -> Worker] /\ worker' = [worker EXCEPT ![g] = w] /\ w \in Worker /\ Fits(w)
      /\ v \in Worker /\ Fits(v) /\ t \in Scopes /\ w.scope = t /\ entry' = entry /\ g # 0
      /\ (w.stage \in Serving => v.stage \in Serving) /\ v.stage # "unborn"
      /\ w.stage \in Stages /\ v.stage \in Stages /\ w.stage # "unborn"
  BY FieldsOf, GensType, WorkerType, StagesDiffer DEF Moves, IInv, Types, Serving
<1>2. worker'[g] = w /\ \A h \in Gens : h # g => worker'[h] = worker[h]
  BY <1>1
<1>3. MA' = MA
  <2>1. \A m \in Has(v) : fate[m] \in {"accepted", "done", "evicted", "lost"}
    BY DEF IInv, FatesFit, Taken
  <2>2. \A m \in Messages :
          fate'[m] = fate[m] \/ (m \in Has(v) /\ fate'[m] \in {"done", "lost"})
    BY DEF Moves
  <2>3. \A m \in Messages :
          /\ fate'[m] \in {"new", "sent"} <=> fate[m] \in {"new", "sent"}
          /\ fate'[m] \in {"refused", "unavailable"} <=> fate[m] \in {"refused", "unavailable"}
    BY <2>1, <2>2
  <2> QED BY <2>3, AnswersKept
<1>4. \A s \in Scopes : entry[s].gen # g => Left(s)' = Left(s)
  <2> SUFFICES ASSUME NEW s \in Scopes, entry[s].gen # g PROVE Left(s)' = Left(s)
    OBVIOUS
  <2>1. entry[s].gen \in {0} \cup Gens
    BY EntryOf
  <2>2. entry[s].gen # 0 => worker'[entry[s].gen] = worker[entry[s].gen]
    BY <1>2, <2>1
  <2> QED BY <1>1, <2>2 DEF Left
<1>5. \A s \in Scopes : s # t => entry[s].gen # g
  BY <1>1, EntryOf
<1>6. ASSUME entry[t].gen # g PROVE MQ' = MQ
  BY <1>4, <1>5, <1>6, QueuesAfter
<1>7. ASSUME v.stage \notin Serving PROVE MQ' = MQ /\ MR' = MR
  <2>1. ASSUME entry[t].gen = g PROVE Left(t)' = Left(t)
    BY <1>1, <1>2, <1>7, <2>1 DEF Left
  <2>2. MQ' = MQ
    BY <1>4, <1>5, <2>1, QueuesAfter
  <2>3. MR' = MR
    <3>1. w.stage # "handling" /\ v.stage # "handling"
      BY <1>1, <1>7 DEF Serving
    <3> QED BY <1>2, <3>1, RunningKept
  <2> QED BY <2>2, <2>3
<1>8. ASSUME v.stage \in Serving, entry[t].gen = g
      PROVE  MQ[t] = Ahead(v) /\ MQ' = [MQ EXCEPT ![t] = Ahead(w)]
  <2>1. Left(t) = Ahead(v)
    BY <1>1, <1>8 DEF Left
  <2>2. Left(t)' = Ahead(w)
    <3>1. CASE w.stage \in Serving
      <4>1. Left(t)' = Ahead(worker'[g])
        BY <1>1, <1>2, <1>8, <3>1 DEF Left
      <4> QED BY <1>2, <4>1
    <3>2. CASE w.stage \notin Serving
      <4>1. entry[t].backlog = <<>>
        <5>1. entry[t] \in Entry /\ EntryFits(t, entry[t]) /\ entry[t].state # "none"
          BY <1>1, <1>8, EntryOf
        <5> QED BY <1>8, <5>1, EntryType DEF EntryFits
      <4>2. Ahead(w) = <<>>
        BY <1>1, <3>2, AheadIs, StagesDiffer DEF Fits, Stages
      <4>3. Left(t)' = entry[t].backlog
        BY <1>1, <1>2, <1>8, <3>2 DEF Left
      <4> QED BY <4>1, <4>2, <4>3
    <3> QED BY <3>1, <3>2
  <2>3. \A s \in Scopes : MQ'[s] = IF s = t THEN Ahead(w) ELSE MQ[s]
    BY <1>1, <1>4, <1>5, <2>2, QueuesAfter
  <2> QED BY <1>1, <2>1, <2>3, QueuesAfter
<1>9. ASSUME v.stage \in Serving
      PROVE  MR[t] = Doing(v) /\ MR' = [MR EXCEPT ![t] = Doing(w)]
  <2>1. MR[t] = Doing(v)
    BY <1>1, <1>9, RunningIs
  <2>2. \A s \in Scopes : s # t => Handling(s)' = Handling(s)
    BY <1>1, <1>2 DEF Handling
  <2>3. \A h \in Gens : worker[h].scope = t /\ worker[h].stage \in Serving => h = g
    BY <1>9 DEF IInv, ServersFit
  <2>4. CASE w.stage = "handling"
    <3>1. Handling(t)' = {w.hand}
      BY <1>1, <1>2, <2>3, <2>4 DEF Handling, Serving
    <3>2. MR'[t] = w.hand
      BY <1>1, <3>1 DEF MR
    <3> QED BY <1>1, <2>1, <2>2, <2>4, <3>2, RunningElsewhere DEF Doing
  <2>5. CASE w.stage # "handling"
    <3>1. Handling(t)' = {}
      BY <1>1, <1>2, <2>3, <2>5 DEF Handling, Serving
    <3>2. MR'[t] = None
      BY <1>1, <3>1 DEF MR
    <3> QED BY <1>1, <2>1, <2>2, <2>5, <3>2, RunningElsewhere DEF Doing
  <2> QED BY <2>4, <2>5
<1> QED BY <1>1, <1>3, <1>6, <1>7, <1>8, <1>9

\* A worker begins a message, ends it, or loses what it holds.
LEMMA WorkerImplements ==
  ASSUME IInv, IInv', NEW g \in Gens, WorkerStep(g) \/ Panic(g)
  PROVE  [Mailbox!Next]_(Mailbox!vars)
<1>0. PICK t : t = worker[g].scope
  OBVIOUS
<1> DEFINE v == worker[g]
<1>1. v \in Worker /\ Fits(v) /\ (v.stage \in {"took", "handling"} <=> v.hand # None)
  BY FieldsOf DEF Fits
<1>2. ASSUME NEW w, Moves(g, w), Ahead(w) = Ahead(v), Doing(w) = Doing(v)
      PROVE  [Mailbox!Next]_(Mailbox!vars)
  <2>1. /\ MA' = MA
        /\ v.stage \in Serving => MR[t] = Doing(v) /\ MR' = [MR EXCEPT ![t] = Doing(w)]
        /\ v.stage \in Serving /\ entry[t].gen = g => MQ[t] = Ahead(v) /\ MQ' = [MQ EXCEPT ![t] = Ahead(w)]
        /\ entry[t].gen # g \/ v.stage \notin Serving => MQ' = MQ
        /\ v.stage \notin Serving => MR' = MR
    BY <1>0, <1>2, MovesSeen
  <2>2. MQ' = MQ /\ MR' = MR
    <3>1. MR' = MR
      BY <1>2, <2>1 DEF MR
    <3>2. MQ' = MQ
      BY <1>2, <2>1 DEF MQ
    <3> QED BY <3>1, <3>2
  <2> QED BY <2>1, <2>2, StutterIs
<1>3. ASSUME Receive(g) PROVE [Mailbox!Next]_(Mailbox!vars)
  <2>1. v.rx # <<>> /\ v.stage = "receive"
    BY <1>3 DEF Receive
  <2>2. Took(g).stage = "took" /\ Ahead(Took(g)) = Ahead(v)
    BY <2>1, TookFits
  <2> QED BY <1>2, <1>3, <2>1, <2>2, ReceiveMoves DEF Doing
<1>4. ASSUME NEW stage, Moves(g, At(g, stage)), stage # "took", stage # "handling",
             v.stage # "took", v.stage # "handling"
      PROVE  [Mailbox!Next]_(Mailbox!vars)
  <2> DEFINE w == At(g, stage)
  <2>1. w \in Worker /\ Fits(w) /\ w.stage = stage /\ w.rx = v.rx
    BY <1>1, <1>4 DEF Moves, At, Worker
  <2> HIDE DEF w
  <2>2. Ahead(w) = Ahead(v) /\ Doing(w) = Doing(v)
    BY <1>1, <1>4, <2>1, AheadIs DEF Doing
  <2> QED BY <1>2, <1>4, <2>2 DEF w
<1>5. ASSUME IdleTimeout(g) \/ AskToRetire(g) \/ ReleaseSlot(g) \/ ReportExited(g)
      PROVE  [Mailbox!Next]_(Mailbox!vars)
  <2>1. CASE IdleTimeout(g)
    BY <1>4, <2>1, StagingMoves DEF IdleTimeout
  <2>2. CASE AskToRetire(g)
    BY <1>4, <2>2, StagingMoves DEF AskToRetire
  <2>3. CASE ReleaseSlot(g)
    BY <1>4, <2>3, StagingMoves DEF ReleaseSlot
  <2>4. CASE ReportExited(g)
    BY <1>4, <2>4, StagingMoves DEF ReportExited
  <2> QED BY <1>5, <2>1, <2>2, <2>3, <2>4
<1>6. ASSUME ReportDequeued(g) PROVE [Mailbox!Next]_(Mailbox!vars)
  <2> DEFINE w == At(g, "handling")
  <2>1. Moves(g, w)
    BY <1>6, StagingMoves
  <2>2. /\ w \in Worker /\ Fits(w) /\ w.stage = "handling" /\ w.rx = v.rx /\ w.hand = v.hand
        /\ v.stage = "took" /\ v.stage \in Serving
    BY <1>1, <1>6, <2>1 DEF Moves, At, Worker, ReportDequeued, Serving
  <2> HIDE DEF w
  <2>3. /\ Ahead(w) = Tail(Ahead(v)) /\ Doing(w) = Head(Ahead(v)) /\ Ahead(v) # <<>>
        /\ Doing(v) = None
    BY <1>1, <2>2, AheadIs DEF Doing
  <2>4. entry[t].gen = g
    BY <1>0, <1>6, <2>2 DEF ReportDequeued, Room, IInv, ServersFit
  <2>5. /\ t \in Scopes /\ MA' = MA /\ MQ[t] = Ahead(v) /\ MR[t] = Doing(v)
        /\ MQ' = [MQ EXCEPT ![t] = Ahead(w)] /\ MR' = [MR EXCEPT ![t] = Doing(w)]
    BY <1>0, <2>1, <2>2, <2>4, MovesSeen
  <2>6. MQ' = [MQ EXCEPT ![t] = Tail(@)] /\ MR' = [MR EXCEPT ![t] = Head(MQ[t])]
    BY <2>3, <2>5
  <2> QED BY <2>3, <2>5, <2>6, BeginIs
<1>7. ASSUME FinishHandling(g) PROVE [Mailbox!Next]_(Mailbox!vars)
  <2> DEFINE w == Free(g)
  <2>1. Moves(g, w) /\ v.stage = "handling" /\ v.stage \in Serving
    BY <1>7, FinishMoves DEF FinishHandling, Serving
  <2>2. /\ w \in Worker /\ Fits(w) /\ w.stage = "receive" /\ w.rx = v.rx /\ w.hand = None
    BY <2>1, FreeFits
  <2> HIDE DEF w
  <2>3. Ahead(w) = Ahead(v) /\ Doing(w) = None /\ Doing(v) # None
    BY <1>1, <2>1, <2>2, AheadIs DEF Doing
  <2>4. /\ t \in Scopes /\ MA' = MA /\ MR[t] = Doing(v) /\ MR' = [MR EXCEPT ![t] = Doing(w)]
        /\ entry[t].gen = g => MQ[t] = Ahead(v) /\ MQ' = [MQ EXCEPT ![t] = Ahead(w)]
        /\ entry[t].gen # g => MQ' = MQ
    BY <1>0, <2>1, MovesSeen
  <2>5. MQ' = MQ
    BY <2>3, <2>4 DEF MQ
  <2> QED BY <2>3, <2>4, <2>5, EndIs
<1>8. ASSUME Cancelled(g) \/ Panic(g) PROVE [Mailbox!Next]_(Mailbox!vars)
  <2> DEFINE w == Ended(g)
  <2>1. Moves(g, w) /\ v.stage \in Serving
    BY <1>8, EndMoves DEF Cancelled, Panic, Serving
  <2>2. w \in Worker /\ Fits(w) /\ w.stage = "ended" /\ w.rx = <<>>
    BY <2>1, EndedFits
  <2> HIDE DEF w
  <2>3. Ahead(w) = <<>> /\ Doing(w) = None
    BY <2>2, AheadIs DEF Doing
  <2>4. /\ t \in Scopes /\ MA' = MA /\ MR' = [MR EXCEPT ![t] = Doing(w)]
        /\ entry[t].gen = g => MQ' = [MQ EXCEPT ![t] = Ahead(w)]
        /\ entry[t].gen # g => MQ' = MQ
    BY <1>0, <2>1, MovesSeen
  <2>5. \A s \in Scopes : MQ'[s] \in {MQ[s], <<>>} /\ MR'[s] \in {MR[s], None}
    BY <2>3, <2>4, MappedTypes
  <2> QED BY <2>4, <2>5, LosingIs
<1> QED BY <1>3, <1>5, <1>6, <1>7, <1>8 DEF WorkerStep

-----------------------------------------------------------------------------
(* What the mailbox sees of the actor's steps. *)

\* A queue that grows by one message, and no other queue that changes.
LEMMA JoinsSeen ==
  ASSUME IInv, IInv', NEW m \in Messages, NEW s, s = ScopeOf[m],
         \A t \in Scopes : t # s => Left(t)' = Left(t),
         Left(s)' = Append(Left(s), m)
  PROVE  MQ' = [MQ EXCEPT ![ScopeOf[m]] = Append(@, m)]
<1>1. s \in Scopes
  BY ConstTypes
<1>2. \A t \in Scopes : MQ'[t] = IF t = s THEN Append(MQ[s], m) ELSE MQ[t]
  BY <1>1, QueuesAfter
<1> QED BY <1>1, <1>2, QueuesAfter

LEMMA SendsImplements ==
  ASSUME IInv, IInv', NEW m \in Messages, NEW g, Sends(m, g), MA[m] = "none"
  PROVE  Mailbox!Next
<1>0. PICK s \in Scopes : s = ScopeOf[m]
  BY ConstTypes
<1> DEFINE v == worker[g]
           w == Longer(g, m)
<1>1. /\ entry[s] \in Entry /\ EntryFits(s, entry[s]) /\ entry[s].gen = g /\ entry[s].state = "active"
      /\ v.stage \in Serving /\ Len(v.rx) < Capacity
  BY <1>0, EntryOf DEF Sends
<1>2. g \in Gens /\ g # 0 /\ v.scope = s
  BY <1>1, GensType DEF EntryFits
<1>3. /\ w \in Worker /\ Fits(w) /\ w.stage = v.stage /\ w.scope = v.scope /\ w.hand = v.hand
      /\ Ahead(w) = Append(Ahead(v), m)
  BY <1>1, <1>2, LongerFits
<1>4. /\ worker' = [worker EXCEPT ![g] = w] /\ worker \in [Gens -> Worker]
      /\ entry' = [entry EXCEPT ![s].queued = @ + 1] /\ entry \in [Scopes -> Entry]
      /\ fate' = [fate EXCEPT ![m] = "accepted"] /\ fate[m] = "sent" /\ fate \in [Messages -> Fates]
  BY <1>0, <1>1, <1>2 DEF Sends, Longer, IInv, Types
<1> HIDE DEF w
<1>5. /\ worker'[g] = w /\ \A h \in Gens : h # g => worker'[h] = worker[h]
      /\ \A t \in Scopes : entry'[t].gen = entry[t].gen /\ entry'[t].backlog = entry[t].backlog
  <2>1. \A t \in Scopes : entry'[t].gen = entry[t].gen /\ entry'[t].backlog = entry[t].backlog
    BY <1>1, <1>4 DEF Entry
  <2> QED BY <1>2, <1>4, <2>1
<1>6. MR' = MR
  BY <1>3, <1>5, RunningKept
<1>7. MA' = [MA EXCEPT ![m] = "accepted"]
  BY <1>4 DEF MA
<1>8. Left(s)' = Append(Left(s), m)
  BY <1>1, <1>2, <1>3, <1>5 DEF Left
<1>9. ASSUME NEW t \in Scopes, t # s PROVE Left(t)' = Left(t)
  <2>1. entry[t].gen \in {0} \cup Gens /\ entry[t].gen # g
    BY <1>2, <1>9, EntryOf
  <2> QED BY <1>5, <2>1 DEF Left
<1> QED BY <1>0, <1>6, <1>7, <1>8, <1>9, JoinsSeen, AcceptIs

LEMMA BacklogImplements ==
  ASSUME IInv, IInv', NEW m \in Messages, EnqueueRetiring(m), fate[m] = "sent", MA[m] = "none"
  PROVE  Mailbox!Next
<1>0. PICK s \in Scopes : s = ScopeOf[m]
  BY ConstTypes
<1>1. /\ entry[s] \in Entry /\ EntryFits(s, entry[s]) /\ entry[s].state = "retiring"
      /\ entry[s].gen # 0
  BY <1>0, EntryOf DEF EnqueueRetiring
<1>2. worker[entry[s].gen].stage \notin Serving
  BY <1>1 DEF EntryFits
<1>3. /\ entry' = [entry EXCEPT ![s].backlog = Append(@, m)] /\ entry \in [Scopes -> Entry]
      /\ worker' = worker
      /\ fate' = [fate EXCEPT ![m] = "accepted"] /\ fate \in [Messages -> Fates]
  BY <1>0 DEF EnqueueRetiring, IInv, Types
<1>4. /\ entry'[s].gen = entry[s].gen /\ entry'[s].backlog = Append(entry[s].backlog, m)
      /\ \A t \in Scopes : t # s => entry'[t] = entry[t]
  BY <1>1, <1>3 DEF Entry
<1>5. MR' = MR
  BY <1>3, RunningKept
<1>6. MA' = [MA EXCEPT ![m] = "accepted"]
  BY <1>3 DEF MA
<1>7. Left(s)' = Append(Left(s), m)
  BY <1>1, <1>2, <1>3, <1>4 DEF Left
<1>8. \A t \in Scopes : t # s => Left(t)' = Left(t)
  BY <1>3, <1>4 DEF Left
<1> QED BY <1>0, <1>5, <1>6, <1>7, <1>8, JoinsSeen, AcceptIs

\* A newborn worker has, for the mailbox, what was given to it.
LEMMA SpawnsSeen ==
  ASSUME IInv, IInv', NEW s \in Scopes, NEW q \in Seq(Messages), Len(q) <= Capacity, Spawns(s, q)
  PROVE  /\ Left(s)' = q /\ MR' = MR
         /\ \A t \in Scopes : t # s => Left(t)' = Left(t)
<1>0. PICK g : g = NextGen
  OBVIOUS
<1> DEFINE w == NewWorker(s, q)
           f == Active(g, Len(q))
<1>1. g \in Gens /\ g # 0 /\ worker[g] = Unborn
  <2> DEFINE W == Waiting'
  <2>1. W \subseteq Waiting /\ W # Waiting
    BY DEF Spawns
  <2> HIDE DEF W
  <2> QED BY <1>0, <2>1, NextGenIs
<1>2. w.stage = "receive" /\ Ahead(w) = q
  BY NewWorkerFits
<1>3. f.gen = g
  BY DEF Active
<1>4. /\ worker' = [worker EXCEPT ![g] = w] /\ entry' = [entry EXCEPT ![s] = f]
      /\ worker \in [Gens -> Worker] /\ entry \in [Scopes -> Entry]
  BY <1>0 DEF Spawns, IInv, Types
<1> HIDE DEF w, f
<1>5. /\ worker'[g] = w /\ \A h \in Gens : h # g => worker'[h] = worker[h]
      /\ entry'[s] = f /\ \A t \in Scopes : t # s => entry'[t] = entry[t]
      /\ worker[g].stage = "unborn" /\ worker[g].scope = None
  BY <1>1, <1>4, UnbornFits
<1>6. MR' = MR
  BY <1>2, <1>5, RunningKept
<1>7. Left(s)' = q
  <2>1. Left(s)' = Ahead(worker'[g])
    BY <1>1, <1>2, <1>3, <1>5 DEF Left, Serving
  <2> QED BY <1>2, <1>5, <2>1
<1>8. ASSUME NEW t \in Scopes, t # s PROVE Left(t)' = Left(t)
  <2>1. entry[t].gen \in {0} \cup Gens /\ entry[t].gen # g
    BY <1>1, <1>5, EntryOf, ConstTypes
  <2> QED BY <1>5, <1>8, <2>1 DEF Left
<1> QED BY <1>6, <1>7, <1>8

LEMMA EnqueueImplements ==
  ASSUME IInv, IInv', HandleEnqueue
  PROVE  Mailbox!Next
<1>1. PICK m : m = Head(channel).msg
  OBVIOUS
<1> DEFINE s == ScopeOf[m]
<1>2. /\ m \in Messages /\ Head(channel) = Enqueue(m) /\ fate[m] = "sent" /\ m \in Waiting
      /\ m \notin Taken /\ s \in Scopes /\ ~stopped /\ channel # <<>>
      /\ channel' = Tail(channel) /\ Head(channel).kind = "enqueue"
      /\ UNCHANGED <<panics, shutdown, stopped>> /\ fate \in [Messages -> Fates]
  BY <1>1, EnqueueHead DEF HandleEnqueue, IInv, Types
<1>3. MA[m] = "none"
  BY <1>2 DEF MA
<1>4. ASSUME NEW how \in {"refused", "unavailable"}, fate' = [fate EXCEPT ![m] = how],
             UNCHANGED <<entry, worker>>
      PROVE  Mailbox!Next
  <2>1. MQ' = MQ /\ MR' = MR
    BY <1>4, SeenAlone
  <2>2. MA' = [MA EXCEPT ![m] = "refused"]
    BY <1>2, <1>4 DEF MA
  <2> QED BY <1>2, <1>3, <2>1, <2>2, RefuseIs
<1>5. ASSUME Reject(m), UNCHANGED <<entry, worker>> PROVE Mailbox!Next
  <2>1. PICK how \in {"refused", "unavailable"} : fate' = [fate EXCEPT ![m] = how]
    BY <1>5 DEF Reject
  <2> QED BY <1>4, <1>5, <2>1
<1>6. CASE EnqueueAfterShutdown(m)
  BY <1>4, <1>6 DEF EnqueueAfterShutdown
<1>7. CASE EnqueueFull(m)
  BY <1>5, <1>7 DEF EnqueueFull
<1>8. CASE EnqueueActive(m)
  <2>1. PICK g : g = entry[s].gen
    OBVIOUS
  <2>2. CASE worker[g].stage \in Serving /\ Len(worker[g].rx) < Capacity
    <3>1. Len(worker[g].rx) \in Nat
      <4>1. g \in Gens
        BY <1>2, <1>8, <2>1, EntryOf DEF EnqueueActive, EntryFits
      <4> QED BY <4>1, FieldsOf
    <3>2. ~(Len(worker[g].rx) >= Capacity)
      BY <2>2, <3>1, ConstTypes
    <3>3. Sends(m, g)
      BY <1>2, <1>8, <2>1, <2>2, <3>2 DEF EnqueueActive, Sends
    <3> QED BY <1>2, <1>3, <3>3, SendsImplements
  <2>3. CASE ~(worker[g].stage \in Serving /\ Len(worker[g].rx) < Capacity)
    <3>1. fate' = [fate EXCEPT ![m] = "unavailable"] /\ UNCHANGED <<worker, entry>>
      BY <1>8, <2>1, <2>3 DEF EnqueueActive
    <3> QED BY <1>4, <3>1
  <2> QED BY <2>2, <2>3
<1>9. CASE EnqueueRetiring(m)
  BY <1>2, <1>3, <1>9, BacklogImplements
<1>10. CASE EnqueueNew(m)
  <2>1. CASE slots = 0
    BY <1>5, <1>10, <2>1 DEF EnqueueNew
  <2>2. CASE slots # 0
    <3> DEFINE q == <<m>>
    <3>1. q \in Seq(Messages) /\ Len(q) <= Capacity /\ q = Append(<<>>, m)
      BY <1>2, ConstTypes
    <3>2. Spawns(s, q) /\ entry[s] = NoEntry /\ fate' = [fate EXCEPT ![m] = "accepted"]
      BY <1>2, <1>10, <2>2, NewSpawns DEF EnqueueNew
    <3> HIDE DEF q
    <3>3. Left(s)' = q /\ MR' = MR /\ \A t \in Scopes : t # s => Left(t)' = Left(t)
      BY <1>2, <3>1, <3>2, SpawnsSeen
    <3>4. Left(s) = <<>>
      BY <3>2, NoEntryFits DEF Left
    <3>5. MA' = [MA EXCEPT ![m] = "accepted"]
      BY <1>2, <3>2 DEF MA
    <3>6. MQ' = [MQ EXCEPT ![ScopeOf[m]] = Append(@, m)]
      <4>1. PICK t : t = s
        OBVIOUS
      <4>2. Left(t)' = Append(Left(t), m)
        BY <3>1, <3>3, <3>4, <4>1
      <4> QED BY <1>2, <3>3, <4>1, <4>2, JoinsSeen
    <3> QED BY <1>2, <1>3, <3>3, <3>5, <3>6, AcceptIs
  <2> QED BY <2>1, <2>2
<1> QED BY <1>1, <1>6, <1>7, <1>8, <1>9, <1>10 DEF HandleEnqueue

LEMMA IdleImplements ==
  ASSUME IInv, IInv', HandleIdleExpired
  PROVE  [Mailbox!Next]_(Mailbox!vars)
<1>1. PICK g \in Gens : /\ g = Head(channel).gen /\ Head(channel) = IdleExpired(g)
                        /\ worker[g].stage = "asking" /\ worker[g].scope \in Scopes
  BY CommandHead DEF HandleIdleExpired
<1>2. PICK s \in Scopes : s = worker[g].scope
  BY <1>1
<1> DEFINE v == worker[g]
<1>3. /\ worker \in [Gens -> Worker] /\ entry \in [Scopes -> Entry] /\ v \in Worker /\ Fits(v)
      /\ ~stopped
  BY <1>1, FieldsOf DEF IInv, Types, HandleIdleExpired, Command
<1>4. CASE StaysActive(g)
  <2>1. /\ worker' = [worker EXCEPT ![g] = At(g, "receive")] /\ UNCHANGED <<entry, fate>>
    BY <1>1, <1>3, <1>4 DEF HandleIdleExpired, At
  <2> DEFINE w == At(g, "receive")
  <2>2. w \in Worker /\ w.stage = "receive" /\ w.rx = v.rx /\ w.scope = v.scope /\ w.hand = v.hand
    BY <1>3 DEF At, Worker, Stages, Serving
  <2> HIDE DEF w
  <2>3. worker'[g] = w /\ \A h \in Gens : h # g => worker'[h] = worker[h]
    BY <1>3, <2>1 DEF w
  <2>4. Fits(w)
    BY <2>3 DEF IInv, WorkersFit
  <2>5. Ahead(w) = Ahead(v)
    BY <1>1, <1>3, <2>2, <2>4, AheadIs
  <2>6. MR' = MR
    BY <1>1, <2>2, <2>3, RunningKept
  <2>7. ASSUME NEW t \in Scopes PROVE Left(t)' = Left(t)
    <3>1. entry[t].gen \in {0} \cup Gens
      BY EntryOf
    <3>2. CASE entry[t].gen = g
      BY <1>1, <2>1, <2>2, <2>3, <2>5, <3>2 DEF Left, Serving
    <3>3. CASE entry[t].gen # g
      BY <2>1, <2>3, <3>1, <3>3 DEF Left
    <3> QED BY <3>2, <3>3
  <2>8. MQ' = MQ
    BY <2>7, QueuesAfter
  <2>9. MA' = MA
    BY <2>1 DEF MA
  <2> QED BY <2>6, <2>8, <2>9, StutterIs
<1>5. CASE ~StaysActive(g)
  <2>1. /\ entry[s].gen = g /\ g # 0 /\ entry[s].backlog = <<>> /\ entry[s] # NoEntry
        /\ v.rx = <<>> /\ v.hand = None
    BY <1>1, <1>2, <1>3, <1>5, NothingLeft
  <2>2. fate' = fate
    BY <1>1, <1>5, RetireIInv
  <2>3. /\ worker' = [worker EXCEPT ![g].stage = "ended", ![g].rx = <<>>]
        /\ entry' = [entry EXCEPT ![s].state = "retiring"]
    BY <1>1, <1>2, <1>5, <2>1 DEF HandleIdleExpired
  <2>4. /\ worker'[g].stage = "ended" /\ \A h \in Gens : h # g => worker'[h] = worker[h]
        /\ \A t \in Scopes : entry'[t].gen = entry[t].gen /\ entry'[t].backlog = entry[t].backlog
    BY <1>3, <2>3 DEF Worker, Entry
  <2>5. MR' = MR
    BY <1>1, <2>4, RunningKept
  <2>6. Left(s) = <<>> /\ Left(s)' = <<>>
    <3>1. Ahead(v) = <<>>
      BY <1>1, <1>3, <2>1, AheadIs
    <3> QED BY <1>1, <2>1, <2>4, <3>1 DEF Left, Serving
  <2>7. ASSUME NEW t \in Scopes, t # s PROVE Left(t)' = Left(t)
    <3>1. entry[t].gen \in {0} \cup Gens /\ entry[t].gen # g
      BY <1>2, <2>1, <2>7, EntryOf
    <3> QED BY <2>4, <3>1 DEF Left
  <2>8. MQ' = MQ
    BY <2>6, <2>7, QueuesAfter
  <2>9. MA' = MA
    BY <2>2 DEF MA
  <2> QED BY <2>5, <2>8, <2>9, StutterIs
<1> QED BY <1>4, <1>5

LEMMA DequeuedImplements ==
  ASSUME IInv, IInv', HandleDequeued
  PROVE  UNCHANGED Mailbox!vars
<1>1. /\ entry \in [Scopes -> Entry] /\ UNCHANGED <<worker, fate>>
      /\ \E s \in Scopes : \/ entry' = [entry EXCEPT ![s].queued = @ - 1]
                           \/ entry' = entry
  <2>1. PICK g \in Gens : g = Head(channel).gen /\ worker[g].scope \in Scopes
    BY CommandHead DEF HandleDequeued
  <2> QED BY <2>1 DEF HandleDequeued, IInv, Types
<1>2. \A t \in Scopes : entry'[t].gen = entry[t].gen /\ entry'[t].backlog = entry[t].backlog
  BY <1>1 DEF Entry
<1>3. MA' = MA
  BY <1>1 DEF MA
<1> QED BY <1>1, <1>2, <1>3, SeenAlone, StutterIs

LEMMA ForgetsImplements ==
  ASSUME IInv, IInv', NEW s \in Scopes, NEW how, Forgets(s, how)
  PROVE  Mailbox!Next
<1>1. /\ entry \in [Scopes -> Entry] /\ fate \in [Messages -> Fates] /\ UNCHANGED worker
      /\ entry[s].backlog \in Seq(Messages) /\ EntryFits(s, entry[s]) /\ how \in {"evicted", "lost"}
  BY EntryOf, EntryType DEF Forgets, IInv, Types
<1>2. ToSet(entry[s].backlog) \subseteq Taken
  BY <1>1, MembersAre DEF EntryFits
<1>3. MA' = MA
  <2>1. \A m \in Messages : fate'[m] = fate[m] \/ (m \in Taken /\ fate'[m] = how)
    BY <1>1, <1>2 DEF Forgets, Dropped
  <2> QED BY <1>1, <2>1, AnswersKept DEF Taken
<1>4. MR' = MR
  BY <1>1, RunningKept
<1>5. entry'[s].gen = 0 /\ \A t \in Scopes : t # s => entry'[t] = entry[t]
  BY <1>1, NoEntryFits DEF Forgets
<1>6. Left(s)' = <<>> /\ \A t \in Scopes : t # s => Left(t)' = Left(t)
  BY <1>1, <1>5 DEF Left
<1>7. \A t \in Scopes : MQ'[t] \in {MQ[t], <<>>} /\ MR'[t] \in {MR[t], None}
  BY <1>4, <1>6, QueuesAfter
<1> QED BY <1>3, <1>7, LosingIs

LEMMA ExitedImplements ==
  ASSUME IInv, IInv', HandleExited
  PROVE  [Mailbox!Next]_(Mailbox!vars)
<1>1. PICK g \in Gens : /\ g = Head(channel).gen /\ Head(channel) = Exited(g)
                        /\ worker[g].stage = "gone" /\ worker[g].scope \in Scopes
  BY CommandHead DEF HandleExited
<1>2. PICK s \in Scopes : s = worker[g].scope
  BY <1>1
<1> DEFINE q == entry[s].backlog
<1>3. /\ channel # <<>> /\ channel' = Tail(channel) /\ ~stopped /\ Head(channel).kind = "exited"
      /\ UNCHANGED <<panics, shutdown, stopped>>
      /\ IF entry[s].gen = g THEN ForgetScope(s) \/ Succeed(s) \/ EvictBacklog(s)
         ELSE UNCHANGED <<entry, worker, slots, cooling, notices, fate>>
  BY <1>1, <1>2 DEF HandleExited, Command
<1>4. CASE entry[s].gen # g
  <2>1. UNCHANGED <<entry, worker, fate>>
    BY <1>3, <1>4
  <2>2. MQ' = MQ /\ MR' = MR /\ MA' = MA
    BY <2>1, SeenAlone DEF MA
  <2> QED BY <2>2, StutterIs
<1>5. CASE entry[s].gen = g
  <2>1. /\ g # 0 /\ q \in Seq(Messages)
        /\ notices \in Seq(Messages) /\ Len(notices) <= NoticeRoom /\ cooling \subseteq Groups
    BY GensType, EntryOf, EntryType DEF IInv, Types
  <2>2. CASE ForgetScope(s)
    <3>1. Forgets(s, "lost")
      BY <1>1, <1>3, <1>5, <2>1, <2>2 DEF ForgetScope, Forgets
    <3> QED BY <3>1, ForgetsImplements
  <2>3. CASE EvictBacklog(s)
    <3>1. notices' \in Seq(Messages) /\ Len(notices') <= NoticeRoom /\ cooling' \subseteq Groups
      BY <2>1, <2>3, NotifyFits DEF EvictBacklog
    <3>2. Forgets(s, "evicted")
      BY <1>1, <1>3, <1>5, <2>1, <2>3, <3>1 DEF EvictBacklog, Forgets
    <3> QED BY <3>2, ForgetsImplements
  <2>4. CASE Succeed(s)
    <3>1. Spawns(s, q) /\ Len(q) <= Capacity
      BY <1>1, <1>3, <1>5, <2>4, SucceedSpawns
    <3>2. Left(s)' = q /\ MR' = MR /\ \A t \in Scopes : t # s => Left(t)' = Left(t)
      BY <2>1, <3>1, SpawnsSeen
    <3>3. Left(s) = q
      BY <1>1, <1>5, <2>1 DEF Left, Serving
    <3>4. MQ' = MQ
      BY <3>2, <3>3, QueuesAfter
    <3>5. MA' = MA
      BY <2>4 DEF Succeed, MA
    <3> QED BY <3>2, <3>4, <3>5, StutterIs
  <2> QED BY <1>3, <1>5, <2>2, <2>3, <2>4
<1> QED BY <1>4, <1>5

LEMMA SendImplements ==
  ASSUME IInv, IInv', NEW m \in Messages, Send(m)
  PROVE  [Mailbox!Next]_(Mailbox!vars)
<1>1. /\ fate[m] = "new" /\ fate \in [Messages -> Fates] /\ MA[m] = "none"
      /\ UNCHANGED <<entry, worker>>
  BY DEF Send, IInv, Types, MA
<1>2. MQ' = MQ /\ MR' = MR
  BY <1>1, SeenAlone
<1>3. CASE fate' = [fate EXCEPT ![m] = "sent"]
  <2>1. MA' = MA
    BY <1>1, <1>3 DEF MA
  <2> QED BY <1>2, <2>1, StutterIs
<1>4. CASE fate' = [fate EXCEPT ![m] = "unavailable"]
  <2>1. MA' = [MA EXCEPT ![m] = "refused"]
    BY <1>1, <1>4 DEF MA
  <2> QED BY <1>1, <1>2, <2>1, RefuseIs
<1> QED BY <1>3, <1>4 DEF Send

LEMMA StopImplements ==
  ASSUME IInv, IInv', Stop
  PROVE  Mailbox!Next
<1>1. /\ fate \in [Messages -> Fates] /\ UNCHANGED worker
      /\ \A s \in Scopes : entry'[s] = NoEntry
  BY DEF Stop, IInv, Types
<1>2. \A m \in Messages : ToSet(entry[ScopeOf[m]].backlog) \subseteq Taken
  <2> SUFFICES ASSUME NEW m \in Messages PROVE ToSet(entry[ScopeOf[m]].backlog) \subseteq Taken
    OBVIOUS
  <2>1. ScopeOf[m] \in Scopes
    BY ConstTypes
  <2>2. entry[ScopeOf[m]].backlog \in Seq(Messages) /\ EntryFits(ScopeOf[m], entry[ScopeOf[m]])
    BY <2>1, EntryOf, EntryType
  <2> QED BY <2>2, MembersAre DEF EntryFits
<1>3. \A m \in Messages : MA'[m] = MA[m] \/ (MA[m] = "none" /\ MA'[m] = "refused")
  <2>1. \A m \in Messages : \/ fate[m] = "sent" /\ fate'[m] = "unavailable"
                            \/ m \in Taken /\ fate'[m] = "lost"
                            \/ fate'[m] = fate[m]
    BY <1>2 DEF Stop
  <2> QED BY <2>1 DEF MA, Taken
<1>4. MR' = MR
  BY <1>1, RunningKept
<1>5. \A s \in Scopes : Left(s)' = <<>>
  BY <1>1, NoEntryFits DEF Left
<1>6. \A s \in Scopes : MQ'[s] \in {MQ[s], <<>>} /\ MR'[s] \in {MR[s], None}
  BY <1>4, <1>5, QueuesAfter
<1> QED BY <1>3, <1>6, LosingIs

\* The actor and its workers keep the mailbox's promise: whatever the order of
\* idle timeouts, arrivals, exits, successions, panics and a shutdown, the
\* messages of a scope are begun in the order they were accepted, one at a time
\* and each at most once, and a refused one never (ConversationDispatcher's
\* actor and run_conversation_worker).
THEOREM OrderIsKept == Spec => KeepsOrder
<1>1. Init => Mailbox!Init
  <2> SUFFICES ASSUME Init PROVE Mailbox!Init
    OBVIOUS
  <2>1. IInv
    BY InitIInv
  <2>2. \A s \in Scopes : entry[s].gen = 0
    BY NoEntryFits DEF Init
  <2>3. MQ = [s \in Scopes |-> <<>>]
    BY <2>1, <2>2, QueueIs DEF Left
  <2>4. \A g \in Gens : worker[g].stage \notin Serving
    BY UnbornFits, StagesDiffer DEF Init
  <2>5. MR = [s \in Scopes |-> None]
    <3>1. \A s \in Scopes : MR[s] = None
      BY <2>1, <2>4, RunningIs
    <3> QED BY <3>1 DEF MR
  <2>6. MA = [m \in Messages |-> "none"]
    BY DEF Init, MA
  <2> QED BY <2>3, <2>5, <2>6 DEF MQ, MR, MA, Mailbox!Init
<1>2. IInv /\ IInv' /\ [Next]_vars => [Mailbox!Next]_(Mailbox!vars)
  <2> SUFFICES ASSUME IInv, IInv', [Next]_vars PROVE [Mailbox!Next]_(Mailbox!vars)
    OBVIOUS
  <2>1. ASSUME NEW m \in Messages, Send(m) PROVE [Mailbox!Next]_(Mailbox!vars)
    BY <2>1, SendImplements
  <2>2. CASE Actor
    BY <2>2, EnqueueImplements, IdleImplements, DequeuedImplements, ExitedImplements DEF Actor
  <2>3. ASSUME NEW g \in Gens, WorkerStep(g) \/ Panic(g) PROVE [Mailbox!Next]_(Mailbox!vars)
    BY <2>3, WorkerImplements
  <2>4. CASE Stop
    BY <2>4, StopImplements
  <2>5. ASSUME UNCHANGED <<entry, worker, fate>> PROVE [Mailbox!Next]_(Mailbox!vars)
    <3>1. MA' = MA
      BY <2>5 DEF MA
    <3> QED BY <2>5, <3>1, SeenAlone, StutterIs
  <2>6. CASE SendNotice \/ (\E s \in Scopes : CooldownOver(s)) \/ Shutdown \/ UNCHANGED vars
    BY <2>5, <2>6 DEF SendNotice, CooldownOver, Shutdown, vars
  <2> QED BY <2>1, <2>2, <2>3, <2>4, <2>6 DEF Next
<1> QED BY <1>1, <1>2, Invariance, PTL DEF Spec, KeepsOrder, Mailbox!Spec
=============================================================================

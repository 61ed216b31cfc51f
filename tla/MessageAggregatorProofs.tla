----------------------- MODULE MessageAggregatorProofs -----------------------
(***************************************************************************)
(* Proofs about MessageAggregator, for any messages, users and keys and any *)
(* limits.                                                                 *)
(***************************************************************************)
EXTENDS MessageAggregator, FiniteSetTheorems, SequenceTheorems,
        WellFoundedInduction, TLAPS

-----------------------------------------------------------------------------
(* The inductive invariant. *)

\* The stages at which a message of the loop is in hand.
Handling == {"decide", "flush", "barrier", "plain", "hold"}
Busy == [stage : {"idle", "seal"} \cup Handling, user : Users \cup {None},
         msg : Messages \cup {None}, then : {"idle", "barrier", "plain", "hold"}]
Batch == [msgs : Seq(Messages), chars : Nat, gen : Nat, quiet : Nat, hard : Nat]
Pending == [msg : Messages, resolved : BOOLEAN]
Commands == {C2c(m) : m \in Messages} \cup {Timer(u, g) : u \in Users, g \in 2 .. MaxMessages + 1}
            \cup {Close}
Sleepers == [user : Users, gen : 2 .. MaxMessages + 1, left : 0 .. MaxWait]
Marks == {Dedupe!Free, Dedupe!Committed} \cup {Dedupe!Reserved(m) : m \in Messages}
Fates == {"new", "sent", "held", "handed", "duplicate", "cancelled", "repeated", "refused",
          "dropped"}

Types ==
  /\ inbox \in Seq(Commands)
  /\ busy \in Busy
  /\ batch \in [Users -> Batch]
  /\ barrier \in [Users -> Seq(Pending)]
  /\ acks \subseteq Messages
  /\ timers \subseteq Sleepers
  /\ seen \in [Keys -> Marks]
  /\ queue \in [Users -> Seq(Messages)]
  /\ running \in [Users -> Messages \cup {None}]
  /\ answer \in [Messages -> {"none", "accepted", "refused"}]
  /\ fate \in [Messages -> Fates]
  /\ arrived \in Seq(Messages)
  /\ handed \in [Users -> Seq(Messages)]
  /\ closing \in {"no", "asked", "drain", "flush", "stopped"}

\* What the actor has in hand at each stage.
BusyFits ==
  /\ busy.stage = "idle" => busy = Idle
  /\ busy.stage # "idle" => busy.user \in Users
  /\ busy.stage \in Handling =>
       busy.msg \in Messages /\ UserOf[busy.msg] = busy.user /\ fate[busy.msg] = "sent"
  /\ busy.stage = "seal" =>
       Open(busy.user) /\ (busy.msg # None => UserOf[busy.msg] = busy.user /\ fate[busy.msg] = "held")
  /\ busy.stage = "flush" => busy.then \in {"barrier", "plain", "hold"}
  /\ busy.stage \in {"barrier", "plain"} => ~Open(busy.user)

\* A message that is to join a batch finds room in it, or for one, and no barrier.
RoomFits ==
  /\ busy.stage = "hold" \/ (busy.stage = "flush" /\ busy.then = "hold") =>
       barrier[busy.user] = <<>> /\ SizeOf[busy.msg] <= MaxChars
  /\ busy.stage = "flush" /\ busy.then = "hold" => Open(busy.user)
  /\ busy.stage = "hold" => ~Overflows(busy.user, busy.msg) /\ ~TooManyActive(busy.user)

\* A batch within its limits, and of the generation its length says.
BatchFits(b) ==
  /\ Len(b.msgs) <= MaxMessages /\ b.chars <= MaxChars
  /\ b.quiet <= Quiet /\ b.hard <= MaxWait
  /\ b.msgs = <<>> => b = NoBatch
  /\ b.msgs # <<>> => b.gen = Len(b.msgs) + 1

Ripe(u) == busy.stage = "seal" /\ busy.user = u

BatchesFit ==
  /\ \A u \in Users :
       /\ BatchFits(batch[u])
       /\ Open(u) /\ ~Ripe(u) => ~AtLimit(batch[u])
       /\ barrier[u] # <<>> => ~Open(u)
  /\ IsFiniteSet(OpenUsers) /\ Cardinality(OpenUsers) <= MaxActive

\* A batch holds the held messages of its user.
HeldFits ==
  /\ \A u \in Users : \A i \in 1 .. Len(batch[u].msgs) :
       fate[batch[u].msgs[i]] = "held" /\ UserOf[batch[u].msgs[i]] = u
  /\ \A m \in Messages : fate[m] = "held" => m \in Held(UserOf[m])

\* The loop waits for its answer: one message is on its way, the last that arrived.
FlightFits ==
  /\ \A i \in 1 .. Len(inbox) : inbox[i].kind = "c2c" => fate[inbox[i].msg] = "sent"
  /\ \A i, j \in 1 .. Len(inbox) : inbox[i].kind = "c2c" /\ inbox[j].kind = "c2c" => i = j
  /\ \A i \in 1 .. Len(inbox) : inbox[i].kind = "c2c" => busy.stage \notin Handling
  /\ \A m \in Messages : fate[m] = "sent" =>
       /\ (busy.stage \in Handling /\ busy.msg = m) \/ \E i \in 1 .. Len(inbox) : inbox[i] = C2c(m)
       /\ closing = "no" /\ arrived # <<>> /\ arrived[Len(arrived)] = m

\* A held message, and the one in hand, has all of its keys reserved, and nobody
\* else has any; the keys of what was handed on or cancelled are committed.
Keeps(m) == fate[m] = "held" \/ (busy.stage \in Handling /\ busy.msg = m)
Owns(m) == Keeps(m) \/ fate[m] \in {"handed", "cancelled"}

KeysFit ==
  /\ \A m \in Messages, k \in Keys :
       /\ k \in KeysOf[m] /\ Keeps(m) => seen[k] = Dedupe!Reserved(m)
       /\ seen[k] = Dedupe!Reserved(m) => k \in KeysOf[m] /\ Keeps(m)
       /\ k \in KeysOf[m] /\ fate[m] \in {"handed", "cancelled"} => seen[k] = Dedupe!Committed
  /\ \A m, n \in Messages : m # n /\ Owns(m) /\ Owns(n) => KeysOf[m] \cap KeysOf[n] = {}

\* What was handed on for a user and what is in the batch, in the order of arrival.
Line(u) == handed[u] \o batch[u].msgs
InOrder(q) == \A i, j \in 1 .. Len(q) : i < j => Position(q[i]) < Position(q[j])

OrderFits ==
  /\ \A i, j \in 1 .. Len(arrived) : arrived[i] = arrived[j] => i = j
  /\ \A i \in 1 .. Len(arrived) : fate[arrived[i]] # "new"
  /\ \A m \in Messages : fate[m] # "new" => \E i \in 1 .. Len(arrived) : arrived[i] = m
  /\ \A u \in Users : \A i \in 1 .. Len(handed[u]) : fate[handed[u][i]] = "handed"
  /\ \A u \in Users : InOrder(Line(u))

\* The dispatcher has each turn once, begun or not.
Unended(m) == \E u \in Users : running[u] = m \/ \E i \in 1 .. Len(queue[u]) : queue[u][i] = m

TurnsFit ==
  \A u \in Users :
    /\ running[u] # None => UserOf[running[u]] = u /\ answer[running[u]] = "accepted"
    /\ \A i \in 1 .. Len(queue[u]) :
         /\ UserOf[queue[u][i]] = u /\ answer[queue[u][i]] = "accepted"
         /\ queue[u][i] # running[u]
         /\ \A j \in 1 .. Len(queue[u]) : queue[u][i] = queue[u][j] => i = j

\* A barrier is of a command that was accepted, one for each; an acknowledgement
\* is of a barrier that is not resolved yet, and comes once, after the turn.
BarrierFits(u, i) ==
  LET b == barrier[u][i]
  IN  /\ UserOf[b.msg] = u /\ answer[b.msg] = "accepted"
      /\ \A j \in 1 .. Len(barrier[u]) : barrier[u][j].msg = b.msg => i = j
      /\ b.resolved => ~Unended(b.msg)

AckFits(m) ==
  /\ ~Unended(m)
  /\ \E i \in 1 .. Len(barrier[UserOf[m]]) :
       barrier[UserOf[m]][i] = [msg |-> m, resolved |-> FALSE]

BarriersFit ==
  /\ \A u \in Users : \A i \in 1 .. Len(barrier[u]) : BarrierFits(u, i)
  /\ \A m \in acks : AckFits(m)

\* How far the shutdown is.
ClosingFits ==
  /\ (\E i \in 1 .. Len(inbox) : inbox[i] = Close) => closing # "no"
  /\ closing \in {"flush", "stopped"} => inbox = <<>>
  /\ closing = "stopped" => /\ busy = Idle /\ timers = {} /\ acks = {}
                            /\ \A u \in Users : ~Open(u) /\ barrier[u] = <<>>
  /\ closing \in {"no", "asked"} => \A m \in Messages : fate[m] # "dropped"

IInv ==
  /\ Types
  /\ BusyFits
  /\ RoomFits
  /\ BatchesFit
  /\ HeldFits
  /\ FlightFits
  /\ KeysFit
  /\ OrderFits
  /\ TurnsFit
  /\ BarriersFit
  /\ ClosingFits
  /\ OpenBatchIsTimed

-----------------------------------------------------------------------------
(* Facts about the model's operators. *)

LEMMA ConstTypes ==
  /\ UserOf \in [Messages -> Users]
  /\ KeysOf \in [Messages -> SUBSET Keys]
  /\ SizeOf \in [Messages -> Nat]
  /\ Cancels \subseteq Messages
  /\ MaxMessages \in Nat /\ MaxMessages > 0 /\ MaxChars \in Nat /\ MaxChars > 0
  /\ MaxActive \in Nat /\ MaxActive > 0 /\ Quiet \in Nat /\ Quiet > 0
  /\ MaxWait \in Nat /\ Quiet <= MaxWait
  /\ None \notin Messages /\ None \notin Users
  BY AggregatorAssumption DEF AggregatorAssumption

LEMMA MarksDiffer ==
  /\ Dedupe!Free # Dedupe!Committed
  /\ \A m \in Messages : Dedupe!Reserved(m) \notin {Dedupe!Free, Dedupe!Committed}
  /\ \A m, n \in Messages : Dedupe!Reserved(m) = Dedupe!Reserved(n) => m = n
  BY DEF Dedupe!Free, Dedupe!Committed, Dedupe!Reserved

LEMMA CommandFields ==
  /\ \A m : C2c(m).kind = "c2c" /\ C2c(m).msg = m
  /\ \A u, g : Timer(u, g).kind = "timer" /\ Timer(u, g).user = u /\ Timer(u, g).gen = g
  /\ Close.kind = "shutdown"
  /\ \A m, n : C2c(m) = C2c(n) => m = n
  BY DEF C2c, Timer, Close

LEMMA CommandCases ==
  ASSUME NEW c \in Commands
  PROVE  /\ c.kind = "c2c" => c.msg \in Messages /\ c = C2c(c.msg)
         /\ c.kind = "timer" => /\ c.user \in Users /\ c.gen \in 2 .. MaxMessages + 1
                                /\ c = Timer(c.user, c.gen)
         /\ c.kind = "shutdown" => c = Close
  BY CommandFields DEF Commands

LEMMA IdleType ==
  /\ Idle \in Busy /\ Idle.stage = "idle" /\ Idle.msg = None /\ Idle.user = None
  /\ Idle.stage \notin Handling
  BY DEF Idle, Busy, Handling

LEMMA BusyType ==
  ASSUME Types
  PROVE  /\ busy \in Busy
         /\ busy.stage \in {"idle", "seal"} \cup Handling
         /\ busy.user \in Users \cup {None} /\ busy.msg \in Messages \cup {None}
         /\ busy.then \in {"idle", "barrier", "plain", "hold"}
  BY DEF Types, Busy

LEMMA BatchType ==
  ASSUME Types, NEW u \in Users
  PROVE  /\ batch[u] \in Batch /\ batch[u].msgs \in Seq(Messages) /\ Len(batch[u].msgs) \in Nat
         /\ batch[u].chars \in Nat /\ batch[u].gen \in Nat /\ batch[u].quiet \in Nat
         /\ batch[u].hard \in Nat
         /\ \A i \in 1 .. Len(batch[u].msgs) : batch[u].msgs[i] \in Messages
<1>1. batch[u] \in Batch
  BY DEF Types
<1> QED BY <1>1, ElementOfSeq, LenProperties DEF Batch

LEMMA NoBatchFits == NoBatch \in Batch /\ BatchFits(NoBatch) /\ NoBatch.msgs = <<>>
  BY ConstTypes DEF NoBatch, Batch, BatchFits

LEMMA MembersAre ==
  ASSUME NEW q \in Seq(Messages)
  PROVE  \A m : m \in ToSet(q) <=> \E i \in 1 .. Len(q) : q[i] = m
  BY LenProperties DEF ToSet

LEMMA OpenIs == \A u \in Users : Open(u) <=> u \in OpenUsers
  BY DEF OpenUsers

LEMMA LastIs ==
  ASSUME NEW q \in Seq(Messages), q # <<>>
  PROVE  /\ Last(q) \in Messages /\ Len(q) \in Nat /\ Len(q) > 0
         /\ \E i \in 1 .. Len(q) : q[i] = Last(q)
<1>1. Len(q) \in Nat /\ Len(q) > 0
  BY EmptySeq, LenProperties
<1>2. Len(q) \in 1 .. Len(q)
  BY <1>1
<1> QED BY <1>1, <1>2, ElementOfSeq DEF Last

\* The commands a step leaves in the channel, or adds to it.
LEMMA AddedCommand ==
  ASSUME NEW q \in Seq(Commands), NEW c \in Commands
  PROVE  /\ Append(q, c) \in Seq(Commands) /\ Len(Append(q, c)) = Len(q) + 1 /\ Len(q) \in Nat
         /\ Append(q, c)[Len(q) + 1] = c
         /\ \A i \in 1 .. Len(q) : Append(q, c)[i] = q[i]
  BY AppendProperties, LenProperties

LEMMA TakenCommand ==
  ASSUME NEW q \in Seq(Commands), q # <<>>
  PROVE  /\ Tail(q) \in Seq(Commands) /\ Head(q) \in Commands
         /\ Len(q) \in Nat /\ Len(q) > 0 /\ Len(Tail(q)) = Len(q) - 1 /\ Head(q) = q[1]
         /\ \A i \in 1 .. Len(Tail(q)) : Tail(q)[i] = q[i + 1]
         /\ \A c : c # Head(q) /\ (\E i \in 1 .. Len(q) : q[i] = c) =>
                     \E i \in 1 .. Len(Tail(q)) : Tail(q)[i] = c
<1>1. /\ Tail(q) \in Seq(Commands) /\ Head(q) \in Commands /\ Head(q) = q[1]
      /\ Len(q) \in Nat /\ Len(q) > 0 /\ Len(Tail(q)) = Len(q) - 1
      /\ \A i \in 1 .. Len(Tail(q)) : Tail(q)[i] = q[i + 1]
  BY HeadTailProperties, EmptySeq, LenProperties
<1>2. ASSUME NEW c, c # Head(q), NEW i \in 1 .. Len(q), q[i] = c
      PROVE  \E j \in 1 .. Len(Tail(q)) : Tail(q)[j] = c
  <2>1. i # 1 /\ i - 1 \in 1 .. Len(Tail(q)) /\ (i - 1) + 1 = i
    BY <1>1, <1>2
  <2> QED BY <1>1, <1>2, <2>1
<1> QED BY <1>1, <1>2

-----------------------------------------------------------------------------
(* Keys. *)

LEMMA KeysKept ==
  ASSUME IInv, UNCHANGED seen,
         \A m \in Messages : /\ Keeps(m)' <=> Keeps(m)
                             /\ fate'[m] \in {"handed", "cancelled"}
                                  <=> fate[m] \in {"handed", "cancelled"}
  PROVE  KeysFit'
  BY DEF IInv, KeysFit, Owns

\* The messages S, which had their keys, are done with them.
LEMMA SettledKeys ==
  ASSUME IInv, NEW S \in SUBSET Messages, \A m \in S : Keeps(m),
         \A m \in S : ~Keeps(m)',
         \A m \in Messages \ S : (Keeps(m)' <=> Keeps(m)) /\ fate'[m] = fate[m],
         \/ seen' = [k \in Keys |-> IF k \in Dedupe!HeldBy(S) THEN Dedupe!Committed ELSE seen[k]]
         \/ /\ seen' = [k \in Keys |-> IF k \in Dedupe!HeldBy(S) THEN Dedupe!Free ELSE seen[k]]
            /\ \A m \in S : fate'[m] \notin {"handed", "cancelled"}
  PROVE  KeysFit' /\ seen' \in [Keys -> Marks]
<1>1. KeysFit /\ seen \in [Keys -> Marks]
  BY DEF IInv, Types
<1>2. seen' \in [Keys -> Marks]
  BY <1>1 DEF Marks
<1>3. \A k \in Keys : k \in Dedupe!HeldBy(S) <=> \E m \in S : seen[k] = Dedupe!Reserved(m)
  BY DEF Dedupe!HeldBy
<1>4. \A m \in S : \A k \in Keys : k \in KeysOf[m] <=> seen[k] = Dedupe!Reserved(m)
  BY <1>1 DEF KeysFit
<1>5. ASSUME NEW m \in Messages, NEW k \in Keys, k \in KeysOf[m], Keeps(m)'
      PROVE  seen'[k] = Dedupe!Reserved(m)
  <2>1. m \notin S /\ Keeps(m) /\ seen[k] = Dedupe!Reserved(m)
    BY <1>1, <1>5 DEF KeysFit
  <2>2. k \notin Dedupe!HeldBy(S)
    BY <1>3, <2>1, MarksDiffer
  <2> QED BY <2>1, <2>2
<1>6. ASSUME NEW m \in Messages, NEW k \in Keys, seen'[k] = Dedupe!Reserved(m)
      PROVE  k \in KeysOf[m] /\ Keeps(m)'
  <2>1. k \notin Dedupe!HeldBy(S) /\ seen[k] = Dedupe!Reserved(m)
    BY <1>6, MarksDiffer
  <2>2. m \notin S /\ k \in KeysOf[m] /\ Keeps(m)
    BY <1>1, <1>3, <2>1 DEF KeysFit
  <2> QED BY <2>2
<1>7. ASSUME NEW m \in Messages, NEW k \in Keys, k \in KeysOf[m], fate'[m] \in {"handed", "cancelled"}
      PROVE  seen'[k] = Dedupe!Committed
  <2>1. CASE m \in S
    BY <1>3, <1>4, <1>7, <2>1
  <2>2. CASE m \notin S
    <3>1. seen[k] = Dedupe!Committed
      BY <1>1, <1>7, <2>2 DEF KeysFit
    <3>2. k \notin Dedupe!HeldBy(S)
      BY <1>3, <3>1, MarksDiffer
    <3> QED BY <3>1, <3>2
  <2> QED BY <2>1, <2>2
<1>8. \A m \in Messages : Owns(m)' => Owns(m)
  BY DEF Owns
<1>9. \A m, n \in Messages : m # n /\ Owns(m)' /\ Owns(n)' => KeysOf[m] \cap KeysOf[n] = {}
  BY <1>1, <1>8 DEF KeysFit
<1> QED BY <1>2, <1>5, <1>6, <1>7, <1>9 DEF KeysFit

\* A message whose keys are free reserves them.
LEMMA ReservedKeys ==
  ASSUME IInv, NEW m \in Messages, ~Owns(m), Keeps(m)', UNCHANGED fate,
         Dedupe!Reserve(m, KeysOf[m]),
         \A n \in Messages \ {m} : Keeps(n)' <=> Keeps(n)
  PROVE  KeysFit' /\ seen' \in [Keys -> Marks]
<1>1. KeysFit /\ seen \in [Keys -> Marks]
  BY DEF IInv, Types
<1>2. KeysOf[m] \subseteq Keys
  BY ConstTypes
<1>3. /\ \A k \in KeysOf[m] : seen[k] = Dedupe!Free
      /\ seen' = [k \in Keys |-> IF k \in KeysOf[m] THEN Dedupe!Reserved(m) ELSE seen[k]]
  BY DEF Dedupe!Reserve, Dedupe!Seen
<1>4. seen' \in [Keys -> Marks]
  BY <1>1, <1>3 DEF Marks
<1>5. \A k \in Keys, n \in Messages : seen'[k] = Dedupe!Reserved(n) =>
        (n = m /\ k \in KeysOf[m]) \/ (n # m /\ seen[k] = Dedupe!Reserved(n))
  <2> SUFFICES ASSUME NEW k \in Keys, NEW n \in Messages, seen'[k] = Dedupe!Reserved(n)
               PROVE  (n = m /\ k \in KeysOf[m]) \/ (n # m /\ seen[k] = Dedupe!Reserved(n))
    OBVIOUS
  <2>1. CASE k \in KeysOf[m]
    BY <1>3, <2>1, MarksDiffer
  <2>2. CASE k \notin KeysOf[m]
    BY <1>1, <1>3, <2>2 DEF KeysFit, Owns
  <2> QED BY <2>1, <2>2
<1>6. \A n \in Messages, k \in Keys : n # m /\ k \in KeysOf[n] /\ Owns(n) => k \notin KeysOf[m]
  BY <1>1, <1>3, MarksDiffer DEF KeysFit, Owns
<1>7. \A n \in Messages, k \in Keys : k \in KeysOf[n] /\ Keeps(n)' => seen'[k] = Dedupe!Reserved(n)
  <2> SUFFICES ASSUME NEW n \in Messages, NEW k \in Keys, k \in KeysOf[n], Keeps(n)'
               PROVE  seen'[k] = Dedupe!Reserved(n)
    OBVIOUS
  <2>1. CASE n = m
    BY <1>3, <2>1
  <2>2. CASE n # m
    BY <1>1, <1>3, <1>6, <2>2 DEF KeysFit, Owns
  <2> QED BY <2>1, <2>2
<1>8. \A n \in Messages, k \in Keys : seen'[k] = Dedupe!Reserved(n) => k \in KeysOf[n] /\ Keeps(n)'
  BY <1>1, <1>5 DEF KeysFit
<1>9. \A n \in Messages, k \in Keys :
        k \in KeysOf[n] /\ fate'[n] \in {"handed", "cancelled"} => seen'[k] = Dedupe!Committed
  BY <1>1, <1>3, <1>6 DEF KeysFit, Owns
<1>10. \A n \in Messages : n # m /\ Owns(n)' => Owns(n)
  BY DEF Owns
<1>11. \A n \in Messages : n # m /\ Owns(n) => KeysOf[n] \cap KeysOf[m] = {}
  BY <1>6, ConstTypes
<1>12. \A n, o \in Messages : n # o /\ Owns(n)' /\ Owns(o)' => KeysOf[n] \cap KeysOf[o] = {}
  BY <1>1, <1>10, <1>11 DEF KeysFit
<1> QED BY <1>4, <1>7, <1>8, <1>9, <1>12 DEF KeysFit

-----------------------------------------------------------------------------
(* Positions. *)

LEMMA PositionIs ==
  ASSUME Types, \A i, j \in 1 .. Len(arrived) : arrived[i] = arrived[j] => i = j,
         NEW i \in 1 .. Len(arrived)
  PROVE  Position(arrived[i]) = i
<1>1. DOMAIN arrived = 1 .. Len(arrived)
  BY LenProperties DEF Types
<1> QED BY <1>1 DEF Position

\* A message on its way arrived after all that are in a line.
LEMMA LastArrived ==
  ASSUME IInv, NEW m \in Messages, fate[m] = "sent",
         NEW n \in Messages, fate[n] \notin {"new", "sent"}
  PROVE  Position(n) < Position(m)
<1>1. PICK i \in 1 .. Len(arrived) : arrived[i] = n
  BY DEF IInv, OrderFits
<1>2. Len(arrived) \in Nat /\ arrived[Len(arrived)] = m
  BY LenProperties DEF IInv, FlightFits, Types
<1>3. Len(arrived) \in 1 .. Len(arrived)
  BY <1>1, <1>2
<1>4. Position(n) = i /\ Position(m) = Len(arrived)
  BY <1>1, <1>2, <1>3, PositionIs DEF IInv, OrderFits
<1>5. i # Len(arrived)
  BY <1>1, <1>2
<1> QED BY <1>1, <1>2, <1>4, <1>5

LEMMA JoinedIs ==
  ASSUME NEW q \in Seq(Messages), NEW r \in Seq(Messages)
  PROVE  /\ q \o r \in Seq(Messages) /\ Len(q) \in Nat /\ Len(r) \in Nat
         /\ Len(q \o r) = Len(q) + Len(r)
         /\ \A i \in 1 .. Len(q) : (q \o r)[i] = q[i]
         /\ \A i \in 1 .. Len(q \o r) : \/ i \in 1 .. Len(q) /\ (q \o r)[i] = q[i]
                                        \/ \E j \in 1 .. Len(r) : (q \o r)[i] = r[j]
<1> DEFINE t == q \o r
           a == Len(q)
           b == Len(r)
<1>1. a \in Nat /\ b \in Nat
  BY LenProperties
<1>2. /\ t \in Seq(Messages) /\ Len(t) = a + b
      /\ \A i \in 1 .. a + b : t[i] = IF i <= a THEN q[i] ELSE r[i - a]
  BY <1>1, ConcatProperties
<1> HIDE DEF t, a, b
<1>3. ASSUME NEW i \in 1 .. a PROVE t[i] = q[i]
  BY <1>1, <1>2
<1>4. ASSUME NEW i \in 1 .. Len(t)
      PROVE  (i \in 1 .. a /\ t[i] = q[i]) \/ \E j \in 1 .. b : t[i] = r[j]
  <2>1. i \in 1 .. a + b
    BY <1>2
  <2>2. CASE i <= a
    BY <1>1, <1>3, <2>1, <2>2
  <2>3. CASE ~(i <= a)
    <3>1. i - a \in 1 .. b
      BY <1>1, <2>1, <2>3
    <3>2. t[i] = r[i - a]
      BY <1>2, <2>1, <2>3
    <3> QED BY <3>1, <3>2
  <2> QED BY <2>2, <2>3
<1> QED BY <1>1, <1>2, <1>3, <1>4 DEF t, a, b

LEMMA LineType ==
  ASSUME Types, NEW u \in Users
  PROVE  handed[u] \in Seq(Messages) /\ batch[u].msgs \in Seq(Messages) /\ Line(u) \in Seq(Messages)
  BY BatchType, JoinedIs DEF Types, Line

LEMMA LineFates ==
  ASSUME IInv, NEW u \in Users, NEW i \in 1 .. Len(Line(u))
  PROVE  Line(u)[i] \in Messages /\ fate[Line(u)[i]] \in {"held", "handed"}
<1>1. handed[u] \in Seq(Messages) /\ batch[u].msgs \in Seq(Messages)
  BY LineType DEF IInv
<1>2. CASE i \in 1 .. Len(handed[u]) /\ Line(u)[i] = handed[u][i]
  BY <1>1, <1>2, ElementOfSeq DEF IInv, OrderFits
<1>3. CASE \E j \in 1 .. Len(batch[u].msgs) : Line(u)[i] = batch[u].msgs[j]
  BY <1>1, <1>3, ElementOfSeq DEF IInv, HeldFits
<1> QED BY <1>1, <1>2, <1>3, JoinedIs DEF Line

\* A part of the line from its beginning, and a line that a later one joins.
LEMMA PartInOrder ==
  ASSUME NEW q, NEW r, Len(q) \in Nat, Len(r) \in Nat, InOrder(q), Len(r) <= Len(q),
         \A i \in 1 .. Len(r) : r[i] = q[i]
  PROVE  InOrder(r)
  BY DEF InOrder

LEMMA JoinedInOrder ==
  ASSUME NEW q, NEW r, NEW m, Len(q) \in Nat, InOrder(q), Len(r) = Len(q) + 1,
         \A i \in 1 .. Len(q) : r[i] = q[i] /\ Position(q[i]) < Position(m),
         r[Len(q) + 1] = m
  PROVE  InOrder(r)
  BY DEF InOrder

-----------------------------------------------------------------------------
(* The dispatcher and the barriers. *)

\* Every set of naturals that is not empty has a least member.
LEMMA LeastNumber ==
  ASSUME NEW T, T \subseteq Nat, T # {}
  PROVE  \E n \in T : \A m \in T : n <= m
<1>1. IsWellFoundedOn(OpToRel(<, Nat), Nat)
  BY NatLessThanWellFounded
<1>2. PICK n \in T : \A m \in T : ~(<<m, n>> \in OpToRel(<, Nat))
  BY <1>1, WFMin, Zenon
<1>3. \A m \in T : ~(m < n)
  BY <1>2 DEF OpToRel
<1>4. ASSUME NEW m \in T PROVE n <= m
  <2>1. ~(m < n) /\ m \in Nat /\ n \in Nat
    BY <1>3
  <2> QED BY <2>1
<1> QED BY <1>4

\* A set of positions that has all before each of its own is a first part.
LEMMA FirstPart ==
  ASSUME NEW L \in Nat, NEW P \in SUBSET (1 .. L), \A i \in P : \A j \in 1 .. i : j \in P
  PROVE  Cardinality(P) \in 0 .. L /\ P = 1 .. Cardinality(P)
<1> DEFINE Out == {i \in 1 .. L + 1 : i \notin P}
<1>1. L + 1 \in Out /\ Out \subseteq Nat
  OBVIOUS
<1>2. PICK n \in Out : \A m \in Out : n <= m
  BY <1>1, LeastNumber
<1>3. n \in 1 .. L + 1 /\ n \notin P
  BY <1>2
<1>4. ASSUME NEW i \in P PROVE i \in 1 .. n - 1
  <2>1. i \in 1 .. L /\ ~(n \in 1 .. i)
    BY <1>3
  <2> QED BY <1>3, <2>1
<1>5. ASSUME NEW i \in 1 .. n - 1 PROVE i \in P
  <2>1. i \in 1 .. L + 1 /\ ~(n <= i)
    BY <1>3
  <2> QED BY <1>2, <2>1
<1>6. P = 1 .. n - 1
  BY <1>4, <1>5
<1>7. Cardinality(1 .. n - 1) = n - 1
  <2>1. 1 \in Int /\ n - 1 \in Int /\ n - 1 >= 0
    BY <1>3
  <2> QED BY <2>1, FS_Interval
<1> QED BY <1>3, <1>6, <1>7

\* What is left of the barriers of a user when the commands D are done: all but
\* a first part, of which every one is resolved.
LEMMA ReleasedIs ==
  ASSUME Types, NEW D, NEW u \in Users
  PROVE  LET q == barrier[u]
             r == Released(D)[u]
         IN  /\ r \in Seq(Pending) /\ Len(q) \in Nat /\ Len(r) \in Nat
             /\ \E n \in 0 .. Len(q) :
                  /\ Len(r) = Len(q) - n
                  /\ \A i \in 1 .. Len(r) : i + n \in 1 .. Len(q) /\ r[i] = Marked(u, D)[i + n]
                  /\ \A i \in 1 .. Len(q) : \/ Marked(u, D)[i].resolved
                                            \/ \E j \in 1 .. Len(r) : r[j] = Marked(u, D)[i]
<1> DEFINE q == barrier[u]
           t == Marked(u, D)
           P == {i \in DOMAIN t : \A j \in 1 .. i : t[j].resolved}
           n == Cardinality(P)
           r == SubSeq(t, 1 + n, Len(t))
<1>1. q \in Seq(Pending) /\ Len(q) \in Nat /\ DOMAIN q = 1 .. Len(q)
  BY LenProperties DEF Types
<1>2. \A i \in 1 .. Len(q) : t[i] \in Pending
  <2>1. \A i \in 1 .. Len(q) : q[i] \in Pending
    BY <1>1, ElementOfSeq
  <2> QED BY <1>1, <2>1 DEF Marked, Pending
<1>3. t \in [1 .. Len(q) -> Pending]
  BY <1>1, <1>2 DEF Marked
<1>4. t \in Seq(Pending) /\ Len(t) = Len(q) /\ DOMAIN t = 1 .. Len(q)
  BY <1>1, <1>3, SeqDef, LenProperties
<1>5. Released(D)[u] = r
  BY <1>4 DEF Released
<1> HIDE DEF t
<1>6. n \in 0 .. Len(q) /\ P = 1 .. n
  <2>1. P \in SUBSET (1 .. Len(q)) /\ \A i \in P : \A j \in 1 .. i : j \in P
    BY <1>1, <1>4
  <2> HIDE DEF P
  <2> QED BY <1>1, <2>1, FirstPart
<1>7. \A i \in 1 .. n : t[i].resolved
  BY <1>1, <1>6
<1> HIDE DEF P, n
<1>8. /\ r \in Seq(Pending) /\ Len(r) = Len(q) - n
      /\ \A i \in 1 .. Len(q) - n : r[i] = t[i + n]
  <2>1. 1 + n \in Int /\ Len(q) \in Int /\ \A i \in (1 + n) .. Len(q) : t[i] \in Pending
    BY <1>1, <1>2, <1>6 DEF t
  <2>2. /\ r \in Seq(Pending)
        /\ Len(r) = IF 1 + n <= Len(q) THEN Len(q) - (1 + n) + 1 ELSE 0
        /\ \A i \in 1 .. Len(q) - (1 + n) + 1 : r[i] = t[(1 + n) + i - 1]
    BY <1>4, <2>1, SubSeqProperties
  <2>3. Len(q) - (1 + n) + 1 = Len(q) - n /\ \A i \in Int : (1 + n) + i - 1 = i + n
    BY <1>1, <1>6
  <2> HIDE DEF r
  <2>4. \A i \in 1 .. Len(q) - n : (1 + n) + i - 1 = i + n
    BY <1>1, <1>6
  <2> QED BY <1>1, <1>6, <2>2, <2>3, <2>4
<1> HIDE DEF r
<1>9. \A i \in 1 .. Len(r) : i + n \in 1 .. Len(q) /\ r[i] = t[i + n]
  BY <1>1, <1>6, <1>8
<1>10. ASSUME NEW i \in 1 .. Len(q), ~t[i].resolved
       PROVE  \E j \in 1 .. Len(r) : r[j] = t[i]
  <2>1. i - n \in 1 .. Len(r) /\ (i - n) + n = i
    BY <1>1, <1>6, <1>7, <1>8, <1>10
  <2> QED BY <1>8, <2>1
<1>11. Len(r) \in Nat
  BY <1>1, <1>6, <1>8
<1> QED BY <1>1, <1>5, <1>6, <1>8, <1>9, <1>10, <1>11 DEF t

LEMMA MarkedIs ==
  ASSUME Types, NEW D, NEW u \in Users, NEW i \in 1 .. Len(barrier[u])
  PROVE  /\ barrier[u][i] \in Pending
         /\ Marked(u, D)[i].msg = barrier[u][i].msg
         /\ Marked(u, D)[i].resolved <=> barrier[u][i].resolved \/ barrier[u][i].msg \in D
         /\ barrier[u][i].resolved \/ barrier[u][i].msg \notin D => Marked(u, D)[i] = barrier[u][i]
<1>1. barrier[u] \in Seq(Pending) /\ DOMAIN barrier[u] = 1 .. Len(barrier[u])
  BY LenProperties DEF Types
<1>2. barrier[u][i] \in Pending
  BY <1>1, ElementOfSeq
<1>3. Marked(u, D)[i] = [barrier[u][i] EXCEPT !.resolved = @ \/ barrier[u][i].msg \in D]
  BY <1>1 DEF Marked
<1>4. Marked(u, D)[i] = [msg |-> barrier[u][i].msg,
                         resolved |-> barrier[u][i].resolved \/ barrier[u][i].msg \in D]
  BY <1>2, <1>3 DEF Pending
<1>5. barrier[u][i] = [msg |-> barrier[u][i].msg, resolved |-> barrier[u][i].resolved]
  BY <1>2 DEF Pending
<1>6. barrier[u][i].resolved \in BOOLEAN
  BY <1>2 DEF Pending
<1>7. barrier[u][i].resolved \/ barrier[u][i].msg \notin D =>
        (barrier[u][i].resolved \/ barrier[u][i].msg \in D) = barrier[u][i].resolved
  BY <1>6
<1>8. /\ Marked(u, D)[i].msg = barrier[u][i].msg
      /\ Marked(u, D)[i].resolved = (barrier[u][i].resolved \/ barrier[u][i].msg \in D)
  <2> DEFINE v == barrier[u][i].resolved \/ barrier[u][i].msg \in D
  <2>1. Marked(u, D)[i] = [msg |-> barrier[u][i].msg, resolved |-> v]
    BY <1>4
  <2> HIDE DEF v
  <2>2. Marked(u, D)[i].msg = barrier[u][i].msg /\ Marked(u, D)[i].resolved = v
    BY <2>1
  <2> QED BY <2>2 DEF v
<1>9. barrier[u][i].resolved \/ barrier[u][i].msg \notin D => Marked(u, D)[i] = barrier[u][i]
  BY <1>4, <1>5, <1>7, Zenon
<1> QED BY <1>2, <1>8, <1>9

LEMMA ReleasedFits ==
  ASSUME IInv, NEW D \in SUBSET acks, acks' = acks \ D, barrier' = Released(D),
         UNCHANGED <<queue, running, answer>>
  PROVE  /\ BarriersFit' /\ barrier' \in [Users -> Seq(Pending)] /\ acks' \subseteq Messages
         /\ \A u \in Users : barrier[u] = <<>> => barrier'[u] = <<>>
<1>1. Types /\ BarriersFit
  BY DEF IInv
<1>2. acks' \subseteq Messages /\ \A m : Unended(m)' <=> Unended(m)
  BY <1>1 DEF Types, Unended
<1>3. barrier' \in [Users -> Seq(Pending)]
  <2>1. \A u \in Users : Released(D)[u] \in Seq(Pending)
    BY <1>1, ReleasedIs
  <2>2. barrier' = [u \in Users |-> barrier'[u]]
    BY DEF Released
  <2> QED BY <2>1, <2>2
<1>4. ASSUME NEW u \in Users, barrier[u] = <<>> PROVE barrier'[u] = <<>>
  <2>1. Len(barrier[u]) = 0
    BY <1>4
  <2>2. Len(barrier'[u]) = 0 /\ barrier'[u] \in Seq(Pending)
    BY <1>1, <2>1, ReleasedIs
  <2> QED BY <2>2, EmptySeq
<1>5. ASSUME NEW u \in Users, NEW i \in 1 .. Len(barrier'[u]) PROVE BarrierFits(u, i)'
  <2> DEFINE q == barrier[u]
             r == barrier'[u]
  <2>1. PICK n \in 0 .. Len(q) :
          \A k \in 1 .. Len(r) : k + n \in 1 .. Len(q) /\ r[k] = Marked(u, D)[k + n]
    BY <1>1, ReleasedIs
  <2>2. \A k \in 1 .. Len(r) :
          /\ k + n \in 1 .. Len(q) /\ BarrierFits(u, k + n) /\ r[k].msg = q[k + n].msg
          /\ r[k].resolved => q[k + n].resolved \/ q[k + n].msg \in D
    <3> SUFFICES ASSUME NEW k \in 1 .. Len(r)
                 PROVE  /\ k + n \in 1 .. Len(q) /\ BarrierFits(u, k + n) /\ r[k].msg = q[k + n].msg
                        /\ r[k].resolved => q[k + n].resolved \/ q[k + n].msg \in D
      OBVIOUS
    <3>1. k + n \in 1 .. Len(q) /\ r[k] = Marked(u, D)[k + n] /\ BarrierFits(u, k + n)
      BY <1>1, <2>1 DEF BarriersFit
    <3> HIDE DEF r
    <3> QED BY <1>1, <3>1, MarkedIs
  <2>3. UserOf[r[i].msg] = u /\ answer'[r[i].msg] = "accepted"
    <3>1. BarrierFits(u, i + n) /\ r[i].msg = q[i + n].msg
      BY <2>2
    <3>2. UserOf[q[i + n].msg] = u /\ answer[q[i + n].msg] = "accepted"
      BY <3>1 DEF BarrierFits
    <3> HIDE DEF r
    <3> QED BY <3>1, <3>2
  <2>4. ASSUME NEW j \in 1 .. Len(r), r[j].msg = r[i].msg PROVE i = j
    <3>1. q[j + n].msg = q[i + n].msg /\ i + n \in 1 .. Len(q) /\ j + n \in 1 .. Len(q)
      BY <2>2, <2>4
    <3>2. i + n = j + n
      BY <2>2, <3>1 DEF BarrierFits
    <3> QED BY <3>2
  <2>5. ASSUME r[i].resolved PROVE ~Unended(r[i].msg)
    <3>1. CASE q[i + n].resolved
      BY <2>2, <3>1 DEF BarrierFits
    <3>2. CASE q[i + n].msg \in D
      BY <1>1, <2>2, <3>2 DEF BarriersFit, AckFits
    <3> QED BY <2>2, <2>5, <3>1, <3>2
  <2>6. \A m : m = r[i].msg /\ r[i].resolved => ~Unended(m)'
    BY <1>2, <2>5
  <2>7. \A j \in 1 .. Len(r) : r[j].msg = r[i].msg => i = j
    BY <2>4
  <2> QED BY <2>3, <2>6, <2>7 DEF BarrierFits, Unended
<1>6. ASSUME NEW m \in acks' PROVE AckFits(m)'
  <2> DEFINE u == UserOf[m]
  <2>1. m \in acks /\ m \notin D /\ u \in Users /\ AckFits(m)
    BY <1>1, ConstTypes DEF Types, BarriersFit
  <2>2. PICK i \in 1 .. Len(barrier[u]) : barrier[u][i] = [msg |-> m, resolved |-> FALSE]
    BY <2>1 DEF AckFits
  <2>3. Marked(u, D)[i] = barrier[u][i] /\ ~Marked(u, D)[i].resolved
    BY <1>1, <2>1, <2>2, MarkedIs
  <2>4. \E j \in 1 .. Len(barrier'[u]) : barrier'[u][j] = Marked(u, D)[i]
    BY <1>1, <2>1, <2>3, ReleasedIs
  <2>5. \E j \in 1 .. Len(barrier'[u]) : barrier'[u][j] = [msg |-> m, resolved |-> FALSE]
    BY <2>2, <2>3, <2>4
  <2>6. ~Unended(m)'
    BY <1>2, <2>1 DEF AckFits
  <2> QED BY <2>5, <2>6 DEF AckFits
<1>7. BarriersFit'
  <2>1. \A u \in Users : \A i \in 1 .. Len(barrier'[u]) : BarrierFits(u, i)'
    BY <1>5
  <2>2. \A m \in acks' : AckFits(m)'
    BY <1>6
  <2> QED BY <2>1, <2>2 DEF BarriersFit
<1> QED BY <1>2, <1>3, <1>4, <1>7

\* A turn that is accepted is new to the dispatcher and goes to the end.
LEMMA AcceptFits ==
  ASSUME IInv, NEW m \in Messages, Dispatcher!Accept(m)
  PROVE  /\ TurnsFit'
         /\ queue' \in [Users -> Seq(Messages)] /\ running' \in [Users -> Messages \cup {None}]
         /\ answer' \in [Messages -> {"none", "accepted", "refused"}]
         /\ answer[m] = "none" /\ answer'[m] = "accepted"
         /\ \A n \in Messages : answer[n] = "accepted" =>
              answer'[n] = "accepted" /\ (Unended(n)' => Unended(n))
<1> DEFINE v == UserOf[m]
<1>1. Types /\ TurnsFit /\ v \in Users
  BY ConstTypes DEF IInv
<1>2. /\ answer[m] = "none" /\ answer' = [answer EXCEPT ![m] = "accepted"]
      /\ queue' = [queue EXCEPT ![v] = Append(@, m)] /\ running' = running
  BY DEF Dispatcher!Accept
<1>3. /\ queue[v] \in Seq(Messages) /\ queue'[v] \in Seq(Messages) /\ Len(queue[v]) \in Nat
      /\ Len(queue'[v]) = Len(queue[v]) + 1 /\ queue'[v][Len(queue[v]) + 1] = m
      /\ \A i \in 1 .. Len(queue[v]) : queue'[v][i] = queue[v][i]
  BY <1>1, <1>2, AppendProperties, LenProperties DEF Types
<1>4. \A u \in Users : u # v => queue'[u] = queue[u]
  BY <1>1, <1>2 DEF Types
<1>5. queue' \in [Users -> Seq(Messages)] /\ running' \in [Users -> Messages \cup {None}]
      /\ answer' \in [Messages -> {"none", "accepted", "refused"}]
  BY <1>1, <1>2, <1>3 DEF Types
<1>6. \A n \in Messages : answer[n] = "accepted" => n # m /\ answer'[n] = "accepted"
  BY <1>1, <1>2 DEF Types
<1>7. \A i \in 1 .. Len(queue'[v]) : i = Len(queue[v]) + 1 \/ i \in 1 .. Len(queue[v])
  BY <1>3
<1>8. ASSUME NEW n \in Messages, answer[n] = "accepted", Unended(n)' PROVE Unended(n)
  <2>1. CASE \E u \in Users : running'[u] = n
    BY <1>2, <2>1 DEF Unended
  <2>2. CASE \E u \in Users : \E i \in 1 .. Len(queue'[u]) : queue'[u][i] = n
    BY <1>3, <1>4, <1>6, <1>7, <1>8, <2>2 DEF Unended
  <2> QED BY <1>8, <2>1, <2>2 DEF Unended
<1>9. answer'[m] = "accepted"
  BY <1>1, <1>2 DEF Types
<1>10. TurnsFit'
  <2> SUFFICES ASSUME NEW u \in Users
               PROVE  /\ running'[u] # None =>
                           UserOf[running'[u]] = u /\ answer'[running'[u]] = "accepted"
                      /\ \A i \in 1 .. Len(queue'[u]) :
                           /\ UserOf[queue'[u][i]] = u /\ answer'[queue'[u][i]] = "accepted"
                           /\ queue'[u][i] # running'[u]
                           /\ \A j \in 1 .. Len(queue'[u]) : queue'[u][i] = queue'[u][j] => i = j
    BY DEF TurnsFit
  <2>1. running[u] \in Messages \cup {None} /\ m # None
    BY <1>1, ConstTypes DEF Types
  <2>2. /\ running'[u] = running[u] /\ running[u] # m
        /\ running[u] # None => UserOf[running[u]] = u /\ answer'[running[u]] = "accepted"
    BY <1>1, <1>2, <1>6, <2>1 DEF TurnsFit
  <2>3. \A i \in 1 .. Len(queue[u]) :
          /\ queue[u][i] \in Messages /\ UserOf[queue[u][i]] = u
          /\ answer[queue[u][i]] = "accepted" /\ queue[u][i] # running[u]
          /\ \A j \in 1 .. Len(queue[u]) : queue[u][i] = queue[u][j] => i = j
    <3>1. queue[u] \in Seq(Messages)
      BY <1>1 DEF Types
    <3> QED BY <1>1, <3>1, ElementOfSeq DEF TurnsFit
  <2>4. CASE u # v
    BY <1>4, <1>6, <2>2, <2>3, <2>4
  <2>5. CASE u = v
    <3>1. \A i \in 1 .. Len(queue'[u]) :
            /\ UserOf[queue'[u][i]] = u /\ answer'[queue'[u][i]] = "accepted"
            /\ queue'[u][i] # running'[u]
      BY <1>3, <1>6, <1>7, <1>9, <2>2, <2>3, <2>5
    <3>2. \A i, j \in 1 .. Len(queue'[u]) : queue'[u][i] = queue'[u][j] => i = j
      BY <1>3, <1>6, <1>7, <2>3, <2>5
    <3> QED BY <2>2, <3>1, <3>2
  <2> QED BY <2>4, <2>5
<1> QED BY <1>2, <1>5, <1>6, <1>8, <1>9, <1>10

LEMMA RefuseFits ==
  ASSUME IInv, NEW m \in Messages, Dispatcher!Refuse(m)
  PROVE  /\ TurnsFit' /\ UNCHANGED <<queue, running>>
         /\ answer' \in [Messages -> {"none", "accepted", "refused"}]
         /\ \A n \in Messages : answer[n] = "accepted" =>
              answer'[n] = "accepted" /\ (Unended(n)' => Unended(n))
<1>1. Types /\ TurnsFit
  BY DEF IInv
<1>2. /\ answer[m] = "none" /\ answer' = [answer EXCEPT ![m] = "refused"]
      /\ UNCHANGED <<queue, running>>
  BY DEF Dispatcher!Refuse
<1>3. answer' \in [Messages -> {"none", "accepted", "refused"}]
  BY <1>1, <1>2 DEF Types
<1>4. \A n : answer[n] = "accepted" /\ n \in Messages => answer'[n] = "accepted"
  BY <1>1, <1>2 DEF Types
<1>5. \A n : Unended(n)' => Unended(n)
  BY <1>2 DEF Unended
<1>6. \A u \in Users : running[u] \in Messages \cup {None}
                       /\ \A i \in 1 .. Len(queue[u]) : queue[u][i] \in Messages
  BY <1>1, ElementOfSeq DEF Types
<1>7. TurnsFit'
  BY <1>1, <1>2, <1>4, <1>6 DEF TurnsFit
<1> QED BY <1>2, <1>3, <1>4, <1>5, <1>7

\* The barriers are what they were, and so is what is left of their turns.
LEMMA BarrierMessages ==
  ASSUME IInv, NEW u \in Users
  PROVE  /\ barrier[u] \in Seq(Pending) /\ Len(barrier[u]) \in Nat
         /\ DOMAIN barrier[u] = 1 .. Len(barrier[u])
         /\ \A i \in 1 .. Len(barrier[u]) :
              barrier[u][i] \in Pending /\ barrier[u][i].msg \in Messages
<1>1. barrier[u] \in Seq(Pending)
  BY DEF IInv, Types
<1>2. \A i \in 1 .. Len(barrier[u]) : barrier[u][i] \in Pending
  BY <1>1, ElementOfSeq
<1>3. Len(barrier[u]) \in Nat /\ DOMAIN barrier[u] = 1 .. Len(barrier[u])
  BY <1>1, LenProperties
<1>4. \A c \in Pending : c.msg \in Messages
  BY DEF Pending
<1> QED BY <1>1, <1>2, <1>3, <1>4

LEMMA AddedBarrier ==
  ASSUME NEW q \in Seq(Pending), NEW c \in Pending
  PROVE  /\ Append(q, c) \in Seq(Pending) /\ Len(Append(q, c)) = Len(q) + 1 /\ Len(q) \in Nat
         /\ Append(q, c)[Len(q) + 1] = c
         /\ \A i \in 1 .. Len(q) : Append(q, c)[i] = q[i]
  BY AppendProperties, LenProperties

LEMMA BarriersKept ==
  ASSUME IInv, UNCHANGED <<barrier, acks>>,
         \A n \in Messages : answer[n] = "accepted" =>
           answer'[n] = "accepted" /\ (Unended(n)' => Unended(n))
  PROVE  BarriersFit'
<1>1. Types /\ BarriersFit
  BY DEF IInv
<1>2. ASSUME NEW u \in Users, NEW i \in 1 .. Len(barrier[u]) PROVE BarrierFits(u, i)'
  <2> DEFINE m == barrier[u][i].msg
  <2>1. BarrierFits(u, i) /\ m \in Messages
    BY <1>1, BarrierMessages DEF BarriersFit
  <2>2. answer'[m] = "accepted" /\ (Unended(m)' => Unended(m))
    BY <2>1 DEF BarrierFits
  <2> QED BY <2>1, <2>2 DEF BarrierFits, Unended
<1>3. ASSUME NEW m \in acks PROVE AckFits(m)'
  <2>1. AckFits(m) /\ m \in Messages /\ UserOf[m] \in Users
    BY <1>1, ConstTypes DEF BarriersFit, Types
  <2>2. PICK i \in 1 .. Len(barrier[UserOf[m]]) :
          barrier[UserOf[m]][i] = [msg |-> m, resolved |-> FALSE]
    BY <2>1 DEF AckFits
  <2>3. answer[m] = "accepted"
    BY <1>1, <2>1, <2>2 DEF BarriersFit, BarrierFits
  <2> QED BY <2>1, <2>3 DEF AckFits
<1>4. barrier' = barrier /\ acks' = acks
  OBVIOUS
<1>5. \A u \in Users : \A i \in 1 .. Len(barrier'[u]) : BarrierFits(u, i)'
  BY <1>2, <1>4
<1>6. \A m \in acks' : AckFits(m)'
  BY <1>3, <1>4
<1> QED BY <1>5, <1>6 DEF BarriersFit

\* A command that was handed on is a barrier of its user.
LEMMA BarrierAdded ==
  ASSUME IInv, NEW m \in Messages, UNCHANGED acks,
         barrier' = [barrier EXCEPT ![UserOf[m]] = Append(@, [msg |-> m, resolved |-> FALSE])],
         answer[m] = "none", answer'[m] = "accepted",
         \A n \in Messages : answer[n] = "accepted" =>
           answer'[n] = "accepted" /\ (Unended(n)' => Unended(n))
  PROVE  BarriersFit' /\ barrier' \in [Users -> Seq(Pending)]
<1> DEFINE v == UserOf[m]
           p == [msg |-> m, resolved |-> FALSE]
<1>1. Types /\ BarriersFit /\ v \in Users
  BY ConstTypes DEF IInv
<1>2. p \in Pending /\ p.msg = m /\ ~p.resolved
  BY DEF Pending
<1>3. /\ barrier[v] \in Seq(Pending) /\ barrier'[v] \in Seq(Pending) /\ Len(barrier[v]) \in Nat
      /\ Len(barrier'[v]) = Len(barrier[v]) + 1 /\ barrier'[v][Len(barrier[v]) + 1] = p
      /\ \A i \in 1 .. Len(barrier[v]) : barrier'[v][i] = barrier[v][i]
  <2>1. barrier[v] \in Seq(Pending) /\ barrier'[v] = Append(barrier[v], p)
    BY <1>1 DEF Types
  <2> QED BY <1>2, <2>1, AddedBarrier
<1>4. \A u \in Users : u # v => barrier'[u] = barrier[u]
  BY <1>1 DEF Types
<1>5. barrier' \in [Users -> Seq(Pending)]
  BY <1>1, <1>3 DEF Types
<1>6. \A u \in Users : \A i \in 1 .. Len(barrier[u]) :
        /\ i \in 1 .. Len(barrier'[u]) /\ barrier'[u][i] = barrier[u][i]
        /\ barrier[u][i].msg \in Messages /\ answer[barrier[u][i].msg] = "accepted"
        /\ barrier[u][i].msg # m /\ BarrierFits(u, i)
  <2> SUFFICES ASSUME NEW u \in Users, NEW i \in 1 .. Len(barrier[u])
               PROVE  /\ i \in 1 .. Len(barrier'[u]) /\ barrier'[u][i] = barrier[u][i]
                      /\ barrier[u][i].msg \in Messages /\ answer[barrier[u][i].msg] = "accepted"
                      /\ barrier[u][i].msg # m /\ BarrierFits(u, i)
    OBVIOUS
  <2>1. i \in 1 .. Len(barrier'[u]) /\ barrier'[u][i] = barrier[u][i]
    BY <1>3, <1>4
  <2>2. BarrierFits(u, i) /\ barrier[u][i].msg \in Messages
    BY <1>1, BarrierMessages DEF BarriersFit
  <2> QED BY <2>1, <2>2 DEF BarrierFits
<1>7. \A u \in Users : \A i \in 1 .. Len(barrier'[u]) :
        i \in 1 .. Len(barrier[u]) \/ (u = v /\ i = Len(barrier[v]) + 1 /\ barrier'[u][i] = p)
  BY <1>3, <1>4
<1>8. ASSUME NEW u \in Users, NEW i \in 1 .. Len(barrier'[u]) PROVE BarrierFits(u, i)'
  <2> DEFINE n == barrier'[u][i].msg
  <2>1. UserOf[n] = u /\ answer'[n] = "accepted"
    BY <1>2, <1>6, <1>7 DEF BarrierFits
  <2>2. \A j \in 1 .. Len(barrier'[u]) : barrier'[u][j].msg = n => i = j
    <3> SUFFICES ASSUME NEW j \in 1 .. Len(barrier'[u]), barrier'[u][j].msg = n PROVE i = j
      OBVIOUS
    <3>1. CASE i \in 1 .. Len(barrier[u]) /\ j \in 1 .. Len(barrier[u])
      BY <1>6, <3>1 DEF BarrierFits
    <3>2. CASE ~(i \in 1 .. Len(barrier[u]) /\ j \in 1 .. Len(barrier[u]))
      BY <1>2, <1>6, <1>7, <3>2
    <3> QED BY <3>1, <3>2
  <2>3. \A o : o = n /\ barrier'[u][i].resolved => ~Unended(o)'
    <3>1. CASE i \in 1 .. Len(barrier[u])
      BY <1>6, <3>1 DEF BarrierFits
    <3>2. CASE i \notin 1 .. Len(barrier[u])
      BY <1>2, <1>7, <3>2
    <3> QED BY <3>1, <3>2
  <2> QED BY <2>1, <2>2, <2>3 DEF BarrierFits, Unended
<1>9. ASSUME NEW n \in acks' PROVE AckFits(n)'
  <2>1. AckFits(n) /\ n \in Messages /\ UserOf[n] \in Users
    BY <1>1, ConstTypes DEF BarriersFit, Types
  <2>2. PICK i \in 1 .. Len(barrier[UserOf[n]]) :
          barrier[UserOf[n]][i] = [msg |-> n, resolved |-> FALSE]
    BY <2>1 DEF AckFits
  <2>3. answer[n] = "accepted" /\ barrier'[UserOf[n]][i] = [msg |-> n, resolved |-> FALSE]
        /\ i \in 1 .. Len(barrier'[UserOf[n]])
    BY <1>6, <2>1, <2>2
  <2>4. ~Unended(n)'
    BY <2>1, <2>3 DEF AckFits
  <2> QED BY <2>3, <2>4 DEF AckFits
<1>10. \A u \in Users : \A i \in 1 .. Len(barrier'[u]) : BarrierFits(u, i)'
  BY <1>8
<1>11. \A n \in acks' : AckFits(n)'
  BY <1>9
<1> QED BY <1>5, <1>10, <1>11 DEF BarriersFit

-----------------------------------------------------------------------------
(* The steps of the dispatcher. *)

\* The commands S, whose turns are over, are acknowledged if they are barriers.
LEMMA KnownFits ==
  ASSUME IInv, NEW S \in SUBSET Messages, Known(S), UNCHANGED <<barrier, answer>>,
         \A n \in Messages : Unended(n)' => Unended(n) /\ n \notin S,
         \A n \in S : Unended(n)
  PROVE  /\ BarriersFit' /\ acks' \subseteq Messages
         /\ (\A u \in Users : barrier[u] = <<>>) => acks' = acks
<1>1. Types /\ BarriersFit /\ acks \subseteq Messages
  BY DEF IInv, Types
<1>2. acks' = acks \cup (S \cap UNION {Tokens(u) : u \in Users})
  BY DEF Known
<1>3. \A m \in acks' : m \in acks \/ (m \in S /\ \E u \in Users : m \in Tokens(u))
  BY <1>2
<1>4. \A u \in Users : \A m \in Tokens(u) : \E i \in 1 .. Len(barrier[u]) : barrier[u][i].msg = m
  BY BarrierMessages DEF Tokens
<1>5. (\A u \in Users : barrier[u] = <<>>) => acks' = acks
  <2>1. SUFFICES ASSUME \A u \in Users : barrier[u] = <<>> PROVE acks' = acks
    OBVIOUS
  <2>2. \A u \in Users : Tokens(u) = {}
    BY <2>1 DEF Tokens
  <2> QED BY <1>2, <2>2
<1>6. ASSUME NEW u \in Users, NEW i \in 1 .. Len(barrier'[u]) PROVE BarrierFits(u, i)'
  <2>1. BarrierFits(u, i) /\ barrier[u][i].msg \in Messages /\ barrier'[u][i] = barrier[u][i]
    BY <1>1, BarrierMessages DEF BarriersFit
  <2> QED BY <2>1 DEF BarrierFits, Unended
<1>7. ASSUME NEW m \in acks' PROVE AckFits(m)'
  <2>1. m \in Messages
    BY <1>1, <1>3
  <2>2. CASE m \in acks
    BY <1>1, <2>1, <2>2 DEF BarriersFit, AckFits
  <2>3. CASE m \in S
    <3>0. PICK u \in Users : \E i \in 1 .. Len(barrier[u]) : barrier[u][i].msg = m
      <4>1. CASE m \in acks
        <5>1. UserOf[m] \in Users
          BY <2>1, ConstTypes
        <5>2. PICK i \in 1 .. Len(barrier[UserOf[m]]) :
                barrier[UserOf[m]][i] = [msg |-> m, resolved |-> FALSE]
          BY <1>1, <4>1 DEF BarriersFit, AckFits
        <5>3. barrier[UserOf[m]][i].msg = m
          BY <5>2
        <5> QED BY <5>1, <5>3
      <4>2. CASE m \notin acks
        BY <1>3, <1>4, <4>2
      <4> QED BY <4>1, <4>2
    <3>1. PICK i \in 1 .. Len(barrier[u]) : barrier[u][i].msg = m
      BY <3>0
    <3>2. UserOf[m] = u /\ ~barrier[u][i].resolved /\ barrier[u][i] \in Pending
      BY <1>1, <2>3, <3>1, BarrierMessages DEF BarriersFit, BarrierFits
    <3>3. barrier[u][i] = [msg |-> m, resolved |-> FALSE]
      BY <3>1, <3>2 DEF Pending
    <3>4. ~Unended(m)'
      BY <2>1, <2>3
    <3> QED BY <3>2, <3>3, <3>4 DEF AckFits
  <2> QED BY <1>3, <2>2, <2>3
<1>8. \A u \in Users : \A i \in 1 .. Len(barrier'[u]) : BarrierFits(u, i)'
  BY <1>6
<1>9. \A m \in acks' : AckFits(m)'
  BY <1>7
<1>10. acks' \subseteq Messages
  BY <1>1, <1>2
<1> QED BY <1>5, <1>8, <1>9, <1>10 DEF BarriersFit

\* Nothing new is in a line, which may have lost the batch.
LEMMA OrderKept ==
  ASSUME IInv, UNCHANGED <<arrived, handed>>,
         \A u \in Users : batch'[u].msgs \in {batch[u].msgs, <<>>},
         \A m \in Messages : /\ fate'[m] = "new" <=> fate[m] = "new"
                             /\ fate[m] = "handed" => fate'[m] = "handed"
  PROVE  OrderFits'
<1>1. Types /\ OrderFits
  BY DEF IInv
<1>2. \A m : Position(m)' = Position(m)
  BY DEF Position
<1>3. \A i \in 1 .. Len(arrived) : arrived[i] \in Messages
  BY <1>1, ElementOfSeq DEF Types
<1>4. /\ \A i, j \in 1 .. Len(arrived') : arrived'[i] = arrived'[j] => i = j
      /\ \A i \in 1 .. Len(arrived') : fate'[arrived'[i]] # "new"
      /\ \A m \in Messages : fate'[m] # "new" => \E i \in 1 .. Len(arrived') : arrived'[i] = m
  BY <1>1, <1>3 DEF OrderFits
<1>5. \A u \in Users : \A i \in 1 .. Len(handed'[u]) : fate'[handed'[u][i]] = "handed"
  <2>1. \A u \in Users : \A i \in 1 .. Len(handed[u]) : handed[u][i] \in Messages
    BY <1>1, LineType, ElementOfSeq
  <2> QED BY <1>1, <2>1 DEF OrderFits
<1>6. ASSUME NEW u \in Users PROVE InOrder(Line(u))'
  <2> DEFINE r == handed[u] \o batch'[u].msgs
  <2>1. handed[u] \in Seq(Messages) /\ batch[u].msgs \in Seq(Messages)
        /\ (batch'[u].msgs = batch[u].msgs \/ batch'[u].msgs = <<>>)
    BY <1>1, LineType
  <2>2. batch'[u].msgs \in Seq(Messages)
    <3>1. <<>> \in Seq(Messages)
      OBVIOUS
    <3> QED BY <2>1, <3>1
  <2>3. /\ Len(Line(u)) = Len(handed[u]) + Len(batch[u].msgs)
        /\ \A i \in 1 .. Len(handed[u]) : Line(u)[i] = handed[u][i]
        /\ Len(handed[u]) \in Nat /\ Len(batch[u].msgs) \in Nat
    BY <2>1, JoinedIs DEF Line
  <2>4. Len(r) = Len(handed[u]) + Len(batch'[u].msgs) /\ Len(<<>>) = 0
        /\ \A i \in 1 .. Len(handed[u]) : r[i] = handed[u][i]
    BY <2>1, <2>2, JoinedIs
  <2>5. InOrder(r)
    <3>1. CASE batch'[u].msgs = batch[u].msgs
      BY <1>1, <3>1 DEF OrderFits, Line
    <3>2. CASE batch'[u].msgs = <<>>
      <4>1. Len(r) = Len(handed[u]) /\ Len(r) <= Len(Line(u)) /\ Len(r) \in Nat /\ Len(Line(u)) \in Nat
        <5>1. Len(batch'[u].msgs) = 0
          BY <2>4, <3>2
        <5>2. Len(r) = Len(handed[u])
          <6> HIDE DEF r
          <6> QED BY <2>3, <2>4, <5>1
        <5>3. \A a, b, c : a \in Nat /\ b \in Nat /\ c = a + b => a <= c /\ c \in Nat
          OBVIOUS
        <5>4. Len(handed[u]) <= Len(Line(u)) /\ Len(Line(u)) \in Nat
          BY <2>3, <5>3
        <5> HIDE DEF r
        <5> QED BY <2>3, <5>2, <5>4
      <4>2. \A i \in 1 .. Len(r) : r[i] = Line(u)[i]
        BY <2>3, <2>4, <4>1
      <4> HIDE DEF r
      <4> QED BY <1>1, <4>1, <4>2, PartInOrder DEF OrderFits
    <3> QED BY <2>1, <3>1, <3>2
  <2> QED BY <1>2, <2>5 DEF InOrder, Line
<1>7. \A u \in Users : InOrder(Line(u))'
  BY <1>6
<1> QED BY <1>4, <1>5, <1>7 DEF OrderFits

LEMMA DispatcherStep ==
  ASSUME IInv, NEW S \in SUBSET Messages, Known(S), UNCHANGED answer,
         UNCHANGED <<inbox, busy, batch, barrier, timers, seen, fate, arrived, handed, closing>>,
         queue' \in [Users -> Seq(Messages)], running' \in [Users -> Messages \cup {None}],
         TurnsFit',
         \A n \in Messages : Unended(n)' => Unended(n) /\ n \notin S,
         \A n \in S : Unended(n)
  PROVE  IInv'
<1>1. /\ BarriersFit' /\ acks' \subseteq Messages
      /\ (\A u \in Users : barrier[u] = <<>>) => acks' = acks
  BY KnownFits
<1>2. Types'
  BY <1>1 DEF IInv, Types
<1>3. BusyFits' /\ RoomFits'
  BY DEF IInv, BusyFits, RoomFits, Open, Overflows, TooManyActive, OpenUsers
<1>4. BatchesFit' /\ HeldFits'
  BY DEF IInv, BatchesFit, HeldFits, Open, OpenUsers, Ripe, AtLimit, Held
<1>5. FlightFits' /\ KeysFit'
  BY DEF IInv, FlightFits, KeysFit, Owns, Keeps
<1>6. OrderFits'
  BY OrderKept DEF IInv, Types
<1>7. ClosingFits'
  BY <1>1 DEF IInv, ClosingFits, Open
<1>8. OpenBatchIsTimed'
  BY DEF IInv, OpenBatchIsTimed, OpenUsers, Open
<1> QED BY <1>1, <1>2, <1>3, <1>4, <1>5, <1>6, <1>7, <1>8 DEF IInv

LEMMA TurnTypes ==
  ASSUME IInv, NEW u \in Users
  PROVE  /\ queue[u] \in Seq(Messages) /\ Len(queue[u]) \in Nat
         /\ running[u] \in Messages \cup {None}
         /\ running[u] # None => UserOf[running[u]] = u /\ answer[running[u]] = "accepted"
         /\ \A i \in 1 .. Len(queue[u]) :
              /\ queue[u][i] \in Messages /\ UserOf[queue[u][i]] = u
              /\ answer[queue[u][i]] = "accepted" /\ queue[u][i] # running[u]
              /\ \A j \in 1 .. Len(queue[u]) : queue[u][i] = queue[u][j] => i = j
<1>1. queue[u] \in Seq(Messages) /\ running[u] \in Messages \cup {None}
  BY DEF IInv, Types
<1>2. Len(queue[u]) \in Nat /\ \A i \in 1 .. Len(queue[u]) : queue[u][i] \in Messages
  BY <1>1, ElementOfSeq, LenProperties
<1> QED BY <1>1, <1>2 DEF IInv, TurnsFit

\* A scope keeps what it had but for the turns S that leave it: q is its queue
\* then, and r the one that runs.
Leaves(u, q, r, S) ==
  /\ q \in Seq(Messages) /\ r \in Messages \cup {None} /\ S \in SUBSET Messages
  /\ r # None => r = running[u] \/ \E i \in 1 .. Len(queue[u]) : queue[u][i] = r
  /\ \A i \in 1 .. Len(q) : /\ \E j \in 1 .. Len(queue[u]) : queue[u][j] = q[i]
                            /\ q[i] # r
                            /\ \A j \in 1 .. Len(q) : q[i] = q[j] => i = j
  /\ \A n \in S : /\ n = running[u] \/ \E i \in 1 .. Len(queue[u]) : queue[u][i] = n
                  /\ n # r /\ \A i \in 1 .. Len(q) : q[i] # n

LEMMA ScopeStep ==
  ASSUME IInv, NEW u \in Users, NEW q, NEW r, NEW S, Leaves(u, q, r, S),
         queue' = [queue EXCEPT ![u] = q], running' = [running EXCEPT ![u] = r],
         Known(S), UNCHANGED answer,
         UNCHANGED <<inbox, busy, batch, barrier, timers, seen, fate, arrived, handed, closing>>
  PROVE  IInv'
<1>0. /\ q \in Seq(Messages) /\ r \in Messages \cup {None} /\ S \in SUBSET Messages
      /\ r # None => r = running[u] \/ \E i \in 1 .. Len(queue[u]) : queue[u][i] = r
      /\ \A i \in 1 .. Len(q) : /\ \E j \in 1 .. Len(queue[u]) : queue[u][j] = q[i]
                                /\ q[i] # r
                                /\ \A j \in 1 .. Len(q) : q[i] = q[j] => i = j
      /\ \A n \in S : /\ n = running[u] \/ \E i \in 1 .. Len(queue[u]) : queue[u][i] = n
                      /\ n # r /\ \A i \in 1 .. Len(q) : q[i] # n
  BY DEF Leaves
<1>1. Types /\ TurnsFit
  BY DEF IInv
<1>2. /\ queue' \in [Users -> Seq(Messages)] /\ running' \in [Users -> Messages \cup {None}]
      /\ queue'[u] = q /\ running'[u] = r
      /\ \A v \in Users : v # u => queue'[v] = queue[v] /\ running'[v] = running[v]
  BY <1>0, <1>1 DEF Types
<1>3. r # None => UserOf[r] = u /\ answer[r] = "accepted"
  BY <1>0, TurnTypes
<1>4. \A i \in 1 .. Len(q) : UserOf[q[i]] = u /\ answer[q[i]] = "accepted"
  BY <1>0, TurnTypes
<1>5. TurnsFit'
  <2> SUFFICES ASSUME NEW v \in Users
               PROVE  /\ running'[v] # None =>
                           UserOf[running'[v]] = v /\ answer'[running'[v]] = "accepted"
                      /\ \A i \in 1 .. Len(queue'[v]) :
                           /\ UserOf[queue'[v][i]] = v /\ answer'[queue'[v][i]] = "accepted"
                           /\ queue'[v][i] # running'[v]
                           /\ \A j \in 1 .. Len(queue'[v]) : queue'[v][i] = queue'[v][j] => i = j
    BY DEF TurnsFit
  <2>1. CASE v = u
    BY <1>0, <1>2, <1>3, <1>4, <2>1
  <2>2. CASE v # u
    BY <1>2, <2>2, TurnTypes
  <2> QED BY <2>1, <2>2
<1>6. \A n \in S : Unended(n) /\ UserOf[n] = u
  <2> SUFFICES ASSUME NEW n \in S PROVE Unended(n) /\ UserOf[n] = u
    OBVIOUS
  <2>1. n \in Messages /\ n # None
    BY <1>0, ConstTypes
  <2>2. n = running[u] \/ \E i \in 1 .. Len(queue[u]) : queue[u][i] = n
    BY <1>0
  <2>3. UserOf[n] = u
    BY <2>1, <2>2, TurnTypes
  <2> QED BY <2>2, <2>3 DEF Unended
<1>7. ASSUME NEW n \in Messages, Unended(n)' PROVE Unended(n) /\ n \notin S
  <2>1. PICK v \in Users : running'[v] = n \/ \E i \in 1 .. Len(queue'[v]) : queue'[v][i] = n
    BY <1>7 DEF Unended
  <2>2. CASE v = u
    <3>1. r = n \/ \E i \in 1 .. Len(q) : q[i] = n
      BY <1>2, <2>1, <2>2
    <3>2. n # None
      BY ConstTypes
    <3>3. running[u] = n \/ \E i \in 1 .. Len(queue[u]) : queue[u][i] = n
      BY <1>0, <3>1, <3>2
    <3> QED BY <1>0, <3>1, <3>3 DEF Unended
  <2>3. CASE v # u
    <3>1. running[v] = n \/ \E i \in 1 .. Len(queue[v]) : queue[v][i] = n
      BY <1>2, <2>1, <2>3
    <3>2. UserOf[n] = v
      BY <3>1, TurnTypes, ConstTypes
    <3> QED BY <1>6, <2>3, <3>1, <3>2 DEF Unended
  <2> QED BY <2>2, <2>3
<1>8. \A n \in Messages : Unended(n)' => Unended(n) /\ n \notin S
  BY <1>7
<1> QED BY <1>0, <1>2, <1>5, <1>6, <1>8, DispatcherStep

LEMMA BeginStep == ASSUME IInv, NEW u \in Users, Begin(u) PROVE IInv'
<1> DEFINE q == Tail(queue[u])
           r == Head(queue[u])
<1>1. /\ running[u] = None /\ queue[u] # <<>>
      /\ running' = [running EXCEPT ![u] = r] /\ queue' = [queue EXCEPT ![u] = q]
      /\ UNCHANGED <<answer, acks>>
      /\ UNCHANGED <<inbox, busy, batch, barrier, timers, seen, fate, arrived, handed, closing>>
  BY DEF Begin, Dispatcher!Begin
<1>2. /\ q \in Seq(Messages) /\ r \in Messages /\ r = queue[u][1] /\ Len(queue[u]) \in Nat
      /\ Len(queue[u]) > 0 /\ Len(q) = Len(queue[u]) - 1
      /\ \A i \in 1 .. Len(q) : q[i] = queue[u][i + 1]
  BY <1>1, TurnTypes, HeadTailProperties, EmptySeq
<1> HIDE DEF q, r
<1>3. Known({})
  BY <1>1 DEF Known
<1>4. \A i \in 1 .. Len(q) : /\ \E j \in 1 .. Len(queue[u]) : queue[u][j] = q[i]
                             /\ q[i] # r
                             /\ \A j \in 1 .. Len(q) : q[i] = q[j] => i = j
  <2> SUFFICES ASSUME NEW i \in 1 .. Len(q)
               PROVE  /\ \E j \in 1 .. Len(queue[u]) : queue[u][j] = q[i]
                      /\ q[i] # r
                      /\ \A j \in 1 .. Len(q) : q[i] = q[j] => i = j
    OBVIOUS
  <2>1. i + 1 \in 1 .. Len(queue[u]) /\ i + 1 # 1 /\ 1 \in 1 .. Len(queue[u])
    BY <1>2
  <2>2. q[i] = queue[u][i + 1] /\ q[i] # r
    BY <1>2, <2>1, TurnTypes
  <2>3. ASSUME NEW j \in 1 .. Len(q), q[i] = q[j] PROVE i = j
    <3>1. j + 1 \in 1 .. Len(queue[u]) /\ q[j] = queue[u][j + 1]
      BY <1>2
    <3>2. i + 1 = j + 1
      <4>1. queue[u][i + 1] = queue[u][j + 1]
        BY <2>2, <2>3, <3>1
      <4> QED BY <2>1, <3>1, <4>1, TurnTypes
    <3> QED BY <3>2
  <2> QED BY <2>1, <2>2, <2>3
<1>5. \E i \in 1 .. Len(queue[u]) : queue[u][i] = r
  BY <1>2
<1>6. {} \in SUBSET Messages /\ r \in Messages \cup {None}
  BY <1>2
<1>7. \A n \in {} : /\ n = running[u] \/ \E i \in 1 .. Len(queue[u]) : queue[u][i] = n
                   /\ n # r /\ \A i \in 1 .. Len(q) : q[i] # n
  OBVIOUS
<1>8. Leaves(u, q, r, {})
  BY <1>2, <1>4, <1>5, <1>6, <1>7 DEF Leaves
<1> QED BY <1>1, <1>3, <1>8, ScopeStep

LEMMA EndStep == ASSUME IInv, NEW u \in Users, End(u) PROVE IInv'
<1>1. /\ running[u] # None /\ running' = [running EXCEPT ![u] = None] /\ queue' = queue
      /\ UNCHANGED answer /\ Known({running[u]})
      /\ UNCHANGED <<inbox, busy, batch, barrier, timers, seen, fate, arrived, handed, closing>>
  BY DEF End, Dispatcher!End
<1>2. queue' = [queue EXCEPT ![u] = queue[u]] /\ {running[u]} \in SUBSET Messages
  BY <1>1, TurnTypes DEF IInv, Types
<1>3. \A i \in 1 .. Len(queue[u]) :
        /\ \E j \in 1 .. Len(queue[u]) : queue[u][j] = queue[u][i]
        /\ queue[u][i] # None /\ queue[u][i] # running[u]
        /\ \A j \in 1 .. Len(queue[u]) : queue[u][i] = queue[u][j] => i = j
  BY TurnTypes, ConstTypes
<1>4. queue[u] \in Seq(Messages) /\ None \in Messages \cup {None}
  BY TurnTypes
<1>5. \A n \in {running[u]} :
        /\ n = running[u] \/ \E i \in 1 .. Len(queue[u]) : queue[u][i] = n
        /\ n # None /\ \A i \in 1 .. Len(queue[u]) : queue[u][i] # n
  BY <1>1, <1>3
<1>6. \A i \in 1 .. Len(queue[u]) :
        /\ \E j \in 1 .. Len(queue[u]) : queue[u][j] = queue[u][i]
        /\ queue[u][i] # None
        /\ \A j \in 1 .. Len(queue[u]) : queue[u][i] = queue[u][j] => i = j
  BY <1>3
<1>7. Leaves(u, queue[u], None, {running[u]})
  BY <1>2, <1>4, <1>5, <1>6 DEF Leaves
<1> QED BY <1>1, <1>2, <1>7, ScopeStep

LEMMA LoseStep == ASSUME IInv, NEW u \in Users, LoseScope(u) PROVE IInv'
<1>1. PICK r \in {running[u], None} :
        LET lost == ToSet(queue[u]) \cup ({running[u]} \ {r})
        IN  /\ queue' = [queue EXCEPT ![u] = <<>>] /\ running' = [running EXCEPT ![u] = r]
            /\ UNCHANGED answer /\ Known(lost)
            /\ UNCHANGED <<inbox, busy, batch, barrier, timers, seen, fate, arrived, handed, closing>>
  BY DEF LoseScope
<1> DEFINE S == ToSet(queue[u]) \cup ({running[u]} \ {r})
<1>2. \A n : n \in ToSet(queue[u]) <=> \E i \in 1 .. Len(queue[u]) : queue[u][i] = n
  BY TurnTypes, MembersAre
<1>3. S \in SUBSET Messages
  BY <1>2, TurnTypes
<1>4. \A n \in S : (n = running[u] \/ \E i \in 1 .. Len(queue[u]) : queue[u][i] = n) /\ n # r
  BY <1>2, TurnTypes, ConstTypes
<1>5. <<>> \in Seq(Messages) /\ Len(<<>>) = 0 /\ r \in Messages \cup {None}
      /\ (r # None => r = running[u])
  BY TurnTypes
<1>6. \A i \in 1 .. Len(<<>>) :
        /\ \E j \in 1 .. Len(queue[u]) : queue[u][j] = <<>>[i]
        /\ <<>>[i] # r
        /\ \A j \in 1 .. Len(<<>>) : <<>>[i] = <<>>[j] => i = j
  BY <1>5
<1>8. \A n \in S : /\ n = running[u] \/ \E i \in 1 .. Len(queue[u]) : queue[u][i] = n
                   /\ n # r /\ \A i \in 1 .. Len(<<>>) : <<>>[i] # n
  BY <1>4, <1>5
<1>9. r # None => r = running[u] \/ \E i \in 1 .. Len(queue[u]) : queue[u][i] = r
  BY <1>5
<1>7. Known(S) /\ queue' = [queue EXCEPT ![u] = <<>>] /\ running' = [running EXCEPT ![u] = r]
      /\ UNCHANGED answer
      /\ UNCHANGED <<inbox, busy, batch, barrier, timers, seen, fate, arrived, handed, closing>>
  BY <1>1
<1> HIDE DEF S
<1>10. Leaves(u, <<>>, r, S)
  BY <1>3, <1>5, <1>6, <1>8, <1>9 DEF Leaves
<1> QED BY <1>7, <1>10, ScopeStep

-----------------------------------------------------------------------------
(* A batch, or the message in hand, is done with. *)

LEMMA ClosedBatch ==
  ASSUME IInv, NEW u \in Users, batch' = [batch EXCEPT ![u] = NoBatch]
  PROVE  /\ batch' \in [Users -> Batch] /\ batch'[u] = NoBatch
         /\ \A v \in Users : v # u => batch'[v] = batch[v]
         /\ \A v \in Users : Open(v)' <=> v # u /\ Open(v)
         /\ OpenUsers' = OpenUsers \ {u} /\ IsFiniteSet(OpenUsers')
         /\ Cardinality(OpenUsers') <= MaxActive
         /\ Open(u) => Cardinality(OpenUsers') < MaxActive
<1>1. batch \in [Users -> Batch] /\ IsFiniteSet(OpenUsers) /\ Cardinality(OpenUsers) <= MaxActive
  BY DEF IInv, Types, BatchesFit
<1>2. /\ batch' \in [Users -> Batch] /\ batch'[u] = NoBatch
      /\ \A v \in Users : v # u => batch'[v] = batch[v]
  BY <1>1, NoBatchFits
<1>3. \A v \in Users : Open(v)' <=> v # u /\ Open(v)
  BY <1>2, NoBatchFits DEF Open
<1>4. OpenUsers' = OpenUsers \ {u}
  BY <1>3 DEF OpenUsers
<1>5. /\ IsFiniteSet(OpenUsers \ {u})
      /\ Cardinality(OpenUsers \ {u}) = IF u \in OpenUsers THEN Cardinality(OpenUsers) - 1
                                        ELSE Cardinality(OpenUsers)
  BY <1>1, FS_RemoveElement
<1>6. Cardinality(OpenUsers) \in Nat
  BY <1>1, FS_CardinalityType
<1>7. Cardinality(OpenUsers \ {u}) <= MaxActive
      /\ (u \in OpenUsers => Cardinality(OpenUsers \ {u}) < MaxActive)
  BY <1>1, <1>5, <1>6, ConstTypes
<1> QED BY <1>2, <1>3, <1>4, <1>5, <1>7, OpenIs

LEMMA HeldIs ==
  ASSUME IInv, NEW u \in Users
  PROVE  /\ Held(u) \subseteq Messages
         /\ \A m \in Messages : m \in Held(u) <=> fate[m] = "held" /\ UserOf[m] = u
         /\ \A m \in Held(u) : \E i \in 1 .. Len(batch[u].msgs) : batch[u].msgs[i] = m
         /\ ~Open(u) => Held(u) = {}
<1>1. batch[u].msgs \in Seq(Messages)
  BY BatchType DEF IInv
<1>2. \A m : m \in Held(u) <=> \E i \in 1 .. Len(batch[u].msgs) : batch[u].msgs[i] = m
  BY <1>1, MembersAre DEF Held
<1>3. \A i \in 1 .. Len(batch[u].msgs) : batch[u].msgs[i] \in Messages
  BY <1>1, ElementOfSeq
<1>4. \A m \in Messages : m \in Held(u) <=> fate[m] = "held" /\ UserOf[m] = u
  BY <1>2 DEF IInv, HeldFits
<1>5. ~Open(u) => Len(batch[u].msgs) = 0
  BY DEF Open
<1>6. \A i \in 1 .. 0 : FALSE
  OBVIOUS
<1>7. ~Open(u) => Held(u) = {}
  BY <1>2, <1>5, <1>6
<1> QED BY <1>2, <1>3, <1>4, <1>7

\* What the steps have in common that end a batch of the user in hand, or the
\* message in hand, or both: S are the messages, how what becomes of them.
Closes(u, S, how) ==
  /\ u = busy.user /\ busy.stage \in Handling \cup {"seal"}
  /\ how \in {"handed", "cancelled", "refused", "dropped"}
  /\ how = "dropped" => closing \notin {"no", "asked"}
  /\ Held(u) \subseteq S
  /\ \A m \in S : m \in Held(u) \/ (m = busy.msg /\ busy.stage \in Handling)
  /\ batch' = [batch EXCEPT ![u] = NoBatch]
  /\ Becomes(S, how)
  /\ \/ busy' = Idle /\ (busy.stage \in Handling => busy.msg \in S)
        /\ \A v \in Users : v # u /\ barrier[v] = <<>> => barrier'[v] = <<>>
     \/ busy.stage = "flush" /\ busy' = [busy EXCEPT !.stage = busy.then] /\ busy.msg \notin S
        /\ barrier' = barrier
  /\ \/ how \in {"handed", "cancelled"} /\ Dedupe!Commit(S)
     \/ how \in {"refused", "dropped"} /\ Dedupe!Rollback(S)
  /\ UNCHANGED <<inbox, timers, arrived, closing>>

LEMMA ClosesFates ==
  ASSUME IInv, NEW u, NEW S, NEW how, Closes(u, S, how)
  PROVE  /\ u \in Users /\ S \subseteq Messages
         /\ \A m \in Messages : fate'[m] = IF m \in S THEN how ELSE fate[m]
         /\ fate' \in [Messages -> Fates]
         /\ \A m \in S : UserOf[m] = u /\ fate[m] \in {"held", "sent"} /\ Keeps(m)
         /\ \A m \in S : fate[m] = "sent" => m = busy.msg /\ busy.stage \in Handling
         /\ \A m \in Messages : fate'[m] \in {"new", "sent", "held"} => m \notin S /\ fate'[m] = fate[m]
         /\ \A m \in Messages \ S : fate'[m] = fate[m]
         /\ \A m \in S : fate'[m] = how
         /\ busy.user = u /\ busy.stage # "idle"
         /\ UNCHANGED <<inbox, timers, arrived, closing>>
<1>1. Types /\ BusyFits
  BY DEF IInv
<1>2. busy.stage # "idle"
  BY <1>1 DEF Closes, Handling
<1>3. u \in Users
  BY <1>1, <1>2 DEF Closes, BusyFits
<1>4. \A m \in S : m \in Messages /\ UserOf[m] = u /\ fate[m] \in {"held", "sent"} /\ Keeps(m)
                   /\ (fate[m] = "sent" => m = busy.msg /\ busy.stage \in Handling)
  <2> SUFFICES ASSUME NEW m \in S
               PROVE  m \in Messages /\ UserOf[m] = u /\ fate[m] \in {"held", "sent"} /\ Keeps(m)
                      /\ (fate[m] = "sent" => m = busy.msg /\ busy.stage \in Handling)
    OBVIOUS
  <2>1. CASE m \in Held(u)
    BY <1>3, <2>1, HeldIs DEF Keeps
  <2>2. CASE m = busy.msg /\ busy.stage \in Handling
    BY <1>1, <2>2 DEF BusyFits, Keeps, Closes
  <2> QED BY <2>1, <2>2 DEF Closes
<1>5. fate' = [m \in Messages |-> IF m \in S THEN how ELSE fate[m]] /\ how \in Fates
  BY DEF Closes, Becomes, Fates
<1>6. fate' \in [Messages -> Fates]
  BY <1>1, <1>5 DEF Types
<1>7. how \notin {"new", "sent", "held"} /\ UNCHANGED <<inbox, timers, arrived, closing>> /\ busy.user = u
  BY DEF Closes
<1>8. \A m \in Messages : fate'[m] = IF m \in S THEN how ELSE fate[m]
  BY <1>5
<1>9. /\ \A m \in Messages : fate'[m] \in {"new", "sent", "held"} => m \notin S /\ fate'[m] = fate[m]
      /\ \A m \in Messages \ S : fate'[m] = fate[m]
      /\ \A m \in S : fate'[m] = how
  BY <1>4, <1>7, <1>8
<1> QED BY <1>2, <1>3, <1>4, <1>6, <1>7, <1>8, <1>9

LEMMA ClosesBusy ==
  ASSUME IInv, NEW u, NEW S, NEW how, Closes(u, S, how)
  PROVE  /\ busy' \in Busy /\ BusyFits' /\ RoomFits'
         /\ \A m \in Messages \ S : (busy'.stage \in Handling /\ busy'.msg = m)
                                     <=> (busy.stage \in Handling /\ busy.msg = m)
         /\ \A m \in S : ~(busy'.stage \in Handling /\ busy'.msg = m)
         /\ busy'.stage # "seal"
<1>1. Types /\ BusyFits /\ RoomFits /\ BatchesFit /\ busy \in Busy
  BY DEF IInv, Types
<1>2. u \in Users
  BY ClosesFates
<1>3. CASE busy' = Idle /\ (busy.stage \in Handling => busy.msg \in S)
  <2>1. busy' \in Busy /\ busy'.stage \notin Handling /\ busy'.stage = "idle"
    BY <1>3, IdleType
  <2>2. BusyFits' /\ RoomFits'
    BY <1>3, <2>1 DEF BusyFits, RoomFits, Handling
  <2> QED BY <1>3, <2>1, <2>2
<1>4. CASE /\ busy.stage = "flush" /\ busy' = [busy EXCEPT !.stage = busy.then]
           /\ busy.msg \notin S /\ barrier' = barrier
  <2>1. /\ busy.stage \in Handling /\ busy.then \in {"barrier", "plain", "hold"}
        /\ busy.msg \in Messages /\ UserOf[busy.msg] = u /\ busy.user = u /\ fate[busy.msg] = "sent"
    BY <1>1, <1>4 DEF BusyFits, Handling, Closes
  <2>2. /\ busy'.stage = busy.then /\ busy'.msg = busy.msg /\ busy'.user = u
        /\ busy'.stage \in Handling /\ busy' \in Busy
    BY <1>1, <1>4, <2>1 DEF Busy, Handling
  <2>0. batch' = [batch EXCEPT ![u] = NoBatch]
    BY DEF Closes
  <2>3. fate'[busy.msg] = "sent" /\ ~Open(u)'
    <3>1. fate'[busy.msg] = "sent"
      BY <1>4, <2>1, ClosesFates
    <3>2. ~Open(u)'
      BY <1>2, <2>0, ClosedBatch
    <3> QED BY <3>1, <3>2
  <2>4. BusyFits'
    BY <1>2, <2>1, <2>2, <2>3 DEF BusyFits, Handling
  <2>5. RoomFits'
    <3>1. SUFFICES ASSUME busy.then = "hold" PROVE RoomFits'
      BY <2>1, <2>2 DEF RoomFits
    <3>2. Open(u) /\ barrier[u] = <<>> /\ SizeOf[busy.msg] <= MaxChars
      BY <1>1, <1>4, <2>1, <3>1 DEF RoomFits
    <3>3. Cardinality(OpenUsers') < MaxActive /\ IsFiniteSet(OpenUsers')
      BY <1>2, <3>2, ClosedBatch DEF Closes
    <3>4. ~(Cardinality(OpenUsers') >= MaxActive)
      BY <3>3, FS_CardinalityType, ConstTypes
    <3> QED BY <1>4, <2>2, <2>3, <3>1, <3>2, <3>4 DEF RoomFits, Overflows, TooManyActive
  <2> QED BY <1>4, <2>1, <2>2, <2>4, <2>5
<1> QED BY <1>3, <1>4 DEF Closes

LEMMA ClosesBatches ==
  ASSUME IInv, NEW u, NEW S, NEW how, Closes(u, S, how)
  PROVE  BatchesFit' /\ HeldFits' /\ batch' \in [Users -> Batch]
<1>0. batch' = [batch EXCEPT ![u] = NoBatch]
  BY DEF Closes
<1>1. Types /\ BatchesFit /\ u \in Users /\ batch' = [batch EXCEPT ![u] = NoBatch]
  BY <1>0, ClosesFates DEF IInv
<1>2. /\ batch' \in [Users -> Batch] /\ batch'[u] = NoBatch
      /\ \A v \in Users : v # u => batch'[v] = batch[v]
      /\ \A v \in Users : Open(v)' <=> v # u /\ Open(v)
      /\ IsFiniteSet(OpenUsers') /\ Cardinality(OpenUsers') <= MaxActive
  BY <1>1, ClosedBatch
<1>3. BatchesFit'
  <2>1. \A v \in Users : BatchFits(batch'[v])
    BY <1>1, <1>2, NoBatchFits DEF BatchesFit
  <2>2. ASSUME NEW v \in Users, Open(v)' PROVE ~AtLimit(batch'[v])
    <3>1. v # u /\ Open(v) /\ ~Ripe(v)
      BY <1>2, <2>2 DEF Ripe, Closes
    <3> QED BY <1>1, <1>2, <3>1 DEF BatchesFit
  <2>3. ASSUME NEW v \in Users, barrier'[v] # <<>> PROVE ~Open(v)'
    <3>1. v = u \/ barrier[v] # <<>>
      BY <2>3 DEF Closes
    <3> QED BY <1>1, <1>2, <3>1 DEF BatchesFit
  <2>4. \A v \in Users : BatchFits(batch[v])'
    BY <2>1 DEF BatchFits
  <2> QED BY <1>2, <2>2, <2>3, <2>4 DEF BatchesFit, AtLimit
<1>4. HeldFits'
  <2>1. ASSUME NEW v \in Users, NEW i \in 1 .. Len(batch'[v].msgs)
        PROVE  fate'[batch'[v].msgs[i]] = "held" /\ UserOf[batch'[v].msgs[i]] = v
    <3>0. Len(NoBatch.msgs) = 0
      BY NoBatchFits
    <3>1. v # u /\ batch'[v] = batch[v]
      BY <1>2, <2>1, <3>0
    <3>2. batch[v].msgs[i] \in Messages
      BY <1>1, <2>1, <3>1, BatchType
    <3>3. fate[batch[v].msgs[i]] = "held" /\ UserOf[batch[v].msgs[i]] = v
      BY <2>1, <3>1 DEF IInv, HeldFits
    <3> QED BY <3>1, <3>2, <3>3, ClosesFates
  <2>2. ASSUME NEW m \in Messages, fate'[m] = "held" PROVE m \in Held(UserOf[m])'
    <3>0. Held(u) \subseteq S
      BY DEF Closes
    <3>1. m \notin S /\ fate[m] = "held" /\ UserOf[m] \in Users
      BY <2>2, ClosesFates, ConstTypes
    <3>2. m \in Held(UserOf[m]) /\ UserOf[m] # u
      BY <3>0, <3>1, HeldIs
    <3> QED BY <1>2, <3>1, <3>2 DEF Held
  <2> QED BY <2>1, <2>2 DEF HeldFits
<1> QED BY <1>2, <1>3, <1>4

LEMMA ClosesRest ==
  ASSUME IInv, NEW u, NEW S, NEW how, Closes(u, S, how)
  PROVE  FlightFits' /\ KeysFit' /\ seen' \in [Keys -> Marks] /\ ClosingFits' /\ OpenBatchIsTimed'
<1>1. Types /\ FlightFits /\ ClosingFits /\ OpenBatchIsTimed /\ u \in Users
  BY ClosesFates DEF IInv
<1>2. FlightFits'
  <2>1. \A m \in Messages : fate'[m] = "sent" <=> fate[m] = "sent" /\ m \notin S
    BY ClosesFates
  <2>2. \A i \in 1 .. Len(inbox) : inbox[i].kind = "c2c" => busy.stage \notin Handling
    BY <1>1 DEF FlightFits
  <2>3. \A i \in 1 .. Len(inbox) : inbox[i].kind = "c2c" => inbox[i].msg \in Messages
    BY <1>1, ElementOfSeq, CommandCases DEF Types
  <2>4. \A i \in 1 .. Len(inbox) : inbox[i].kind = "c2c" =>
          fate'[inbox[i].msg] = "sent" /\ busy'.stage \notin Handling
    <3> SUFFICES ASSUME NEW i \in 1 .. Len(inbox), inbox[i].kind = "c2c"
                 PROVE  fate'[inbox[i].msg] = "sent" /\ busy'.stage \notin Handling
      OBVIOUS
    <3>1. busy.stage \notin Handling /\ fate[inbox[i].msg] = "sent" /\ inbox[i].msg \in Messages
      BY <1>1, <2>2, <2>3 DEF FlightFits
    <3>2. inbox[i].msg \notin S
      BY <3>1, ClosesFates
    <3>3. busy' = Idle
      <4>1. busy.stage # "flush"
        BY <3>1 DEF Handling
      <4> QED BY <4>1 DEF Closes
    <3> QED BY <2>1, <3>1, <3>2, <3>3, IdleType
  <2>5. \A m \in Messages : fate'[m] = "sent" =>
          /\ (busy'.stage \in Handling /\ busy'.msg = m) \/ \E i \in 1 .. Len(inbox) : inbox[i] = C2c(m)
          /\ closing = "no" /\ arrived # <<>> /\ arrived[Len(arrived)] = m
    BY <1>1, <2>1, ClosesBusy DEF FlightFits
  <2>6. UNCHANGED <<inbox, arrived, closing>>
    BY DEF Closes
  <2> QED BY <1>1, <2>4, <2>5, <2>6 DEF FlightFits
<1>3. KeysFit' /\ seen' \in [Keys -> Marks]
  <2>1. S \in SUBSET Messages /\ \A m \in S : Keeps(m)
    BY ClosesFates
  <2>2. \A m \in S : ~Keeps(m)'
    <3>1. \A m \in S : fate'[m] # "held" /\ ~(busy'.stage \in Handling /\ busy'.msg = m)
      BY <2>1, ClosesFates, ClosesBusy
    <3> QED BY <3>1 DEF Keeps
  <2>3. \A m \in Messages \ S : (Keeps(m)' <=> Keeps(m)) /\ fate'[m] = fate[m]
    <3>1. \A m \in Messages \ S : /\ fate'[m] = fate[m]
                                  /\ (busy'.stage \in Handling /\ busy'.msg = m)
                                       <=> (busy.stage \in Handling /\ busy.msg = m)
      BY ClosesFates, ClosesBusy
    <3> QED BY <3>1 DEF Keeps
  <2>4. \/ seen' = [k \in Keys |-> IF k \in Dedupe!HeldBy(S) THEN Dedupe!Committed ELSE seen[k]]
        \/ /\ seen' = [k \in Keys |-> IF k \in Dedupe!HeldBy(S) THEN Dedupe!Free ELSE seen[k]]
           /\ \A m \in S : fate'[m] \notin {"handed", "cancelled"}
    <3>1. \A m \in S : fate'[m] = how
      BY ClosesFates
    <3>2. \/ Dedupe!Commit(S)
          \/ how \in {"refused", "dropped"} /\ Dedupe!Rollback(S)
      BY DEF Closes
    <3> QED BY <3>1, <3>2 DEF Dedupe!Commit, Dedupe!Rollback
  <2> QED BY <2>1, <2>2, <2>3, <2>4, SettledKeys
<1>4. ClosingFits'
  <2>1. closing # "stopped"
    BY <1>1, ClosesFates, IdleType DEF ClosingFits
  <2>0. how = "dropped" => closing \notin {"no", "asked"}
    BY DEF Closes
  <2>2. closing \in {"no", "asked"} => \A m \in Messages : fate'[m] # "dropped"
    <3>1. \A m \in Messages : fate'[m] = IF m \in S THEN how ELSE fate[m]
      BY ClosesFates
    <3> QED BY <1>1, <2>0, <3>1 DEF ClosingFits
  <2>3. UNCHANGED <<inbox, closing>>
    BY ClosesFates
  <2> QED BY <1>1, <2>1, <2>2, <2>3 DEF ClosingFits
<1>5. OpenBatchIsTimed'
  <2>1. \A v \in Users : Open(v)' <=> v # u /\ Open(v)
    BY <1>1, ClosedBatch DEF Closes
  <2>2. \A v \in Users : v # u => batch'[v] = batch[v]
    BY <1>1, ClosedBatch DEF Closes
  <2>3. busy.user = u /\ UNCHANGED <<inbox, timers, closing>>
    BY DEF Closes
  <2> QED BY <1>1, <2>1, <2>2, <2>3 DEF OpenBatchIsTimed, OpenUsers
<1> QED BY <1>2, <1>3, <1>4, <1>5

\* The lines of a step that hands on, or holds, a message or two.
LEMMA OrderAfter ==
  ASSUME IInv, UNCHANGED arrived,
         \A m \in Messages : fate'[m] = "new" <=> fate[m] = "new",
         \A v \in Users : \A i \in 1 .. Len(handed'[v]) : fate'[handed'[v][i]] = "handed",
         \A v \in Users : InOrder(handed'[v] \o batch'[v].msgs)
  PROVE  OrderFits'
<1>1. Types /\ OrderFits
  BY DEF IInv
<1>2. \A m : Position(m)' = Position(m)
  BY DEF Position
<1>3. \A i \in 1 .. Len(arrived) : arrived[i] \in Messages
  BY <1>1, ElementOfSeq DEF Types
<1>4. /\ \A i, j \in 1 .. Len(arrived') : arrived'[i] = arrived'[j] => i = j
      /\ \A i \in 1 .. Len(arrived') : fate'[arrived'[i]] # "new"
      /\ \A m \in Messages : fate'[m] # "new" => \E i \in 1 .. Len(arrived') : arrived'[i] = m
  BY <1>1, <1>3 DEF OrderFits
<1>5. \A v \in Users : InOrder(Line(v))'
  BY <1>2 DEF InOrder, Line
<1> QED BY <1>4, <1>5 DEF OrderFits

\* What the step hands on: nothing, the batch, or the message in hand alone.
Hands(u, S, how) ==
  \/ how # "handed" /\ handed' = handed
  \/ how = "handed" /\ S = Held(u) /\ handed' = [handed EXCEPT ![u] = @ \o batch[u].msgs]
  \/ /\ how = "handed" /\ S = {busy.msg} /\ busy.stage \in Handling /\ ~Open(u)
     /\ handed' = [handed EXCEPT ![u] = @ \o <<busy.msg>>]

LEMMA ClosesOrder ==
  ASSUME IInv, NEW u, NEW S, NEW how, Closes(u, S, how), Hands(u, S, how)
  PROVE  OrderFits' /\ handed' \in [Users -> Seq(Messages)]
<1>0. batch' = [batch EXCEPT ![u] = NoBatch]
  BY DEF Closes
<1>1. Types /\ OrderFits /\ u \in Users /\ UNCHANGED arrived /\ handed \in [Users -> Seq(Messages)]
  BY ClosesFates DEF IInv, Types
<1>2. /\ \A v \in Users : v # u => batch'[v] = batch[v]
      /\ batch'[u].msgs = <<>>
  BY <1>0, <1>1, ClosedBatch, NoBatchFits
<1>3. \A m \in Messages : /\ fate'[m] = "new" <=> fate[m] = "new"
                          /\ m \notin S => fate'[m] = fate[m]
                          /\ m \in S => fate'[m] = how /\ fate[m] \in {"held", "sent"}
  BY ClosesFates
<1>4. \A v \in Users : \A i \in 1 .. Len(handed[v]) :
        handed[v][i] \in Messages /\ fate[handed[v][i]] = "handed" /\ fate'[handed[v][i]] = "handed"
  <2> SUFFICES ASSUME NEW v \in Users, NEW i \in 1 .. Len(handed[v])
               PROVE  /\ handed[v][i] \in Messages /\ fate[handed[v][i]] = "handed"
                      /\ fate'[handed[v][i]] = "handed"
    OBVIOUS
  <2>1. handed[v][i] \in Messages /\ fate[handed[v][i]] = "handed"
    BY <1>1, ElementOfSeq DEF OrderFits
  <2> QED BY <1>3, <2>1
<1>5. CASE how # "handed" /\ handed' = handed
  <2>1. \A m \in Messages : fate[m] = "handed" => fate'[m] = "handed"
    BY <1>3
  <2>2. \A v \in Users : batch'[v].msgs \in {batch[v].msgs, <<>>}
    BY <1>2
  <2> QED BY <1>1, <1>3, <1>5, <2>1, <2>2, OrderKept
<1>6. CASE how = "handed" /\ S = Held(u) /\ handed' = [handed EXCEPT ![u] = @ \o batch[u].msgs]
  <2>1. batch[u].msgs \in Seq(Messages) /\ handed[u] \in Seq(Messages) /\ Line(u) \in Seq(Messages)
    BY <1>1, LineType
  <2>2. /\ handed'[u] = Line(u) /\ \A v \in Users : v # u => handed'[v] = handed[v]
        /\ handed' \in [Users -> Seq(Messages)]
    BY <1>1, <1>6, <2>1 DEF Line
  <2>3. \A i \in 1 .. Len(Line(u)) : fate'[Line(u)[i]] = "handed"
    <3> SUFFICES ASSUME NEW i \in 1 .. Len(Line(u)) PROVE fate'[Line(u)[i]] = "handed"
      OBVIOUS
    <3> DEFINE m == Line(u)[i]
    <3>1. \/ i \in 1 .. Len(handed[u]) /\ m = handed[u][i]
          \/ \E j \in 1 .. Len(batch[u].msgs) : m = batch[u].msgs[j]
      BY <2>1, JoinedIs DEF Line
    <3>2. CASE i \in 1 .. Len(handed[u]) /\ m = handed[u][i]
      BY <1>1, <1>4, <3>2
    <3>3. CASE \E j \in 1 .. Len(batch[u].msgs) : m = batch[u].msgs[j]
      <4>1. m \in Held(u) /\ m \in Messages
        BY <2>1, <3>3, MembersAre, ElementOfSeq DEF Held
      <4> QED BY <1>3, <1>6, <4>1
    <3> QED BY <3>1, <3>2, <3>3
  <2>4. \A v \in Users : \A i \in 1 .. Len(handed'[v]) : fate'[handed'[v][i]] = "handed"
    BY <1>4, <2>2, <2>3
  <2>5. \A v \in Users : InOrder(handed'[v] \o batch'[v].msgs)
    <3> SUFFICES ASSUME NEW v \in Users PROVE InOrder(handed'[v] \o batch'[v].msgs)
      OBVIOUS
    <3>1. InOrder(Line(v))
      BY <1>1 DEF OrderFits
    <3>2. CASE v = u
      <4>1. handed'[v] \o batch'[v].msgs = Line(u)
        BY <1>2, <2>1, <2>2, <3>2, ConcatEmptySeq
      <4> QED BY <3>1, <3>2, <4>1
    <3>3. CASE v # u
      BY <1>2, <2>2, <3>1, <3>3 DEF Line
    <3> QED BY <3>2, <3>3
  <2> QED BY <1>1, <1>3, <2>2, <2>4, <2>5, OrderAfter
<1>7. CASE /\ how = "handed" /\ S = {busy.msg} /\ busy.stage \in Handling /\ ~Open(u)
           /\ handed' = [handed EXCEPT ![u] = @ \o <<busy.msg>>]
  <2> DEFINE m == busy.msg
             r == Append(handed[u], m)
  <2>1. m \in Messages /\ fate[m] = "sent" /\ batch[u].msgs = <<>>
    BY <1>7 DEF IInv, BusyFits, Open
  <2>2. handed[u] \in Seq(Messages) /\ handed[u] \o <<m>> = r
    <3>1. handed[u] \in Seq(Messages)
      BY <1>1
    <3> QED BY <2>1, <3>1, AppendIsConcat
  <2>3. /\ r \in Seq(Messages) /\ Len(r) = Len(handed[u]) + 1 /\ Len(handed[u]) \in Nat
        /\ \A i \in 1 .. Len(handed[u]) : r[i] = handed[u][i]
        /\ r[Len(handed[u]) + 1] = m
    BY <2>1, <2>2, AppendProperties, LenProperties
  <2> HIDE DEF r
  <2>4. /\ handed'[u] = r /\ \A v \in Users : v # u => handed'[v] = handed[v]
        /\ handed' \in [Users -> Seq(Messages)]
    BY <1>1, <1>7, <2>2, <2>3
  <2>5. fate'[m] = "handed"
    BY <1>3, <1>7, <2>1
  <2>6. \A i \in 1 .. Len(r) : i \in 1 .. Len(handed[u]) \/ i = Len(handed[u]) + 1
    BY <2>3
  <2>7. \A v \in Users : \A i \in 1 .. Len(handed'[v]) : fate'[handed'[v][i]] = "handed"
    <3>1. \A i \in 1 .. Len(r) : fate'[r[i]] = "handed"
      BY <1>1, <1>4, <2>3, <2>5, <2>6
    <3> QED BY <1>4, <2>4, <3>1
  <2>8. InOrder(r)
    <3>1. handed[u] \o <<>> = handed[u]
      BY <2>2, ConcatEmptySeq
    <3>2. InOrder(handed[u])
      <4>1. InOrder(Line(u))
        BY <1>1 DEF OrderFits
      <4>2. Line(u) = handed[u]
        BY <2>1, <3>1 DEF Line
      <4> QED BY <4>1, <4>2
    <3>3. \A i \in 1 .. Len(handed[u]) : Position(handed[u][i]) < Position(m)
      BY <1>1, <1>4, <2>1, LastArrived
    <3> QED BY <2>3, <3>2, <3>3, JoinedInOrder
  <2>9. \A v \in Users : InOrder(handed'[v] \o batch'[v].msgs)
    <3> SUFFICES ASSUME NEW v \in Users PROVE InOrder(handed'[v] \o batch'[v].msgs)
      OBVIOUS
    <3>1. CASE v = u
      <4>1. handed'[v] \o batch'[v].msgs = r
        BY <1>2, <2>3, <2>4, <3>1, ConcatEmptySeq
      <4> QED BY <2>8, <4>1
    <3>2. CASE v # u
      BY <1>1, <1>2, <2>4, <3>2 DEF Line, OrderFits
    <3> QED BY <3>1, <3>2
  <2> QED BY <1>1, <1>3, <2>4, <2>7, <2>9, OrderAfter
<1> QED BY <1>5, <1>6, <1>7 DEF Hands

\* What such a step leaves to the dispatcher and the barriers.
Turned ==
  /\ TurnsFit' /\ queue' \in [Users -> Seq(Messages)] /\ running' \in [Users -> Messages \cup {None}]
  /\ answer' \in [Messages -> {"none", "accepted", "refused"}]
  /\ BarriersFit' /\ barrier' \in [Users -> Seq(Pending)] /\ acks' \subseteq Messages

LEMMA ClosesIInv ==
  ASSUME IInv, NEW u, NEW S, NEW how, Closes(u, S, how), Hands(u, S, how), Turned
  PROVE  IInv'
<1>1. UNCHANGED <<inbox, timers, arrived, closing>> /\ fate' \in [Messages -> Fates]
  BY ClosesFates
<1>2. BusyFits' /\ RoomFits' /\ busy' \in Busy
  BY ClosesBusy
<1>3. BatchesFit' /\ HeldFits' /\ batch' \in [Users -> Batch]
  BY ClosesBatches
<1>4. FlightFits' /\ KeysFit' /\ seen' \in [Keys -> Marks] /\ ClosingFits' /\ OpenBatchIsTimed'
  BY ClosesRest
<1>5. OrderFits' /\ handed' \in [Users -> Seq(Messages)]
  BY ClosesOrder
<1>6. Types
  BY DEF IInv
<1>7. Types'
  BY <1>1, <1>2, <1>3, <1>4, <1>5, <1>6 DEF Types, Turned
<1> QED BY <1>2, <1>3, <1>4, <1>5, <1>7 DEF IInv, Turned

LEMMA Alone ==
  ASSUME NEW m \in Messages
  PROVE  /\ <<m>> \in Seq(Messages) /\ <<m>> # <<>> /\ Last(<<m>>) = m /\ ToSet(<<m>>) = {m}
<1>1. <<m>> \in Seq(Messages) /\ Len(<<m>>) = 1 /\ <<m>>[1] = m /\ 1 .. 1 = {1}
  OBVIOUS
<1>2. \A n : n \in ToSet(<<m>>) <=> n = m
  <2>1. \A n : n \in ToSet(<<m>>) <=> \E i \in 1 .. Len(<<m>>) : <<m>>[i] = n
    BY <1>1, MembersAre
  <2>2. \A i \in 1 .. Len(<<m>>) : i = 1
    BY <1>1
  <2> QED BY <1>1, <2>1, <2>2
<1> QED BY <1>1, <1>2 DEF Last

\* The dispatcher takes, or turns down, a turn and no barrier comes of it.
LEMMA AcceptTurns ==
  ASSUME IInv, NEW q \in Seq(Messages), q # <<>>,
         Dispatcher!Accept(Last(q)) \/ Dispatcher!Refuse(Last(q)), UNCHANGED <<barrier, acks>>
  PROVE  Turned
<1>1. Types /\ Last(q) \in Messages
  BY LastIs DEF IInv
<1>2. /\ TurnsFit' /\ queue' \in [Users -> Seq(Messages)] /\ running' \in [Users -> Messages \cup {None}]
      /\ answer' \in [Messages -> {"none", "accepted", "refused"}]
      /\ \A n \in Messages : answer[n] = "accepted" =>
           answer'[n] = "accepted" /\ (Unended(n)' => Unended(n))
  <2>1. CASE Dispatcher!Accept(Last(q))
    BY <1>1, <2>1, AcceptFits
  <2>2. CASE Dispatcher!Refuse(Last(q))
    <3>1. /\ TurnsFit' /\ UNCHANGED <<queue, running>>
          /\ answer' \in [Messages -> {"none", "accepted", "refused"}]
          /\ \A n \in Messages : answer[n] = "accepted" =>
               answer'[n] = "accepted" /\ (Unended(n)' => Unended(n))
      BY <1>1, <2>2, RefuseFits
    <3> QED BY <1>1, <3>1 DEF Types
  <2> QED BY <2>1, <2>2
<1>3. BarriersFit'
  BY <1>2, BarriersKept
<1>4. barrier' \in [Users -> Seq(Pending)] /\ acks' \subseteq Messages
  BY <1>1 DEF Types
<1> QED BY <1>2, <1>3, <1>4 DEF Turned

\* The message in hand: of the user in hand, and in no batch.
LEMMA InHand ==
  ASSUME IInv, busy.stage \in Handling
  PROVE  /\ busy.user \in Users /\ busy.msg \in Messages /\ UserOf[busy.msg] = busy.user
         /\ fate[busy.msg] = "sent" /\ busy.msg \notin Held(busy.user)
         /\ closing = "no" /\ busy # Idle /\ busy.stage # "idle" /\ busy.stage # "seal"
<1>1. busy.stage # "idle" /\ busy.stage # "seal" /\ busy # Idle
  BY IdleType DEF Handling
<1>2. /\ busy.user \in Users /\ busy.msg \in Messages /\ UserOf[busy.msg] = busy.user
      /\ fate[busy.msg] = "sent"
  BY <1>1 DEF IInv, BusyFits
<1>3. busy.msg \notin Held(busy.user)
  BY <1>2, HeldIs
<1>4. closing = "no"
  BY <1>2 DEF IInv, FlightFits
<1> QED BY <1>1, <1>2, <1>3, <1>4

LEMMA NoBatchIs ==
  ASSUME IInv, NEW u \in Users, ~Open(u)
  PROVE  batch = [batch EXCEPT ![u] = NoBatch] /\ Held(u) = {}
<1>1. batch[u] = NoBatch /\ batch \in [Users -> Batch]
  BY DEF IInv, BatchesFit, BatchFits, Open, Types
<1> QED BY <1>1, HeldIs

\* The actor goes on with the message in hand.
LEMMA GoesOn ==
  ASSUME IInv, busy.stage \in Handling, busy' \in Busy, busy'.stage \in Handling,
         busy'.msg = busy.msg, busy'.user = busy.user, BusyFits', RoomFits', Turned,
         \A v \in Users : barrier[v] = <<>> => barrier'[v] = <<>>,
         UNCHANGED <<inbox, batch, timers, seen, fate, arrived, handed, closing>>
  PROVE  IInv'
<1>1. Types'
  BY DEF IInv, Types, Turned
<1>2. BatchesFit'
  <2>1. busy.stage # "seal" /\ busy'.stage # "seal"
    BY DEF Handling
  <2> QED BY <2>1 DEF IInv, BatchesFit, Open, OpenUsers, Ripe, AtLimit, BatchFits
<1>3. HeldFits' /\ FlightFits'
  BY DEF IInv, HeldFits, FlightFits, Held
<1>4. KeysFit'
  <2>1. UNCHANGED seen /\ \A m \in Messages : (Keeps(m)' <=> Keeps(m)) /\ fate'[m] = fate[m]
    BY DEF Keeps
  <2> QED BY <2>1, KeysKept
<1>5. OrderFits'
  BY OrderKept
<1>6. ClosingFits'
  <2>1. closing = "no"
    BY InHand
  <2> QED BY <2>1 DEF IInv, ClosingFits
<1>7. OpenBatchIsTimed'
  <2>1. busy.stage # "seal"
    BY DEF Handling
  <2> QED BY <2>1 DEF IInv, OpenBatchIsTimed, OpenUsers, Open
<1> QED BY <1>1, <1>2, <1>3, <1>4, <1>5, <1>6, <1>7 DEF IInv, Turned

LEMMA CancelStep ==
  ASSUME IInv, busy.stage = "decide", NEW D \in SUBSET acks, acks' = acks \ D,
         barrier' = Released(D), CancelBatch,
         UNCHANGED <<inbox, timers, mailbox, arrived, handed, closing>>
  PROVE  IInv'
<1> DEFINE u == busy.user
           S == Held(u) \cup {busy.msg}
<1>1. busy.stage \in Handling
  BY DEF Handling
<1>2. UNCHANGED <<queue, running, answer>>
  BY DEF mailbox
<1>3. /\ BarriersFit' /\ barrier' \in [Users -> Seq(Pending)] /\ acks' \subseteq Messages
      /\ \A v \in Users : barrier[v] = <<>> => barrier'[v] = <<>>
  BY <1>2, ReleasedFits
<1>4. Turned
  <2>1. TurnsFit'
    BY <1>2 DEF IInv, TurnsFit
  <2> QED BY <1>2, <1>3, <2>1 DEF Turned, IInv, Types
<1>5. Closes(u, S, "cancelled")
  BY <1>1, <1>3 DEF Closes, CancelBatch
<1>6. Hands(u, S, "cancelled")
  BY DEF Hands
<1> HIDE DEF u, S
<1> QED BY <1>4, <1>5, <1>6, ClosesIInv

LEMMA FlushStep == ASSUME IInv, Flush PROVE IInv'
<1> DEFINE u == busy.user
           q == batch[u].msgs
<1>1. busy.stage = "flush" /\ busy.stage \in Handling
      /\ UNCHANGED <<inbox, barrier, acks, timers, arrived, closing>>
  BY DEF Flush, Handling
<1>2. /\ u \in Users /\ busy.msg \in Messages /\ UserOf[busy.msg] = u
      /\ fate[busy.msg] = "sent" /\ busy.msg \notin Held(u) /\ Held(u) \subseteq Messages
      /\ busy.then \in {"barrier", "plain", "hold"}
  BY <1>1, InHand, HeldIs DEF IInv, BusyFits
<1>3. CASE ~Open(u) /\ GoOn(busy.then) /\ UNCHANGED <<mailbox, seen, fate, handed, batch>>
  <2>1. busy.then # "hold" /\ busy \in Busy
    BY <1>1, <1>3 DEF IInv, RoomFits, Types
  <2>2. /\ busy' \in Busy /\ busy'.stage = busy.then /\ busy'.stage \in {"barrier", "plain"}
        /\ busy'.msg = busy.msg /\ busy'.user = u
    BY <1>2, <1>3, <2>1 DEF GoOn, Busy, Handling
  <2>3. BusyFits' /\ RoomFits' /\ busy'.stage \in Handling
    BY <1>2, <1>3, <2>2 DEF BusyFits, RoomFits, Handling, Open
  <2>4. Turned
    BY <1>1, <1>3, BarriersKept DEF IInv, Types, Turned, TurnsFit, mailbox, Unended
  <2> QED BY <1>1, <1>3, <2>2, <2>3, <2>4, GoesOn
<1>4. ASSUME Open(u) PROVE q \in Seq(Messages) /\ q # <<>> /\ ToSet(q) = Held(u)
  BY <1>2, <1>4, LineType DEF IInv, Open, Held
<1>5. CASE /\ Open(u) /\ HandOn(u, q) /\ Becomes(Held(u), "handed")
           /\ batch' = [batch EXCEPT ![u] = NoBatch] /\ GoOn(busy.then)
  <2>1. Turned
    BY <1>1, <1>4, <1>5, AcceptTurns DEF HandOn
  <2>2. Closes(u, Held(u), "handed")
    BY <1>1, <1>2, <1>4, <1>5 DEF Closes, HandOn, GoOn
  <2>3. Hands(u, Held(u), "handed")
    BY <1>5 DEF Hands, HandOn
  <2> HIDE DEF u, q
  <2> QED BY <2>1, <2>2, <2>3, ClosesIInv
<1>6. CASE /\ Open(u) /\ TurnDown(q, Held(u) \cup {busy.msg}, "refused")
           /\ batch' = [batch EXCEPT ![u] = NoBatch] /\ busy' = Idle
  <2> DEFINE S == Held(u) \cup {busy.msg}
  <2>1. Turned
    BY <1>1, <1>4, <1>6, AcceptTurns DEF TurnDown
  <2>2. Closes(u, S, "refused")
    BY <1>1, <1>2, <1>6 DEF Closes, TurnDown
  <2>3. Hands(u, S, "refused")
    BY <1>6 DEF Hands, TurnDown
  <2> HIDE DEF u, q, S
  <2> QED BY <2>1, <2>2, <2>3, ClosesIInv
<1> QED BY <1>3, <1>5, <1>6 DEF Flush

LEMMA DispatchStep == ASSUME IInv, Dispatch PROVE IInv'
<1> DEFINE u == busy.user
           m == busy.msg
<1>1. /\ busy.stage \in {"barrier", "plain"} /\ busy.stage \in Handling /\ busy' = Idle
      /\ UNCHANGED <<inbox, batch, acks, timers, arrived, closing>>
  BY DEF Dispatch, Handling
<1>2. u \in Users /\ m \in Messages /\ UserOf[m] = u
  BY <1>1, InHand
<1>3. ~Open(u)
  BY <1>1 DEF IInv, BusyFits
<1>4. batch' = [batch EXCEPT ![u] = NoBatch] /\ Held(u) = {}
  BY <1>1, <1>2, <1>3, NoBatchIs
<1>5. <<m>> \in Seq(Messages) /\ <<m>> # <<>> /\ Last(<<m>>) = m /\ ToSet(<<m>>) = {m}
  BY <1>2, Alone
<1>6. CASE /\ HandOn(u, <<m>>) /\ Becomes({m}, "handed")
           /\ barrier' = IF busy.stage = "barrier"
                         THEN [barrier EXCEPT ![u] = Append(@, [msg |-> m, resolved |-> FALSE])]
                         ELSE barrier
  <2>1. Turned
    <3>1. CASE busy.stage = "barrier"
      <4>1. barrier' = [barrier EXCEPT ![UserOf[m]] = Append(@, [msg |-> m, resolved |-> FALSE])]
            /\ UNCHANGED acks /\ Dispatcher!Accept(m)
        BY <1>1, <1>2, <1>5, <1>6, <3>1 DEF HandOn
      <4>2. /\ TurnsFit'
            /\ queue' \in [Users -> Seq(Messages)] /\ running' \in [Users -> Messages \cup {None}]
            /\ answer' \in [Messages -> {"none", "accepted", "refused"}]
            /\ answer[m] = "none" /\ answer'[m] = "accepted"
            /\ \A n \in Messages : answer[n] = "accepted" =>
                 answer'[n] = "accepted" /\ (Unended(n)' => Unended(n))
        BY <1>2, <4>1, AcceptFits
      <4>3. BarriersFit' /\ barrier' \in [Users -> Seq(Pending)]
        BY <1>2, <4>1, <4>2, BarrierAdded
      <4> QED BY <4>1, <4>2, <4>3 DEF Turned, IInv, Types
    <3>2. CASE busy.stage # "barrier"
      BY <1>1, <1>5, <1>6, <3>2, AcceptTurns DEF HandOn
    <3> QED BY <3>1, <3>2
  <2>2. \A v \in Users : v # u /\ barrier[v] = <<>> => barrier'[v] = <<>>
    BY <1>2, <1>6 DEF IInv, Types
  <2>3. Closes(u, {m}, "handed")
    BY <1>1, <1>4, <1>5, <1>6, <2>2 DEF Closes, HandOn
  <2>4. Hands(u, {m}, "handed")
    BY <1>1, <1>3, <1>6 DEF Hands, HandOn
  <2> HIDE DEF u, m
  <2> QED BY <2>1, <2>3, <2>4, ClosesIInv
<1>7. CASE TurnDown(<<m>>, {m}, "refused") /\ UNCHANGED barrier
  <2>1. Turned
    BY <1>1, <1>5, <1>7, AcceptTurns DEF TurnDown
  <2>2. Closes(u, {m}, "refused")
    BY <1>1, <1>4, <1>7 DEF Closes, TurnDown
  <2>3. Hands(u, {m}, "refused")
    BY <1>7 DEF Hands, TurnDown
  <2> HIDE DEF u, m
  <2> QED BY <2>1, <2>2, <2>3, ClosesIInv
<1> QED BY <1>6, <1>7 DEF Dispatch

LEMMA SealStep == ASSUME IInv, Seal PROVE IInv'
<1> DEFINE u == busy.user
           q == batch[u].msgs
           how == IF closing \in {"no", "asked"} THEN "refused" ELSE "dropped"
<1>1. /\ busy.stage = "seal" /\ busy.stage \notin Handling /\ busy' = Idle
      /\ batch' = [batch EXCEPT ![u] = NoBatch]
      /\ UNCHANGED <<inbox, barrier, acks, timers, arrived, closing>>
  BY DEF Seal, Handling
<1>2. u \in Users /\ Open(u) /\ how \in {"refused", "dropped"} /\ how # "handed"
      /\ (how = "dropped" => closing \notin {"no", "asked"})
  BY <1>1 DEF IInv, BusyFits
<1>3. q \in Seq(Messages) /\ q # <<>> /\ ToSet(q) = Held(u)
  BY <1>2, LineType DEF IInv, Open, Held
<1>4. CASE HandOn(u, q) /\ Becomes(Held(u), "handed")
  <2>1. Turned
    BY <1>1, <1>3, <1>4, AcceptTurns DEF HandOn
  <2>2. Closes(u, Held(u), "handed")
    BY <1>1, <1>3, <1>4 DEF Closes, HandOn
  <2>3. Hands(u, Held(u), "handed")
    BY <1>4 DEF Hands, HandOn
  <2> HIDE DEF u, q
  <2> QED BY <2>1, <2>2, <2>3, ClosesIInv
<1>5. CASE TurnDown(q, Held(u), how)
  <2> HIDE DEF how
  <2>1. Turned
    BY <1>1, <1>3, <1>5, AcceptTurns DEF TurnDown
  <2>2. Closes(u, Held(u), how)
    BY <1>1, <1>2, <1>5 DEF Closes, TurnDown
  <2>3. Hands(u, Held(u), how)
    BY <1>2, <1>5 DEF Hands, TurnDown
  <2> HIDE DEF u, q
  <2> QED BY <2>1, <2>2, <2>3, ClosesIInv
<1> QED BY <1>4, <1>5 DEF Seal

-----------------------------------------------------------------------------
(* The loop, the commands and the shutdown. *)

LEMMA TurnedKept ==
  ASSUME IInv, UNCHANGED <<mailbox, barrier, acks>>
  PROVE  Turned
<1>1. UNCHANGED <<queue, running, answer, barrier, acks>>
  BY DEF mailbox
<1> QED BY <1>1, BarriersKept DEF IInv, Types, Turned, TurnsFit, Unended

\* The actor has nothing in hand, and what is in the channel is told by its place.
LEMMA NotInHand ==
  ASSUME IInv, busy.msg = None
  PROVE  busy.stage \notin Handling /\ ~(busy.stage \in {"barrier", "plain", "hold", "flush"})
<1>1. busy.stage \in Handling => busy.msg \in Messages
  BY DEF IInv, BusyFits
<1> QED BY <1>1, ConstTypes DEF Handling

LEMMA NoneSent ==
  ASSUME IInv, \A n \in Messages : fate[n] # "sent"
  PROVE  \A i \in 1 .. Len(inbox) : inbox[i].kind # "c2c"
<1>1. \A i \in 1 .. Len(inbox) : inbox[i].kind = "c2c" =>
        inbox[i].msg \in Messages /\ fate[inbox[i].msg] = "sent"
  BY ElementOfSeq, CommandCases DEF IInv, Types, FlightFits
<1> QED BY <1>1

\* No timer, and no timer's command, is gone for an open batch.
LEMMA TimedKept ==
  ASSUME IInv, closing' \in {"no", "asked"} => closing \in {"no", "asked"},
         UNCHANGED batch, \A u \in Users : Ripe(u) => Ripe(u)',
         timers \subseteq timers', inbox' \in Seq(Commands),
         \A u \in Users : \A g : (\E i \in 1 .. Len(inbox) : inbox[i] = Timer(u, g))
                              => \E i \in 1 .. Len(inbox') : inbox'[i] = Timer(u, g)
  PROVE  OpenBatchIsTimed'
<1>1. DOMAIN inbox = 1 .. Len(inbox) /\ DOMAIN inbox' = 1 .. Len(inbox')
  BY LenProperties DEF IInv, Types
<1>2. ASSUME closing' \in {"no", "asked"}, NEW u \in Users, Open(u)
      PROVE  \/ Ripe(u)'
             \/ \E t \in timers' : t.user = u /\ t.gen = batch[u].gen
             \/ \E i \in DOMAIN inbox' : inbox'[i] = Timer(u, batch[u].gen)
  <2>1. \/ Ripe(u)
        \/ \E t \in timers : t.user = u /\ t.gen = batch[u].gen
        \/ \E i \in 1 .. Len(inbox) : inbox[i] = Timer(u, batch[u].gen)
    BY <1>1, <1>2 DEF IInv, OpenBatchIsTimed, OpenUsers, Ripe
  <2> QED BY <1>1, <2>1
<1> QED BY <1>2 DEF OpenBatchIsTimed, OpenUsers, Open, Ripe

LEMMA ReceiveStep == ASSUME IInv, NEW m \in Messages, Receive(m) PROVE IInv'
<1>1. /\ closing = "no" /\ busy.msg = None /\ fate[m] = "new" /\ \A n \in Messages : fate[n] # "sent"
      /\ inbox' = Append(inbox, C2c(m)) /\ fate' = [fate EXCEPT ![m] = "sent"]
      /\ arrived' = Append(arrived, m)
      /\ UNCHANGED <<busy, batch, barrier, acks, timers, seen, mailbox, handed, closing>>
  BY DEF Receive
<1>2. Types /\ C2c(m) \in Commands
  BY DEF IInv, Commands
<1>3. /\ inbox' \in Seq(Commands) /\ Len(inbox') = Len(inbox) + 1 /\ Len(inbox) \in Nat
      /\ inbox'[Len(inbox) + 1] = C2c(m) /\ \A i \in 1 .. Len(inbox) : inbox'[i] = inbox[i]
  BY <1>1, <1>2, AddedCommand DEF Types
<1>4. /\ arrived' \in Seq(Messages) /\ Len(arrived') = Len(arrived) + 1 /\ Len(arrived) \in Nat
      /\ arrived'[Len(arrived) + 1] = m /\ \A i \in 1 .. Len(arrived) : arrived'[i] = arrived[i]
      /\ \A i \in 1 .. Len(arrived) : arrived[i] \in Messages
  BY <1>1, <1>2, AppendProperties, LenProperties, ElementOfSeq DEF Types
<1>5. /\ fate' \in [Messages -> Fates] /\ fate'[m] = "sent"
      /\ \A n \in Messages : n # m => fate'[n] = fate[n]
  BY <1>1, <1>2 DEF Types, Fates
<1>6. Turned
  BY <1>1, TurnedKept
<1>7. Types'
  BY <1>1, <1>2, <1>3, <1>4, <1>5, <1>6 DEF Types, Turned
<1>8. BusyFits' /\ RoomFits'
  BY <1>1, NotInHand, ConstTypes
     DEF IInv, BusyFits, RoomFits, Open, Overflows, TooManyActive, OpenUsers, Handling
<1>9. BatchesFit'
  BY <1>1 DEF IInv, BatchesFit, Open, OpenUsers, Ripe, AtLimit
<1>10. HeldFits'
  <2>1. \A v \in Users : \A i \in 1 .. Len(batch[v].msgs) :
          batch[v].msgs[i] \in Messages /\ fate[batch[v].msgs[i]] = "held"
    BY <1>2, BatchType DEF IInv, HeldFits
  <2> QED BY <1>1, <1>5, <2>1 DEF IInv, HeldFits, Held
<1>11. FlightFits'
  <2>1. \A i \in 1 .. Len(inbox') : inbox'[i].kind = "c2c" => i = Len(inbox) + 1
    <3>1. \A i \in 1 .. Len(inbox') : i \in 1 .. Len(inbox) \/ i = Len(inbox) + 1
      BY <1>3
    <3> QED BY <1>1, <1>3, <3>1, NoneSent
  <2>2. \A i \in 1 .. Len(inbox') : inbox'[i].kind = "c2c" => fate'[inbox'[i].msg] = "sent"
    BY <1>3, <1>5, <2>1, CommandFields
  <2>3. \A n \in Messages : fate'[n] = "sent" => n = m
    BY <1>1, <1>5
  <2>4. Len(inbox) + 1 \in 1 .. Len(inbox') /\ arrived' # <<>> /\ arrived'[Len(arrived')] = m
    BY <1>3, <1>4
  <2>5. \E i \in 1 .. Len(inbox') : inbox'[i] = C2c(m)
    BY <1>3, <2>4
  <2> QED BY <1>1, <2>1, <2>2, <2>3, <2>4, <2>5, NotInHand DEF FlightFits
<1>12. KeysFit'
  <2>1. \A n \in Messages : /\ Keeps(n)' <=> Keeps(n)
                            /\ fate'[n] \in {"handed", "cancelled"} <=> fate[n] \in {"handed", "cancelled"}
    BY <1>1, <1>5 DEF Keeps
  <2> QED BY <1>1, <2>1, KeysKept
<1>13. OrderFits'
  <2>1. \A i \in 1 .. Len(arrived') : i \in 1 .. Len(arrived) \/ i = Len(arrived) + 1
    BY <1>4
  <2>2. \A i \in 1 .. Len(arrived) : arrived[i] # m /\ fate[arrived[i]] # "new"
    BY <1>1 DEF IInv, OrderFits
  <2>3. \A i, j \in 1 .. Len(arrived') : arrived'[i] = arrived'[j] => i = j
    BY <1>4, <2>1, <2>2 DEF IInv, OrderFits
  <2>4. \A i \in 1 .. Len(arrived') : fate'[arrived'[i]] # "new"
    BY <1>4, <1>5, <2>1, <2>2
  <2>5. \A i \in 1 .. Len(arrived) : i \in 1 .. Len(arrived')
        /\ Len(arrived) + 1 \in 1 .. Len(arrived')
    BY <1>4
  <2>6. \A n \in Messages : fate'[n] # "new" => \E i \in 1 .. Len(arrived') : arrived'[i] = n
    <3> SUFFICES ASSUME NEW n \in Messages, fate'[n] # "new"
                 PROVE  \E i \in 1 .. Len(arrived') : arrived'[i] = n
      OBVIOUS
    <3>1. CASE n = m
      <4>1. Len(arrived) + 1 \in 1 .. Len(arrived')
        BY <1>4
      <4> QED BY <1>4, <3>1, <4>1
    <3>2. CASE n # m
      <4>1. PICK i \in 1 .. Len(arrived) : arrived[i] = n
        BY <1>5, <3>2 DEF IInv, OrderFits
      <4> QED BY <1>4, <2>5, <4>1
    <3> QED BY <3>1, <3>2
  <2>7. \A v \in Users : \A i \in 1 .. Len(handed'[v]) : fate'[handed'[v][i]] = "handed"
    <3>1. \A v \in Users : \A i \in 1 .. Len(handed[v]) :
            handed[v][i] \in Messages /\ fate[handed[v][i]] = "handed"
      BY <1>2, LineType, ElementOfSeq DEF IInv, OrderFits
    <3> QED BY <1>1, <1>5, <3>1
  <2>8. ASSUME NEW v \in Users PROVE InOrder(Line(v))'
    <3>1. \A n : n \in Messages /\ fate[n] \in {"held", "handed"} => Position(n)' = Position(n)
      <4> SUFFICES ASSUME NEW n \in Messages, fate[n] \in {"held", "handed"}
                   PROVE  Position(n)' = Position(n)
        OBVIOUS
      <4>1. PICK i \in 1 .. Len(arrived) : arrived[i] = n
        BY DEF IInv, OrderFits
      <4>2. Position(n) = i
        BY <1>2, <4>1, PositionIs DEF IInv, OrderFits
      <4>3. i \in DOMAIN arrived' /\ arrived'[i] = n
            /\ \A j \in DOMAIN arrived' : arrived'[j] = n => j = i
        <5>1. DOMAIN arrived' = 1 .. Len(arrived')
          BY <1>4, LenProperties
        <5> QED BY <1>4, <2>3, <2>5, <4>1, <5>1
      <4>4. \A k : k = n => Position(k)' = i
        BY <4>3 DEF Position
      <4> QED BY <4>2, <4>4
    <3>2. \A i \in 1 .. Len(Line(v)) : Line(v)[i] \in Messages /\ fate[Line(v)[i]] \in {"held", "handed"}
      BY LineFates
    <3>3. \A i \in 1 .. Len(Line(v)) : \A k : k = Line(v)[i] => Position(k)' = Position(k)
      BY <3>1, <3>2
    <3>4. handed'[v] \o batch'[v].msgs = Line(v)
      BY <1>1 DEF Line
    <3>5. InOrder(Line(v))
      BY DEF IInv, OrderFits
    <3> QED BY <3>3, <3>4, <3>5 DEF InOrder, Line
  <2>9. \A v \in Users : InOrder(Line(v))'
    BY <2>8
  <2> QED BY <2>3, <2>4, <2>6, <2>7, <2>9 DEF OrderFits
<1>14. ClosingFits'
  <2>1. \A n \in Messages : fate'[n] # "dropped"
    BY <1>1, <1>5 DEF IInv, ClosingFits
  <2>2. ~\E i \in 1 .. Len(inbox') : inbox'[i] = Close
    <3>1. \A i \in 1 .. Len(inbox') : i \in 1 .. Len(inbox) \/ i = Len(inbox) + 1
      BY <1>3
    <3>2. C2c(m) # Close
      BY CommandFields
    <3> QED BY <1>1, <1>3, <3>1, <3>2 DEF IInv, ClosingFits
  <2> QED BY <1>1, <2>1, <2>2 DEF ClosingFits
<1>15. OpenBatchIsTimed'
  <2>1. \A i \in 1 .. Len(inbox) : i \in 1 .. Len(inbox')
    BY <1>3
  <2>2. \A v \in Users : Ripe(v) => Ripe(v)'
    BY <1>1 DEF Ripe
  <2> QED BY <1>1, <1>3, <2>1, <2>2, TimedKept
<1> QED BY <1>6, <1>7, <1>8, <1>9, <1>10, <1>11, <1>12, <1>13, <1>14, <1>15 DEF IInv, Turned

\* A step that moves no message.
LEMMA IdleStep ==
  ASSUME IInv, UNCHANGED <<batch, seen, fate, arrived, handed>>, Turned,
         \/ busy' = busy
         \/ busy = Idle /\ busy' \in Busy /\ busy'.stage \notin Handling /\ BusyFits',
         inbox' \in Seq(Commands), timers' \subseteq Sleepers,
         closing' \in {"no", "asked", "drain", "flush", "stopped"},
         \A v \in Users : barrier[v] = <<>> => barrier'[v] = <<>>,
         FlightFits', ClosingFits', OpenBatchIsTimed'
  PROVE  IInv'
<1>1. Types'
  BY DEF IInv, Types, Turned
<1>2. BusyFits'
  <2>1. CASE busy' = busy
    BY <2>1 DEF IInv, BusyFits, Open
  <2> QED BY <2>1
<1>3. RoomFits'
  <2>1. CASE busy' = busy
    <3>1. ASSUME busy.stage \in {"hold", "flush"}
          PROVE  barrier[busy.user] = <<>> => barrier'[busy.user] = <<>>
      <4>1. busy.stage \in Handling
        BY <3>1 DEF Handling
      <4> QED BY <4>1, InHand
    <3> QED BY <2>1, <3>1 DEF IInv, RoomFits, Open, Overflows, TooManyActive, OpenUsers
  <2>2. CASE busy'.stage \notin Handling
    BY <2>2 DEF RoomFits, Handling
  <2> QED BY <2>1, <2>2
<1>4. BatchesFit'
  <2>1. \A u \in Users : Ripe(u) => Ripe(u)'
    BY IdleType DEF Ripe, Idle
  <2> QED BY <2>1 DEF IInv, BatchesFit, Open, OpenUsers, AtLimit, BatchFits
<1>5. HeldFits'
  BY DEF IInv, HeldFits, Held
<1>6. KeysFit'
  <2>1. \A m \in Messages : (Keeps(m)' <=> Keeps(m)) /\ fate'[m] = fate[m]
    BY IdleType DEF Keeps
  <2> QED BY <2>1, KeysKept
<1>7. OrderFits'
  BY OrderKept
<1> QED BY <1>1, <1>2, <1>3, <1>4, <1>5, <1>6, <1>7 DEF IInv, Turned

LEMMA TakenFlight ==
  ASSUME IInv, busy = Idle, busy'.stage \notin Handling, inbox # <<>>, Head(inbox).kind # "c2c",
         inbox' = Tail(inbox), UNCHANGED <<fate, arrived>>, closing' = closing \/ closing # "no"
  PROVE  FlightFits'
<1>0. inbox \in Seq(Commands)
  BY DEF IInv, Types
<1>1. /\ inbox' \in Seq(Commands) /\ Len(inbox) \in Nat /\ Len(inbox) > 0
      /\ Len(inbox') = Len(inbox) - 1
      /\ \A i \in 1 .. Len(inbox') : inbox'[i] = inbox[i + 1]
      /\ \A c : c # Head(inbox) /\ (\E i \in 1 .. Len(inbox) : inbox[i] = c) =>
                  \E i \in 1 .. Len(inbox') : inbox'[i] = c
  BY <1>0, TakenCommand
<1>2. \A i \in 1 .. Len(inbox') : i + 1 \in 1 .. Len(inbox)
  BY <1>1
<1>3. \A i \in 1 .. Len(inbox') : inbox'[i].kind = "c2c" => fate'[inbox'[i].msg] = "sent"
  BY <1>1, <1>2 DEF IInv, FlightFits
<1>4. ASSUME NEW i \in 1 .. Len(inbox'), NEW j \in 1 .. Len(inbox'),
             inbox'[i].kind = "c2c", inbox'[j].kind = "c2c"
      PROVE  i = j
  <2>1. i + 1 = j + 1
    BY <1>1, <1>2, <1>4 DEF IInv, FlightFits
  <2> QED BY <2>1
<1>5. ASSUME NEW m \in Messages, fate[m] = "sent"
      PROVE  /\ \E i \in 1 .. Len(inbox') : inbox'[i] = C2c(m)
             /\ closing' = "no" /\ arrived # <<>> /\ arrived[Len(arrived)] = m
  <2>1. /\ \E i \in 1 .. Len(inbox) : inbox[i] = C2c(m)
        /\ closing = "no" /\ arrived # <<>> /\ arrived[Len(arrived)] = m
    BY <1>5, IdleType DEF IInv, FlightFits
  <2>2. C2c(m) # Head(inbox)
    BY CommandFields
  <2>3. \E i \in 1 .. Len(inbox') : inbox'[i] = C2c(m)
    <3> HIDE DEF IInv
    <3> QED BY <1>1, <2>1, <2>2
  <2> QED BY <2>1, <2>3
<1> QED BY <1>3, <1>4, <1>5 DEF FlightFits

\* No message is on its way, and none is put there.
LEMMA NoFlight ==
  ASSUME IInv, \A m \in Messages : fate[m] # "sent", UNCHANGED fate,
         \A i \in 1 .. Len(inbox') : inbox'[i].kind # "c2c"
  PROVE  FlightFits'
  BY DEF FlightFits

LEMMA AskToCloseStep == ASSUME IInv, AskToClose PROVE IInv'
<1>1. /\ closing = "no" /\ busy.msg = None /\ \A n \in Messages : fate[n] # "sent"
      /\ inbox' = Append(inbox, Close) /\ closing' = "asked"
      /\ UNCHANGED <<busy, batch, barrier, acks, timers, seen, mailbox, fate, arrived, handed>>
  BY DEF AskToClose
<1>2. Types /\ Close \in Commands /\ Close.kind # "c2c"
  BY CommandFields DEF IInv, Commands
<1>3. /\ inbox' \in Seq(Commands) /\ Len(inbox') = Len(inbox) + 1 /\ Len(inbox) \in Nat
      /\ inbox'[Len(inbox) + 1] = Close /\ \A i \in 1 .. Len(inbox) : inbox'[i] = inbox[i]
  BY <1>1, <1>2, AddedCommand DEF Types
<1>4. FlightFits'
  <2>1. \A i \in 1 .. Len(inbox') : i \in 1 .. Len(inbox) \/ i = Len(inbox) + 1
    BY <1>3
  <2>2. \A i \in 1 .. Len(inbox') : inbox'[i].kind # "c2c"
    BY <1>1, <1>2, <1>3, <2>1, NoneSent
  <2> QED BY <1>1, <2>2, NoFlight
<1>5. ClosingFits'
  BY <1>1 DEF IInv, ClosingFits
<1>6. OpenBatchIsTimed'
  <2>1. \A i \in 1 .. Len(inbox) : i \in 1 .. Len(inbox')
    BY <1>3
  <2>2. \A v \in Users : Ripe(v) => Ripe(v)'
    BY <1>1 DEF Ripe
  <2> QED BY <1>1, <1>3, <2>1, <2>2, TimedKept
<1>7. Turned
  BY <1>1, TurnedKept
<1> QED BY <1>1, <1>2, <1>3, <1>4, <1>5, <1>6, <1>7, IdleStep DEF Types

LEMMA TimerEndsStep == ASSUME IInv, NEW t \in timers, TimerEnds(t) PROVE IInv'
<1> DEFINE c == Timer(t.user, t.gen)
<1>1. /\ timers' = timers \ {t}
      /\ inbox' = IF closing \in {"no", "asked"} THEN Append(inbox, c) ELSE inbox
      /\ UNCHANGED <<busy, batch, barrier, acks, seen, mailbox, fate, arrived, handed, closing>>
  BY DEF TimerEnds
<1>2. Types /\ c \in Commands /\ c.kind # "c2c" /\ c # Close
  <2>1. t \in Sleepers
    BY DEF IInv, Types
  <2>2. t.user \in Users /\ t.gen \in 2 .. MaxMessages + 1
    BY <2>1 DEF Sleepers
  <2>3. c.kind = "timer" /\ Close.kind = "shutdown"
    BY CommandFields
  <2> QED BY <2>2, <2>3 DEF IInv, Commands
<1>3. Turned
  BY <1>1, TurnedKept
<1>4. CASE closing \notin {"no", "asked"}
  <2>1. FlightFits' /\ ClosingFits' /\ OpenBatchIsTimed'
    BY <1>1, <1>4 DEF IInv, FlightFits, ClosingFits, Open, OpenBatchIsTimed
  <2>2. inbox' \in Seq(Commands) /\ timers' \subseteq Sleepers
    BY <1>1, <1>2, <1>4 DEF Types
  <2> QED BY <1>1, <1>2, <1>3, <2>1, <2>2, IdleStep DEF Types
<1>5. CASE closing \in {"no", "asked"}
  <2>1. /\ inbox' \in Seq(Commands) /\ Len(inbox') = Len(inbox) + 1 /\ Len(inbox) \in Nat
        /\ inbox'[Len(inbox) + 1] = c /\ \A i \in 1 .. Len(inbox) : inbox'[i] = inbox[i]
    <3>1. inbox' = Append(inbox, c) /\ inbox \in Seq(Commands)
      BY <1>1, <1>2, <1>5 DEF Types
    <3> HIDE DEF c
    <3> QED BY <1>2, <3>1, AddedCommand
  <2>2. /\ \A i \in 1 .. Len(inbox') : i \in 1 .. Len(inbox) \/ i = Len(inbox) + 1
        /\ \A i \in 1 .. Len(inbox) : i \in 1 .. Len(inbox')
        /\ Len(inbox) + 1 \in 1 .. Len(inbox')
    BY <2>1
  <2>3. \A i \in 1 .. Len(inbox') : inbox'[i].kind = "c2c" => i \in 1 .. Len(inbox) /\ inbox[i].kind = "c2c"
    BY <1>2, <2>1, <2>2
  <2>4. FlightFits'
    <3>1. \A m \in Messages : (\E i \in 1 .. Len(inbox) : inbox[i] = C2c(m)) =>
            \E i \in 1 .. Len(inbox') : inbox'[i] = C2c(m)
      BY <2>1, <2>2
    <3>2. \A i \in 1 .. Len(inbox') : inbox'[i].kind = "c2c" => fate[inbox'[i].msg] = "sent"
      BY <2>1, <2>3 DEF IInv, FlightFits
    <3> QED BY <1>1, <2>3, <3>1, <3>2 DEF IInv, FlightFits
  <2>5. ClosingFits'
    <3>1. (\E i \in 1 .. Len(inbox') : inbox'[i] = Close) => \E i \in 1 .. Len(inbox) : inbox[i] = Close
      BY <1>2, <2>1, <2>2
    <3> QED BY <1>1, <1>5, <3>1 DEF IInv, ClosingFits
  <2>6. OpenBatchIsTimed'
    <3>1. DOMAIN inbox = 1 .. Len(inbox) /\ DOMAIN inbox' = 1 .. Len(inbox')
      BY <1>2, <2>1, LenProperties DEF Types
    <3>2. ASSUME NEW u \in Users, Open(u)
          PROVE  \/ Ripe(u)
                 \/ \E s \in timers' : s.user = u /\ s.gen = batch[u].gen
                 \/ \E i \in DOMAIN inbox' : inbox'[i] = Timer(u, batch[u].gen)
      <4>1. \/ Ripe(u)
            \/ \E s \in timers : s.user = u /\ s.gen = batch[u].gen
            \/ \E i \in 1 .. Len(inbox) : inbox[i] = Timer(u, batch[u].gen)
        BY <1>5, <3>1, <3>2 DEF IInv, OpenBatchIsTimed, OpenUsers, Ripe
      <4>2. CASE t.user = u /\ t.gen = batch[u].gen
        <5>1. inbox'[Len(inbox) + 1] = Timer(u, batch[u].gen)
          BY <2>1, <4>2
        <5> QED BY <2>2, <3>1, <5>1
      <4>3. CASE ~(t.user = u /\ t.gen = batch[u].gen)
        BY <1>1, <2>1, <2>2, <3>1, <4>1, <4>3
      <4> QED BY <4>2, <4>3
    <3> QED BY <1>1, <3>2 DEF OpenBatchIsTimed, OpenUsers, Open, Ripe
  <2>7. timers' \subseteq Sleepers
    BY <1>1, <1>2 DEF Types
  <2> QED BY <1>1, <1>2, <1>3, <2>1, <2>4, <2>5, <2>6, <2>7, IdleStep DEF Types
<1> QED BY <1>4, <1>5

\* The command at the head of the channel, and what is left behind it.
LEMMA HeadIs ==
  ASSUME IInv, NEW kind, Command(kind)
  PROVE  /\ busy = Idle /\ busy.stage = "idle" /\ busy.stage \notin Handling /\ busy.user \notin Users
         /\ inbox \in Seq(Commands) /\ inbox # <<>>
         /\ Head(inbox) \in Commands /\ Head(inbox).kind = kind
         /\ inbox' = Tail(inbox) /\ inbox' \in Seq(Commands)
         /\ Len(inbox) \in Nat /\ Len(inbox) > 0 /\ Len(inbox') = Len(inbox) - 1
         /\ Head(inbox) = inbox[1]
         /\ \A i \in 1 .. Len(inbox') : inbox'[i] = inbox[i + 1] /\ i + 1 \in 1 .. Len(inbox)
         /\ \A c : c # Head(inbox) /\ (\E i \in 1 .. Len(inbox) : inbox[i] = c) =>
                     \E i \in 1 .. Len(inbox') : inbox'[i] = c
         /\ closing \notin {"flush", "stopped"}
<1>1. /\ busy = Idle /\ inbox # <<>> /\ Head(inbox).kind = kind /\ inbox' = Tail(inbox)
  BY DEF Command
<1>2. inbox \in Seq(Commands)
  BY DEF IInv, Types
<1>3. /\ inbox' \in Seq(Commands) /\ Head(inbox) \in Commands
      /\ Len(inbox) \in Nat /\ Len(inbox) > 0 /\ Len(inbox') = Len(inbox) - 1
      /\ Head(inbox) = inbox[1]
      /\ \A i \in 1 .. Len(inbox') : inbox'[i] = inbox[i + 1]
      /\ \A c : c # Head(inbox) /\ (\E i \in 1 .. Len(inbox) : inbox[i] = c) =>
                  \E i \in 1 .. Len(inbox') : inbox'[i] = c
  BY <1>1, <1>2, TakenCommand
<1>4. \A i \in 1 .. Len(inbox') : i + 1 \in 1 .. Len(inbox)
  BY <1>3
<1>5. closing \notin {"flush", "stopped"}
  BY <1>1 DEF IInv, ClosingFits
<1> QED BY <1>1, <1>2, <1>3, <1>4, <1>5, IdleType, ConstTypes

LEMMA TakenClosing ==
  ASSUME IInv, NEW kind, Command(kind), UNCHANGED <<closing, fate>>
  PROVE  ClosingFits'
<1>1. \A i \in 1 .. Len(inbox') : inbox'[i] = inbox[i + 1] /\ i + 1 \in 1 .. Len(inbox)
  BY HeadIs
<1>2. closing \notin {"flush", "stopped"}
  BY HeadIs
<1>3. (\E i \in 1 .. Len(inbox') : inbox'[i] = Close) => \E i \in 1 .. Len(inbox) : inbox[i] = Close
  BY <1>1
<1> QED BY <1>2, <1>3 DEF IInv, ClosingFits

LEMMA TakeTimerStep == ASSUME IInv, TakeTimer PROVE IInv'
<1> DEFINE u == Head(inbox).user
           g == Head(inbox).gen
           b == batch[u]
<1>1. Command("timer") /\ UNCHANGED <<batch, barrier, acks, seen, mailbox, fate, arrived, handed, closing>>
  BY DEF TakeTimer
<1>2. /\ busy = Idle /\ busy.user \notin Users /\ busy.stage \notin Handling
      /\ inbox \in Seq(Commands) /\ inbox # <<>>
      /\ Head(inbox) \in Commands /\ Head(inbox).kind = "timer"
      /\ inbox' = Tail(inbox) /\ inbox' \in Seq(Commands)
      /\ \A c : c # Head(inbox) /\ (\E i \in 1 .. Len(inbox) : inbox[i] = c) =>
                  \E i \in 1 .. Len(inbox') : inbox'[i] = c
  BY <1>1, HeadIs
<1>3. u \in Users /\ g \in 2 .. MaxMessages + 1 /\ Head(inbox) = Timer(u, g)
  BY <1>2, CommandCases
<1>4. Turned /\ ClosingFits'
  BY <1>1, TurnedKept, TakenClosing
<1>5. DOMAIN inbox = 1 .. Len(inbox) /\ DOMAIN inbox' = 1 .. Len(inbox')
  BY <1>2, LenProperties
<1>6. ASSUME closing \in {"no", "asked"}, NEW v \in Users, Open(v), ~(v = u /\ batch[v].gen = g)
      PROVE  \/ \E t \in timers : t.user = v /\ t.gen = batch[v].gen
             \/ \E i \in DOMAIN inbox' : inbox'[i] = Timer(v, batch[v].gen)
  <2>1. \/ \E t \in timers : t.user = v /\ t.gen = batch[v].gen
        \/ \E i \in 1 .. Len(inbox) : inbox[i] = Timer(v, batch[v].gen)
    BY <1>2, <1>5, <1>6 DEF IInv, OpenBatchIsTimed, OpenUsers
  <2>2. Timer(v, batch[v].gen) # Head(inbox)
    <3>1. \A p, q, r, s : Timer(p, q) = Timer(r, s) => p = r /\ q = s
      BY CommandFields
    <3> QED BY <1>3, <1>6, <3>1
  <2>3. (\E i \in 1 .. Len(inbox) : inbox[i] = Timer(v, batch[v].gen)) =>
          \E i \in 1 .. Len(inbox') : inbox'[i] = Timer(v, batch[v].gen)
    BY <1>2, <2>2
  <2> QED BY <1>5, <2>1, <2>3
<1>7. timers \subseteq Sleepers /\ closing \in {"no", "asked", "drain", "flush", "stopped"} /\ Types
  BY DEF IInv, Types
<1>8. CASE b.gen # g /\ UNCHANGED <<busy, timers>>
  <2>1. FlightFits'
    BY <1>1, <1>2, <1>8, TakenFlight
  <2>2. OpenBatchIsTimed'
    <3>1. \A v \in Users : ~(v = u /\ batch[v].gen = g)
      BY <1>8
    <3> HIDE DEF u, g, b
    <3> QED BY <1>1, <1>6, <1>8, <3>1 DEF OpenBatchIsTimed, OpenUsers, Open
  <2> QED BY <1>1, <1>2, <1>4, <1>7, <1>8, <2>1, <2>2, IdleStep
<1>9. CASE /\ b.gen = g /\ b.quiet = 0 /\ UNCHANGED timers
           /\ busy' = [stage |-> "seal", user |-> u, msg |-> None, then |-> "idle"]
  <2>1. Open(u)
    <3>1. batch[u] # NoBatch
      BY <1>3, <1>9, ConstTypes DEF NoBatch
    <3> QED BY <1>3, <3>1 DEF IInv, BatchesFit, BatchFits, Open
  <2>2. busy' \in Busy /\ busy'.stage = "seal" /\ busy'.user = u /\ busy'.msg = None
        /\ busy'.stage \notin Handling
    BY <1>3, <1>9 DEF Busy, Handling
  <2>3. BusyFits'
    BY <1>1, <1>3, <2>1, <2>2 DEF BusyFits, Open, Handling
  <2>4. FlightFits'
    BY <1>1, <1>2, <2>2, TakenFlight
  <2>5. OpenBatchIsTimed'
    <3> HIDE DEF u, g, b
    <3> QED BY <1>1, <1>6, <1>9, <2>2 DEF OpenBatchIsTimed, OpenUsers, Open
  <2> QED BY <1>1, <1>2, <1>4, <1>7, <1>9, <2>2, <2>3, <2>4, <2>5, IdleStep
<1>10. CASE b.gen = g /\ b.quiet > 0 /\ timers' = timers \cup {Sleeping(u, b)} /\ UNCHANGED busy
  <2>1. FlightFits'
    BY <1>1, <1>2, <1>10, TakenFlight
  <2>2. Sleeping(u, b) \in Sleepers /\ Sleeping(u, b).user = u /\ Sleeping(u, b).gen = g
    <3>1. b.quiet \in Nat /\ b.quiet <= Quiet
      BY <1>3, <1>7, BatchType DEF IInv, BatchesFit, BatchFits
    <3>2. b.quiet \in 0 .. MaxWait
      BY <3>1, ConstTypes
    <3> HIDE DEF u, g, b
    <3> QED BY <1>3, <1>10, <3>2 DEF Sleeping, Sleepers
  <2>3. OpenBatchIsTimed'
    <3> HIDE DEF u, g, b
    <3> QED BY <1>1, <1>6, <1>10, <2>2 DEF OpenBatchIsTimed, OpenUsers, Open
  <2>4. timers' \subseteq Sleepers
    BY <1>7, <1>10, <2>2
  <2> QED BY <1>1, <1>2, <1>4, <1>7, <1>10, <2>1, <2>3, <2>4, IdleStep
<1> QED BY <1>8, <1>9, <1>10 DEF TakeTimer

LEMMA TakeCloseStep == ASSUME IInv, TakeClose PROVE IInv'
<1>1. /\ Command("shutdown") /\ closing' = "drain"
      /\ UNCHANGED <<busy, batch, barrier, acks, timers, seen, mailbox, fate, arrived, handed>>
  BY DEF TakeClose
<1>2. /\ busy = Idle /\ busy.stage \notin Handling
      /\ inbox \in Seq(Commands) /\ inbox # <<>>
      /\ Head(inbox) \in Commands /\ Head(inbox).kind = "shutdown" /\ Head(inbox) = inbox[1]
      /\ inbox' = Tail(inbox) /\ inbox' \in Seq(Commands)
      /\ Len(inbox) \in Nat /\ Len(inbox) > 0
  BY <1>1, HeadIs
<1>3. closing # "no"
  <2>1. Head(inbox) = Close /\ 1 \in 1 .. Len(inbox)
    BY <1>2, CommandCases
  <2> QED BY <1>2, <2>1 DEF IInv, ClosingFits
<1>4. FlightFits'
  BY <1>1, <1>2, <1>3, TakenFlight
<1>5. ClosingFits' /\ OpenBatchIsTimed'
  BY <1>1 DEF ClosingFits, OpenBatchIsTimed
<1>6. Turned /\ Types
  BY <1>1, TurnedKept DEF IInv
<1> QED BY <1>1, <1>2, <1>4, <1>5, <1>6, IdleStep DEF Types

LEMMA EmptyChannel ==
  <<>> \in Seq(Commands) /\ Len(<<>>) = 0 /\ \A i \in 1 .. Len(<<>>) : FALSE
  OBVIOUS

LEMMA TokenCancelledStep == ASSUME IInv, TokenCancelled PROVE IInv'
<1>1. /\ closing = "asked" /\ busy = Idle /\ closing' = "flush" /\ inbox' = <<>>
      /\ UNCHANGED <<busy, batch, barrier, acks, timers, seen, mailbox, fate, arrived, handed>>
  BY DEF TokenCancelled
<1>2. \A m \in Messages : fate[m] # "sent"
  BY <1>1 DEF IInv, FlightFits
<1>3. FlightFits'
  <2>1. \A i \in 1 .. Len(inbox') : inbox'[i].kind # "c2c"
    BY <1>1, EmptyChannel
  <2> QED BY <1>1, <1>2, <2>1, NoFlight
<1>4. ClosingFits' /\ OpenBatchIsTimed'
  BY <1>1 DEF ClosingFits, OpenBatchIsTimed
<1>5. Turned /\ Types /\ inbox' \in Seq(Commands)
  BY <1>1, TurnedKept, EmptyChannel DEF IInv
<1> QED BY <1>1, <1>3, <1>4, <1>5, IdleStep DEF Types

LEMMA DrainedStep == ASSUME IInv, Drained PROVE IInv'
<1>1. /\ closing = "drain" /\ inbox = <<>> /\ busy = Idle /\ closing' = "flush"
      /\ UNCHANGED <<inbox, busy, batch, barrier, acks, timers, seen, mailbox, fate, arrived, handed>>
  BY DEF Drained
<1>2. FlightFits'
  BY <1>1 DEF IInv, FlightFits
<1>3. ClosingFits' /\ OpenBatchIsTimed'
  BY <1>1 DEF ClosingFits, OpenBatchIsTimed
<1>4. Turned /\ Types
  BY <1>1, TurnedKept DEF IInv
<1> QED BY <1>1, <1>2, <1>3, <1>4, IdleStep DEF Types

LEMMA FlushNextStep == ASSUME IInv, NEW u \in Users, FlushNext(u) PROVE IInv'
<1>1. /\ closing = "flush" /\ busy = Idle /\ Open(u)
      /\ busy' = [stage |-> "seal", user |-> u, msg |-> None, then |-> "idle"]
      /\ UNCHANGED <<inbox, batch, barrier, acks, timers, seen, mailbox, fate, arrived, handed, closing>>
  BY DEF FlushNext
<1>2. /\ busy' \in Busy /\ busy'.stage = "seal" /\ busy'.user = u /\ busy'.msg = None
      /\ busy'.stage \notin Handling
  BY <1>1 DEF Busy, Handling
<1>3. BusyFits'
  BY <1>1, <1>2 DEF BusyFits, Open, Handling
<1>4. FlightFits'
  BY <1>1, <1>2 DEF IInv, FlightFits
<1>5. ClosingFits' /\ OpenBatchIsTimed'
  BY <1>1 DEF IInv, ClosingFits, OpenBatchIsTimed
<1>6. Turned /\ Types
  BY <1>1, TurnedKept DEF IInv
<1> QED BY <1>1, <1>2, <1>3, <1>4, <1>5, <1>6, IdleStep DEF Types

LEMMA StopStep == ASSUME IInv, Stop PROVE IInv'
<1>1. /\ closing = "flush" /\ busy = Idle /\ OpenUsers = {} /\ closing' = "stopped"
      /\ barrier' = [v \in Users |-> <<>>] /\ acks' = {} /\ timers' = {}
      /\ UNCHANGED <<inbox, busy, batch, seen, mailbox, fate, arrived, handed>>
  BY DEF Stop
<1>2. UNCHANGED <<queue, running, answer>>
  BY <1>1 DEF mailbox
<1>3. Turned
  <2>1. BarriersFit'
    <3>1. \A v \in Users : barrier'[v] = <<>> /\ Len(<<>>) = 0
      BY <1>1
    <3> QED BY <1>1, <3>1 DEF BarriersFit
  <2>2. barrier' \in [Users -> Seq(Pending)]
    <3>1. <<>> \in Seq(Pending)
      OBVIOUS
    <3> QED BY <1>1, <3>1
  <2> QED BY <1>1, <1>2, <2>1, <2>2 DEF IInv, Types, Turned, TurnsFit
<1>4. FlightFits'
  BY <1>1 DEF IInv, FlightFits
<1>5. ClosingFits'
  <2>1. \A v \in Users : ~Open(v) /\ barrier'[v] = <<>>
    BY <1>1, OpenIs
  <2> QED BY <1>1, <2>1 DEF IInv, ClosingFits, Open
<1>6. OpenBatchIsTimed' /\ Types
  BY <1>1 DEF IInv, OpenBatchIsTimed
<1> QED BY <1>1, <1>3, <1>4, <1>5, <1>6, IdleStep DEF Types

LEMMA JoinBarrierStep == ASSUME IInv, NEW m \in Messages, JoinBarrier(m) PROVE IInv'
<1>1. /\ closing \in {"no", "asked"} /\ m \in acks /\ acks' = acks \ {m} /\ barrier' = Released({m})
      /\ UNCHANGED <<inbox, busy, batch, timers, seen, mailbox, fate, arrived, handed, closing>>
  BY DEF JoinBarrier
<1>2. UNCHANGED <<queue, running, answer>> /\ {m} \in SUBSET acks
  BY <1>1 DEF mailbox
<1>3. /\ BarriersFit' /\ barrier' \in [Users -> Seq(Pending)] /\ acks' \subseteq Messages
      /\ \A v \in Users : barrier[v] = <<>> => barrier'[v] = <<>>
  BY <1>1, <1>2, ReleasedFits
<1>4. Turned
  BY <1>2, <1>3 DEF IInv, Types, Turned, TurnsFit
<1>5. FlightFits' /\ ClosingFits' /\ OpenBatchIsTimed'
  BY <1>1 DEF IInv, FlightFits, ClosingFits, OpenBatchIsTimed, OpenUsers, Open
<1> QED BY <1>1, <1>3, <1>4, <1>5, IdleStep DEF IInv, Types

LEMMA TickStep == ASSUME IInv, Tick PROVE IInv'
<1>1. /\ batch' = [u \in Users |-> [batch[u] EXCEPT !.quiet = Later(@), !.hard = Later(@)]]
      /\ timers' = {[t EXCEPT !.left = Later(@)] : t \in timers}
      /\ UNCHANGED <<inbox, busy, barrier, acks, seen, mailbox, fate, arrived, handed, closing>>
  BY DEF Tick
<1>2. \A n \in Nat : Later(n) \in Nat /\ Later(n) <= n
  BY DEF Later
<1>3. Types
  BY DEF IInv
<1>4. ASSUME NEW u \in Users
      PROVE  /\ batch'[u] \in Batch /\ batch'[u].msgs = batch[u].msgs /\ batch'[u].chars = batch[u].chars
             /\ batch'[u].gen = batch[u].gen
             /\ batch'[u].quiet = Later(batch[u].quiet) /\ batch'[u].hard = Later(batch[u].hard)
  <2>1. /\ batch[u] \in Batch /\ batch[u].quiet \in Nat /\ batch[u].hard \in Nat
        /\ batch[u].msgs \in Seq(Messages) /\ batch[u].chars \in Nat /\ batch[u].gen \in Nat
    BY <1>3, BatchType
  <2>2. batch'[u] = [batch[u] EXCEPT !.quiet = Later(batch[u].quiet), !.hard = Later(batch[u].hard)]
    BY <1>1
  <2>3. batch'[u] = [msgs |-> batch[u].msgs, chars |-> batch[u].chars, gen |-> batch[u].gen,
                     quiet |-> Later(batch[u].quiet), hard |-> Later(batch[u].hard)]
    BY <2>1, <2>2 DEF Batch
  <2>4. Later(batch[u].quiet) \in Nat /\ Later(batch[u].hard) \in Nat
    BY <1>2, <2>1
  <2> QED BY <2>1, <2>3, <2>4 DEF Batch
<1>5. \A t \in timers : t \in Sleepers /\ [t EXCEPT !.left = Later(@)] \in Sleepers
                        /\ [t EXCEPT !.left = Later(@)].user = t.user
                        /\ [t EXCEPT !.left = Later(@)].gen = t.gen
  <2> SUFFICES ASSUME NEW t \in timers
               PROVE  /\ t \in Sleepers /\ [t EXCEPT !.left = Later(@)] \in Sleepers
                      /\ [t EXCEPT !.left = Later(@)].user = t.user
                      /\ [t EXCEPT !.left = Later(@)].gen = t.gen
    OBVIOUS
  <2>1. t \in Sleepers /\ t.left \in 0 .. MaxWait
    BY <1>3 DEF Types, Sleepers
  <2>2. Later(t.left) \in 0 .. MaxWait
    BY <2>1, ConstTypes DEF Later
  <2> QED BY <2>1, <2>2 DEF Sleepers
<1>6. Turned
  BY <1>1, TurnedKept
<1>7. Types'
  <2>1. batch' \in [Users -> Batch]
    BY <1>1, <1>4
  <2>2. timers' \subseteq Sleepers
    BY <1>1, <1>5
  <2> QED BY <1>1, <1>3, <1>6, <2>1, <2>2 DEF Types, Turned
<1>8. /\ \A u \in Users : (Open(u)' <=> Open(u)) /\ Held(u)' = Held(u)
      /\ OpenUsers' = OpenUsers
  BY <1>4 DEF Open, Held, OpenUsers
<1>9. BusyFits'
  <2>1. busy.stage # "idle" => busy.user \in Users
    BY DEF IInv, BusyFits
  <2> QED BY <1>1, <1>8, <2>1 DEF IInv, BusyFits, Handling
<1>10. RoomFits'
  <2>1. busy.stage \in {"hold", "flush"} => busy.user \in Users
    BY DEF IInv, BusyFits
  <2>2. CASE busy.stage \in {"hold", "flush"}
    <3> DEFINE u == busy.user
               n == busy.msg
    <3>1. u \in Users
      BY <2>1, <2>2
    <3>2. Overflows(u, n)' <=> Overflows(u, n)
      BY <1>1, <1>4, <1>8, <3>1 DEF Overflows
    <3>3. TooManyActive(u)' <=> TooManyActive(u)
      BY <1>1, <1>8, <3>1 DEF TooManyActive
    <3>4. \A v, o : v = u /\ o = n => (Overflows(v, o)' <=> Overflows(u, n))
                                      /\ (TooManyActive(v)' <=> TooManyActive(u))
      BY <1>1, <3>2, <3>3
    <3> QED BY <1>1, <1>8, <3>1, <3>4 DEF IInv, RoomFits
  <2>3. CASE busy.stage \notin {"hold", "flush"}
    BY <1>1, <2>3 DEF RoomFits
  <2> QED BY <2>2, <2>3
<1>11. BatchesFit'
  <2>1. ASSUME NEW u \in Users PROVE BatchFits(batch'[u])
    <3>1. BatchFits(batch[u]) /\ batch[u].quiet \in Nat /\ batch[u].hard \in Nat
          /\ batch'[u] \in Batch
      BY <1>3, <1>4, BatchType DEF IInv, BatchesFit
    <3>2. Later(batch[u].quiet) <= Quiet /\ Later(batch[u].hard) <= MaxWait
      BY <3>1, ConstTypes DEF BatchFits, Later
    <3>3. batch[u].msgs = <<>> => batch'[u] = NoBatch
      BY <1>4, <3>1 DEF BatchFits, NoBatch, Later, Batch
    <3> QED BY <1>4, <3>1, <3>2, <3>3 DEF BatchFits
  <2>2. \A u \in Users : BatchFits(batch[u])' /\ (AtLimit(batch[u])' <=> AtLimit(batch[u]))
    BY <1>4, <2>1 DEF BatchFits, AtLimit
  <2> QED BY <1>1, <1>8, <2>2 DEF IInv, BatchesFit, Ripe
<1>12. HeldFits'
  <2>1. \A u \in Users : batch'[u].msgs = batch[u].msgs
    BY <1>4
  <2>2. \A m \in Messages : UserOf[m] \in Users
    BY ConstTypes
  <2>3. \A u \in Users : \A i \in 1 .. Len(batch'[u].msgs) :
          fate[batch'[u].msgs[i]] = "held" /\ UserOf[batch'[u].msgs[i]] = u
    BY <2>1 DEF IInv, HeldFits
  <2>4. \A m \in Messages : fate[m] = "held" => m \in ToSet(batch'[UserOf[m]].msgs)
    <3> SUFFICES ASSUME NEW m \in Messages, fate[m] = "held"
                 PROVE  m \in ToSet(batch'[UserOf[m]].msgs)
      OBVIOUS
    <3>1. m \in Held(UserOf[m])
      BY DEF IInv, HeldFits
    <3>2. batch'[UserOf[m]].msgs = batch[UserOf[m]].msgs
      BY <2>1, <2>2
    <3> QED BY <3>1, <3>2 DEF Held
  <2> QED BY <1>1, <2>3, <2>4 DEF HeldFits, Held
<1>13. FlightFits' /\ ClosingFits'
  <2>1. closing = "stopped" => timers' = {}
    BY <1>1 DEF IInv, ClosingFits
  <2> QED BY <1>1, <1>8, <2>1 DEF IInv, FlightFits, ClosingFits
<1>14. KeysFit'
  BY <1>1, KeysKept DEF Keeps
<1>15. OrderFits'
  <2>1. \A u \in Users : batch'[u].msgs \in {batch[u].msgs, <<>>}
    BY <1>4
  <2> QED BY <1>1, <2>1, OrderKept
<1>16. OpenBatchIsTimed'
  <2>1. \A u \in Users : (\E t \in timers : t.user = u /\ t.gen = batch[u].gen) =>
          \E t \in timers' : t.user = u /\ t.gen = batch'[u].gen
    <3> SUFFICES ASSUME NEW u \in Users, NEW t \in timers, t.user = u, t.gen = batch[u].gen
                 PROVE  \E s \in timers' : s.user = u /\ s.gen = batch'[u].gen
      OBVIOUS
    <3> DEFINE s == [t EXCEPT !.left = Later(@)]
    <3>1. s \in timers'
      BY <1>1
    <3>2. s.user = u /\ s.gen = batch'[u].gen
      BY <1>4, <1>5
    <3> QED BY <3>1, <3>2
  <2>2. ASSUME closing \in {"no", "asked"}, NEW u \in OpenUsers
        PROVE  \/ Ripe(u)
               \/ \E t \in timers' : t.user = u /\ t.gen = batch'[u].gen
               \/ \E i \in DOMAIN inbox : inbox[i] = Timer(u, batch'[u].gen)
    <3>1. u \in Users /\ batch'[u].gen = batch[u].gen
      BY <1>4 DEF OpenUsers
    <3> QED BY <2>1, <2>2, <3>1 DEF IInv, OpenBatchIsTimed, Ripe
  <2> QED BY <1>1, <1>8, <2>2 DEF OpenBatchIsTimed, Ripe
<1> QED BY <1>6, <1>7, <1>9, <1>10, <1>11, <1>12, <1>13, <1>14, <1>15, <1>16 DEF IInv, Turned

LEMMA TakeC2cStep == ASSUME IInv, TakeC2c PROVE IInv'
<1>1. Command("c2c") /\ UNCHANGED <<batch, barrier, acks, timers, mailbox, arrived, handed, closing>>
  BY DEF TakeC2c
<1>2. /\ busy = Idle /\ busy.stage = "idle" /\ busy.stage \notin Handling /\ busy.user \notin Users
      /\ inbox \in Seq(Commands) /\ inbox # <<>>
      /\ Head(inbox) \in Commands /\ Head(inbox).kind = "c2c" /\ Head(inbox) = inbox[1]
      /\ inbox' = Tail(inbox) /\ inbox' \in Seq(Commands)
      /\ Len(inbox) \in Nat /\ Len(inbox) > 0 /\ Len(inbox') = Len(inbox) - 1
      /\ \A i \in 1 .. Len(inbox') : inbox'[i] = inbox[i + 1] /\ i + 1 \in 1 .. Len(inbox)
      /\ \A c : c # Head(inbox) /\ (\E i \in 1 .. Len(inbox) : inbox[i] = c) =>
                  \E i \in 1 .. Len(inbox') : inbox'[i] = c
  BY <1>1, HeadIs
<1>0. Head(inbox).msg \in Messages /\ Head(inbox) = C2c(Head(inbox).msg)
  BY <1>2, CommandCases
<1> PICK m \in Messages : m = Head(inbox).msg
  BY <1>0
<1>3. m \in Messages /\ m = Head(inbox).msg /\ Head(inbox) = C2c(m) /\ 1 \in 1 .. Len(inbox)
  BY <1>0, <1>2
<1>4. /\ fate[m] = "sent" /\ closing = "no"
      /\ \A n \in Messages : fate[n] = "sent" => n = m
  BY <1>2, <1>3 DEF IInv, FlightFits
<1>5. \A i \in 1 .. Len(inbox') : inbox'[i].kind # "c2c"
  <2> SUFFICES ASSUME NEW i \in 1 .. Len(inbox'), inbox'[i].kind = "c2c" PROVE FALSE
    OBVIOUS
  <2>1. inbox[i + 1].kind = "c2c" /\ inbox[1].kind = "c2c" /\ i + 1 \in 1 .. Len(inbox)
    BY <1>2
  <2>2. i + 1 = 1
    BY <1>3, <2>1 DEF IInv, FlightFits
  <2> QED BY <2>2
<1>6. Turned /\ Types /\ UserOf[m] \in Users /\ busy \in Busy
  BY <1>1, <1>3, TurnedKept, ConstTypes DEF IInv, Types
<1>7. OpenBatchIsTimed'
  <2>1. \A u, g : Timer(u, g) # Head(inbox)
    BY <1>2, CommandFields
  <2>2. \A u \in Users : \A g : (\E i \in 1 .. Len(inbox) : inbox[i] = Timer(u, g))
                              => \E i \in 1 .. Len(inbox') : inbox'[i] = Timer(u, g)
    BY <1>2, <2>1
  <2>3. \A u \in Users : ~Ripe(u)
    BY <1>2 DEF Ripe
  <2> QED BY <1>1, <1>2, <2>2, <2>3, TimedKept
<1>8. ~(\E i \in 1 .. Len(inbox') : inbox'[i] = Close)
  <2>1. ~(\E i \in 1 .. Len(inbox) : inbox[i] = Close)
    BY <1>4 DEF IInv, ClosingFits
  <2> QED BY <1>2, <2>1
<1>9. HeldFits' /\ OrderFits' /\ ClosingFits'
      /\ \A n \in Messages : n # m => fate'[n] = fate[n]
  <2>1. /\ \A n \in Messages : n # m => fate'[n] = fate[n]
        /\ fate'[m] \in {"sent", "duplicate"}
    BY <1>3, <1>4, <1>6 DEF TakeC2c, Becomes, Types
  <2>2. \A v \in Users : \A i \in 1 .. Len(batch[v].msgs) :
          batch[v].msgs[i] \in Messages /\ fate[batch[v].msgs[i]] = "held"
    BY <1>6, BatchType DEF IInv, HeldFits
  <2>3. HeldFits'
    BY <1>1, <1>4, <2>1, <2>2 DEF IInv, HeldFits, Held
  <2>4. \A n \in Messages : /\ fate'[n] = "new" <=> fate[n] = "new"
                            /\ fate[n] = "handed" => fate'[n] = "handed"
    BY <1>4, <2>1
  <2>5. OrderFits'
    BY <1>1, <2>4, OrderKept
  <2>6. \A n \in Messages : fate'[n] # "dropped"
    BY <1>4, <2>1 DEF IInv, ClosingFits
  <2> QED BY <1>1, <1>4, <1>8, <2>1, <2>3, <2>5, <2>6 DEF ClosingFits
<1>10. CASE Becomes({m}, "duplicate") /\ UNCHANGED <<seen, busy>>
  <2>1. fate' \in [Messages -> Fates] /\ fate'[m] = "duplicate"
    BY <1>3, <1>6, <1>10 DEF Becomes, Types, Fates
  <2>2. Types'
    BY <1>1, <1>2, <1>6, <1>10, <2>1 DEF Types, Turned
  <2>3. BusyFits' /\ RoomFits'
    BY <1>2, <1>10, IdleType DEF BusyFits, RoomFits, Handling
  <2>4. BatchesFit'
    BY <1>1, <1>10 DEF IInv, BatchesFit, Open, OpenUsers, Ripe, AtLimit
  <2>5. FlightFits'
    BY <1>4, <1>5, <1>9, <2>1 DEF FlightFits
  <2>6. KeysFit'
    <3>1. \A n \in Messages : /\ Keeps(n)' <=> Keeps(n)
                              /\ fate'[n] \in {"handed", "cancelled"} <=> fate[n] \in {"handed", "cancelled"}
      BY <1>2, <1>4, <1>9, <1>10, <2>1 DEF Keeps
    <3> QED BY <1>10, <3>1, KeysKept
  <2> QED BY <1>6, <1>7, <1>9, <2>2, <2>3, <2>4, <2>5, <2>6 DEF IInv, Turned
<1>11. CASE /\ Dedupe!Reserve(m, KeysOf[m]) /\ UNCHANGED fate
            /\ busy' = [stage |-> "decide", user |-> UserOf[m], msg |-> m, then |-> "idle"]
  <2>1. /\ busy' \in Busy /\ busy'.stage = "decide" /\ busy'.user = UserOf[m] /\ busy'.msg = m
        /\ busy'.stage \in Handling
    BY <1>3, <1>6, <1>11 DEF Busy, Handling
  <2>2. BusyFits' /\ RoomFits'
    BY <1>3, <1>4, <1>6, <1>11, <2>1 DEF BusyFits, RoomFits, Handling
  <2>3. BatchesFit'
    <3>1. \A v : ~Ripe(v) /\ ~Ripe(v)'
      BY <1>2, <2>1 DEF Ripe
    <3> QED BY <1>1, <3>1 DEF IInv, BatchesFit, Open, OpenUsers, AtLimit
  <2>4. FlightFits'
    <3>1. \A n \in Messages : fate[n] = "sent" =>
            closing = "no" /\ arrived # <<>> /\ arrived[Len(arrived)] = n
      BY DEF IInv, FlightFits
    <3> QED BY <1>1, <1>4, <1>5, <1>11, <2>1, <3>1 DEF FlightFits
  <2>5. KeysFit' /\ seen' \in [Keys -> Marks]
    <3>1. ~Owns(m) /\ Keeps(m)'
      <4>1. ~Owns(m)
        BY <1>2, <1>4 DEF Owns, Keeps
      <4>2. \A n : n = m => Keeps(n)'
        BY <2>1 DEF Keeps
      <4> QED BY <4>1, <4>2
    <3>2. \A n \in Messages \ {m} : Keeps(n)' <=> Keeps(n)
      BY <1>2, <1>11, <2>1 DEF Keeps
    <3> QED BY <1>3, <1>11, <3>1, <3>2, ReservedKeys
  <2>6. Types'
    BY <1>1, <1>2, <1>6, <1>11, <2>1, <2>5 DEF Types, Turned
  <2> QED BY <1>6, <1>7, <1>9, <2>2, <2>3, <2>4, <2>5, <2>6 DEF IInv, Turned
<1> QED BY <1>3, <1>10, <1>11 DEF TakeC2c

\* The batch has an id of the message in hand, which is left out.
LEMMA OverlookStep ==
  ASSUME IInv, busy.stage = "decide", Overlook, Turned,
         \A v \in Users : barrier[v] = <<>> => barrier'[v] = <<>>,
         UNCHANGED <<inbox, timers, arrived, handed, closing>>
  PROVE  IInv'
<1>0. busy.stage \in Handling
  BY DEF Handling
<1> PICK m \in Messages : m = busy.msg
  BY <1>0, InHand
<1>1. /\ m = busy.msg /\ fate[m] = "sent" /\ closing = "no" /\ Types /\ Keeps(m)
      /\ busy.stage \in Handling /\ busy' = Idle /\ busy' \in Busy /\ busy'.stage = "idle"
      /\ busy'.stage \notin Handling /\ UNCHANGED batch
  BY <1>0, InHand, IdleType DEF IInv, Overlook, Keeps
<1>2. /\ fate' \in [Messages -> Fates] /\ fate'[m] = "repeated"
      /\ \A n \in Messages : n # m => fate'[n] = fate[n]
  BY <1>1 DEF Overlook, Becomes, Types, Fates
<1>3. KeysFit' /\ seen' \in [Keys -> Marks]
  <2> PICK S \in SUBSET Messages : S = {m}
    OBVIOUS
  <2>1. /\ \A n \in S : Keeps(n)
        /\ \A n \in S : ~Keeps(n)'
        /\ \A n \in S : fate'[n] \notin {"handed", "cancelled"}
    BY <1>1, <1>2 DEF Keeps
  <2>2. \A n \in Messages \ S : (Keeps(n)' <=> Keeps(n)) /\ fate'[n] = fate[n]
    BY <1>1, <1>2 DEF Keeps
  <2>3. seen' = [k \in Keys |-> IF k \in Dedupe!HeldBy(S) THEN Dedupe!Free ELSE seen[k]]
    BY <1>1 DEF Overlook, Dedupe!Rollback
  <2> QED BY <2>1, <2>2, <2>3, SettledKeys
<1>4. Types'
  BY <1>1, <1>2, <1>3 DEF Types, Turned
<1>5. BusyFits' /\ RoomFits'
  BY <1>1, IdleType DEF BusyFits, RoomFits, Handling
<1>6. BatchesFit'
  <2>1. \A v : ~Ripe(v) /\ ~Ripe(v)'
    BY <1>1 DEF Ripe
  <2> QED BY <1>1, <2>1 DEF IInv, BatchesFit, Open, OpenUsers, AtLimit, BatchFits
<1>7. HeldFits'
  <2>1. \A v \in Users : \A i \in 1 .. Len(batch[v].msgs) :
          batch[v].msgs[i] \in Messages /\ fate[batch[v].msgs[i]] = "held"
    BY <1>1, BatchType DEF IInv, HeldFits
  <2> QED BY <1>1, <1>2, <2>1 DEF IInv, HeldFits, Held
<1>8. FlightFits'
  <2>1. \A i \in 1 .. Len(inbox) : inbox[i].kind # "c2c"
    BY <1>1 DEF IInv, FlightFits
  <2>2. \A n \in Messages : fate[n] = "sent" => n = m
    <3>1. \A n \in Messages : fate[n] = "sent" => arrived[Len(arrived)] = n
      BY DEF IInv, FlightFits
    <3> QED BY <1>1, <3>1
  <2> QED BY <1>1, <1>2, <2>1, <2>2 DEF FlightFits
<1>9. OrderFits'
  <2>1. \A n \in Messages : /\ fate'[n] = "new" <=> fate[n] = "new"
                            /\ fate[n] = "handed" => fate'[n] = "handed"
    BY <1>1, <1>2
  <2>2. \A v \in Users : batch'[v].msgs \in {batch[v].msgs, <<>>}
    BY <1>1
  <2> QED BY <1>1, <2>1, <2>2, OrderKept
<1>10. ClosingFits' /\ OpenBatchIsTimed'
  <2>1. \A n \in Messages : fate'[n] # "dropped"
    BY <1>1, <1>2 DEF IInv, ClosingFits
  <2>2. busy.stage # "seal"
    BY <1>1 DEF Handling
  <2> QED BY <1>1, <2>1, <2>2 DEF IInv, ClosingFits, OpenBatchIsTimed, OpenUsers, Open
<1> QED BY <1>3, <1>4, <1>5, <1>6, <1>7, <1>8, <1>9, <1>10 DEF IInv, Turned

LEMMA DecideStep == ASSUME IInv, Decide PROVE IInv'
<1>1. busy.stage = "decide" /\ busy.stage \in Handling
      /\ UNCHANGED <<inbox, timers, mailbox, arrived, handed, closing>>
  BY DEF Decide, Handling
<1>2. PICK D \in SUBSET acks :
        /\ acks' = acks \ D /\ barrier' = Released(D)
        /\ \/ CancelBatch
           \/ ProcessReserved(D)
  BY DEF Decide
<1>3. CASE CancelBatch
  BY <1>1, <1>2, <1>3, CancelStep
<1>4. CASE ProcessReserved(D)
  <2>1. UNCHANGED <<queue, running, answer>>
    BY <1>1 DEF mailbox
  <2>2. /\ BarriersFit' /\ barrier' \in [Users -> Seq(Pending)] /\ acks' \subseteq Messages
        /\ \A v \in Users : barrier[v] = <<>> => barrier'[v] = <<>>
    BY <1>2, <2>1, ReleasedFits
  <2>3. Turned
    BY <2>1, <2>2 DEF IInv, Types, Turned, TurnsFit
  <2>4. /\ busy.user \in Users /\ busy.msg \in Messages /\ UserOf[busy.msg] = busy.user
        /\ fate[busy.msg] = "sent" /\ busy \in Busy
    BY <1>1, InHand DEF IInv, Types
  <2>5. ASSUME UNCHANGED <<seen, fate, batch>>
        PROVE  /\ OpenUsers' = OpenUsers
               /\ \A v \in Users : Open(v)' <=> Open(v)
               /\ \A v \in Users, n \in Messages : (Overflows(v, n)' <=> Overflows(v, n))
                                                   /\ (TooManyActive(v)' <=> TooManyActive(v))
    BY <2>5 DEF Open, OpenUsers, Overflows, TooManyActive
  <2>6. ASSUME NEW then \in {"barrier", "plain", "hold"}, FlushThen(then),
               then = "hold" => /\ Open(busy.user) /\ barrier'[busy.user] = <<>>
                                /\ SizeOf[busy.msg] <= MaxChars
        PROVE  IInv'
    <3>0. UNCHANGED <<seen, fate, batch>>
      BY <2>6 DEF FlushThen
    <3>1. /\ busy' \in Busy /\ busy'.stage = "flush" /\ busy'.then = then /\ busy'.msg = busy.msg
          /\ busy'.user = busy.user /\ busy'.stage \in Handling
      BY <2>4, <2>6 DEF FlushThen, Busy, Handling
    <3>2. BusyFits'
      BY <2>4, <2>5, <3>0, <3>1 DEF BusyFits, Handling
    <3>3. RoomFits'
      BY <2>4, <2>5, <2>6, <3>0, <3>1 DEF RoomFits
    <3> QED BY <1>1, <2>2, <2>3, <3>0, <3>1, <3>2, <3>3, GoesOn
  <2>7. ASSUME GoOn("hold"), UNCHANGED <<seen, fate, batch>>, barrier'[busy.user] = <<>>, SizeOf[busy.msg] <= MaxChars,
               ~Overflows(busy.user, busy.msg), ~TooManyActive(busy.user)
        PROVE  IInv'
    <3>0. UNCHANGED <<seen, fate, batch>>
      BY <2>7
    <3>1. /\ busy' \in Busy /\ busy'.stage = "hold" /\ busy'.msg = busy.msg
          /\ busy'.user = busy.user /\ busy'.stage \in Handling
      BY <2>4, <2>7 DEF GoOn, Busy, Handling
    <3>2. BusyFits'
      BY <2>4, <2>5, <3>0, <3>1 DEF BusyFits, Handling
    <3>3. RoomFits'
      <4>1. ~Overflows(busy.user, busy.msg)' /\ ~TooManyActive(busy.user)'
        <5>1. \A v, n : v = busy.user /\ n = busy.msg => ~Overflows(v, n)' /\ ~TooManyActive(v)'
          BY <2>4, <2>5, <2>7, <3>0
        <5>2. \A v, n : v = busy'.user /\ n = busy'.msg => ~Overflows(v, n)' /\ ~TooManyActive(v)'
          BY <3>1, <5>1
        <5> QED BY <5>2
      <4> QED BY <2>7, <3>1, <4>1 DEF RoomFits
    <3> QED BY <1>1, <2>2, <2>3, <3>0, <3>1, <3>2, <3>3, GoesOn
  <2>8. CASE FlushThen("barrier")
    BY <2>6, <2>8
  <2>9. CASE barrier'[busy.user] = <<>> /\ Aggregate
    <3>1. CASE Repeats(busy.user, busy.msg)
      <4>1. Overlook
        BY <2>9, <3>1 DEF Aggregate
      <4> QED BY <1>1, <2>2, <2>3, <4>1, OverlookStep
    <3>2. CASE ~Repeats(busy.user, busy.msg) /\ (SizeOf[busy.msg] > MaxChars \/ TooManyActive(busy.user))
      <4>1. FlushThen("plain")
        BY <2>9, <3>2 DEF Aggregate
      <4> QED BY <2>6, <4>1
    <3>3. CASE /\ ~Repeats(busy.user, busy.msg)
               /\ ~(SizeOf[busy.msg] > MaxChars \/ TooManyActive(busy.user))
      <4>1. SizeOf[busy.msg] <= MaxChars
        BY <2>4, <3>3, ConstTypes
      <4>2. CASE Overflows(busy.user, busy.msg)
        <5>1. FlushThen("hold") /\ Open(busy.user)
          BY <2>9, <3>3, <4>2 DEF Aggregate, Overflows
        <5> QED BY <2>6, <2>9, <4>1, <5>1
      <4>3. CASE ~Overflows(busy.user, busy.msg)
        <5>1. GoOn("hold") /\ UNCHANGED <<seen, fate, batch>>
          BY <2>9, <3>3, <4>3 DEF Aggregate
        <5> QED BY <2>7, <2>9, <3>3, <4>1, <4>3, <5>1
      <4> QED BY <4>2, <4>3
    <3> QED BY <3>1, <3>2, <3>3
  <2> QED BY <1>2, <1>4, <2>8, <2>9 DEF ProcessReserved
<1> QED BY <1>2, <1>3, <1>4

LEMMA JoinedMore ==
  ASSUME NEW q \in Seq(Messages), NEW r \in Seq(Messages), NEW m \in Messages
  PROVE  q \o Append(r, m) = Append(q \o r, m)
<1>1. <<m>> \in Seq(Messages) /\ q \o r \in Seq(Messages)
  BY Alone, JoinedIs
<1>2. Append(r, m) = r \o <<m>> /\ Append(q \o r, m) = (q \o r) \o <<m>>
  BY <1>1, AppendIsConcat
<1>3. q \o (r \o <<m>>) = (q \o r) \o <<m>>
  BY <1>1, ConcatAssociative
<1> QED BY <1>2, <1>3

LEMMA NearerOf == \A a, b \in Nat : Min({a, b}) \in Nat /\ Min({a, b}) <= a /\ Min({a, b}) <= b
<1> SUFFICES ASSUME NEW a \in Nat, NEW b \in Nat
             PROVE  Min({a, b}) \in Nat /\ Min({a, b}) <= a /\ Min({a, b}) <= b
  OBVIOUS
<1>1. \E x \in {a, b} : \A y \in {a, b} : x <= y
  <2>1. CASE a <= b
    BY <2>1
  <2>2. CASE b <= a
    BY <2>2
  <2> QED BY <2>1, <2>2
<1> QED BY <1>1 DEF Min

\* The batch with the message in hand added to it.
LEMMA ExtendedIs ==
  ASSUME IInv, busy.stage = "hold", NEW b, b = Extended(busy.user, busy.msg)
  PROVE  LET u == busy.user
         IN  /\ b \in Batch /\ b.msgs = Append(batch[u].msgs, busy.msg) /\ b.msgs # <<>>
             /\ b.msgs \in Seq(Messages) /\ Len(b.msgs) = Len(batch[u].msgs) + 1
             /\ b.gen = Len(b.msgs) + 1 /\ b.gen \in 2 .. MaxMessages + 1
             /\ b.quiet \in 0 .. MaxWait /\ BatchFits(b)
<1> DEFINE u == busy.user
           m == busy.msg
           q == batch[u].msgs
<1>1. busy.stage \in Handling
  BY DEF Handling
<1>2. Types /\ u \in Users /\ m \in Messages
  BY <1>1, InHand DEF IInv
<1>3. /\ q \in Seq(Messages) /\ Len(q) \in Nat /\ batch[u].chars \in Nat /\ batch[u].gen \in Nat
      /\ batch[u].hard \in Nat /\ SizeOf[m] \in Nat /\ SizeOf[m] <= MaxChars
      /\ ~Overflows(u, m) /\ BatchFits(batch[u])
  BY <1>2, BatchType, ConstTypes DEF IInv, RoomFits, BatchesFit
<1>4. /\ Append(q, m) \in Seq(Messages) /\ Len(Append(q, m)) = Len(q) + 1 /\ Append(q, m) # <<>>
  <2>1. Append(q, m) \in Seq(Messages) /\ Len(Append(q, m)) = Len(q) + 1
    BY <1>2, <1>3, AppendProperties
  <2>2. Len(Append(q, m)) # 0 /\ Len(<<>>) = 0
    BY <1>3, <2>1
  <2> QED BY <2>1, <2>2
<1> DEFINE hard == IF Open(u) THEN batch[u].hard ELSE MaxWait
           gen == (IF Open(u) THEN batch[u].gen ELSE 1) + 1
<1>5. /\ b.msgs = Append(q, m) /\ b.chars = batch[u].chars + SizeOf[m] /\ b.gen = gen
      /\ b.quiet = Min({Quiet, hard}) /\ b.hard = hard
      /\ b = [msgs |-> Append(q, m), chars |-> batch[u].chars + SizeOf[m], gen |-> gen,
              quiet |-> Min({Quiet, hard}), hard |-> hard]
  BY DEF Extended
<1>6. hard \in Nat /\ hard <= MaxWait
  BY <1>3, ConstTypes DEF BatchFits
<1>7. b.quiet \in Nat /\ b.quiet <= Quiet
  BY <1>5, <1>6, NearerOf, ConstTypes
<1>8. ~Open(u) => Len(q) = 0 /\ batch[u].chars = 0
  BY <1>3 DEF Open, BatchFits, NoBatch
<1>9. Len(q) + 1 <= MaxMessages /\ batch[u].chars + SizeOf[m] <= MaxChars
  <2>1. CASE Open(u)
    BY <1>3, <2>1, ConstTypes DEF Overflows
  <2>2. CASE ~Open(u)
    BY <1>3, <1>8, <2>2, ConstTypes
  <2> QED BY <2>1, <2>2
<1>10. gen = Len(q) + 2
  <2>1. CASE Open(u)
    BY <1>3, <2>1 DEF BatchFits, Open
  <2>2. CASE ~Open(u)
    BY <1>8, <2>2
  <2> QED BY <2>1, <2>2
<1>11. gen \in Nat /\ batch[u].chars + SizeOf[m] \in Nat
  <2>1. \A j, k \in Nat : j + k \in Nat /\ j + 2 \in Nat
    OBVIOUS
  <2>2. gen \in Nat
    <3> HIDE DEF gen
    <3> QED BY <1>3, <1>10, <2>1
  <2> QED BY <1>3, <2>1, <2>2
<1> HIDE DEF hard, gen, u, m, q
<1>12. b \in Batch
  BY <1>4, <1>5, <1>6, <1>7, <1>11 DEF Batch
<1>13. b.gen = Len(b.msgs) + 1 /\ b.gen \in 2 .. MaxMessages + 1
  <2>1. Len(q) + 2 = (Len(q) + 1) + 1 /\ Len(q) + 2 \in 2 .. MaxMessages + 1
    BY <1>3, <1>9, ConstTypes
  <2> QED BY <1>4, <1>5, <1>10, <2>1
<1>14. BatchFits(b)
  BY <1>4, <1>5, <1>6, <1>7, <1>9, <1>13 DEF BatchFits
<1>15. b.quiet \in 0 .. MaxWait
  BY <1>7, ConstTypes
<1> QED BY <1>4, <1>5, <1>12, <1>13, <1>14, <1>15 DEF u, m, q

LEMMA HoldStep == ASSUME IInv, Hold PROVE IInv'
<1>1. /\ busy.stage = "hold" /\ busy.stage \in Handling /\ Becomes({busy.msg}, "held")
      /\ UNCHANGED <<inbox, barrier, acks, seen, mailbox, arrived, handed, closing>>
  BY DEF Hold, Handling
<1>2. PICK u \in Users : u = busy.user
  BY <1>1, InHand
<1>3. PICK m \in Messages : m = busy.msg
  BY <1>1, InHand
<1>4. /\ UserOf[m] = u /\ fate[m] = "sent" /\ m \notin Held(u) /\ closing = "no" /\ Types
      /\ barrier[u] = <<>> /\ ~TooManyActive(u)
  BY <1>1, <1>2, <1>3, InHand DEF IInv, RoomFits
<1>5. PICK b : b = Extended(u, m)
  OBVIOUS
<1>6. /\ batch' = [batch EXCEPT ![u] = b]
      /\ \/ AtLimit(b) /\ GoOn("seal") /\ UNCHANGED timers
         \/ ~AtLimit(b) /\ timers' = Timed(u, b) /\ busy' = Idle
  BY <1>2, <1>3, <1>5 DEF Hold
<1>7. /\ b \in Batch /\ b.msgs = Append(batch[u].msgs, m) /\ b.msgs # <<>>
      /\ b.msgs \in Seq(Messages) /\ Len(b.msgs) = Len(batch[u].msgs) + 1
      /\ b.gen = Len(b.msgs) + 1 /\ b.gen \in 2 .. MaxMessages + 1
      /\ b.quiet \in 0 .. MaxWait /\ BatchFits(b)
  BY <1>1, <1>2, <1>3, <1>5, ExtendedIs
<1>8. /\ batch' \in [Users -> Batch] /\ batch'[u] = b
      /\ \A v \in Users : v # u => batch'[v] = batch[v]
  BY <1>4, <1>6, <1>7 DEF Types
<1>9. /\ fate' \in [Messages -> Fates] /\ fate'[m] = "held"
      /\ \A n \in Messages : n # m => fate'[n] = fate[n]
  BY <1>1, <1>3, <1>4 DEF Becomes, Types, Fates
<1>10. /\ \A v \in Users : Open(v)' <=> v = u \/ Open(v)
       /\ OpenUsers' = OpenUsers \cup {u}
  BY <1>7, <1>8 DEF Open, OpenUsers
<1>11. Turned
  BY <1>1, TurnedKept
<1>12. /\ busy' \in Busy /\ busy'.stage \notin Handling
       /\ \/ AtLimit(b) /\ busy'.stage = "seal" /\ busy'.user = u /\ busy'.msg = m
          \/ ~AtLimit(b) /\ busy' = Idle /\ busy'.stage = "idle"
  <2>1. CASE AtLimit(b) /\ GoOn("seal")
    BY <1>2, <1>3, <1>4, <2>1 DEF GoOn, Types, Busy, Handling
  <2>2. CASE ~AtLimit(b) /\ busy' = Idle
    BY <2>2, IdleType
  <2> QED BY <1>6, <2>1, <2>2
<1>13. /\ timers \subseteq timers' /\ timers' \subseteq Sleepers
       /\ ~AtLimit(b) => \E t \in timers' : t.user = u /\ t.gen = b.gen
  <2>1. Sleeping(u, b) \in Sleepers /\ Sleeping(u, b).user = u /\ Sleeping(u, b).gen = b.gen
    BY <1>7 DEF Sleeping, Sleepers
  <2> QED BY <1>4, <1>6, <2>1 DEF Types, Timed
<1>14. Types'
  BY <1>1, <1>4, <1>8, <1>9, <1>11, <1>12, <1>13 DEF Types, Turned
<1>15. BusyFits' /\ RoomFits'
  <2>1. BusyFits'
    BY <1>4, <1>9, <1>10, <1>12 DEF BusyFits, Handling
  <2>2. RoomFits'
    BY <1>12 DEF RoomFits, Handling
  <2> QED BY <2>1, <2>2
<1>16. BatchesFit'
  <2>1. \A v \in Users : BatchFits(batch[v])'
    <3>1. \A v \in Users : BatchFits(batch'[v])
      BY <1>7, <1>8 DEF IInv, BatchesFit
    <3> QED BY <3>1 DEF BatchFits
  <2>2. ASSUME NEW v \in Users, Open(v)', ~Ripe(v)' PROVE ~AtLimit(batch[v])'
    <3>1. ~AtLimit(batch'[v])
      <4>1. CASE v = u
        BY <1>8, <1>12, <2>2, <4>1 DEF Ripe
      <4>2. CASE v # u
        <5>1. Open(v) /\ ~Ripe(v)
          BY <1>1, <1>10, <2>2, <4>2 DEF Ripe
        <5> QED BY <1>8, <4>2, <5>1 DEF IInv, BatchesFit
      <4> QED BY <4>1, <4>2
    <3> QED BY <3>1 DEF AtLimit
  <2>3. \A v \in Users : barrier'[v] # <<>> => ~Open(v)'
    BY <1>1, <1>4, <1>10 DEF IInv, BatchesFit
  <2>4. IsFiniteSet(OpenUsers') /\ Cardinality(OpenUsers') <= MaxActive
    <3>1. IsFiniteSet(OpenUsers) /\ Cardinality(OpenUsers) <= MaxActive /\ Cardinality(OpenUsers) \in Nat
      BY FS_CardinalityType DEF IInv, BatchesFit
    <3>2. /\ IsFiniteSet(OpenUsers \cup {u})
          /\ Cardinality(OpenUsers \cup {u}) = IF u \in OpenUsers THEN Cardinality(OpenUsers)
                                               ELSE Cardinality(OpenUsers) + 1
      BY <3>1, FS_AddElement
    <3>3. CASE u \in OpenUsers
      BY <1>10, <3>1, <3>2, <3>3
    <3>4. CASE u \notin OpenUsers
      <4>1. Cardinality(OpenUsers) < MaxActive
        BY <1>4, <3>1, <3>4, OpenIs, ConstTypes DEF TooManyActive
      <4> QED BY <1>10, <3>1, <3>2, <3>4, <4>1, ConstTypes
    <3> QED BY <3>3, <3>4
  <2> QED BY <2>1, <2>2, <2>3, <2>4 DEF BatchesFit
<1>17. /\ batch[u].msgs \in Seq(Messages) /\ Len(batch[u].msgs) \in Nat
       /\ b.msgs[Len(batch[u].msgs) + 1] = m
       /\ \A i \in 1 .. Len(batch[u].msgs) : b.msgs[i] = batch[u].msgs[i]
       /\ \A i \in 1 .. Len(b.msgs) : i \in 1 .. Len(batch[u].msgs) \/ i = Len(batch[u].msgs) + 1
  <2>1. batch[u].msgs \in Seq(Messages) /\ Len(batch[u].msgs) \in Nat
    BY <1>4, BatchType
  <2>2. /\ Append(batch[u].msgs, m)[Len(batch[u].msgs) + 1] = m
        /\ \A i \in 1 .. Len(batch[u].msgs) : Append(batch[u].msgs, m)[i] = batch[u].msgs[i]
    BY <2>1, AppendProperties
  <2> QED BY <1>7, <2>1, <2>2
<1>18. HeldFits'
  <2>1. \A v \in Users : \A i \in 1 .. Len(batch[v].msgs) :
          /\ batch[v].msgs[i] \in Messages /\ fate[batch[v].msgs[i]] = "held"
          /\ UserOf[batch[v].msgs[i]] = v /\ fate'[batch[v].msgs[i]] = "held"
    <3>1. \A v \in Users : \A i \in 1 .. Len(batch[v].msgs) :
            /\ batch[v].msgs[i] \in Messages /\ fate[batch[v].msgs[i]] = "held"
            /\ UserOf[batch[v].msgs[i]] = v
      BY <1>4, BatchType DEF IInv, HeldFits
    <3> QED BY <1>9, <3>1
  <2>2. \A i \in 1 .. Len(b.msgs) : fate'[b.msgs[i]] = "held" /\ UserOf[b.msgs[i]] = u
    BY <1>4, <1>9, <1>17, <2>1
  <2>3. \A v \in Users : \A i \in 1 .. Len(batch'[v].msgs) :
          fate'[batch'[v].msgs[i]] = "held" /\ UserOf[batch'[v].msgs[i]] = v
    BY <1>8, <2>1, <2>2
  <2>4. \A n \in Messages : fate'[n] = "held" => n \in ToSet(batch'[UserOf[n]].msgs)
    <3> SUFFICES ASSUME NEW n \in Messages, fate'[n] = "held"
                 PROVE  n \in ToSet(batch'[UserOf[n]].msgs)
      OBVIOUS
    <3>0. UserOf[n] \in Users
      BY ConstTypes
    <3>1. CASE UserOf[n] # u
      <4>1. n # m /\ fate[n] = "held"
        BY <1>4, <1>9, <3>1
      <4>2. n \in Held(UserOf[n])
        BY <4>1 DEF IInv, HeldFits
      <4> QED BY <1>8, <3>0, <3>1, <4>2 DEF Held
    <3>2. CASE UserOf[n] = u
      <4>1. \E i \in 1 .. Len(b.msgs) : b.msgs[i] = n
        <5>1. CASE n = m
          <6>1. Len(batch[u].msgs) + 1 \in 1 .. Len(b.msgs)
            BY <1>7, <1>17
          <6> QED BY <1>17, <5>1, <6>1
        <5>2. CASE n # m
          <6>1. n \in Held(u)
            BY <1>9, <3>2, <5>2 DEF IInv, HeldFits
          <6>2. PICK i \in 1 .. Len(batch[u].msgs) : batch[u].msgs[i] = n
            BY <6>1, HeldIs
          <6>3. i \in 1 .. Len(b.msgs)
            BY <1>7, <1>17
          <6> QED BY <1>17, <6>2, <6>3
        <5> QED BY <5>1, <5>2
      <4>2. n \in ToSet(b.msgs)
        BY <1>7, <4>1, MembersAre
      <4> QED BY <1>8, <3>2, <4>2
    <3> QED BY <3>1, <3>2
  <2> QED BY <2>3, <2>4 DEF HeldFits, Held
<1>19. FlightFits'
  <2>1. \A i \in 1 .. Len(inbox') : inbox'[i].kind # "c2c"
    BY <1>1 DEF IInv, FlightFits
  <2>2. \A n \in Messages : fate'[n] # "sent"
    BY <1>3, <1>4, <1>9 DEF IInv, FlightFits
  <2> QED BY <2>1, <2>2 DEF FlightFits
<1>20. KeysFit'
  <2>1. \A n \in Messages : /\ Keeps(n)' <=> Keeps(n)
                            /\ fate'[n] \in {"handed", "cancelled"} <=> fate[n] \in {"handed", "cancelled"}
    BY <1>1, <1>3, <1>4, <1>9, <1>12 DEF Keeps
  <2> QED BY <1>1, <2>1, KeysKept
<1>21. OrderFits'
  <2>1. \A n \in Messages : fate'[n] = "new" <=> fate[n] = "new"
    BY <1>4, <1>9
  <2>2. \A v \in Users : \A i \in 1 .. Len(handed'[v]) : fate'[handed'[v][i]] = "handed"
    <3>1. \A v \in Users : \A i \in 1 .. Len(handed[v]) :
            handed[v][i] \in Messages /\ fate[handed[v][i]] = "handed"
      BY <1>4, LineType, ElementOfSeq DEF IInv, OrderFits
    <3> QED BY <1>1, <1>4, <1>9, <3>1
  <2>3. InOrder(handed[u] \o b.msgs)
    <3> DEFINE q == Line(u)
               r == handed[u] \o b.msgs
    <3>1. handed[u] \in Seq(Messages) /\ batch[u].msgs \in Seq(Messages) /\ q \in Seq(Messages)
      BY <1>4, LineType
    <3>2. r = Append(q, m)
      <4>1. handed[u] \o Append(batch[u].msgs, m) = Append(handed[u] \o batch[u].msgs, m)
        BY <3>1, JoinedMore
      <4> QED BY <1>7, <4>1 DEF Line
    <3>3. /\ Len(r) = Len(q) + 1 /\ Len(q) \in Nat /\ r[Len(q) + 1] = m
          /\ \A i \in 1 .. Len(q) : r[i] = q[i]
      BY <3>1, <3>2, AppendProperties, LenProperties
    <3>4. \A i \in 1 .. Len(q) : Position(q[i]) < Position(m)
      <4>1. \A i \in 1 .. Len(q) : q[i] \in Messages /\ fate[q[i]] \in {"held", "handed"}
        BY LineFates
      <4>2. \A n \in Messages : fate[n] \in {"held", "handed"} => Position(n) < Position(m)
        BY <1>4, LastArrived
      <4> QED BY <4>1, <4>2
    <3>5. InOrder(q)
      BY DEF IInv, OrderFits
    <3> HIDE DEF q, r
    <3>6. InOrder(r)
      BY <3>3, <3>4, <3>5, JoinedInOrder
    <3> QED BY <3>6 DEF r
  <2>4. \A v \in Users : InOrder(handed'[v] \o batch'[v].msgs)
    <3> SUFFICES ASSUME NEW v \in Users PROVE InOrder(handed'[v] \o batch'[v].msgs)
      OBVIOUS
    <3>1. CASE v = u
      BY <1>1, <1>8, <2>3, <3>1
    <3>2. CASE v # u
      BY <1>1, <1>8, <3>2 DEF Line, OrderFits, IInv
    <3> QED BY <3>1, <3>2
  <2> QED BY <1>1, <2>1, <2>2, <2>4, OrderAfter
<1>22. ClosingFits'
  <2>1. \A n \in Messages : fate'[n] # "dropped"
    BY <1>4, <1>9 DEF IInv, ClosingFits
  <2> QED BY <1>1, <1>4, <2>1 DEF IInv, ClosingFits
<1>23. OpenBatchIsTimed'
  <2> SUFFICES ASSUME NEW v \in Users, Open(v)'
               PROVE  \/ Ripe(v)'
                      \/ \E t \in timers' : t.user = v /\ t.gen = batch'[v].gen
                      \/ \E i \in DOMAIN inbox' : inbox'[i] = Timer(v, batch'[v].gen)
    BY DEF OpenBatchIsTimed, OpenUsers, Ripe
  <2>1. CASE v = u
    BY <1>8, <1>12, <1>13, <2>1 DEF Ripe
  <2>2. CASE v # u
    <3>1. v \in OpenUsers /\ busy.user # v /\ batch'[v] = batch[v]
      BY <1>2, <1>8, <1>10, <2>2, OpenIs
    <3> QED BY <1>1, <1>4, <1>13, <3>1 DEF IInv, OpenBatchIsTimed
  <2> QED BY <2>1, <2>2
<1> QED BY <1>11, <1>14, <1>15, <1>16, <1>18, <1>19, <1>20, <1>21, <1>22, <1>23 DEF IInv, Turned

-----------------------------------------------------------------------------
(* The invariant holds. *)

LEMMA InitIInv == ASSUME Init PROVE IInv
<1>1. /\ inbox = <<>> /\ busy = Idle /\ batch = [u \in Users |-> NoBatch]
      /\ barrier = [u \in Users |-> <<>>] /\ acks = {} /\ timers = {}
      /\ seen = [k \in Keys |-> Dedupe!Free]
      /\ queue = [u \in Users |-> <<>>] /\ running = [u \in Users |-> None]
      /\ answer = [m \in Messages |-> "none"]
      /\ fate = [m \in Messages |-> "new"] /\ arrived = <<>>
      /\ handed = [u \in Users |-> <<>>] /\ closing = "no"
  BY DEF Init, Dispatcher!Init, Dedupe!Init
<1>2. /\ <<>> \in Seq(Messages) /\ <<>> \in Seq(Pending) /\ <<>> \in Seq(Commands)
      /\ Len(<<>>) = 0 /\ \A i \in 1 .. 0 : FALSE
  OBVIOUS
<1>3. /\ NoBatch \in Batch /\ BatchFits(NoBatch) /\ NoBatch.msgs = <<>>
      /\ Idle \in Busy /\ Idle.stage = "idle" /\ Idle.stage \notin Handling
  BY NoBatchFits, IdleType
<1>4. Types
  BY <1>1, <1>2, <1>3 DEF Types, Marks, Fates
<1>5. /\ \A u \in Users : batch[u] = NoBatch /\ ~Open(u) /\ Len(batch[u].msgs) = 0
      /\ OpenUsers = {}
  BY <1>1, <1>2, <1>3 DEF Open, OpenUsers
<1>6. BusyFits /\ RoomFits
  BY <1>1, <1>3 DEF BusyFits, RoomFits, Handling
<1>7. BatchesFit
  <2>1. IsFiniteSet(OpenUsers) /\ Cardinality(OpenUsers) = 0
    BY <1>5, FS_EmptySet
  <2> QED BY <1>3, <1>5, <2>1, ConstTypes DEF BatchesFit
<1>8. HeldFits /\ FlightFits
  BY <1>1, <1>2, <1>5 DEF HeldFits, FlightFits
<1>9. KeysFit
  <2>1. \A m \in Messages : ~Keeps(m) /\ ~Owns(m) /\ fate[m] = "new"
    BY <1>1, <1>3 DEF Keeps, Owns
  <2> QED BY <1>1, <2>1, MarksDiffer DEF KeysFit
<1>10. OrderFits
  <2>1. \A u \in Users : handed[u] = <<>> /\ batch[u].msgs = <<>>
    BY <1>1, <1>3, <1>5
  <2>2. <<>> \o <<>> = <<>>
    BY <1>2, ConcatEmptySeq
  <2>3. \A u \in Users : Len(Line(u)) = 0
    BY <1>2, <2>1, <2>2 DEF Line
  <2> QED BY <1>1, <1>2, <2>1, <2>3 DEF OrderFits, InOrder
<1>11. TurnsFit /\ BarriersFit
  <2>1. \A u \in Users : queue[u] = <<>> /\ running[u] = None /\ barrier[u] = <<>>
    BY <1>1
  <2> QED BY <1>1, <1>2, <2>1 DEF TurnsFit, BarriersFit
<1>12. ClosingFits /\ OpenBatchIsTimed
  BY <1>1, <1>2, <1>5 DEF ClosingFits, OpenBatchIsTimed
<1> QED BY <1>4, <1>6, <1>7, <1>8, <1>9, <1>10, <1>11, <1>12 DEF IInv

LEMMA StutterIInv == ASSUME IInv, UNCHANGED vars PROVE IInv'
<1>1. /\ UNCHANGED <<inbox, busy, batch, barrier, acks, timers, seen, mailbox>>
      /\ UNCHANGED <<fate, arrived, handed, closing>>
  BY DEF vars
<1>2. Turned
  BY <1>1, TurnedKept
<1>3. FlightFits' /\ ClosingFits' /\ OpenBatchIsTimed'
  BY <1>1 DEF IInv, FlightFits, ClosingFits, OpenBatchIsTimed, OpenUsers, Open
<1> QED BY <1>1, <1>2, <1>3, IdleStep DEF IInv, Types

LEMMA StepIInv == ASSUME IInv, [Next]_vars PROVE IInv'
<1>1. ASSUME NEW m \in Messages, Receive(m) PROVE IInv'
  BY <1>1, ReceiveStep
<1>2. ASSUME AskToClose PROVE IInv'
  BY <1>2, AskToCloseStep
<1>3. ASSUME TokenCancelled PROVE IInv'
  BY <1>3, TokenCancelledStep
<1>4. ASSUME TakeC2c PROVE IInv'
  BY <1>4, TakeC2cStep
<1>5. ASSUME Decide PROVE IInv'
  BY <1>5, DecideStep
<1>6. ASSUME Flush PROVE IInv'
  BY <1>6, FlushStep
<1>7. ASSUME Dispatch PROVE IInv'
  BY <1>7, DispatchStep
<1>8. ASSUME Hold PROVE IInv'
  BY <1>8, HoldStep
<1>9. ASSUME Seal PROVE IInv'
  BY <1>9, SealStep
<1>10. ASSUME TakeTimer PROVE IInv'
  BY <1>10, TakeTimerStep
<1>11. ASSUME TakeClose PROVE IInv'
  BY <1>11, TakeCloseStep
<1>12. ASSUME Drained PROVE IInv'
  BY <1>12, DrainedStep
<1>13. ASSUME Stop PROVE IInv'
  BY <1>13, StopStep
<1>14. ASSUME NEW u \in Users, FlushNext(u) PROVE IInv'
  BY <1>14, FlushNextStep
<1>15. ASSUME NEW m \in Messages, JoinBarrier(m) PROVE IInv'
  BY <1>15, JoinBarrierStep
<1>16. ASSUME NEW t \in timers, TimerEnds(t) PROVE IInv'
  BY <1>16, TimerEndsStep
<1>17. ASSUME Tick PROVE IInv'
  BY <1>17, TickStep
<1>18. ASSUME NEW u \in Users, Begin(u) PROVE IInv'
  BY <1>18, BeginStep
<1>19. ASSUME NEW u \in Users, End(u) PROVE IInv'
  BY <1>19, EndStep
<1>20. ASSUME NEW u \in Users, LoseScope(u) PROVE IInv'
  BY <1>20, LoseStep
<1>21. ASSUME Actor PROVE IInv'
  BY <1>4, <1>5, <1>6, <1>7, <1>8, <1>9, <1>10, <1>11, <1>12, <1>13, <1>14, <1>15, <1>21 DEF Actor
<1>22. ASSUME UNCHANGED vars PROVE IInv'
  BY <1>22, StutterIInv
<1> QED BY <1>1, <1>2, <1>3, <1>16, <1>17, <1>18, <1>19, <1>20, <1>21, <1>22 DEF Next

LEMMA Invariance == Spec => []IInv
<1>1. Init => IInv
  BY InitIInv
<1>2. IInv /\ [Next]_vars => IInv'
  BY StepIInv
<1> QED BY <1>1, <1>2, PTL DEF Spec

-----------------------------------------------------------------------------
(* The theorems. *)

LEMMA BatchesSoundIs == ASSUME IInv PROVE BatchesAreSound
<1>1. Types /\ BatchesFit
  BY DEF IInv
<1>2. \A i \in DOMAIN inbox : inbox[i].kind \in {"c2c", "timer", "shutdown"}
  <2>1. \A c \in Commands : c.kind \in {"c2c", "timer", "shutdown"}
    BY CommandFields DEF Commands
  <2>2. \A i \in 1 .. Len(inbox) : inbox[i] \in Commands
    BY <1>1, ElementOfSeq DEF Types
  <2> QED BY <1>1, <2>1, <2>2, LenProperties DEF Types
<1>3. busy \in [stage : {"idle", "decide", "flush", "barrier", "plain", "hold", "seal"},
                user : Users \cup {None}, msg : Messages \cup {None},
                then : {"idle", "barrier", "plain", "hold"}]
  BY <1>1 DEF Types, Busy, Handling
<1>4. ASSUME NEW u \in Users
      PROVE  /\ batch[u].msgs \in SeqOf(Messages, MaxMessages)
             /\ batch[u].chars \in 0 .. MaxChars
             /\ batch[u].gen \in 0 .. MaxMessages + 1
             /\ batch[u].quiet \in 0 .. Quiet
             /\ batch[u].hard \in 0 .. MaxWait
             /\ \A i \in DOMAIN barrier[u] : UserOf[barrier[u][i].msg] = u
  <2>1. /\ batch[u].msgs \in Seq(Messages) /\ Len(batch[u].msgs) \in Nat
        /\ batch[u].chars \in Nat /\ batch[u].gen \in Nat /\ batch[u].quiet \in Nat
        /\ batch[u].hard \in Nat
    BY <1>1, BatchType
  <2>2. /\ Len(batch[u].msgs) <= MaxMessages /\ batch[u].chars <= MaxChars
        /\ batch[u].quiet <= Quiet /\ batch[u].hard <= MaxWait
        /\ batch[u].msgs = <<>> => batch[u] = NoBatch
        /\ batch[u].msgs # <<>> => batch[u].gen = Len(batch[u].msgs) + 1
    BY <1>1 DEF BatchesFit, BatchFits
  <2>3. batch[u].msgs \in SeqOf(Messages, MaxMessages)
    <3>1. batch[u].msgs \in [1 .. Len(batch[u].msgs) -> Messages]
      BY <2>1, LenProperties
    <3>2. Len(batch[u].msgs) \in 0 .. MaxMessages
      BY <2>1, <2>2, ConstTypes
    <3> QED BY <3>1, <3>2 DEF SeqOf
  <2>4. batch[u].gen \in 0 .. MaxMessages + 1
    <3>1. CASE batch[u].msgs = <<>>
      <4>1. batch[u].gen = 0
        BY <2>2, <3>1 DEF NoBatch
      <4> QED BY <4>1, ConstTypes
    <3>2. CASE batch[u].msgs # <<>>
      BY <2>1, <2>2, <3>2, ConstTypes
    <3> QED BY <3>1, <3>2
  <2>5. \A i \in DOMAIN barrier[u] : UserOf[barrier[u][i].msg] = u
    BY BarrierMessages DEF IInv, BarriersFit, BarrierFits
  <2> QED BY <2>1, <2>2, <2>3, <2>4, <2>5, ConstTypes
<1>5. acks \subseteq UNION {Tokens(u) : u \in Users}
  <2> SUFFICES ASSUME NEW m \in acks PROVE \E u \in Users : m \in Tokens(u)
    OBVIOUS
  <2>1. AckFits(m) /\ UserOf[m] \in Users
    BY <1>1, ConstTypes DEF IInv, BarriersFit, Types
  <2>2. PICK i \in 1 .. Len(barrier[UserOf[m]]) :
          barrier[UserOf[m]][i] = [msg |-> m, resolved |-> FALSE]
    BY <2>1 DEF AckFits
  <2>3. i \in DOMAIN barrier[UserOf[m]] /\ barrier[UserOf[m]][i].msg = m
    BY <2>1, <2>2, BarrierMessages
  <2> QED BY <2>1, <2>3 DEF Tokens
<1>6. TypeOK
  <2>1. Dedupe!TypeOK
    BY <1>1 DEF Types, Marks, Dedupe!TypeOK
  <2>2. timers \subseteq [user : Users, gen : 2 .. MaxMessages + 1, left : 0 .. MaxWait]
    BY <1>1 DEF Types, Sleepers
  <2> QED BY <1>1, <1>2, <1>3, <1>4, <1>5, <2>1, <2>2 DEF TypeOK, Types, Fates
<1>7. BarrierExcludesBatch /\ OpenBatchIsTimed
  BY DEF IInv, BatchesFit, BarrierExcludesBatch
<1>8. BatchesAreBounded
  <2> SUFFICES ASSUME busy = Idle, NEW u \in Users, Open(u)
               PROVE  Len(batch[u].msgs) < MaxMessages /\ batch[u].chars < MaxChars
    BY <1>1 DEF BatchesAreBounded, BatchesFit, OpenUsers
  <2>1. ~AtLimit(batch[u]) /\ BatchFits(batch[u])
    BY <1>1, IdleType DEF BatchesFit, Ripe
  <2>2. Len(batch[u].msgs) \in Nat /\ batch[u].chars \in Nat
    BY <1>1, BatchType
  <2> QED BY <2>1, <2>2, ConstTypes DEF AtLimit, BatchFits
<1> QED BY <1>6, <1>7, <1>8 DEF BatchesAreSound

\* The state has its types; a user with an unprocessed command has no open batch;
\* a batch that is open has a timer, asleep or already in the channel, that will
\* close it; between two commands the limits hold (spawn_timer, append_to_batch,
\* release_resolved_barriers).
THEOREM BatchesStaySound == Spec => []BatchesAreSound
  BY Invariance, BatchesSoundIs, PTL

LEMMA KeysFollowIs == ASSUME IInv PROVE KeysFollowMessages
<1>1. KeysFit /\ \A m \in Messages : UserOf[m] \in Users
  BY ConstTypes DEF IInv
<1>2. \A k \in Keys, m \in Messages :
        seen[k] = Dedupe!Reserved(m) => m \in Held(UserOf[m]) \/ busy.msg = m
  <2> SUFFICES ASSUME NEW k \in Keys, NEW m \in Messages, seen[k] = Dedupe!Reserved(m)
               PROVE  m \in Held(UserOf[m]) \/ busy.msg = m
    OBVIOUS
  <2>1. Keeps(m)
    BY <1>1 DEF KeysFit
  <2> QED BY <1>1, <2>1, HeldIs DEF Keeps
<1>3. \A m \in Messages, k \in Keys :
        k \in KeysOf[m] /\ fate[m] \in {"handed", "cancelled"} => seen[k] = Dedupe!Committed
  BY <1>1 DEF KeysFit
<1>4. \A m, n \in Messages :
        m # n /\ {fate[m], fate[n]} \subseteq {"held", "handed"} => KeysOf[m] \cap KeysOf[n] = {}
  <2>1. \A m \in Messages : fate[m] \in {"held", "handed"} => Owns(m)
    BY DEF Owns, Keeps
  <2> QED BY <1>1, <2>1 DEF KeysFit
<1> QED BY <1>2, <1>3, <1>4 DEF KeysFollowMessages

\* The reservations of the dedupe table follow the messages through the batches: a
\* reserved key is of a message that is held or in hand, what was handed on or
\* cancelled has its keys committed, and no two messages that share a key are
\* both held or handed on (reserve_many, commit and rollback of the reservations).
THEOREM KeysStayWithMessages == Spec => []KeysFollowMessages
  BY Invariance, KeysFollowIs, PTL

\* What a message that was dropped as a repetition had in its user's batch.
RepeatFits(m) == \E n \in Messages \ {m} :
  UserOf[n] = UserOf[m] /\ IdsOf[n] \cap IdsOf[m] # {} /\ fate[n] \in Taken
RepeatsFit == \A m \in Messages : fate[m] = "repeated" => RepeatFits(m)

\* What a step may make of the messages: those in hand or held are taken, or one
\* on its way is left out.
LEMMA FatesMove ==
  ASSUME IInv, [Next]_vars
  PROVE  \A m \in Messages :
           \/ fate'[m] = fate[m]
           \/ fate'[m] \in Taken
           \/ fate[m] \in {"new", "sent"} /\ fate'[m] \in {"sent", "duplicate"}
           \/ fate[m] = "sent" /\ fate'[m] = "repeated" /\ RepeatFits(m)'
<1> SUFFICES ASSUME NEW m \in Messages
             PROVE  \/ fate'[m] = fate[m]
                    \/ fate'[m] \in Taken
                    \/ fate[m] \in {"new", "sent"} /\ fate'[m] \in {"sent", "duplicate"}
                    \/ fate[m] = "sent" /\ fate'[m] = "repeated" /\ RepeatFits(m)'
  OBVIOUS
<1>1. fate \in [Messages -> Fates]
  BY DEF IInv, Types
<1>2. ASSUME NEW n \in Messages, Receive(n)
      PROVE  fate'[m] = fate[m] \/ (fate[m] = "new" /\ fate'[m] = "sent")
  BY <1>1, <1>2 DEF Receive
<1>3. ASSUME NEW S, NEW how, Becomes(S, how)
      PROVE  fate'[m] = fate[m] \/ (m \in S /\ fate'[m] = how)
  BY <1>3 DEF Becomes
<1>4. ASSUME TakeC2c
      PROVE  fate'[m] = fate[m] \/ (fate[m] = "sent" /\ fate'[m] = "duplicate")
  <2>1. CASE UNCHANGED fate
    BY <2>1
  <2>2. CASE Becomes({Head(inbox).msg}, "duplicate")
    <3>1. busy = Idle /\ inbox # <<>> /\ Head(inbox).kind = "c2c"
      BY <1>4 DEF TakeC2c, Command
    <3>2. Head(inbox) = inbox[1] /\ 1 \in 1 .. Len(inbox)
      BY <3>1, TakenCommand DEF IInv, Types
    <3>3. fate[Head(inbox).msg] = "sent"
      BY <3>1, <3>2 DEF IInv, FlightFits
    <3> QED BY <1>3, <2>2, <3>3
  <2> QED BY <1>4, <2>1, <2>2 DEF TakeC2c
<1>5. ASSUME Decide
      PROVE  \/ fate'[m] = fate[m]
             \/ fate'[m] \in Taken
             \/ fate[m] = "sent" /\ fate'[m] = "repeated" /\ RepeatFits(m)'
  <2>1. CASE UNCHANGED fate
    BY <2>1
  <2>2. CASE CancelBatch
    BY <1>3, <2>2 DEF CancelBatch, Taken
  <2>3. CASE Repeats(busy.user, busy.msg) /\ Overlook
    <3>1. busy.stage \in Handling
      BY <1>5 DEF Decide, Handling
    <3>2. /\ busy.user \in Users /\ busy.msg \in Messages /\ UserOf[busy.msg] = busy.user
          /\ fate[busy.msg] = "sent"
      BY <3>1, InHand
    <3>3. CASE m = busy.msg
      <4>1. PICK n \in Held(busy.user) : IdsOf[n] \cap IdsOf[busy.msg] # {}
        BY <2>3 DEF Repeats
      <4>2. n \in Messages /\ fate[n] = "held" /\ UserOf[n] = UserOf[m] /\ n # m
        BY <3>2, <3>3, HeldIs
      <4>3. fate'[n] = "held" /\ fate'[m] = "repeated"
        BY <1>1, <2>3, <3>3, <4>2 DEF Overlook, Becomes
      <4> QED BY <3>2, <3>3, <4>1, <4>2, <4>3 DEF RepeatFits, Taken
    <3>4. CASE m # busy.msg
      BY <1>3, <2>3, <3>4 DEF Overlook
    <3> QED BY <3>3, <3>4
  <2> QED BY <1>5, <2>1, <2>2, <2>3 DEF Decide, ProcessReserved, Aggregate, FlushThen
<1>6. ASSUME Flush \/ Dispatch \/ Hold \/ Seal
      PROVE  fate'[m] = fate[m] \/ fate'[m] \in Taken
  BY <1>3, <1>6 DEF Flush, Dispatch, Hold, Seal, TurnDown, Taken
<1>7. ASSUME TakeTimer \/ TakeClose \/ Drained \/ Stop \/ AskToClose \/ TokenCancelled \/ Tick
      PROVE  UNCHANGED fate
  BY <1>7 DEF TakeTimer, TakeClose, Drained, Stop, AskToClose, TokenCancelled, Tick
<1>8. ASSUME \/ \E u \in Users : FlushNext(u) \/ Begin(u) \/ End(u) \/ LoseScope(u)
             \/ \E n \in Messages : JoinBarrier(n)
             \/ \E t \in timers : TimerEnds(t)
      PROVE  UNCHANGED fate
  BY <1>8 DEF FlushNext, Begin, End, LoseScope, JoinBarrier, TimerEnds
<1>9. CASE UNCHANGED vars
  BY <1>9 DEF vars
<1> QED BY <1>2, <1>4, <1>5, <1>6, <1>7, <1>8, <1>9 DEF Next, Actor

LEMMA RepeatsStay == Spec => []RepeatsFit
<1>1. Init => RepeatsFit
  BY DEF Init, RepeatsFit
<1>2. ASSUME IInv, RepeatsFit, [Next]_vars PROVE RepeatsFit'
  <2> SUFFICES ASSUME NEW m \in Messages, fate'[m] = "repeated" PROVE RepeatFits(m)'
    BY DEF RepeatsFit
  <2>1. CASE fate[m] = "repeated"
    <3>1. PICK n \in Messages \ {m} :
            UserOf[n] = UserOf[m] /\ IdsOf[n] \cap IdsOf[m] # {} /\ fate[n] \in Taken
      BY <1>2, <2>1 DEF RepeatsFit, RepeatFits
    <3>2. fate'[n] \in Taken
      BY <1>2, <3>1, FatesMove DEF Taken
    <3> QED BY <3>1, <3>2 DEF RepeatFits
  <2>2. CASE fate[m] # "repeated"
    BY <1>2, <2>2, FatesMove DEF Taken
  <2> QED BY <2>1, <2>2
<1> QED BY <1>1, <1>2, Invariance, PTL DEF Spec

LEMMA NothingLeftIs == ASSUME IInv, RepeatsFit PROVE NothingIsLeft
<1>1. closing \in {"no", "asked"} => \A m \in Messages : fate[m] # "dropped"
  BY DEF IInv, ClosingFits
<1>2. ASSUME closing = "stopped", NEW m \in Messages PROVE fate[m] \notin {"held", "sent"}
  <2>1. fate[m] # "sent"
    BY <1>2 DEF IInv, FlightFits
  <2>2. UserOf[m] \in Users /\ ~Open(UserOf[m])
    BY <1>2, ConstTypes DEF IInv, ClosingFits
  <2>3. fate[m] # "held"
    BY <2>2, HeldIs
  <2> QED BY <2>1, <2>3
<1> QED BY <1>1, <1>2 DEF NothingIsLeft, RepeatsFit, RepeatFits

\* A running aggregator gives a message whose dedupe keys were new up without a word
\* to its user only when another with one of its ids was in the user's batch
\* (is_duplicate_for_open_batch, flush_key); and when it has stopped no message is
\* left in a batch or unanswered (flush_all, drain after the shutdown command).
THEOREM NothingStaysBehind == Spec => []NothingIsLeft
  BY Invariance, RepeatsStay, NothingLeftIs, PTL

LEMMA InOrderIs == ASSUME IInv PROVE HandsOnInOrder
<1> SUFFICES ASSUME NEW u \in Users, NEW i \in DOMAIN handed[u], NEW j \in DOMAIN handed[u], i < j
             PROVE  Position(handed[u][i]) < Position(handed[u][j])
  BY DEF HandsOnInOrder
<1>1. handed[u] \in Seq(Messages) /\ batch[u].msgs \in Seq(Messages) /\ InOrder(Line(u))
  BY LineType DEF IInv, OrderFits
<1>2. /\ Len(handed[u]) \in Nat /\ Len(batch[u].msgs) \in Nat
      /\ Len(Line(u)) = Len(handed[u]) + Len(batch[u].msgs)
      /\ \A k \in 1 .. Len(handed[u]) : Line(u)[k] = handed[u][k]
  BY <1>1, JoinedIs DEF Line
<1>3. i \in 1 .. Len(handed[u]) /\ j \in 1 .. Len(handed[u])
  BY <1>1, LenProperties
<1>4. \A a, b \in Nat : \A k \in 1 .. a : k \in 1 .. a + b
  OBVIOUS
<1>5. i \in 1 .. Len(Line(u)) /\ j \in 1 .. Len(Line(u))
  BY <1>2, <1>3, <1>4
<1>6. Position(Line(u)[i]) < Position(Line(u)[j])
  BY <1>1, <1>5 DEF InOrder
<1> QED BY <1>2, <1>3, <1>6

\* Whatever batches, barriers, limits, timers and refusals come between, what is
\* handed on for a user is in the order in which the loop received it, each
\* message once.
THEOREM OrderOfArrivalIsKept == Spec => []HandsOnInOrder
  BY Invariance, InOrderIs, PTL

=============================================================================

------------------------- MODULE SessionTurnsProofs -------------------------
(***************************************************************************)
(* Theorems about SessionTurns, for any number of requests, operations and *)
(* faults and any limits.                                                   *)
(*                                                                         *)
(* Where messages queue, one request at most is under way, and what it has *)
(* copied differs from the row only in what it is itself about to change,  *)
(* and in the title: that is the core of the invariant.  Where they        *)
(* overlap, only the types and what concerns expiry are known.             *)
(***************************************************************************)
EXTENDS SessionTurns, SequenceTheorems, TLAPS

-----------------------------------------------------------------------------
(* The inductive invariant.                                                 *)

Titles == {"default", "auto", "manual"}
(* Types, when m operations have been prepared. *)
Ops(m) == [act : 0..m, kind : {"none", "delete", "clarify"}, rev : Nat,
           state : {"none", "Waiting", "Executing", "Failed"}]
Sessions(m) == [hist : Seq(1..Turns), arch : SUBSET (1..Turns), title : Titles, pend : Ops(m)]
Steps == {"Idle", "Command", "Writing", "Pending", "Claim", "Run", "Failing", "FailingAgain",
          "Append", "Saving", "Compacting", "Model", "Tool", "Carried", "Tooled", "SavingChat"}
         \cup Over
Requests(m) == [pc : Steps, ask : Asks \cup {"none"}, copy : Sessions(m), act : 0..m, rev : Nat,
                late : 0..m]

RestTypes ==
    /\ mode \in Modes /\ titles \subseteq 1..Turns
    /\ made \in 0..MaxActs /\ expired \subseteq 1..made
    /\ ran \in [Acts -> Nat]
    /\ cleared \subseteq 1..Turns /\ faults \in 0..MaxFaults
    /\ row \in Sessions(made)

Types == RestTypes /\ turns \in [1..Turns -> Requests(made)]

(* A request at a command has one of the four; a request that found an      *)
(* expired operation, and does not look past it, is on its way to drop it.  *)
Commands == {"Clear", "Rename", "Compact", "Note"}

LateFits(u) ==
    /\ u.pc \in {"Command", "Writing"} => u.ask \in Commands
    /\ u.late # 0 =>
        /\ u.late \in expired
        /\ u.pc \in {"Command", "Writing", "Pending", "Append", "Saving"} \cup Over
        /\ u.pc \in {"Command", "Writing"} => u.ask = "Clear"
        /\ u.pc = "Pending" => u.copy.pend.act = u.late
        /\ u.pc \in {"Append", "Saving"} => u.copy.pend = NoPending

LatesFit == \A t \in 1..Turns : LateFits(turns[t])

(* Who is before has finished.                                              *)
OneByOne == \A t, u \in 1..Turns : t < u /\ turns[u].pc # "Idle" => turns[t].pc \in Over

AnyLost == \E t \in 1..Turns : turns[t].pc = "Lost"

(* Steps that may follow a claim, with what was claimed in the row.         *)
Executing == {"Run", "Tool", "Carried", "Tooled", "Failing", "FailingAgain", "Append", "Saving"}

(* What waits for an answer, or is a question, has never been carried out   *)
(* or closed, and nothing more than once.                                   *)
Unrun(p) == p.state = "Waiting" \/ p.kind = "clarify" => p.act \in 1..made /\ ran[p.act] = 0

RunOnce(r, m) == \A a \in Acts : r[a] <= 1 /\ (a > m => r[a] = 0)

RunsFit ==
    /\ Unrun(row.pend)
    /\ RunOnce(ran, made)
    /\ row.pend.state = "Executing" =>
           \/ AnyLost
           \/ \E t \in 1..Turns : /\ turns[t].pc \in Executing
                                  /\ turns[t].act # 0 /\ turns[t].act = row.pend.act

(* How a copy may differ from the row.                                      *)
Follows(c, hist) ==
    /\ c.hist = hist /\ c.arch = row.arch
    /\ row.title = c.title \/ (c.title = "default" /\ row.title = "auto")

MayKeep(p) ==
    /\ p.act \in {0, row.pend.act}
    /\ Unrun(p)
    /\ p.state = "Executing" => AnyLost

(* What a request that carries out an answer has claimed.                   *)
Claimed(u) ==
    /\ u.act \in 1..made /\ row.pend.act = u.act /\ row.pend.rev = u.rev
    /\ row.pend.state = "Executing"

CopyFits(t, u) ==
    /\ u.pc \in {"Writing", "Pending", "Claim", "Run", "Compacting", "Model", "Tool", "Carried"} =>
           Follows(u.copy, row.hist) /\ u.copy.pend = row.pend
    /\ u.pc = "SavingChat" => Follows(u.copy, Append(row.hist, t)) /\ u.copy.pend = row.pend
    /\ u.pc = "Append" => MayKeep(u.copy.pend)
    /\ u.pc = "Saving" => Follows(u.copy, Append(row.hist, t)) /\ MayKeep(u.copy.pend)
    /\ u.pc \in {"Command", "Writing", "Pending", "Compacting", "Model", "SavingChat"} => u.act = 0
    /\ u.pc = "Claim" => /\ u.act = row.pend.act /\ u.rev = row.pend.rev
                         /\ row.pend.state = "Waiting"
    /\ u.pc = "Run" => Claimed(u) /\ ran[u.act] = 0
    /\ u.pc \in {"Tool", "Carried", "Tooled"} /\ u.act # 0 /\ row.pend.act = u.act =>
           row.pend.kind = "clarify"

CopiesFit == \A t \in 1..Turns : CopyFits(t, turns[t])

Stored == {t \in 1..Turns : turns[t].pc = "Saved"}
Increasing(s) == \A i, j \in 1..Len(s) : i < j => s[i] < s[j]

HistoryFits ==
    /\ Stored \ cleared \subseteq ToSet(row.hist) \cup row.arch
    /\ ToSet(row.hist) \cup row.arch \subseteq Stored
    /\ ToSet(row.hist) \cap row.arch = {}
    /\ Increasing(row.hist)

DropsFit ==
    \A t \in 1..Turns :
        turns[t].late # 0 /\ turns[t].pc \in {"Saved", "Done"} => row.pend.act # turns[t].late

IInv ==
    /\ Types /\ LatesFit
    /\ mode = "queue" => OneByOne /\ RunsFit /\ CopiesFit /\ HistoryFits /\ DropsFit

-----------------------------------------------------------------------------
(* The operators.                                                           *)

LEMMA NewTypes == ASSUME NEW m \in Nat PROVE NewSession \in Sessions(m) /\ NoPending \in Ops(m)
BY DEF NewSession, NoPending, Sessions, Ops, Titles

LEMMA TypesGrow ==
  ASSUME NEW m \in Nat, NEW k \in Nat, m <= k
  PROVE  Ops(m) \subseteq Ops(k) /\ Sessions(m) \subseteq Sessions(k) /\ Requests(m) \subseteq Requests(k)
<1>1. 0..m \subseteq 0..k
  OBVIOUS
<1>2. Ops(m) \subseteq Ops(k)
  BY <1>1 DEF Ops
<1>3. Sessions(m) \subseteq Sessions(k)
  <2> HIDE DEF Ops
  <2>. QED BY <1>2 DEF Sessions
<1>4. Requests(m) \subseteq Requests(k)
  BY <1>1, <1>3 DEF Requests
<1>. QED BY <1>2, <1>3, <1>4

(* What a request is after a step.                                          *)
LEMMA MovedIs ==
  ASSUME NEW m \in Nat, NEW u \in Requests(m), NEW to \in Steps, NEW c \in Sessions(m)
  PROVE  /\ Moved(u, to, c) \in Requests(m)
         /\ Moved(u, to, c).pc = to /\ Moved(u, to, c).late = u.late
         /\ to \in Over => Moved(u, to, c).act = 0 /\ Moved(u, to, c).ask = "none"
         /\ to \notin Over => /\ Moved(u, to, c).copy = c /\ Moved(u, to, c).act = u.act
                              /\ Moved(u, to, c).rev = u.rev /\ Moved(u, to, c).ask = u.ask
<1>1. CASE to \in Over
  <2>1. Moved(u, to, c) = [pc |-> to, ask |-> "none", copy |-> NewSession, act |-> 0,
                           rev |-> 0, late |-> u.late]
    BY <1>1 DEF Moved, Finished, NotYet
  <2>. QED BY <2>1, <1>1, NewTypes DEF Requests
<1>2. CASE to \notin Over
  <2>1. Moved(u, to, c) = [pc |-> to, ask |-> u.ask, copy |-> c, act |-> u.act,
                           rev |-> u.rev, late |-> u.late]
    BY <1>2 DEF Moved, Requests
  <2>. QED BY <2>1, <1>2 DEF Requests
<1>. QED BY <1>1, <1>2

LEMMA ElementsIn == ASSUME NEW s \in Seq(1..Turns) PROVE ToSet(s) \subseteq 1..Turns
BY ElementOfSeq, LenProperties DEF ToSet

(* Appending a number greater than all keeps an order.                      *)
LEMMA AppendIs ==
  ASSUME NEW s \in Seq(1..Turns), NEW t \in 1..Turns
  PROVE  /\ Append(s, t) \in Seq(1..Turns)
         /\ ToSet(Append(s, t)) = ToSet(s) \cup {t}
         /\ Increasing(s) /\ (\A x \in ToSet(s) : x < t) => Increasing(Append(s, t))
<1> DEFINE r == Append(s, t)
<1>1. Len(s) \in Nat /\ DOMAIN s = 1..Len(s)
  BY LenProperties
<1>2. r \in Seq(1..Turns) /\ Len(r) = Len(s) + 1 /\ r[Len(s) + 1] = t
      /\ \A k \in 1..Len(s) : r[k] = s[k]
  BY AppendProperties
<1>3. DOMAIN r = 1..(Len(s) + 1)
  BY <1>2, LenProperties
<1> HIDE DEF r
<1>4. \A k \in 1..(Len(s) + 1) : k = Len(s) + 1 \/ k \in 1..Len(s)
  BY <1>1
<1>5. Len(s) + 1 \in 1..(Len(s) + 1) /\ \A k \in 1..Len(s) : k \in 1..(Len(s) + 1)
  BY <1>1
<1>6. ToSet(r) = ToSet(s) \cup {t}
  <2>1. \A k \in DOMAIN r : r[k] = t \/ r[k] \in ToSet(s)
    BY <1>1, <1>2, <1>3, <1>4 DEF ToSet
  <2>2. \A k \in DOMAIN s : s[k] \in ToSet(r)
    BY <1>1, <1>2, <1>3, <1>5 DEF ToSet
  <2>3. t \in ToSet(r)
    BY <1>2, <1>3, <1>5 DEF ToSet
  <2>. QED BY <2>1, <2>2, <2>3 DEF ToSet
<1>7. ASSUME Increasing(s), \A x \in ToSet(s) : x < t PROVE Increasing(r)
  <2>1. SUFFICES ASSUME NEW i \in 1..Len(r), NEW j \in 1..Len(r), i < j PROVE r[i] < r[j]
    BY DEF Increasing
  <2>2. i \in 1..Len(s) /\ s[i] < t
    BY <1>1, <1>2, <1>7, <2>1 DEF ToSet
  <2>3. CASE j = Len(s) + 1
    BY <2>2, <2>3, <1>2
  <2>4. CASE j # Len(s) + 1
    <3>1. j \in 1..Len(s)
      BY <2>4, <1>1, <1>2
    <3>. QED BY <3>1, <2>1, <2>2, <1>2, <1>7 DEF Increasing
  <2>. QED BY <2>3, <2>4
<1>. QED BY <1>2, <1>6, <1>7 DEF r

(* A compaction moves the first messages to the archive and changes nothing *)
(* else.                                                                    *)
LEMMA CompactedIs ==
  ASSUME NEW m \in Nat, NEW s \in Sessions(m)
  PROVE  /\ Compacted(s) \in Sessions(m)
         /\ Compacted(s).title = s.title /\ Compacted(s).pend = s.pend
         /\ ToSet(Compacted(s).hist) \cup Compacted(s).arch = ToSet(s.hist) \cup s.arch
         /\ Increasing(s.hist) => Increasing(Compacted(s).hist)
         /\ Increasing(s.hist) /\ ToSet(s.hist) \cap s.arch = {} =>
                ToSet(Compacted(s).hist) \cap Compacted(s).arch = {}
<1> DEFINE old == Len(s.hist) - KeepLimit
           kept == SubSeq(s.hist, old + 1, Len(s.hist))
           gone == SubSeq(s.hist, 1, old)
<1>1. /\ s.hist \in Seq(1..Turns) /\ s.arch \in SUBSET (1..Turns) /\ s.title \in Titles
      /\ s.pend \in Ops(m) /\ Len(s.hist) \in Nat /\ KeepLimit \in Nat
      /\ DOMAIN s.hist = 1..Len(s.hist)
      /\ s = [hist |-> s.hist, arch |-> s.arch, title |-> s.title, pend |-> s.pend]
  BY LenProperties, SessionAssumption DEF Sessions
<1>2. CASE ~ (old > 0)
  BY <1>2 DEF Compacted
<1>3. CASE old > 0
  <2>1. old \in Nat /\ old + 1 \in 1..(Len(s.hist) + 1) /\ old \in 1..Len(s.hist)
    BY <1>1, <1>3
  <2>2. Compacted(s) = [hist |-> kept, arch |-> s.arch \cup ToSet(gone),
                        title |-> s.title, pend |-> s.pend]
    BY <1>1, <1>3 DEF Compacted
  <2> DEFINE h == s.hist
  <2>3. /\ kept \in Seq(1..Turns) /\ Len(kept) = Len(h) - old /\ DOMAIN kept = 1..(Len(h) - old)
        /\ \A n \in 1..(Len(h) - old) : kept[n] = h[old + n]
    <3>1. kept = [n \in 1..(Len(h) - (old + 1) + 1) |-> h[(old + 1) + n - 1]]
      BY <1>1, <2>1, SMTT(30)
    <3>2. Len(h) - (old + 1) + 1 = Len(h) - old /\ Len(h) - old \in Nat
          /\ \A n \in 1..(Len(h) - old) : (old + 1) + n - 1 = old + n /\ old + n \in 1..Len(h)
      <4>1. Len(h) \in Nat /\ old \in 1..Len(h)
        BY <1>1, <2>1
      <4> HIDE DEF old, h
      <4>. QED BY <4>1
    <3>3. \A n \in 1..(Len(h) - old) : h[old + n] \in 1..Turns
      BY <1>1, <3>2, ElementOfSeq
    <3> HIDE DEF kept, old, h
    <3>4. kept = [n \in 1..(Len(h) - old) |-> h[old + n]]
      BY <3>1, <3>2
    <3>5. kept \in [1..(Len(h) - old) -> 1..Turns]
      BY <3>3, <3>4
    <3> DEFINE N == Len(h) - old
    <3>6. N \in Nat /\ kept = [n \in 1..N |-> h[old + n]] /\ kept \in [1..N -> 1..Turns]
      BY <3>2, <3>4, <3>5
    <3> HIDE DEF N
    <3>7. kept \in Seq(1..Turns) /\ Len(kept) = N /\ DOMAIN kept = 1..N
          /\ \A n \in 1..N : kept[n] = h[old + n]
      BY <3>6
    <3>. QED BY <3>7 DEF N
  <2>4. /\ gone \in Seq(1..Turns) /\ DOMAIN gone = 1..old
        /\ \A n \in 1..old : gone[n] = h[n]
    <3>1. gone = [n \in 1..(old - 1 + 1) |-> h[1 + n - 1]]
      BY <1>1, <2>1
    <3>2. old - 1 + 1 = old /\ \A n \in 1..old : 1 + n - 1 = n /\ n \in 1..Len(h)
      BY <1>1, <2>1
    <3>3. \A n \in 1..old : h[n] \in 1..Turns
      BY <1>1, <3>2, ElementOfSeq
    <3> HIDE DEF gone, old, h
    <3>4. gone = [n \in 1..old |-> h[n]]
      BY <3>1, <3>2
    <3>. QED BY <2>1, <3>3, <3>4, LenProperties
  <2> HIDE DEF kept, gone
  <2>5. ToSet(kept) = {h[k] : k \in (old + 1)..Len(h)}
    <3>1. \A n \in 1..(Len(h) - old) : old + n \in (old + 1)..Len(h)
      BY <1>1, <2>1
    <3>2. \A k \in (old + 1)..Len(h) : k - old \in 1..(Len(h) - old) /\ old + (k - old) = k
      BY <1>1, <2>1
    <3> HIDE DEF old, h
    <3>3. \A n \in DOMAIN kept : kept[n] \in {h[k] : k \in (old + 1)..Len(h)}
      BY <2>3, <3>1
    <3>4. \A k \in (old + 1)..Len(h) : h[k] \in ToSet(kept)
      <4>1. SUFFICES ASSUME NEW k \in (old + 1)..Len(h) PROVE h[k] \in ToSet(kept)
        OBVIOUS
      <4>2. kept[k - old] = h[k] /\ k - old \in DOMAIN kept
        BY <2>3, <3>2
      <4>. QED BY <4>2 DEF ToSet
    <3>. QED BY <3>3, <3>4 DEF ToSet
  <2>6. ToSet(gone) = {h[k] : k \in 1..old}
    <3> HIDE DEF old, h
    <3>. QED BY <2>4 DEF ToSet
  <2>7. ToSet(h) = {h[k] : k \in 1..Len(h)} /\ ToSet(h) \subseteq 1..Turns
    BY <1>1, ElementOfSeq DEF ToSet
  <2>8. \A k \in Int : k \in 1..Len(h) <=> k \in 1..old \/ k \in (old + 1)..Len(h)
    BY <1>1, <2>1
  <2>9. ToSet(kept) \cup ToSet(gone) = ToSet(h)
    <3> HIDE DEF old, h
    <3>1. \A k \in 1..Len(h) : k \in Int
      OBVIOUS
    <3>2. \A k \in 1..old : k \in Int
      OBVIOUS
    <3>3. \A k \in (old + 1)..Len(h) : k \in Int
      OBVIOUS
    <3>. QED BY <2>5, <2>6, <2>7, <2>8, <3>1, <3>2, <3>3
  <2>10. Compacted(s) \in Sessions(m)
    <3>1. s.arch \cup ToSet(gone) \in SUBSET (1..Turns)
      BY <1>1, <2>7, <2>9
    <3>. QED BY <3>1, <1>1, <2>2, <2>3 DEF Sessions
  <2>11. ASSUME Increasing(h) PROVE Increasing(kept) /\ ToSet(kept) \cap ToSet(gone) = {}
    <3>1. \A i, j \in 1..Len(h) : i < j => h[i] < h[j]
      BY <2>11 DEF Increasing
    <3>2. \A i, j \in 1..Len(kept) : i < j => kept[i] < kept[j]
      <4>1. SUFFICES ASSUME NEW i \in 1..Len(kept), NEW j \in 1..Len(kept), i < j
                     PROVE  kept[i] < kept[j]
        OBVIOUS
      <4>2. Len(h) \in Nat /\ old \in 1..Len(h)
        BY <1>1, <2>1
      <4> HIDE DEF old, h
      <4>3. i \in 1..(Len(h) - old) /\ j \in 1..(Len(h) - old) /\ i < j
        BY <2>3, <4>1
      <4>4. old + i \in 1..Len(h) /\ old + j \in 1..Len(h) /\ old + i < old + j
        BY <4>2, <4>3
      <4>. QED BY <2>3, <3>1, <4>3, <4>4
    <3>3. \A k \in (old + 1)..Len(h), n \in 1..old : h[n] # h[k]
      <4>1. SUFFICES ASSUME NEW k \in (old + 1)..Len(h), NEW n \in 1..old PROVE h[n] # h[k]
        OBVIOUS
      <4>2. k \in 1..Len(h) /\ n \in 1..Len(h) /\ n < k
        BY <1>1, <2>1
      <4>3. h[n] < h[k] /\ h[n] \in 1..Turns
        BY <3>1, <4>2, <1>1, ElementOfSeq
      <4>4. h[k] \in 1..Turns
        BY <4>2, <1>1, ElementOfSeq
      <4>. QED BY <4>3, <4>4
    <3>. QED BY <2>5, <2>6, <3>2, <3>3 DEF Increasing
  <2>12. Increasing(h) /\ ToSet(h) \cap s.arch = {} =>
           ToSet(kept) \cap (s.arch \cup ToSet(gone)) = {}
    BY <2>9, <2>11
  <2>. QED BY <2>2, <2>9, <2>10, <2>11, <2>12
<1>. QED BY <1>2, <1>3

-----------------------------------------------------------------------------
(* A step of a request.  Where messages queue it is the only one under way. *)

LEMMA OnlyOne ==
  ASSUME IInv, mode = "queue", NEW t \in 1..Turns, turns[t].pc \notin Over,
         turns[t].pc = "Idle" => \A u \in 1..(t - 1) : turns[u].pc \in Over
  PROVE  /\ \A u \in 1..Turns : u # t => turns[u].pc \in Over \cup {"Idle"}
         /\ \A u \in 1..Turns : turns[u].pc \in Over /\ u # t => u < t
         /\ \A u \in 1..Turns : u < t => turns[u].pc \in Over
<1>1. OneByOne /\ t \in Nat /\ Turns \in Nat
  BY SessionAssumption DEF IInv
<1>2. ASSUME NEW u \in 1..Turns, u < t PROVE turns[u].pc \in Over
  <2>1. u \in 1..(t - 1)
    BY <1>1, <1>2
  <2>. QED BY <2>1, <1>1, <1>2 DEF OneByOne
<1>3. ASSUME NEW u \in 1..Turns, t < u PROVE turns[u].pc = "Idle"
  BY <1>1, <1>3 DEF OneByOne
<1>4. \A u \in 1..Turns : u # t => u < t \/ t < u
  BY <1>1
<1>5. \A u \in 1..Turns : turns[u].pc = "Idle" => turns[u].pc \notin Over
  BY DEF Over
<1>. QED BY <1>2, <1>3, <1>4, <1>5

LEMMA StepShape ==
  ASSUME IInv, RestTypes', made' \in {made, made + 1},
         NEW t \in 1..Turns, NEW q \in Requests(made'),
         turns' = [turns EXCEPT ![t] = q]
  PROVE  /\ Types' /\ turns'[t] = q
         /\ \A u \in 1..Turns : u # t => turns'[u] = turns[u]
<1>1. made \in Nat /\ made' \in Nat /\ made <= made'
  BY SessionAssumption DEF IInv, Types, RestTypes
<1>2. turns \in [1..Turns -> Requests(made')]
  BY <1>1, TypesGrow DEF IInv, Types
<1>3. turns' \in [1..Turns -> Requests(made')] /\ turns'[t] = q
      /\ \A u \in 1..Turns : u # t => turns'[u] = turns[u]
  <2> HIDE DEF Requests
  <2>. QED BY <1>2
<1>. QED BY <1>3 DEF Types

LEMMA LatesKept ==
  ASSUME IInv, expired \subseteq expired', NEW t \in 1..Turns, NEW q, LateFits(q)',
         turns'[t] = q, \A u \in 1..Turns : u # t => turns'[u] = turns[u]
  PROVE  LatesFit'
<1>1. SUFFICES ASSUME NEW u \in 1..Turns PROVE LateFits(turns[u])'
  BY DEF LatesFit
<1>2. CASE u = t
  BY <1>2
<1>3. CASE u # t
  BY <1>3 DEF IInv, LatesFit, LateFits
<1>. QED BY <1>2, <1>3

LEMMA OrderKept ==
  ASSUME IInv, mode = "queue", NEW t \in 1..Turns, NEW q,
         turns[t].pc \notin Over,
         turns[t].pc = "Idle" => \A u \in 1..(t - 1) : turns[u].pc \in Over,
         turns'[t] = q, \A u \in 1..Turns : u # t => turns'[u] = turns[u], q.pc # "Idle"
  PROVE  OneByOne'
<1>1. SUFFICES ASSUME NEW u \in 1..Turns, NEW v \in 1..Turns, u < v, turns'[v].pc # "Idle"
               PROVE  turns'[u].pc \in Over
  BY DEF OneByOne
<1>2. u # v
  BY <1>1
<1>3. CASE v = t
  BY <1>1, <1>2, <1>3, OnlyOne
<1>4. CASE v # t
  <2>1. turns'[v] = turns[v]
    BY <1>4
  <2>2. turns[u].pc \in Over
    BY <2>1, <1>1 DEF IInv, OneByOne
  <2>3. u # t
    BY <2>2
  <2>. QED BY <2>2, <2>3
<1>. QED BY <1>3, <1>4

LEMMA OthersFit ==
  ASSUME IInv, mode = "queue", NEW t \in 1..Turns, NEW q,
         turns[t].pc \notin Over,
         turns[t].pc = "Idle" => \A u \in 1..(t - 1) : turns[u].pc \in Over,
         turns'[t] = q, \A u \in 1..Turns : u # t => turns'[u] = turns[u],
         CopyFits(t, q)'
  PROVE  CopiesFit'
<1>1. SUFFICES ASSUME NEW u \in 1..Turns PROVE CopyFits(u, turns[u])'
  BY DEF CopiesFit
<1>2. CASE u = t
  BY <1>2
<1>3. CASE u # t
  BY <1>3, OnlyOne DEF CopyFits, Over
<1>. QED BY <1>2, <1>3

(* A request that writes nothing.                                           *)
LEMMA QuietStep ==
  ASSUME IInv, RestTypes', UNCHANGED <<mode, row, made, expired, ran, cleared>>,
         NEW t \in 1..Turns, NEW q \in Requests(made),
         turns' = [turns EXCEPT ![t] = q],
         turns[t].pc \notin Over,
         mode = "queue" /\ turns[t].pc = "Idle" => \A u \in 1..(t - 1) : turns[u].pc \in Over,
         q.pc \notin {"Idle", "Saved"}, LateFits(q), q.pc = "Done" => q.late = 0,
         mode = "queue" => CopyFits(t, q),
         mode = "queue" /\ row.pend.state = "Executing" /\ row.pend.act = turns[t].act
             /\ turns[t].act # 0 /\ turns[t].pc \in Executing =>
                 q.pc = "Lost" \/ (q.pc \in Executing /\ q.act = turns[t].act)
  PROVE  IInv'
<1>1. /\ Types' /\ turns'[t] = q
      /\ \A u \in 1..Turns : u # t => turns'[u] = turns[u]
  BY StepShape
<1>2. LatesFit'
  <2>1. LateFits(q)'
    BY DEF LateFits
  <2>. QED BY <2>1, <1>1, LatesKept
<1>3. ASSUME mode = "queue" PROVE (OneByOne /\ RunsFit /\ CopiesFit /\ HistoryFits /\ DropsFit)'
  <2>1. OneByOne'
    BY <1>1, <1>3, OrderKept
  <2>2. AnyLost => AnyLost'
    <3>1. "Lost" \in Over
      BY DEF Over
    <3>. QED BY <3>1, <1>1 DEF AnyLost
  <2>3. RunsFit'
    <3>1. Unrun(row.pend)' /\ \A a \in Acts : ran'[a] <= 1 /\ (a > made' => ran'[a] = 0)
      BY <1>3 DEF IInv, RunsFit, RunOnce, Unrun
    <3>2. ASSUME row.pend.state = "Executing", ~AnyLost
          PROVE  \/ AnyLost'
                 \/ \E u \in 1..Turns : /\ turns'[u].pc \in Executing
                                        /\ turns'[u].act # 0 /\ turns'[u].act = row.pend.act
      <4>1. PICK u \in 1..Turns : /\ turns[u].pc \in Executing
                                  /\ turns[u].act # 0 /\ turns[u].act = row.pend.act
        BY <1>3, <3>2 DEF IInv, RunsFit
      <4>2. CASE u # t
        BY <4>1, <4>2, <1>1
      <4>3. CASE u = t
        <5>1. q.pc = "Lost" \/ (q.pc \in Executing /\ q.act = turns[t].act)
          BY <4>1, <4>3, <1>3, <3>2
        <5>. QED BY <5>1, <4>1, <4>3, <1>1 DEF AnyLost
      <4>. QED BY <4>2, <4>3
    <3>. QED BY <3>1, <3>2, <2>2 DEF RunsFit, RunOnce
  <2>4. CopiesFit'
    <3>1. CopyFits(t, q)'
      BY <1>3, <2>2 DEF CopyFits, Follows, MayKeep, Unrun, Claimed
    <3>. QED BY <3>1, <1>1, <1>3, OthersFit
  <2>5. HistoryFits'
    <3>1. Stored' = Stored
      <4>1. "Saved" \in Over
        BY DEF Over
      <4>. QED BY <4>1, <1>1 DEF Stored
    <3>. QED BY <3>1, <1>3 DEF IInv, HistoryFits
  <2>6. DropsFit'
    BY <1>1, <1>3 DEF IInv, DropsFit
  <2>. QED BY <2>1, <2>3, <2>4, <2>5, <2>6
<1>. QED BY <1>1, <1>2, <1>3 DEF IInv

(* The history, when a request writes: nothing of it changes, its exchange  *)
(* is appended, it is cleared or compacted.                                 *)
LEMMA HistorySame ==
  ASSUME IInv, mode = "queue", NEW t \in 1..Turns, turns[t].pc \notin Over,
         turns'[t].pc # "Saved", \A u \in 1..Turns : u # t => turns'[u] = turns[u],
         row'.hist = row.hist, row'.arch = row.arch, cleared' = cleared
  PROVE  HistoryFits'
<1>1. Stored' = Stored
  <2>1. "Saved" \in Over
    BY DEF Over
  <2>. QED BY <2>1 DEF Stored
<1>. QED BY <1>1 DEF IInv, HistoryFits

LEMMA HistoryAppended ==
  ASSUME IInv, mode = "queue", NEW t \in 1..Turns, turns[t].pc \notin Over \cup {"Idle"},
         turns'[t].pc = "Saved", \A u \in 1..Turns : u # t => turns'[u] = turns[u],
         row'.hist = Append(row.hist, t), row'.arch = row.arch, cleared' = cleared
  PROVE  HistoryFits'
<1>1. Stored' = Stored \cup {t}
  BY DEF Stored
<1>2. \A x \in Stored : x < t
  <2>1. "Saved" \in Over
    BY DEF Over
  <2>2. \A u \in 1..Turns : turns[u].pc \in Over /\ u # t => u < t
    BY OnlyOne
  <2>. QED BY <2>1, <2>2 DEF Stored
<1>3. HistoryFits
  BY DEF IInv
<1>4. row.hist \in Seq(1..Turns) /\ ToSet(row.hist) \subseteq Stored /\ row.arch \subseteq Stored
  BY <1>3 DEF IInv, Types, RestTypes, Sessions, HistoryFits
<1>5. ToSet(row'.hist) = ToSet(row.hist) \cup {t} /\ Increasing(row'.hist)
  BY <1>2, <1>3, <1>4, AppendIs DEF HistoryFits
<1>6. t \notin row.arch
  BY <1>2, <1>4
<1>. QED BY <1>1, <1>3, <1>5, <1>6 DEF HistoryFits

LEMMA HistoryCleared ==
  ASSUME IInv, mode = "queue", NEW t \in 1..Turns, turns[t].pc \notin Over,
         turns'[t].pc # "Saved", \A u \in 1..Turns : u # t => turns'[u] = turns[u],
         row'.hist = <<>>, row'.arch = row.arch, cleared' = cleared \cup ToSet(row.hist)
  PROVE  HistoryFits'
<1>1. Stored' = Stored
  <2>1. "Saved" \in Over
    BY DEF Over
  <2>. QED BY <2>1 DEF Stored
<1>2. ToSet(<<>>) = {} /\ Increasing(<<>>)
  BY DEF ToSet, Increasing
<1>. QED BY <1>1, <1>2 DEF IInv, HistoryFits

LEMMA HistoryCompacted ==
  ASSUME IInv, mode = "queue", NEW t \in 1..Turns, turns[t].pc \notin Over,
         turns'[t].pc # "Saved", \A u \in 1..Turns : u # t => turns'[u] = turns[u],
         NEW s \in Sessions(made), s.hist = row.hist, s.arch = row.arch,
         row' = Compacted(s), cleared' = cleared
  PROVE  HistoryFits'
<1>1. Stored' = Stored
  <2>1. "Saved" \in Over
    BY DEF Over
  <2>. QED BY <2>1 DEF Stored
<1>2. HistoryFits /\ made \in Nat
  BY DEF IInv, Types, RestTypes
<1>3. /\ ToSet(row'.hist) \cup row'.arch = ToSet(row.hist) \cup row.arch
      /\ Increasing(row'.hist) /\ ToSet(row'.hist) \cap row'.arch = {}
  BY <1>2, CompactedIs DEF HistoryFits
<1>. QED BY <1>1, <1>2, <1>3 DEF HistoryFits

(* A request that writes the row.                                           *)
LEMMA WritingStep ==
  ASSUME IInv, RestTypes', UNCHANGED <<mode, expired>>, made' \in {made, made + 1},
         ran' = ran \/ (mode = "queue" => RunOnce(ran', made')),
         NEW t \in 1..Turns, NEW q \in Requests(made'),
         turns' = [turns EXCEPT ![t] = q],
         turns[t].pc \notin Over \cup {"Idle"}, q.pc # "Idle", LateFits(q),
         mode = "queue" =>
             /\ (Unrun(row.pend))'
             /\ row'.pend.state = "Executing" =>
                    AnyLost \/ (q.pc \in Executing /\ q.act # 0 /\ q.act = row'.pend.act)
             /\ row'.pend.act \in {0, row.pend.act} \/ row'.pend.act > made
             /\ q.pc \in {"Saved", "Done"} /\ q.late # 0 => row'.pend.act = 0
             /\ HistoryFits'
             /\ CopyFits(t, q)'
  PROVE  IInv'
<1>1. /\ Types' /\ turns'[t] = q
      /\ \A u \in 1..Turns : u # t => turns'[u] = turns[u]
  BY StepShape
<1>2. LatesFit'
  <2>1. LateFits(q)'
    BY DEF LateFits
  <2>. QED BY <2>1, <1>1, LatesKept
<1>3. ASSUME mode = "queue" PROVE (OneByOne /\ RunsFit /\ CopiesFit /\ HistoryFits /\ DropsFit)'
  <2>1. OneByOne'
    BY <1>1, <1>3, OrderKept
  <2>2. AnyLost => AnyLost'
    <3>1. "Lost" \in Over
      BY DEF Over
    <3>. QED BY <3>1, <1>1 DEF AnyLost
  <2>3. RunsFit'
    <3>1. RunOnce(ran', made')
      <4>1. CASE ran' = ran
        <5>1. \A a \in Acts : a > made' => a > made
          BY DEF IInv, Types, RestTypes, Acts
        <5>. QED BY <4>1, <5>1, <1>3 DEF IInv, RunsFit, RunOnce
      <4>. QED BY <4>1, <1>3
    <3>2. q.pc \in Executing /\ q.act # 0 /\ q.act = row'.pend.act =>
            \E u \in 1..Turns : /\ turns'[u].pc \in Executing
                                /\ turns'[u].act # 0 /\ turns'[u].act = row'.pend.act
      BY <1>1
    <3>. QED BY <3>1, <3>2, <2>2, <1>3 DEF RunsFit
  <2>4. CopiesFit'
    BY <1>1, <1>3, OthersFit
  <2>5. DropsFit'
    <3>1. SUFFICES ASSUME NEW u \in 1..Turns, turns'[u].late # 0, turns'[u].pc \in {"Saved", "Done"}
                   PROVE  row'.pend.act # turns'[u].late
      BY DEF DropsFit
    <3>2. CASE u = t
      BY <3>1, <3>2, <1>1, <1>3
    <3>3. CASE u # t
      <4>1. turns'[u] = turns[u] /\ row.pend.act # turns[u].late
        BY <3>1, <3>3, <1>1, <1>3 DEF IInv, DropsFit
      <4>2. turns[u].late \in 1..made
        BY <4>1, <3>1 DEF IInv, Types, RestTypes, LatesFit, LateFits
      <4>. QED BY <4>1, <4>2, <3>1, <1>3 DEF IInv, Types, RestTypes
    <3>. QED BY <3>2, <3>3
  <2>. QED BY <2>1, <2>3, <2>4, <2>5, <1>3
<1>. QED BY <1>1, <1>2, <1>3 DEF IInv

(* A request that carries out what it has claimed.                          *)
LEMMA RanStep ==
  ASSUME IInv, UNCHANGED <<mode, row, made, expired, cleared, titles, faults>>,
         NEW t \in 1..Turns, NEW q \in Requests(made),
         turns' = [turns EXCEPT ![t] = q],
         turns[t].pc \notin Over \cup {"Idle"}, q.pc \notin {"Idle", "Saved", "Done"}, LateFits(q),
         ran' = [ran EXCEPT ![turns[t].act] = @ + 1],
         mode = "queue" =>
             /\ Claimed(turns[t]) /\ ran[turns[t].act] = 0 /\ row.pend.kind # "clarify"
             /\ q.pc \in Executing /\ q.act = turns[t].act
             /\ CopyFits(t, q)'
  PROVE  IInv'
<1> DEFINE a == turns[t].act
<1>0. ran' \in [Acts -> Nat] /\ (\A b \in Acts : b # a => ran'[b] = ran[b])
      /\ (a \in Acts => ran'[a] = ran[a] + 1)
  <2>1. ran \in [Acts -> Nat]
    BY DEF IInv, Types, RestTypes
  <2>2. CASE a \in Acts
    BY <2>1, <2>2
  <2>3. CASE a \notin Acts
    BY <2>1, <2>3
  <2>. QED BY <2>2, <2>3
<1>1. /\ Types' /\ turns'[t] = q
      /\ \A u \in 1..Turns : u # t => turns'[u] = turns[u]
  <2>1. RestTypes'
    BY <1>0 DEF IInv, Types, RestTypes
  <2>. QED BY <2>1, StepShape
<1>2. LatesFit'
  <2>1. LateFits(q)'
    BY DEF LateFits
  <2>. QED BY <2>1, <1>1, LatesKept
<1>3. ASSUME mode = "queue" PROVE (OneByOne /\ RunsFit /\ CopiesFit /\ HistoryFits /\ DropsFit)'
  <2>1. OneByOne'
    BY <1>1, <1>3, OrderKept
  <2>2. a \in 1..made /\ a \in Acts /\ row.pend.act = a /\ row.pend.state = "Executing" /\ ran[a] = 0
      /\ row.pend.kind # "clarify"
    <3>1. a \in 1..made /\ row.pend.act = a /\ row.pend.state = "Executing" /\ ran[a] = 0
          /\ row.pend.kind # "clarify"
      BY <1>3 DEF Claimed
    <3>2. made \in 0..MaxActs /\ MaxActs \in Nat
      BY SessionAssumption DEF IInv, Types, RestTypes
    <3>. QED BY <3>1, <3>2 DEF Acts
  <2>3. RunsFit'
    <3>1. \A b \in Acts : ran'[b] <= 1 /\ (b > made => ran'[b] = 0)
      <4>1. \A b \in Acts : ran[b] <= 1 /\ (b > made => ran[b] = 0)
        BY <1>3 DEF IInv, RunsFit, RunOnce
      <4>2. ~ (a > made)
        <5> HIDE DEF a
        <5>. QED BY <2>2, SessionAssumption DEF IInv, Types, RestTypes
      <4> HIDE DEF a
      <4>. QED BY <4>1, <4>2, <1>0, <2>2
    <3>2. turns'[t].pc \in Executing /\ turns'[t].act # 0 /\ turns'[t].act = row.pend.act
      BY <1>1, <1>3, <2>2
    <3>. QED BY <3>1, <3>2, <2>2 DEF RunsFit, RunOnce, Unrun
  <2>4. CopiesFit'
    BY <1>1, <1>3, OthersFit
  <2>5. HistoryFits'
    BY <1>1, <1>3, HistorySame
  <2>6. DropsFit'
    BY <1>1, <1>3 DEF IInv, DropsFit
  <2>. QED BY <2>1, <2>3, <2>4, <2>5, <2>6
<1>. QED BY <1>1, <1>2, <1>3 DEF IInv

-----------------------------------------------------------------------------
(* The actions of a request.                                                *)

LEMMA Known ==
  ASSUME IInv, NEW t \in 1..Turns
  PROVE  /\ made \in Nat /\ RestTypes /\ turns[t] \in Requests(made)
         /\ turns[t].copy \in Sessions(made) /\ turns[t].copy.pend \in Ops(made)
         /\ row \in Sessions(made) /\ row.pend \in Ops(made)
         /\ row.hist \in Seq(1..Turns) /\ turns[t].copy.hist \in Seq(1..Turns)
         /\ LateFits(turns[t])
         /\ mode = "queue" => RunsFit /\ CopyFits(t, turns[t]) /\ HistoryFits
<1>1. made \in Nat /\ RestTypes /\ turns[t] \in Requests(made)
  BY SessionAssumption DEF IInv, Types, RestTypes
<1>2. turns[t].copy \in Sessions(made) /\ row \in Sessions(made)
  BY <1>1 DEF RestTypes, Requests
<1>3. \A s \in Sessions(made) : s.pend \in Ops(made) /\ s.hist \in Seq(1..Turns)
  BY DEF Sessions
<1>. QED BY <1>1, <1>2, <1>3 DEF IInv, LatesFit, CopiesFit

LEMMA ReceiveStep ==
  ASSUME IInv, NEW t \in 1..Turns, NEW ask \in Asks, Receive(t, ask)
  PROVE  IInv'
<1> DEFINE late == Late(ask)
           said == IF Route(ask) \in {"Model", "Compacting"} THEN "Text" ELSE ask
           new == [NotYet EXCEPT !.ask = said, !.late = late]
           q == Moved(new, Route(ask), row)
<1>1. /\ turns[t].pc = "Idle" /\ turns' = [turns EXCEPT ![t] = q]
      /\ mode = "queue" => \A u \in 1..(t - 1) : turns[u].pc \in Over
      /\ UNCHANGED <<row, mode, titles, made, expired, ran, cleared, faults>>
  BY DEF Receive, At, Read, Still
<1>2. /\ made \in Nat /\ RestTypes /\ row \in Sessions(made) /\ row.pend \in Ops(made)
      /\ expired \subseteq 1..made
  BY Known DEF RestTypes
<1>3. /\ Route(ask) \in {"Command", "Pending", "Compacting", "Model", "Done"}
      /\ Route(ask) = "Done" <=> ask = "Look"
      /\ row.pend # NoPending =>
             \/ Route(ask) = "Pending"
             \/ Route(ask) = "Command" /\ ask \in {"Clear", "Note"}
             \/ Route(ask) = "Done"
      /\ Route(ask) = "Command" => ask \in Commands
  <2> USE DEF Commands
  <2>1. CASE ask = "Look"
    BY <2>1 DEF Route, Instant
  <2>2. CASE ask \in {"Clear", "Note"}
    BY <2>2 DEF Route, Instant
  <2>3. CASE ask \notin {"Clear", "Note", "Look"} /\ row.pend # NoPending
    BY <2>3 DEF Route, Instant
  <2>4. CASE ask \notin {"Clear", "Note", "Look"} /\ row.pend = NoPending
    <3>1. CASE ask \in {"Rename", "Compact"}
      BY <2>4, <3>1 DEF Route, Instant
    <3>2. CASE ask \notin {"Rename", "Compact"}
      BY <2>4, <3>2 DEF Route, Instant
    <3>. QED BY <2>4, <3>1, <3>2
  <2>. QED BY <2>1, <2>2, <2>3, <2>4
<1>4. said \in Asks /\ (Route(ask) = "Command" => said = ask)
  BY <1>3 DEF Asks
<1>5. /\ late \in 0..made
      /\ late # 0 => /\ late \in expired /\ row.pend.act = late /\ row.pend # NoPending
                     /\ ask \notin {"Look", "Note"}
  <2>1. row.pend.act \in 0..made
    BY <1>2 DEF Ops
  <2>2. row.pend.act \in expired => row.pend.act # 0
    BY <1>2
  <2>. QED BY <2>1, <2>2, <1>2 DEF NoPending, Late
<1>6. new \in Requests(made) /\ new.late = late /\ new.ask = said /\ new.act = 0
  <2> HIDE DEF late, said
  <2>1. new = [NotYet EXCEPT !.ask = said, !.late = late]
    OBVIOUS
  <2> HIDE DEF new
  <2>2. made \in Nat /\ said \in Asks /\ late \in 0..made
    BY <1>2, <1>4, <1>5
  <2>3. NotYet \in Requests(made) /\ NotYet.act = 0
    BY <2>2, NewTypes DEF NotYet, Requests, Steps
  <2>4. PICK u \in Requests(made) : u = NotYet
    BY <2>3
  <2>5. /\ [u EXCEPT !.ask = said, !.late = late] \in Requests(made)
        /\ [u EXCEPT !.ask = said, !.late = late].late = late
        /\ [u EXCEPT !.ask = said, !.late = late].ask = said
        /\ [u EXCEPT !.ask = said, !.late = late].act = u.act
    <3> HIDE DEF Sessions, Steps, Asks
    <3>. QED BY <2>2 DEF Requests
  <2>6. new = [u EXCEPT !.ask = said, !.late = late]
    BY <2>1, <2>4
  <2>. QED BY <2>3, <2>4, <2>5, <2>6
<1>7. Route(ask) \in Steps /\ (Route(ask) # "Done" => Route(ask) \notin Over) /\ "Done" \in Over
  BY <1>3 DEF Steps, Over
<1> HIDE DEF late, said, new
<1>8. /\ q \in Requests(made) /\ q.pc = Route(ask) /\ q.late = late
      /\ q.pc # "Done" => q.copy = row /\ q.act = 0 /\ q.ask = said
  BY <1>2, <1>6, <1>7, MovedIs
<1> HIDE DEF q
<1>9. LateFits(q)
  BY <1>3, <1>4, <1>5, <1>7, <1>8 DEF LateFits
<1>10. CopyFits(t, q)
  BY <1>3, <1>8 DEF CopyFits, Follows
<1>11. turns[t].pc \notin Over /\ turns[t].pc \notin Executing
  BY <1>1 DEF Over, Executing
<1>12. RestTypes'
  BY <1>1, <1>2 DEF RestTypes
<1>13. q.pc \notin {"Idle", "Saved"} /\ (q.pc = "Done" => q.late = 0)
  BY <1>3, <1>5, <1>8
<1>. QED BY <1>1, <1>8, <1>9, <1>10, <1>11, <1>12, <1>13, QuietStep

(* A step that reads, of a request that goes on to a step or ends.          *)
LEMMA ReadingStep ==
  ASSUME IInv, NEW t \in 1..Turns, NEW to \in Steps, NEW c \in Sessions(made),
         Move(t, to, c), Read, UNCHANGED <<mode, made, expired, ran, cleared>>, RestTypes',
         turns[t].pc \notin Over \cup {"Idle"}, to \notin {"Idle", "Saved"},
         LateFits(Moved(turns[t], to, c)), to = "Done" => turns[t].late = 0,
         mode = "queue" => to \in Over \/ CopyFits(t, Moved(turns[t], to, c)),
         mode = "queue" /\ turns[t].pc \in Executing /\ turns[t].act # 0 =>
             to = "Lost" \/ to \in Executing
  PROVE  IInv'
<1> DEFINE q == Moved(turns[t], to, c)
<1>1. turns[t] \in Requests(made) /\ made \in Nat
  BY Known
<1>2. /\ q \in Requests(made) /\ q.pc = to /\ q.late = turns[t].late
      /\ to \notin Over => q.act = turns[t].act
  BY <1>1, MovedIs
<1>3. turns' = [turns EXCEPT ![t] = q] /\ row' = row
  BY DEF Move, Read
<1> HIDE DEF q
<1>4. to \in Over => CopyFits(t, q)
  BY <1>2 DEF CopyFits, Over
<1>5. \A x \in Executing : x \notin Over
  BY DEF Executing, Over
<1>6. LateFits(q) /\ (mode = "queue" => to \in Over \/ CopyFits(t, q))
  BY DEF q
<1>7. mode = "queue" => CopyFits(t, q)
  BY <1>4, <1>6
<1>8. mode = "queue" /\ turns[t].act # 0 /\ turns[t].pc \in Executing =>
           q.pc = "Lost" \/ (q.pc \in Executing /\ q.act = turns[t].act)
  BY <1>2, <1>5
<1>9. q.pc \notin {"Idle", "Saved"} /\ (q.pc = "Done" => q.late = 0)
  BY <1>2
<1>. QED BY <1>1, <1>2, <1>3, <1>6, <1>7, <1>8, <1>9, QuietStep

(* A session of which parts are replaced.                                   *)
LEMMA PendIs ==
  ASSUME NEW m \in Nat, NEW s \in Sessions(m), NEW p \in Ops(m)
  PROVE  /\ [s EXCEPT !.pend = p]
               = [hist |-> s.hist, arch |-> s.arch, title |-> s.title, pend |-> p]
         /\ [s EXCEPT !.pend = p] \in Sessions(m)
<1> HIDE DEF Ops
<1>1. [s EXCEPT !.pend = p]
        = [hist |-> s.hist, arch |-> s.arch, title |-> s.title, pend |-> p]
  BY DEF Sessions
<1>. QED BY <1>1 DEF Sessions

LEMMA HistIs ==
  ASSUME NEW m \in Nat, NEW s \in Sessions(m), NEW h \in Seq(1..Turns)
  PROVE  /\ [s EXCEPT !.hist = h]
               = [hist |-> h, arch |-> s.arch, title |-> s.title, pend |-> s.pend]
         /\ [s EXCEPT !.hist = h] \in Sessions(m)
<1> HIDE DEF Ops
<1>1. [s EXCEPT !.hist = h]
        = [hist |-> h, arch |-> s.arch, title |-> s.title, pend |-> s.pend]
  BY DEF Sessions
<1>. QED BY <1>1 DEF Sessions

LEMMA ReadCommandStep ==
  ASSUME IInv, NEW t \in 1..Turns, ReadCommand(t)
  PROVE  IInv'
<1> DEFINE u == turns[t]
           to == IF u.ask = "Compact" /\ row.hist = <<>> THEN "Done" ELSE "Writing"
           q == Moved(u, to, row)
<1>1. u.pc = "Command" /\ Move(t, to, row) /\ Read /\ Still
  BY DEF ReadCommand, At
<1>2. /\ made \in Nat /\ RestTypes /\ u \in Requests(made) /\ row \in Sessions(made)
      /\ LateFits(u) /\ (mode = "queue" => CopyFits(t, u))
  BY Known
<1>3. to \in Steps /\ to \in {"Done", "Writing"} /\ (to = "Done" => u.ask = "Compact")
  BY DEF Steps, Over
<1>4. /\ q.pc = to /\ q.late = u.late
      /\ to \notin Over => q.copy = row /\ q.act = u.act /\ q.ask = u.ask
  BY <1>2, <1>3, MovedIs
<1>5. "Writing" \notin Over /\ "Done" \in Over /\ u.pc \notin Over \cup Executing
  BY <1>1 DEF Over, Executing
<1>6. LateFits(q) /\ (to = "Done" => u.late = 0)
  <2> HIDE DEF q, to, u
  <2>. QED BY <1>1, <1>2, <1>3, <1>4, <1>5 DEF LateFits
<1>7. mode = "queue" => to \in Over \/ CopyFits(t, q)
  <2> HIDE DEF q, to, u
  <2>. QED BY <1>1, <1>2, <1>3, <1>4, <1>5 DEF CopyFits, Follows
<1>8. RestTypes'
  BY <1>1, <1>2 DEF RestTypes, Still, Read
<1> HIDE DEF to
<1>. QED BY <1>1, <1>2, <1>3, <1>5, <1>6, <1>7, <1>8, ReadingStep DEF Still

(* A step that reads and keeps the request's copy, or ends the request.     *)
LEMMA CommandFailsStep ==
  ASSUME IInv, NEW t \in 1..Turns, CommandFails(t)
  PROVE  IInv'
<1> DEFINE u == turns[t]
           q == Moved(u, "Done", u.copy)
<1>1. u.pc = "Writing" /\ u.ask \in {"Rename", "Compact"} /\ Move(t, "Done", u.copy) /\ Read /\ Still
  BY DEF CommandFails, At, Copy
<1>2. /\ made \in Nat /\ RestTypes /\ u \in Requests(made) /\ u.copy \in Sessions(made)
      /\ LateFits(u)
  BY Known
<1>3. "Done" \in Steps /\ "Done" \in Over /\ u.pc \notin Over \cup Executing \cup {"Idle"}
  BY <1>1 DEF Over, Executing, Steps
<1>4. q.pc = "Done" /\ q.late = u.late
  BY <1>2, <1>3, MovedIs
<1>5. u.late = 0
  BY <1>1, <1>2 DEF LateFits
<1>6. LateFits(q)
  BY <1>4, <1>5 DEF LateFits
<1>7. RestTypes'
  BY <1>1, <1>2 DEF RestTypes, Still, Read
<1>. QED BY <1>1, <1>2, <1>3, <1>5, <1>6, <1>7, ReadingStep DEF Still

LEMMA HandlePendingStep ==
  ASSUME IInv, NEW t \in 1..Turns, HandlePending(t)
  PROVE  IInv'
<1> DEFINE u == turns[t]
           p == u.copy.pend
<1>1. u.pc = "Pending" /\ Read /\ Still
  BY DEF HandlePending, At
<1>2. /\ made \in Nat /\ RestTypes /\ u \in Requests(made) /\ u.copy \in Sessions(made)
      /\ p \in Ops(made) /\ LateFits(u) /\ (mode = "queue" => RunsFit /\ CopyFits(t, u))
  BY Known
<1>3. /\ "Append" \in Steps /\ "Append" \notin Over /\ "Append" \in Executing
      /\ u.pc \notin Over \cup Executing \cup {"Idle"}
  BY <1>1 DEF Over, Executing, Steps
<1>4. RestTypes'
  BY <1>1, <1>2 DEF RestTypes, Still, Read
<1>5. /\ p.act \in expired => Answer(t) = "drop"
      /\ Answer(t) \in {"drop", "wait", "claim"}
      /\ Answer(t) = "claim" => p.state = "Waiting"
  BY DEF Answer, Copy
<1>6. CASE Answer(t) = "drop"
  <2> DEFINE c == [u.copy EXCEPT !.pend = NoPending]
             q == Moved(u, "Append", c)
  <2>1. Move(t, "Append", c)
    BY <1>6 DEF HandlePending, Copy
  <2>2. c \in Sessions(made) /\ c.pend = NoPending
    <3>1. c = [hist |-> u.copy.hist, arch |-> u.copy.arch, title |-> u.copy.title, pend |-> NoPending]
          /\ c \in Sessions(made)
      BY <1>2, NewTypes, PendIs
    <3>. QED BY <3>1
  <2> HIDE DEF c
  <2>3. q.pc = "Append" /\ q.late = u.late /\ q.copy = c
    BY <1>2, <1>3, <2>2, MovedIs
  <2> HIDE DEF q, u
  <2>4. LateFits(q)
    BY <1>1, <1>2, <2>2, <2>3 DEF LateFits
  <2>5. CopyFits(t, q)
    BY <2>2, <2>3 DEF CopyFits, MayKeep, Unrun, NoPending
  <2>. QED BY <1>1, <1>2, <1>3, <1>4, <2>1, <2>2, <2>4, <2>5, ReadingStep DEF Still, q, u
<1>7. CASE Answer(t) = "wait"
  <2> DEFINE q == Moved(u, "Append", u.copy)
  <2>1. Move(t, "Append", u.copy)
    BY <1>7 DEF HandlePending, Copy
  <2>2. q.pc = "Append" /\ q.late = u.late /\ q.copy = u.copy
    BY <1>2, <1>3, MovedIs
  <2>3. u.late = 0
    BY <1>1, <1>2, <1>5, <1>7 DEF LateFits
  <2>4. LateFits(q)
    BY <2>2, <2>3 DEF LateFits
  <2>5. ASSUME mode = "queue" PROVE CopyFits(t, q)
    <3>1. p = row.pend /\ Unrun(row.pend)
      BY <1>1, <1>2, <2>5 DEF CopyFits, RunsFit
    <3>2. p.state = "Executing" => AnyLost
      <4>1. SUFFICES ASSUME p.state = "Executing", ~AnyLost PROVE FALSE
        OBVIOUS
      <4>2. PICK v \in 1..Turns : turns[v].pc \in Executing /\ turns[v].act # 0
        BY <1>2, <2>5, <3>1, <4>1 DEF RunsFit
      <4>3. v # t
        BY <1>3, <4>2
      <4>4. turns[v].pc \in Over \cup {"Idle"}
        BY <1>1, <1>3, <2>5, <4>3, OnlyOne
      <4>. QED BY <4>2, <4>4 DEF Over, Executing
    <3> HIDE DEF q, u
    <3>. QED BY <2>2, <3>1, <3>2 DEF CopyFits, MayKeep
  <2>. QED BY <1>1, <1>2, <1>3, <1>4, <2>1, <2>4, <2>5, ReadingStep DEF Still
<1>8. CASE Answer(t) = "claim"
  <2> DEFINE q == [u EXCEPT !.pc = "Claim", !.act = p.act, !.rev = p.rev]
  <2>1. turns' = [turns EXCEPT ![t] = q]
    BY <1>8 DEF HandlePending, Copy
  <2>2. q = [pc |-> "Claim", ask |-> u.ask, copy |-> u.copy, act |-> p.act, rev |-> p.rev,
             late |-> u.late]
    <3>1. u \in Requests(made) /\ p.act \in 0..made /\ p.rev \in Nat
      BY <1>2 DEF Ops
    <3> HIDE DEF u, p
    <3>2. /\ q.pc = "Claim" /\ q.ask = u.ask /\ q.copy = u.copy /\ q.act = p.act
          /\ q.rev = p.rev /\ q.late = u.late
      BY <3>1 DEF Requests
    <3>3. q \in Requests(made)
      BY <3>1 DEF Requests, Steps
    <3> HIDE DEF q
    <3>. QED BY <3>2, <3>3 DEF Requests
  <2>3. q \in Requests(made)
    <3>1. p.act \in 0..made /\ p.rev \in Nat
      BY <1>2 DEF Ops
    <3> HIDE DEF Sessions, Ops, p, q
    <3>. QED BY <1>2, <2>2, <3>1 DEF Requests, Steps
  <2>4. u.late = 0
    BY <1>1, <1>2, <1>5, <1>8 DEF LateFits
  <2> HIDE DEF q, u
  <2>5. LateFits(q)
    BY <2>2, <2>4 DEF LateFits
  <2>6. mode = "queue" => CopyFits(t, q)
    BY <1>1, <1>2, <1>5, <1>8, <2>2 DEF CopyFits
  <2>7. q.pc = "Claim"
    BY <2>2
  <2>. QED BY <1>1, <1>2, <1>3, <1>4, <2>1, <2>3, <2>5, <2>6, <2>7, QuietStep DEF Still, Read, u
<1>. QED BY <1>5, <1>6, <1>7, <1>8

(* The steps under way, and those at which a request cannot have found an   *)
(* expired operation.                                                       *)
Calm == {"Claim", "Run", "Failing", "FailingAgain", "Compacting", "Model", "Tool", "Carried",
         "Tooled", "SavingChat"}
Busy == Calm \cup {"Command", "Writing", "Pending", "Append", "Saving"}

LEMMA BusyIs ==
  /\ \A x \in Busy : x \in Steps /\ x \notin Over \cup {"Idle"}
  /\ Executing \subseteq Busy /\ Calm \subseteq Busy
  /\ \A x \in Over : x \in Steps /\ x \notin Executing /\ x # "Idle"
  /\ "Lost" \in Over /\ "Saved" \in Over /\ "Done" \in Over
BY DEF Busy, Calm, Steps, Over, Executing

LEMMA CalmIs == ASSUME NEW u, LateFits(u), u.pc \in Calm PROVE u.late = 0
BY DEF LateFits, Calm, Over

(* What a request is when it has moved on.                                  *)
LEMMA Goes ==
  ASSUME IInv, NEW t \in 1..Turns, NEW to \in Steps, NEW c \in Sessions(made),
         NEW q, q = Moved(turns[t], to, c)
  PROVE  /\ q \in Requests(made) /\ q.pc = to /\ q.late = turns[t].late
         /\ to \in Busy => /\ q.copy = c /\ q.act = turns[t].act
                           /\ q.rev = turns[t].rev /\ q.ask = turns[t].ask
BY Known, MovedIs, BusyIs

(* What a write may do to the history.                                      *)
Kept == row'.hist = row.hist /\ row'.arch = row.arch /\ cleared' = cleared
Extended(t) == row'.hist = Append(row.hist, t) /\ row'.arch = row.arch /\ cleared' = cleared
Forgotten == row'.hist = <<>> /\ row'.arch = row.arch /\ cleared' = cleared \cup ToSet(row.hist)
Archived == /\ cleared' = cleared
            /\ \E s \in Sessions(made) : /\ s.hist = row.hist /\ s.arch = row.arch
                                         /\ row' = Compacted(s)

(* A step that writes the row, of a request that goes on to a step or ends. *)
LEMMA WroteStep ==
  ASSUME IInv, NEW t \in 1..Turns, NEW to \in Steps, NEW c \in Sessions(made),
         NEW q, q = Moved(turns[t], to, c), Move(t, to, c),
         RestTypes', UNCHANGED <<mode, expired>>, made' \in {made, made + 1},
         ran' = ran \/ (mode = "queue" => RunOnce(ran', made')),
         turns[t].pc \in Busy, to # "Idle",
         LateFits(q) \/ (turns[t].late = 0 /\ to \notin {"Command", "Writing"}),
         mode = "queue" =>
             /\ (Unrun(row.pend))'
             /\ row'.pend.state = "Executing" =>
                    AnyLost \/ (to \in Executing /\ turns[t].act # 0 /\ turns[t].act = row'.pend.act)
             /\ row'.pend.act \in {0, row.pend.act} \/ row'.pend.act > made
             /\ to \in {"Saved", "Done"} /\ turns[t].late # 0 => row'.pend.act = 0
             /\ IF to = "Saved" THEN Extended(t) ELSE Kept \/ Forgotten \/ Archived
             /\ to \in Over \/ CopyFits(t, q)'
  PROVE  IInv'
<1>1. /\ q \in Requests(made) /\ q.pc = to /\ q.late = turns[t].late
      /\ to \in Busy => q.act = turns[t].act
  BY Goes
<1>2. made \in Nat /\ made' \in Nat /\ made <= made' /\ q \in Requests(made')
  BY <1>1, Known, TypesGrow
<1>3. turns' = [turns EXCEPT ![t] = q]
  BY DEF Move
<1>4. turns'[t] = q /\ \A v \in 1..Turns : v # t => turns'[v] = turns[v]
  BY <1>2, <1>3, StepShape
<1>5. turns[t].pc \notin Over \cup {"Idle"}
  BY BusyIs
<1>6. LateFits(q)
  BY <1>1 DEF LateFits
<1>7. to \in Over => CopyFits(t, q)'
  BY <1>1 DEF CopyFits, Over
<1>8. mode = "queue" => HistoryFits'
  <2>1. ASSUME mode = "queue", to = "Saved" PROVE HistoryFits'
    BY <1>1, <1>4, <1>5, <2>1, HistoryAppended DEF Extended
  <2>2. ASSUME mode = "queue", to # "Saved", Kept PROVE HistoryFits'
    BY <1>1, <1>4, <1>5, <2>2, HistorySame DEF Kept
  <2>3. ASSUME mode = "queue", to # "Saved", Forgotten PROVE HistoryFits'
    BY <1>1, <1>4, <1>5, <2>3, HistoryCleared DEF Forgotten
  <2>4. ASSUME mode = "queue", to # "Saved", Archived PROVE HistoryFits'
    BY <1>1, <1>4, <1>5, <2>4, HistoryCompacted DEF Archived
  <2>. QED BY <2>1, <2>2, <2>3, <2>4
<1>9. to \in Executing => q.act = turns[t].act
  BY <1>1, BusyIs
<1>10. mode = "queue" =>
           /\ (Unrun(row.pend))'
           /\ row'.pend.state = "Executing" =>
                  AnyLost \/ (q.pc \in Executing /\ q.act # 0 /\ q.act = row'.pend.act)
           /\ row'.pend.act \in {0, row.pend.act} \/ row'.pend.act > made
           /\ q.pc \in {"Saved", "Done"} /\ q.late # 0 => row'.pend.act = 0
           /\ HistoryFits'
           /\ CopyFits(t, q)'
  BY <1>1, <1>7, <1>8, <1>9
<1>11. q.pc # "Idle"
  BY <1>1
<1>. QED BY <1>2, <1>3, <1>5, <1>6, <1>10, <1>11, WritingStep

(* A step that reads, likewise.                                             *)
LEMMA ReadStep ==
  ASSUME IInv, NEW t \in 1..Turns, NEW to \in Steps, NEW c \in Sessions(made),
         NEW q, q = Moved(turns[t], to, c), Move(t, to, c), Read,
         RestTypes', UNCHANGED <<mode, made, expired, ran, cleared>>,
         turns[t].pc \in Busy, to \notin {"Idle", "Saved"},
         LateFits(q) \/ (turns[t].late = 0 /\ to \notin {"Command", "Writing"}),
         to = "Done" => turns[t].late = 0,
         mode = "queue" => to \in Over \/ CopyFits(t, q),
         mode = "queue" /\ turns[t].pc \in Executing /\ turns[t].act # 0 =>
             to = "Lost" \/ to \in Executing
  PROVE  IInv'
<1>1. q.late = turns[t].late /\ q.pc = to
  BY Goes
<1>2. LateFits(q) /\ turns[t].pc \notin Over \cup {"Idle"}
  BY <1>1, BusyIs DEF LateFits
<1>. QED BY <1>2, ReadingStep

LEMMA ClaimStep ==
  ASSUME IInv, NEW t \in 1..Turns, Claim(t)
  PROVE  IInv'
<1> DEFINE u == turns[t]
           s == [row EXCEPT !.pend = Begun(row.pend)]
<1>1. /\ u.pc = "Claim" /\ Still
      /\ (Write(s) /\ Move(t, "Run", s)) \/ (Move(t, "Append", row) /\ Read)
  BY DEF Claim, At
<1>2. /\ made \in Nat /\ RestTypes /\ u \in Requests(made) /\ row \in Sessions(made)
      /\ row.pend \in Ops(made) /\ LateFits(u)
      /\ (mode = "queue" => RunsFit /\ CopyFits(t, u))
  BY Known
<1>3. /\ "Append" \in Steps /\ "Append" \in Busy /\ "Run" \in Steps /\ "Run" \in Busy
      /\ "Append" \in Executing /\ "Run" \in Executing /\ u.pc \in Busy /\ u.pc \in Calm
  BY <1>1, BusyIs DEF Executing, Busy, Calm
<1>4. u.late = 0
  BY <1>2, <1>3, CalmIs
<1>5. ASSUME mode = "queue"
      PROVE  /\ u.act = row.pend.act /\ u.rev = row.pend.rev /\ row.pend.state = "Waiting"
             /\ row.pend.act \in 1..made /\ ran[row.pend.act] = 0
  <2> HIDE DEF u
  <2>. QED BY <1>1, <1>2, <1>5 DEF CopyFits, RunsFit, Unrun
<1> HIDE DEF u
<1>6. CASE Write(s) /\ Move(t, "Run", s)
  <2>1. /\ Begun(row.pend) \in Ops(made) /\ Begun(row.pend).state = "Executing"
        /\ Begun(row.pend).act = row.pend.act /\ Begun(row.pend).rev = row.pend.rev
        /\ Begun(row.pend).kind = row.pend.kind
    BY <1>2 DEF Begun, Ops
  <2>2. s \in Sessions(made) /\ s = [hist |-> row.hist, arch |-> row.arch, title |-> row.title,
                                     pend |-> Begun(row.pend)]
    BY <1>2, <2>1, PendIs
  <2> HIDE DEF s
  <2>3. /\ s.hist = row.hist /\ s.arch = row.arch /\ s.title = row.title
        /\ s.pend = Begun(row.pend) /\ row' = s
    BY <1>6, <2>2 DEF Write
  <2>4. PICK q : q = Moved(u, "Run", s)
    OBVIOUS
  <2>5. /\ q.pc = "Run" /\ q.late = u.late
        /\ q.copy = s /\ q.act = u.act /\ q.rev = u.rev
    BY <1>3, <2>2, <2>4, Goes DEF u
  <2>6. RestTypes' /\ UNCHANGED <<mode, made, expired, ran, cleared>>
    BY <1>1, <1>2, <2>2, <2>3 DEF RestTypes, Still
  <2>7. ASSUME mode = "queue"
        PROVE  /\ (Unrun(row.pend))' /\ row'.pend.act = row.pend.act
               /\ u.act # 0 /\ u.act = row'.pend.act
               /\ CopyFits(t, q)'
    <3>1. row'.pend.act = row.pend.act /\ u.act # 0 /\ u.act = row'.pend.act
      BY <1>5, <2>1, <2>3, <2>7
    <3>2. (Unrun(row.pend))'
      BY <1>5, <2>1, <2>3, <2>6, <2>7 DEF Unrun
    <3>3. Claimed(q)' /\ ran'[q.act] = 0
      BY <1>5, <2>1, <2>3, <2>5, <2>6, <2>7 DEF Claimed
    <3>4. Follows(q.copy, row.hist)' /\ q.copy.pend = row'.pend
      BY <2>3, <2>5 DEF Follows
    <3>5. CopyFits(t, q)'
      BY <2>5, <3>3, <3>4 DEF CopyFits
    <3>. QED BY <3>1, <3>2, <3>5
  <2>8. Kept
    BY <2>3, <2>6 DEF Kept
  <2>. QED BY <1>3, <1>4, <1>6, <2>2, <2>4, <2>6, <2>7, <2>8, WroteStep DEF u
<1>7. CASE Move(t, "Append", row) /\ Read
  <2>1. PICK q : q = Moved(u, "Append", row)
    OBVIOUS
  <2>2. q.pc = "Append" /\ q.copy = row
    BY <1>2, <1>3, <2>1, Goes DEF u
  <2>3. mode = "queue" => CopyFits(t, q)
    BY <1>5, <2>2 DEF CopyFits, MayKeep, Unrun
  <2>4. RestTypes'
    BY <1>1, <1>2, <1>7 DEF RestTypes, Still, Read
  <2>. QED BY <1>1, <1>2, <1>3, <1>4, <1>7, <2>1, <2>3, <2>4, ReadStep DEF Still, u
<1>. QED BY <1>1, <1>6, <1>7

LEMMA RunDeleteStep ==
  ASSUME IInv, NEW t \in 1..Turns, RunDelete(t)
  PROVE  IInv'
<1> DEFINE u == turns[t]
           c == [u.copy EXCEPT !.pend = NoPending]
<1>1. /\ u.pc = "Run" /\ UNCHANGED <<row, mode, titles, made, expired, cleared, faults>> /\ Read
      /\ u.copy.pend.kind = "delete"
      /\ \/ /\ ran' = [ran EXCEPT ![u.act] = @ + 1]
            /\ Move(t, "Append", c) \/ Move(t, "Failing", u.copy)
         \/ Move(t, "Failing", u.copy) /\ ran' = ran
  BY DEF RunDelete, At, Copy, Read
<1>2. /\ made \in Nat /\ RestTypes /\ u \in Requests(made) /\ u.copy \in Sessions(made)
      /\ LateFits(u) /\ (mode = "queue" => CopyFits(t, u))
  BY Known
<1>3. u.pc \in Busy /\ u.pc \in Calm
  BY <1>1, BusyIs DEF Calm
<1>4. u.late = 0
  BY <1>2, <1>3, CalmIs
<1>5. mode = "queue" => Claimed(u) /\ ran[u.act] = 0 /\ row.pend.kind # "clarify"
  <2> HIDE DEF u
  <2>. QED BY <1>1, <1>2 DEF CopyFits
<1>6. ASSUME NEW to \in {"Append", "Failing"}, NEW d \in Sessions(made), Move(t, to, d),
             to = "Append" => d.pend = NoPending
      PROVE  IInv'
  <2>1. to \in Steps /\ to \in Busy /\ to \in Executing
    BY <1>6, BusyIs DEF Executing
  <2>2. PICK q : q = Moved(u, to, d)
    OBVIOUS
  <2>3. /\ q \in Requests(made) /\ q.pc = to /\ q.late = u.late
        /\ q.copy = d /\ q.act = u.act /\ q.rev = u.rev
    BY <2>1, <2>2, Goes
  <2>4. turns' = [turns EXCEPT ![t] = q]
    BY <1>6, <2>2 DEF Move
  <2> HIDE DEF u
  <2>5. LateFits(q)
    BY <1>4, <2>3 DEF LateFits
  <2>6. CopyFits(t, q) /\ CopyFits(t, q)'
    BY <1>6, <2>3 DEF CopyFits, MayKeep, Unrun, NoPending
  <2>7. CASE ran' = [ran EXCEPT ![u.act] = @ + 1]
    BY <1>1, <1>3, <1>5, <2>1, <2>3, <2>4, <2>5, <2>6, <2>7, RanStep, BusyIs DEF u
  <2>8. CASE ran' = ran
    <3>1. RestTypes'
      BY <1>1, <1>2, <2>8 DEF RestTypes
    <3>. QED BY <1>1, <1>3, <1>4, <1>6, <2>1, <2>2, <2>6, <2>8, <3>1, ReadStep DEF u
  <2>. QED BY <2>7, <2>8, <1>1
<1>7. c \in Sessions(made) /\ c.pend = NoPending
  <2>1. c \in Sessions(made) /\ c = [hist |-> u.copy.hist, arch |-> u.copy.arch,
                                     title |-> u.copy.title, pend |-> NoPending]
    BY <1>2, NewTypes, PendIs
  <2>. QED BY <2>1
<1> HIDE DEF c
<1>. QED BY <1>1, <1>2, <1>6, <1>7

LEMMA MarkFailedStep ==
  ASSUME IInv, NEW t \in 1..Turns, MarkFailed(t)
  PROVE  IInv'
<1> DEFINE u == turns[t]
           s == [row EXCEPT !.pend = Failure(row.pend)]
           to == IF u.pc = "Failing" THEN "FailingAgain" ELSE "Lost"
<1>1. /\ u.pc \in {"Failing", "FailingAgain"} /\ Still
      /\ (Write(s) /\ Move(t, "Append", s)) \/ (Move(t, to, u.copy) /\ Read)
  BY DEF MarkFailed, At, Copy
<1>2. /\ made \in Nat /\ RestTypes /\ u \in Requests(made) /\ row \in Sessions(made)
      /\ row.pend \in Ops(made) /\ u.copy \in Sessions(made) /\ LateFits(u)
      /\ (mode = "queue" => RunsFit)
  BY Known
<1>3. u.pc \in Busy /\ u.pc \in Calm /\ "Append" \in Busy /\ "Append" \in Steps /\ "Append" \in Executing
  BY <1>1, BusyIs DEF Calm, Executing
<1>4. u.late = 0
  BY <1>2, <1>3, CalmIs
<1> HIDE DEF u
<1>5. CASE Write(s) /\ Move(t, "Append", s)
  <2>1. /\ Failure(row.pend) \in Ops(made) /\ Failure(row.pend).state = "Failed"
        /\ Failure(row.pend).act = row.pend.act /\ Failure(row.pend).kind = row.pend.kind
    BY <1>2 DEF Failure, Ops
  <2>2. s \in Sessions(made) /\ s = [hist |-> row.hist, arch |-> row.arch, title |-> row.title,
                                     pend |-> Failure(row.pend)]
    BY <1>2, <2>1, PendIs
  <2> HIDE DEF s
  <2>3. /\ s.hist = row.hist /\ s.arch = row.arch /\ s.title = row.title
        /\ s.pend = Failure(row.pend) /\ row' = s
    BY <1>5, <2>2 DEF Write
  <2>4. PICK q : q = Moved(u, "Append", s)
    OBVIOUS
  <2>5. q.pc = "Append" /\ q.copy = s
    BY <1>3, <2>2, <2>4, Goes DEF u
  <2>6. RestTypes' /\ UNCHANGED <<mode, made, expired, ran, cleared>>
    BY <1>1, <1>2, <2>2, <2>3 DEF RestTypes, Still
  <2>7. /\ row'.pend.act = row.pend.act /\ row'.pend.state # "Executing"
        /\ mode = "queue" => (Unrun(row.pend))'
    BY <1>2, <2>1, <2>3, <2>6 DEF RunsFit, Unrun
  <2>8. mode = "queue" => CopyFits(t, q)'
    BY <2>3, <2>5, <2>7 DEF CopyFits, MayKeep, Unrun
  <2>9. Kept
    BY <2>3, <2>6 DEF Kept
  <2>. QED BY <1>3, <1>4, <1>5, <2>2, <2>4, <2>6, <2>7, <2>8, <2>9, WroteStep DEF u
<1>6. CASE Move(t, to, u.copy) /\ Read
  <2>1. to \in {"Lost", "FailingAgain"} /\ to \in Steps /\ (to = "Lost" \/ to \in Executing \cap Busy)
    BY BusyIs DEF Executing
  <2>2. PICK q : q = Moved(u, to, u.copy)
    OBVIOUS
  <2>3. q.pc = to
    BY <1>2, <2>1, <2>2, Goes DEF u
  <2> HIDE DEF to
  <2>4. CopyFits(t, q)
    BY <2>1, <2>3 DEF CopyFits
  <2>5. RestTypes'
    BY <1>1, <1>2, <1>6 DEF RestTypes, Still, Read
  <2>. QED BY <1>1, <1>2, <1>3, <1>4, <1>6, <2>1, <2>2, <2>4, <2>5, ReadStep DEF Still, u
<1>. QED BY <1>1, <1>5, <1>6

LEMMA AppendToLatestStep ==
  ASSUME IInv, NEW t \in 1..Turns, AppendToLatest(t)
  PROVE  IInv'
<1> DEFINE u == turns[t]
           s == [row EXCEPT !.pend = u.copy.pend, !.hist = Append(row.hist, t)]
<1>1. u.pc = "Append" /\ Still /\ Move(t, "Saving", s) /\ Read
  BY DEF AppendToLatest, At, Copy
<1>2. /\ made \in Nat /\ RestTypes /\ u \in Requests(made) /\ row \in Sessions(made)
      /\ u.copy.pend \in Ops(made) /\ LateFits(u) /\ row.hist \in Seq(1..Turns)
      /\ mode = "queue" => CopyFits(t, u)
  BY Known
<1>3. u.pc \in Busy /\ "Saving" \in Busy /\ "Saving" \in Steps /\ "Saving" \in Executing
  BY <1>1, BusyIs DEF Busy, Executing
<1>4. /\ s \in Sessions(made) /\ s.hist = Append(row.hist, t) /\ s.arch = row.arch
      /\ s.title = row.title /\ s.pend = u.copy.pend
  <2>1. PICK h : h = Append(row.hist, t)
    OBVIOUS
  <2>2. PICK p : p = u.copy.pend
    OBVIOUS
  <2>3. h \in Seq(1..Turns) /\ p \in Ops(made)
    BY <1>2, <2>1, <2>2, AppendIs
  <2>4. s = [row EXCEPT !.pend = p, !.hist = h]
    BY <2>1, <2>2
  <2> HIDE DEF s, u
  <2>5. made \in Nat /\ row \in Sessions(made)
    BY <1>2
  <2>6. s \in Sessions(made) /\ s.hist = h /\ s.pend = p /\ s.arch = row.arch /\ s.title = row.title
    <3> HIDE DEF Ops
    <3>. QED BY <2>3, <2>4, <2>5 DEF Sessions
  <2>. QED BY <2>1, <2>2, <2>6
<1> HIDE DEF s
<1>5. /\ s.hist = Append(row.hist, t) /\ s.arch = row.arch /\ s.title = row.title
      /\ s.pend = u.copy.pend
  BY <1>4
<1>6. PICK q : q = Moved(u, "Saving", s)
  OBVIOUS
<1>7. q.pc = "Saving" /\ q.copy = s /\ q.late = u.late
  BY <1>3, <1>4, <1>6, Goes
<1> HIDE DEF u
<1>8. LateFits(q)
  BY <1>1, <1>2, <1>5, <1>7 DEF LateFits
<1>9. mode = "queue" => CopyFits(t, q)
  BY <1>1, <1>2, <1>5, <1>7 DEF CopyFits, Follows
<1>10. RestTypes'
  BY <1>1, <1>2 DEF RestTypes, Still, Read
<1>. QED BY <1>1, <1>3, <1>4, <1>6, <1>8, <1>9, <1>10, ReadStep DEF Still, u

LEMMA SaveAnswerStep ==
  ASSUME IInv, NEW t \in 1..Turns, SaveAnswer(t)
  PROVE  IInv'
<1> DEFINE u == turns[t]
           c == u.copy
<1>1. u.pc = "Saving" /\ Still /\ row' = c /\ Move(t, "Saved", c)
  BY DEF SaveAnswer, At, Copy, Write
<1>2. /\ made \in Nat /\ RestTypes /\ u \in Requests(made) /\ c \in Sessions(made)
      /\ c.pend \in Ops(made) /\ LateFits(u) /\ (mode = "queue" => CopyFits(t, u))
  BY Known
<1>3. u.pc \in Busy /\ "Saved" \in Over /\ "Saved" \in Steps
  BY <1>1, BusyIs DEF Busy
<1>4. PICK q : q = Moved(u, "Saved", c)
  OBVIOUS
<1>5. q.pc = "Saved" /\ q.late = u.late
  BY <1>2, <1>3, <1>4, Goes
<1>6. RestTypes' /\ UNCHANGED <<mode, made, expired, ran, cleared>>
  BY <1>1, <1>2 DEF RestTypes, Still
<1>7. u.late # 0 => c.pend = NoPending
  <2> HIDE DEF u, c
  <2>. QED BY <1>1, <1>2 DEF LateFits, c
<1>8. ASSUME mode = "queue" PROVE Follows(c, Append(row.hist, t)) /\ MayKeep(c.pend)
  <2> HIDE DEF u
  <2>. QED BY <1>1, <1>2, <1>8 DEF CopyFits
<1>9. LateFits(q)
  <2> HIDE DEF u
  <2>. QED BY <1>1, <1>2, <1>3, <1>5 DEF LateFits
<1> HIDE DEF u, c
<1>10. mode = "queue" => Extended(t) /\ (Unrun(row.pend))' /\ row'.pend.act \in {0, row.pend.act}
                         /\ (row'.pend.state = "Executing" => AnyLost)
  BY <1>1, <1>6, <1>8 DEF Extended, Follows, MayKeep, Unrun
<1>11. u.late # 0 => row'.pend.act = 0
  BY <1>1, <1>7 DEF NoPending
<1>. QED BY <1>1, <1>2, <1>3, <1>4, <1>6, <1>9, <1>10, <1>11, WroteStep DEF u

LEMMA CompactStep ==
  ASSUME IInv, NEW t \in 1..Turns, CompactIfCurrent(t)
  PROVE  IInv'
<1> DEFINE u == turns[t]
           s == Compacted(u.copy)
<1>1. /\ u.pc = "Compacting" /\ Still
      /\ (row = u.copy /\ row' = s /\ Move(t, "Model", s)) \/ (Move(t, "Model", u.copy) /\ Read)
  BY DEF CompactIfCurrent, At, Copy, StillCurrent, Write
<1>2. /\ made \in Nat /\ RestTypes /\ u \in Requests(made) /\ u.copy \in Sessions(made)
      /\ u.copy.hist \in Seq(1..Turns)
      /\ LateFits(u) /\ (mode = "queue" => RunsFit /\ CopyFits(t, u))
  BY Known
<1>3. u.pc \in Busy /\ u.pc \in Calm /\ "Model" \in Busy /\ "Model" \in Steps /\ "Model" \notin Over
  BY <1>1, BusyIs DEF Calm
<1>4. u.late = 0
  BY <1>2, <1>3, CalmIs
<1>5. mode = "queue" => u.act = 0 /\ Follows(u.copy, row.hist) /\ u.copy.pend = row.pend
  <2> HIDE DEF u
  <2>. QED BY <1>1, <1>2 DEF CopyFits
<1>6. CASE row = u.copy /\ row' = s /\ Move(t, "Model", s)
  <2>1. s \in Sessions(made) /\ s.title = row.title /\ s.pend = row.pend
    BY <1>2, <1>6, CompactedIs
  <2>2. PICK q : q = Moved(u, "Model", s)
    OBVIOUS
  <2>3. q.pc = "Model" /\ q.copy = s /\ q.act = u.act
    BY <1>3, <2>1, <2>2, Goes
  <2>4. RestTypes' /\ UNCHANGED <<mode, made, expired, ran, cleared>>
    BY <1>1, <1>2, <1>6, <2>1 DEF RestTypes, Still
  <2>5. Archived
    BY <1>2, <1>6, <2>4 DEF Archived
  <2> HIDE DEF u, s
  <2>6. mode = "queue" => CopyFits(t, q)'
    BY <1>5, <1>6, <2>1, <2>3 DEF CopyFits, Follows
  <2>7. ASSUME mode = "queue"
        PROVE  (Unrun(row.pend))' /\ row'.pend = row.pend
               /\ (row'.pend.state = "Executing" => AnyLost)
    <3>1. (Unrun(row.pend))' /\ row'.pend = row.pend
      BY <1>2, <1>6, <2>1, <2>4, <2>7 DEF RunsFit, Unrun
    <3>2. row.pend.state = "Executing" => AnyLost
      <4>1. SUFFICES ASSUME row.pend.state = "Executing", ~AnyLost PROVE FALSE
        OBVIOUS
      <4>2. PICK v \in 1..Turns : turns[v].pc \in Executing
        BY <1>2, <2>7, <4>1 DEF RunsFit
      <4>3. v # t
        BY <1>1, <4>2 DEF Executing, u
      <4>4. turns[v].pc \in Over \cup {"Idle"}
        BY <1>3, <2>7, <4>3, OnlyOne, BusyIs DEF u
      <4>. QED BY <4>2, <4>4, BusyIs
    <3>. QED BY <3>1, <3>2
  <2>. QED BY <1>3, <1>4, <1>6, <2>1, <2>2, <2>4, <2>5, <2>6, <2>7, WroteStep DEF u
<1>7. CASE Move(t, "Model", u.copy) /\ Read
  <2>1. PICK q : q = Moved(u, "Model", u.copy)
    OBVIOUS
  <2>2. q.pc = "Model" /\ q.copy = u.copy /\ q.act = u.act
    BY <1>2, <1>3, <2>1, Goes
  <2>3. mode = "queue" => CopyFits(t, q)
    <3> HIDE DEF u
    <3>. QED BY <1>5, <2>2 DEF CopyFits
  <2>4. RestTypes'
    BY <1>1, <1>2, <1>7 DEF RestTypes, Still, Read
  <2>. QED BY <1>1, <1>2, <1>3, <1>4, <1>5, <1>7, <2>1, <2>3, <2>4, ReadStep DEF Still
<1>. QED BY <1>1, <1>6, <1>7

(* A session with an exchange appended to its history.                      *)
LEMMA WithExchange ==
  ASSUME NEW m \in Nat, NEW s \in Sessions(m), NEW t \in 1..Turns
  PROVE  LET r == [s EXCEPT !.hist = Append(@, t)] IN
         /\ r \in Sessions(m) /\ r.hist = Append(s.hist, t)
         /\ r.arch = s.arch /\ r.title = s.title /\ r.pend = s.pend
<1> DEFINE h == Append(s.hist, t)
<1>1. s.hist \in Seq(1..Turns) /\ s.pend \in Ops(m)
  BY DEF Sessions
<1>2. h \in Seq(1..Turns)
  BY <1>1, AppendIs
<1> HIDE DEF h
<1>3. /\ [s EXCEPT !.hist = h] \in Sessions(m)
      /\ [s EXCEPT !.hist = h] = [hist |-> h, arch |-> s.arch, title |-> s.title, pend |-> s.pend]
  BY <1>1, <1>2, HistIs
<1>. QED BY <1>3 DEF h

(* An answer of the model is put on a copy, or on the row read again.       *)
LEMMA AnswersStep ==
  ASSUME IInv, NEW t \in 1..Turns, ModelAnswers(t) \/ AgentAnswers(t)
  PROVE  IInv'
<1> DEFINE u == turns[t]
<1>1. /\ u.pc \in {"Model", "Tooled"} /\ Still /\ Read
      /\ \E s \in {row, u.copy} :
             /\ Move(t, "SavingChat", [s EXCEPT !.hist = Append(@, t)])
             /\ (u.pc = "Model" /\ s = u.copy) \/ (u.act = 0 /\ s = row)
  BY DEF ModelAnswers, AgentAnswers, At, Copy
<1>2. /\ made \in Nat /\ RestTypes /\ u \in Requests(made) /\ row \in Sessions(made)
      /\ u.copy \in Sessions(made) /\ LateFits(u) /\ (mode = "queue" => CopyFits(t, u))
  BY Known
<1>3. /\ u.pc \in Busy /\ u.pc \in Calm
      /\ "SavingChat" \in Busy /\ "SavingChat" \in Steps /\ "SavingChat" \notin Over
  BY <1>1, BusyIs DEF Calm
<1>4. u.late = 0
  BY <1>2, <1>3, CalmIs
<1> HIDE DEF u
<1>5. PICK s \in {row, u.copy} :
             /\ Move(t, "SavingChat", [s EXCEPT !.hist = Append(@, t)])
             /\ (u.pc = "Model" /\ s = u.copy) \/ (u.act = 0 /\ s = row)
  BY <1>1
<1>6. mode = "queue" => u.act = 0 /\ Follows(s, row.hist) /\ s.pend = row.pend
  BY <1>2, <1>5 DEF CopyFits, Follows
<1> DEFINE r == [s EXCEPT !.hist = Append(@, t)]
<1>7. /\ r \in Sessions(made) /\ r.hist = Append(s.hist, t)
      /\ r.arch = s.arch /\ r.title = s.title /\ r.pend = s.pend
  BY <1>2, WithExchange
<1>8. Move(t, "SavingChat", r)
  BY <1>5
<1> HIDE DEF r
<1>9. PICK q : q = Moved(u, "SavingChat", r)
  OBVIOUS
<1>10. q.pc = "SavingChat" /\ q.copy = r /\ q.act = u.act
  BY <1>3, <1>7, <1>9, Goes DEF u
<1>11. mode = "queue" => CopyFits(t, q)
  BY <1>6, <1>7, <1>10 DEF CopyFits, Follows
<1>12. RestTypes'
  BY <1>1, <1>2 DEF RestTypes, Still, Read
<1>. QED BY <1>1, <1>3, <1>4, <1>6, <1>7, <1>8, <1>9, <1>11, <1>12, ReadStep DEF Still, u

(* While a request is at a step that carries nothing out, what is still in   *)
(* execution was left by one that died.                                     *)
LEMMA NoneExecutes ==
  ASSUME IInv, mode = "queue", NEW t \in 1..Turns, turns[t].pc \in Busy,
         turns[t].pc \notin Executing \/ turns[t].act = 0 \/ turns[t].act # row.pend.act,
         row.pend.state = "Executing"
  PROVE  AnyLost
<1>1. SUFFICES ASSUME ~AnyLost PROVE FALSE
  OBVIOUS
<1>2. PICK v \in 1..Turns : turns[v].pc \in Executing /\ turns[v].act # 0 /\ turns[v].act = row.pend.act
  BY <1>1 DEF IInv, RunsFit
<1>3. v # t
  BY <1>2
<1>4. turns[v].pc \in Over \cup {"Idle"}
  BY <1>3, OnlyOne, BusyIs
<1>. QED BY <1>2, <1>4, BusyIs

LEMMA StartToolStep ==
  ASSUME IInv, NEW t \in 1..Turns, StartTool(t)
  PROVE  IInv'
<1> DEFINE u == turns[t]
<1>1. /\ u.pc \in {"Model", "Tooled"} \/ (u.pc = "Run" /\ u.copy.pend.kind = "clarify")
      /\ Move(t, "Tool", row) /\ Read /\ Still
  BY DEF StartTool, At, Copy
<1>2. /\ made \in Nat /\ RestTypes /\ u \in Requests(made) /\ row \in Sessions(made)
      /\ LateFits(u) /\ (mode = "queue" => CopyFits(t, u))
  BY Known
<1>3. /\ u.pc \in Busy /\ u.pc \in Calm
      /\ "Tool" \in Busy /\ "Tool" \in Steps /\ "Tool" \in Executing
  BY <1>1, BusyIs DEF Calm, Executing
<1>4. u.late = 0
  BY <1>2, <1>3, CalmIs
<1> HIDE DEF u
<1>5. PICK q : q = Moved(u, "Tool", row)
  OBVIOUS
<1>6. q.pc = "Tool" /\ q.copy = row /\ q.act = u.act /\ q.rev = u.rev
  BY <1>2, <1>3, <1>5, Goes DEF u
<1>7. mode = "queue" /\ q.act # 0 /\ row.pend.act = q.act => row.pend.kind = "clarify"
  BY <1>1, <1>2, <1>6 DEF CopyFits
<1>8. mode = "queue" => CopyFits(t, q)
  BY <1>6, <1>7 DEF CopyFits, Follows
<1>9. RestTypes'
  BY <1>1, <1>2 DEF RestTypes, Still, Read
<1>. QED BY <1>1, <1>2, <1>3, <1>4, <1>5, <1>8, <1>9, ReadStep DEF Still, u

(* A tool that prepares an operation.                                       *)
LEMMA PrepareStep ==
  ASSUME IInv, NEW t \in 1..Turns, NEW kind \in {"delete", "clarify"}, turns[t].pc = "Tool",
         Prepare(t, kind), Move(t, "Tooled", turns[t].copy),
         UNCHANGED <<mode, titles, expired, ran, cleared, faults>>
  PROVE  IInv'
<1> DEFINE u == turns[t]
           p == Prepared(made + 1, kind)
           s == [u.copy EXCEPT !.pend = p]
<1>1. /\ made \in Nat /\ RestTypes /\ u \in Requests(made) /\ u.copy \in Sessions(made)
      /\ LateFits(u) /\ (mode = "queue" => RunsFit /\ CopyFits(t, u))
  BY Known
<1>2. u.pc \in Busy /\ u.pc \in Calm /\ "Tooled" \in Busy /\ "Tooled" \in Steps
  BY BusyIs DEF Calm
<1>3. u.late = 0
  BY <1>1, <1>2, CalmIs
<1>4. made < MaxActs /\ made' = made + 1 /\ row' = s
  BY <1>1, SessionAssumption DEF Prepare, InMode, Copy, Write
<1>5. p \in Ops(made') /\ p.act = made + 1 /\ p.state = "Waiting"
  BY <1>1, <1>4 DEF Prepared, Ops
<1>6. u.copy \in Sessions(made') /\ made' \in Nat
  BY <1>1, <1>4, TypesGrow
<1> HIDE DEF p
<1>7. s \in Sessions(made') /\ s = [hist |-> u.copy.hist, arch |-> u.copy.arch,
                                    title |-> u.copy.title, pend |-> p]
  BY <1>5, <1>6, PendIs
<1> HIDE DEF s
<1>8. s.hist = u.copy.hist /\ s.arch = u.copy.arch /\ s.pend = p
  BY <1>7
<1>9. PICK q : q = Moved(u, "Tooled", u.copy)
  OBVIOUS
<1>10. q.pc = "Tooled" /\ q.act = u.act /\ u.act \in 0..made
  BY <1>1, <1>2, <1>9, Goes DEF Requests
<1>11. RestTypes'
  <2>1. made' \in 0..MaxActs /\ expired' \subseteq 1..made'
    BY <1>1, <1>4, SessionAssumption DEF RestTypes
  <2>. QED BY <1>1, <1>4, <1>7, <2>1 DEF RestTypes
<1> HIDE DEF u
<1>12. mode = "queue" => Kept
  BY <1>1, <1>4, <1>8 DEF Kept, CopyFits, Follows, u
<1>13. row'.pend.act = made + 1 /\ row'.pend.state = "Waiting"
  BY <1>4, <1>5, <1>8
<1>14. mode = "queue" => (Unrun(row.pend))'
  <2>1. made + 1 \in Acts /\ made + 1 > made /\ made + 1 \in 1..made'
    BY <1>1, <1>4, SessionAssumption DEF Acts
  <2>. QED BY <1>1, <1>13, <2>1 DEF Unrun, RunsFit, RunOnce
<1>15. CopyFits(t, q)'
  <2>1. row'.pend.act # q.act
    BY <1>1, <1>10, <1>13
  <2>. QED BY <2>1, <1>10 DEF CopyFits
<1>16. row'.pend.act > made /\ row'.pend.state # "Executing"
  BY <1>1, <1>13
<1>. QED BY <1>1, <1>2, <1>3, <1>4, <1>9, <1>11, <1>12, <1>14, <1>15, <1>16, WroteStep DEF u

(* A step that goes on with the copy the request has, and writes nothing.   *)
LEMMA GoesOn ==
  ASSUME IInv, NEW t \in 1..Turns, NEW to \in {"Tooled", "Failing", "Lost"},
         turns[t].pc \in {"Run", "Tool", "Tooled", "Carried", "Compacting", "Model"},
         Move(t, to, turns[t].copy), Read,
         RestTypes', UNCHANGED <<mode, made, expired, ran, cleared>>,
         to = "Tooled" => turns[t].pc \in {"Tool", "Carried"}
  PROVE  IInv'
<1> DEFINE u == turns[t]
<1>1. /\ made \in Nat /\ u \in Requests(made) /\ u.copy \in Sessions(made)
      /\ LateFits(u) /\ (mode = "queue" => CopyFits(t, u))
  BY Known
<1>2. /\ u.pc \in Busy /\ u.pc \in Calm /\ to \in Steps
      /\ to # "Lost" => to \in Busy /\ to \in Executing
  BY BusyIs DEF Calm, Executing
<1>3. u.late = 0
  BY <1>1, <1>2, CalmIs
<1>4. PICK q : q = Moved(u, to, u.copy)
  OBVIOUS
<1>5. q.pc = to /\ (to # "Lost" => q.act = u.act)
  BY <1>1, <1>2, <1>4, Goes
<1>6. ASSUME mode = "queue" PROVE to \in Over \/ CopyFits(t, q)
  <2> HIDE DEF u
  <2>1. CASE to = "Lost"
    BY <2>1, BusyIs
  <2>2. CASE to = "Failing"
    BY <2>2, <1>5 DEF CopyFits
  <2>3. CASE to = "Tooled"
    <3>1. u.act # 0 /\ row.pend.act = u.act => row.pend.kind = "clarify"
      BY <2>3, <1>1, <1>6 DEF CopyFits, u
    <3>. QED BY <3>1, <2>3, <1>5 DEF CopyFits
  <2>. QED BY <2>1, <2>2, <2>3
<1>. QED BY <1>1, <1>2, <1>3, <1>4, <1>6, ReadStep

LEMMA ChatToolStep ==
  ASSUME IInv, NEW t \in 1..Turns, ChatTool(t)
  PROVE  IInv'
<1>1. /\ turns[t].pc = "Tool" /\ Move(t, "Tooled", turns[t].copy)
      /\ (\E kind \in {"delete", "clarify"} : Prepare(t, kind)) \/ (Read /\ UNCHANGED made)
      /\ UNCHANGED <<mode, titles, expired, ran, cleared, faults>>
  BY DEF ChatTool, At, Copy
<1>2. CASE \E kind \in {"delete", "clarify"} : Prepare(t, kind)
  BY <1>1, <1>2, PrepareStep
<1>3. CASE Read /\ UNCHANGED made
  <2>1. RestTypes'
    BY <1>1, <1>3, Known DEF RestTypes, Read
  <2>. QED BY <1>1, <1>3, <2>1, GoesOn
<1>. QED BY <1>1, <1>2, <1>3

LEMMA AnswerToolStep ==
  ASSUME IInv, NEW t \in 1..Turns, AnswerTool(t)
  PROVE  IInv'
<1> DEFINE u == turns[t]
<1>1. /\ u.pc = "Tool" /\ UNCHANGED <<mode, titles, expired, ran, cleared, faults>>
      /\ \/ Prepare(t, "delete") /\ Move(t, "Tooled", u.copy)
         \/ /\ \E to \in {"Carried", "Tooled", "Failing"} : Move(t, to, u.copy)
            /\ Read /\ UNCHANGED made
  BY DEF AnswerTool, At, Copy
<1>2. /\ made \in Nat /\ RestTypes /\ u \in Requests(made) /\ u.copy \in Sessions(made)
      /\ LateFits(u) /\ (mode = "queue" => CopyFits(t, u))
  BY Known
<1>3. CASE Prepare(t, "delete") /\ Move(t, "Tooled", u.copy)
  <2>1. "delete" \in {"delete", "clarify"}
    OBVIOUS
  <2>. QED BY <1>1, <1>3, <2>1, PrepareStep
<1>4. CASE Move(t, "Carried", u.copy) /\ Read /\ UNCHANGED made
  <2>1. /\ u.pc \in Busy /\ u.pc \in Calm
        /\ "Carried" \in Busy /\ "Carried" \in Steps /\ "Carried" \in Executing
    BY <1>1, BusyIs DEF Calm, Executing
  <2>2. u.late = 0
    BY <1>2, <2>1, CalmIs
  <2>3. PICK q : q = Moved(u, "Carried", u.copy)
    OBVIOUS
  <2>4. q.pc = "Carried" /\ q.copy = u.copy /\ q.act = u.act
    BY <1>2, <2>1, <2>3, Goes
  <2> HIDE DEF u
  <2>5. mode = "queue" => CopyFits(t, q)
    BY <1>1, <1>2, <2>4 DEF CopyFits
  <2>6. RestTypes'
    BY <1>1, <1>2, <1>4 DEF RestTypes, Read
  <2>. QED BY <1>1, <1>2, <1>4, <2>1, <2>2, <2>3, <2>5, <2>6, ReadStep DEF u
<1>5. ASSUME NEW to \in {"Tooled", "Failing"}, Move(t, to, u.copy), Read, UNCHANGED made
      PROVE  IInv'
  <2>1. RestTypes'
    BY <1>1, <1>2, <1>5 DEF RestTypes, Read
  <2>. QED BY <1>1, <1>5, <2>1, GoesOn
<1>. QED BY <1>1, <1>3, <1>4, <1>5

LEMMA ClearQuestionStep ==
  ASSUME IInv, NEW t \in 1..Turns, ClearQuestion(t)
  PROVE  IInv'
<1> DEFINE u == turns[t]
           p == u.copy.pend
<1>1. /\ u.pc = "Carried" /\ UNCHANGED <<mode, titles, made, expired, cleared, faults>>
      /\ \/ /\ p.kind = "clarify" /\ ran' = [ran EXCEPT ![p.act] = @ + 1]
            /\ row' = [u.copy EXCEPT !.pend = NoPending] /\ Move(t, "Tooled", u.copy)
         \/ p.kind # "clarify" /\ ran' = ran /\ row' = u.copy /\ Move(t, "Tooled", u.copy)
         \/ ran' = ran /\ \E to \in {"Tooled", "Failing"} : Move(t, to, u.copy) /\ Read
  BY DEF ClearQuestion, At, Copy, Write
<1>2. /\ made \in Nat /\ RestTypes /\ u \in Requests(made) /\ u.copy \in Sessions(made)
      /\ p \in Ops(made) /\ LateFits(u)
      /\ (mode = "queue" => RunsFit /\ CopyFits(t, u))
  BY Known
<1>3. /\ u.pc \in Busy /\ u.pc \in Calm
      /\ "Tooled" \in Busy /\ "Tooled" \in Steps /\ "Tooled" \in Executing
  BY <1>1, BusyIs DEF Calm, Executing
<1>4. u.late = 0
  BY <1>2, <1>3, CalmIs
<1>5. PICK q : q = Moved(u, "Tooled", u.copy)
  OBVIOUS
<1>6. q.pc = "Tooled" /\ q.act = u.act
  BY <1>2, <1>3, <1>5, Goes
<1>7. ASSUME mode = "queue"
      PROVE  /\ Follows(u.copy, row.hist) /\ p = row.pend /\ Unrun(p)
             /\ u.act # 0 /\ row.pend.act = u.act => row.pend.kind = "clarify"
  <2> HIDE DEF u
  <2>. QED BY <1>1, <1>2, <1>7 DEF CopyFits, RunsFit
<1>8. CASE /\ p.kind = "clarify" /\ ran' = [ran EXCEPT ![p.act] = @ + 1]
           /\ row' = [u.copy EXCEPT !.pend = NoPending] /\ Move(t, "Tooled", u.copy)
  <2> DEFINE a == p.act
  <2>1. /\ row' \in Sessions(made) /\ row'.hist = u.copy.hist /\ row'.arch = u.copy.arch
        /\ row'.pend = NoPending
    <3>1. /\ [u.copy EXCEPT !.pend = NoPending] \in Sessions(made)
          /\ [u.copy EXCEPT !.pend = NoPending] =
                 [hist |-> u.copy.hist, arch |-> u.copy.arch, title |-> u.copy.title,
                  pend |-> NoPending]
      BY <1>2, NewTypes, PendIs
    <3>. QED BY <1>8, <3>1
  <2>2. row'.pend.act = 0 /\ row'.pend.state = "none" /\ row'.pend.kind = "none"
    BY <2>1 DEF NoPending
  <2>3. /\ ran' \in [Acts -> Nat] /\ \A b \in Acts : b # a => ran'[b] = ran[b]
        /\ a \in Acts => ran'[a] = ran[a] + 1
    <3>1. ran \in [Acts -> Nat]
      BY <1>2 DEF RestTypes
    <3> HIDE DEF p, u
    <3>2. CASE a \in Acts
      BY <1>8, <3>1, <3>2
    <3>3. CASE a \notin Acts
      BY <1>8, <3>1, <3>3
    <3>. QED BY <3>2, <3>3
  <2>4. RestTypes'
    BY <1>1, <1>2, <2>1, <2>3 DEF RestTypes
  <2>5. ASSUME mode = "queue" PROVE Kept /\ RunOnce(ran', made')
    <3>1. a \in 1..made /\ ran[a] = 0
      BY <1>7, <1>8, <2>5 DEF Unrun
    <3>2. RunOnce(ran, made) /\ made' = made
      BY <1>1, <1>2, <2>5 DEF RunsFit
    <3>3. Kept
      BY <1>1, <1>7, <2>1, <2>5 DEF Kept, Follows
    <3> HIDE DEF p
    <3>. QED BY <1>2, <2>3, <3>1, <3>2, <3>3 DEF RunOnce
  <2>6. (Unrun(row.pend))' /\ CopyFits(t, q)'
    BY <1>6, <2>2 DEF Unrun, CopyFits
  <2> HIDE DEF u, p
  <2>7. UNCHANGED <<mode, expired>> /\ made' \in {made, made + 1} /\ "Tooled" # "Idle"
        /\ "Tooled" \notin {"Command", "Writing", "Saved", "Done"}
    BY <1>1
  <2>. QED BY <1>2, <1>3, <1>4, <1>5, <1>8, <2>2, <2>4, <2>5, <2>6, <2>7, WroteStep DEF u
<1>9. CASE p.kind # "clarify" /\ ran' = ran /\ row' = u.copy /\ Move(t, "Tooled", u.copy)
  <2>1. RestTypes' /\ UNCHANGED <<mode, made, expired, ran, cleared>>
    BY <1>1, <1>2, <1>9 DEF RestTypes
  <2>2. ASSUME mode = "queue"
        PROVE  /\ Kept /\ row'.pend = row.pend
               /\ u.act # 0 => u.act # row.pend.act
    BY <1>1, <1>7, <1>9, <2>2 DEF Kept, Follows
  <2>3. ASSUME mode = "queue", row.pend.state = "Executing" PROVE AnyLost
    BY <1>3, <2>2, <2>3, NoneExecutes
  <2>4. mode = "queue" => (Unrun(row.pend))'
    BY <1>2, <2>1, <2>2 DEF RunsFit, Unrun
  <2>5. mode = "queue" => CopyFits(t, q)'
    BY <1>6, <2>2 DEF CopyFits
  <2> HIDE DEF u, p
  <2>. QED BY <1>2, <1>3, <1>4, <1>5, <1>9, <2>1, <2>2, <2>3, <2>4, <2>5, WroteStep DEF u
<1>10. ASSUME ran' = ran, NEW to \in {"Tooled", "Failing"}, Move(t, to, u.copy), Read PROVE IInv'
  <2>1. RestTypes' /\ UNCHANGED <<mode, made, expired, ran, cleared>>
    BY <1>1, <1>2, <1>10 DEF RestTypes, Read
  <2>. QED BY <1>1, <1>10, <2>1, GoesOn
<1>. QED BY <1>1, <1>8, <1>9, <1>10

LEMMA ModelFailsStep ==
  ASSUME IInv, NEW t \in 1..Turns, ModelFails(t)
  PROVE  IInv'
<1> DEFINE to == IF turns[t].act = 0 THEN "Lost" ELSE "Failing"
<1>1. /\ turns[t].pc \in {"Model", "Tooled", "Run"} /\ Move(t, to, turns[t].copy) /\ Read /\ Still
  BY DEF ModelFails, At, Copy
<1>2. RestTypes' /\ UNCHANGED <<mode, made, expired, ran, cleared>>
  BY <1>1, Known DEF RestTypes, Still, Read
<1>3. to \in {"Failing", "Lost"}
  OBVIOUS
<1> HIDE DEF to
<1>. QED BY <1>1, <1>2, <1>3, GoesOn

LEMMA FaultsLeft == ASSUME IInv, faults < InMode(MaxFaults, SpawnedFaults) PROVE faults < MaxFaults
<1>1. faults \in Nat /\ SpawnedFaults \in 0..MaxFaults /\ MaxFaults \in Nat
  BY SessionAssumption DEF IInv, Types, RestTypes
<1>. QED BY <1>1 DEF InMode

LEMMA TimesOutStep ==
  ASSUME IInv, NEW t \in 1..Turns, TimesOut(t)
  PROVE  IInv'
<1> DEFINE u == turns[t]
<1>1. /\ u.pc \in {"Compacting", "Model", "Tooled", "Run", "Writing"} /\ Move(t, "Lost", u.copy) /\ Read
      /\ u.pc = "Writing" => u.ask \in {"Rename", "Compact"}
      /\ faults < MaxFaults /\ faults' = faults + 1
      /\ UNCHANGED <<mode, titles, made, expired, ran, cleared>>
  BY FaultsLeft DEF TimesOut, At, Copy
<1>2. /\ made \in Nat /\ RestTypes /\ u \in Requests(made) /\ u.copy \in Sessions(made) /\ LateFits(u)
  BY Known
<1>3. RestTypes'
  BY <1>1, <1>2, SessionAssumption DEF RestTypes, Read
<1>4. CASE u.pc # "Writing"
  BY <1>1, <1>3, <1>4, GoesOn
<1>5. CASE u.pc = "Writing"
  <2>1. u.late = 0
    BY <1>1, <1>2, <1>5 DEF LateFits
  <2>2. u.pc \in Busy /\ u.pc \notin Executing /\ "Lost" \in Over /\ "Lost" \in Steps
    BY <1>5, BusyIs DEF Busy, Executing
  <2>3. PICK q : q = Moved(u, "Lost", u.copy)
    OBVIOUS
  <2>. QED BY <1>1, <1>2, <1>3, <2>1, <2>2, <2>3, ReadStep
<1>. QED BY <1>4, <1>5

LEMMA SaveChatStep ==
  ASSUME IInv, NEW t \in 1..Turns, SaveChat(t)
  PROVE  IInv'
<1> DEFINE u == turns[t]
           c == u.copy
<1>1. /\ u.pc = "SavingChat" /\ row' = c /\ Move(t, "Saved", c)
      /\ titles' \in {titles, titles \cup {t}}
      /\ UNCHANGED <<mode, made, expired, ran, cleared, faults>>
  BY DEF SaveChat, At, Copy, Write
<1>2. /\ made \in Nat /\ RestTypes /\ u \in Requests(made) /\ c \in Sessions(made)
      /\ LateFits(u) /\ (mode = "queue" => RunsFit /\ CopyFits(t, u))
  BY Known
<1>3. u.pc \in Busy /\ u.pc \in Calm /\ "Saved" \in Steps /\ "Saved" \in Over /\ u.pc \notin Executing
  BY <1>1, BusyIs DEF Calm, Executing
<1>4. u.late = 0
  BY <1>2, <1>3, CalmIs
<1>5. PICK q : q = Moved(u, "Saved", c)
  OBVIOUS
<1>6. RestTypes'
  BY <1>1, <1>2 DEF RestTypes
<1>7. ASSUME mode = "queue" PROVE Follows(c, Append(row.hist, t)) /\ c.pend = row.pend
  <2> HIDE DEF u
  <2>. QED BY <1>1, <1>2, <1>7 DEF CopyFits, c
<1> HIDE DEF c
<1>8. mode = "queue" => Extended(t) /\ (Unrun(row.pend))' /\ row'.pend = row.pend
  BY <1>1, <1>2, <1>7 DEF Extended, Follows, RunsFit, Unrun
<1>9. mode = "queue" => (row.pend.state = "Executing" => AnyLost)
  BY <1>3, NoneExecutes
<1>. QED BY <1>1, <1>2, <1>3, <1>4, <1>5, <1>6, <1>8, <1>9, WroteStep

LEMMA SettleStep ==
  ASSUME IInv, NEW t \in 1..Turns, Settle(t)
  PROVE  IInv'
<1> DEFINE u == turns[t]
           again == [row.pend EXCEPT !.rev = @ + 1, !.state = "Waiting"]
           same == row.pend.act = u.act
<1>1. /\ u.act # 0 /\ u.pc \in {"Tooled", "Run"} /\ Read /\ Still
      /\ \/ same /\ Move(t, "Append", [row EXCEPT !.pend = again])
         \/ Move(t, "Lost", row)
         \/ ~same /\ Move(t, "Append", row)
         \/ Move(t, "Append", [row EXCEPT !.pend = NoPending])
  BY DEF Settle, At, Copy
<1>2. /\ made \in Nat /\ RestTypes /\ u \in Requests(made) /\ row \in Sessions(made)
      /\ row.pend \in Ops(made) /\ LateFits(u) /\ u.act \in 0..made
      /\ (mode = "queue" => RunsFit /\ CopyFits(t, u))
  BY Known DEF Requests
<1>3. /\ u.pc \in Busy /\ u.pc \in Calm /\ u.pc \in Executing /\ "Lost" \in Steps /\ "Lost" \in Over
      /\ "Append" \in Busy /\ "Append" \in Steps /\ "Append" \in Executing
  BY <1>1, BusyIs DEF Calm, Executing
<1>4. u.late = 0
  BY <1>2, <1>3, CalmIs
<1>5. RestTypes' /\ UNCHANGED <<mode, made, expired, ran, cleared>>
  BY <1>1, <1>2 DEF RestTypes, Still, Read
<1>6. ASSUME NEW p \in Ops(made), mode = "queue" => MayKeep(p),
             Move(t, "Append", [row EXCEPT !.pend = p])
      PROVE  IInv'
  <2> DEFINE s == [row EXCEPT !.pend = p]
  <2>1. s \in Sessions(made) /\ s = [hist |-> row.hist, arch |-> row.arch, title |-> row.title,
                                     pend |-> p]
    BY <1>2, PendIs
  <2>2. s.pend = p
    <3> HIDE DEF s
    <3>. QED BY <2>1
  <2>3. Move(t, "Append", s)
    BY <1>6
  <2> HIDE DEF s
  <2>4. PICK q : q = Moved(u, "Append", s)
    OBVIOUS
  <2>5. q.pc = "Append" /\ q.copy = s
    BY <1>3, <2>1, <2>4, Goes
  <2> HIDE DEF u
  <2>6. mode = "queue" => CopyFits(t, q)
    BY <1>6, <2>2, <2>5 DEF CopyFits
  <2>. QED BY <1>1, <1>3, <1>4, <1>5, <2>1, <2>3, <2>4, <2>6, ReadStep DEF u
<1>7. CASE same /\ Move(t, "Append", [row EXCEPT !.pend = again])
  <2>1. again \in Ops(made) /\ again.act = row.pend.act /\ again.state = "Waiting"
        /\ again.kind = row.pend.kind
    <3> DEFINE o == row.pend
               n == o.rev + 1
    <3>1. o \in Ops(made) /\ n \in Nat
      BY <1>2 DEF Ops
    <3> HIDE DEF o, n
    <3>2. LET r == [o EXCEPT !.rev = n, !.state = "Waiting"] IN
          r \in Ops(made) /\ r.act = o.act /\ r.state = "Waiting" /\ r.kind = o.kind
      BY <3>1 DEF Ops
    <3>. QED BY <3>2 DEF o, n
  <2> HIDE DEF again
  <2>2. mode = "queue" => ran[u.act] = 0
    <3> HIDE DEF u
    <3>. QED BY <1>1, <1>2, <1>7 DEF CopyFits, RunsFit, Unrun
  <2>3. mode = "queue" => MayKeep(again)
    BY <1>1, <1>2, <1>7, <2>1, <2>2 DEF MayKeep, Unrun
  <2>. QED BY <1>6, <1>7, <2>1, <2>3
<1>8. CASE Move(t, "Lost", row)
  <2>1. PICK q : q = Moved(u, "Lost", row)
    OBVIOUS
  <2>. QED BY <1>1, <1>2, <1>3, <1>4, <1>5, <1>8, <2>1, ReadStep
<1>9. CASE ~same /\ Move(t, "Append", row)
  <2>1. PICK q : q = Moved(u, "Append", row)
    OBVIOUS
  <2>2. q.pc = "Append" /\ q.copy = row
    BY <1>2, <1>3, <2>1, Goes
  <2>3. mode = "queue" => (row.pend.state = "Executing" => AnyLost)
    BY <1>3, <1>9, NoneExecutes
  <2> HIDE DEF u
  <2>4. mode = "queue" => CopyFits(t, q)
    BY <1>2, <2>2, <2>3 DEF CopyFits, MayKeep, RunsFit
  <2>. QED BY <1>1, <1>2, <1>3, <1>4, <1>5, <1>9, <2>1, <2>4, ReadStep DEF u
<1>10. CASE Move(t, "Append", [row EXCEPT !.pend = NoPending])
  <2>1. MayKeep(NoPending) /\ NoPending \in Ops(made)
    BY <1>2, NewTypes DEF MayKeep, Unrun, NoPending
  <2>. QED BY <1>6, <1>10, <2>1
<1> HIDE DEF again
<1>. QED BY <1>1, <1>7, <1>8, <1>9, <1>10

LEMMA WriteCommandStep ==
  ASSUME IInv, NEW t \in 1..Turns, WriteCommand(t)
  PROVE  IInv'
<1> DEFINE u == turns[t]
           c == u.copy
           to == IF u.ask = "Note" THEN "Saved" ELSE "Done"
<1>1. /\ u.pc = "Writing" /\ row' = Commanded(t, c) /\ Move(t, to, c)
      /\ cleared' = IF u.ask = "Clear" THEN cleared \cup ToSet(row.hist) ELSE cleared
      /\ UNCHANGED <<mode, titles, made, expired, ran, faults>>
  BY DEF WriteCommand, At, Copy, Write
<1>2. /\ made \in Nat /\ RestTypes /\ u \in Requests(made) /\ c \in Sessions(made)
      /\ row \in Sessions(made) /\ row.hist \in Seq(1..Turns)
      /\ LateFits(u) /\ (mode = "queue" => RunsFit /\ CopyFits(t, u))
  BY Known
<1>3. u.pc \in Busy /\ u.pc \notin Executing /\ to \in Steps /\ to \in Over
  BY <1>1, BusyIs DEF Busy, Executing
<1>4. PICK q : q = Moved(u, to, c)
  OBVIOUS
<1>5. q.pc = to /\ q.late = u.late /\ to \in {"Saved", "Done"} /\ (to = "Saved" <=> u.ask = "Note")
  BY <1>2, <1>3, <1>4, Goes
<1> HIDE DEF u, to
<1>6. u.ask \in Commands /\ (u.late # 0 => u.ask = "Clear")
  BY <1>1, <1>2 DEF LateFits
<1>7. LateFits(q)
  BY <1>2, <1>3, <1>5 DEF LateFits
<1>8. mode = "queue" => Follows(c, row.hist) /\ c.pend = row.pend
  BY <1>1, <1>2 DEF CopyFits, c
<1> HIDE DEF c
<1>9. mode = "queue" => (row.pend.state = "Executing" => AnyLost)
  BY <1>3, NoneExecutes DEF u
<1>10. mode = "queue" => Unrun(row.pend)
  BY <1>2 DEF RunsFit
<1>11. ToSet(row.hist) \subseteq 1..Turns
  BY <1>2, ElementsIn
<1>12. ASSUME row' \in Sessions(made),
              mode = "queue" => /\ row'.pend = row.pend \/ row'.pend = NoPending
                                /\ u.late # 0 => row'.pend = NoPending
                                /\ IF to = "Saved" THEN Extended(t)
                                   ELSE Kept \/ Forgotten \/ Archived
       PROVE  IInv'
  <2>1. RestTypes'
    BY <1>1, <1>2, <1>11, <1>12 DEF RestTypes
  <2>2. mode = "queue" => /\ (Unrun(row.pend))'
                          /\ row'.pend.state = "Executing" => AnyLost
                          /\ row'.pend.act \in {0, row.pend.act}
                          /\ u.late # 0 => row'.pend.act = 0
    BY <1>1, <1>9, <1>10, <1>12 DEF Unrun, NoPending
  <2>3. to # "Idle"
    BY <1>5
  <2>. QED BY <1>1, <1>2, <1>3, <1>4, <1>7, <1>12, <2>1, <2>2, <2>3, WroteStep DEF u
<1>13. CASE u.ask = "Clear"
  <2>1. row' = [c EXCEPT !.hist = <<>>, !.pend = NoPending] /\ cleared' = cleared \cup ToSet(row.hist)
    BY <1>1, <1>13 DEF Commanded, u
  <2>2. NoPending \in Ops(made) /\ <<>> \in Seq(1..Turns)
    BY <1>2, NewTypes
  <2>3. row' \in Sessions(made) /\ row'.hist = <<>> /\ row'.pend = NoPending /\ row'.arch = c.arch
    <3> HIDE DEF Ops
    <3>. QED BY <1>2, <2>1, <2>2 DEF Sessions
  <2>4. mode = "queue" => Forgotten
    BY <1>8, <2>1, <2>3 DEF Forgotten, Follows
  <2>. QED BY <1>5, <1>12, <1>13, <2>3, <2>4
<1>14. CASE u.ask = "Rename"
  <2>1. row' = [c EXCEPT !.title = "manual"] /\ cleared' = cleared
    BY <1>1, <1>14 DEF Commanded, u
  <2>2. row' \in Sessions(made) /\ row'.hist = c.hist /\ row'.pend = c.pend /\ row'.arch = c.arch
    <3> HIDE DEF Ops
    <3>. QED BY <1>2, <2>1 DEF Sessions, Titles
  <2>3. mode = "queue" => Kept
    BY <1>8, <2>1, <2>2 DEF Kept, Follows
  <2>. QED BY <1>5, <1>6, <1>8, <1>12, <1>14, <2>2, <2>3
<1>15. CASE u.ask = "Compact"
  <2>1. row' = Compacted(c) /\ cleared' = cleared
    BY <1>1, <1>15 DEF Commanded, u
  <2>2. row' \in Sessions(made) /\ row'.pend = c.pend
    BY <1>2, <2>1, CompactedIs
  <2>3. mode = "queue" => Archived
    BY <1>2, <1>8, <2>1 DEF Archived, Follows
  <2>. QED BY <1>5, <1>6, <1>8, <1>12, <1>15, <2>2, <2>3
<1>16. CASE u.ask = "Note"
  <2>1. row' = [c EXCEPT !.hist = Append(@, t)] /\ cleared' = cleared
    BY <1>1, <1>16 DEF Commanded, u
  <2>2. /\ row' \in Sessions(made) /\ row'.hist = Append(c.hist, t)
        /\ row'.pend = c.pend /\ row'.arch = c.arch
    BY <1>2, <2>1, WithExchange
  <2>3. mode = "queue" => Extended(t)
    BY <1>8, <2>1, <2>2 DEF Extended, Follows
  <2>. QED BY <1>5, <1>6, <1>8, <1>12, <1>16, <2>2, <2>3
<1>. QED BY <1>6, <1>13, <1>14, <1>15, <1>16 DEF Commands

-----------------------------------------------------------------------------
(* What happens beside the requests.                                        *)

LEMMA TitledIs ==
  ASSUME NEW m \in Nat, row \in Sessions(m)
  PROVE  /\ Titled \in Sessions(m) /\ Titled.hist = row.hist /\ Titled.arch = row.arch
         /\ Titled.pend = row.pend
         /\ Titled.title = IF row.title = "default" THEN "auto" ELSE row.title
<1>1. CASE row.title = "default"
  <2>1. Titled = [row EXCEPT !.title = "auto"]
    BY <1>1 DEF Titled
  <2> HIDE DEF Ops
  <2>. QED BY <1>1, <2>1 DEF Sessions, Titles
<1>2. CASE row.title # "default"
  BY <1>2 DEF Titled
<1>. QED BY <1>1, <1>2

LEMMA TitleStep ==
  ASSUME IInv, NEW t \in 1..Turns, TitleArrives(t)
  PROVE  IInv'
<1>1. made \in Nat /\ RestTypes /\ row \in Sessions(made)
  BY Known
<1>2. /\ row' \in {row, Titled} /\ titles' \subseteq titles
      /\ UNCHANGED <<mode, turns, made, expired, ran, cleared, faults>>
  BY DEF TitleArrives, Write, Read
<1>3. /\ row' \in Sessions(made) /\ row'.hist = row.hist /\ row'.arch = row.arch
      /\ row'.pend = row.pend
      /\ row'.title = row.title \/ (row.title = "default" /\ row'.title = "auto")
  BY <1>1, <1>2, TitledIs
<1>4. Types'
  BY <1>1, <1>2, <1>3 DEF IInv, Types, RestTypes
<1>5. LatesFit'
  BY <1>2 DEF IInv, LatesFit, LateFits
<1>6. ASSUME mode = "queue" PROVE (OneByOne /\ RunsFit /\ CopiesFit /\ HistoryFits /\ DropsFit)'
  <2>1. OneByOne /\ RunsFit /\ CopiesFit /\ HistoryFits /\ DropsFit
    BY <1>6 DEF IInv
  <2>2. OneByOne'
    BY <1>2, <2>1 DEF OneByOne
  <2>3. RunsFit'
    BY <1>2, <1>3, <2>1 DEF RunsFit, RunOnce, Unrun, AnyLost
  <2>4. ASSUME NEW v \in 1..Turns PROVE CopyFits(v, turns[v])'
    <3> DEFINE u == turns[v]
               c == u.copy
    <3>1. CopyFits(v, u) /\ turns'[v] = u
      BY <1>2, <2>1 DEF CopiesFit
    <3>2. \A h : Follows(c, h) => Follows(c, h)'
      BY <1>2, <1>3 DEF Follows
    <3>. QED BY <1>2, <1>3, <3>1, ZenonT(40) DEF CopyFits, Follows, MayKeep, Unrun, AnyLost, Claimed
  <2>5. HistoryFits'
    BY <1>2, <1>3, <2>1 DEF HistoryFits, Stored
  <2>6. DropsFit'
    BY <1>2, <1>3, <2>1 DEF DropsFit
  <2>. QED BY <2>2, <2>3, <2>4, <2>5, <2>6 DEF CopiesFit
<1>. QED BY <1>2, <1>4, <1>5, <1>6 DEF IInv

LEMMA ExpireStep ==
  ASSUME IInv, NEW a \in Acts, Expire(a)
  PROVE  IInv'
<1>1. /\ a <= made /\ expired' = expired \cup {a}
      /\ UNCHANGED <<mode, row, turns, titles, made, ran, cleared, faults>>
  BY DEF Expire
<1>2. Types'
  BY <1>1 DEF IInv, Types, RestTypes, Acts
<1>3. LatesFit'
  BY <1>1 DEF IInv, LatesFit, LateFits
<1>4. ASSUME mode = "queue" PROVE (OneByOne /\ RunsFit /\ CopiesFit /\ HistoryFits /\ DropsFit)'
  <2>1. OneByOne /\ RunsFit /\ CopiesFit /\ HistoryFits /\ DropsFit
    BY <1>4 DEF IInv
  <2>2. CopiesFit'
    <3>1. SUFFICES ASSUME NEW v \in 1..Turns PROVE CopyFits(v, turns[v])'
      BY DEF CopiesFit
    <3>2. CopyFits(v, turns[v])
      BY <2>1 DEF CopiesFit
    <3>. QED BY <1>1, <3>2, ZenonT(40) DEF CopyFits, Follows, MayKeep, Unrun, AnyLost, Claimed
  <2>3. RunsFit'
    BY <1>1, <2>1 DEF RunsFit, RunOnce, Unrun, AnyLost
  <2>. QED BY <1>1, <2>1, <2>2, <2>3 DEF OneByOne, HistoryFits, Stored, DropsFit
<1>. QED BY <1>1, <1>2, <1>3, <1>4 DEF IInv

LEMMA CrashStep ==
  ASSUME IInv, Crash
  PROVE  IInv'
<1>1. /\ faults < MaxFaults /\ faults' = faults + 1 /\ titles' = {}
      /\ turns' = [t \in 1..Turns |->
             IF turns[t].pc \in Over \cup {"Idle"} THEN turns[t]
             ELSE Moved(turns[t], "Lost", NewSession)]
      /\ UNCHANGED <<row, mode, made, expired, ran, cleared>>
  BY FaultsLeft DEF Crash, Read, Moved, Over
<1>2. /\ made \in Nat /\ RestTypes /\ turns \in [1..Turns -> Requests(made)]
  BY SessionAssumption DEF IInv, Types, RestTypes
<1>3. ASSUME NEW t \in 1..Turns
      PROVE  /\ turns'[t] \in Requests(made)
             /\ \/ turns'[t] = turns[t] /\ turns[t].pc \in Over \cup {"Idle"}
                \/ /\ turns[t].pc \notin Over \cup {"Idle"}
                   /\ turns'[t].pc = "Lost" /\ turns'[t].late = turns[t].late
  <2>1. turns[t] \in Requests(made) /\ NewSession \in Sessions(made) /\ "Lost" \in Steps
    BY <1>2, NewTypes, BusyIs
  <2> HIDE DEF Requests, Sessions
  <2>2. CASE turns[t].pc \in Over \cup {"Idle"}
    BY <1>1, <2>1, <2>2
  <2>3. CASE turns[t].pc \notin Over \cup {"Idle"}
    <3>1. turns'[t] = Moved(turns[t], "Lost", NewSession)
      BY <1>1, <2>3
    <3>. QED BY <1>2, <2>1, <2>3, <3>1, MovedIs
  <2>. QED BY <2>2, <2>3
<1>4. Types'
  <2>1. turns' \in [1..Turns -> Requests(made)]
    BY <1>1, <1>3
  <2>2. RestTypes'
    BY <1>1, <1>2, SessionAssumption DEF RestTypes
  <2>. QED BY <1>1, <2>1, <2>2 DEF Types
<1>5. LatesFit'
  <2>1. SUFFICES ASSUME NEW t \in 1..Turns PROVE LateFits(turns[t])'
    BY DEF LatesFit
  <2>2. LateFits(turns[t])
    BY DEF IInv, LatesFit
  <2>3. "Lost" \in Over
    BY BusyIs
  <2>. QED BY <1>1, <1>3, <2>2, <2>3 DEF LateFits
<1>6. ASSUME mode = "queue" PROVE (OneByOne /\ RunsFit /\ CopiesFit /\ HistoryFits /\ DropsFit)'
  <2>1. OneByOne /\ RunsFit /\ CopiesFit /\ HistoryFits /\ DropsFit
    BY <1>6 DEF IInv
  <2>2. \A t \in 1..Turns : /\ turns'[t].pc \in Over \cup {"Idle"}
                            /\ turns'[t].pc = "Idle" <=> turns[t].pc = "Idle"
                            /\ turns[t].pc \in Over => turns'[t].pc \in Over
    BY <1>3, BusyIs
  <2>3. OneByOne'
    BY <2>1, <2>2 DEF OneByOne
  <2>4. RunsFit'
    <3>1. \A t \in 1..Turns : turns[t].pc = "Lost" \/ turns[t].pc \in Executing => turns'[t].pc = "Lost"
      BY <1>3 DEF Executing, Over
    <3>. QED BY <1>1, <2>1, <3>1 DEF RunsFit, RunOnce, Unrun, AnyLost
  <2>5. CopiesFit'
    BY <2>2 DEF CopiesFit, CopyFits, Over
  <2>6. HistoryFits'
    <3>1. Stored' = Stored
      BY <1>3, BusyIs DEF Stored
    <3>. QED BY <1>1, <2>1, <3>1 DEF HistoryFits
  <2>7. DropsFit'
    <3>1. \A t \in 1..Turns : turns'[t].pc \in {"Saved", "Done"} => turns'[t] = turns[t]
      BY <1>3
    <3>. QED BY <1>1, <2>1, <3>1 DEF DropsFit
  <2>. QED BY <2>3, <2>4, <2>5, <2>6, <2>7
<1>. QED BY <1>1, <1>4, <1>5, <1>6 DEF IInv

-----------------------------------------------------------------------------
(* The invariant holds.                                                     *)

LEMMA InitIInv == ASSUME Init PROVE IInv
<1>1. /\ row = NewSession /\ turns = [t \in 1..Turns |-> NotYet] /\ made = 0 /\ expired = {}
      /\ titles = {} /\ cleared = {} /\ faults = 0 /\ mode \in Modes
      /\ ran = [a \in Acts |-> 0]
  BY DEF Init
<1>2. NewSession \in Sessions(0) /\ NoPending \in Ops(0)
  BY NewTypes
<1>3. NotYet \in Requests(0) /\ NotYet.pc = "Idle" /\ NotYet.late = 0
  BY <1>2 DEF NotYet, Requests, Steps
<1>4. Types
  <2>1. turns \in [1..Turns -> Requests(made)]
    <3> HIDE DEF Requests, NotYet
    <3>. QED BY <1>1, <1>3
  <2>2. ran \in [Acts -> Nat]
    BY <1>1, SessionAssumption
  <2>. QED BY <1>1, <1>2, <2>1, <2>2, SessionAssumption DEF Types, RestTypes
<1>5. \A t \in 1..Turns : turns[t].pc = "Idle" /\ turns[t].late = 0
  BY <1>1, <1>3
<1>6. LatesFit
  BY <1>5 DEF LatesFit, LateFits
<1>7. OneByOne /\ CopiesFit /\ DropsFit
  BY <1>5 DEF OneByOne, CopiesFit, CopyFits, DropsFit
<1>8. row.hist = <<>> /\ row.arch = {} /\ row.pend.state = "none" /\ row.pend.kind = "none"
  BY <1>1 DEF NewSession, NoPending
<1>9. RunsFit
  BY <1>1, <1>8 DEF RunsFit, RunOnce, Unrun
<1>10. HistoryFits
  <2>1. Stored = {} /\ ToSet(<<>>) = {} /\ Increasing(<<>>)
    BY <1>5 DEF Stored, ToSet, Increasing
  <2>. QED BY <1>8, <2>1 DEF HistoryFits
<1>. QED BY <1>4, <1>6, <1>7, <1>9, <1>10 DEF IInv

LEMMA StepIInv == ASSUME IInv, [Next]_vars PROVE IInv'
<1>1. CASE UNCHANGED vars
  <2> USE DEF vars
  <2>1. Types' /\ LatesFit'
    BY <1>1 DEF IInv, Types, RestTypes, LatesFit, LateFits
  <2>2. ASSUME mode = "queue" PROVE (OneByOne /\ RunsFit /\ CopiesFit /\ HistoryFits /\ DropsFit)'
    <3>1. OneByOne /\ RunsFit /\ CopiesFit /\ HistoryFits /\ DropsFit
      BY <2>2 DEF IInv
    <3>2. CopiesFit'
      <4>1. SUFFICES ASSUME NEW v \in 1..Turns PROVE CopyFits(v, turns[v])'
        BY DEF CopiesFit
      <4>2. CopyFits(v, turns[v])
        BY <3>1 DEF CopiesFit
      <4>. QED BY <1>1, <4>2, ZenonT(40) DEF CopyFits, Follows, MayKeep, Unrun, AnyLost, Claimed
    <3>3. (OneByOne /\ RunsFit /\ HistoryFits /\ DropsFit)'
      BY <1>1, <3>1 DEF OneByOne, RunsFit, RunOnce, Unrun, AnyLost, HistoryFits, Stored, DropsFit
    <3>. QED BY <3>2, <3>3
  <2>. QED BY <1>1, <2>1, <2>2 DEF IInv
<1>2. ASSUME NEW t \in 1..Turns, Turn(t) PROVE IInv'
  <2>1. CASE \E ask \in Asks : Receive(t, ask)
    BY <2>1, ReceiveStep
  <2>2. CASE ReadCommand(t) \/ WriteCommand(t) \/ CommandFails(t)
    BY <2>2, ReadCommandStep, WriteCommandStep, CommandFailsStep
  <2>3. CASE HandlePending(t) \/ Claim(t) \/ RunDelete(t) \/ MarkFailed(t)
    BY <2>3, HandlePendingStep, ClaimStep, RunDeleteStep, MarkFailedStep
  <2>4. CASE AppendToLatest(t) \/ SaveAnswer(t) \/ CompactIfCurrent(t) \/ ModelAnswers(t)
    BY <2>4, AppendToLatestStep, SaveAnswerStep, CompactStep, AnswersStep
  <2>5. CASE StartTool(t) \/ ChatTool(t) \/ AnswerTool(t) \/ ClearQuestion(t) \/ AgentAnswers(t)
    BY <2>5, StartToolStep, ChatToolStep, AnswerToolStep, ClearQuestionStep, AnswersStep
  <2>6. CASE Settle(t) \/ ModelFails(t) \/ SaveChat(t) \/ TitleArrives(t) \/ TimesOut(t)
    BY <2>6, SettleStep, ModelFailsStep, SaveChatStep, TitleStep, TimesOutStep
  <2>. QED BY <1>2, <2>1, <2>2, <2>3, <2>4, <2>5, <2>6 DEF Turn
<1>. QED BY <1>1, <1>2, ExpireStep, CrashStep DEF Next

LEMMA Invariance == Spec => []IInv
BY InitIInv, StepIInv, PTL DEF Spec

-----------------------------------------------------------------------------
(* The theorems.                                                            *)

(* Where the gateway hands a conversation's messages on one at a time,      *)
(* nothing stays in execution unless the request that carries it out is     *)
(* under way or was lost (the claim of storage/session, and the steps of    *)
(* the pending lifecycle that end it); and the state is well-typed.         *)
THEOREM NothingStaysRunning == Spec => []NothingIsLeftRunning
<1>1. IInv => NothingIsLeftRunning
  <2>1. SUFFICES ASSUME IInv PROVE NothingIsLeftRunning
    OBVIOUS
  <2>2. RestTypes /\ row \in Sessions(made) /\ made \in Nat
    BY <2>1, SessionAssumption DEF IInv, Types, RestTypes
  <2>3. TypeOK
    <3>1. row.hist \in Seq(1..Turns) /\ row.arch \subseteq 1..Turns /\ row.title \in Titles
          /\ row.pend.act \in 0..made
          /\ row.pend.state \in {"none", "Waiting", "Executing", "Failed"}
      BY <2>2 DEF Sessions, Ops
    <3>2. ToSet(row.hist) \subseteq 1..Turns
      BY <3>1, ElementsIn
    <3>. QED BY <2>2, <3>1, <3>2 DEF TypeOK, RestTypes, Titles
  <2>4. ASSUME mode = "queue", row.pend.state = "Executing"
        PROVE  \E t \in 1..Turns :
                   turns[t].pc = "Lost" \/ (turns[t].pc \notin Over /\ turns[t].act = row.pend.act)
    <3>1. CASE AnyLost
      BY <3>1 DEF AnyLost
    <3>2. CASE ~AnyLost
      <4>1. PICK t \in 1..Turns : turns[t].pc \in Executing /\ turns[t].act = row.pend.act
        BY <2>1, <2>4, <3>2 DEF IInv, RunsFit
      <4>. QED BY <4>1, BusyIs
    <3>. QED BY <3>1, <3>2
  <2>. QED BY <2>3, <2>4 DEF NothingIsLeftRunning
<1>. QED BY <1>1, Invariance, PTL

(* There, a deletion the user confirmed is carried out once at most and a   *)
(* question closed once, whatever fails between the claim, the deed and the *)
(* note that it is done, and however many tools the model calls; and what   *)
(* has been carried out or closed never waits for another answer.           *)
THEOREM ConfirmedStaysOnce == Spec => []ConfirmedRunsOnce
<1>1. ASSUME IInv, mode = "queue"
      PROVE  ExecutedOnce /\ (row.pend.state = "Waiting" => ran[row.pend.act] = 0)
  BY <1>1 DEF IInv, RunsFit, RunOnce, Unrun, ExecutedOnce
<1>2. IInv => ConfirmedRunsOnce
  BY <1>1 DEF ConfirmedRunsOnce
<1>. QED BY <1>2, Invariance, PTL

(* There, the history and the archive keep every stored exchange, once and  *)
(* in order, until it is cleared.                                           *)
THEOREM HistoryStays == Spec => []HistoryIsKept
<1>1. IInv => HistoryIsKept
  BY DEF IInv, HistoryFits, Stored, Increasing, HistoryIsKept
<1>. QED BY <1>1, Invariance, PTL

(* There, what has expired is gone when the request that found it has been  *)
(* answered, unless that was an instant command that looks past it; and no  *)
(* later request, of any kind, brings it back.                              *)
THEOREM ExpiredStaysDropped == Spec => []ExpiredIsDropped
<1>1. IInv => ExpiredIsDropped
  BY DEF IInv, DropsFit, ExpiredIsDropped
<1>. QED BY <1>1, Invariance, PTL

(* However requests overlap, an automatic compaction made of a copy that is *)
(* no longer the row changes nothing, and one that is current loses nothing *)
(* (the comparison of compact_history_if_current; /compact has none, and    *)
(* nothing is claimed of it); and where messages queue, no copy written     *)
(* back, by a chat, a tool, a command or a title task, replaces a name the  *)
(* user gave.                                                               *)
THEOREM LateWritesStayHarmless == Spec => LateWritesTakeNothing
<1> DEFINE Compacting(t) ==
             CompactIfCurrent(t) =>
                 /\ ToSet(row'.hist) \cup row'.arch = ToSet(row.hist) \cup row.arch
                 /\ row'.title = row.title /\ row'.pend = row.pend
           Naming == mode = "queue" /\ row.title = "manual" => row'.title = "manual"
<1>1. ASSUME IInv, NEW t \in 1..Turns PROVE Compacting(t)
  <2>1. made \in Nat /\ row \in Sessions(made)
    BY <1>1, Known
  <2>2. CompactIfCurrent(t) => row' = row \/ row' = Compacted(row)
    BY DEF CompactIfCurrent, StillCurrent, Write, Read
  <2>. QED BY <2>1, <2>2, CompactedIs
<1>2. ASSUME IInv, [Next]_vars PROVE Naming
  <2>1. SUFFICES ASSUME mode = "queue", row.title = "manual" PROVE row'.title = "manual"
    OBVIOUS
  <2>2. ASSUME NEW t \in 1..Turns, Turn(t) PROVE row'.title = "manual"
    <3> DEFINE u == turns[t]
               c == u.copy
    <3>1. /\ made \in Nat /\ row \in Sessions(made) /\ row.pend \in Ops(made)
          /\ c \in Sessions(made) /\ c.pend \in Ops(made) /\ LateFits(u) /\ CopyFits(t, u)
      BY <1>2, <2>1, Known
    <3>2. u.pc \in {"Writing", "Compacting", "Tool", "Carried", "SavingChat", "Saving"} =>
              c.title = "manual"
      <4> HIDE DEF u
      <4>. QED BY <2>1, <3>1 DEF CopyFits, Follows, c
    <3>3. CASE WriteCommand(t)
      <4>1. c.title = "manual" /\ row' = Commanded(t, c) /\ u.ask \in Commands
        BY <3>1, <3>2, <3>3 DEF WriteCommand, Write, At, Copy, LateFits
      <4> HIDE DEF u, c
      <4>2. CASE u.ask = "Clear"
        BY <3>1, <4>1, <4>2 DEF Commanded, Sessions, u
      <4>3. CASE u.ask = "Rename"
        BY <3>1, <4>1, <4>3 DEF Commanded, Sessions, u
      <4>4. CASE u.ask = "Compact"
        BY <3>1, <4>1, <4>4, CompactedIs DEF Commanded, u
      <4>5. CASE u.ask = "Note"
        <5>1. row' = [c EXCEPT !.hist = Append(@, t)]
          BY <4>1, <4>5 DEF Commanded, u
        <5>. QED BY <3>1, <4>1, <5>1, WithExchange
      <4>. QED BY <4>1, <4>2, <4>3, <4>4, <4>5 DEF Commands
    <3>4. CASE Claim(t) \/ MarkFailed(t)
      <4>1. row' = row \/ row' = [row EXCEPT !.pend = Begun(@)] \/ row' = [row EXCEPT !.pend = Failure(@)]
        BY <3>4 DEF Claim, MarkFailed, Write, Read
      <4>. QED BY <2>1, <3>1, <4>1 DEF Sessions
    <3>5. CASE SaveAnswer(t) \/ SaveChat(t)
      BY <3>2, <3>5 DEF SaveAnswer, SaveChat, Write, At, Copy
    <3>6. CASE CompactIfCurrent(t)
      BY <1>1, <1>2, <2>1, <3>6
    <3>7. CASE ChatTool(t) \/ AnswerTool(t)
      <4>1. c.title = "manual"
        BY <3>2, <3>7 DEF ChatTool, AnswerTool, At
      <4>2. row' = row \/ \E p : row' = [c EXCEPT !.pend = p]
        BY <3>7 DEF ChatTool, AnswerTool, Prepare, Write, Read, Copy
      <4> HIDE DEF c
      <4>. QED BY <2>1, <3>1, <4>1, <4>2 DEF Sessions
    <3>8. CASE ClearQuestion(t)
      <4>1. c.title = "manual"
        BY <3>2, <3>8 DEF ClearQuestion, At
      <4>2. row' = row \/ row' = c \/ row' = [c EXCEPT !.pend = NoPending]
        BY <3>8 DEF ClearQuestion, Write, Read, Copy
      <4> HIDE DEF c
      <4>. QED BY <2>1, <3>1, <4>1, <4>2 DEF Sessions
    <3>9. CASE TitleArrives(t)
      BY <2>1, <3>9 DEF TitleArrives, Titled, Write, Read
    <3>10. CASE \/ \E ask \in Asks : Receive(t, ask)
                \/ ReadCommand(t) \/ CommandFails(t) \/ HandlePending(t) \/ RunDelete(t)
                \/ AppendToLatest(t) \/ ModelAnswers(t) \/ StartTool(t) \/ AgentAnswers(t)
                \/ Settle(t) \/ ModelFails(t) \/ TimesOut(t)
      BY <2>1, <3>10 DEF Receive, ReadCommand, CommandFails, HandlePending, RunDelete,
           AppendToLatest, ModelAnswers, StartTool, AgentAnswers, Settle, ModelFails, TimesOut, Read
    <3>. QED BY <2>2, <3>3, <3>4, <3>5, <3>6, <3>7, <3>8, <3>9, <3>10 DEF Turn
  <2>. QED BY <1>2, <2>1, <2>2 DEF Next, Expire, Crash, Read, vars
<1>3. IInv /\ [Next]_vars => [\A t \in 1..Turns : Compacting(t)]_vars /\ [Naming]_vars
  BY <1>1, <1>2
<1>. QED BY <1>3, Invariance, PTL DEF Spec, LateWritesTakeNothing, AutoCompactionLosesNothing,
         NamedStaysNamed
=============================================================================

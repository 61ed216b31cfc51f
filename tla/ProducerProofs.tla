--------------------------- MODULE ProducerProofs ---------------------------
(***************************************************************************)
(* Theorems about the two producers of notifications that keep a table of  *)
(* their own in step with the outbox: RssScheduler, for any entries,       *)
(* retention, limit and bounds, and, in the second part, TodoReminder, for *)
(* any todos, conversations, period and bounds.                            *)
(*                                                                         *)
(* Without is a recursive function; that it keeps types, what it leaves and *)
(* how long it is are proved by the least number for which they fail        *)
(* (LeastNumber), the library's induction being out of the provers' reach. *)
(***************************************************************************)
EXTENDS RssScheduler, TodoReminder, SequenceTheorems, FiniteSetTheorems,
        WellFoundedInduction, TLAPS

(* Every set of naturals that is not empty has a least member.              *)
LEMMA LeastNumber ==
  ASSUME NEW T, T \subseteq Nat, T # {}
  PROVE  \E n \in T : \A m \in T : n <= m
<1>1. IsWellFoundedOn(OpToRel(<, Nat), Nat)
  BY NatLessThanWellFounded
<1>2. PICK n \in T : \A m \in T : ~ (<<m, n>> \in OpToRel(<, Nat))
  BY <1>1, WFMin, Zenon
<1>3. \A m \in T : ~ (m < n)
  BY <1>2 DEF OpToRel
<1>4. ASSUME NEW m \in T PROVE n <= m
  <2>1. ~ (m < n) /\ m \in Nat /\ n \in Nat
    BY <1>3
  <2>. QED BY <2>1
<1>. QED BY <1>4

(***************************************************************************)
(* Without.                                                                 *)
(***************************************************************************)
KeptBy(f, q, S, n) ==
    f[n] = IF n = 0 THEN <<>>
           ELSE IF q[n] \in S THEN f[n - 1] ELSE Append(f[n - 1], q[n])

(* Up to every length there is a function that computes it.                 *)
LEMMA KeptExists ==
  ASSUME NEW E, NEW q \in Seq(E), NEW S
  PROVE  \A n \in 0..Len(q) :
           \E f \in [0..n -> Seq(E)] : \A m \in 0..n : KeptBy(f, q, S, m)
<1> DEFINE Good(n) == \E f \in [0..n -> Seq(E)] : \A m \in 0..n : KeptBy(f, q, S, m)
           Bad == {n \in 0..Len(q) : ~Good(n)}
<1>1. SUFFICES ASSUME Bad # {} PROVE FALSE
  OBVIOUS
<1>2. PICK n \in Bad : \A m \in Bad : n <= m
  <2>1. Bad \subseteq Nat
    BY LenProperties
  <2>. QED BY <2>1, <1>1, LeastNumber, Zenon
<1>3. n \in 0..Len(q) /\ ~Good(n) /\ Len(q) \in Nat
  BY <1>2, LenProperties
<1>4. CASE n = 0
  <2>1. [m \in 0..0 |-> <<>>] \in [0..0 -> Seq(E)]
    OBVIOUS
  <2>2. \A m \in 0..0 : KeptBy([k \in 0..0 |-> <<>>], q, S, m)
    BY DEF KeptBy
  <2>. QED BY <2>1, <2>2, <1>3, <1>4
<1>5. CASE n # 0
  <2>1. n - 1 \in 0..Len(q) /\ n \in 1..Len(q) /\ ~ (n <= n - 1)
    BY <1>3, <1>5
  <2>2. Good(n - 1)
    <3> HIDE DEF Good
    <3>. QED BY <2>1, <1>2
  <2>3. PICK f \in [0..(n - 1) -> Seq(E)] : \A m \in 0..(n - 1) : KeptBy(f, q, S, m)
    BY <2>2
  <2> DEFINE v == IF q[n] \in S THEN f[n - 1] ELSE Append(f[n - 1], q[n])
             g == [m \in 0..n |-> IF m = n THEN v ELSE f[m]]
  <2>4. f[n - 1] \in Seq(E) /\ q[n] \in E
    BY <2>1, <2>3, ElementOfSeq
  <2>5. v \in Seq(E)
    BY <2>4, AppendProperties
  <2>6. g \in [0..n -> Seq(E)]
    BY <2>5, <2>3, <2>1
  <2>7. ASSUME NEW m \in 0..n PROVE KeptBy(g, q, S, m)
    <3>1. CASE m = n
      <4>1. g[n] = v /\ g[n - 1] = f[n - 1]
        BY <2>1
      <4>. QED BY <4>1, <3>1, <1>5 DEF KeptBy
    <3>2. CASE m # n
      <4>1. m \in 0..(n - 1) /\ g[m] = f[m] /\ KeptBy(f, q, S, m)
        BY <3>2, <2>1, <2>3
      <4>2. m # 0 => g[m - 1] = f[m - 1]
        BY <3>2, <2>1
      <4>. QED BY <4>1, <4>2 DEF KeptBy
    <3>. QED BY <3>1, <3>2
  <2>. QED BY <2>6, <2>7, <1>3
<1>. QED BY <1>4, <1>5

(* So Without is what this function has reached at the end.                 *)
LEMMA WithoutIs ==
  ASSUME NEW E, NEW q \in Seq(E), NEW S
  PROVE  \E f : /\ \A n \in 0..Len(q) : KeptBy(f, q, S, n)
                /\ Without(q, S) = f[Len(q)]
<1> DEFINE G(f) == [n \in 0..Len(q) |->
                      IF n = 0 THEN <<>>
                      ELSE IF q[n] \in S THEN f[n - 1] ELSE Append(f[n - 1], q[n])]
           kept == CHOOSE f : f = G(f)
<1>1. Len(q) \in 0..Len(q)
  BY LenProperties
<1>2. PICK f \in [0..Len(q) -> Seq(E)] : \A m \in 0..Len(q) : KeptBy(f, q, S, m)
  BY <1>1, KeptExists
<1>3. f = G(f)
  BY <1>2 DEF KeptBy
<1>4. kept = G(kept)
  BY <1>3
<1>5. \A n \in 0..Len(q) : KeptBy(kept, q, S, n)
  <2> HIDE DEF kept
  <2>. QED BY <1>4 DEF KeptBy
<1>6. Without(q, S) = kept[Len(q)]
  BY DEF Without
<1>. QED BY <1>5, <1>6

(* What the function has kept of the first n.                               *)
Kept(s, q, E, S, n) ==
    /\ s \in Seq(E) /\ Len(s) <= n
    /\ \A k \in 1..Len(s) : s[k] \notin S /\ \E j \in 1..n : q[j] = s[k]
    /\ \A j \in 1..n : q[j] \notin S => \E k \in 1..Len(s) : s[k] = q[j]
    /\ IsInjective(q) => IsInjective(s)

LEMMA KeepsOne ==
  ASSUME NEW E, NEW q \in Seq(E), NEW S, NEW n \in 1..Len(q), NEW s,
         Kept(s, q, E, S, n - 1), q[n] \notin S
  PROVE  Kept(Append(s, q[n]), q, E, S, n)
<1> DEFINE t == Append(s, q[n])
<1>1. q[n] \in E /\ s \in Seq(E) /\ n \in Nat /\ Len(q) \in Nat /\ Len(s) \in Nat
  BY ElementOfSeq, LenProperties DEF Kept
<1>2. t \in Seq(E) /\ Len(t) = Len(s) + 1 /\ t[Len(s) + 1] = q[n]
      /\ \A k \in 1..Len(s) : t[k] = s[k]
  BY <1>1, AppendProperties
<1> HIDE DEF t
<1>3. Len(t) <= n
  BY <1>1, <1>2 DEF Kept
<1>4. ASSUME NEW k \in 1..Len(t) PROVE t[k] \notin S /\ \E j \in 1..n : q[j] = t[k]
  <2>1. CASE k = Len(s) + 1
    BY <2>1, <1>1, <1>2
  <2>2. CASE k # Len(s) + 1
    <3>1. k \in 1..Len(s) /\ t[k] = s[k]
      BY <2>2, <1>1, <1>2
    <3>2. PICK j \in 1..(n - 1) : q[j] = s[k]
      BY <3>1 DEF Kept
    <3>3. j \in 1..n
      BY <1>1
    <3>. QED BY <3>1, <3>2, <3>3 DEF Kept
  <2>. QED BY <2>1, <2>2
<1>5. ASSUME NEW j \in 1..n, q[j] \notin S PROVE \E k \in 1..Len(t) : t[k] = q[j]
  <2>1. CASE j = n
    <3>1. Len(s) + 1 \in 1..Len(t)
      BY <1>1, <1>2
    <3>. QED BY <3>1, <2>1, <1>2
  <2>2. CASE j # n
    <3>1. j \in 1..(n - 1)
      BY <2>2, <1>1
    <3>2. PICK k \in 1..Len(s) : s[k] = q[j]
      BY <3>1, <1>5 DEF Kept
    <3>3. k \in 1..Len(t)
      BY <1>1, <1>2
    <3>. QED BY <3>2, <3>3, <1>2
  <2>. QED BY <2>1, <2>2
<1>6. ASSUME IsInjective(q) PROVE IsInjective(t)
  <2>1. DOMAIN t = 1..Len(t) /\ DOMAIN s = 1..Len(s) /\ DOMAIN q = 1..Len(q)
    BY <1>1, <1>2, LenProperties
  <2>2. \A k \in 1..Len(s) : s[k] # q[n]
    <3>1. SUFFICES ASSUME NEW k \in 1..Len(s), s[k] = q[n] PROVE FALSE
      OBVIOUS
    <3>2. PICK j \in 1..(n - 1) : q[j] = s[k]
      BY DEF Kept
    <3>3. j \in 1..Len(q) /\ j # n
      BY <1>1
    <3>. QED BY <3>1, <3>2, <3>3, <1>6, <2>1 DEF IsInjective
  <2>3. IsInjective(s)
    BY <1>6 DEF Kept
  <2>4. ASSUME NEW a \in 1..Len(t), NEW b \in 1..Len(t), t[a] = t[b] PROVE a = b
    <3>1. a # Len(s) + 1 => a \in 1..Len(s) /\ t[a] = s[a]
      BY <1>1, <1>2
    <3>2. b # Len(s) + 1 => b \in 1..Len(s) /\ t[b] = s[b]
      BY <1>1, <1>2
    <3>. QED BY <3>1, <3>2, <2>4, <2>2, <2>3, <2>1, <1>2 DEF IsInjective
  <2>. QED BY <2>4, <2>1 DEF IsInjective
<1>7. Kept(t, q, E, S, n)
  BY <1>2, <1>3, <1>4, <1>5, <1>6 DEF Kept
<1>. QED BY <1>7 DEF t

LEMMA DropsOne ==
  ASSUME NEW E, NEW q \in Seq(E), NEW S, NEW n \in 1..Len(q), NEW s,
         Kept(s, q, E, S, n - 1), q[n] \in S
  PROVE  Kept(s, q, E, S, n)
<1>1. n \in Nat /\ s \in Seq(E) /\ Len(s) \in Nat
  BY LenProperties DEF Kept
<1>2. \A j \in 1..(n - 1) : j \in 1..n
  BY <1>1
<1>3. \A j \in 1..n : j # n => j \in 1..(n - 1)
  BY <1>1
<1>4. Len(s) <= n
  BY <1>1 DEF Kept
<1>. QED BY <1>1, <1>2, <1>3, <1>4 DEF Kept

(* Without(q, S) has exactly the members of q that are not in S, each as    *)
(* often as q if q has none twice, and is no longer than q.                 *)
LEMMA WithoutProperties ==
  ASSUME NEW E, NEW q \in Seq(E), NEW S
  PROVE  /\ Without(q, S) \in Seq(E)
         /\ Len(Without(q, S)) <= Len(q)
         /\ ToSet(Without(q, S)) = ToSet(q) \ S
         /\ IsInjective(q) => IsInjective(Without(q, S))
<1>1. PICK f : /\ \A n \in 0..Len(q) : KeptBy(f, q, S, n)
               /\ Without(q, S) = f[Len(q)]
  BY WithoutIs
<1> DEFINE Good(n) == Kept(f[n], q, E, S, n)
           Bad == {n \in 0..Len(q) : ~Good(n)}
<1>2. Bad = {}
  <2>1. SUFFICES ASSUME Bad # {} PROVE FALSE
    OBVIOUS
  <2>2. Bad \subseteq Nat
    BY LenProperties
  <2>3. PICK n \in Bad : \A m \in Bad : n <= m
    BY <2>1, <2>2, LeastNumber, Zenon
  <2>4. n \in 0..Len(q) /\ ~Good(n) /\ Len(q) \in Nat
    BY <2>3, LenProperties
  <2>5. CASE n = 0
    <3>1. f[0] = <<>>
      BY <1>1, <2>4, <2>5 DEF KeptBy
    <3>2. Kept(<<>>, q, E, S, 0)
      BY DEF Kept, IsInjective
    <3>. QED BY <3>1, <3>2, <2>4, <2>5
  <2>6. CASE n # 0
    <3>1. n - 1 \in 0..Len(q) /\ n \in 1..Len(q) /\ ~ (n <= n - 1)
      BY <2>4, <2>6
    <3>2. Good(n - 1)
      <4> HIDE DEF Good
      <4>. QED BY <3>1, <2>3
    <3>3. KeptBy(f, q, S, n)
      BY <1>1, <2>4
    <3>4. CASE q[n] \in S
      <4>1. f[n] = f[n - 1]
        BY <3>3, <3>4, <2>6 DEF KeptBy
      <4>2. Kept(f[n - 1], q, E, S, n)
        BY <3>1, <3>2, <3>4, DropsOne
      <4>. QED BY <4>1, <4>2, <2>4
    <3>5. CASE q[n] \notin S
      <4>1. f[n] = Append(f[n - 1], q[n])
        BY <3>3, <3>5, <2>6 DEF KeptBy
      <4>2. Kept(Append(f[n - 1], q[n]), q, E, S, n)
        BY <3>1, <3>2, <3>5, KeepsOne
      <4>. QED BY <4>1, <4>2, <2>4
    <3>. QED BY <3>4, <3>5
  <2>. QED BY <2>5, <2>6
<1> DEFINE w == Without(q, S)
<1>3. Kept(w, q, E, S, Len(q))
  <2>1. Len(q) \in 0..Len(q)
    BY LenProperties
  <2>. QED BY <2>1, <1>1, <1>2
<1> HIDE DEF w
<1>4. ToSet(w) = ToSet(q) \ S
  <2>1. DOMAIN w = 1..Len(w) /\ DOMAIN q = 1..Len(q)
    BY <1>3, LenProperties DEF Kept
  <2>. QED BY <2>1, <1>3 DEF Kept, ToSet
<1>5. w \in Seq(E) /\ Len(w) <= Len(q) /\ (IsInjective(q) => IsInjective(w))
  BY <1>3 DEF Kept
<1>. QED BY <1>4, <1>5 DEF w

-----------------------------------------------------------------------------
(* The inductive invariant.                                                 *)

Types ==
    /\ feed \in [Items -> Entry \cup {None}] /\ row \in [Items -> Entry \cup {None}]
    /\ edits \in 0..MaxEdits /\ faults \in 0..MaxFaults
    /\ sub \in 0..MaxSubs /\ last \in 0..MaxSubs
    /\ seen \in Seq(Items) /\ IsInjective(seen)
    /\ scan \in [pc : {"idle", "check", "load", "push", "mark"}, sub : 0..MaxSubs,
                 queue : Seq([item : Items, rev : 1..MaxRev])]
    /\ asked \subseteq Items \X (1..MaxRev)
    /\ known \subseteq Items \X (1..MaxRev)
    /\ past \subseteq Items

(* The id of a subscription is never given again, so that a scan of one     *)
(* that has gone is never taken for a scan of its successor.                *)
IdsFit ==
    /\ sub <= last
    /\ scan.pc # "idle" => scan.sub \in 1..last

TableFits ==
    /\ ToSet(seen) \subseteq Has(row)
    /\ sub = 0 => Has(row) = {}

(* What a scan has in its queue is what is stored, as long as its           *)
(* subscription lives; at the mark the notification has been asked for.     *)
Alive == scan.sub = sub
QueueFits ==
    /\ scan.pc \in {"push", "mark"} => scan.queue # <<>>
    /\ Alive /\ scan.pc \in {"push", "mark"} =>
           \A n \in 1..Len(scan.queue) : row[scan.queue[n].item].rev = scan.queue[n].rev
    /\ Alive /\ scan.pc = "mark" => Key \in asked

(* What a scan will yet push has room.                                      *)
RoomFits ==
    Retain > 0 =>
        /\ Len(seen) <= Retain + Limit
        /\ Alive /\ scan.pc = "load" => Len(seen) <= Retain
        /\ Alive /\ scan.pc \in {"push", "mark"} =>
               Len(seen) + Len(scan.queue) <= Retain + Limit

IInv == /\ Types /\ IdsFit /\ TableFits /\ QueueFits /\ RoomFits /\ PushedIsAsked

-----------------------------------------------------------------------------
(* The other operators.                                                     *)

LEMMA HasRows ==
  ASSUME NEW table \in [Items -> Entry \cup {None}]
  PROVE  /\ Has(table) \subseteq Items
         /\ \A i \in Has(table) : table[i] \in Entry
         /\ IsFiniteSet(Has(table))
<1>1. Has(table) \in SUBSET Items
  BY DEF Has
<1>2. IsFiniteSet(Has(table))
  BY <1>1, FS_Subset, RssAssumption
<1>. QED BY <1>1, <1>2 DEF Has

(* An order of a finite set has every member of it once.                    *)
LEMMA OrdersProperties ==
  ASSUME NEW S, IsFiniteSet(S), NEW q \in Orders(S)
  PROVE  q \in Seq(S) /\ ToSet(q) = S /\ IsInjective(q)
<1>1. Cardinality(S) \in Nat
  BY FS_CardinalityType
<1> DEFINE N == 1..Cardinality(S)
<1>2. q \in [N -> S] /\ ToSet(q) = S /\ DOMAIN q = N
  BY DEF Orders
<1>3. q \in Seq(S)
  BY <1>1, <1>2
<1>4. IsFiniteSet(N) /\ Cardinality(N) = Cardinality(S)
  <2>1. Cardinality(N) = IF 1 > Cardinality(S) THEN 0 ELSE Cardinality(S) - 1 + 1
    BY <1>1, FS_Interval
  <2>. QED BY <2>1, <1>1, FS_Interval
<1>5. q \in Surjection(N, S)
  <2>1. \A s \in S : \E n \in N : q[n] = s
    BY <1>2 DEF ToSet
  <2>. QED BY <2>1, <1>2 DEF Surjection
<1>6. q \in Injection(N, S)
  BY <1>4, <1>5, FS_SurjSameCardinalityImpliesInj
<1>7. \A a, b \in N : q[a] = q[b] => a = b
  BY <1>6 DEF Injection, IsInjective
<1>. QED BY <1>2, <1>3, <1>7 DEF IsInjective

LEMMA KeepLastProperties ==
  ASSUME NEW q \in Seq(Items), IsInjective(q)
  PROVE  /\ KeepLast(q) \in Seq(Items) /\ IsInjective(KeepLast(q))
         /\ ToSet(KeepLast(q)) \subseteq ToSet(q)
         /\ Len(KeepLast(q)) <= Len(q)
         /\ Retain > 0 => Len(KeepLast(q)) <= Retain
<1>1. Len(q) \in Nat /\ Retain \in Nat /\ DOMAIN q = 1..Len(q)
  BY LenProperties, RssAssumption
<1>2. CASE Retain = 0 \/ Len(q) <= Retain
  BY <1>1, <1>2 DEF KeepLast
<1>3. CASE ~ (Retain = 0 \/ Len(q) <= Retain)
  <2> DEFINE b == Len(q) - Retain
             w == SubSeq(q, b + 1, Len(q))
  <2>1. b \in Nat /\ b + 1 \in 1..Len(q) /\ Len(q) \in 1..Len(q)
    BY <1>1, <1>3
  <2>2. w \in Seq(Items) /\ Len(w) = Retain /\ \A n \in 1..Retain : w[n] = q[b + n]
    <3>1. Len(q) - (b + 1) + 1 = Retain /\ \A n \in Int : (b + 1) + n - 1 = b + n
      BY <1>1
    <3>2. w = [n \in 1..(Len(q) - (b + 1) + 1) |-> q[(b + 1) + n - 1]]
      BY <2>1, <1>1
    <3>3. \A n \in 1..Retain : b + n \in 1..Len(q)
      BY <1>1, <2>1
    <3>4. w = [n \in 1..Retain |-> q[b + n]]
      <4>1. Retain \in Nat /\ 1..Retain \subseteq Int
        BY <1>1
      <4> HIDE DEF w, b
      <4>. QED BY <3>1, <3>2, <4>1
    <3>5. w \in [1..Retain -> Items]
      <4>1. \A n \in 1..Retain : q[b + n] \in Items
        BY <3>3, ElementOfSeq
      <4> HIDE DEF w
      <4>. QED BY <3>4, <4>1
    <3> HIDE DEF w, b
    <3>. QED BY <3>4, <3>5, <1>1, LenProperties
  <2>3. KeepLast(q) = w
    BY <1>1, <1>3 DEF KeepLast
  <2> HIDE DEF w
  <2>4. DOMAIN w = 1..Retain /\ \A n \in 1..Retain : b + n \in 1..Len(q)
    BY <2>1, <2>2, <1>1, LenProperties
  <2>5. ToSet(w) \subseteq ToSet(q)
    <3> HIDE DEF b
    <3>. QED BY <2>2, <2>4, <1>1 DEF ToSet
  <2>6. IsInjective(w)
    <3>1. \A m, n \in 1..Retain : b + m = b + n => m = n
      BY <2>1, <1>1
    <3> HIDE DEF b
    <3>2. SUFFICES ASSUME NEW m \in 1..Retain, NEW n \in 1..Retain, w[m] = w[n] PROVE m = n
      BY <2>4 DEF IsInjective
    <3>3. q[b + m] = q[b + n] /\ b + m \in 1..Len(q) /\ b + n \in 1..Len(q)
      BY <3>2, <2>2, <2>4
    <3>. QED BY <3>1, <3>3, <1>1 DEF IsInjective
  <2>. QED BY <2>2, <2>3, <2>5, <2>6, <1>1, <1>3
<1>. QED BY <1>2, <1>3

(* The retention forgets an entry from both at once.                        *)
LEMMA TrimProperties ==
  ASSUME NEW table \in [Items -> Entry \cup {None}],
         NEW q \in Seq(Items), IsInjective(q), ToSet(q) \subseteq Has(table),
         TrimTo(table, q)
  PROVE  /\ seen' \in Seq(Items) /\ IsInjective(seen')
         /\ row' \in [Items -> Entry \cup {None}]
         /\ ToSet(seen') \subseteq ToSet(q) /\ ToSet(seen') \subseteq Has(row')
         /\ \A i \in ToSet(seen') : row'[i] = table[i]
         /\ \A i \in Items : i \notin ToSet(q) => row'[i] = table[i]
         /\ Len(seen') <= Len(q)
         /\ Retain > 0 => Len(seen') <= Retain
<1>1. /\ seen' \in Seq(Items) /\ IsInjective(seen')
      /\ ToSet(seen') \subseteq ToSet(q)
      /\ Len(seen') <= Len(q) /\ (Retain > 0 => Len(seen') <= Retain)
  BY KeepLastProperties DEF TrimTo
<1>2. row' = [i \in Items |-> IF i \in ToSet(q) \ ToSet(seen') THEN None ELSE table[i]]
  BY DEF TrimTo
<1>3. row' \in [Items -> Entry \cup {None}]
  BY <1>2
<1>4. \A i \in ToSet(seen') : i \in Items /\ row'[i] = table[i] /\ table[i] # None
  BY <1>1, <1>2 DEF Has
<1>5. ToSet(seen') \subseteq Has(row')
  BY <1>4 DEF Has
<1>. QED BY <1>1, <1>2, <1>3, <1>4, <1>5

-----------------------------------------------------------------------------
(* The invariant holds at first, and every action keeps it.                 *)

LEMMA InitFits == Init => IInv
<1>. SUFFICES ASSUME Init PROVE IInv
  OBVIOUS
<1>2. ToSet(<<>>) = {} /\ IsInjective(<<>>) /\ Has(row) = {}
  BY DEF Init, ToSet, IsInjective, Has, Empty
<1>3. Types
  <2>1. feed \in [Items -> Entry \cup {None}] /\ row \in [Items -> Entry \cup {None}]
    BY RssAssumption DEF Init, Entry, None, Empty
  <2>. QED BY <1>2, <2>1, RssAssumption DEF Init, Types, Idle
<1>4. IdsFit /\ TableFits /\ QueueFits /\ RoomFits /\ PushedIsAsked
  BY <1>2, RssAssumption DEF Init, IdsFit, TableFits, QueueFits, RoomFits, PushedIsAsked, Idle
<1>. QED BY <1>3, <1>4 DEF IInv

LEMMA FeedChangesStep == ASSUME IInv, FeedChanges PROVE IInv'
<1>1. feed' \in [Items -> Entry \cup {None}]
  <2>1. PICK i \in Items :
          \E e \in IF feed[i] = None THEN {[rev |-> 1, time |-> 1]} ELSE Change(feed[i]) :
            feed' = [feed EXCEPT ![i] = e]
    BY DEF FeedChanges
  <2>2. PICK e \in IF feed[i] = None THEN {[rev |-> 1, time |-> 1]} ELSE Change(feed[i]) :
          feed' = [feed EXCEPT ![i] = e]
    BY <2>1
  <2>3. e \in Entry \cup {None}
    BY <2>2, RssAssumption DEF Change, Entry
  <2>. QED BY <2>2, <2>3 DEF IInv, Types
<1>2. UNCHANGED <<sub, last, row, seen, scan, asked, known, faults>> /\ past' \subseteq Items
      /\ edits' \in 0..MaxEdits
  BY RssAssumption DEF FeedChanges, IInv, Types
<1>3. Types'
  BY <1>1, <1>2 DEF IInv, Types
<1>. QED BY <1>2, <1>3 DEF IInv, IdsFit, TableFits, QueueFits, RoomFits, PushedIsAsked, Alive, Key, Has

LEMMA SubscribeStep == ASSUME IInv, Subscribe PROVE IInv'
<1>1. PICK q \in Orders(Has(feed)) : TrimTo(feed, q)
  BY DEF Subscribe
<1>2. feed \in [Items -> Entry \cup {None}]
  BY DEF IInv, Types
<1>3. q \in Seq(Items) /\ ToSet(q) = Has(feed) /\ IsInjective(q)
  <2>1. q \in Seq(Has(feed)) /\ Has(feed) \subseteq Items
    BY <1>1, <1>2, HasRows, OrdersProperties
  <2>. QED BY <2>1, <1>1, <1>2, HasRows, OrdersProperties, SeqMonotonic
<1>4. /\ seen' \in Seq(Items) /\ IsInjective(seen')
      /\ row' \in [Items -> Entry \cup {None}]
      /\ ToSet(seen') \subseteq Has(feed) /\ ToSet(seen') \subseteq Has(row')
      /\ \A i \in ToSet(seen') : row'[i] = feed[i]
      /\ Retain > 0 => Len(seen') <= Retain
  BY <1>1, <1>2, <1>3, TrimProperties
<1>5. /\ sub = 0 /\ last < MaxSubs /\ sub' = last + 1 /\ last' = last + 1
      /\ known' = {<<i, feed[i].rev>> : i \in Has(feed)} /\ past' = Has(feed)
      /\ UNCHANGED <<feed, edits, scan, asked, faults>>
  BY DEF Subscribe
<1>6. known' \subseteq Items \X (1..MaxRev) /\ past' \subseteq Items
  <2>1. \A i \in Has(feed) : i \in Items /\ feed[i].rev \in 1..MaxRev
    BY <1>2, HasRows DEF Entry
  <2>. QED BY <2>1, <1>5
<1>7. sub' \in 0..MaxSubs /\ sub' \in Nat /\ sub' # 0 /\ last' \in 0..MaxSubs
  BY <1>5, RssAssumption DEF IInv, Types
<1>8. Types'
  BY <1>4, <1>5, <1>6, <1>7 DEF IInv, Types
<1>9. scan.pc # "idle" => scan.sub # sub' /\ scan.sub \in 1..last'
  BY <1>5, RssAssumption DEF IInv, Types, IdsFit
<1>10. IdsFit'
  BY <1>5, <1>7, <1>9, RssAssumption DEF IdsFit, IInv, Types
<1>11. TableFits'
  BY <1>4, <1>7 DEF TableFits, Has
<1>12. QueueFits'
  BY <1>5, <1>9 DEF QueueFits, Alive, IInv
<1>13. RoomFits'
  <2>1. Len(seen') \in Nat
    BY <1>4, LenProperties
  <2>. QED BY <2>1, <1>4, <1>5, <1>9, RssAssumption DEF RoomFits, Alive
<1>14. PushedIsAsked'
  BY <1>4, <1>5 DEF PushedIsAsked
<1>. QED BY <1>8, <1>10, <1>11, <1>12, <1>13, <1>14 DEF IInv

LEMMA UnsubscribeStep == ASSUME IInv, Unsubscribe PROVE IInv'
<1>1. /\ sub' = 0 /\ row' = Empty /\ seen' = <<>> /\ past' = {} /\ asked' = {} /\ known' = {}
      /\ UNCHANGED <<feed, edits, last, scan, faults>>
  BY DEF Unsubscribe
<1>2. ToSet(<<>>) = {} /\ IsInjective(<<>>) /\ Has(row)' = {}
  BY <1>1 DEF ToSet, IsInjective, Has, Empty
<1>3. Types'
  <2>1. row' \in [Items -> Entry \cup {None}]
    BY <1>1 DEF Empty
  <2>. QED BY <2>1, <1>1, <1>2, RssAssumption DEF Types, IInv
<1>4. scan.pc # "idle" => scan.sub # sub'
  BY <1>1 DEF IInv, IdsFit, Types
<1>5. IdsFit' /\ TableFits'
  BY <1>1, <1>2, <1>3 DEF IInv, IdsFit, TableFits, Types
<1>6. QueueFits' /\ RoomFits' /\ PushedIsAsked'
  BY <1>1, <1>2, <1>4, RssAssumption DEF IInv, QueueFits, RoomFits, PushedIsAsked, Alive
<1>. QED BY <1>3, <1>5, <1>6 DEF IInv

LEMMA StartScanStep == ASSUME IInv, StartScan PROVE IInv'
<1>1. /\ sub # 0 /\ scan' = [pc |-> "check", sub |-> sub, queue |-> <<>>]
      /\ UNCHANGED <<feed, edits, sub, last, row, seen, asked, known, past, faults>>
  BY DEF StartScan, Idle
<1>2. Types'
  BY <1>1 DEF IInv, Types
<1>3. IdsFit'
  BY <1>1 DEF IInv, IdsFit, Types
<1>. QED BY <1>1, <1>2, <1>3 DEF IInv, TableFits, QueueFits, RoomFits, PushedIsAsked, Has

(* A scan that ends keeps everything, if nothing else changes.              *)
LEMMA FinishStep ==
  ASSUME IInv, Finish, UNCHANGED <<feed, edits, sub, last, row, seen, asked, known, past>>,
         faults' \in 0..MaxFaults
  PROVE  IInv'
<1>1. scan' = [pc |-> "idle", sub |-> 0, queue |-> <<>>]
  BY DEF Finish, Idle
<1>2. Types'
  BY <1>1, RssAssumption DEF IInv, Types
<1>. QED BY <1>1, <1>2 DEF IInv, IdsFit, TableFits, QueueFits, RoomFits, PushedIsAsked, Has

(* What one fetch stores.                                                   *)
LEMMA StoreItemsProperties ==
  ASSUME IInv, NEW order \in Orders(Rebaselined), StoreItems(order)
  PROVE  /\ seen' \in Seq(Items) /\ IsInjective(seen')
         /\ row' \in [Items -> Entry \cup {None}]
         /\ ToSet(seen') \subseteq Has(row')
         /\ \A i \in ToSet(seen') :
              \/ i \in ToSet(seen) \ NewOrUpdated
                 /\ row'[i] = IF i \in Has(feed) THEN feed[i] ELSE row[i]
              \/ i \in Rebaselined /\ row'[i] = feed[i]
         /\ \A i \in Items : i \notin ToSet(seen) \cup Rebaselined =>
              i \notin ToSet(seen') /\ row'[i] = IF i \in Has(feed) THEN feed[i] ELSE row[i]
         /\ Retain > 0 => Len(seen') <= Retain
<1> DEFINE table == [i \in Items |-> IF i \in Has(feed) THEN feed[i] ELSE row[i]]
           w == Without(seen, NewOrUpdated)
           q == w \o order
<1>1. /\ feed \in [Items -> Entry \cup {None}] /\ row \in [Items -> Entry \cup {None}]
      /\ seen \in Seq(Items) /\ IsInjective(seen) /\ ToSet(seen) \subseteq Has(row)
  BY DEF IInv, Types, TableFits
<1>2. Rebaselined \subseteq Items /\ IsFiniteSet(Rebaselined)
  <2>1. Rebaselined \in SUBSET Has(feed)
    BY DEF Rebaselined
  <2>. QED BY <2>1, <1>1, HasRows, FS_Subset
<1>3. order \in Seq(Items) /\ ToSet(order) = Rebaselined /\ IsInjective(order)
  BY <1>2, OrdersProperties, SeqMonotonic
<1>4. w \in Seq(Items) /\ ToSet(w) = ToSet(seen) \ NewOrUpdated /\ IsInjective(w)
  BY <1>1, WithoutProperties
<1>5. ToSet(seen) \cap Rebaselined = {}
  BY DEF Rebaselined, Pending
<1> HIDE DEF w
<1>6. q \in Seq(Items) /\ ToSet(q) = ToSet(w) \cup Rebaselined /\ IsInjective(q)
  <2>1. Len(w) \in Nat /\ Len(order) \in Nat
        /\ DOMAIN w = 1..Len(w) /\ DOMAIN order = 1..Len(order)
    BY <1>3, <1>4, LenProperties
  <2>2. /\ q \in Seq(Items) /\ Len(q) = Len(w) + Len(order)
        /\ \A k \in 1..(Len(w) + Len(order)) :
             q[k] = IF k <= Len(w) THEN w[k] ELSE order[k - Len(w)]
    BY <1>3, <1>4, ConcatProperties
  <2>3. DOMAIN q = 1..(Len(w) + Len(order))
    BY <2>2, LenProperties
  <2> HIDE DEF q
  <2>4. \A k \in 1..Len(w) : k \in DOMAIN q /\ q[k] = w[k]
    BY <2>1, <2>2, <2>3
  <2>5. \A k \in 1..Len(order) : k + Len(w) \in DOMAIN q /\ q[k + Len(w)] = order[k]
    <3>1. SUFFICES ASSUME NEW k \in 1..Len(order)
                   PROVE  k + Len(w) \in DOMAIN q /\ q[k + Len(w)] = order[k]
      OBVIOUS
    <3>2. k + Len(w) \in DOMAIN q /\ ~ (k + Len(w) <= Len(w)) /\ (k + Len(w)) - Len(w) = k
      BY <2>1, <2>3
    <3>. QED BY <3>2, <2>2, <2>3
  <2>6. \A k \in DOMAIN q : \/ k \in 1..Len(w) /\ q[k] = w[k]
                            \/ k - Len(w) \in 1..Len(order) /\ q[k] = order[k - Len(w)]
    BY <2>1, <2>2, <2>3
  <2>7. ToSet(q) = ToSet(w) \cup Rebaselined
    <3>1. ToSet(q) \subseteq ToSet(w) \cup ToSet(order)
      BY <2>6, <2>1 DEF ToSet
    <3>2. ToSet(w) \subseteq ToSet(q)
      BY <2>4, <2>1 DEF ToSet
    <3>3. ToSet(order) \subseteq ToSet(q)
      BY <2>5, <2>1 DEF ToSet
    <3>. QED BY <3>1, <3>2, <3>3, <1>3
  <2>8. IsInjective(q)
    <3>1. SUFFICES ASSUME NEW a \in DOMAIN q, NEW b \in DOMAIN q, q[a] = q[b] PROVE a = b
      BY DEF IsInjective
    <3>2. \A k \in 1..Len(w), n \in 1..Len(order) : w[k] # order[n]
      BY <1>3, <1>4, <1>5, <2>1 DEF ToSet
    <3>3. a \in Int /\ b \in Int
      BY <2>3, <2>1
    <3>4. CASE a \in 1..Len(w)
      <4>1. b \in 1..Len(w) /\ q[a] = w[a] /\ q[b] = w[b]
        BY <2>4, <2>6, <3>1, <3>2, <3>4
      <4>. QED BY <4>1, <3>1, <3>4, <1>4, <2>1 DEF IsInjective
    <3>5. CASE a \notin 1..Len(w)
      <4>1. a - Len(w) \in 1..Len(order) /\ q[a] = order[a - Len(w)]
        BY <2>6, <3>5
      <4>2. b - Len(w) \in 1..Len(order) /\ q[b] = order[b - Len(w)]
        BY <2>6, <3>1, <3>2, <4>1
      <4>3. a - Len(w) = b - Len(w)
        BY <4>1, <4>2, <3>1, <1>3, <2>1 DEF IsInjective
      <4>. QED BY <4>3, <3>3, <2>1
    <3>. QED BY <3>4, <3>5
  <2>. QED BY <2>2, <2>7, <2>8
<1>7. table \in [Items -> Entry \cup {None}]
  BY <1>1
<1>8. ToSet(q) \subseteq Has(table)
  <2>1. \A i \in Rebaselined : table[i] # None /\ i \in Items
    BY <1>2 DEF Rebaselined, Has
  <2>2. \A i \in ToSet(seen) : table[i] # None /\ i \in Items
    BY <1>1 DEF Has
  <2>. QED BY <2>1, <2>2, <1>4, <1>6 DEF Has
<1>9. TrimTo(table, q)
  BY DEF StoreItems, w
<1> HIDE DEF q
<1>10. /\ seen' \in Seq(Items) /\ IsInjective(seen')
       /\ row' \in [Items -> Entry \cup {None}]
       /\ ToSet(seen') \subseteq ToSet(q) /\ ToSet(seen') \subseteq Has(row')
       /\ \A i \in ToSet(seen') : row'[i] = table[i]
       /\ \A i \in Items : i \notin ToSet(q) => row'[i] = table[i]
       /\ Retain > 0 => Len(seen') <= Retain
  <2> HIDE DEF table
  <2>. QED BY <1>6, <1>7, <1>8, <1>9, TrimProperties
<1>11. ASSUME NEW i \in ToSet(seen')
       PROVE  \/ i \in ToSet(seen) \ NewOrUpdated
                 /\ row'[i] = IF i \in Has(feed) THEN feed[i] ELSE row[i]
              \/ i \in Rebaselined /\ row'[i] = feed[i]
  <2>1. i \in Items /\ i \in ToSet(q) /\ row'[i] = table[i]
    BY <1>10 DEF Has
  <2>2. i \in Rebaselined => i \in Has(feed)
    BY DEF Rebaselined
  <2>. QED BY <2>1, <2>2, <1>4, <1>6
<1>12. ASSUME NEW i \in Items, i \notin ToSet(seen) \cup Rebaselined
       PROVE  i \notin ToSet(seen') /\ row'[i] = IF i \in Has(feed) THEN feed[i] ELSE row[i]
  BY <1>4, <1>6, <1>10, <1>12
<1>. QED BY <1>10, <1>11, <1>12

LEMMA CheckStep == ASSUME IInv, Check PROVE IInv'
<1>1. CASE scan.sub # sub
  <2>1. Finish /\ UNCHANGED <<feed, edits, sub, last, row, seen, asked, known, past, faults>>
    BY <1>1 DEF Check
  <2>2. faults' \in 0..MaxFaults
    BY <2>1 DEF IInv, Types
  <2>. QED BY <2>1, <2>2, FinishStep
<1>2. CASE scan.sub = sub
  <2>1. /\ scan.pc = "check" /\ scan' = [scan EXCEPT !.pc = "load"]
        /\ known' = known \cup
             {<<i, feed[i].rev>> : i \in {j \in Has(feed) \ NewOrUpdated : Noise(j)}}
        /\ UNCHANGED <<feed, edits, sub, last, asked, past, faults>>
    BY <1>2 DEF Check
  <2>2. PICK order \in Orders(Rebaselined) : StoreItems(order)
    BY <1>2 DEF Check
  <2>3. /\ seen' \in Seq(Items) /\ IsInjective(seen')
        /\ row' \in [Items -> Entry \cup {None}]
        /\ ToSet(seen') \subseteq Has(row')
        /\ \A i \in ToSet(seen') :
             \/ i \in ToSet(seen) \ NewOrUpdated
                /\ row'[i] = IF i \in Has(feed) THEN feed[i] ELSE row[i]
             \/ i \in Rebaselined /\ row'[i] = feed[i]
        /\ Retain > 0 => Len(seen') <= Retain
    BY <2>2, StoreItemsProperties
  <2>4. scan' = [pc |-> "load", sub |-> scan.sub, queue |-> scan.queue]
    BY <2>1 DEF IInv, Types
  <2>5. feed \in [Items -> Entry \cup {None}] /\ row \in [Items -> Entry \cup {None}]
        /\ known \subseteq Items \X (1..MaxRev)
        /\ \A i \in Has(feed) : i \in Items /\ feed[i].rev \in 1..MaxRev
    <3>1. feed \in [Items -> Entry \cup {None}]
      BY DEF IInv, Types
    <3>. QED BY <3>1, HasRows DEF IInv, Types, Entry
  <2>6. known' \subseteq Items \X (1..MaxRev)
    BY <2>1, <2>5
  <2>7. Types'
    BY <2>1, <2>3, <2>4, <2>6 DEF IInv, Types
  <2>8. IdsFit'
    BY <2>1, <2>4 DEF IInv, IdsFit
  <2>9. TableFits'
    <3>1. sub # 0
      BY <1>2, <2>1 DEF IInv, IdsFit, Types
    <3>. QED BY <3>1, <2>1, <2>3 DEF TableFits, Has
  <2>10. QueueFits' 
    BY <2>4 DEF QueueFits
  <2>11. RoomFits'
    <3>1. Len(seen') \in Nat
      BY <2>3, LenProperties
    <3>. QED BY <3>1, <2>3, <2>4, RssAssumption DEF RoomFits
  <2>12. PushedIsAsked'
    <3>1. SUFFICES ASSUME NEW i \in ToSet(seen')
                   PROVE  <<i, row'[i].rev>> \in known' \/ <<i, row'[i].rev>> \in asked'
      BY DEF PushedIsAsked
    <3>2. CASE i \in Rebaselined /\ row'[i] = feed[i]
      <4>1. i \in Has(feed) /\ Noise(i) /\ row[i] # None
        BY <3>2 DEF Rebaselined, Pending, Has
      <4>2. i \notin NewOrUpdated
        BY <4>1 DEF NewOrUpdated
      <4>. QED BY <4>1, <4>2, <3>2, <2>1
    <3>3. CASE i \in ToSet(seen) \ NewOrUpdated /\ i \notin Has(feed) /\ row'[i] = row[i]
      BY <3>3, <2>1 DEF IInv, PushedIsAsked
    <3>4. CASE i \in ToSet(seen) \ NewOrUpdated /\ i \in Has(feed) /\ row'[i] = feed[i]
      <4>1. Same(i) \/ Noise(i)
        BY <3>4 DEF NewOrUpdated
      <4>2. CASE Same(i)
        BY <4>2, <3>4, <2>1 DEF IInv, PushedIsAsked, Same
      <4>3. CASE Noise(i)
        BY <4>3, <3>4, <2>1
      <4>. QED BY <4>1, <4>2, <4>3
    <3>. QED BY <3>2, <3>3, <3>4, <2>3
  <2>. QED BY <2>7, <2>8, <2>9, <2>10, <2>11, <2>12 DEF IInv
<1>. QED BY <1>1, <1>2

LEMMA LoadPendingStep == ASSUME IInv, LoadPending PROVE IInv'
<1>1. UNCHANGED <<feed, edits, sub, last, row, seen, asked, known, past, faults>>
  BY DEF LoadPending
<1>2. faults' \in 0..MaxFaults
  BY <1>1 DEF IInv, Types
<1>3. CASE Finish
  BY <1>1, <1>2, <1>3, FinishStep
<1>4. CASE ~Finish
  <2>1. scan.sub = sub /\ scan.pc = "load"
    BY <1>4 DEF LoadPending
  <2>2. PICK n \in 0..Limit : \E q \in [1..n -> Items] :
          /\ Selected(q) /\ n # 0
          /\ scan' = [scan EXCEPT !.pc = "push",
                 !.queue = [k \in 1..n |-> [item |-> q[k], rev |-> row[q[k]].rev]]]
    BY <1>4, <2>1 DEF LoadPending
  <2>3. PICK q \in [1..n -> Items] :
          /\ Selected(q) /\ n # 0
          /\ scan' = [scan EXCEPT !.pc = "push",
                 !.queue = [k \in 1..n |-> [item |-> q[k], rev |-> row[q[k]].rev]]]
    BY <2>2
  <2> DEFINE r == [k \in 1..n |-> [item |-> q[k], rev |-> row[q[k]].rev]]
  <2>4. n \in Nat /\ n \in 1..Limit
    BY <2>3, RssAssumption
  <2>5. \A k \in 1..n : q[k] \in Items /\ row[q[k]].rev \in 1..MaxRev
    <3>1. row \in [Items -> Entry \cup {None}]
      BY DEF IInv, Types
    <3>2. DOMAIN q = 1..n /\ ToSet(q) \subseteq Pending
      BY <2>3 DEF Selected
    <3>3. \A k \in 1..n : q[k] \in Has(row)
      BY <3>2 DEF ToSet, Pending
    <3>. QED BY <3>1, <3>3, HasRows DEF Entry
  <2>6. r \in Seq([item : Items, rev : 1..MaxRev]) /\ Len(r) = n
        /\ \A k \in 1..n : r[k] = [item |-> q[k], rev |-> row[q[k]].rev]
    BY <2>4, <2>5
  <2> HIDE DEF r
  <2>7. scan' = [pc |-> "push", sub |-> scan.sub, queue |-> r]
    BY <2>3 DEF IInv, Types, r
  <2>8. Types'
    BY <1>1, <2>6, <2>7 DEF IInv, Types
  <2>9. IdsFit' /\ TableFits' /\ PushedIsAsked'
    BY <1>1, <2>1, <2>7 DEF IInv, IdsFit, TableFits, PushedIsAsked, Has
  <2>10. QueueFits'
    <3>1. r # <<>>
      BY <2>4, <2>6
    <3>2. \A k \in 1..Len(r) : row[r[k].item].rev = r[k].rev
      BY <2>6
    <3>. QED BY <3>1, <3>2, <2>7, <1>1 DEF QueueFits
  <2>11. RoomFits'
    <3>1. Len(seen) \in Nat
      BY LenProperties DEF IInv, Types
    <3>. QED BY <3>1, <1>1, <2>1, <2>4, <2>6, <2>7, RssAssumption DEF IInv, RoomFits, Alive
  <2>. QED BY <2>8, <2>9, <2>10, <2>11 DEF IInv
<1>. QED BY <1>3, <1>4

(* What a scan at push or mark has in its hand.                             *)
LEMMA HandProperties ==
  ASSUME IInv, scan.pc \in {"push", "mark"}
  PROVE  /\ Key \in Items \X (1..MaxRev)
         /\ Key = <<scan.queue[1].item, scan.queue[1].rev>>
         /\ Len(scan.queue) \in Nat /\ Len(scan.queue) >= 1
         /\ Alive => row[scan.queue[1].item].rev = scan.queue[1].rev
<1>1. scan.queue \in Seq([item : Items, rev : 1..MaxRev]) /\ scan.queue # <<>>
  BY DEF IInv, Types, QueueFits
<1>2. Len(scan.queue) \in Nat /\ Len(scan.queue) >= 1 /\ 1 \in 1..Len(scan.queue)
      /\ Head(scan.queue) = scan.queue[1]
  BY <1>1, LenProperties, EmptySeq, HeadTailProperties
<1>3. scan.queue[1] \in [item : Items, rev : 1..MaxRev]
  BY <1>1, <1>2, ElementOfSeq
<1>. QED BY <1>2, <1>3 DEF IInv, QueueFits, Key

LEMMA AskNotificationStep == ASSUME IInv, AskNotification PROVE IInv'
<1>1. /\ scan.pc = "push" /\ scan' = [pc |-> "mark", sub |-> scan.sub, queue |-> scan.queue]
      /\ asked' = IF Alive THEN asked \cup {Key} ELSE asked
      /\ UNCHANGED <<feed, edits, sub, last, row, seen, known, past, faults>>
  BY DEF AskNotification, IInv, Types, Alive
<1>2. Key \in Items \X (1..MaxRev) /\ Key' = Key
  BY <1>1, HandProperties DEF Key
<1>3. Types'
  BY <1>1, <1>2 DEF IInv, Types
<1>4. QueueFits'
  BY <1>1, <1>2 DEF IInv, QueueFits, Alive
<1>. QED BY <1>1, <1>3, <1>4 DEF IInv, IdsFit, TableFits, RoomFits, PushedIsAsked, Has, Alive

(* The scan goes on to its next item, or ends.                              *)
LEMMA NextItemProperties ==
  ASSUME IInv, scan.pc \in {"push", "mark"}, NextItem
  PROVE  \/ scan' = Idle
         \/ /\ scan'.pc = "push" /\ scan'.sub = scan.sub
            /\ scan' \in [pc : {"push"}, sub : 0..MaxSubs,
                          queue : Seq([item : Items, rev : 1..MaxRev])]
            /\ Len(scan'.queue) = Len(scan.queue) - 1
            /\ scan'.queue # <<>>
            /\ \A n \in 1..Len(scan'.queue) : n + 1 \in 1..Len(scan.queue)
                                              /\ scan'.queue[n] = scan.queue[n + 1]
<1>1. CASE Len(scan.queue) = 1
  BY <1>1 DEF NextItem, Finish
<1>2. CASE Len(scan.queue) # 1
  <2> DEFINE r == Tail(scan.queue)
  <2>1. scan' = [pc |-> "push", sub |-> scan.sub, queue |-> r]
    BY <1>2 DEF NextItem, IInv, Types
  <2>2. /\ scan.queue \in Seq([item : Items, rev : 1..MaxRev]) /\ scan.queue # <<>>
        /\ Len(scan.queue) \in Nat /\ Len(scan.queue) >= 1 /\ scan.sub \in 0..MaxSubs
    BY HandProperties DEF IInv, Types, QueueFits
  <2>3. /\ r \in Seq([item : Items, rev : 1..MaxRev]) /\ Len(r) = Len(scan.queue) - 1
        /\ \A n \in 1..Len(r) : r[n] = scan.queue[n + 1]
    BY <2>2, HeadTailProperties
  <2> HIDE DEF r
  <2>4. r # <<>>
    <3>1. Len(r) # 0
      BY <2>2, <2>3, <1>2
    <3>. QED BY <3>1
  <2>5. \A n \in 1..Len(r) : n + 1 \in 1..Len(scan.queue)
    BY <2>2, <2>3
  <2>. QED BY <2>1, <2>2, <2>3, <2>4, <2>5
<1>. QED BY <1>1, <1>2

LEMMA MarkPushedStep == ASSUME IInv, MarkPushed PROVE IInv'
<1> DEFINE i == scan.queue[1].item
           w == Without(seen, {i})
           q == Append(w, i)
<1>1. /\ scan.pc = "mark" /\ NextItem
      /\ UNCHANGED <<feed, edits, sub, last, row, asked, known, past, faults>>
  BY DEF MarkPushed
<1>2. /\ Key \in Items \X (1..MaxRev) /\ Key = <<i, scan.queue[1].rev>>
      /\ Len(scan.queue) \in Nat /\ Len(scan.queue) >= 1
      /\ Alive => row[i].rev = scan.queue[1].rev
  BY <1>1, HandProperties
<1>3. i \in Items /\ Head(scan.queue).item = i
  BY <1>2 DEF Key
<1>4. seen' = IF Alive /\ row[i] # None THEN q ELSE seen
  BY <1>3 DEF MarkPushed, Alive
<1>5. /\ seen \in Seq(Items) /\ IsInjective(seen) /\ Len(seen) \in Nat
      /\ ToSet(seen) \subseteq Has(row)
  BY LenProperties DEF IInv, Types, TableFits
<1>6. w \in Seq(Items) /\ Len(w) <= Len(seen) /\ ToSet(w) = ToSet(seen) \ {i} /\ IsInjective(w)
  BY <1>5, WithoutProperties
<1> HIDE DEF w
<1>7. q \in Seq(Items) /\ Len(q) <= Len(seen) + 1 /\ ToSet(q) = ToSet(w) \cup {i}
      /\ IsInjective(q)
  <2>1. Len(w) \in Nat /\ DOMAIN w = 1..Len(w)
    BY <1>6, LenProperties
  <2>2. q \in Seq(Items) /\ Len(q) = Len(w) + 1 /\ q[Len(w) + 1] = i
        /\ \A n \in 1..Len(w) : q[n] = w[n]
    BY <1>3, <1>6, AppendProperties
  <2>3. DOMAIN q = 1..(Len(w) + 1)
    BY <2>2, LenProperties
  <2> HIDE DEF q, i
  <2>4. \A n \in 1..(Len(w) + 1) : n = Len(w) + 1 \/ n \in 1..Len(w)
    BY <2>1
  <2>5. \A n \in 1..Len(w) : n \in 1..(Len(w) + 1)
    BY <2>1
  <2>6. Len(w) + 1 \in 1..(Len(w) + 1)
    BY <2>1
  <2>7. ToSet(q) = ToSet(w) \cup {i}
    <3>1. \A n \in DOMAIN q : q[n] = i \/ q[n] \in ToSet(w)
      BY <2>1, <2>2, <2>3, <2>4 DEF ToSet
    <3>2. \A n \in DOMAIN w : w[n] \in ToSet(q)
      BY <2>1, <2>2, <2>3, <2>5 DEF ToSet
    <3>3. i \in ToSet(q)
      BY <2>2, <2>3, <2>6 DEF ToSet
    <3>. QED BY <3>1, <3>2, <3>3 DEF ToSet
  <2>8. \A n \in 1..Len(w) : w[n] # i
    BY <1>6, <2>1 DEF ToSet
  <2>9. IsInjective(q)
    BY <1>6, <2>1, <2>2, <2>3, <2>4, <2>8 DEF IsInjective
  <2>. QED BY <2>1, <2>2, <2>7, <2>9, <1>5, <1>6
<1> HIDE DEF q
<1>8. seen' \in Seq(Items) /\ IsInjective(seen') /\ Len(seen') \in Nat
      /\ Len(seen') <= Len(seen) + 1 /\ (~Alive => seen' = seen)
      /\ ToSet(seen') \subseteq Has(row)
  <2>1. seen' \in Seq(Items) /\ IsInjective(seen') /\ (~Alive => seen' = seen)
    BY <1>4, <1>5, <1>7
  <2>2. Len(seen') \in Nat /\ Len(seen') <= Len(seen) + 1
    BY <2>1, <1>4, <1>5, <1>7, LenProperties
  <2>3. ToSet(seen') \subseteq Has(row)
    BY <1>3, <1>4, <1>5, <1>6, <1>7 DEF Has
  <2>. QED BY <2>1, <2>2, <2>3
<1>9. Alive => Len(seen) + Len(scan.queue) <= Retain + Limit \/ Retain = 0
  BY <1>1, RssAssumption DEF IInv, RoomFits
<1>10. \/ scan' = Idle
       \/ /\ scan'.pc = "push" /\ scan'.sub = scan.sub
          /\ scan' \in [pc : {"push"}, sub : 0..MaxSubs,
                        queue : Seq([item : Items, rev : 1..MaxRev])]
          /\ Len(scan'.queue) = Len(scan.queue) - 1
          /\ scan'.queue # <<>>
          /\ \A n \in 1..Len(scan'.queue) : n + 1 \in 1..Len(scan.queue)
                                            /\ scan'.queue[n] = scan.queue[n + 1]
  BY <1>1, NextItemProperties
<1>11. Types'
  <2>1. scan' \in [pc : {"idle", "check", "load", "push", "mark"}, sub : 0..MaxSubs,
                   queue : Seq([item : Items, rev : 1..MaxRev])]
    <3>1. Idle \in [pc : {"idle", "check", "load", "push", "mark"}, sub : 0..MaxSubs,
                     queue : Seq([item : Items, rev : 1..MaxRev])]
      BY RssAssumption DEF Idle
    <3>. QED BY <3>1, <1>10
  <2>. QED BY <2>1, <1>1, <1>8 DEF IInv, Types
<1>12. IdsFit' /\ TableFits'
  BY <1>1, <1>8, <1>10 DEF IInv, IdsFit, TableFits, Has, Idle
<1>13. QueueFits'
  <2>1. CASE scan' = Idle
    BY <2>1 DEF QueueFits, Idle
  <2>2. CASE scan'.pc = "push"
    <3>1. Alive' => Alive
      BY <1>1, <1>10, <2>2 DEF Alive, Idle
    <3>2. Alive => \A n \in 1..Len(scan.queue) : row[scan.queue[n].item].rev = scan.queue[n].rev
      BY <1>1 DEF IInv, QueueFits
    <3>3. /\ scan'.queue # <<>>
          /\ \A n \in 1..Len(scan'.queue) : n + 1 \in 1..Len(scan.queue)
                                            /\ scan'.queue[n] = scan.queue[n + 1]
      BY <1>10, <2>2 DEF Idle
    <3>4. Alive => \A n \in 1..Len(scan'.queue) :
                       row[scan'.queue[n].item].rev = scan'.queue[n].rev
      BY <3>2, <3>3
    <3>. QED BY <3>1, <3>3, <3>4, <2>2, <1>1 DEF QueueFits
  <2>. QED BY <2>1, <2>2, <1>10
<1>14. RoomFits'
  <2>1. Retain > 0 => Len(seen') <= Retain + Limit
    BY <1>2, <1>5, <1>8, <1>9, RssAssumption DEF IInv, RoomFits
  <2>2. CASE scan' = Idle
    BY <2>1, <2>2 DEF RoomFits, Idle
  <2>3. CASE scan'.pc = "push"
    <3>1. Alive' => Alive /\ Len(scan'.queue) = Len(scan.queue) - 1
      BY <1>1, <1>10, <2>3 DEF Alive, Idle
    <3>. QED BY <3>1, <2>1, <2>3, <1>2, <1>5, <1>8, <1>9, RssAssumption DEF RoomFits
  <2>. QED BY <2>2, <2>3, <1>10
<1>15. PushedIsAsked'
  <2>1. SUFFICES ASSUME NEW j \in ToSet(seen'), j \notin ToSet(seen)
                 PROVE  <<j, row[j].rev>> \in asked
    BY <1>1 DEF IInv, PushedIsAsked
  <2>2. Alive /\ j = i
    BY <2>1, <1>4, <1>6, <1>7
  <2>. QED BY <2>2, <1>1, <1>2 DEF IInv, QueueFits
<1>. QED BY <1>11, <1>12, <1>13, <1>14, <1>15 DEF IInv

LEMMA ItemFailsStep == ASSUME IInv, ItemFails PROVE IInv'
<1>1. /\ scan.pc \in {"push", "mark"} /\ NextItem /\ faults' \in 0..MaxFaults
      /\ UNCHANGED <<feed, edits, sub, last, row, seen, asked, known, past>>
  BY RssAssumption DEF ItemFails, Fault, IInv, Types
<1>2. CASE scan' = Idle
  BY <1>1, <1>2, FinishStep DEF Finish
<1>3. CASE scan' # Idle
  <2>1. /\ scan'.pc = "push" /\ scan'.sub = scan.sub
        /\ scan' \in [pc : {"push"}, sub : 0..MaxSubs,
                      queue : Seq([item : Items, rev : 1..MaxRev])]
        /\ Len(scan'.queue) = Len(scan.queue) - 1
        /\ scan'.queue # <<>>
        /\ \A n \in 1..Len(scan'.queue) : n + 1 \in 1..Len(scan.queue)
                                          /\ scan'.queue[n] = scan.queue[n + 1]
    BY <1>1, <1>3, NextItemProperties
  <2>2. Types'
    BY <1>1, <2>1 DEF IInv, Types
  <2>3. IdsFit' /\ TableFits' /\ PushedIsAsked'
    BY <1>1, <2>1 DEF IInv, IdsFit, TableFits, PushedIsAsked, Has
  <2>4. QueueFits'
    BY <1>1, <2>1 DEF IInv, QueueFits, Alive
  <2>5. RoomFits'
    <3>1. Len(seen) \in Nat /\ Len(scan.queue) \in Nat
      BY LenProperties DEF IInv, Types
    <3>. QED BY <3>1, <1>1, <2>1, RssAssumption DEF IInv, RoomFits, Alive
  <2>. QED BY <2>2, <2>3, <2>4, <2>5 DEF IInv
<1>. QED BY <1>2, <1>3

LEMMA Step == IInv /\ [Next]_vars => IInv'
<1>. SUFFICES ASSUME IInv, [Next]_vars PROVE IInv'
  OBVIOUS
<1>1. CASE FeedChanges \/ Subscribe \/ Unsubscribe
  BY <1>1, FeedChangesStep, SubscribeStep, UnsubscribeStep
<1>2. CASE StartScan \/ Check \/ LoadPending \/ AskNotification \/ MarkPushed \/ ItemFails
  BY <1>2, StartScanStep, CheckStep, LoadPendingStep, AskNotificationStep, MarkPushedStep,
     ItemFailsStep
<1>3. CASE FetchFails
  <2>1. Finish /\ UNCHANGED <<feed, edits, sub, last, row, seen, asked, known, past, faults>>
    BY <1>3 DEF FetchFails
  <2>2. faults' \in 0..MaxFaults
    BY <2>1 DEF IInv, Types
  <2>. QED BY <2>1, <2>2, FinishStep
<1>4. CASE ScanDies
  <2>1. Finish /\ UNCHANGED <<feed, edits, sub, last, row, seen, asked, known, past>>
        /\ faults' \in 0..MaxFaults
    BY <1>4, RssAssumption DEF ScanDies, Fault, IInv, Types
  <2>. QED BY <2>1, FinishStep
<1>5. CASE UNCHANGED vars
  BY <1>5 DEF vars, IInv, Types, IdsFit, TableFits, QueueFits, RoomFits, PushedIsAsked, Alive, Key, Has
<1>. QED BY <1>1, <1>2, <1>3, <1>4, <1>5 DEF Next

LEMMA Invariance == Spec => []IInv
BY InitFits, Step, PTL DEF Spec

-----------------------------------------------------------------------------
(* The table speaks of entries of the subscription there is, and what it    *)
(* has dealt with is among them (storage/mod.rs, with its cascade).         *)
THEOREM TableStaysSound == Spec => []TableIsSound
<1>1. IInv => TableIsSound
  BY DEF IInv, Types, TableFits, TableIsSound, TypeOK
<1>. QED BY <1>1, Invariance, PTL

(* Nothing is counted as pushed whose notification was not asked for, and   *)
(* no more is remembered than the retention and one scan's pushes: a crash  *)
(* between request and mark, a failed item, a subscription that ends during *)
(* a scan and one that follows it change neither (scheduler.rs, storage).   *)
THEOREM SeenStaysSound == Spec => []SeenIsSound
<1>1. IInv => SeenIsSound
  BY DEF IInv, RoomFits, SeenIsSound, SeenIsBounded
<1>. QED BY <1>1, Invariance, PTL

(* A pending entry leaves the table only by its notification, by a change   *)
(* of its text without a new time, or with its subscription.                *)
THEOREM PendingStays == Spec => PendingIsKept
<1> DEFINE Keeps == \A i \in Pending :
               \/ i \in Pending' /\ row'[i] \in {row[i], feed[i]}
               \/ <<i, row[i].rev>> \in asked'
               \/ feed[i] # None /\ Noise(i)
               \/ sub' = 0
<1>1. IInv /\ [Next]_vars => [Keeps]_vars
  <2>. SUFFICES ASSUME IInv, Next PROVE Keeps
    BY DEF vars
  <2>1. CASE UNCHANGED <<row, seen>>
    BY <2>1 DEF Pending, Has
  <2>2. CASE Subscribe
    <3>1. Pending = {}
      BY <2>2 DEF Subscribe, Pending, IInv, TableFits
    <3>. QED BY <3>1
  <2>3. CASE Unsubscribe
    BY <2>3 DEF Unsubscribe
  <2>4. CASE Check
    <3>1. CASE scan.sub # sub
      BY <2>1, <2>4, <3>1 DEF Check
    <3>2. CASE scan.sub = sub
      <4>1. PICK order \in Orders(Rebaselined) : StoreItems(order)
        BY <2>4, <3>2 DEF Check
      <4>2. \A i \in Items : i \notin ToSet(seen) \cup Rebaselined =>
              i \notin ToSet(seen') /\ row'[i] = IF i \in Has(feed) THEN feed[i] ELSE row[i]
        BY <4>1, StoreItemsProperties
      <4>3. SUFFICES ASSUME NEW i \in Pending, i \notin Rebaselined
                     PROVE  i \in Pending' /\ row'[i] \in {row[i], feed[i]}
        BY DEF Rebaselined, Has
      <4>4. i \in Items /\ i \notin ToSet(seen) /\ row[i] # None
        BY DEF Pending, Has
      <4>5. i \notin ToSet(seen') /\ row'[i] = IF i \in Has(feed) THEN feed[i] ELSE row[i]
        BY <4>2, <4>3, <4>4
      <4>. QED BY <4>4, <4>5 DEF Pending, Has
    <3>. QED BY <3>1, <3>2
  <2>5. CASE MarkPushed
    <3> DEFINE i == scan.queue[1].item
               w == Without(seen, {i})
    <3>1. scan.pc = "mark" /\ UNCHANGED <<row, asked>> /\ Key = <<i, scan.queue[1].rev>>
          /\ (Alive => row[i].rev = scan.queue[1].rev /\ Key \in asked) /\ i \in Items
      BY <2>5, HandProperties DEF MarkPushed, IInv, QueueFits
    <3>2. seen' = IF Alive /\ row[i] # None THEN Append(w, i) ELSE seen
      <4>1. Head(scan.queue).item = i
        BY <3>1 DEF Key
      <4>. QED BY <4>1, <2>5 DEF MarkPushed, Alive
    <3>3. CASE ~ (Alive /\ row[i] # None)
      BY <2>1, <3>1, <3>2, <3>3
    <3>4. CASE Alive /\ row[i] # None
      <4>1. w \in Seq(Items) /\ ToSet(w) = ToSet(seen) \ {i}
        BY WithoutProperties DEF IInv, Types
      <4> DEFINE q == Append(w, i)
      <4> HIDE DEF w
      <4>2. /\ Len(w) \in Nat /\ DOMAIN w = 1..Len(w) /\ DOMAIN q = 1..(Len(w) + 1)
            /\ q[Len(w) + 1] = i /\ \A n \in 1..Len(w) : q[n] = w[n]
        BY <3>1, <4>1, AppendProperties, LenProperties
      <4> HIDE DEF q
      <4>3. \A n \in DOMAIN q : q[n] = i \/ q[n] \in ToSet(w)
        <5>1. \A n \in 1..(Len(w) + 1) : n = Len(w) + 1 \/ n \in 1..Len(w)
          BY <4>2
        <5>. QED BY <4>2, <5>1 DEF ToSet
      <4>4. ToSet(q) \subseteq ToSet(seen) \cup {i}
        BY <4>1, <4>3 DEF ToSet
      <4>5. seen' = q
        BY <3>2, <3>4 DEF q
      <4>6. SUFFICES ASSUME NEW j \in Pending, j # i
                     PROVE  j \in Pending' /\ row'[j] = row[j]
        BY <3>1, <3>4
      <4>. QED BY <3>1, <4>4, <4>5, <4>6 DEF Pending, Has
    <3>. QED BY <3>3, <3>4
  <2>6. CASE FeedChanges \/ StartScan \/ FetchFails \/ LoadPending \/ AskNotification
             \/ ItemFails \/ ScanDies
    BY <2>1, <2>6 DEF FeedChanges, StartScan, FetchFails, LoadPending, AskNotification, ItemFails,
       ScanDies
  <2>. QED BY <2>2, <2>3, <2>4, <2>5, <2>6 DEF Next
<1>2. Spec => [][Keeps]_vars
  <2> HIDE DEF Keeps
  <2>. QED BY <1>1, Invariance, PTL DEF Spec
<1>. QED BY <1>2 DEF PendingIsKept

-----------------------------------------------------------------------------
(***************************************************************************)
(* Reminders, from ReminderAssumption only.                                *)
(***************************************************************************)

(* What is final for the worker was due.                                    *)
SentIsPast ==
  \A k \in Keys : phase[k] \in {"sent", "failed"} => k[2] <= now

(* Whoever is in the middle of something is so for a todo, and the hook for *)
(* a reminder that was due.                                                 *)
AtWork ==
  \A p \in Procs :
    /\ op[p].stage # "idle" => op[p].todo \in Todos
    /\ op[p].stage = "advance" => op[p].due \in 1 .. now

(* One that nobody overlapped is the only one at the todo; after a calm     *)
(* change nobody is.                                                        *)
OneWriter ==
  /\ \A p \in Procs : op[p].alone => Syncing(op[p].todo) = {p}
  /\ \A t \in Todos : calm[t] => Syncing(t) = {}

(* What one that nobody overlapped knows at each of its three calls: its    *)
(* item is the todo; a slot left out has no reminder to come, however late  *)
(* the call is; a slot to queue is the todo's; and once the open rows are   *)
(* cancelled none is queued behind it.                                      *)
OnTrack(p) ==
  LET t == op[p].todo
  IN  /\ op[p].stage = "prepare" => op[p].item = todo[t]
      /\ op[p].stage = "cancel" /\ op[p].due = 0 =>
           ~ (todo[t].status = "pending" /\ todo[t].at > now)
      /\ op[p].stage = "upsert" \/ (op[p].stage = "cancel" /\ op[p].due # 0) =>
           op[p].due # 0 /\ todo[t].status = "pending" /\ todo[t].at = op[p].due
      /\ op[p].stage = "upsert" => \A s \in Slots : phase[<<t, s>>] # "queued"

Followed == \A p \in Procs : op[p].alone => OnTrack(p)

ReminderInv ==
  /\ ReminderTypeOK
  /\ SentIsPast
  /\ AtWork
  /\ OneWriter
  /\ Followed
  /\ SyncHeals

(* The next reminder is later than the clock, and at most a period later    *)
(* than the later of the two.                                               *)
LEMMA NextIsLater ==
  ASSUME now \in Nat, NEW at \in Nat, at # 0
  PROVE  /\ NextReminder(at) \in Nat
         /\ NextReminder(at) > now
         /\ NextReminder(at) > at
         /\ at <= now => NextReminder(at) <= now + Period
<1>1. Period \in Nat \ {0}
  BY ReminderAssumption DEF ReminderAssumption
<1>2. CASE at > now
  BY <1>1, <1>2 DEF NextReminder
<1>3. CASE ~ (at > now)
  <2> DEFINE n == (now - at) \div Period
  <2>1. now - at \in Nat
    BY <1>3
  <2>2. n \in Nat /\ Period * n <= now - at /\ now - at < Period * n + Period
    BY <2>1, <1>1
  <2>3. Period * (n + 1) = Period * n + Period /\ Period * n \in Nat
    BY <2>2, <1>1
  <2>4. NextReminder(at) = at + Period * (n + 1)
    BY <1>3 DEF NextReminder
  <2>. HIDE DEF n
  <2>. QED BY <1>1, <1>3, <2>2, <2>3, <2>4
<1>. QED BY <1>2, <1>3

(* What a process is in the middle of.                                      *)
Doing ==
  [stage : {"idle", "read", "advance", "prepare", "cancel", "upsert"},
   todo : Todos \cup {NoTodo}, item : TodoItems, due : 0 .. MaxSlot,
   alone : BOOLEAN]

(* Who is syncing a todo.                                                   *)
Steps == {"prepare", "cancel", "upsert"}

LEMMA SyncingIs ==
  ASSUME NEW t
  PROVE  /\ \A q : q \in Syncing(t) <=>
              q \in Procs /\ op[q].todo = t /\ op[q].stage \in Steps
         /\ \A q : q \in Syncing(t)' <=>
              q \in Procs /\ op'[q].todo = t /\ op'[q].stage \in Steps
  BY DEF Syncing, Steps, Procs

(* One that nobody overlapped is at one of the three calls.                 *)
LEMMA AloneIsSyncing ==
  ASSUME OneWriter, NEW p \in Procs, op[p].alone
  PROVE  /\ op[p].stage \in Steps
         /\ \A q \in Procs : op[q].todo = op[p].todo /\ op[q].stage \in Steps => q = p
<1>1. Syncing(op[p].todo) = {p}
  BY DEF OneWriter
<1>. QED BY <1>1, SyncingIs

(* A process that another writer overlapped goes on as before, but no       *)
(* longer alone.                                                            *)
LEMMA Overlapped ==
  ASSUME ReminderTypeOK, NEW q \in Procs, NEW t,
         op'[q] = [op[q] EXCEPT !.alone = op[q].alone /\ op[q].todo # t]
  PROVE  /\ op'[q].stage = op[q].stage /\ op'[q].todo = op[q].todo
         /\ op'[q].item = op[q].item /\ op'[q].due = op[q].due
         /\ op'[q].alone <=> op[q].alone /\ op[q].todo # t
         /\ op'[q] \in Doing
<1> DEFINE b == op[q].alone /\ op[q].todo # t
<1>1. op[q] \in Doing
  BY DEF ReminderTypeOK, Doing
<1>2. b \in BOOLEAN /\ (b <=> op[q].alone /\ op[q].todo # t)
  OBVIOUS
<1>3. op'[q] = [op[q] EXCEPT !.alone = b]
  BY Zenon
<1>. HIDE DEF b
<1>4. op'[q].alone = b
  BY <1>1, <1>3 DEF Doing
<1>5. /\ op'[q].stage = op[q].stage /\ op'[q].todo = op[q].todo
      /\ op'[q].item = op[q].item /\ op'[q].due = op[q].due
      /\ op'[q] \in Doing
  BY <1>1, <1>2, <1>3 DEF Doing
<1>. QED BY <1>2, <1>4, <1>5, Zenon

(* A todo transaction on the chat path or in the hook: whoever starts it    *)
(* was not syncing, and it begins with the cancelling only when the todo is *)
(* left without a reminder to come.                                         *)
LEMMA WroteKeeps ==
  ASSUME ReminderInv,
         NEW p \in Procs, NEW t \in Todos, NEW item \in TodoItems,
         NEW stage \in {"prepare", "cancel"},
         op[p].stage \notin Steps,
         Wrote(p, t, item, stage),
         stage = "cancel" => ~ (item.status = "pending" /\ item.at > now),
         UNCHANGED <<now, phase, got, failures>>,
         ran' \in SUBSET Keys, ops' \in 0 .. MaxOps,
         merging' \in [Procs -> Todos \cup {NoTodo}]
  PROVE  ReminderInv'
<1>. USE DEF ReminderInv
<1>1. ReminderTypeOK /\ NoTodo \notin Todos
  BY ReminderAssumption DEF ReminderAssumption
<1>2. op' = [q \in Procs |->
        IF q = p THEN [stage |-> stage, todo |-> t, item |-> item, due |-> 0,
                       alone |-> Syncing(t) = {}]
        ELSE [op[q] EXCEPT !.alone = op[q].alone /\ op[q].todo # t]]
  BY DEF Wrote
<1>3. /\ op'[p].stage = stage /\ op'[p].todo = t /\ op'[p].item = item /\ op'[p].due = 0
      /\ op'[p].alone <=> Syncing(t) = {}
  BY <1>2
<1>4. ASSUME NEW q \in Procs, q # p
      PROVE  /\ op'[q].stage = op[q].stage /\ op'[q].todo = op[q].todo
             /\ op'[q].item = op[q].item /\ op'[q].due = op[q].due
             /\ op'[q].alone <=> op[q].alone /\ op[q].todo # t
             /\ op'[q] \in Doing
  <2>1. op'[q] = [op[q] EXCEPT !.alone = op[q].alone /\ op[q].todo # t]
    BY <1>2, <1>4, Zenon
  <2>. QED BY <1>1, <2>1, Overlapped, Zenon
<1>5. todo' = [todo EXCEPT ![t] = item] /\ calm' = [calm EXCEPT ![t] = FALSE]
  BY DEF Wrote
<1>6. todo'[t] = item /\ \A u \in Todos : u # t => todo'[u] = todo[u]
  BY <1>1, <1>5 DEF ReminderTypeOK
<1>7. ~ calm'[t] /\ \A u \in Todos : u # t => calm'[u] = calm[u]
  BY <1>1, <1>5 DEF ReminderTypeOK
<1>8. ReminderTypeOK'
  <2>1. [stage |-> stage, todo |-> t, item |-> item, due |-> 0,
         alone |-> Syncing(t) = {}] \in Doing
    BY ReminderAssumption DEF ReminderAssumption, Doing
  <2>2. op'[p] \in Doing /\ \A q \in Procs : op'[q] \in Doing
    BY <1>2, <1>4, <2>1
  <2>3. op' \in [Procs -> Doing]
    BY <1>2, <2>1, <2>2
  <2>. QED BY <1>1, <1>5, <2>3 DEF ReminderTypeOK, Doing, Procs, Keys, Slots, TodoItems
<1>9. SentIsPast'
  BY DEF SentIsPast, Keys, Slots
<1>10. AtWork'
  <2>1. ASSUME NEW q \in Procs
        PROVE  /\ op'[q].stage # "idle" => op'[q].todo \in Todos
               /\ op'[q].stage = "advance" => op'[q].due \in 1 .. now
    BY <1>3, <1>4 DEF AtWork
  <2>. QED BY <2>1 DEF AtWork, Procs
<1>11. OneWriter'
  <2>1. ASSUME NEW q \in Procs, op'[q].alone
        PROVE  /\ op'[q].stage \in Steps
               /\ \A r \in Procs :
                    op'[r].todo = op'[q].todo /\ op'[r].stage \in Steps => r = q
    <3>1. CASE q = p
      <4>1. \A r \in Procs : ~ (op[r].todo = t /\ op[r].stage \in Steps)
        BY <1>3, <2>1, <3>1, SyncingIs
      <4>. QED BY <1>3, <1>4, <3>1, <4>1 DEF Steps
    <3>2. CASE q # p
      <4>1. op[q].alone /\ op[q].todo # t
        BY <1>4, <2>1, <3>2
      <4>2. /\ op[q].stage \in Steps
            /\ \A r \in Procs : op[r].todo = op[q].todo /\ op[r].stage \in Steps => r = q
        BY <4>1, AloneIsSyncing
      <4>. QED BY <1>3, <1>4, <3>2, <4>1, <4>2
    <3>. QED BY <3>1, <3>2
  <2>2. ASSUME NEW u \in Todos, calm'[u]
        PROVE  Syncing(u)' = {}
    <3>1. u # t /\ calm[u]
      BY <1>7, <2>2
    <3>2. Syncing(u) = {}
      BY <3>1 DEF OneWriter
    <3>. QED BY <1>3, <1>4, <3>1, <3>2, SyncingIs
  <2>. QED BY <2>1, <2>2 DEF OneWriter, Syncing, Procs, Steps
<1>12. Followed'
  <2>1. ASSUME NEW q \in Procs, op'[q].alone
        PROVE  OnTrack(q)'
    <3>1. CASE q = p
      BY <1>3, <1>6, <3>1 DEF OnTrack
    <3>2. CASE q # p
      <4>1. op[q].alone /\ op[q].todo # t
        BY <1>4, <2>1, <3>2
      <4>2. OnTrack(q) /\ op[q].stage \in Steps
        BY <4>1, AloneIsSyncing DEF Followed
      <4>3. op[q].todo \in Todos
        BY <4>2 DEF AtWork, Steps
      <4>4. todo'[op[q].todo] = todo[op[q].todo]
        BY <1>6, <4>1, <4>3
      <4>. QED BY <1>4, <3>2, <4>2, <4>4 DEF OnTrack, Slots
    <3>. QED BY <3>1, <3>2
  <2>. QED BY <2>1 DEF Followed, Procs
<1>13. SyncHeals'
  <2>1. ASSUME NEW u \in Todos, calm'[u], todo'[u].status # "merged"
        PROVE  OnlyItsReminder(u)' /\ ItsReminder(u)'
    <3>1. u # t /\ calm[u]
      BY <1>7, <2>1
    <3>2. OnlyItsReminder(u) /\ ItsReminder(u) /\ todo'[u] = todo[u]
      BY <1>6, <2>1, <3>1 DEF SyncHeals
    <3>. QED BY <3>2 DEF OnlyItsReminder, ItsReminder, Slots
  <2>. QED BY <2>1 DEF SyncHeals
<1>. QED BY <1>8, <1>9, <1>10, <1>11, <1>12, <1>13

(* A request whose only write to the todo is this step, and which leaves    *)
(* the todo healed unless it is the delete of the source of a merge.        *)
LEMMA WroteItemKeeps ==
  ASSUME ReminderInv,
         NEW t \in Todos, NEW item \in TodoItems,
         WroteItem(t, item),
         UNCHANGED <<now, got, ran, failures>>,
         ops' \in 0 .. MaxOps,
         merging' \in [Procs -> Todos \cup {NoTodo}],
         phase' \in [Keys -> {"none", "queued", "sent", "failed", "cancelled"}],
         \A u \in Todos, s \in Slots : u # t => phase'[<<u, s>>] = phase[<<u, s>>],
         SentIsPast',
         item.status # "merged" => OnlyItsReminder(t)' /\ ItsReminder(t)'
  PROVE  ReminderInv'
<1>. USE DEF ReminderInv
<1>1. ReminderTypeOK
  OBVIOUS
<1>2. \A u \in Todos, s \in Slots : u # t => phase'[<<u, s>>] = phase[<<u, s>>]
  OBVIOUS
<1>3. ASSUME NEW q \in Procs
      PROVE  /\ op'[q].stage = op[q].stage /\ op'[q].todo = op[q].todo
             /\ op'[q].item = op[q].item /\ op'[q].due = op[q].due
             /\ op'[q].alone <=> op[q].alone /\ op[q].todo # t
             /\ op'[q] \in Doing
  <2>1. op'[q] = [op[q] EXCEPT !.alone = op[q].alone /\ op[q].todo # t]
    BY <1>3 DEF WroteItem
  <2>. QED BY <1>1, <2>1, Overlapped, Zenon
<1>4. todo'[t] = item /\ \A u \in Todos : u # t => todo'[u] = todo[u]
  BY <1>1 DEF ReminderTypeOK, WroteItem
<1>5. /\ calm'[t] => Syncing(t) = {}
      /\ \A u \in Todos : u # t => calm'[u] = calm[u]
  BY <1>1 DEF ReminderTypeOK, WroteItem
<1>6. ReminderTypeOK'
  <2>1. op' \in [Procs -> Doing]
    BY <1>3 DEF WroteItem
  <2>2. todo' \in [Todos -> TodoItems] /\ calm' \in [Todos -> BOOLEAN]
    BY <1>1 DEF ReminderTypeOK, WroteItem
  <2>. QED
    BY <1>1, <2>1, <2>2
    DEF ReminderTypeOK, Doing, Procs, Keys, Slots, TodoItems
<1>7. AtWork'
  <2>1. ASSUME NEW q \in Procs
        PROVE  /\ op'[q].stage # "idle" => op'[q].todo \in Todos
               /\ op'[q].stage = "advance" => op'[q].due \in 1 .. now
    BY <1>3 DEF AtWork
  <2>. QED BY <2>1 DEF AtWork, Procs
<1>8. OneWriter'
  <2>1. ASSUME NEW q \in Procs, op'[q].alone
        PROVE  /\ op'[q].stage \in Steps
               /\ \A r \in Procs :
                    op'[r].todo = op'[q].todo /\ op'[r].stage \in Steps => r = q
    <3>1. /\ op[q].stage \in Steps
          /\ \A r \in Procs : op[r].todo = op[q].todo /\ op[r].stage \in Steps => r = q
      BY <1>3, <2>1, AloneIsSyncing
    <3>. QED BY <1>3, <3>1
  <2>2. ASSUME NEW u \in Todos, calm'[u]
        PROVE  Syncing(u)' = {}
    <3>1. Syncing(u) = {}
      BY <1>5, <2>2 DEF OneWriter
    <3>. QED BY <1>3, <3>1, SyncingIs
  <2>. QED BY <2>1, <2>2 DEF OneWriter, Syncing, Procs, Steps
<1>9. Followed'
  <2>1. ASSUME NEW q \in Procs, op'[q].alone
        PROVE  OnTrack(q)'
    <3>1. op[q].alone /\ op[q].todo # t
      BY <1>3, <2>1
    <3>2. OnTrack(q) /\ op[q].stage \in Steps
      BY <3>1, AloneIsSyncing DEF Followed
    <3>3. op[q].todo \in Todos
      BY <3>2 DEF AtWork, Steps
    <3>4. todo'[op[q].todo] = todo[op[q].todo]
      BY <1>4, <3>1, <3>3
    <3>5. \A s \in Slots : phase'[<<op[q].todo, s>>] = phase[<<op[q].todo, s>>]
      BY <1>2, <3>1, <3>3
    <3>. QED BY <1>3, <3>2, <3>4, <3>5 DEF OnTrack, Slots
  <2>. QED BY <2>1 DEF Followed, Procs
<1>10. SyncHeals'
  <2>1. ASSUME NEW u \in Todos, calm'[u], todo'[u].status # "merged"
        PROVE  OnlyItsReminder(u)' /\ ItsReminder(u)'
    <3>1. CASE u = t
      BY <1>4, <2>1, <3>1
    <3>2. CASE u # t
      <4>1. OnlyItsReminder(u) /\ ItsReminder(u) /\ todo'[u] = todo[u]
        BY <1>4, <1>5, <2>1, <3>2 DEF SyncHeals
      <4>2. todo[u].at \in 0 .. MaxSlot /\ now \in Nat
        BY <1>1 DEF ReminderTypeOK, TodoItems
      <4>. QED BY <1>2, <3>2, <4>1, <4>2
               DEF OnlyItsReminder, ItsReminder, Slots
    <3>. QED BY <3>1, <3>2
  <2>. QED BY <2>1 DEF SyncHeals
<1>. QED BY <1>6, <1>7, <1>8, <1>9, <1>10

(* The management API and the group delete: the todo and its rows in one    *)
(* transaction.                                                             *)
LEMMA WroteBothKeeps ==
  ASSUME ReminderInv,
         NEW t \in Todos, NEW item \in TodoItems, NEW due,
         due = Request(item),
         WroteBoth(t, item, due),
         UNCHANGED <<now, merging, failures>>,
         ops' \in 0 .. MaxOps
  PROVE  ReminderInv'
<1>1. ReminderTypeOK /\ SentIsPast
  BY DEF ReminderInv
<1>2. /\ item.status = "pending" /\ item.at > now => due = item.at /\ due \in Slots
      /\ ~ (item.status = "pending" /\ item.at > now) => due = 0
  BY <1>1 DEF Request, TodoItems, Slots, ReminderTypeOK
<1>3. /\ WroteItem(t, item) /\ UNCHANGED <<got, ran>>
      /\ phase' = [k \in Keys |->
           IF k = <<t, due>> /\ phase[k] # "sent" THEN "queued"
           ELSE IF k \in OpenRows(t) THEN "cancelled" ELSE phase[k]]
  BY DEF WroteBoth
<1>4. ASSUME NEW u \in Todos, NEW s \in Slots
      PROVE  /\ u # t => phase'[<<u, s>>] = phase[<<u, s>>]
             /\ u = t /\ phase'[<<u, s>>] = "queued" => s = due
             /\ u = t /\ s = due /\ phase[<<u, s>>] # "sent" => phase'[<<u, s>>] = "queued"
  BY <1>3 DEF Keys, OpenRows
<1>5. phase' \in [Keys -> {"none", "queued", "sent", "failed", "cancelled"}]
  BY <1>1, <1>3 DEF ReminderTypeOK
<1>6. SentIsPast'
  <2>1. ASSUME NEW k \in Keys, phase'[k] \in {"sent", "failed"}
        PROVE  k[2] <= now
    <3>1. phase[k] \in {"sent", "failed"}
      BY <1>3, <2>1
    <3>. QED BY <1>1, <3>1 DEF SentIsPast
  <2>. QED BY <2>1 DEF SentIsPast, Keys, Slots
<1>7. todo'[t] = item
  BY <1>1, <1>3 DEF ReminderTypeOK, WroteItem
<1>8. OnlyItsReminder(t)'
  BY <1>2, <1>4, <1>7 DEF OnlyItsReminder, Slots
<1>9. ItsReminder(t)'
  <2>1. ASSUME item.status = "pending", item.at > now
        PROVE  phase'[<<t, item.at>>] = "queued"
    <3>1. due = item.at /\ due \in Slots /\ due > now
      BY <1>2, <2>1
    <3>2. phase[<<t, due>>] # "sent"
      BY <1>1, <3>1 DEF SentIsPast, Keys, Slots, ReminderTypeOK
    <3>. QED BY <1>4, <3>1, <3>2
  <2>. QED BY <1>7, <2>1 DEF ItsReminder
<1>10. merging' \in [Procs -> Todos \cup {NoTodo}]
  BY <1>1 DEF ReminderTypeOK
<1>. QED BY <1>3, <1>4, <1>5, <1>6, <1>8, <1>9, <1>10, WroteItemKeeps

(* A step of one process that leaves the todos alone: it queues rows of no  *)
(* todo but the one it syncs, dequeues rows that were due or of that todo,  *)
(* and where it makes a todo calm leaves it healed with nobody at it.       *)
OwnStep(p, r) ==
  /\ p \in Procs /\ r \in Doing
  /\ op' = [op EXCEPT ![p] = r]
  /\ UNCHANGED <<todo, now>>
  /\ phase' \in [Keys -> {"none", "queued", "sent", "failed", "cancelled"}]
  /\ calm' \in [Todos -> BOOLEAN]
  /\ got' \in SUBSET (Keys \X {"reminder"} \X {0})
  /\ ran' \in SUBSET Keys
  /\ ops' \in 0 .. MaxOps
  /\ failures' \in 0 .. MaxFailures
  /\ merging' \in [Procs -> Todos \cup {NoTodo}]
  /\ r.stage # "idle" => r.todo \in Todos
  /\ r.stage = "advance" => r.due \in 1 .. now
  /\ r.stage \in Steps => op[p].stage \in Steps /\ r.todo = op[p].todo
  /\ r.alone => op[p].alone /\ r.stage \in Steps /\ OnTrack(p)'
  /\ SentIsPast'
  /\ \A u \in Todos, s \in Slots :
       \/ op[p].todo = u /\ op[p].stage \in Steps
       \/ /\ phase'[<<u, s>>] = "queued" => phase[<<u, s>>] = "queued"
          /\ phase[<<u, s>>] = "queued" => phase'[<<u, s>>] = "queued" \/ s <= now
  /\ \A u \in Todos :
       calm'[u] => \/ calm[u]
                   \/ /\ Syncing(u)' = {}
                      /\ OnlyItsReminder(u)' /\ ItsReminder(u)'

(* Such a step keeps the invariant.                                         *)
LEMMA OwnStepKeeps ==
  ASSUME ReminderInv, NEW p, NEW r, OwnStep(p, r)
  PROVE  ReminderInv'
<1>. USE DEF ReminderInv
<1>1. ReminderTypeOK /\ p \in Procs
  BY DEF OwnStep
<1>2. op'[p] = r /\ \A q \in Procs : q # p => op'[q] = op[q]
  BY <1>1 DEF OwnStep, ReminderTypeOK
<1>3. ReminderTypeOK'
  <2>1. op' \in [Procs -> Doing]
    BY <1>1 DEF OwnStep, ReminderTypeOK, Doing
  <2>. QED BY <1>1, <2>1 DEF OwnStep, ReminderTypeOK, Doing, Procs, Keys,
                             Slots, TodoItems
<1>4. SentIsPast'
  BY DEF OwnStep
<1>5. AtWork'
  <2>1. ASSUME NEW q \in Procs
        PROVE  /\ op'[q].stage # "idle" => op'[q].todo \in Todos
               /\ op'[q].stage = "advance" => op'[q].due \in 1 .. now
    BY <1>2 DEF AtWork, OwnStep
  <2>. QED BY <2>1 DEF AtWork, OwnStep, Procs
<1>6. OneWriter'
  <2>1. ASSUME NEW q \in Procs, op'[q].alone
        PROVE  /\ op'[q].stage \in Steps
               /\ \A s \in Procs :
                    op'[s].todo = op'[q].todo /\ op'[s].stage \in Steps => s = q
    <3>1. op[q].alone /\ op'[q].todo = op[q].todo /\ op'[q].stage \in Steps
      BY <1>2, <2>1, AloneIsSyncing DEF OwnStep
    <3>2. \A s \in Procs : op[s].todo = op[q].todo /\ op[s].stage \in Steps => s = q
      BY <3>1, AloneIsSyncing
    <3>. QED BY <1>2, <3>1, <3>2 DEF OwnStep
  <2>2. ASSUME NEW u \in Todos, calm'[u]
        PROVE  Syncing(u)' = {}
    <3>1. CASE calm[u]
      <4>1. Syncing(u) = {}
        BY <3>1 DEF OneWriter
      <4>2. \A q \in Procs : ~ (op[q].todo = u /\ op[q].stage \in Steps)
        BY <4>1, SyncingIs
      <4>3. \A q \in Procs : ~ (op'[q].todo = u /\ op'[q].stage \in Steps)
        BY <1>2, <4>2 DEF OwnStep
      <4>. QED BY <4>3, SyncingIs
    <3>. QED BY <2>2, <3>1 DEF OwnStep
  <2>. QED BY <2>1, <2>2 DEF OneWriter, Syncing, Procs, Steps
<1>7. Followed'
  <2>1. ASSUME NEW q \in Procs, op'[q].alone
        PROVE  OnTrack(q)'
    <3>1. CASE q = p
      BY <1>2, <2>1, <3>1 DEF OwnStep
    <3>2. CASE q # p
      <4>1. op[q].alone /\ op'[q] = op[q]
        BY <1>2, <2>1, <3>2
      <4>2. OnTrack(q) /\ op[q].stage \in Steps
        BY <4>1, AloneIsSyncing DEF Followed
      <4>3. op[q].todo \in Todos
        BY <4>2 DEF AtWork, Steps
      <4>4. ~ (op[p].todo = op[q].todo /\ op[p].stage \in Steps)
        BY <1>1, <3>2, <4>1, AloneIsSyncing
      <4>5. \A s \in Slots :
              phase'[<<op[q].todo, s>>] = "queued" => phase[<<op[q].todo, s>>] = "queued"
        BY <4>3, <4>4 DEF OwnStep
      <4>. QED BY <4>1, <4>2, <4>5 DEF OnTrack, OwnStep, Slots
    <3>. QED BY <3>1, <3>2
  <2>. QED BY <2>1 DEF Followed, Procs
<1>8. SyncHeals'
  <2>1. ASSUME NEW u \in Todos, calm'[u], todo'[u].status # "merged"
        PROVE  OnlyItsReminder(u)' /\ ItsReminder(u)'
    <3>1. CASE calm[u]
      <4>1. OnlyItsReminder(u) /\ ItsReminder(u) /\ Syncing(u) = {}
        BY <2>1, <3>1 DEF SyncHeals, OneWriter, OwnStep
      <4>2. ~ (op[p].todo = u /\ op[p].stage \in Steps)
        BY <1>1, <4>1, SyncingIs
      <4>3. todo[u].at \in 0 .. MaxSlot /\ now \in Nat /\ todo' = todo /\ now' = now
        BY <1>1 DEF ReminderTypeOK, TodoItems, OwnStep
      <4>4. \A s \in Slots :
              /\ phase'[<<u, s>>] = "queued" => phase[<<u, s>>] = "queued"
              /\ phase[<<u, s>>] = "queued" => phase'[<<u, s>>] = "queued" \/ s <= now
        BY <4>2 DEF OwnStep
      <4>. QED BY <4>1, <4>3, <4>4
               DEF OnlyItsReminder, ItsReminder, Slots
    <3>. QED BY <2>1, <3>1 DEF OwnStep
  <2>. QED BY <2>1 DEF SyncHeals
<1>. QED BY <1>3, <1>4, <1>5, <1>6, <1>7, <1>8

(* A process that stops, or goes on to something other than syncing.        *)
LEMMA StopKeeps ==
  ASSUME ReminderInv, NEW p \in Procs, NEW r \in Doing,
         op' = [op EXCEPT ![p] = r],
         r.stage \notin Steps, ~ r.alone,
         r.stage # "idle" => r.todo \in Todos,
         r.stage = "advance" => r.due \in 1 .. now,
         UNCHANGED <<todo, now, phase, got, calm>>,
         ran' \in SUBSET Keys, ops' \in 0 .. MaxOps, failures' \in 0 .. MaxFailures,
         merging' \in [Procs -> Todos \cup {NoTodo}]
  PROVE  ReminderInv'
<1>1. ReminderTypeOK /\ SentIsPast
  BY DEF ReminderInv
<1>2. SentIsPast'
  BY <1>1 DEF SentIsPast, Keys, Slots
<1>3. OwnStep(p, r)
  BY <1>1, <1>2 DEF OwnStep, ReminderTypeOK
<1>. QED BY <1>3, OwnStepKeeps

LEMMA AtRestIsDoing ==
  /\ AtRest \in Doing /\ AtRest.stage = "idle" /\ ~ AtRest.alone
  /\ AtRest.stage \notin Steps
  BY ReminderAssumption DEF ReminderAssumption, AtRest, Absent, Item,
         TodoItems, Doing, Steps

(* A process that finishes a sync it was at leaves the todo calm only if    *)
(* nobody overlapped it, and then it must have healed it.                   *)
LEMMA FinishKeeps ==
  ASSUME ReminderInv, NEW p \in Procs,
         op[p].stage \in Steps,
         FinishSync(p),
         UNCHANGED <<todo, now, merging, got, ran, ops, failures>>,
         phase' \in [Keys -> {"none", "queued", "sent", "failed", "cancelled"}],
         SentIsPast',
         \A u \in Todos, s \in Slots :
           u # op[p].todo => phase'[<<u, s>>] = phase[<<u, s>>],
         NEW t, t = op[p].todo,
         op[p].alone => OnlyItsReminder(t)' /\ ItsReminder(t)'
  PROVE  ReminderInv'
<1>1. ReminderTypeOK /\ OneWriter
  BY DEF ReminderInv
<1>2. t \in Todos
  BY DEF ReminderInv, AtWork, Steps
<1>3. /\ calm' \in [Todos -> BOOLEAN]
      /\ calm'[t] => op[p].alone
      /\ \A u \in Todos : u # t => calm'[u] = calm[u]
  BY <1>1, <1>2 DEF ReminderTypeOK, FinishSync
<1>4. op' = [op EXCEPT ![p] = AtRest]
  BY DEF FinishSync
<1>5. op'[p] = AtRest /\ \A q \in Procs : q # p => op'[q] = op[q]
  BY <1>1, <1>4 DEF ReminderTypeOK
<1>6. ASSUME NEW u \in Todos, calm'[u]
      PROVE  \/ calm[u]
             \/ /\ Syncing(u)' = {}
                /\ OnlyItsReminder(u)' /\ ItsReminder(u)'
  <2>1. CASE u = t
    <3>1. op[p].alone
      BY <1>3, <1>6, <2>1
    <3>2. \A q \in Procs : op[q].todo = t /\ op[q].stage \in Steps => q = p
      BY <1>1, <3>1, AloneIsSyncing
    <3>3. Syncing(u)' = {}
      BY <1>5, <2>1, <3>2, AtRestIsDoing, SyncingIs
    <3>. QED BY <2>1, <3>1, <3>3
  <2>. QED BY <1>3, <1>6, <2>1
<1>7. \A u \in Todos, s \in Slots :
        \/ op[p].todo = u /\ op[p].stage \in Steps
        \/ /\ phase'[<<u, s>>] = "queued" => phase[<<u, s>>] = "queued"
           /\ phase[<<u, s>>] = "queued" => phase'[<<u, s>>] = "queued" \/ s <= now
  BY <1>2
<1>8. OwnStep(p, AtRest)
  BY <1>1, <1>3, <1>4, <1>6, <1>7, AtRestIsDoing DEF OwnStep, ReminderTypeOK
<1>. QED BY <1>8, OwnStepKeeps

LEMMA PrepareKeeps ==
  ASSUME ReminderInv, NEW p \in Procs, Prepare(p)
  PROVE  ReminderInv'
<1>1. ReminderTypeOK /\ SentIsPast /\ op[p].stage = "prepare" /\ op[p].todo \in Todos
  BY DEF ReminderInv, AtWork, Prepare
<1>2. op[p] \in Doing /\ op[p].item \in TodoItems
  BY <1>1 DEF ReminderTypeOK, Doing
<1>3. Request(op[p].item) \in 0 .. MaxSlot
  BY <1>1, <1>2, ReminderAssumption DEF Request, TodoItems, ReminderTypeOK, ReminderAssumption
<1>4. PICK r : r = [op[p] EXCEPT !.stage = "cancel", !.due = Request(op[p].item)]
  OBVIOUS
<1>5. /\ r \in Doing /\ r.stage = "cancel" /\ r.todo = op[p].todo /\ r.item = op[p].item
      /\ r.due = Request(op[p].item) /\ r.alone = op[p].alone
  BY <1>2, <1>3, <1>4 DEF Doing
<1>6. op' = [op EXCEPT ![p] = r] /\ op'[p] = r
  BY <1>1, <1>4 DEF Prepare, ReminderTypeOK
<1>7. ASSUME op[p].alone PROVE OnTrack(p)'
  <2>1. op[p].item = todo[op[p].todo]
    BY <1>1, <1>7 DEF ReminderInv, Followed, OnTrack
  <2>2. todo[op[p].todo].at \in 0 .. MaxSlot /\ now \in Nat
    BY <1>1 DEF ReminderTypeOK, TodoItems
  <2>3. /\ r.due # 0 => todo[op[p].todo].status = "pending" /\ todo[op[p].todo].at = r.due
        /\ r.due = 0 => ~ (todo[op[p].todo].status = "pending" /\ todo[op[p].todo].at > now)
    BY <1>5, <2>1, <2>2 DEF Request
  <2>4. todo' = todo /\ now' = now
    BY DEF Prepare
  <2>. QED BY <1>5, <1>6, <2>3, <2>4 DEF OnTrack
<1>8. SentIsPast'
  BY <1>1 DEF SentIsPast, Keys, Slots, Prepare, rows
<1>9. OwnStep(p, r)
  BY <1>1, <1>5, <1>6, <1>7, <1>8
  DEF OwnStep, Steps, ReminderTypeOK, Prepare, rows
<1>. QED BY <1>9, OwnStepKeeps

LEMMA CancelRowsKeeps ==
  ASSUME ReminderInv, NEW p \in Procs,
         CancelRows(p)
  PROVE  ReminderInv'
<1>1. ReminderTypeOK /\ SentIsPast /\ op[p].stage = "cancel" /\ op[p].todo \in Todos
  BY DEF ReminderInv, AtWork, CancelRows
<1>2. PICK t \in Todos : t = op[p].todo
  BY <1>1
<1>3. phase' = [k \in Keys |->
                  IF k \in OpenRows(t) THEN "cancelled" ELSE phase[k]]
  BY <1>2 DEF CancelRows, Outbox!Cancel
<1>4. phase' \in [Keys -> {"none", "queued", "sent", "failed", "cancelled"}]
  BY <1>1, <1>3 DEF ReminderTypeOK
<1>5. UNCHANGED <<todo, now, merging, got, ran, ops, failures>>
  BY DEF CancelRows, Outbox!Cancel
<1>6. SentIsPast'
  <2>1. ASSUME NEW k \in Keys, phase'[k] \in {"sent", "failed"} PROVE k[2] <= now
    BY <1>1, <1>3, <2>1 DEF SentIsPast
  <2>. QED BY <1>5, <2>1 DEF SentIsPast, Keys, Slots
<1>7. ASSUME NEW u \in Todos, NEW s \in Slots
      PROVE  /\ u # t => phase'[<<u, s>>] = phase[<<u, s>>]
             /\ u = t => phase'[<<u, s>>] # "queued"
  BY <1>3 DEF Keys, OpenRows
<1>8. CASE op[p].due = 0 /\ FinishSync(p)
  <2>1. ASSUME op[p].alone
        PROVE  OnlyItsReminder(t)' /\ ItsReminder(t)'
    <3>1. ~ (todo[t].status = "pending" /\ todo[t].at > now)
      BY <1>1, <1>2, <1>8, <2>1 DEF ReminderInv, Followed, OnTrack
    <3>. QED BY <1>5, <1>7, <3>1
             DEF OnlyItsReminder, ItsReminder, Slots
  <2>2. op[p].stage \in Steps
    BY <1>1 DEF Steps
  <2>3. \A u \in Todos, s \in Slots :
          u # op[p].todo => phase'[<<u, s>>] = phase[<<u, s>>]
    BY <1>2, <1>7
  <2>. QED BY <1>2, <1>4, <1>5, <1>6, <1>8, <2>1, <2>2, <2>3, FinishKeeps
<1>9. CASE op[p].due # 0 /\ op' = [op EXCEPT ![p].stage = "upsert"] /\ UNCHANGED calm
  <2>1. PICK r : r = [op[p] EXCEPT !.stage = "upsert"]
    OBVIOUS
  <2>2. /\ r \in Doing /\ r.stage = "upsert" /\ r.todo = t /\ r.due = op[p].due
        /\ r.alone = op[p].alone
    BY <1>1, <1>2, <2>1 DEF Doing, ReminderTypeOK
  <2>3. op' = [op EXCEPT ![p] = r] /\ op'[p] = r
    BY <1>1, <1>9, <2>1 DEF ReminderTypeOK
  <2>4. ASSUME op[p].alone PROVE OnTrack(p)'
    <3>1. todo[t].status = "pending" /\ todo[t].at = op[p].due
      BY <1>1, <1>2, <1>9, <2>4 DEF ReminderInv, Followed, OnTrack
    <3>. QED BY <1>5, <1>7, <1>9, <2>2, <2>3, <3>1 DEF OnTrack, Slots
  <2>5. calm' \in [Todos -> BOOLEAN] /\ \A u \in Todos : calm'[u] => calm[u]
    BY <1>1, <1>9 DEF ReminderTypeOK
  <2>6. \A u \in Todos, s \in Slots :
          \/ op[p].todo = u /\ op[p].stage \in Steps
          \/ /\ phase'[<<u, s>>] = "queued" => phase[<<u, s>>] = "queued"
             /\ phase[<<u, s>>] = "queued" => phase'[<<u, s>>] = "queued" \/ s <= now
    BY <1>1, <1>2, <1>7 DEF Steps
  <2>7. OwnStep(p, r)
    BY <1>1, <1>2, <1>4, <1>5, <1>6, <2>2, <2>3, <2>4, <2>5, <2>6
    DEF OwnStep, Steps, ReminderTypeOK
  <2>. QED BY <2>7, OwnStepKeeps
<1>. QED BY <1>8, <1>9 DEF CancelRows

LEMMA UpsertRowKeeps ==
  ASSUME ReminderInv, NEW p \in Procs,
         UpsertRow(p)
  PROVE  ReminderInv'
<1>1. ReminderTypeOK /\ SentIsPast /\ op[p].stage = "upsert" /\ op[p].todo \in Todos
  BY DEF ReminderInv, AtWork, UpsertRow
<1>2. PICK t \in Todos : t = op[p].todo
  BY <1>1
<1>3. PICK d : d = op[p].due
  OBVIOUS
<1>4. \/ phase[<<t, d>>] # "sent" /\ phase' = [phase EXCEPT ![<<t, d>>] = "queued"]
      \/ phase[<<t, d>>] = "sent" /\ phase' = phase
  BY <1>2, <1>3 DEF UpsertRow, Outbox!Accept, rows
<1>5. phase' \in [Keys -> {"none", "queued", "sent", "failed", "cancelled"}]
  BY <1>1, <1>4 DEF ReminderTypeOK
<1>6. UNCHANGED <<todo, now, merging, got, ran, ops, failures>>
  BY DEF UpsertRow, Outbox!Accept, rows
<1>7. SentIsPast'
  <2>1. ASSUME NEW k \in Keys, phase'[k] \in {"sent", "failed"} PROVE k[2] <= now
    BY <1>1, <1>4, <2>1 DEF SentIsPast, ReminderTypeOK
  <2>. QED BY <1>6, <2>1 DEF SentIsPast, Keys, Slots
<1>8. ASSUME NEW u \in Todos, NEW s \in Slots, u # t \/ s # d
      PROVE  phase'[<<u, s>>] = phase[<<u, s>>]
  BY <1>1, <1>4, <1>8 DEF Keys, ReminderTypeOK
<1>9. ASSUME op[p].alone
      PROVE  OnlyItsReminder(t)' /\ ItsReminder(t)'
  <2>1. /\ d # 0 /\ todo[t].status = "pending" /\ todo[t].at = d
        /\ \A s \in Slots : phase[<<t, s>>] # "queued"
    BY <1>1, <1>2, <1>3, <1>9 DEF ReminderInv, Followed, OnTrack
  <2>2. d \in Slots /\ now \in Nat
    BY <1>1, <1>3, <2>1 DEF ReminderTypeOK, Slots
  <2>3. OnlyItsReminder(t)'
    BY <1>6, <1>8, <2>1 DEF OnlyItsReminder, Slots
  <2>4. ASSUME d > now PROVE phase'[<<t, d>>] = "queued"
    <3>1. <<t, d>> \in Keys
      BY <2>2 DEF Keys
    <3>2. phase[<<t, d>>] # "sent"
      BY <1>1, <2>2, <2>4, <3>1 DEF SentIsPast, Slots
    <3>. QED BY <1>1, <1>4, <3>1, <3>2 DEF ReminderTypeOK
  <2>5. ItsReminder(t)'
    BY <1>6, <2>1, <2>4 DEF ItsReminder
  <2>. QED BY <2>3, <2>5
<1>10. op[p].stage \in Steps
  BY <1>1 DEF Steps
<1>11. FinishSync(p)
  BY DEF UpsertRow
<1>12. \A u \in Todos, s \in Slots :
         u # op[p].todo => phase'[<<u, s>>] = phase[<<u, s>>]
  BY <1>2, <1>8
<1>. QED BY <1>2, <1>5, <1>6, <1>7, <1>9, <1>10, <1>11, <1>12, FinishKeeps

(* The worker: what it ends was due; nothing it does queues a row.          *)
LEMMA EndsRowKeeps ==
  ASSUME ReminderInv, NEW k \in Keys, NEW end,
         end \in {"sent", "failed"}, k[2] <= now,
         phase' = [phase EXCEPT ![k] = end],
         NEW r \in Doing, op' = [op EXCEPT ![Hook] = r],
         \/ r = op[Hook]
         \/ r.stage = "advance" /\ r.todo \in Todos /\ r.due \in 1 .. now /\ ~ r.alone,
         UNCHANGED <<todo, now, merging, got, ran, calm, ops, failures>>
  PROVE  ReminderInv'
<1>1. ReminderTypeOK /\ SentIsPast /\ Hook \in Procs
  BY DEF ReminderInv, Procs
<1>2. phase' \in [Keys -> {"none", "queued", "sent", "failed", "cancelled"}]
  BY <1>1 DEF ReminderTypeOK
<1>3. SentIsPast'
  <2>1. ASSUME NEW j \in Keys, phase'[j] \in {"sent", "failed"} PROVE j[2] <= now
    BY <1>1, <2>1 DEF SentIsPast, ReminderTypeOK
  <2>. QED BY <2>1 DEF SentIsPast, Keys, Slots
<1>4. ASSUME NEW u \in Todos, NEW s \in Slots
      PROVE  /\ phase'[<<u, s>>] = "queued" => phase[<<u, s>>] = "queued"
             /\ phase[<<u, s>>] = "queued" => phase'[<<u, s>>] = "queued" \/ s <= now
  <2>1. <<u, s>> \in Keys /\ <<u, s>>[2] = s
    BY DEF Keys
  <2>2. CASE k = <<u, s>>
    BY <1>1, <2>1, <2>2 DEF ReminderTypeOK
  <2>3. CASE k # <<u, s>>
    BY <1>1, <2>1, <2>3 DEF ReminderTypeOK
  <2>. QED BY <2>2, <2>3
<1>5. /\ r.stage # "idle" => r.todo \in Todos
      /\ r.stage = "advance" => r.due \in 1 .. now
      /\ r.stage \in Steps => op[Hook].stage \in Steps /\ r.todo = op[Hook].todo
  BY <1>1 DEF ReminderInv, AtWork, Steps
<1>6. ASSUME r.alone PROVE op[Hook].alone /\ r.stage \in Steps /\ OnTrack(Hook)'
  <2>1. r = op[Hook] /\ op[Hook].alone
    BY <1>6
  <2>2. op' = op
    BY <1>1, <2>1 DEF ReminderTypeOK
  <2>3. OnTrack(Hook) /\ op[Hook].stage \in Steps
    BY <1>1, <2>1, AloneIsSyncing DEF ReminderInv, Followed
  <2>4. op[Hook].todo \in Todos
    BY <1>1, <2>3 DEF ReminderInv, AtWork, Steps
  <2>. QED BY <1>4, <2>1, <2>2, <2>3, <2>4 DEF OnTrack, Slots
<1>7. OwnStep(Hook, r)
  BY <1>1, <1>2, <1>3, <1>4, <1>5, <1>6 DEF OwnStep, ReminderTypeOK
<1>. QED BY <1>7, OwnStepKeeps

LEMMA WorkerKeeps ==
  ASSUME ReminderInv, Worker
  PROVE  ReminderInv'
<1>1. ReminderTypeOK /\ SentIsPast /\ Hook \in Procs
  BY DEF ReminderInv, Procs
<1>2. ASSUME NEW k \in Keys
      PROVE  k[1] \in Todos /\ k[2] \in Slots /\ k[2] \in 0 .. MaxSlot
  BY DEF Keys, Slots
<1>3. op[Hook] \in Doing /\ op = [op EXCEPT ![Hook] = op[Hook]]
  BY <1>1 DEF ReminderTypeOK, Doing
<1>4. ASSUME NEW k \in Keys, Push(k)
      PROVE  ReminderInv'
  <2>1. /\ op[Hook] = AtRest /\ got' = got \cup {<<k, "reminder", 0>>}
        /\ UNCHANGED <<todo, now, op, merging, phase, ran, calm, ops, failures>>
    BY <1>4 DEF Push, Due, Outbox!Transfer
  <2>2. got' \in SUBSET (Keys \X {"reminder"} \X {0})
    BY <1>1, <2>1 DEF ReminderTypeOK
  <2>3. SentIsPast'
    BY <1>1, <2>1 DEF SentIsPast, Keys, Slots
  <2>4. OwnStep(Hook, AtRest)
    BY <1>1, <1>3, <2>1, <2>2, <2>3, AtRestIsDoing DEF OwnStep, ReminderTypeOK
  <2>. QED BY <2>4, OwnStepKeeps
<1>5. ASSUME NEW k \in Keys, MarkSent(k)
      PROVE  ReminderInv'
  <2>1. PICK r : r = [AtRest EXCEPT !.stage = "advance", !.todo = k[1], !.due = k[2]]
    OBVIOUS
  <2>2. /\ k[2] <= now /\ op' = [op EXCEPT ![Hook] = r]
        /\ phase' = [phase EXCEPT ![k] = "sent"]
        /\ UNCHANGED <<todo, now, merging, got, ran, calm, ops, failures>>
    BY <1>5, <2>1 DEF MarkSent, Due, Outbox!Complete
  <2>3. r \in Doing /\ r.stage = "advance" /\ r.todo = k[1] /\ r.due = k[2] /\ ~ r.alone
    BY <1>2, <2>1, AtRestIsDoing DEF Doing
  <2>4. r.todo \in Todos /\ r.due \in 1 .. now
    BY <1>1, <1>2, <2>2, <2>3 DEF Slots, ReminderTypeOK
  <2>. QED BY <2>2, <2>3, <2>4, EndsRowKeeps
<1>6. ASSUME NEW k \in Keys, GiveUp(k)
      PROVE  ReminderInv'
  <2>1. /\ k[2] <= now /\ op' = op
        /\ phase' = [phase EXCEPT ![k] = "failed"]
        /\ UNCHANGED <<todo, now, merging, got, ran, calm, ops, failures>>
    BY <1>6 DEF GiveUp, Due, Outbox!GiveUp
  <2>. QED BY <1>3, <2>1, EndsRowKeeps
<1>7. ASSUME HookAdvance
      PROVE  ReminderInv'
  <2>1. PICK t \in Todos, d \in 1 .. now : op[Hook].todo = t /\ op[Hook].due = d
    BY <1>1, <1>7 DEF ReminderInv, AtWork, HookAdvance
  <2>2. ran' = ran \cup {<<t, d>>} /\ UNCHANGED <<now, merging, phase, got, ops, failures>>
    BY <1>7, <2>1 DEF HookAdvance, Outbox!RunHook
  <2>3. ran' \in SUBSET Keys
    <3>1. d \in Slots
      BY <1>1, <2>1 DEF Slots, ReminderTypeOK, Doing
    <3>. QED BY <1>1, <2>2, <3>1 DEF ReminderTypeOK, Keys
  <2>4. CASE Anchored(todo[t], d) /\ Wrote(Hook, t, Advanced(todo[t]), "prepare")
    <3>1. todo[t] \in TodoItems /\ todo[t].at = d /\ now \in 0 .. MaxNow
      BY <1>1, <2>4 DEF ReminderTypeOK, Anchored
    <3>2. NextReminder(d) \in 0 .. MaxSlot
      <4>1. NextReminder(d) \in Nat /\ NextReminder(d) <= now + Period
        BY <3>1, NextIsLater
      <4>2. MaxSlot >= MaxNow + Period /\ {MaxSlot, MaxNow, Period} \subseteq Nat
        BY ReminderAssumption DEF ReminderAssumption
      <4>. QED BY <3>1, <4>1, <4>2
    <3>3. Advanced(todo[t]) \in TodoItems
      BY <3>1, <3>2 DEF Advanced, TodoItems
    <3>4. op[Hook].stage \notin Steps
      BY <1>7 DEF HookAdvance, Steps
    <3>5. /\ UNCHANGED <<now, phase, got, failures>> /\ ops' \in 0 .. MaxOps
          /\ merging' \in [Procs -> Todos \cup {NoTodo}]
      BY <1>1, <2>2 DEF ReminderTypeOK
    <3>. QED BY <1>1, <2>3, <2>4, <3>3, <3>4, <3>5, WroteKeeps
  <2>5. CASE op' = [op EXCEPT ![Hook] = AtRest] /\ UNCHANGED <<todo, calm>>
    BY <1>1, <2>2, <2>3, <2>5, AtRestIsDoing, StopKeeps DEF ReminderTypeOK
  <2>. QED BY <1>7, <2>1, <2>4, <2>5 DEF HookAdvance
<1>. QED BY <1>4, <1>5, <1>6, <1>7 DEF Worker

LEMMA TickKeeps ==
  ASSUME ReminderInv, Tick
  PROVE  ReminderInv'
<1>1. ReminderTypeOK /\ SentIsPast /\ now \in Nat /\ now' = now + 1
  BY DEF ReminderInv, Tick, ReminderTypeOK
<1>2. UNCHANGED <<todo, op, merging, phase, got, ran, calm, ops, failures>>
  BY DEF Tick, rows
<1>3. ReminderTypeOK'
  BY <1>1, <1>2, ReminderAssumption DEF ReminderTypeOK, Tick, Procs, Keys, Slots,
                    TodoItems, ReminderAssumption
<1>4. SentIsPast'
  <2>1. ASSUME NEW k \in Keys, phase[k] \in {"sent", "failed"} PROVE k[2] <= now + 1
    <3>1. k[2] \in Nat /\ k[2] <= now
      BY <1>1, <2>1 DEF SentIsPast, Keys, Slots
    <3>. QED BY <1>1, <3>1
  <2>. QED BY <1>1, <1>2, <2>1 DEF SentIsPast, Keys, Slots
<1>5. AtWork'
  <2>1. ASSUME NEW p \in Procs
        PROVE  /\ op[p].stage # "idle" => op[p].todo \in Todos
               /\ op[p].stage = "advance" => op[p].due \in 1 .. (now + 1)
    BY <1>1 DEF ReminderInv, AtWork
  <2>. QED BY <1>1, <1>2, <2>1 DEF AtWork, Procs
<1>6. OneWriter'
  BY <1>2 DEF ReminderInv, OneWriter, Syncing, Procs
<1>7. \A t \in Todos : todo[t].at \in Nat
  BY <1>1 DEF ReminderTypeOK, TodoItems
<1>8. Followed'
  <2>1. ASSUME NEW p \in Procs, op[p].alone
        PROVE  OnTrack(p)'
    <3>1. OnTrack(p) /\ op[p].stage \in Steps
      BY <2>1, AloneIsSyncing DEF ReminderInv, Followed
    <3>2. op[p].todo \in Todos
      BY <3>1 DEF ReminderInv, AtWork, Steps
    <3>3. todo[op[p].todo].at \in Nat
      BY <1>7, <3>2
    <3>. QED BY <1>1, <1>2, <3>1, <3>3 DEF OnTrack, Slots
  <2>. QED BY <1>2, <2>1 DEF Followed, Procs
<1>9. SyncHeals'
  BY <1>1, <1>2, <1>7
  DEF ReminderInv, SyncHeals, OnlyItsReminder, ItsReminder,
      Slots
<1>. QED BY <1>3, <1>4, <1>5, <1>6, <1>8, <1>9 DEF ReminderInv

LEMMA AbortKeeps ==
  ASSUME ReminderInv, NEW p \in Procs, Abort(p)
  PROVE  ReminderInv'
<1>1. ReminderTypeOK
  BY DEF ReminderInv
<1>2. op' = [op EXCEPT ![p] = AtRest]
  BY DEF Abort
<1>3. UNCHANGED <<todo, now, phase, got, calm>> /\ ran' \in SUBSET Keys /\ ops' \in 0 .. MaxOps
  BY <1>1 DEF ReminderTypeOK, Abort, rows
<1>4. merging' \in [Procs -> Todos \cup {NoTodo}]
  BY <1>1 DEF ReminderTypeOK, Abort
<1>5. failures' \in 0 .. MaxFailures
  BY <1>1, ReminderAssumption DEF ReminderTypeOK, Abort, ReminderAssumption
<1>. QED BY <1>2, <1>3, <1>4, <1>5, AtRestIsDoing, StopKeeps

(* Requests.                                                                *)
LEMMA AdvancedIsItem ==
  ASSUME ReminderTypeOK, NEW item \in TodoItems,
         NextReminder(item.at) <= MaxSlot
  PROVE  Advanced(item) \in TodoItems
<1>1. item.at \in Nat /\ now \in Nat /\ MaxSlot \in Nat
  BY ReminderAssumption DEF ReminderTypeOK, TodoItems, ReminderAssumption
<1>2. NextReminder(item.at) \in Nat
  <2>1. CASE item.at = 0
    BY <2>1 DEF NextReminder
  <2>2. CASE item.at # 0
    BY <1>1, <2>2, NextIsLater
  <2>. QED BY <2>1, <2>2
<1>. QED BY <1>1, <1>2 DEF Advanced, TodoItems

LEMMA AskedIsBounded ==
  ASSUME ReminderTypeOK, Asked
  PROVE  ops' \in 0 .. MaxOps
  BY ReminderAssumption DEF ReminderAssumption, ReminderTypeOK, Asked

LEMMA ChatRequestKeeps ==
  ASSUME ReminderInv, ChatRequest
  PROVE  ReminderInv'
<1>1. ReminderTypeOK
  BY DEF ReminderInv
<1>2. ASSUME NEW c \in Chats, Free(c)
      PROVE  c \in Procs /\ op[c].stage \notin Steps
  BY <1>2, AtRestIsDoing DEF Procs, Free
<1>3. ASSUME NEW t \in Todos PROVE todo[t] \in TodoItems /\ todo[t].at \in 0 .. MaxSlot
  BY <1>1 DEF ReminderTypeOK, TodoItems
<1>4. ASSUME Asked, UNCHANGED <<now, merging, rows, failures>>
      PROVE  /\ UNCHANGED <<now, phase, got, failures>>
             /\ ran' \in SUBSET Keys /\ ops' \in 0 .. MaxOps
             /\ merging' \in [Procs -> Todos \cup {NoTodo}]
  BY <1>1, <1>4, AskedIsBounded DEF rows, ReminderTypeOK
<1>5. ASSUME NEW c \in Chats, NEW t \in Todos, NEW recurring \in BOOLEAN,
             NEW at \in 0 .. MaxSlot, Create(c, t, recurring, at)
      PROVE  ReminderInv'
  <2>1. Item("pending", recurring, at) \in TodoItems
    BY DEF Item, TodoItems
  <2>. QED BY <1>2, <1>4, <1>5, <2>1, WroteKeeps DEF Create
<1>6. ASSUME NEW c \in Chats, NEW t \in Todos, CompleteTodo(c, t)
      PROVE  ReminderInv'
  <2>1. CASE NextReminder(todo[t].at) <= MaxSlot
             /\ Wrote(c, t, Advanced(todo[t]), "prepare")
    <3>1. Advanced(todo[t]) \in TodoItems
      BY <1>1, <1>3, <2>1, AdvancedIsItem
    <3>. QED BY <1>2, <1>4, <1>6, <2>1, <3>1, WroteKeeps DEF CompleteTodo
  <2>2. CASE Wrote(c, t, [todo[t] EXCEPT !.status = "completed"], "cancel")
    <3>1. PICK item : item = [todo[t] EXCEPT !.status = "completed"]
      OBVIOUS
    <3>2. item \in TodoItems /\ item.status # "pending"
      BY <1>3, <3>1 DEF TodoItems
    <3>. QED BY <1>2, <1>4, <1>6, <2>2, <3>1, <3>2, WroteKeeps DEF CompleteTodo
  <2>. QED BY <1>6, <2>1, <2>2 DEF CompleteTodo
<1>7. ASSUME NEW c \in Chats, NEW t \in Todos, SkipPeriod(c, t)
      PROVE  ReminderInv'
  <2>1. Advanced(todo[t]) \in TodoItems
    BY <1>1, <1>3, <1>7, AdvancedIsItem DEF SkipPeriod
  <2>. QED BY <1>2, <1>4, <1>7, <2>1, WroteKeeps DEF SkipPeriod
<1>8. ASSUME NEW c \in Chats, NEW t \in Todos, DisableRecurrence(c, t)
      PROVE  ReminderInv'
  <2>1. /\ Item("pending", FALSE, 0) \in TodoItems
        /\ ~ (Item("pending", FALSE, 0).at > now)
    BY <1>1, ReminderAssumption DEF Item, TodoItems, ReminderTypeOK, ReminderAssumption
  <2>. QED BY <1>2, <1>4, <1>8, <2>1, WroteKeeps DEF DisableRecurrence
<1>9. ASSUME NEW c \in Chats, NEW t \in Todos, Restore(c, t)
      PROVE  ReminderInv'
  <2>1. [todo[t] EXCEPT !.status = "pending"] \in TodoItems
    BY <1>3 DEF TodoItems
  <2>. QED BY <1>2, <1>4, <1>9, <2>1, WroteKeeps DEF Restore
<1>10. ASSUME NEW c \in Chats, NEW t \in Todos, Delete(c, t)
       PROVE  ReminderInv'
  <2>1. /\ Item("deleted", FALSE, 0) \in TodoItems
        /\ Item("deleted", FALSE, 0).status # "pending"
    BY ReminderAssumption DEF Item, TodoItems, ReminderAssumption
  <2>. QED BY <1>2, <1>4, <1>10, <2>1, WroteKeeps DEF Delete
<1>. QED BY <1>5, <1>6, <1>7, <1>8, <1>9, <1>10 DEF ChatRequest

LEMMA ChatEditKeeps ==
  ASSUME ReminderInv, ChatEdit
  PROVE  ReminderInv'
<1>1. ReminderTypeOK
  BY DEF ReminderInv
<1>2. ASSUME NEW c \in Chats, NEW t \in Todos,
             EditRead(c, t) \/ \E s \in Todos : MergeRead(c, t, s)
      PROVE  ReminderInv'
  <2>1. PICK r : r = [AtRest EXCEPT !.stage = "read", !.todo = t, !.item = todo[t]]
    OBVIOUS
  <2>2. todo[t] \in TodoItems
    BY <1>1 DEF ReminderTypeOK
  <2>3. r \in Doing /\ r.stage = "read" /\ r.todo = t /\ ~ r.alone /\ r.stage \notin Steps
    BY <2>1, <2>2, AtRestIsDoing DEF Doing, Steps
  <2>4. /\ UNCHANGED <<todo, now, phase, got, calm>> /\ ran' \in SUBSET Keys
        /\ ops' \in 0 .. MaxOps /\ failures' \in 0 .. MaxFailures
    BY <1>1, <1>2, AskedIsBounded DEF EditRead, MergeRead, rows, ReminderTypeOK
  <2>5. merging' \in [Procs -> Todos \cup {NoTodo}]
    BY <1>1, <1>2 DEF EditRead, MergeRead, ReminderTypeOK
  <2>6. op' = [op EXCEPT ![c] = r] /\ c \in Procs
    BY <1>2, <2>1 DEF EditRead, MergeRead, Procs
  <2>. QED BY <2>3, <2>4, <2>5, <2>6, StopKeeps
<1>3. ASSUME NEW c \in Chats, NEW recurring \in BOOLEAN, NEW at \in 0 .. MaxSlot,
             EditWrite(c, recurring, at)
      PROVE  ReminderInv'
  <2>1. c \in Procs /\ op[c].stage \notin Steps
    BY <1>3 DEF EditWrite, Procs, Steps
  <2>2. PICK t \in Todos : t = op[c].todo
    BY <1>3, <2>1 DEF ReminderInv, AtWork, EditWrite
  <2>3. /\ UNCHANGED <<now, phase, got, failures>> /\ ran' \in SUBSET Keys
        /\ ops' \in 0 .. MaxOps /\ failures' \in 0 .. MaxFailures
    BY <1>1, <1>3 DEF EditWrite, rows, ReminderTypeOK
  <2>4. merging' \in [Procs -> Todos \cup {NoTodo}]
    BY <1>1, <1>3 DEF EditWrite, ReminderTypeOK
  <2>5. CASE Wrote(c, t, Item("pending", recurring, at), "prepare")
    <3>1. Item("pending", recurring, at) \in TodoItems
      BY DEF Item, TodoItems
    <3>. QED BY <2>1, <2>3, <2>4, <2>5, <3>1, WroteKeeps
  <2>6. CASE op' = [op EXCEPT ![c] = AtRest] /\ UNCHANGED <<todo, calm>>
    BY <2>1, <2>3, <2>4, <2>6, AtRestIsDoing, StopKeeps
  <2>. QED BY <1>3, <2>2, <2>5, <2>6 DEF EditWrite
<1>4. ASSUME NEW c \in Chats, DeleteSource(c)
      PROVE  ReminderInv'
  <2>1. c \in Procs
    BY DEF Procs
  <2>2. PICK s \in Todos : s = merging[c]
    BY <1>1, <1>4, <2>1 DEF DeleteSource, ReminderTypeOK
  <2>3. UNCHANGED <<now, phase, got, ran, ops, failures>>
    BY <1>4 DEF DeleteSource, rows
  <2>4. /\ merging' \in [Procs -> Todos \cup {NoTodo}]
        /\ ops' \in 0 .. MaxOps /\ ran' \in SUBSET Keys /\ failures' \in 0 .. MaxFailures
        /\ phase' \in [Keys -> {"none", "queued", "sent", "failed", "cancelled"}]
    BY <1>1, <1>4, <2>3 DEF DeleteSource, ReminderTypeOK
  <2>5. CASE WroteItem(s, Item("merged", FALSE, 0))
    <3>1. PICK item : item = Item("merged", FALSE, 0)
      OBVIOUS
    <3>2. item \in TodoItems /\ item.status = "merged" /\ WroteItem(s, item)
      BY <2>5, <3>1, ReminderAssumption DEF Item, TodoItems, ReminderAssumption
    <3>3. SentIsPast'
      BY <2>3 DEF ReminderInv, SentIsPast, Keys, Slots
    <3>4. \A u \in Todos, v \in Slots : u # s => phase'[<<u, v>>] = phase[<<u, v>>]
      BY <2>3
    <3>5. UNCHANGED <<now, got, ran, failures>>
      BY <2>3
    <3>6. item.status # "merged" => OnlyItsReminder(s)' /\ ItsReminder(s)'
      BY <3>2
    <3>. QED BY <2>4, <3>2, <3>3, <3>4, <3>5, <3>6, WroteItemKeeps
  <2>6. CASE UNCHANGED <<todo, op, calm>>
    <3>1. op' = [op EXCEPT ![c] = AtRest]
      BY <1>1, <1>4, <2>1, <2>6 DEF DeleteSource, ReminderTypeOK
    <3>. QED BY <2>1, <2>3, <2>4, <2>6, <3>1, AtRestIsDoing, StopKeeps
  <2>. QED BY <1>4, <2>2, <2>5, <2>6 DEF DeleteSource
<1>. QED BY <1>2, <1>3, <1>4 DEF ChatEdit

LEMMA ManageKeeps ==
  ASSUME ReminderInv, Manage
  PROVE  ReminderInv'
<1>1. ReminderTypeOK
  BY DEF ReminderInv
<1>2. ASSUME NEW t \in Todos, NEW recurring \in BOOLEAN, NEW at \in 0 .. MaxSlot,
             ManageCreate(t, recurring, at)
      PROVE  ReminderInv'
  <2>1. Item("pending", recurring, at) \in TodoItems
    BY DEF Item, TodoItems
  <2>2. ops' \in 0 .. MaxOps
    BY <1>1, <1>2, AskedIsBounded DEF ManageCreate
  <2>. QED BY <1>2, <2>1, <2>2, WroteBothKeeps DEF ManageCreate
<1>3. ASSUME NEW t \in Todos, NEW recurring \in BOOLEAN, NEW at \in 0 .. MaxSlot,
             NEW status \in {"pending", "completed"},
             ManageUpdate(t, recurring, at, status)
      PROVE  ReminderInv'
  <2>1. PICK item : item = Planned(Item("pending", recurring, at), status)
    OBVIOUS
  <2>2. item.at <= MaxSlot /\ WroteBoth(t, item, Request(item))
    BY <1>3, <2>1 DEF ManageUpdate
  <2>3. item \in TodoItems
    <3>1. PICK draft \in TodoItems : draft = Item("pending", recurring, at)
      BY DEF Item, TodoItems
    <3>2. CASE item = Advanced(draft)
      <4>1. NextReminder(draft.at) <= MaxSlot
        BY <2>2, <3>1, <3>2 DEF Advanced, TodoItems
      <4>. QED BY <1>1, <3>1, <3>2, <4>1, AdvancedIsItem
    <3>3. CASE item = [draft EXCEPT !.status = status]
      BY <3>1, <3>3 DEF TodoItems
    <3>. QED BY <2>1, <3>1, <3>2, <3>3 DEF Planned
  <2>4. ops' \in 0 .. MaxOps
    BY <1>1, <1>3, AskedIsBounded DEF ManageUpdate
  <2>. QED BY <1>3, <2>2, <2>3, <2>4, WroteBothKeeps DEF ManageUpdate
<1>4. ASSUME NEW t \in Todos, ManageDelete(t)
      PROVE  ReminderInv'
  <2>1. PICK item : item = Item("deleted", FALSE, 0)
    OBVIOUS
  <2>2. item \in TodoItems
    BY <2>1, ReminderAssumption DEF Item, TodoItems, ReminderAssumption
  <2>3. 0 = Request(item)
    BY <2>1 DEF Request, Item
  <2>4. ops' \in 0 .. MaxOps
    BY <1>1, <1>4, AskedIsBounded DEF ManageDelete
  <2>. QED BY <1>4, <2>1, <2>2, <2>3, <2>4, WroteBothKeeps DEF ManageDelete
<1>. QED BY <1>2, <1>3, <1>4 DEF Manage

-----------------------------------------------------------------------------
LEMMA ReminderInitOK ==
  ASSUME ReminderInit
  PROVE  ReminderInv
<1>1. /\ \A p \in Procs : op[p] = AtRest
      /\ \A t \in Todos : todo[t] = Absent
      /\ phase = [k \in Keys |-> "none"]
  BY DEF ReminderInit
<1>2. ReminderTypeOK
  <2>1. Absent \in TodoItems
    BY ReminderAssumption DEF Absent, Item, TodoItems, ReminderAssumption
  <2>. QED BY <2>1, AtRestIsDoing, ReminderAssumption
           DEF ReminderTypeOK, ReminderInit, Doing, ReminderAssumption
<1>3. SentIsPast
  BY <1>1 DEF SentIsPast
<1>4. AtWork /\ Followed
  BY <1>1, AtRestIsDoing DEF AtWork, Followed, AtRest
<1>5. OneWriter
  BY <1>1, AtRestIsDoing, SyncingIs DEF OneWriter
<1>6. SyncHeals
  BY <1>1 DEF SyncHeals, OnlyItsReminder, ItsReminder, Absent,
              Item, Keys
<1>. QED BY <1>2, <1>3, <1>4, <1>5, <1>6 DEF ReminderInv

LEMMA ReminderStep ==
  ASSUME ReminderInv, [ReminderNext]_reminderVars
  PROVE  ReminderInv'
<1>1. CASE Sync
  BY <1>1, PrepareKeeps, CancelRowsKeeps, UpsertRowKeeps DEF Sync
<1>2. CASE UNCHANGED reminderVars
  BY <1>2 DEF reminderVars, ReminderInv, ReminderTypeOK, SentIsPast, AtWork, OneWriter, Followed,
              OnTrack, SyncHeals, OnlyItsReminder, ItsReminder,
              Syncing, Procs, Keys, Slots, TodoItems
<1>. QED BY <1>1, <1>2, ChatEditKeeps, ChatRequestKeeps, ManageKeeps, WorkerKeeps, TickKeeps,
            AbortKeeps DEF ReminderNext

(* The invariant in every reachable state.                                  *)
LEMMA ReminderInvariance == ReminderSpec => []ReminderInv
<1>1. ReminderInit => ReminderInv
  BY ReminderInitOK
<1>2. ReminderInv /\ [ReminderNext]_reminderVars => ReminderInv'
  BY ReminderStep
<1>. QED BY <1>1, <1>2, PTL DEF ReminderSpec

(* Whatever earlier errors, crashes and races left behind, one request, or  *)
(* one run of the hook, that no other writer of the same todo overlaps, and *)
(* every management request, leaves the todo and its outbox rows in         *)
(* agreement, except that of the source of a merge, whose rows nobody       *)
(* cancels: the three calls of sync_reminder_task need no good state      *)
(* before them, and the clock and the worker may move between them.         *)
THEOREM RemindersHeal == ReminderSpec => []SyncIsSound
<1>1. ReminderInv => SyncIsSound
  BY DEF ReminderInv, SyncIsSound
<1>. QED BY <1>1, ReminderInvariance, PTL

-----------------------------------------------------------------------------
(* A new item of a todo that revives nothing: it does not recur, keeps its  *)
(* reminder, has none, or has one still to come.                            *)
MovesOn(t, item) ==
  item.recurring => item.at \in {0, todo[t].at} \/ item.at > now

LEMMA MovesOnDoesNotRevive ==
  ASSUME ReminderInv, ReminderInv', NEW t \in Todos, NEW u \in Todos, NEW item,
         todo' = [todo EXCEPT ![u] = item], MovesOn(u, item)
  PROVE  ~ Revives(t)
<1>1. ReminderTypeOK /\ ReminderTypeOK' /\ SentIsPast
  BY DEF ReminderInv
<1>2. todo'[t].at \in 0 .. MaxSlot /\ now \in Nat
  BY <1>1 DEF ReminderTypeOK, TodoItems
<1>3. ASSUME todo'[t].at # 0, phase[<<t, todo'[t].at>>] = "sent"
      PROVE  todo'[t].at <= now
  <2>1. <<t, todo'[t].at>> \in Keys
    BY <1>2, <1>3 DEF Keys, Slots
  <2>. QED BY <1>1, <1>3, <2>1 DEF SentIsPast
<1>4. IF t = u THEN todo'[t] = item ELSE todo'[t] = todo[t]
  BY <1>1 DEF ReminderTypeOK
<1>. QED BY <1>2, <1>3, <1>4 DEF MovesOn, Revives

LEMMA AdvancedMovesOn ==
  ASSUME ReminderTypeOK, NEW item \in TodoItems, NEW t
  PROVE  MovesOn(t, Advanced(item))
<1>1. item.at \in Nat /\ now \in Nat
  BY ReminderAssumption DEF ReminderTypeOK, TodoItems, ReminderAssumption
<1>2. Advanced(item).at = NextReminder(item.at)
  BY DEF Advanced, TodoItems
<1>3. CASE item.at = 0
  BY <1>2, <1>3 DEF MovesOn, NextReminder
<1>4. CASE item.at # 0
  BY <1>1, <1>2, <1>4, NextIsLater DEF MovesOn
<1>. QED BY <1>3, <1>4

LEMMA ChatRequestMovesOn ==
  ASSUME ReminderInv, ChatRequest
  PROVE  \E u \in Todos : \E item : todo' = [todo EXCEPT ![u] = item] /\ MovesOn(u, item)
<1>1. ReminderTypeOK /\ \A t \in Todos : todo[t] \in TodoItems
  BY DEF ReminderInv, ReminderTypeOK
<1>2. PICK c \in Chats, t \in Todos :
        \/ \E recurring \in BOOLEAN, at \in 0 .. MaxSlot : Create(c, t, recurring, at)
        \/ CompleteTodo(c, t)
        \/ SkipPeriod(c, t)
        \/ DisableRecurrence(c, t)
        \/ Restore(c, t)
        \/ Delete(c, t)
  BY DEF ChatRequest
<1>3. ASSUME NEW recurring \in BOOLEAN, NEW at \in 0 .. MaxSlot, Create(c, t, recurring, at)
      PROVE  /\ todo' = [todo EXCEPT ![t] = Item("pending", recurring, at)]
             /\ MovesOn(t, Item("pending", recurring, at))
  BY <1>3 DEF Create, Wrote, Settable, Item, MovesOn
<1>4. ASSUME todo' = [todo EXCEPT ![t] = Advanced(todo[t])]
      PROVE  \E u \in Todos : \E item : todo' = [todo EXCEPT ![u] = item] /\ MovesOn(u, item)
  BY <1>1, <1>4, AdvancedMovesOn
<1>5. ASSUME NEW status, todo' = [todo EXCEPT ![t] = [todo[t] EXCEPT !.status = status]]
      PROVE  \E u \in Todos : \E item : todo' = [todo EXCEPT ![u] = item] /\ MovesOn(u, item)
  <2>1. MovesOn(t, [todo[t] EXCEPT !.status = status])
    BY <1>1 DEF MovesOn, TodoItems
  <2>. QED BY <1>5, <2>1
<1>6. ASSUME NEW status, todo' = [todo EXCEPT ![t] = Item(status, FALSE, 0)]
      PROVE  \E u \in Todos : \E item : todo' = [todo EXCEPT ![u] = item] /\ MovesOn(u, item)
  <2>1. MovesOn(t, Item(status, FALSE, 0))
    BY DEF MovesOn, Item
  <2>. QED BY <1>6, <2>1
<1>7. CASE CompleteTodo(c, t)
  BY <1>4, <1>5, <1>7 DEF CompleteTodo, Wrote
<1>8. CASE SkipPeriod(c, t)
  BY <1>4, <1>8 DEF SkipPeriod, Wrote
<1>9. CASE DisableRecurrence(c, t)
  BY <1>6, <1>9 DEF DisableRecurrence, Wrote
<1>10. CASE Restore(c, t)
  BY <1>5, <1>10 DEF Restore, Wrote
<1>11. CASE Delete(c, t)
  BY <1>6, <1>11 DEF Delete, Wrote
<1>. QED BY <1>2, <1>3, <1>7, <1>8, <1>9, <1>10, <1>11

LEMMA ManageMovesOn ==
  ASSUME ReminderInv, Manage
  PROVE  \E u \in Todos : \E item : todo' = [todo EXCEPT ![u] = item] /\ MovesOn(u, item)
<1>1. ReminderTypeOK
  BY DEF ReminderInv
<1>2. PICK t \in Todos :
        \/ \E recurring \in BOOLEAN, at \in 0 .. MaxSlot :
             \/ ManageCreate(t, recurring, at)
             \/ \E status \in {"pending", "completed"} :
                  ManageUpdate(t, recurring, at, status)
        \/ ManageDelete(t)
  BY DEF Manage
<1>3. ASSUME NEW recurring \in BOOLEAN, NEW at \in 0 .. MaxSlot,
             ManageCreate(t, recurring, at)
      PROVE  /\ todo' = [todo EXCEPT ![t] = Item("pending", recurring, at)]
             /\ MovesOn(t, Item("pending", recurring, at))
  BY <1>3 DEF ManageCreate, WroteBoth, WroteItem, Settable, Item, MovesOn
<1>4. ASSUME NEW recurring \in BOOLEAN, NEW at \in 0 .. MaxSlot,
             NEW status \in {"pending", "completed"},
             ManageUpdate(t, recurring, at, status)
      PROVE  \E item : todo' = [todo EXCEPT ![t] = item] /\ MovesOn(t, item)
  <2>1. PICK draft \in TodoItems : draft = Item("pending", recurring, at)
    BY DEF Item, TodoItems
  <2>2. todo' = [todo EXCEPT ![t] = Planned(draft, status)]
    BY <1>4, <2>1 DEF ManageUpdate, WroteBoth, WroteItem
  <2>3. CASE Planned(draft, status) = Advanced(draft)
    BY <1>1, <2>2, <2>3, AdvancedMovesOn
  <2>4. CASE Planned(draft, status) = [draft EXCEPT !.status = status]
    <3>1. draft.at = 0 \/ draft.at > now \/ draft.at = todo[t].at
      BY <1>4, <2>1 DEF ManageUpdate, Settable, Item
    <3>2. MovesOn(t, [draft EXCEPT !.status = status])
      BY <2>1, <3>1 DEF MovesOn, TodoItems
    <3>. QED BY <2>2, <2>4, <3>2
  <2>. QED BY <2>3, <2>4 DEF Planned
<1>5. ASSUME ManageDelete(t)
      PROVE  /\ todo' = [todo EXCEPT ![t] = Item("deleted", FALSE, 0)]
             /\ MovesOn(t, Item("deleted", FALSE, 0))
  BY <1>5 DEF ManageDelete, WroteBoth, WroteItem, MovesOn, Item
<1>. QED BY <1>2, <1>3, <1>4, <1>5

(* A step that writes the draft of an edit.                                 *)
DraftWritten ==
  \E c \in Chats, recurring \in BOOLEAN, at \in 0 .. MaxSlot : EditWrite(c, recurring, at)

(* Every other step leaves the todos alone or moves one on.                 *)
LEMMA OtherStepsMoveOn ==
  ASSUME ReminderInv, ReminderNext, ~ DraftWritten,
         todo' # todo
  PROVE  \E u \in Todos : \E item : todo' = [todo EXCEPT ![u] = item] /\ MovesOn(u, item)
<1>1. ReminderTypeOK /\ AtWork /\ Hook \in Procs
  BY DEF ReminderInv, Procs
<1>2. ~ Sync
  BY DEF Sync, Prepare, CancelRows, UpsertRow
<1>3. ~ Tick /\ \A p \in Procs : ~ Abort(p)
  BY DEF Tick, Abort
<1>4. CASE Worker
  <2>1. HookAdvance
    BY <1>4 DEF Worker, Push, MarkSent, GiveUp
  <2>2. PICK t \in Todos : t = op[Hook].todo
    BY <1>1, <2>1 DEF HookAdvance, AtWork
  <2>3. todo' = [todo EXCEPT ![t] = Advanced(todo[t])] /\ todo[t] \in TodoItems
    BY <1>1, <2>1, <2>2 DEF HookAdvance, Wrote, ReminderTypeOK
  <2>. QED BY <1>1, <2>2, <2>3, AdvancedMovesOn
<1>5. CASE ChatEdit
  <2>1. PICK c \in Chats : DeleteSource(c)
    BY <1>5 DEF ChatEdit, DraftWritten, EditRead, MergeRead
  <2>2. PICK s \in Todos : s = merging[c]
    BY <1>1, <2>1 DEF DeleteSource, ReminderTypeOK, Procs
  <2>3. todo' = [todo EXCEPT ![s] = Item("merged", FALSE, 0)]
    BY <2>1, <2>2 DEF DeleteSource, WroteItem
  <2>4. MovesOn(s, Item("merged", FALSE, 0))
    BY DEF MovesOn, Item
  <2>. QED BY <2>3, <2>4
<1>. QED BY <1>2, <1>3, <1>4, <1>5, ChatRequestMovesOn, ManageMovesOn DEF ReminderNext

LEMMA EditsWrite ==
  ASSUME ReminderInv, DraftWritten, NEW t \in Todos,
         todo'[t] # todo[t]
  PROVE  EditWrites(t)
<1>1. ReminderTypeOK
  BY DEF ReminderInv
<1>2. PICK c \in Chats, recurring \in BOOLEAN, at \in 0 .. MaxSlot :
        EditWrite(c, recurring, at)
  BY DEF DraftWritten
<1>3. /\ op[c].stage = "read"
      /\ Wrote(c, op[c].todo, Item("pending", recurring, at), "prepare")
  BY <1>2 DEF EditWrite
<1>4. op[c].todo = t
  BY <1>1, <1>3 DEF Wrote, ReminderTypeOK
<1>5. op'[c].stage = "prepare"
  BY <1>3 DEF Wrote, Procs
<1>. QED BY <1>3, <1>4, <1>5 DEF EditWrites

(* Completing, skipping, the hook and the management API find the next      *)
(* reminder from the row and the clock as they are, so whatever they race   *)
(* with none of them moves a recurring todo back to a reminder that was     *)
(* already delivered; only the edit, and the edit of the target of a merge, *)
(* can: both write a draft read earlier.                                    *)
THEOREM RemindersRevivedByEditsOnly == ReminderSpec => OnlyEditsRevive
<1>1. ReminderInv /\ ReminderInv' /\ [ReminderNext]_reminderVars
      => [\A t \in Todos : Revives(t) => EditWrites(t)]_reminderVars
  <2> SUFFICES ASSUME ReminderInv, ReminderInv', ReminderNext, NEW t \in Todos, Revives(t)
               PROVE  EditWrites(t)
    OBVIOUS
  <2>1. todo'[t] # todo[t]
    BY DEF Revives
  <2>2. CASE DraftWritten
    BY <2>1, <2>2, EditsWrite
  <2>3. CASE ~ DraftWritten
    <3>1. PICK u \in Todos : \E item : todo' = [todo EXCEPT ![u] = item] /\ MovesOn(u, item)
      BY <2>1, <2>3, OtherStepsMoveOn
    <3>. QED BY <3>1, MovesOnDoesNotRevive
  <2>. QED BY <2>2, <2>3
<1>. QED BY <1>1, ReminderInvariance, PTL DEF ReminderSpec, OnlyEditsRevive
=============================================================================

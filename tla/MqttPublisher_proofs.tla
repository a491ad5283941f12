------------------------- MODULE MqttPublisher_proofs -------------------------
(***************************************************************************)
(* For any units, state topics, cap and number of events: at most          *)
(* MaxInFlight publishes are outstanding, what the publisher takes for     *)
(* sent is what the broker retains or is about to, and no clear of a unit  *)
(* that is gone is forgotten.                                              *)
(***************************************************************************)
EXTENDS MqttPublisher, FiniteSetTheorems, WellFoundedInduction, TLAPS

Nodes == Ids \union {Dashboard}
Conns == {"none", "down", "up", "retiring"}
ReadRecord == [stage : {"none", "sync", "sentinel", "purge"}, got : BOOLEAN, found : SUBSET Nodes]
Memories == [conn : Conns, wire : Seq(Messages), sent : [Topics -> Payloads],
             removed : SUBSET Ids, pending : Seq(Configs), tracked : SUBSET Nodes,
             read : ReadRecord, found : SUBSET Nodes]

\* A reading is published with QoS 0, and is lost with the connection; a clear
\* with QoS 1, and is sent again.
Fits(m) ==
    /\ m.topic \in StateTopics /\ m.payload # Empty => m.qos = 0
    /\ m.topic \in Topics /\ m.payload = Empty => m.qos = 1

\* The memory p of the publisher while the fleet is f.
Memory(p, f) ==
    /\ p \in Memories
    /\ \A i \in DOMAIN p.wire : Fits(p.wire[i])
    /\ p.conn # "retiring" => InFlight(p) <= MaxInFlight
    /\ \A i \in DOMAIN p.pending : p.sent[p.pending[i]] = Empty
    /\ \A u \in Ids, k \in Kinds : f[u] = "gone" => p.sent[<<u, k>>] = Empty
    /\ ~HasClient(p) => p.read = NoRead /\ \A t \in Topics : p.sent[t] = Empty

\* What topic t retains once a broker that retains b has taken what is under
\* way on w is v: Final(t) = v, without a choice of the last message.
IsFinal(w, b, t, v) ==
    \/ /\ \A i \in DOMAIN w : w[i].topic = t => w[i].got
       /\ b[t] = v
    \/ \E i \in DOMAIN w :
         /\ w[i].topic = t /\ ~w[i].got /\ w[i].payload = v
         /\ \A j \in DOMAIN w : w[j].topic = t /\ ~w[j].got => j <= i

\* What p takes for sent on t is true; what is owed to t, a topic of a unit
\* that is gone, is under way or queued.
Cached(p, b, t) == p.sent[t] # Empty => IsFinal(p.wire, b, t, p.sent[t])
Owed(p, b, t) == IsFinal(p.wire, b, t, Empty) \/ t[1] \in p.removed

Typed ==
    /\ fleet \in [Ids -> UnitStates]
    /\ settings \in [enabled : BOOLEAN, discovery : BOOLEAN]
    /\ broker \in [Topics -> Payloads]
    /\ stuck \in BOOLEAN /\ events \in 0 .. MaxEvents /\ excused \subseteq Topics

\* Discovery configs are excused for what the broker retains of them, never for
\* what the publisher takes for sent.
CacheInv ==
    pub.conn = "up" =>
      \A t \in Topics : (t \in StateTopics /\ t \in excused) \/ Cached(pub, broker, t)

\* Without a client nothing is owed.
OwedInv ==
    \A t \in StateTopics \ excused :
      fleet[t[1]] = "gone" => HasClient(pub) /\ Owed(pub, broker, t)

IInv ==
    /\ Typed /\ Memory(pub, fleet)
    /\ settings.enabled <=> HasClient(pub)
    /\ CacheInv /\ OwedInv

-----------------------------------------------------------------------------
(* Induction, from the least element of a set of numbers. *)

LEMMA Least ==
    ASSUME NEW S \in SUBSET Nat, S # {}
    PROVE  \E x \in S : \A y \in S : x <= y
<1> DEFINE R == OpToRel(<, Nat)
<1>1. IsWellFoundedOn(R, Nat)
  BY NatLessThanWellFounded
<1>2. \A x, y \in Nat : x < y => <<x, y>> \in R
  BY DEF OpToRel
<1> HIDE DEF R
<1>3. PICK x \in S : \A y \in S : ~ (<<y, x>> \in R)
  BY <1>1, WFMin
<1>4. ASSUME NEW y \in S PROVE x <= y
  <2>1. x \in Nat /\ y \in Nat /\ ~ (y < x)
    BY <1>2, <1>3
  <2> QED
    BY <2>1
<1> QED
  BY <1>4

LEMMA Induction ==
    ASSUME NEW N \in Nat, NEW G, 0 \in G, \A n \in 1 .. N : n - 1 \in G => n \in G
    PROVE  \A n \in 0 .. N : n \in G
<1> SUFFICES ASSUME NEW m \in 0 .. N, m \notin G PROVE FALSE
  OBVIOUS
<1> DEFINE S == {n \in 0 .. N : n \notin G}
<1>1. S \in SUBSET Nat /\ S # {}
  OBVIOUS
<1>2. PICK x \in S : \A y \in S : x <= y
  BY <1>1, Least
<1>3. x # 0 /\ x \in 1 .. N
  OBVIOUS
<1>4. x - 1 \in 0 .. N /\ ~ (x - 1 \in S)
  BY <1>2, <1>3
<1> QED
  BY <1>3, <1>4

-----------------------------------------------------------------------------
(* Sequences, their parts and what is filtered from them. *)

LEMMA Elements ==
    ASSUME NEW T, NEW s \in Seq(T)
    PROVE  /\ Len(s) \in Nat /\ DOMAIN s = 1 .. Len(s)
           /\ \A i \in 1 .. Len(s) : s[i] \in T
           /\ \A x \in ToSet(s) : x \in T /\ \E i \in 1 .. Len(s) : s[i] = x
           /\ \A i \in 1 .. Len(s) : s[i] \in ToSet(s)
BY DEF ToSet

LEMMA SubSeqFacts ==
    ASSUME NEW T, NEW s \in Seq(T), NEW m \in Nat, NEW n \in Nat, 1 <= m, m <= n + 1, n <= Len(s)
    PROVE  /\ SubSeq(s, m, n) \in Seq(T) /\ Len(SubSeq(s, m, n)) = n - m + 1
           /\ \A i \in 1 .. n - m + 1 : SubSeq(s, m, n)[i] = s[m + i - 1]
<1>1. CASE m <= n
  BY <1>1
<1>2. CASE m = n + 1
  <2>1. SubSeq(s, m, n) = <<>>
    BY <1>2
  <2> QED
    BY <1>2, <2>1
<1> QED
  BY <1>1, <1>2

LEMMA ConcatFacts ==
    ASSUME NEW T, NEW s \in Seq(T), NEW r \in Seq(T)
    PROVE  /\ s \o r \in Seq(T) /\ Len(s \o r) = Len(s) + Len(r)
           /\ \A i \in 1 .. Len(s) : (s \o r)[i] = s[i]
           /\ \A i \in 1 .. Len(r) : (s \o r)[Len(s) + i] = r[i]
           /\ \A i \in Len(s) + 1 .. Len(s) + Len(r) :
                i - Len(s) \in 1 .. Len(r) /\ (s \o r)[i] = r[i - Len(s)]
OBVIOUS

\* The first n of s and the rest are s.
LEMMA PartsFacts ==
    ASSUME NEW T, NEW s \in Seq(T), NEW n \in Nat
    PROVE  /\ First(s, n) \in Seq(T) /\ Len(First(s, n)) <= n /\ Len(First(s, n)) <= Len(s)
           /\ Rest(s, n) \in Seq(T)
           /\ \A i \in 1 .. Len(First(s, n)) : First(s, n)[i] = s[i]
           /\ \A x \in ToSet(Rest(s, n)) : x \in ToSet(s)
           /\ \A i \in 1 .. Len(s) : i \in 1 .. Len(First(s, n)) \/ s[i] \in ToSet(Rest(s, n))
<1>1. CASE n < Len(s)
  <2>1. /\ First(s, n) \in Seq(T) /\ Len(First(s, n)) = n
        /\ \A i \in 1 .. n : First(s, n)[i] = s[i]
    BY <1>1, SubSeqFacts DEF First
  <2>2. /\ Rest(s, n) \in Seq(T) /\ Len(Rest(s, n)) = Len(s) - n
        /\ \A i \in 1 .. Len(s) - n : Rest(s, n)[i] = s[n + i]
    BY <1>1, SubSeqFacts DEF Rest
  <2>3. ASSUME NEW i \in 1 .. Len(s), i > n PROVE s[i] \in ToSet(Rest(s, n))
    <3>1. i - n \in 1 .. Len(Rest(s, n)) /\ Rest(s, n)[i - n] = s[i]
      BY <2>2, <2>3
    <3> QED
      BY <2>2, <3>1, Elements
  <2>4. ASSUME NEW x \in ToSet(Rest(s, n)) PROVE x \in ToSet(s)
    <3>1. PICK i \in 1 .. Len(Rest(s, n)) : Rest(s, n)[i] = x
      BY <2>2, Elements
    <3>2. n + i \in 1 .. Len(s) /\ s[n + i] = x
      BY <1>1, <2>2, <3>1
    <3> QED
      BY <3>2, Elements
  <2> QED
    BY <1>1, <2>1, <2>2, <2>3, <2>4
<1>2. CASE ~(n < Len(s))
  <2>1. /\ First(s, n) \in Seq(T) /\ Len(First(s, n)) = Len(s)
        /\ \A i \in 1 .. Len(s) : First(s, n)[i] = s[i]
    BY <1>2, SubSeqFacts DEF First
  <2>2. Rest(s, n) = <<>>
    BY <1>2 DEF Rest
  <2> QED
    BY <1>2, <2>1, <2>2 DEF ToSet
<1> QED
  BY <1>1, <1>2

\* r is what of the first n of s is in S: g says where its elements are in s.
Picked(s, S, n, r, T) ==
    /\ r \in Seq(T)
    /\ \E g \in [1 .. Len(r) -> 1 .. n] :
         /\ \A i \in 1 .. Len(r) : r[i] = s[g[i]] /\ r[i] \in S
         /\ \A i, j \in 1 .. Len(r) : i < j => g[i] < g[j]
    /\ \A i \in 1 .. n : s[i] \in S => \E j \in 1 .. Len(r) : r[j] = s[i]

LEMMA PickedNone ==
    ASSUME NEW T, NEW s, NEW S, NEW r, r = <<>>
    PROVE  Picked(s, S, 0, r, T)
<1>1. r \in Seq(T) /\ Len(r) = 0
  OBVIOUS
<1>2. 1 .. Len(r) = {} /\ 1 .. 0 = {}
  BY <1>1
<1> DEFINE e == [i \in {} |-> 0]
<1>3. e \in [1 .. Len(r) -> 1 .. 0]
  BY <1>2
<1> HIDE DEF e
<1>4. \E g \in [1 .. Len(r) -> 1 .. 0] :
         /\ \A i \in 1 .. Len(r) : r[i] = s[g[i]] /\ r[i] \in S
         /\ \A i, j \in 1 .. Len(r) : i < j => g[i] < g[j]
  BY <1>2, <1>3, Zenon
<1>5. \A i \in 1 .. 0 : s[i] \in S => \E j \in 1 .. Len(r) : r[j] = s[i]
  BY <1>2, Zenon
<1> QED
  BY <1>1, <1>4, <1>5, Zenon DEF Picked

LEMMA PickedNext ==
    ASSUME NEW T, NEW s \in Seq(T), NEW S, NEW n \in 1 .. Len(s), NEW r, Picked(s, S, n - 1, r, T)
    PROVE  Picked(s, S, n, IF s[n] \in S THEN Append(r, s[n]) ELSE r, T)
<1>1. r \in Seq(T) /\ Len(r) \in Nat /\ s[n] \in T
  BY DEF Picked
<1>2. PICK g \in [1 .. Len(r) -> 1 .. n - 1] :
           /\ \A i \in 1 .. Len(r) : r[i] = s[g[i]] /\ r[i] \in S
           /\ \A i, j \in 1 .. Len(r) : i < j => g[i] < g[j]
  BY DEF Picked
<1>3. \A i \in 1 .. n - 1 : s[i] \in S => \E j \in 1 .. Len(r) : r[j] = s[i]
  BY DEF Picked
<1>4. CASE s[n] \in S
  <2> DEFINE h == [i \in 1 .. Len(r) + 1 |-> IF i = Len(r) + 1 THEN n ELSE g[i]]
             a == Append(r, s[n])
  <2>1. a \in Seq(T) /\ Len(a) = Len(r) + 1 /\ a[Len(r) + 1] = s[n]
        /\ \A i \in 1 .. Len(r) : a[i] = r[i]
    BY <1>1
  <2>2. h \in [1 .. Len(a) -> 1 .. n]
    <3>1. \A i \in 1 .. Len(r) + 1 : i = Len(r) + 1 \/ i \in 1 .. Len(r)
      BY <1>1
    <3>2. \A i \in 1 .. Len(r) : g[i] \in 1 .. n
      BY <1>2
    <3>3. h \in [1 .. Len(r) + 1 -> 1 .. n]
      BY <3>1, <3>2
    <3> HIDE DEF a, h
    <3> QED
      BY <2>1, <3>3
  <2>3. \A i \in 1 .. Len(a) : a[i] = s[h[i]] /\ a[i] \in S
    <3> SUFFICES ASSUME NEW i \in 1 .. Len(a) PROVE a[i] = s[h[i]] /\ a[i] \in S
      OBVIOUS
    <3>1. CASE i = Len(r) + 1
      BY <1>4, <2>1, <3>1
    <3>2. CASE i # Len(r) + 1
      <4>1. i \in 1 .. Len(r) /\ h[i] = g[i]
        BY <1>1, <2>1, <3>2
      <4> QED
        BY <1>2, <2>1, <4>1
    <3> QED
      BY <3>1, <3>2
  <2>4. ASSUME NEW i \in 1 .. Len(a), NEW j \in 1 .. Len(a), i < j PROVE h[i] < h[j]
    <3>1. i \in 1 .. Len(r) /\ h[i] = g[i] /\ g[i] < n
      BY <1>1, <1>2, <2>1, <2>4, SMTT(30)
    <3>2. CASE j = Len(r) + 1
      BY <2>1, <3>1, <3>2
    <3>3. CASE j # Len(r) + 1
      <4>1. j \in 1 .. Len(r) /\ h[j] = g[j]
        BY <1>1, <2>1, <3>3
      <4> QED
        BY <1>2, <2>4, <3>1, <4>1
    <3> QED
      BY <3>2, <3>3
  <2>5. ASSUME NEW i \in 1 .. n, s[i] \in S PROVE \E j \in 1 .. Len(a) : a[j] = s[i]
    <3>1. CASE i = n
      BY <1>1, <2>1, <3>1
    <3>2. CASE i # n
      <4>1. PICK j \in 1 .. Len(r) : r[j] = s[i]
        BY <1>3, <2>5, <3>2
      <4> QED
        BY <1>1, <2>1, <4>1
    <3> QED
      BY <3>1, <3>2
  <2> HIDE DEF a, h
  <2>6. Picked(s, S, n, a, T)
    BY <2>1, <2>2, <2>3, <2>4, <2>5 DEF Picked
  <2> QED
    BY <1>4, <2>6 DEF a
<1>5. CASE s[n] \notin S
  <2>1. g \in [1 .. Len(r) -> 1 .. n]
    BY <1>1, <1>2
  <2>2. ASSUME NEW i \in 1 .. n, s[i] \in S PROVE \E j \in 1 .. Len(r) : r[j] = s[i]
    BY <1>3, <1>5, <2>2
  <2> QED
    BY <1>1, <1>2, <1>5, <2>1, <2>2 DEF Picked
<1> QED
  BY <1>4, <1>5

LEMMA FilterIsPicked ==
    ASSUME NEW T, NEW s \in Seq(T), NEW S
    PROVE  Picked(s, S, Len(s), Filter(s, S), T)
<1> DEFINE N == Len(s)
           step(f, n) == IF n = 0 THEN <<>>
                         ELSE IF s[n] \in S THEN Append(f[n - 1], s[n]) ELSE f[n - 1]
           upto(f, m) == f = [n \in 0 .. m |-> step(f, n)]
           G == {m \in 0 .. N : \E f : upto(f, m)}
<1>1. N \in Nat
  OBVIOUS
<1>2. 0 \in G
  <2> DEFINE f == [n \in 0 .. 0 |-> <<>>]
  <2>1. \A n \in 0 .. 0 : step(f, n) = <<>>
    OBVIOUS
  <2>2. upto(f, 0)
    BY <2>1
  <2> HIDE DEF f, upto
  <2>3. 0 \in 0 .. N /\ \E g : upto(g, 0)
    BY <1>1, <2>2
  <2> QED
    BY <2>3
<1>3. ASSUME NEW m \in 1 .. N, m - 1 \in G PROVE m \in G
  <2>1. PICK f : upto(f, m - 1)
    BY <1>3
  <2> DEFINE g == [n \in 0 .. m |-> IF n = m THEN step(f, m) ELSE f[n]]
  <2>2. \A n \in 0 .. m : g[n] = step(g, n)
    <3>1. \A n \in 0 .. m - 1 : f[n] = step(f, n)
      BY <2>1
    <3> QED
      BY <1>1, <3>1
  <2>3. upto(g, m)
    BY <2>2
  <2>4. m \in 0 .. N
    BY <1>1
  <2> HIDE DEF upto, g
  <2> QED
    BY <2>3, <2>4
<1> HIDE DEF G
<1>4. N \in G
  <2>1. \A m \in 1 .. N : m - 1 \in G => m \in G
    BY <1>3
  <2>2. \A m \in 0 .. N : m \in G
    BY <1>1, <1>2, <2>1, Induction
  <2> QED
    BY <1>1, <2>2
<1> DEFINE f == CHOOSE f : upto(f, N)
<1>5. upto(f, N)
  <2>1. \E g : upto(g, N)
    BY <1>4 DEF G
  <2> HIDE DEF upto
  <2> QED
    BY <2>1
<1>6. Filter(s, S) = f[N]
  BY DEF Filter
<1> HIDE DEF f
<1>7. \A n \in 0 .. N : f[n] = step(f, n)
  <2>1. f = [n \in 0 .. N |-> step(f, n)]
    BY <1>5
  <2> HIDE DEF step, N, upto
  <2> QED
    BY ONLY <2>1, Zenon
<1>8. ASSUME NEW n \in 1 .. N
      PROVE  f[n] = IF s[n] \in S THEN Append(f[n - 1], s[n]) ELSE f[n - 1]
  BY <1>1, <1>7
<1> HIDE DEF upto
<1> DEFINE H == {n \in 0 .. N : Picked(s, S, n, f[n], T)}
<1>9. 0 \in H
  <2>1. f[0] = <<>>
    BY <1>1, <1>7
  <2> QED
    BY <1>1, <2>1, PickedNone
<1>10. ASSUME NEW n \in 1 .. N, n - 1 \in H PROVE n \in H
  BY <1>1, <1>8, <1>10, PickedNext
<1> HIDE DEF H
<1>11. \A n \in 0 .. N : n \in H
  BY <1>1, <1>9, <1>10, Induction
<1> QED
  BY <1>1, <1>6, <1>11 DEF H

\* Filter keeps what is in S, all of it and in its order.
LEMMA FilterFacts ==
    ASSUME NEW T, NEW s \in Seq(T), NEW S
    PROVE  /\ Filter(s, S) \in Seq(T) /\ Filter(s, S) \in Seq(T \intersect S)
           /\ \A x \in ToSet(s) : x \in S => x \in ToSet(Filter(s, S))
           /\ \A x \in ToSet(Filter(s, S)) : x \in ToSet(s) /\ x \in S
<1> DEFINE r == Filter(s, S)
<1>1. Picked(s, S, Len(s), r, T)
  BY FilterIsPicked
<1> HIDE DEF r
<1>2. r \in Seq(T) /\ Len(r) \in Nat /\ DOMAIN r = 1 .. Len(r)
  BY <1>1 DEF Picked
<1>3. PICK g \in [1 .. Len(r) -> 1 .. Len(s)] :
           /\ \A i \in 1 .. Len(r) : r[i] = s[g[i]] /\ r[i] \in S
           /\ \A i, j \in 1 .. Len(r) : i < j => g[i] < g[j]
  BY <1>1 DEF Picked
<1>5. r \in Seq(T \intersect S)
  BY <1>2, <1>3
<1>6. ASSUME NEW x \in ToSet(s), x \in S PROVE x \in ToSet(r)
  <2>1. PICK i \in 1 .. Len(s) : s[i] = x
    BY Elements
  <2>2. PICK j \in 1 .. Len(r) : r[j] = s[i]
    BY <1>1, <1>6, <2>1 DEF Picked
  <2> QED
    BY <1>2, <2>1, <2>2, Elements
<1>7. \A i \in 1 .. Len(r) : r[i] = s[g[i]] /\ s[g[i]] \in S
  BY <1>3
<1>8. ASSUME NEW x \in ToSet(r) PROVE x \in ToSet(s) /\ x \in S
  <2>1. PICK i \in 1 .. Len(r) : r[i] = x
    BY <1>2, Elements
  <2>2. g[i] \in 1 .. Len(s) /\ s[g[i]] = x /\ x \in S
    BY <1>7, <2>1
  <2> QED
    BY <2>2, Elements
<1> QED
  BY <1>2, <1>5, <1>6, <1>7, <1>8 DEF r

-----------------------------------------------------------------------------
(* The topics in their order. *)

LEMMA SetToSeqFacts ==
    ASSUME NEW S, IsFiniteSet(S)
    PROVE  /\ SetToSeq(S) \in Seq(S) /\ Len(SetToSeq(S)) = Cardinality(S)
           /\ \A x \in S : \E i \in 1 .. Len(SetToSeq(S)) : SetToSeq(S)[i] = x
<1> DEFINE n == Cardinality(S)
           f == SetToSeq(S)
<1>1. n \in Nat /\ ExistsBijection(1 .. n, S)
  BY FS_CardinalityType
<1>2. \E g \in [1 .. n -> S] : IsInjective(g)
  BY <1>1 DEF ExistsBijection, Bijection, Injection
<1>3. f \in [1 .. n -> S] /\ IsInjective(f)
  BY <1>2 DEF SetToSeq
<1> HIDE DEF f
<1>4. f \in Injection(1 .. n, S)
  BY <1>3 DEF Injection
<1>5. Cardinality(1 .. n) = n
  BY <1>1, FS_Interval
<1>6. f \in Surjection(1 .. n, S)
  BY <1>4, <1>5, FS_Injection
<1>7. f \in Seq(S) /\ Len(f) = n
  BY <1>1, <1>3
<1>8. \A x \in S : \E i \in 1 .. n : f[i] = x
  BY <1>6 DEF Surjection
<1> QED
  BY <1>7, <1>8 DEF f

LEMMA KindsFacts == IsFiniteSet(Kinds) /\ Cardinality(Kinds) \in {0, 1, 2}
<1>1. Kinds \subseteq {"status", "metrics"}
  BY PublisherAssumption
<1>2. IsFiniteSet({"status"}) /\ Cardinality({"status"}) = 1
  BY FS_Singleton
<1>3. IsFiniteSet({"metrics"}) /\ Cardinality({"metrics"}) = 1
  BY FS_Singleton
<1>4. IsFiniteSet({}) /\ Cardinality({}) = 0
  BY FS_EmptySet
<1>5. /\ IsFiniteSet({"status"} \union {"metrics"})
      /\ Cardinality({"status"} \union {"metrics"}) = 2
  BY <1>2, FS_AddElement
<1>6. Kinds \in {{}, {"status"}, {"metrics"}, {"status"} \union {"metrics"}}
  BY <1>1
<1> QED
  BY <1>2, <1>3, <1>4, <1>5, <1>6

LEMMA StateSeqFacts ==
    /\ StateSeq \in Seq(StateTopics)
    /\ \A t \in StateTopics : t \in ToSet(StateSeq)
<1> DEFINE L == Len(Owners)
           M == Len(Names)
<1>1. /\ Owners \in Seq(Ids) /\ L \in Nat
      /\ \A u \in Ids : \E i \in 1 .. L : Owners[i] = u
  BY PublisherAssumption, SetToSeqFacts, FS_CardinalityType DEF Owners
<1>2. /\ Names \in Seq(Kinds) /\ M \in {0, 1, 2}
      /\ \A k \in Kinds : \E i \in 1 .. M : Names[i] = k
  <2>1. IsFiniteSet(Kinds) /\ Cardinality(Kinds) \in {0, 1, 2}
    BY KindsFacts
  <2>2. /\ SetToSeq(Kinds) \in Seq(Kinds) /\ Len(SetToSeq(Kinds)) = Cardinality(Kinds)
        /\ \A k \in Kinds : \E i \in 1 .. Len(SetToSeq(Kinds)) : SetToSeq(Kinds)[i] = k
    BY <2>1, SetToSeqFacts
  <2> QED
    BY <2>1, <2>2, Zenon DEF Names
<1>3. \A i \in 1 .. L : Owners[i] \in Ids
  BY <1>1
<1>4. \A i \in 1 .. M : Names[i] \in Kinds
  BY <1>2
<1>5. L * M \in Nat /\ DOMAIN StateSeq = 1 .. L * M
  BY <1>1, <1>2 DEF StateSeq
<1>6. ASSUME NEW n \in 1 .. L * M
      PROVE  /\ 1 + ((n - 1) \div M) \in 1 .. L /\ 1 + ((n - 1) % M) \in 1 .. M
             /\ StateSeq[n] = <<Owners[1 + ((n - 1) \div M)], Names[1 + ((n - 1) % M)]>>
  <2> HIDE DEF L, M
  <2>1. 1 + ((n - 1) \div M) \in 1 .. L /\ 1 + ((n - 1) % M) \in 1 .. M
    <3>0. M = 0 \/ M = 1 \/ M = 2
      BY <1>2
    <3>1. CASE M = 0
      BY <1>1, <1>6, <3>1
    <3>2. CASE M = 1
      BY <1>1, <1>6, <3>2
    <3>3. CASE M = 2
      BY <1>1, <1>6, <3>3
    <3> QED
      BY <3>0, <3>1, <3>2, <3>3
  <2> QED
    BY <1>6, <2>1 DEF StateSeq, L, M
<1>7. ASSUME NEW n \in 1 .. L * M PROVE StateSeq[n] \in StateTopics
  <2>1. Owners[1 + ((n - 1) \div M)] \in Ids /\ Names[1 + ((n - 1) % M)] \in Kinds
    BY <1>3, <1>4, <1>6
  <2>2. StateSeq[n] = <<Owners[1 + ((n - 1) \div M)], Names[1 + ((n - 1) % M)]>>
    BY <1>6
  <2> HIDE DEF L, M
  <2> QED
    BY ONLY <2>1, <2>2 DEF StateTopics
<1>8. StateSeq \in Seq(StateTopics)
  BY <1>5, <1>7 DEF StateSeq
<1>9. ASSUME NEW t \in StateTopics PROVE t \in ToSet(StateSeq)
  <2>1. PICK u \in Ids, k \in Kinds : t = <<u, k>>
    BY DEF StateTopics
  <2>2. PICK i \in 1 .. L : Owners[i] = u
    BY <1>1
  <2>3. PICK j \in 1 .. M : Names[j] = k
    BY <1>2
  <2> HIDE DEF L, M
  <2> DEFINE n == (i - 1) * M + j
  <2>4. n \in 1 .. L * M /\ (n - 1) \div M = i - 1 /\ (n - 1) % M = j - 1
    <3>0. M = 1 \/ M = 2
      BY <1>2, <2>3
    <3>1. CASE M = 1
      BY <1>1, <3>1
    <3>2. CASE M = 2
      BY <1>1, <3>2
    <3> QED
      BY <3>0, <3>1, <3>2
  <2> HIDE DEF n
  <2>5. StateSeq[n] = <<Owners[1 + (i - 1)], Names[1 + (j - 1)]>>
    BY <1>6, <2>4
  <2>6. 1 + (i - 1) = i /\ 1 + (j - 1) = j
    BY <1>1, <1>2
  <2>7. StateSeq[n] = t
    BY <2>1, <2>2, <2>3, <2>5, <2>6
  <2> QED
    BY <1>5, <2>4, <2>7 DEF ToSet
<1> QED
  BY <1>8, <1>9

LEMMA TopicFacts ==
    /\ Configs \subseteq Topics /\ StateTopics \subseteq Topics /\ Status \in Topics
    /\ \A t \in StateTopics : t \notin Configs /\ t # Status /\ t \in Ids \X Kinds
    /\ Status \notin Configs /\ Reads \notin Topics /\ Events \notin Topics
    /\ \A t \in Configs : t[1] \in Nodes /\ t = Config(t[1])
<1>1. Kinds \subseteq {"status", "metrics"} /\ Dashboard \notin Ids
  BY PublisherAssumption
<1>2. ASSUME NEW t \in Configs PROVE t[1] \in Nodes /\ t = Config(t[1]) /\ t[2] = "config"
  BY DEF Configs, Config, Nodes
<1>3. ASSUME NEW t \in StateTopics PROVE t[1] \in Ids /\ t[2] \in Kinds /\ t \in Ids \X Kinds
  BY DEF StateTopics
<1>4. Status[1] = Dashboard /\ Status[2] = "status"
  BY DEF Status
<1>5. Reads[2] = "read" /\ Events[2] = "events"
  BY DEF Reads, Events
<1>6. ASSUME NEW t \in StateTopics PROVE t \notin Configs /\ t # Status
  BY <1>1, <1>2, <1>3, <1>4
<1>7. Status \notin Configs
  BY <1>2, <1>4
<1>8. Reads \notin Topics /\ Events \notin Topics
  <2>1. ASSUME NEW t \in Topics PROVE t[2] # "read" /\ t[2] # "events"
    BY <1>1, <1>2, <1>3, <1>4 DEF Topics
  <2> QED
    BY <1>5, <2>1
<1> QED
  BY <1>2, <1>3, <1>6, <1>7, <1>8 DEF Topics

LEMMA StatesOfFacts ==
    ASSUME NEW S \in SUBSET Ids
    PROVE  /\ StatesOf(S) \in Seq(S \X Kinds) /\ StatesOf(S) \in Seq(StateTopics)
           /\ \A u \in S, k \in Kinds : <<u, k>> \in ToSet(StatesOf(S))
<1>1. /\ StatesOf(S) \in Seq(StateTopics \intersect (S \X Kinds))
      /\ \A x \in ToSet(StateSeq) : x \in S \X Kinds => x \in ToSet(StatesOf(S))
  BY StateSeqFacts, FilterFacts DEF StatesOf
<1>2. \A u \in S, k \in Kinds : <<u, k>> \in StateTopics
  BY DEF StateTopics
<1> QED
  BY <1>1, <1>2, StateSeqFacts

LEMMA ConfigsFacts ==
    ASSUME NEW S, NEW R
    PROVE  /\ ConfigsOf(S) \in Seq(Configs) /\ DashboardOf(S) \in Seq(Configs)
           /\ ConfigsOf(S) \o DashboardOf(R) \in Seq(Configs)
           /\ <<Config(Dashboard)>> \o ConfigSeq \in Seq(Configs)
<1>1. Owners \in Seq(Ids)
  BY PublisherAssumption, SetToSeqFacts DEF Owners
<1>2. \A i \in DOMAIN Owners : Config(Owners[i]) \in Configs
  BY <1>1 DEF Configs
<1>3. ConfigSeq \in Seq(Configs)
  <2> DEFINE s == [i \in DOMAIN Owners |-> Config(Owners[i])]
  <2>1. DOMAIN Owners = 1 .. Len(Owners) /\ Len(Owners) \in Nat
    BY <1>1
  <2>2. s \in [1 .. Len(Owners) -> Configs]
    BY <1>2, <2>1
  <2> HIDE DEF s
  <2>3. s \in Seq(Configs)
    BY <2>1, <2>2
  <2> QED
    BY <2>3 DEF s, ConfigSeq
<1>4. Config(Dashboard) \in Configs
  BY DEF Configs
<1>5. ConfigsOf(S) \in Seq(Configs)
  BY <1>3, FilterFacts DEF ConfigsOf
<1>6. DashboardOf(S) \in Seq(Configs) /\ DashboardOf(R) \in Seq(Configs)
  BY <1>4 DEF DashboardOf
<1>7. <<Config(Dashboard)>> \in Seq(Configs)
  BY <1>4
<1> QED
  BY <1>3, <1>5, <1>6, <1>7, ConcatFacts

-----------------------------------------------------------------------------
(* What a topic retains in the end. *)

LEMMA Greatest ==
    ASSUME NEW N \in Nat, NEW S \in SUBSET (1 .. N), S # {}
    PROVE  \E x \in S : \A y \in S : y <= x
<1> DEFINE R == {N - x : x \in S}
<1>0. PICK z : z \in S
  OBVIOUS
<1>1. R \in SUBSET Nat /\ R # {}
  <2>1. \A x \in S : N - x \in Nat
    OBVIOUS
  <2>2. N - z \in R
    BY <1>0
  <2> QED
    BY <2>1, <2>2
<1>2. PICK r \in R : \A y \in R : r <= y
  BY <1>1, Least
<1>3. PICK x \in S : r = N - x
  BY <1>2
<1>4. ASSUME NEW y \in S PROVE y <= x
  <2>1. N - x <= N - y
    BY <1>2, <1>3
  <2> QED
    BY <2>1
<1> QED
  BY <1>4

LEMMA MessageFacts ==
    ASSUME NEW m \in Messages
    PROVE  /\ m.topic \in Topics \union {Reads, Events} /\ m.payload \in Payloads
           /\ m.qos \in {0, 1} /\ m.got \in BOOLEAN
BY DEF Messages

\* Messages handed off that say nothing on t, or say v.
LEMMA FinalHanded ==
    ASSUME NEW w \in Seq(Messages), NEW ms \in Seq(Messages),
           \A i \in 1 .. Len(ms) : ~ms[i].got,
           NEW b, NEW t, NEW v
    PROVE  /\ (\A i \in 1 .. Len(ms) : ms[i].topic # t) /\ IsFinal(w, b, t, v)
                => IsFinal(w \o ms, b, t, v)
           /\ (\E i \in 1 .. Len(ms) : ms[i].topic = t)
                /\ (\A i \in 1 .. Len(ms) : ms[i].topic = t => ms[i].payload = v)
                => IsFinal(w \o ms, b, t, v)
<1> DEFINE x == w \o ms
<1>1. /\ x \in Seq(Messages) /\ Len(x) = Len(w) + Len(ms)
      /\ Len(w) \in Nat /\ Len(ms) \in Nat
      /\ DOMAIN x = 1 .. Len(w) + Len(ms) /\ DOMAIN w = 1 .. Len(w)
      /\ \A i \in 1 .. Len(w) : x[i] = w[i]
      /\ \A i \in 1 .. Len(ms) : x[Len(w) + i] = ms[i]
      /\ \A i \in Len(w) + 1 .. Len(w) + Len(ms) :
           i - Len(w) \in 1 .. Len(ms) /\ x[i] = ms[i - Len(w)]
  BY ConcatFacts
<1> HIDE DEF x
<1>2. ASSUME \A i \in 1 .. Len(ms) : ms[i].topic # t, IsFinal(w, b, t, v)
      PROVE  IsFinal(x, b, t, v)
  <2>1. ASSUME NEW i \in DOMAIN x, x[i].topic = t PROVE i \in DOMAIN w /\ x[i] = w[i]
    <3>1. CASE i <= Len(w)
      BY <1>1, <3>1
    <3>2. CASE i > Len(w)
      <4>1. i - Len(w) \in 1 .. Len(ms) /\ ms[i - Len(w)].topic = t
        BY <1>1, <2>1, <3>2
      <4> QED
        BY <1>2, <4>1
    <3> QED
      BY <1>1, <3>1, <3>2
  <2>2. CASE (\A i \in DOMAIN w : w[i].topic = t => w[i].got) /\ b[t] = v
    BY <2>1, <2>2 DEF IsFinal
  <2>3. CASE \E i \in DOMAIN w :
               /\ w[i].topic = t /\ ~w[i].got /\ w[i].payload = v
               /\ \A j \in DOMAIN w : w[j].topic = t /\ ~w[j].got => j <= i
    <3>1. PICK i \in DOMAIN w :
               /\ w[i].topic = t /\ ~w[i].got /\ w[i].payload = v
               /\ \A j \in DOMAIN w : w[j].topic = t /\ ~w[j].got => j <= i
      BY <2>3
    <3>2. i \in DOMAIN x /\ x[i] = w[i]
      BY <1>1
    <3> QED
      BY <2>1, <3>1, <3>2 DEF IsFinal
  <2> QED
    BY <1>2, <2>2, <2>3 DEF IsFinal
<1>3. ASSUME \E i \in 1 .. Len(ms) : ms[i].topic = t,
             \A i \in 1 .. Len(ms) : ms[i].topic = t => ms[i].payload = v
      PROVE  IsFinal(x, b, t, v)
  <2> DEFINE S == {i \in 1 .. Len(ms) : ms[i].topic = t}
  <2>1. PICK n \in S : \A i \in S : i <= n
    BY <1>1, <1>3, Greatest, ZenonT(40)
  <2>2. Len(w) + n \in DOMAIN x /\ x[Len(w) + n] = ms[n]
    BY <1>1
  <2>3. ASSUME NEW j \in DOMAIN x, x[j].topic = t PROVE j <= Len(w) + n
    <3>1. CASE j <= Len(w)
      BY <1>1, <3>1
    <3>2. CASE j > Len(w)
      <4>1. j - Len(w) \in S
        BY <1>1, <2>3, <3>2
      <4> QED
        BY <1>1, <2>1, <4>1
    <3> QED
      BY <1>1, <3>1, <3>2
  <2>4. ms[n].topic = t /\ ~ms[n].got /\ ms[n].payload = v
    BY <1>3, <2>1
  <2> QED
    BY <2>2, <2>3, <2>4 DEF IsFinal
<1> QED
  BY <1>2, <1>3 DEF x

LEMMA RemoveFacts ==
    ASSUME NEW w \in Seq(Messages), NEW i \in 1 .. Len(w)
    PROVE  /\ RemoveAt(w, i) \in Seq(Messages) /\ Len(RemoveAt(w, i)) = Len(w) - 1
           /\ \A j \in 1 .. Len(w) - 1 :
                RemoveAt(w, i)[j] = IF j < i THEN w[j] ELSE w[j + 1]
<1>1. Len(w) \in Nat /\ i - 1 \in Nat /\ i - 1 <= Len(w)
  OBVIOUS
<1>2. /\ SubSeq(w, 1, i - 1) \in Seq(Messages) /\ Len(SubSeq(w, 1, i - 1)) = i - 1
      /\ \A j \in 1 .. i - 1 : SubSeq(w, 1, i - 1)[j] = w[j]
  BY <1>1, SubSeqFacts
<1>3. /\ SubSeq(w, i + 1, Len(w)) \in Seq(Messages) /\ Len(SubSeq(w, i + 1, Len(w))) = Len(w) - i
      /\ \A j \in 1 .. Len(w) - i : SubSeq(w, i + 1, Len(w))[j] = w[i + j]
  BY <1>1, SubSeqFacts
<1>4. ASSUME NEW a \in Seq(Messages), NEW c \in Seq(Messages), Len(a) = i - 1, Len(c) = Len(w) - i,
             \A j \in 1 .. i - 1 : a[j] = w[j], \A j \in 1 .. Len(w) - i : c[j] = w[i + j]
      PROVE  /\ a \o c \in Seq(Messages) /\ Len(a \o c) = Len(w) - 1
             /\ \A j \in 1 .. Len(w) - 1 : (a \o c)[j] = IF j < i THEN w[j] ELSE w[j + 1]
  <2>1. /\ a \o c \in Seq(Messages) /\ Len(a \o c) = Len(w) - 1
        /\ \A j \in 1 .. i - 1 : (a \o c)[j] = a[j]
        /\ \A j \in i .. Len(w) - 1 : j - (i - 1) \in 1 .. Len(w) - i /\ (a \o c)[j] = c[j - (i - 1)]
    <3>1. /\ a \o c \in Seq(Messages) /\ Len(a \o c) = Len(a) + Len(c)
          /\ \A j \in 1 .. Len(a) : (a \o c)[j] = a[j]
          /\ \A j \in Len(a) + 1 .. Len(a) + Len(c) :
               j - Len(a) \in 1 .. Len(c) /\ (a \o c)[j] = c[j - Len(a)]
      BY ConcatFacts
    <3>2. /\ Len(a) + Len(c) = Len(w) - 1 /\ Len(a) + 1 = i
          /\ 1 .. Len(a) = 1 .. i - 1 /\ 1 .. Len(c) = 1 .. Len(w) - i
      BY <1>1, <1>4
    <3> QED
      BY <1>4, <3>1, <3>2
  <2>2. ASSUME NEW j \in 1 .. Len(w) - 1
        PROVE  (a \o c)[j] = IF j < i THEN w[j] ELSE w[j + 1]
    <3>1. CASE j < i
      BY <1>4, <2>1, <3>1
    <3>2. CASE j >= i
      <4>1. j \in i .. Len(w) - 1 /\ i + (j - (i - 1)) = j + 1
        BY <1>1, <3>2
      <4> QED
        BY <1>4, <2>1, <3>2, <4>1
    <3>3. j \in Int /\ i \in Int
      BY <1>1
    <3>4. j < i \/ j >= i
      BY <3>3
    <3> QED
      BY <3>1, <3>2, <3>4
  <2> QED
    BY <2>1, <2>2
<1> QED
  BY <1>2, <1>3, <1>4 DEF RemoveAt

\* A message leaves the connection that says nothing more on t, or has a later
\* one behind it.
LEMMA FinalRemoved ==
    ASSUME NEW w \in Seq(Messages), NEW i \in 1 .. Len(w),
           NEW b, NEW t, NEW v, IsFinal(w, b, t, v),
           \/ w[i].topic # t
           \/ w[i].got
           \/ \E j \in 1 .. Len(w) : i < j /\ w[j].topic = t /\ ~w[j].got
    PROVE  IsFinal(RemoveAt(w, i), b, t, v)
<1> DEFINE x == RemoveAt(w, i)
           at(j) == IF j < i THEN j ELSE j + 1
<1>1. /\ DOMAIN w = 1 .. Len(w) /\ Len(w) \in Nat /\ DOMAIN x = 1 .. Len(w) - 1
      /\ \A j \in DOMAIN x : at(j) \in DOMAIN w /\ x[j] = w[at(j)]
      /\ \A j \in DOMAIN w : j # i => \E n \in DOMAIN x : at(n) = j
  <2>1. DOMAIN w = 1 .. Len(w) /\ Len(w) \in Nat
    OBVIOUS
  <2>2. x \in Seq(Messages) /\ Len(x) = Len(w) - 1
    BY RemoveFacts
  <2>3. \A j \in 1 .. Len(w) - 1 : x[j] = IF j < i THEN w[j] ELSE w[j + 1]
    BY RemoveFacts
  <2> HIDE DEF x
  <2>4. DOMAIN x = 1 .. Len(w) - 1
    BY <2>2
  <2>5. ASSUME NEW j \in DOMAIN w, j # i PROVE \E n \in DOMAIN x : at(n) = j
    <3>1. CASE j < i
      BY <2>1, <2>4, <3>1
    <3>2. CASE j > i
      <4>1. j - 1 \in DOMAIN x /\ at(j - 1) = j
        BY <2>1, <2>4, <3>2
      <4> QED
        BY <4>1
    <3> QED
      BY <2>1, <2>5, <3>1, <3>2
  <2>6. \A j \in DOMAIN x : at(j) \in DOMAIN w /\ x[j] = w[at(j)]
    BY <2>1, <2>3, <2>4
  <2> QED
    BY <2>1, <2>4, <2>5, <2>6
<1>2. \A j, n \in DOMAIN x : at(j) <= at(n) => j <= n
  BY <1>1
<1> HIDE DEF x, at
<1>3. CASE (\A j \in DOMAIN w : w[j].topic = t => w[j].got) /\ b[t] = v
  <2>1. \A j \in DOMAIN x : x[j].topic = t => x[j].got
    BY <1>1, <1>3
  <2> QED
    BY <1>3, <2>1 DEF IsFinal, x
<1>4. CASE \E n \in DOMAIN w :
             /\ w[n].topic = t /\ ~w[n].got /\ w[n].payload = v
             /\ \A j \in DOMAIN w : w[j].topic = t /\ ~w[j].got => j <= n
  <2>1. PICK n \in DOMAIN w :
             /\ w[n].topic = t /\ ~w[n].got /\ w[n].payload = v
             /\ \A j \in DOMAIN w : w[j].topic = t /\ ~w[j].got => j <= n
    BY <1>4
  <2>2. n # i
    <3>1. CASE \E j \in 1 .. Len(w) : i < j /\ w[j].topic = t /\ ~w[j].got
      BY <1>1, <2>1, <3>1
    <3> QED
      BY <2>1, <3>1
  <2>3. PICK k \in DOMAIN x : at(k) = n
    BY <1>1, <2>2
  <2>4. x[k] = w[n]
    BY <1>1, <2>3
  <2>5. ASSUME NEW j \in DOMAIN x, x[j].topic = t, ~x[j].got PROVE j <= k
    <3>1. at(j) <= at(k)
      BY <1>1, <2>1, <2>3, <2>5
    <3> QED
      BY <1>2, <3>1
  <2>6. IsFinal(x, b, t, v)
    BY <2>1, <2>4, <2>5 DEF IsFinal
  <2> QED
    BY <2>6 DEF x
<1> QED
  BY <1>3, <1>4 DEF IsFinal

\* The broker takes the first message that it has not got, and still owes an
\* acknowledgement of it or does not.
LEMMA FinalDelivered ==
    ASSUME NEW w \in Seq(Messages), NEW i \in 1 .. Len(w), ~w[i].got,
           \A j \in 1 .. Len(w) : ~w[j].got => i <= j,
           NEW b, NEW c, NEW t, NEW v, IsFinal(w, b, t, v),
           c[t] = IF w[i].topic = t THEN w[i].payload ELSE b[t]
    PROVE  /\ [w EXCEPT ![i].got = TRUE] \in Seq(Messages)
           /\ IsFinal([w EXCEPT ![i].got = TRUE], c, t, v)
           /\ IsFinal(RemoveAt(w, i), c, t, v)
<1> DEFINE x == [w EXCEPT ![i].got = TRUE]
<1>1. DOMAIN w = 1 .. Len(w) /\ Len(w) \in Nat /\ \A j \in 1 .. Len(w) : w[j] \in Messages
  OBVIOUS
<1>2. /\ x \in Seq(Messages) /\ Len(x) = Len(w) /\ DOMAIN x = DOMAIN w
      /\ \A j \in DOMAIN w : j # i => x[j] = w[j]
      /\ x[i].got /\ x[i].topic = w[i].topic
  <2>1. [w[i] EXCEPT !.got = TRUE] \in Messages
    BY <1>1 DEF Messages
  <2>2. x = [w EXCEPT ![i] = [w[i] EXCEPT !.got = TRUE]]
    BY <1>1 DEF Messages
  <2>3. w[i] \in Messages
    BY <1>1
  <2>4. [w[i] EXCEPT !.got = TRUE].got /\ [w[i] EXCEPT !.got = TRUE].topic = w[i].topic
    BY <2>3 DEF Messages
  <2> QED
    BY <1>1, <2>1, <2>2, <2>4
<1> HIDE DEF x
<1>3. IsFinal(x, c, t, v)
  <2>1. CASE (\A j \in DOMAIN w : w[j].topic = t => w[j].got) /\ b[t] = v
    <3>1. w[i].topic # t
      BY <1>1, <2>1
    <3>2. \A j \in DOMAIN x : x[j].topic = t => x[j].got
      BY <1>2, <2>1
    <3> QED
      BY <2>1, <3>1, <3>2 DEF IsFinal
  <2>2. CASE \E n \in DOMAIN w :
               /\ w[n].topic = t /\ ~w[n].got /\ w[n].payload = v
               /\ \A j \in DOMAIN w : w[j].topic = t /\ ~w[j].got => j <= n
    <3>1. PICK n \in DOMAIN w :
               /\ w[n].topic = t /\ ~w[n].got /\ w[n].payload = v
               /\ \A j \in DOMAIN w : w[j].topic = t /\ ~w[j].got => j <= n
      BY <2>2
    <3>2. CASE n = i
      <4>1. c[t] = v
        BY <3>1, <3>2
      <4>2. ASSUME NEW j \in DOMAIN x, x[j].topic = t PROVE x[j].got
        <5>1. CASE j = i
          BY <1>2, <5>1
        <5>2. CASE j # i
          <6>1. x[j] = w[j] /\ j \in 1 .. Len(w)
            BY <1>1, <1>2, <5>2
          <6>2. ~w[j].got => i <= j /\ j <= n
            BY <1>1, <3>1, <4>2, <6>1
          <6> QED
            BY <1>1, <3>2, <5>2, <6>1, <6>2
        <5> QED
          BY <5>1, <5>2
      <4> QED
        BY <4>1, <4>2 DEF IsFinal
    <3>3. CASE n # i
      <4>1. x[n] = w[n] /\ n \in DOMAIN x
        BY <1>2, <3>3
      <4>2. \A j \in DOMAIN x : x[j].topic = t /\ ~x[j].got => j <= n
        BY <1>2, <3>1
      <4> QED
        BY <3>1, <4>1, <4>2 DEF IsFinal
    <3> QED
      BY <3>2, <3>3
  <2> QED
    BY <2>1, <2>2 DEF IsFinal
<1>4. RemoveAt(w, i) = RemoveAt(x, i)
  <2> DEFINE r == RemoveAt(w, i)
             y == RemoveAt(x, i)
  <2>1. /\ r \in Seq(Messages) /\ Len(r) = Len(w) - 1
        /\ \A j \in 1 .. Len(w) - 1 : r[j] = IF j < i THEN w[j] ELSE w[j + 1]
    BY RemoveFacts
  <2>2. i \in 1 .. Len(x)
    BY <1>2
  <2>3. /\ y \in Seq(Messages) /\ Len(y) = Len(x) - 1
        /\ \A j \in 1 .. Len(x) - 1 : y[j] = IF j < i THEN x[j] ELSE x[j + 1]
    BY <1>2, <2>2, RemoveFacts
  <2> HIDE DEF r, y
  <2>4. ASSUME NEW j \in 1 .. Len(w) - 1 PROVE r[j] = y[j]
    <3>1. CASE j < i
      <4>1. j \in DOMAIN w /\ j # i
        BY <1>1, <3>1
      <4> QED
        BY <1>2, <2>1, <2>3, <3>1, <4>1
    <3>2. CASE ~(j < i)
      <4>1. j + 1 \in DOMAIN w /\ j + 1 # i
        BY <1>1, <3>2
      <4> QED
        BY <1>2, <2>1, <2>3, <3>2, <4>1
    <3> QED
      BY <3>1, <3>2
  <2>5. r = y
    BY <1>2, <2>1, <2>3, <2>4
  <2> QED
    BY <2>5 DEF r, y
<1>5. IsFinal(RemoveAt(x, i), c, t, v)
  <2>1. i \in 1 .. Len(x)
    BY <1>2
  <2> QED
    BY <1>2, <1>3, <2>1, FinalRemoved
<1> QED
  BY <1>2, <1>3, <1>4, <1>5 DEF x

\* IsFinal says what Final does.
LEMMA FinalIsFinal ==
    ASSUME pub.wire \in Seq(Messages), NEW t, NEW v, IsFinal(pub.wire, broker, t, v)
    PROVE  Final(t) = v
<1> DEFINE w == pub.wire
           on == {i \in Ungot(pub) : w[i].topic = t}
<1>1. DOMAIN w = 1 .. Len(w) /\ Len(w) \in Nat
  OBVIOUS
<1>2. on = {i \in DOMAIN w : w[i].topic = t /\ ~w[i].got}
  BY DEF Ungot
<1>3. Final(t) = IF on = {} THEN broker[t]
                 ELSE w[CHOOSE i \in on : \A j \in on : j <= i].payload
  BY DEF Final
<1> HIDE DEF w, on
<1>4. CASE (\A i \in DOMAIN w : w[i].topic = t => w[i].got) /\ broker[t] = v
  BY <1>2, <1>3, <1>4
<1>5. CASE \E i \in DOMAIN w :
             /\ w[i].topic = t /\ ~w[i].got /\ w[i].payload = v
             /\ \A j \in DOMAIN w : w[j].topic = t /\ ~w[j].got => j <= i
  <2>1. PICK i \in DOMAIN w :
             /\ w[i].topic = t /\ ~w[i].got /\ w[i].payload = v
             /\ \A j \in DOMAIN w : w[j].topic = t /\ ~w[j].got => j <= i
    BY <1>5
  <2>2. i \in on /\ \A j \in on : j <= i
    BY <1>2, <2>1
  <2> DEFINE n == CHOOSE n \in on : \A j \in on : j <= n
  <2>3. n \in on /\ \A j \in on : j <= n
    BY <2>2
  <2> HIDE DEF n
  <2>4. n = i
    BY <1>1, <1>2, <2>2, <2>3
  <2>5. Final(t) = w[n].payload
    BY <1>3, <2>2 DEF n
  <2> QED
    BY <2>1, <2>4, <2>5
<1> QED
  BY <1>4, <1>5 DEF IsFinal, w

-----------------------------------------------------------------------------
(* What is outstanding. *)

Carried(w) == {i \in DOMAIN w : w[i].topic # Reads}

LEMMA CarriedFacts ==
    ASSUME NEW w \in Seq(Messages)
    PROVE  /\ Carried(w) \subseteq 1 .. Len(w) /\ IsFiniteSet(Carried(w))
           /\ Cardinality(Carried(w)) \in Nat
<1>1. Carried(w) \subseteq 1 .. Len(w) /\ Len(w) \in Nat
  BY DEF Carried
<1>2. IsFiniteSet(1 .. Len(w))
  BY <1>1, FS_Interval
<1>3. IsFiniteSet(Carried(w))
  BY <1>1, <1>2, FS_Subset
<1> QED
  BY <1>1, <1>3, FS_CardinalityType

LEMMA InFlightFacts ==
    ASSUME NEW p, p.wire \in Seq(Messages)
    PROVE  /\ InFlight(p) = Cardinality(Carried(p.wire)) /\ InFlight(p) \in Nat
           /\ Room(p) \in Nat
           /\ p.conn # "up" => Room(p) = 0
           /\ p.conn = "up" /\ InFlight(p) <= MaxInFlight => InFlight(p) + Room(p) <= MaxInFlight
<1>1. InFlight(p) = Cardinality(Carried(p.wire)) /\ InFlight(p) \in Nat
  BY CarriedFacts DEF InFlight, Carried
<1>2. MaxInFlight \in Nat
  BY PublisherAssumption
<1> QED
  BY <1>1, <1>2 DEF Room

LEMMA CarriedHanded ==
    ASSUME NEW w \in Seq(Messages), NEW ms \in Seq(Messages)
    PROVE  Cardinality(Carried(w \o ms)) <= Cardinality(Carried(w)) + Len(ms)
<1> DEFINE I == Len(w) + 1 .. Len(w) + Len(ms)
           x == w \o ms
<1>1. Len(w) \in Nat /\ Len(ms) \in Nat
  OBVIOUS
<1>2. /\ x \in Seq(Messages) /\ Len(x) = Len(w) + Len(ms)
      /\ \A i \in 1 .. Len(w) : x[i] = w[i]
  BY ConcatFacts
<1> HIDE DEF x
<1>3. Carried(x) \subseteq Carried(w) \union I
  BY <1>1, <1>2 DEF Carried
<1>4. IsFiniteSet(I) /\ Cardinality(I) = Len(ms)
  <2>1. Len(w) + 1 \in Int /\ Len(w) + Len(ms) \in Int
    BY <1>1
  <2>2. \A a, b \in Int : /\ IsFiniteSet(a .. b)
                         /\ Cardinality(a .. b) = IF a > b THEN 0 ELSE b - a + 1
    BY FS_Interval
  <2>3. /\ IsFiniteSet(I)
        /\ Cardinality(I) = IF Len(w) + 1 > Len(w) + Len(ms) THEN 0
                            ELSE (Len(w) + Len(ms)) - (Len(w) + 1) + 1
    BY <2>1, <2>2, Zenon
  <2> HIDE DEF I
  <2> QED
    BY <1>1, <2>3
<1> HIDE DEF I
<1>5. IsFiniteSet(Carried(w)) /\ Cardinality(Carried(w)) \in Nat
  BY CarriedFacts
<1>6. /\ IsFiniteSet(Carried(w) \union I) /\ IsFiniteSet(Carried(w) \intersect I)
      /\ Cardinality(Carried(w) \union I) =
           Cardinality(Carried(w)) + Cardinality(I) - Cardinality(Carried(w) \intersect I)
  BY <1>4, <1>5, FS_Union, FS_Intersection
<1>7. Cardinality(Carried(w) \intersect I) \in Nat
  BY <1>6, FS_CardinalityType
<1>8. Cardinality(Carried(x)) <= Cardinality(Carried(w) \union I)
  BY <1>3, <1>6, FS_Subset
<1>9. Cardinality(Carried(x)) \in Nat
  BY <1>2, CarriedFacts
<1> QED
  BY <1>1, <1>4, <1>5, <1>6, <1>7, <1>8, <1>9 DEF x

LEMMA CarriedFewer ==
    ASSUME NEW w \in Seq(Messages), NEW x \in Seq(Messages),
           NEW g \in [1 .. Len(x) -> 1 .. Len(w)],
           \A i \in 1 .. Len(x) : x[i].topic = w[g[i]].topic,
           \A i, j \in 1 .. Len(x) : i # j => g[i] # g[j]
    PROVE  Cardinality(Carried(x)) <= Cardinality(Carried(w))
<1> DEFINE h == [i \in Carried(x) |-> g[i]]
<1>1. DOMAIN x = 1 .. Len(x) /\ DOMAIN w = 1 .. Len(w)
  OBVIOUS
<1>2. \A i \in Carried(x) : i \in 1 .. Len(x) /\ g[i] \in Carried(w)
  BY <1>1 DEF Carried
<1>3. h \in [Carried(x) -> Carried(w)]
  BY <1>2
<1>4. \A i, j \in Carried(x) : h[i] = h[j] => i = j
  BY <1>2
<1> HIDE DEF h
<1>5. h \in Injection(Carried(x), Carried(w))
  BY <1>3, <1>4 DEF Injection, IsInjective
<1> QED
  BY <1>5, CarriedFacts, FS_Injection

LEMMA CarriedAppended ==
    ASSUME NEW w \in Seq(Messages)
    PROVE  /\ Append(w, Subscribe) \in Seq(Messages)
           /\ Append(w, Subscribe) = w \o <<Subscribe>>
           /\ Carried(Append(w, Subscribe)) = Carried(w)
<1> DEFINE x == Append(w, Subscribe)
<1>1. Subscribe \in Messages /\ Subscribe.topic = Reads
  BY DEF Subscribe, Message, Messages, Payloads
<1>2. /\ Len(w) \in Nat /\ DOMAIN w = 1 .. Len(w)
      /\ x \in Seq(Messages) /\ DOMAIN x = 1 .. Len(w) + 1
      /\ \A i \in 1 .. Len(w) : x[i] = w[i]
      /\ x[Len(w) + 1] = Subscribe
  BY <1>1
<1>3. x = w \o <<Subscribe>>
  BY <1>1
<1> HIDE DEF x
<1>4. Carried(x) = Carried(w)
  BY <1>1, <1>2 DEF Carried
<1> QED
  BY <1>2, <1>3, <1>4 DEF x

-----------------------------------------------------------------------------
(* The steps that a handler is made of. *)

\* From p to q, what was cached stays so, X excepted, what is told is true of a
\* unit of the fleet f, and what is owed stays so.
Keeps(p, q, b, f, X) ==
    /\ q.conn = p.conn
    /\ Len(p.wire) <= Len(q.wire) /\ \A i \in 1 .. Len(p.wire) : q.wire[i] = p.wire[i]
    /\ \A t \in Topics \ X : Cached(p, b, t) => Cached(q, b, t)
    /\ \A t \in StateTopics : t \in Told(p, q) =>
         f[t[1]] # "gone" /\ (t \notin X => Cached(q, b, t))
    /\ \A t \in StateTopics : f[t[1]] = "gone" /\ Owed(p, b, t) => Owed(q, b, t)

LEMMA MemoryFacts ==
    ASSUME NEW p, NEW f, Memory(p, f)
    PROVE  /\ p \in Memories /\ p.conn \in Conns /\ p.wire \in Seq(Messages)
           /\ p.sent \in [Topics -> Payloads] /\ p.removed \in SUBSET Ids
           /\ p.pending \in Seq(Configs) /\ p.tracked \in SUBSET Nodes
           /\ p.read \in ReadRecord /\ p.found \in SUBSET Nodes
BY DEF Memory, Memories

LEMMA ToldFacts ==
    ASSUME NEW p, NEW q, NEW t
    PROVE  t \in Told(p, q) <=> \E i \in Len(p.wire) + 1 .. Len(q.wire) :
                                  q.wire[i].payload # Empty /\ q.wire[i].topic = t
BY DEF Told

LEMMA KeepsTrans ==
    ASSUME NEW p, NEW q, NEW r, NEW b, NEW f, NEW X,
           p.wire \in Seq(Messages), q.wire \in Seq(Messages), r.wire \in Seq(Messages),
           Keeps(p, q, b, f, X), Keeps(q, r, b, f, X)
    PROVE  Keeps(p, r, b, f, X)
<1>1. /\ Len(p.wire) \in Nat /\ Len(q.wire) \in Nat /\ Len(r.wire) \in Nat
      /\ r.conn = p.conn /\ Len(p.wire) <= Len(q.wire) /\ Len(q.wire) <= Len(r.wire)
      /\ \A i \in 1 .. Len(p.wire) : q.wire[i] = p.wire[i]
      /\ \A i \in 1 .. Len(q.wire) : r.wire[i] = q.wire[i]
  BY DEF Keeps
<1>2. /\ Len(p.wire) <= Len(r.wire)
      /\ \A i \in 1 .. Len(p.wire) : r.wire[i] = p.wire[i]
  BY <1>1
<1>3. ASSUME NEW t, t \in Told(p, r) PROVE t \in Told(p, q) \/ t \in Told(q, r)
  <2>1. PICK i \in Len(p.wire) + 1 .. Len(r.wire) : r.wire[i].payload # Empty /\ r.wire[i].topic = t
    BY <1>3, ToldFacts
  <2>2. CASE i <= Len(q.wire)
    <3>1. i \in Len(p.wire) + 1 .. Len(q.wire) /\ r.wire[i] = q.wire[i]
      BY <1>1, <2>2
    <3> QED
      BY <2>1, <3>1, ToldFacts
  <2>3. CASE i > Len(q.wire)
    <3>1. i \in Len(q.wire) + 1 .. Len(r.wire)
      BY <1>1, <2>3
    <3> QED
      BY <2>1, <3>1, ToldFacts
  <2> QED
    BY <1>1, <2>2, <2>3
<1>4. \A t \in Topics \ X : Cached(p, b, t) => Cached(r, b, t)
  BY DEF Keeps
<1>5. ASSUME NEW t \in StateTopics, t \in Told(p, r)
      PROVE  f[t[1]] # "gone" /\ (t \notin X => Cached(r, b, t))
  <2>1. CASE t \in Told(q, r)
    BY <2>1 DEF Keeps
  <2>2. CASE t \in Told(p, q)
    <3>1. f[t[1]] # "gone" /\ (t \notin X => Cached(q, b, t))
      BY <2>2 DEF Keeps
    <3>2. t \notin X /\ Cached(q, b, t) => Cached(r, b, t)
      BY TopicFacts DEF Keeps
    <3> QED
      BY <3>1, <3>2
  <2> QED
    BY <1>3, <1>5, <2>1, <2>2
<1>6. \A t \in StateTopics : f[t[1]] = "gone" /\ Owed(p, b, t) => Owed(r, b, t)
  BY DEF Keeps
<1> QED
  BY <1>1, <1>2, <1>4, <1>5, <1>6 DEF Keeps

\* A step that publishes nothing and forgets at most.
LEMMA Quiet ==
    ASSUME NEW p, NEW q, NEW b, NEW f, NEW X,
           Memory(p, f), HasClient(p), q \in Memories, q.conn = p.conn, q.wire = p.wire,
           \A t \in Topics : q.sent[t] = Empty \/ q.sent[t] = p.sent[t],
           \A u \in p.removed : f[u] = "gone" => u \in q.removed,
           \A i \in DOMAIN q.pending : q.sent[q.pending[i]] = Empty
    PROVE  Memory(q, f) /\ HasClient(q) /\ Keeps(p, q, b, f, X)
<1>1. HasClient(q) /\ InFlight(q) = InFlight(p)
  BY DEF HasClient, InFlight
<1>2. \A u \in Ids, k \in Kinds : <<u, k>> \in Topics
  BY TopicFacts DEF StateTopics
<1>3. \A u \in Ids, k \in Kinds : f[u] = "gone" => q.sent[<<u, k>>] = Empty
  BY <1>2 DEF Memory
<1>4. Memory(q, f)
  BY <1>1, <1>3 DEF Memory
<1>5. p.wire \in Seq(Messages) /\ Len(p.wire) \in Nat
  BY MemoryFacts
<1>6. \A t \in Topics : Cached(p, b, t) => Cached(q, b, t)
  BY DEF Cached
<1>7. \A t : t \notin Told(p, q)
  BY <1>5, ToldFacts
<1>8. \A t \in StateTopics : f[t[1]] = "gone" /\ Owed(p, b, t) => Owed(q, b, t)
  BY DEF Owed
<1>9. Keeps(p, q, b, f, X)
  BY <1>5, <1>6, <1>7, <1>8 DEF Keeps
<1> QED
  BY <1>1, <1>4, <1>9

\* A step that hands ms to the client, of which q takes its last word for sent
\* on every topic, X excepted.
LEMMA Handing ==
    ASSUME NEW p, NEW q, NEW b, NEW f, NEW X, NEW ms \in Seq(Messages),
           Memory(p, f), HasClient(p), q \in Memories, q.conn = p.conn, q.wire = p.wire \o ms,
           Len(ms) <= Room(p) \/ ms = <<Subscribe>>,
           \A i \in 1 .. Len(ms) : ~ms[i].got /\ Fits(ms[i]),
           \A i \in 1 .. Len(ms) : ms[i].topic \in StateTopics /\ ms[i].payload # Empty
                                     => f[ms[i].topic[1]] # "gone",
           \A i \in 1 .. Len(ms) : ms[i].topic \in Topics \ X => ms[i].payload = q.sent[ms[i].topic],
           \A t \in Topics : (\E i \in 1 .. Len(ms) : ms[i].topic = t)
                               \/ q.sent[t] = Empty \/ q.sent[t] = p.sent[t],
           \A t \in StateTopics : t[1] \in p.removed /\ f[t[1]] = "gone" =>
             t[1] \in q.removed \/ \E i \in 1 .. Len(ms) : ms[i].topic = t,
           \A u \in Ids, k \in Kinds : f[u] = "gone" => q.sent[<<u, k>>] = Empty,
           \A i \in DOMAIN q.pending : q.sent[q.pending[i]] = Empty
    PROVE  Memory(q, f) /\ HasClient(q) /\ Keeps(p, q, b, f, X)
<1>1. HasClient(q) /\ q.conn # "retiring" /\ InFlight(p) <= MaxInFlight
  BY DEF HasClient, Memory
<1>2. /\ p.wire \in Seq(Messages) /\ Len(p.wire) \in Nat /\ Len(ms) \in Nat
      /\ DOMAIN p.wire = 1 .. Len(p.wire)
  BY MemoryFacts
<1>3. /\ q.wire \in Seq(Messages) /\ Len(q.wire) = Len(p.wire) + Len(ms)
      /\ DOMAIN q.wire = 1 .. Len(p.wire) + Len(ms)
      /\ \A i \in 1 .. Len(p.wire) : q.wire[i] = p.wire[i]
      /\ \A i \in Len(p.wire) + 1 .. Len(p.wire) + Len(ms) :
           i - Len(p.wire) \in 1 .. Len(ms) /\ q.wire[i] = ms[i - Len(p.wire)]
  BY <1>2, ConcatFacts
<1>0. ASSUME NEW t, NEW v
      PROVE  /\ (\A i \in 1 .. Len(ms) : ms[i].topic # t) /\ IsFinal(p.wire, b, t, v)
                  => IsFinal(q.wire, b, t, v)
             /\ (\E i \in 1 .. Len(ms) : ms[i].topic = t)
                  /\ (\A i \in 1 .. Len(ms) : ms[i].topic = t => ms[i].payload = v)
                  => IsFinal(q.wire, b, t, v)
  <2>1. \A i \in 1 .. Len(ms) : ~ms[i].got
    OBVIOUS
  <2>2. ASSUME NEW w \in Seq(Messages)
        PROVE  /\ (\A i \in 1 .. Len(ms) : ms[i].topic # t) /\ IsFinal(w, b, t, v)
                    => IsFinal(w \o ms, b, t, v)
               /\ (\E i \in 1 .. Len(ms) : ms[i].topic = t)
                    /\ (\A i \in 1 .. Len(ms) : ms[i].topic = t => ms[i].payload = v)
                    => IsFinal(w \o ms, b, t, v)
    BY <2>1, FinalHanded
  <2>3. q.wire = p.wire \o ms /\ p.wire \in Seq(Messages)
    BY <1>2
  <2> QED
    BY ONLY <2>2, <2>3, Zenon
<1>4. InFlight(q) <= MaxInFlight
  <2>1. /\ InFlight(p) = Cardinality(Carried(p.wire)) /\ InFlight(p) \in Nat /\ Room(p) \in Nat
        /\ InFlight(q) = Cardinality(Carried(q.wire)) /\ InFlight(q) \in Nat /\ MaxInFlight \in Nat
    BY <1>2, <1>3, InFlightFacts, PublisherAssumption
  <2>2. CASE Len(ms) <= Room(p)
    <3>1. InFlight(q) <= InFlight(p) + Len(ms)
      BY <1>2, <2>1, CarriedHanded
    <3>2. InFlight(p) + Room(p) <= MaxInFlight
      BY <1>1, <1>2, <2>1, InFlightFacts
    <3> QED
      BY <1>2, <2>1, <2>2, <3>1, <3>2
  <2>3. CASE ms = <<Subscribe>>
    <3>1. Carried(q.wire) = Carried(p.wire)
      <4>1. \A w \in Seq(Messages) : Carried(w \o <<Subscribe>>) = Carried(w)
        BY CarriedAppended, Zenon
      <4> QED
        BY <1>2, <2>3, <4>1, Zenon
    <3> QED
      BY <1>1, <2>1, <3>1
  <2> QED
    BY <2>2, <2>3
<1>5. ASSUME NEW i \in DOMAIN q.wire PROVE Fits(q.wire[i])
  <2>1. CASE i <= Len(p.wire)
    BY <1>2, <1>3, <2>1 DEF Memory
  <2>2. CASE i > Len(p.wire)
    <3>1. i \in Len(p.wire) + 1 .. Len(p.wire) + Len(ms)
      BY <1>2, <1>3, <2>2
    <3>2. i - Len(p.wire) \in 1 .. Len(ms) /\ q.wire[i] = ms[i - Len(p.wire)]
      BY <1>3, <3>1
    <3> QED
      BY <3>2
  <2> QED
    BY <1>2, <1>3, <2>1, <2>2
<1>6. Memory(q, f)
  BY <1>1, <1>4, <1>5 DEF Memory
<1>7. ASSUME NEW t \in Topics \ X, NEW i \in 1 .. Len(ms), ms[i].topic = t
      PROVE  IsFinal(q.wire, b, t, q.sent[t])
  <2>1. \A j \in 1 .. Len(ms) : ms[j].topic = t => ms[j].payload = q.sent[t]
    OBVIOUS
  <2> QED
    BY <1>0, <1>7, <2>1
<1>8. ASSUME NEW t \in Topics \ X, Cached(p, b, t) PROVE Cached(q, b, t)
  <2>1. CASE \E i \in 1 .. Len(ms) : ms[i].topic = t
    BY <1>7, <2>1 DEF Cached
  <2>2. CASE \A i \in 1 .. Len(ms) : ms[i].topic # t
    <3>1. q.sent[t] = Empty \/ q.sent[t] = p.sent[t]
      BY <2>2
    <3>2. \A v : IsFinal(p.wire, b, t, v) => IsFinal(q.wire, b, t, v)
      BY <1>0, <2>2
    <3> QED
      BY <1>8, <3>1, <3>2 DEF Cached
  <2> QED
    BY <2>1, <2>2
<1>9. ASSUME NEW t \in StateTopics, t \in Told(p, q)
      PROVE  f[t[1]] # "gone" /\ (t \notin X => Cached(q, b, t))
  <2>0. t \in Told(p, q)
    BY <1>9
  <2>1. PICK i \in Len(p.wire) + 1 .. Len(q.wire) : q.wire[i].payload # Empty /\ q.wire[i].topic = t
    BY ONLY <2>0, ToldFacts
  <2>2. PICK n \in 1 .. Len(ms) : q.wire[i] = ms[n]
    BY <1>3, <2>1
  <2>3. f[t[1]] # "gone"
    BY <2>1, <2>2
  <2>4. t \notin X => Cached(q, b, t)
    BY <1>7, <2>1, <2>2, TopicFacts DEF Cached
  <2> QED
    BY <2>3, <2>4
<1>10. ASSUME NEW t \in StateTopics, f[t[1]] = "gone", Owed(p, b, t) PROVE Owed(q, b, t)
  <2>1. CASE \E i \in 1 .. Len(ms) : ms[i].topic = t
    <3>1. \A i \in 1 .. Len(ms) : ms[i].topic = t => ms[i].payload = Empty
      BY <1>10
    <3>2. IsFinal(q.wire, b, t, Empty)
      BY <1>0, <2>1, <3>1
    <3> QED
      BY <3>2 DEF Owed
  <2>2. CASE \A i \in 1 .. Len(ms) : ms[i].topic # t
    <3>1. IsFinal(p.wire, b, t, Empty) => IsFinal(q.wire, b, t, Empty)
      BY <1>0, <2>2
    <3>2. t[1] \in p.removed => t[1] \in q.removed
      BY <1>10, <2>2
    <3> QED
      BY <1>10, <3>1, <3>2 DEF Owed
  <2> QED
    BY <2>1, <2>2
<1>11. Keeps(p, q, b, f, X)
  BY <1>2, <1>3, <1>8, <1>9, <1>10 DEF Keeps
<1> QED
  BY <1>1, <1>6, <1>11

-----------------------------------------------------------------------------
(* The handlers. *)

LEMMA ClearsFacts ==
    ASSUME NEW topics \in Seq(StateTopics \union Configs), NEW n \in Nat
    PROVE  LET ms == First([i \in DOMAIN topics |-> Clear(topics[i])], n) IN
           /\ ms \in Seq(Messages) /\ Len(ms) <= n /\ Len(ms) <= Len(topics)
           /\ \A i \in 1 .. Len(ms) :
                /\ ms[i].topic = topics[i] /\ ms[i].payload = Empty
                /\ ~ms[i].got /\ Fits(ms[i])
           /\ \A t \in ToSet(topics) : (\E i \in 1 .. Len(ms) : ms[i].topic = t)
                                         \/ t \in ToSet(Rest(topics, n))
<1> DEFINE all == [i \in DOMAIN topics |-> Clear(topics[i])]
           ms == First(all, n)
           f == First(topics, n)
<1>1. /\ DOMAIN topics = 1 .. Len(topics) /\ Len(topics) \in Nat
      /\ \A i \in 1 .. Len(topics) : topics[i] \in Topics
  BY TopicFacts
<1>2. ASSUME NEW t \in Topics
      PROVE  /\ Clear(t) \in Messages /\ Clear(t).topic = t /\ Clear(t).payload = Empty
             /\ ~Clear(t).got /\ Fits(Clear(t))
  BY DEF Clear, Message, Messages, Payloads, Fits
<1>3. all \in Seq(Messages) /\ Len(all) = Len(topics)
  BY <1>1, <1>2
<1>4. \A i \in 1 .. Len(topics) : all[i] = Clear(topics[i])
  BY <1>1
<1> HIDE DEF all
<1>5. /\ ms \in Seq(Messages) /\ Len(ms) <= n /\ Len(ms) <= Len(all)
      /\ \A i \in 1 .. Len(ms) : ms[i] = all[i]
  BY <1>3, PartsFacts
<1>6. /\ \A i \in 1 .. Len(topics) : i \in 1 .. Len(f) \/ topics[i] \in ToSet(Rest(topics, n))
      /\ f \in Seq(StateTopics \union Configs)
  BY PartsFacts
<1>7. Len(ms) = Len(f)
  <2>1. ASSUME NEW T, NEW s \in Seq(T)
        PROVE  Len(First(s, n)) = IF n < Len(s) THEN n ELSE Len(s)
    <3>1. CASE n < Len(s)
      <4>1. Len(SubSeq(s, 1, n)) = n - 1 + 1
        BY <3>1, SubSeqFacts
      <4> QED
        BY <3>1, <4>1 DEF First
    <3>2. CASE ~(n < Len(s))
      <4>1. Len(SubSeq(s, 1, Len(s))) = Len(s) - 1 + 1
        BY <3>2, SubSeqFacts
      <4> QED
        BY <3>2, <4>1 DEF First
    <3> QED
      BY <3>1, <3>2
  <2>2. Len(First(all, n)) = IF n < Len(all) THEN n ELSE Len(all)
    BY <1>3, <2>1
  <2>3. Len(First(topics, n)) = IF n < Len(topics) THEN n ELSE Len(topics)
    BY <2>1
  <2> QED
    BY <1>3, <2>2, <2>3
<1> HIDE DEF ms, f
<1>8. Len(ms) \in Nat /\ Len(ms) <= Len(topics)
  BY <1>3, <1>5
<1>9. ASSUME NEW i \in 1 .. Len(ms)
      PROVE  /\ ms[i].topic = topics[i] /\ ms[i].payload = Empty
             /\ ~ms[i].got /\ Fits(ms[i])
  <2>1. i \in 1 .. Len(topics) /\ ms[i] = Clear(topics[i])
    BY <1>1, <1>4, <1>5, <1>8
  <2> QED
    BY <1>1, <1>2, <2>1
<1>10. ASSUME NEW t \in ToSet(topics)
       PROVE  (\E i \in 1 .. Len(ms) : ms[i].topic = t) \/ t \in ToSet(Rest(topics, n))
  <2>1. PICK i \in 1 .. Len(topics) : topics[i] = t
    BY Elements
  <2> QED
    BY <1>6, <1>7, <1>9, <2>1
<1> QED
  BY <1>5, <1>8, <1>9, <1>10 DEF ms, all

LEMMA ClearRemovedFacts ==
    ASSUME NEW p, NEW b, NEW f, NEW X, Memory(p, f), HasClient(p),
           \A u \in p.removed, k \in Kinds : <<u, k>> \in X \/ p.sent[<<u, k>>] = Empty
    PROVE  LET q == ClearRemoved(p) IN
           /\ Memory(q, f) /\ HasClient(q) /\ Keeps(p, q, b, f, X)
           /\ q.sent = p.sent /\ q.removed \subseteq p.removed
           /\ q.pending = p.pending /\ q.tracked = p.tracked /\ q.found = p.found
<1> DEFINE topics == StatesOf(p.removed)
           ms == First([i \in DOMAIN topics |-> Clear(topics[i])], Room(p))
           left == ToSet(Rest(topics, Room(p)))
           q == ClearRemoved(p)
<1>1. /\ p \in Memories /\ p.wire \in Seq(Messages) /\ p.removed \in SUBSET Ids
      /\ Room(p) \in Nat
  BY MemoryFacts, InFlightFacts
<1>2. /\ topics \in Seq(p.removed \X Kinds) /\ topics \in Seq(StateTopics)
      /\ \A u \in p.removed, k \in Kinds : <<u, k>> \in ToSet(topics)
  BY <1>1, StatesOfFacts
<1>3. topics \in Seq(StateTopics \union Configs)
  BY <1>2
<1>4. /\ ms \in Seq(Messages) /\ Len(ms) <= Room(p) /\ Len(ms) <= Len(topics)
      /\ \A i \in 1 .. Len(ms) :
           /\ ms[i].topic = topics[i] /\ ms[i].payload = Empty
           /\ ~ms[i].got /\ Fits(ms[i])
      /\ \A t \in ToSet(topics) : (\E i \in 1 .. Len(ms) : ms[i].topic = t) \/ t \in left
  BY <1>1, <1>3, ClearsFacts
<1>5. q = [[p EXCEPT !.wire = @ \o ms]
             EXCEPT !.removed = {u \in @ : \E k \in Kinds : <<u, k>> \in left}]
  BY DEF ClearRemoved, Publish
<1> HIDE DEF ms, left, q
<1>6. p.wire \o ms \in Seq(Messages)
  BY <1>1, <1>4, ConcatFacts
<1>7. /\ q \in Memories /\ q.wire = p.wire \o ms /\ q.conn = p.conn /\ q.sent = p.sent
      /\ q.removed = {u \in p.removed : \E k \in Kinds : <<u, k>> \in left}
      /\ q.pending = p.pending /\ q.tracked = p.tracked /\ q.found = p.found
  BY <1>1, <1>5, <1>6 DEF Memories
<1>8. ASSUME NEW i \in 1 .. Len(ms) PROVE \E u \in p.removed, k \in Kinds : ms[i].topic = <<u, k>>
  <2>1. i \in 1 .. Len(topics)
    BY <1>2, <1>4
  <2> HIDE DEF topics
  <2>2. topics[i] \in p.removed \X Kinds
    BY <1>2, <2>1
  <2> QED
    BY <1>4, <2>2
<1> HIDE DEF topics
<1>9. ASSUME NEW t \in StateTopics, t[1] \in p.removed
      PROVE  t[1] \in q.removed \/ \E i \in 1 .. Len(ms) : ms[i].topic = t
  <2>1. t[2] \in Kinds /\ t = <<t[1], t[2]>>
    BY DEF StateTopics
  <2>2. t \in ToSet(topics)
    BY <1>2, <1>9, <2>1
  <2>3. t \in left => t[1] \in q.removed
    BY <1>7, <1>9, <2>1
  <2> QED
    BY <1>4, <2>2, <2>3
<1>10. ASSUME NEW i \in 1 .. Len(ms), ms[i].topic \in Topics \ X
       PROVE  ms[i].payload = q.sent[ms[i].topic]
  <2>1. PICK u \in p.removed, k \in Kinds : ms[i].topic = <<u, k>>
    BY <1>8
  <2>2. p.sent[<<u, k>>] = Empty
    BY <1>10, <2>1
  <2> QED
    BY <1>4, <1>7, <2>1, <2>2
<1>11. /\ \A i \in 1 .. Len(ms) : ~ms[i].got /\ Fits(ms[i])
       /\ \A i \in 1 .. Len(ms) : ms[i].topic \in StateTopics /\ ms[i].payload # Empty
                                    => f[ms[i].topic[1]] # "gone"
       /\ \A t \in Topics : (\E i \in 1 .. Len(ms) : ms[i].topic = t)
                              \/ q.sent[t] = Empty \/ q.sent[t] = p.sent[t]
  BY <1>4, <1>7
<1>12. /\ \A u \in Ids, k \in Kinds : f[u] = "gone" => q.sent[<<u, k>>] = Empty
       /\ \A i \in DOMAIN q.pending : q.sent[q.pending[i]] = Empty
  BY <1>7 DEF Memory
<1>13. Memory(q, f) /\ HasClient(q) /\ Keeps(p, q, b, f, X)
  <2>1. \A t \in StateTopics : t[1] \in p.removed /\ f[t[1]] = "gone" =>
          t[1] \in q.removed \/ \E i \in 1 .. Len(ms) : ms[i].topic = t
    BY <1>9
  <2>2. ms \in Seq(Messages) /\ (Len(ms) <= Room(p) \/ ms = <<Subscribe>>)
    BY <1>4
  <2>3. q \in Memories /\ q.conn = p.conn /\ q.wire = p.wire \o ms
    BY <1>7
  <2> QED
    BY <1>10, <1>11, <1>12, <2>1, <2>2, <2>3, Handing, Zenon
<1> QED
  BY <1>7, <1>13 DEF q

LEMMA FlushFacts ==
    ASSUME NEW p, NEW b, NEW f, NEW X, Memory(p, f), HasClient(p)
    PROVE  LET q == FlushRemovals(p) IN
           /\ Memory(q, f) /\ HasClient(q) /\ Keeps(p, q, b, f, X)
           /\ q.sent = p.sent /\ q.removed = p.removed
           /\ ToSet(q.pending) \subseteq ToSet(p.pending)
           /\ q.tracked = p.tracked /\ q.found = p.found
<1> DEFINE topics == p.pending
           ms == First([i \in DOMAIN topics |-> Clear(topics[i])], Room(p))
           q == FlushRemovals(p)
<1>1. /\ p \in Memories /\ p.wire \in Seq(Messages) /\ topics \in Seq(Configs)
      /\ Room(p) \in Nat
  BY MemoryFacts, InFlightFacts
<1>2. topics \in Seq(StateTopics \union Configs) /\ Len(topics) \in Nat
  BY <1>1
<1>3. /\ ms \in Seq(Messages) /\ Len(ms) <= Room(p) /\ Len(ms) <= Len(topics)
      /\ \A i \in 1 .. Len(ms) :
           /\ ms[i].topic = topics[i] /\ ms[i].payload = Empty
           /\ ~ms[i].got /\ Fits(ms[i])
  BY <1>1, <1>2, ClearsFacts
<1>4. q = [[p EXCEPT !.wire = @ \o ms] EXCEPT !.pending = Rest(@, Room(p))]
  BY DEF FlushRemovals, Publish
<1>5. /\ Rest(topics, Room(p)) \in Seq(Configs)
      /\ \A x \in ToSet(Rest(topics, Room(p))) : x \in ToSet(topics)
  BY <1>1, PartsFacts
<1> HIDE DEF ms, q
<1>6. p.wire \o ms \in Seq(Messages)
  BY <1>1, <1>3, ConcatFacts
<1>7. /\ q \in Memories /\ q.wire = p.wire \o ms /\ q.conn = p.conn /\ q.sent = p.sent
      /\ q.removed = p.removed /\ q.pending = Rest(topics, Room(p))
      /\ q.tracked = p.tracked /\ q.found = p.found
  BY <1>1, <1>4, <1>5, <1>6 DEF Memories
<1>8. \A t \in ToSet(topics) : p.sent[t] = Empty
  BY DEF ToSet, Memory
<1>9. \A i \in DOMAIN q.pending : q.sent[q.pending[i]] = Empty
  <2>1. \A i \in DOMAIN q.pending : q.pending[i] \in ToSet(topics)
    BY <1>5, <1>7 DEF ToSet
  <2> QED
    BY <1>7, <1>8, <2>1
<1>10. ASSUME NEW i \in 1 .. Len(ms)
       PROVE  ms[i].topic \in Topics \ X => ms[i].payload = q.sent[ms[i].topic]
  <2>1. i \in 1 .. Len(topics)
    BY <1>2, <1>3
  <2>2. topics[i] \in ToSet(topics)
    BY <1>1, <2>1, Elements
  <2> QED
    BY <1>3, <1>7, <1>8, <2>2
<1>11. /\ \A i \in 1 .. Len(ms) : ~ms[i].got /\ Fits(ms[i])
       /\ \A i \in 1 .. Len(ms) : ms[i].topic \in StateTopics /\ ms[i].payload # Empty
                                    => f[ms[i].topic[1]] # "gone"
       /\ \A t \in Topics : (\E i \in 1 .. Len(ms) : ms[i].topic = t)
                              \/ q.sent[t] = Empty \/ q.sent[t] = p.sent[t]
       /\ \A t \in StateTopics : t[1] \in p.removed /\ f[t[1]] = "gone" =>
            t[1] \in q.removed \/ \E i \in 1 .. Len(ms) : ms[i].topic = t
       /\ \A u \in Ids, k \in Kinds : f[u] = "gone" => q.sent[<<u, k>>] = Empty
  BY <1>3, <1>7 DEF Memory
<1>12. Memory(q, f) /\ HasClient(q) /\ Keeps(p, q, b, f, X)
  <2>1. ms \in Seq(Messages) /\ (Len(ms) <= Room(p) \/ ms = <<Subscribe>>)
    BY <1>3
  <2>2. q \in Memories /\ q.conn = p.conn /\ q.wire = p.wire \o ms
    BY <1>7
  <2> QED
    BY <1>9, <1>10, <1>11, <2>1, <2>2, Handing, Zenon
<1>13. ToSet(q.pending) \subseteq ToSet(p.pending)
  BY <1>5, <1>7
<1> QED
  BY <1>7, <1>12, <1>13 DEF q

LEMMA ForgetFacts ==
    ASSUME NEW sent \in [Topics -> Payloads], NEW S
    PROVE  /\ Forget(sent, S) \in [Topics -> Payloads]
           /\ \A t \in Topics : Forget(sent, S)[t] = IF t \in S THEN Empty ELSE sent[t]
BY DEF Forget, Payloads

LEMMA UnqueuedFacts ==
    ASSUME NEW p, NEW b, NEW f, NEW X, NEW S, Memory(p, f), HasClient(p)
    PROVE  LET q == Unqueued(p, S) IN
           /\ Memory(q, f) /\ HasClient(q) /\ Keeps(p, q, b, f, X)
           /\ \A t \in ToSet(q.pending) : t \in ToSet(p.pending) /\ t \notin S
           /\ q = [p EXCEPT !.pending = q.pending]
<1> DEFINE r == Filter(p.pending, Configs \ S)
           q == Unqueued(p, S)
<1>1. p \in Memories /\ p.pending \in Seq(Configs)
  BY MemoryFacts
<1>2. r \in Seq(Configs) /\ \A x \in ToSet(r) : x \in ToSet(p.pending) /\ x \in Configs \ S
  BY <1>1, FilterFacts
<1> HIDE DEF r
<1>3. q = [p EXCEPT !.pending = r]
  BY DEF Unqueued, r
<1> HIDE DEF q
<1>4. q \in Memories /\ q.pending = r
  BY <1>1, <1>2, <1>3 DEF Memories
<1>5. q.conn = p.conn /\ q.wire = p.wire /\ q.sent = p.sent /\ q.removed = p.removed
  BY <1>1, <1>3 DEF Memories
<1>6. \A t \in ToSet(r) : t \in ToSet(p.pending) /\ t \notin S
  BY <1>2
<1>7. ASSUME NEW i \in DOMAIN q.pending PROVE q.sent[q.pending[i]] = Empty
  <2>1. q.pending[i] \in ToSet(p.pending)
    BY <1>4, <1>6 DEF ToSet
  <2> QED
    BY <1>5, <2>1 DEF ToSet, Memory
<1>8. Memory(q, f) /\ HasClient(q) /\ Keeps(p, q, b, f, X)
  BY <1>4, <1>5, <1>7, Quiet
<1> QED
  BY <1>3, <1>4, <1>6, <1>8 DEF q

LEMMA RemoveDiscoveryFacts ==
    ASSUME NEW p, NEW b, NEW f, NEW X, Memory(p, f), HasClient(p), NEW topics \in Seq(Configs)
    PROVE  LET q == RemoveDiscovery(p, topics) IN
           /\ Memory(q, f) /\ HasClient(q) /\ Keeps(p, q, b, f, X)
           /\ \A t \in Topics : q.sent[t] = IF t \in ToSet(topics) THEN Empty ELSE p.sent[t]
           /\ q.conn = p.conn /\ q.wire = p.wire /\ q.removed = p.removed
           /\ q.tracked = p.tracked /\ q.found = p.found /\ q.read = p.read
<1> DEFINE S == ToSet(topics)
           r == Filter(p.pending, Configs \ S)
           s == Forget(p.sent, S)
           q == RemoveDiscovery(p, topics)
<1>1. p \in Memories /\ p.pending \in Seq(Configs) /\ p.sent \in [Topics -> Payloads]
  BY MemoryFacts
<1>2. r \in Seq(Configs) /\ \A x \in ToSet(r) : x \in ToSet(p.pending) /\ x \in Configs \ S
  BY <1>1, FilterFacts
<1>3. s \in [Topics -> Payloads] /\ \A t \in Topics : s[t] = IF t \in S THEN Empty ELSE p.sent[t]
  BY <1>1, ForgetFacts
<1>4. [p EXCEPT !.sent = Forget(@, S)].pending = p.pending
  BY <1>1 DEF Memories
<1>5. q = [[[p EXCEPT !.sent = s] EXCEPT !.pending = r] EXCEPT !.pending = r \o topics]
  <2> DEFINE forgotten == [p EXCEPT !.sent = Forget(@, S)]
  <2>1. q = [Unqueued(forgotten, S) EXCEPT !.pending = @ \o topics]
    BY DEF RemoveDiscovery
  <2>2. Unqueued(forgotten, S) = [forgotten EXCEPT !.pending = r]
    BY <1>4 DEF Unqueued
  <2>3. forgotten = [p EXCEPT !.sent = s]
    OBVIOUS
  <2> HIDE DEF q, r, s
  <2>4. [forgotten EXCEPT !.pending = r].pending = r
    BY <1>1, <2>3 DEF Memories
  <2> QED
    BY <2>1, <2>2, <2>3, <2>4
<1> HIDE DEF q, r, s, S
<1>6. r \o topics \in Seq(Configs)
  BY <1>2, ConcatFacts
<1>7. /\ q \in Memories /\ q.pending = r \o topics /\ q.sent = s
      /\ q.conn = p.conn /\ q.wire = p.wire /\ q.removed = p.removed
      /\ q.tracked = p.tracked /\ q.found = p.found /\ q.read = p.read
  BY <1>1, <1>3, <1>5, <1>6 DEF Memories
<1>8. ASSUME NEW i \in DOMAIN q.pending PROVE q.sent[q.pending[i]] = Empty
  <2>1. /\ Len(r) \in Nat /\ Len(topics) \in Nat /\ DOMAIN q.pending = 1 .. Len(r) + Len(topics)
        /\ \A j \in 1 .. Len(r) : q.pending[j] = r[j]
        /\ \A j \in Len(r) + 1 .. Len(r) + Len(topics) :
             j - Len(r) \in 1 .. Len(topics) /\ q.pending[j] = topics[j - Len(r)]
    BY <1>2, <1>7, ConcatFacts
  <2>2. CASE i <= Len(r)
    <3>1. q.pending[i] \in ToSet(r) /\ q.pending[i] \in Configs
      BY <1>2, <2>1, <2>2, Elements
    <3>2. q.pending[i] \in ToSet(p.pending)
      BY <1>2, <3>1
    <3>3. p.sent[q.pending[i]] = Empty
      BY <3>2 DEF ToSet, Memory
    <3> QED
      BY <1>3, <1>7, <3>1, <3>3, TopicFacts
  <2>3. CASE i > Len(r)
    <3>1. i \in Len(r) + 1 .. Len(r) + Len(topics)
      BY <2>1, <2>3
    <3>2. q.pending[i] \in S /\ q.pending[i] \in Configs
      BY <2>1, <3>1, Elements DEF S
    <3> QED
      BY <1>3, <1>7, <3>2, TopicFacts
  <2> QED
    BY <2>1, <2>2, <2>3
<1>9. \A t \in Topics : q.sent[t] = Empty \/ q.sent[t] = p.sent[t]
  BY <1>3, <1>7
<1>10. Memory(q, f) /\ HasClient(q) /\ Keeps(p, q, b, f, X)
  BY <1>7, <1>8, <1>9, Quiet
<1> QED
  BY <1>3, <1>7, <1>10 DEF q, S

\* Readings are published of units that are there, configs that are not queued
\* to be cleared.
LEMMA PublishChangedFacts ==
    ASSUME NEW p, NEW b, NEW f, NEW X, Memory(p, f), HasClient(p),
           NEW T \in SUBSET Topics, NEW order \in Seq(T), NEW qos \in {0, 1}, NEW payloads,
           DOMAIN payloads \subseteq Topics,
           \A t \in DOMAIN payloads :
             /\ payloads[t] \in Payloads \ {Empty}
             /\ t \in StateTopics => qos = 0 /\ f[t[1]] # "gone"
             /\ t \notin ToSet(p.pending),
           NEW q \in PublishChanged(p, order, payloads, qos)
    PROVE  /\ Memory(q, f) /\ HasClient(q) /\ Keeps(p, q, b, f, X)
           /\ q.removed = p.removed /\ q.pending = p.pending
           /\ q.tracked = p.tracked /\ q.found = p.found
<1> DEFINE changed == {t \in DOMAIN payloads : p.sent[t] # payloads[t]}
           all == Filter(order, changed)
           topics == First(all, Room(p))
           ms == [i \in DOMAIN topics |-> Message(topics[i], payloads[topics[i]], qos)]
           s == [t \in Topics |-> IF t \in ToSet(topics) THEN payloads[t] ELSE p.sent[t]]
<1>1. /\ p \in Memories /\ p.wire \in Seq(Messages) /\ p.sent \in [Topics -> Payloads]
      /\ p.pending \in Seq(Configs) /\ Room(p) \in Nat
  BY MemoryFacts, InFlightFacts
<1>2. all \in Seq(T \intersect changed)
  BY FilterFacts
<1>3. topics \in Seq(T \intersect changed) /\ Len(topics) <= Room(p)
  <2> HIDE DEF all
  <2> QED
    BY <1>1, <1>2, PartsFacts
<1>4. q = Tell(p, topics, payloads, qos)
  BY DEF PublishChanged
<1>5. q = [p EXCEPT !.wire = @ \o ms, !.sent = s]
  BY <1>1, <1>4 DEF Tell, Memories
<1> HIDE DEF topics
<1>6. /\ DOMAIN topics = 1 .. Len(topics) /\ Len(topics) \in Nat
      /\ \A i \in 1 .. Len(topics) : topics[i] \in DOMAIN payloads /\ topics[i] \in Topics
                                     /\ topics[i] \in ToSet(topics)
      /\ \A t \in ToSet(topics) : t \in DOMAIN payloads /\ \E i \in 1 .. Len(topics) : topics[i] = t
  <2>1. \A t \in T \intersect changed : t \in DOMAIN payloads /\ t \in Topics
    OBVIOUS
  <2> HIDE DEF changed
  <2> QED
    BY <1>3, <2>1, Elements
<1>7. ASSUME NEW i \in 1 .. Len(topics)
      PROVE  /\ ms[i] \in Messages /\ ms[i].topic = topics[i] /\ ms[i].payload = payloads[topics[i]]
             /\ ~ms[i].got /\ ms[i].payload # Empty /\ Fits(ms[i])
             /\ ms[i].topic \in StateTopics => f[ms[i].topic[1]] # "gone"
  <2>1. ms[i] = Message(topics[i], payloads[topics[i]], qos)
    BY <1>6
  <2>2. topics[i] \in DOMAIN payloads /\ topics[i] \in Topics
    BY <1>6
  <2> HIDE DEF ms
  <2>3. /\ ms[i].topic = topics[i] /\ ms[i].payload = payloads[topics[i]] /\ ms[i].qos = qos
        /\ ms[i].got = FALSE
    BY <2>1 DEF Message
  <2>4. ms[i] \in Messages
    BY <2>1, <2>2 DEF Message, Messages
  <2>5. ms[i].payload # Empty /\ Fits(ms[i])
    BY <2>2, <2>3 DEF Fits
  <2> QED
    BY <2>2, <2>3, <2>4, <2>5
<1>8. ms \in Seq(Messages) /\ Len(ms) = Len(topics)
  <2>1. ms \in [1 .. Len(topics) -> Messages]
    BY <1>6, <1>7
  <2> HIDE DEF ms
  <2> QED
    BY <1>6, <2>1
<1>9. /\ s \in [Topics -> Payloads]
      /\ \A t \in Topics : s[t] = IF t \in ToSet(topics) THEN payloads[t] ELSE p.sent[t]
  BY <1>1, <1>6
<1> HIDE DEF ms, s
<1>10. p.wire \o ms \in Seq(Messages)
  BY <1>1, <1>8, ConcatFacts
<1>11. /\ q \in Memories /\ q.wire = p.wire \o ms /\ q.sent = s
       /\ q.conn = p.conn /\ q.removed = p.removed /\ q.pending = p.pending
       /\ q.tracked = p.tracked /\ q.found = p.found
  BY <1>1, <1>5, <1>9, <1>10 DEF Memories
<1>12. /\ \A i \in 1 .. Len(ms) : ~ms[i].got /\ Fits(ms[i])
       /\ \A i \in 1 .. Len(ms) : ms[i].topic \in StateTopics /\ ms[i].payload # Empty
                                    => f[ms[i].topic[1]] # "gone"
       /\ \A t \in StateTopics : t[1] \in p.removed /\ f[t[1]] = "gone" =>
            t[1] \in q.removed \/ \E i \in 1 .. Len(ms) : ms[i].topic = t
  BY <1>7, <1>8, <1>11
<1>13. \A i \in 1 .. Len(ms) : ms[i].topic \in Topics \ X => ms[i].payload = q.sent[ms[i].topic]
  BY <1>6, <1>7, <1>8, <1>9, <1>11
<1>14. ASSUME NEW t \in Topics
       PROVE  (\E i \in 1 .. Len(ms) : ms[i].topic = t) \/ q.sent[t] = Empty \/ q.sent[t] = p.sent[t]
  <2>1. CASE t \in ToSet(topics)
    BY <1>6, <1>7, <1>8, <2>1
  <2>2. CASE t \notin ToSet(topics)
    BY <1>9, <1>11, <2>2
  <2> QED
    BY <2>1, <2>2
<1>15. ASSUME NEW u \in Ids, NEW k \in Kinds, f[u] = "gone" PROVE q.sent[<<u, k>>] = Empty
  <2>1. <<u, k>> \in StateTopics /\ <<u, k>> \in Topics /\ <<u, k>>[1] = u
    BY TopicFacts DEF StateTopics
  <2>2. <<u, k>> \notin ToSet(topics)
    BY <1>6, <1>15, <2>1
  <2>3. p.sent[<<u, k>>] = Empty
    BY <1>15 DEF Memory
  <2> QED
    BY <1>9, <1>11, <2>1, <2>2, <2>3
<1>16. ASSUME NEW i \in DOMAIN q.pending PROVE q.sent[q.pending[i]] = Empty
  <2>1. p.sent[p.pending[i]] = Empty /\ p.pending[i] \in Configs /\ p.pending[i] \in ToSet(p.pending)
    BY <1>1, <1>11 DEF Memory, ToSet
  <2>2. p.pending[i] \notin ToSet(topics)
    BY <1>6, <2>1
  <2> QED
    BY <1>9, <1>11, <2>1, <2>2, TopicFacts
<1>17. Memory(q, f) /\ HasClient(q) /\ Keeps(p, q, b, f, X)
  <2>1. ms \in Seq(Messages) /\ (Len(ms) <= Room(p) \/ ms = <<Subscribe>>)
    BY <1>3, <1>8
  <2>2. q \in Memories /\ q.conn = p.conn /\ q.wire = p.wire \o ms
    BY <1>11
  <2> QED
    BY <1>12, <1>13, <1>14, <1>15, <1>16, <2>1, <2>2, Handing, Zenon
<1> QED
  BY <1>11, <1>17

LEMMA Then ==
    ASSUME NEW p, NEW q, NEW r, NEW b, NEW f, NEW X,
           Memory(p, f), Memory(q, f), Memory(r, f), Keeps(p, q, b, f, X), Keeps(q, r, b, f, X)
    PROVE  Keeps(p, r, b, f, X)
BY MemoryFacts, KeepsTrans

\* Nothing but what is tracked, found and queued to be cleared changes.
LEMMA Aside ==
    ASSUME NEW p, NEW b, NEW f, NEW X, Memory(p, f), HasClient(p),
           NEW q \in Memories, q.conn = p.conn, q.wire = p.wire, q.sent = p.sent,
           q.pending = p.pending, \A u \in p.removed : f[u] = "gone" => u \in q.removed
    PROVE  Memory(q, f) /\ HasClient(q) /\ Keeps(p, q, b, f, X)
<1>1. \A i \in DOMAIN q.pending : q.sent[q.pending[i]] = Empty
  BY DEF Memory
<1> QED
  BY <1>1, Quiet

LEMMA StartReadFacts ==
    ASSUME NEW p, NEW b, NEW f, NEW X, Memory(p, f), HasClient(p),
           NEW stage \in {"sync", "sentinel", "purge"}
    PROVE  LET q == StartRead(p, stage) IN
           Memory(q, f) /\ HasClient(q) /\ Keeps(p, q, b, f, X)
<1> DEFINE q == StartRead(p, stage)
           ms == <<Subscribe>>
<1>1. p \in Memories /\ p.wire \in Seq(Messages)
  BY MemoryFacts
<1>2. /\ Subscribe \in Messages /\ Subscribe.topic = Reads /\ Subscribe.payload = Empty
      /\ ~Subscribe.got /\ Fits(Subscribe)
  BY TopicFacts DEF Subscribe, Message, Messages, Payloads, Fits
<1>3. ms \in Seq(Messages) /\ Len(ms) = 1 /\ ms[1] = Subscribe
  BY <1>2
<1>4. p.wire \o ms = Append(p.wire, Subscribe) /\ p.wire \o ms \in Seq(Messages)
  BY <1>1, CarriedAppended
<1>5. [NoRead EXCEPT !.stage = stage] \in ReadRecord
  BY DEF NoRead, ReadRecord
<1>6. q = [p EXCEPT !.read = [NoRead EXCEPT !.stage = stage], !.wire = Append(@, Subscribe)]
  BY DEF StartRead
<1> HIDE DEF q
<1>7. /\ q \in Memories /\ q.wire = p.wire \o ms /\ q.conn = p.conn /\ q.sent = p.sent
      /\ q.removed = p.removed /\ q.pending = p.pending
  BY <1>1, <1>4, <1>5, <1>6 DEF Memories
<1> HIDE DEF ms
<1>8. \A i \in 1 .. Len(ms) : ms[i] = Subscribe
  BY <1>3
<1>9. /\ \A i \in 1 .. Len(ms) : ~ms[i].got /\ Fits(ms[i])
      /\ \A i \in 1 .. Len(ms) : ms[i].topic \in StateTopics /\ ms[i].payload # Empty
                                   => f[ms[i].topic[1]] # "gone"
      /\ \A i \in 1 .. Len(ms) : ms[i].topic \in Topics \ X => ms[i].payload = q.sent[ms[i].topic]
      /\ \A t \in Topics : (\E i \in 1 .. Len(ms) : ms[i].topic = t)
                             \/ q.sent[t] = Empty \/ q.sent[t] = p.sent[t]
      /\ \A t \in StateTopics : t[1] \in p.removed /\ f[t[1]] = "gone" =>
           t[1] \in q.removed \/ \E i \in 1 .. Len(ms) : ms[i].topic = t
      /\ \A u \in Ids, k \in Kinds : f[u] = "gone" => q.sent[<<u, k>>] = Empty
      /\ \A i \in DOMAIN q.pending : q.sent[q.pending[i]] = Empty
  BY <1>2, <1>7, <1>8, TopicFacts DEF Memory
<1>10. Len(ms) <= Room(p) \/ ms = <<Subscribe>>
  BY DEF ms
<1> QED
  <2>1. ms \in Seq(Messages)
    BY <1>3
  <2>2. q \in Memories /\ q.conn = p.conn /\ q.wire = p.wire \o ms
    BY <1>7
  <2>3. Memory(q, f) /\ HasClient(q) /\ Keeps(p, q, b, f, X)
    BY <1>9, <1>10, <2>1, <2>2, Handing, Zenon
  <2> QED
    BY <2>3 DEF q

LEMMA EventFacts ==
    ASSUME NEW p, NEW b, NEW f, NEW X, Memory(p, f), HasClient(p)
    PROVE  LET q == Publish(p, <<Event>>) IN
           Memory(q, f) /\ HasClient(q) /\ Keeps(p, q, b, f, X)
<1> DEFINE q == Publish(p, <<Event>>)
           ms == First(<<Event>>, Room(p))
<1>1. p \in Memories /\ p.wire \in Seq(Messages) /\ Room(p) \in Nat
  BY MemoryFacts, InFlightFacts
<1>2. /\ Event \in Messages /\ Event.topic = Events /\ Event.payload = Empty
      /\ ~Event.got /\ Fits(Event)
  BY TopicFacts DEF Event, Message, Messages, Payloads, Fits
<1>3. <<Event>> \in Seq(Messages) /\ Len(<<Event>>) = 1 /\ <<Event>>[1] = Event
  BY <1>2
<1>4. /\ ms \in Seq(Messages) /\ Len(ms) <= Room(p) /\ Len(ms) <= 1
      /\ \A i \in 1 .. Len(ms) : ms[i] = <<Event>>[i]
  BY <1>1, <1>3, PartsFacts
<1>5. q = [p EXCEPT !.wire = @ \o ms]
  BY DEF Publish
<1> HIDE DEF q, ms
<1>6. \A i \in 1 .. Len(ms) : ms[i] = Event
  <2>1. Len(ms) \in Nat /\ \A i \in 1 .. Len(ms) : i = 1
    BY <1>4
  <2> QED
    BY <1>3, <1>4, <2>1
<1>7. p.wire \o ms \in Seq(Messages)
  BY <1>1, <1>4, ConcatFacts
<1>8. /\ q \in Memories /\ q.wire = p.wire \o ms /\ q.conn = p.conn /\ q.sent = p.sent
      /\ q.removed = p.removed /\ q.pending = p.pending
  BY <1>1, <1>5, <1>7 DEF Memories
<1>9. /\ \A i \in 1 .. Len(ms) : ~ms[i].got /\ Fits(ms[i])
      /\ \A i \in 1 .. Len(ms) : ms[i].topic \in StateTopics /\ ms[i].payload # Empty
                                   => f[ms[i].topic[1]] # "gone"
      /\ \A i \in 1 .. Len(ms) : ms[i].topic \in Topics \ X => ms[i].payload = q.sent[ms[i].topic]
      /\ \A t \in Topics : (\E i \in 1 .. Len(ms) : ms[i].topic = t)
                             \/ q.sent[t] = Empty \/ q.sent[t] = p.sent[t]
      /\ \A t \in StateTopics : t[1] \in p.removed /\ f[t[1]] = "gone" =>
           t[1] \in q.removed \/ \E i \in 1 .. Len(ms) : ms[i].topic = t
      /\ \A u \in Ids, k \in Kinds : f[u] = "gone" => q.sent[<<u, k>>] = Empty
      /\ \A i \in DOMAIN q.pending : q.sent[q.pending[i]] = Empty
  BY <1>2, <1>6, <1>8, TopicFacts DEF Memory
<1> QED
  <2>1. ms \in Seq(Messages) /\ (Len(ms) <= Room(p) \/ ms = <<Subscribe>>)
    BY <1>4
  <2>2. q \in Memories /\ q.conn = p.conn /\ q.wire = p.wire \o ms
    BY <1>8
  <2>3. Memory(q, f) /\ HasClient(q) /\ Keeps(p, q, b, f, X)
    BY <1>9, <2>1, <2>2, Handing, Zenon
  <2> QED
    BY <2>3 DEF q

LEMMA AnnounceFacts ==
    ASSUME NEW p, NEW b, NEW f, NEW X, Memory(p, f), HasClient(p), NEW q \in Announce(p)
    PROVE  /\ Memory(q, f) /\ HasClient(q) /\ Keeps(p, q, b, f, X)
           /\ q.removed = p.removed /\ \A t \in Topics \ {Status} : q.sent[t] = p.sent[t]
<1> DEFINE payloads == [t \in {Status} |-> "1"]
           order == <<Status>>
           T == {Status}
<1>1. q \in PublishChanged(p, order, payloads, 1)
  BY DEF Announce
<1>2. order \in Seq(T) /\ T \in SUBSET Topics /\ DOMAIN payloads \subseteq Topics
  BY TopicFacts
<1>3. \A t \in ToSet(p.pending) : t \in Configs
  BY MemoryFacts, Elements
<1>4. \A t \in DOMAIN payloads :
         /\ payloads[t] \in Payloads \ {Empty}
         /\ t \in StateTopics => 1 = 0 /\ f[t[1]] # "gone"
         /\ t \notin ToSet(p.pending)
  BY <1>3, TopicFacts DEF Payloads, Empty
<1> HIDE DEF payloads, order, T
<1>5. Memory(q, f) /\ HasClient(q) /\ Keeps(p, q, b, f, X)
  BY <1>1, <1>2, <1>4, PublishChangedFacts, ZenonT(40)
<1>6. q.removed = p.removed /\ \A t \in Topics \ {Status} : q.sent[t] = p.sent[t]
  <2>1. PICK topics : /\ q = Tell(p, topics, payloads, 1)
                      /\ \E S : topics = First(Filter(order, S), Room(p))
    BY <1>1 DEF PublishChanged
  <2>2. p \in Memories /\ p.wire \in Seq(Messages)
    BY MemoryFacts
  <2>3. PICK S : topics = First(Filter(order, S), Room(p))
    BY <2>1
  <2>4. Filter(order, S) \in Seq(T) /\ Room(p) \in Nat
    BY <1>2, <2>2, FilterFacts, InFlightFacts
  <2>5. topics \in Seq(T)
    BY <2>3, <2>4, PartsFacts
  <2>6. \A t \in ToSet(topics) : t = Status
    BY <2>5, Elements DEF T
  <2> QED
    BY <2>1, <2>2, <2>6 DEF Tell, Memories
<1> QED
  BY <1>5, <1>6

LEMMA PublishStatesFacts ==
    ASSUME fleet \in [Ids -> UnitStates],
           NEW p, NEW b, NEW X, Memory(p, fleet), HasClient(p), NEW q \in PublishStates(p)
    PROVE  Memory(q, fleet) /\ HasClient(q) /\ Keeps(p, q, b, fleet, X)
<1> DEFINE payloads == [t \in Present \X Kinds |-> Reading(t)]
<1>1. q \in PublishChanged(p, StateSeq, payloads, 0)
  BY DEF PublishStates
<1>2. DOMAIN payloads = Present \X Kinds /\ Present \X Kinds \subseteq StateTopics
  BY DEF Present, StateTopics
<1>3. StateSeq \in Seq(StateTopics) /\ StateTopics \in SUBSET Topics /\ DOMAIN payloads \subseteq Topics
  BY <1>2, StateSeqFacts, TopicFacts
<1>4. \A t \in ToSet(p.pending) : t \in Configs
  BY MemoryFacts, Elements
<1>5. ASSUME NEW t \in DOMAIN payloads
      PROVE  /\ payloads[t] \in Payloads \ {Empty}
             /\ t \in StateTopics => 0 = 0 /\ fleet[t[1]] # "gone"
             /\ t \notin ToSet(p.pending)
  <2>1. t[1] \in Ids /\ fleet[t[1]] # "gone" /\ fleet[t[1]] \in UnitStates /\ t \in StateTopics
    BY <1>2 DEF Present
  <2>2. payloads[t] = Reading(t)
    BY <1>2
  <2>3. Reading(t) \in Payloads \ {Empty}
    BY <2>1 DEF Reading, Payloads, UnitStates, Empty
  <2> QED
    BY <1>4, <2>1, <2>2, <2>3, TopicFacts
<1> HIDE DEF payloads
<1> QED
  BY <1>1, <1>3, <1>5, PublishChangedFacts, ZenonT(40)

LEMMA AdoptFoundFacts ==
    ASSUME NEW p, NEW b, NEW f, NEW X, Memory(p, f), HasClient(p)
    PROVE  LET q == AdoptFound(p) IN
           Memory(q, f) /\ HasClient(q) /\ Keeps(p, q, b, f, X)
<1> DEFINE ours == p.found \ {Dashboard}
           gone == RemoveDiscovery(p, ConfigsOf(ours \ Present))
           q == AdoptFound(p)
<1>1. Memory(gone, f) /\ HasClient(gone) /\ Keeps(p, gone, b, f, X)
  BY ConfigsFacts, RemoveDiscoveryFacts
<1>2. q = [gone EXCEPT !.tracked = @ \union (ours \intersect Present), !.found = {}]
  BY DEF AdoptFound
<1>3. ours \subseteq Nodes
  BY MemoryFacts
<1> HIDE DEF gone, q
<1>4. gone \in Memories
  BY <1>1, MemoryFacts
<1>5. /\ q \in Memories /\ q.conn = gone.conn /\ q.wire = gone.wire /\ q.sent = gone.sent
      /\ q.pending = gone.pending /\ q.removed = gone.removed
  BY <1>2, <1>3, <1>4 DEF Memories
<1>6. Memory(q, f) /\ HasClient(q) /\ Keeps(gone, q, b, f, X)
  BY <1>1, <1>5, Aside
<1>7. Keeps(p, q, b, f, X)
  BY <1>1, <1>6, Then
<1> QED
  BY <1>6, <1>7 DEF q

LEMMA OutdatedFacts ==
    ASSUME NEW p, NEW b, NEW f, NEW X, Memory(p, f), HasClient(p)
    PROVE  LET q == Outdated(p) IN
           Memory(q, f) /\ HasClient(q) /\ Keeps(p, q, b, f, X)
<1> DEFINE gone == RemoveDiscovery(p, ConfigsOf(p.tracked \ Kept(p)))
           q == Outdated(p)
<1>1. Memory(gone, f) /\ HasClient(gone) /\ Keeps(p, gone, b, f, X)
  BY ConfigsFacts, RemoveDiscoveryFacts
<1>2. q = [gone EXCEPT !.tracked = Kept(p) \union {Dashboard}]
  BY DEF Outdated
<1>3. Kept(p) \union {Dashboard} \subseteq Nodes
  BY DEF Kept, Nodes
<1> HIDE DEF gone, q
<1>4. gone \in Memories
  BY <1>1, MemoryFacts
<1>5. /\ q \in Memories /\ q.conn = gone.conn /\ q.wire = gone.wire /\ q.sent = gone.sent
      /\ q.pending = gone.pending /\ q.removed = gone.removed
  BY <1>2, <1>3, <1>4 DEF Memories
<1>6. Memory(q, f) /\ HasClient(q) /\ Keeps(gone, q, b, f, X)
  BY <1>1, <1>5, Aside
<1>7. Keeps(p, q, b, f, X)
  BY <1>1, <1>6, Then
<1> QED
  BY <1>6, <1>7 DEF q

\* What is wanted is not queued to be cleared when it is published.
LEMMA SupersededFacts ==
    ASSUME NEW p, NEW b, NEW f, NEW X, Memory(p, f), HasClient(p)
    PROVE  LET q == Superseded(p) IN
           /\ Memory(q, f) /\ HasClient(q) /\ Keeps(p, q, b, f, X)
           /\ \A t \in Wanted(q) : t \notin ToSet(q.pending)
<1> DEFINE u == Unqueued(p, Wanted(p))
           q == Superseded(p)
<1>1. /\ Memory(u, f) /\ HasClient(u) /\ Keeps(p, u, b, f, X)
      /\ \A t \in ToSet(u.pending) : t \notin Wanted(p)
      /\ u = [p EXCEPT !.pending = u.pending]
  BY UnqueuedFacts
<1>2. q = FlushRemovals(u)
  BY DEF Superseded
<1> HIDE DEF u, q
<1>3. /\ Memory(q, f) /\ HasClient(q) /\ Keeps(u, q, b, f, X)
      /\ ToSet(q.pending) \subseteq ToSet(u.pending) /\ q.tracked = u.tracked
  BY <1>1, <1>2, FlushFacts
<1>4. u.tracked = p.tracked
  <2>1. p \in Memories
    BY MemoryFacts
  <2>2. \A s : [p EXCEPT !.pending = s].tracked = p.tracked
    BY <2>1 DEF Memories
  <2> QED
    BY <1>1, <2>2
<1>5. Wanted(q) = Wanted(p)
  BY <1>3, <1>4 DEF Wanted
<1>6. Keeps(p, q, b, f, X)
  BY <1>1, <1>3, Then
<1> QED
  BY <1>1, <1>3, <1>5, <1>6 DEF q

LEMMA PublishConfigsFacts ==
    ASSUME NEW p, NEW b, NEW f, NEW X, Memory(p, f), HasClient(p),
           \A t \in Wanted(p) : t \notin ToSet(p.pending),
           NEW q \in PublishConfigs(p)
    PROVE  Memory(q, f) /\ HasClient(q) /\ Keeps(p, q, b, f, X)
<1> DEFINE payloads == [t \in Wanted(p) |-> "config"]
           order == <<Config(Dashboard)>> \o ConfigSeq
<1>1. q \in PublishChanged(p, order, payloads, 1)
  BY DEF PublishConfigs
<1>2. order \in Seq(Configs) /\ Configs \in SUBSET Topics
  BY ConfigsFacts, TopicFacts
<1>3. DOMAIN payloads = Wanted(p) /\ Wanted(p) \subseteq Configs
  BY MemoryFacts DEF Wanted, Configs, Nodes
<1>4. DOMAIN payloads \subseteq Topics
  BY <1>2, <1>3
<1>5. \A t \in DOMAIN payloads :
         /\ payloads[t] \in Payloads \ {Empty}
         /\ t \in StateTopics => 1 = 0 /\ f[t[1]] # "gone"
         /\ t \notin ToSet(p.pending)
  BY <1>3, TopicFacts DEF Payloads, Empty
<1> HIDE DEF payloads, order
<1> QED
  BY <1>1, <1>2, <1>4, <1>5, PublishChangedFacts, ZenonT(40)

LEMMA SyncDiscoveryFacts ==
    ASSUME NEW p, NEW b, NEW f, NEW X, Memory(p, f), HasClient(p), NEW q \in SyncDiscovery(p)
    PROVE  Memory(q, f) /\ HasClient(q) /\ Keeps(p, q, b, f, X)
<1> DEFINE a == AdoptFound(p)
           o == Outdated(a)
           s == Superseded(o)
<1>1. q \in PublishConfigs(s)
  BY DEF SyncDiscovery
<1>2. Memory(a, f) /\ HasClient(a) /\ Keeps(p, a, b, f, X)
  BY AdoptFoundFacts
<1> HIDE DEF a
<1>3. Memory(o, f) /\ HasClient(o) /\ Keeps(a, o, b, f, X)
  BY <1>2, OutdatedFacts
<1> HIDE DEF o
<1>4. /\ Memory(s, f) /\ HasClient(s) /\ Keeps(o, s, b, f, X)
      /\ \A t \in Wanted(s) : t \notin ToSet(s.pending)
  BY <1>3, SupersededFacts
<1> HIDE DEF s
<1>5. Memory(q, f) /\ HasClient(q) /\ Keeps(s, q, b, f, X)
  BY <1>1, <1>4, PublishConfigsFacts
<1>6. Keeps(p, o, b, f, X)
  BY <1>2, <1>3, Then
<1>7. Keeps(p, s, b, f, X)
  BY <1>3, <1>4, <1>6, Then
<1> QED
  BY <1>4, <1>5, <1>7, Then

LEMMA PublishFleetFacts ==
    ASSUME fleet \in [Ids -> UnitStates],
           NEW p, NEW b, NEW X, Memory(p, fleet), HasClient(p), NEW q \in PublishFleet(p)
    PROVE  Memory(q, fleet) /\ HasClient(q) /\ Keeps(p, q, b, fleet, X)
<1> DEFINE d == [p EXCEPT !.removed = @ \ Present]
<1>1. PICK a \in Announce(d) : \E s \in PublishStates(ClearRemoved(a)) :
              q \in SyncDiscovery(s) \/ q = FlushRemovals(s)
  BY DEF PublishFleet
<1>2. PICK s \in PublishStates(ClearRemoved(a)) : q \in SyncDiscovery(s) \/ q = FlushRemovals(s)
  BY <1>1
<1>3. /\ d \in Memories /\ d.conn = p.conn /\ d.wire = p.wire /\ d.sent = p.sent
      /\ d.pending = p.pending /\ d.removed = p.removed \ Present
  <2>1. p \in Memories /\ p.removed \ Present \in SUBSET Ids
    BY MemoryFacts
  <2> QED
    BY <2>1 DEF Memories
<1>4. \A u \in p.removed : fleet[u] = "gone" => u \in d.removed
  BY <1>3 DEF Present
<1> HIDE DEF d
<1>5. Memory(d, fleet) /\ HasClient(d) /\ Keeps(p, d, b, fleet, X)
  BY <1>3, <1>4, Aside
<1>6. /\ Memory(a, fleet) /\ HasClient(a) /\ Keeps(d, a, b, fleet, X)
      /\ a.removed = d.removed
  BY <1>5, AnnounceFacts
<1>7. \A u \in a.removed, k \in Kinds : <<u, k>> \in X \/ a.sent[<<u, k>>] = Empty
  <2>1. \A u \in a.removed : u \in Ids /\ fleet[u] = "gone"
    BY <1>3, <1>6, MemoryFacts DEF Present
  <2> QED
    BY <1>6, <2>1 DEF Memory
<1> DEFINE c == ClearRemoved(a)
<1>8. Memory(c, fleet) /\ HasClient(c) /\ Keeps(a, c, b, fleet, X)
  BY <1>6, <1>7, ClearRemovedFacts
<1>9. s \in PublishStates(c)
  BY <1>2
<1> HIDE DEF c
<1>10. Memory(s, fleet) /\ HasClient(s) /\ Keeps(c, s, b, fleet, X)
  BY <1>8, <1>9, PublishStatesFacts
<1>11. Memory(q, fleet) /\ HasClient(q) /\ Keeps(s, q, b, fleet, X)
  BY <1>2, <1>10, SyncDiscoveryFacts, FlushFacts
<1>12. Keeps(p, a, b, fleet, X)
  BY <1>5, <1>6, Then
<1>13. Keeps(p, c, b, fleet, X)
  BY <1>6, <1>8, <1>12, Then
<1>14. Keeps(p, s, b, fleet, X)
  BY <1>8, <1>10, <1>13, Then
<1> QED
  BY <1>10, <1>11, <1>14, Then

-----------------------------------------------------------------------------
(* What goes wrong: late errors, teardowns, restarts. *)

\* The refused or lost publishes are forgotten, the clears of them queued again.
LEMMA LateErrorsFacts ==
    ASSUME NEW p, NEW b, NEW f, NEW X, Memory(p, f), HasClient(p),
           NEW failed \in SUBSET Messages
    PROVE  LET q == LateErrors(p, failed) IN
           /\ Memory(q, f) /\ HasClient(q) /\ Keeps(p, q, b, f, X)
           /\ q.wire = p.wire /\ q.conn = p.conn
           /\ \A t \in Topics : q.sent[t] = Empty \/ q.sent[t] = p.sent[t]
           /\ \A m \in failed : m.topic \in Topics /\ m.payload # Empty => q.sent[m.topic] # m.payload
           /\ \A m \in failed : m.topic \in StateTopics /\ m.payload = Empty => m.topic[1] \in q.removed
<1> DEFINE wrong == {t \in Topics : \E m \in failed : /\ m.topic = t /\ m.payload # Empty
                                                      /\ p.sent[t] = m.payload}
           uncleared == {t \in Topics : \E m \in failed : m.topic = t /\ m.payload = Empty}
           units == {t[1] : t \in uncleared \intersect StateTopics}
           owners == {t[1] : t \in uncleared \intersect Configs} \ p.tracked
           topics == ConfigsOf(owners) \o DashboardOf(owners)
           r == [p EXCEPT !.sent = Forget(@, wrong), !.removed = @ \union units]
           q == LateErrors(p, failed)
<1>1. q = RemoveDiscovery(r, topics)
  BY DEF LateErrors
<1>2. topics \in Seq(Configs)
  BY ConfigsFacts
<1>3. units \in SUBSET Ids
  BY TopicFacts
<1>4. \A m \in failed : m.topic \in StateTopics /\ m.payload = Empty => m.topic[1] \in units
  BY TopicFacts
<1>5. \A m \in failed : m.topic \in Topics /\ m.payload # Empty /\ p.sent[m.topic] = m.payload
                          => m.topic \in wrong
  OBVIOUS
<1> HIDE DEF wrong, units, topics
<1>6. /\ Forget(p.sent, wrong) \in [Topics -> Payloads]
      /\ \A t \in Topics : Forget(p.sent, wrong)[t] = IF t \in wrong THEN Empty ELSE p.sent[t]
  BY MemoryFacts, ForgetFacts
<1>7. p \in Memories /\ p.removed \union units \in SUBSET Ids
  BY <1>3, MemoryFacts
<1>8. /\ r \in Memories /\ r.conn = p.conn /\ r.wire = p.wire /\ r.pending = p.pending
      /\ r.sent = Forget(p.sent, wrong) /\ r.removed = p.removed \union units
  BY <1>6, <1>7 DEF Memories
<1> HIDE DEF r, q
<1>9. \A i \in DOMAIN r.pending : r.sent[r.pending[i]] = Empty
  <2>1. ASSUME NEW i \in DOMAIN p.pending PROVE p.pending[i] \in Topics
    BY MemoryFacts, TopicFacts, Elements
  <2> QED
    BY <1>6, <1>8, <2>1 DEF Memory
<1>10. /\ \A t \in Topics : r.sent[t] = Empty \/ r.sent[t] = p.sent[t]
       /\ \A u \in p.removed : f[u] = "gone" => u \in r.removed
  BY <1>6, <1>8
<1>11. Memory(r, f) /\ HasClient(r) /\ Keeps(p, r, b, f, X)
  BY <1>8, <1>9, <1>10, Quiet
<1>12. /\ Memory(q, f) /\ HasClient(q) /\ Keeps(r, q, b, f, X)
       /\ \A t \in Topics : q.sent[t] = IF t \in ToSet(topics) THEN Empty ELSE r.sent[t]
       /\ q.conn = r.conn /\ q.wire = r.wire /\ q.removed = r.removed
  BY <1>1, <1>2, <1>11, RemoveDiscoveryFacts
<1>13. Keeps(p, q, b, f, X)
  BY <1>11, <1>12, Then
<1>14. \A t \in Topics : q.sent[t] = Empty \/ q.sent[t] = p.sent[t]
  BY <1>10, <1>12
<1>15. \A m \in failed : m.topic \in Topics /\ m.payload # Empty => q.sent[m.topic] # m.payload
  BY <1>5, <1>6, <1>8, <1>12
<1> QED
  BY <1>4, <1>8, <1>12, <1>13, <1>14, <1>15 DEF q

LEMMA FreshFacts ==
    ASSUME NEW c \in Conns, NEW f
    PROVE  Memory(Fresh(c), f) /\ (HasClient(Fresh(c)) <=> c \in {"down", "up"})
<1> DEFINE p == Fresh(c)
<1>1. p \in Memories
  BY DEF Fresh, Memories, NoRead, ReadRecord, Payloads
<1>2. /\ p.conn = c /\ p.wire = <<>> /\ p.pending = <<>> /\ p.read = NoRead
      /\ \A t \in Topics : p.sent[t] = Empty
  BY DEF Fresh
<1>3. InFlight(p) = 0
  <2>1. {i \in DOMAIN p.wire : p.wire[i].topic # Reads} = {}
    BY <1>2
  <2> QED
    BY <2>1, FS_EmptySet DEF InFlight
<1>4. MaxInFlight \in Nat
  BY PublisherAssumption
<1>5. \A u \in Ids, k \in Kinds : <<u, k>> \in Topics
  BY TopicFacts DEF StateTopics
<1> HIDE DEF p
<1>6. Memory(p, f)
  BY <1>1, <1>2, <1>3, <1>4, <1>5 DEF Memory
<1>7. HasClient(p) <=> c \in {"down", "up"}
  BY <1>2 DEF HasClient
<1> QED
  BY <1>6, <1>7 DEF p

\* A client that is gone: nothing is queued but the states of units.
LEMMA ReopenedFacts ==
    ASSUME NEW p, NEW b, NEW c, NEW f, Memory(p, f), \A t \in StateTopics : c[t] = b[t]
    PROVE  LET r == Reopened(p) IN
           /\ Memory(r, f) /\ r.conn = "down"
           /\ \A t \in StateTopics : Owed(p, b, t) => Owed(r, c, t)
<1> DEFINE closed == [Fresh("none") EXCEPT !.removed = p.removed, !.pending = p.pending,
                                           !.tracked = p.tracked]
           failed == ToSet(p.wire)
           wrong == {t \in Topics : \E m \in failed : /\ m.topic = t /\ m.payload # Empty
                                                      /\ closed.sent[t] = m.payload}
           uncleared == {t \in Topics : \E m \in failed : m.topic = t /\ m.payload = Empty}
           units == {t[1] : t \in uncleared \intersect StateTopics}
           owners == {t[1] : t \in uncleared \intersect Configs} \ closed.tracked
           topics == ConfigsOf(owners) \o DashboardOf(owners)
           q == [closed EXCEPT !.sent = Forget(@, wrong), !.removed = @ \union units]
           r == Reopened(p)
<1>1. r = [RemoveDiscovery(q, topics) EXCEPT !.conn = "down"]
  BY DEF Reopened, LateErrors
<1>2. p.removed \in SUBSET Ids /\ p.pending \in Seq(Configs) /\ p.tracked \in SUBSET Nodes
  BY MemoryFacts
<1>3. Fresh("none") \in Memories
  BY FreshFacts, MemoryFacts DEF Conns
<1>4. /\ closed \in Memories /\ closed.conn = "none" /\ closed.wire = <<>>
      /\ closed.read = NoRead /\ closed.pending = p.pending /\ closed.removed = p.removed
      /\ \A t \in Topics : closed.sent[t] = Empty
  <2>1. /\ Fresh("none").conn = "none" /\ Fresh("none").wire = <<>> /\ Fresh("none").read = NoRead
        /\ \A t \in Topics : Fresh("none").sent[t] = Empty
    BY DEF Fresh
  <2> QED
    BY <1>2, <1>3, <2>1 DEF Memories
<1>5. units \in SUBSET Ids
  BY TopicFacts
<1>6. \A m \in failed : m.topic \in StateTopics /\ m.payload = Empty => m.topic[1] \in units
  BY TopicFacts
<1> HIDE DEF closed, wrong, units, topics
<1>7. /\ Forget(closed.sent, wrong) \in [Topics -> Payloads]
      /\ \A t \in Topics : Forget(closed.sent, wrong)[t] = Empty
  <2>1. closed.sent \in [Topics -> Payloads]
    BY <1>4 DEF Memories
  <2> QED
    BY <1>4, <2>1, ForgetFacts
<1>8. p.removed \union units \in SUBSET Ids
  BY <1>2, <1>5
<1>9. /\ q \in Memories /\ q.conn = "none" /\ q.wire = <<>> /\ q.read = NoRead
      /\ q.pending = p.pending /\ q.removed = p.removed \union units
      /\ \A t \in Topics : q.sent[t] = Empty
  BY <1>4, <1>7, <1>8 DEF Memories
<1> HIDE DEF q
<1>10. /\ Forget(q.sent, ToSet(topics)) \in [Topics -> Payloads]
       /\ \A t \in Topics : Forget(q.sent, ToSet(topics))[t] = Empty
  <2>1. q.sent \in [Topics -> Payloads]
    BY <1>9 DEF Memories
  <2> QED
    BY <1>9, <2>1, ForgetFacts
<1>11. RemoveDiscovery(q, topics) = [q EXCEPT !.sent = Forget(@, ToSet(topics))]
  BY <1>9 DEF RemoveDiscovery, HasClient
<1>12. /\ r \in Memories /\ r.conn = "down" /\ r.wire = <<>>
       /\ r.pending = p.pending /\ r.removed = p.removed \union units
       /\ \A t \in Topics : r.sent[t] = Empty
  <2> DEFINE o == RemoveDiscovery(q, topics)
  <2>1. /\ o \in Memories /\ o.wire = <<>> /\ o.read = NoRead
        /\ o.pending = p.pending /\ o.removed = p.removed \union units
        /\ \A t \in Topics : o.sent[t] = Empty
    BY <1>9, <1>10, <1>11 DEF Memories
  <2>2. r = [o EXCEPT !.conn = "down"]
    BY <1>1
  <2> HIDE DEF o, r
  <2> QED
    BY <2>1, <2>2 DEF Memories, Conns
<1> HIDE DEF r
<1>13. InFlight(r) = 0
  <2>1. {i \in DOMAIN r.wire : r.wire[i].topic # Reads} = {}
    BY <1>12
  <2> QED
    BY <2>1, FS_EmptySet DEF InFlight
<1>14. Memory(r, f)
  <2>1. MaxInFlight \in Nat
    BY PublisherAssumption
  <2>2. \A u \in Ids, k \in Kinds : <<u, k>> \in Topics
    BY TopicFacts DEF StateTopics
  <2>3. \A i \in DOMAIN r.pending : r.pending[i] \in Topics
    BY <1>2, <1>12, TopicFacts, Elements
  <2> QED
    BY <1>12, <1>13, <2>1, <2>2, <2>3 DEF Memory, HasClient
<1>15. ASSUME NEW t \in StateTopics, Owed(p, b, t) PROVE Owed(r, c, t)
  <2>1. CASE t[1] \in p.removed
    BY <1>12, <2>1 DEF Owed
  <2>2. CASE b[t] = Empty
    <3>1. c[t] = Empty /\ DOMAIN r.wire = {}
      BY <1>12, <2>2
    <3>2. IsFinal(r.wire, c, t, Empty)
      BY <3>1 DEF IsFinal
    <3> QED
      BY <3>2 DEF Owed
  <2>3. ASSUME NEW i \in DOMAIN p.wire, p.wire[i].topic = t, p.wire[i].payload = Empty
        PROVE  Owed(r, c, t)
    <3>1. p.wire[i] \in failed
      BY MemoryFacts, Elements
    <3> QED
      BY <1>6, <1>12, <2>3, <3>1 DEF Owed
  <2> QED
    BY <1>15, <2>1, <2>2, <2>3 DEF Owed, IsFinal
<1> QED
  BY <1>12, <1>14, <1>15 DEF r

\* One message less, or one that the broker has got.
LEMMA WireFacts ==
    ASSUME NEW p, NEW f, Memory(p, f), NEW i \in DOMAIN p.wire
    PROVE  /\ \A q \in Memories :
                /\ q.wire = RemoveAt(p.wire, i) \/ q.wire = [p.wire EXCEPT ![i].got = TRUE]
                /\ q.conn = p.conn /\ q.sent = p.sent /\ q.removed = p.removed
                /\ q.pending = p.pending /\ (~HasClient(p) => q.read = NoRead)
                => Memory(q, f)
           /\ Without(p, i) \in Memories /\ Without(p, i).wire = RemoveAt(p.wire, i)
           /\ [p EXCEPT !.wire[i].got = TRUE] \in Memories
<1> DEFINE w == p.wire
           got == [w EXCEPT ![i].got = TRUE]
<1>1. p \in Memories /\ w \in Seq(Messages) /\ Len(w) \in Nat /\ i \in 1 .. Len(w) /\ DOMAIN w = 1 .. Len(w)
  BY MemoryFacts
<1>2. /\ RemoveAt(w, i) \in Seq(Messages) /\ Len(RemoveAt(w, i)) = Len(w) - 1
      /\ \A j \in 1 .. Len(w) - 1 : RemoveAt(w, i)[j] = IF j < i THEN w[j] ELSE w[j + 1]
  BY <1>1, RemoveFacts
<1>3. /\ got \in Seq(Messages) /\ Len(got) = Len(w)
      /\ \A j \in 1 .. Len(w) : got[j].topic = w[j].topic /\ got[j].payload = w[j].payload
                                 /\ got[j].qos = w[j].qos
  <2>0. w[i] \in Messages
    BY <1>1
  <2>1. [w[i] EXCEPT !.got = TRUE] \in Messages /\ w[i] \in Messages
    BY <2>0 DEF Messages
  <2>2. /\ [w[i] EXCEPT !.got = TRUE].topic = w[i].topic
        /\ [w[i] EXCEPT !.got = TRUE].payload = w[i].payload
        /\ [w[i] EXCEPT !.got = TRUE].qos = w[i].qos
    BY <2>1 DEF Messages
  <2>3. got = [w EXCEPT ![i] = [w[i] EXCEPT !.got = TRUE]]
    OBVIOUS
  <2> QED
    BY <1>1, <2>1, <2>2, <2>3
<1> HIDE DEF w, got
<1>4. Cardinality(Carried(RemoveAt(w, i))) <= Cardinality(Carried(w))
  <2> DEFINE g == [j \in 1 .. Len(w) - 1 |-> IF j < i THEN j ELSE j + 1]
  <2>1. g \in [1 .. Len(RemoveAt(w, i)) -> 1 .. Len(w)]
    BY <1>1, <1>2
  <2>2. \A j \in 1 .. Len(RemoveAt(w, i)) : RemoveAt(w, i)[j].topic = w[g[j]].topic
    BY <1>1, <1>2
  <2>3. \A j, k \in 1 .. Len(RemoveAt(w, i)) : j # k => g[j] # g[k]
    BY <1>1, <1>2
  <2> HIDE DEF g
  <2> QED
    BY <1>1, <1>2, <2>1, <2>2, <2>3, CarriedFewer
<1>5. Cardinality(Carried(got)) <= Cardinality(Carried(w))
  <2> DEFINE g == [j \in 1 .. Len(w) |-> j]
  <2>1. g \in [1 .. Len(got) -> 1 .. Len(w)]
    BY <1>3
  <2>2. \A j \in 1 .. Len(got) : got[j].topic = w[g[j]].topic
    BY <1>3
  <2>3. \A j, k \in 1 .. Len(got) : j # k => g[j] # g[k]
    BY <1>3
  <2> HIDE DEF g
  <2> QED
    BY <1>1, <1>3, <2>1, <2>2, <2>3, CarriedFewer
<1>6. ASSUME NEW q \in Memories, q.wire = RemoveAt(w, i) \/ q.wire = got,
             q.conn = p.conn, q.sent = p.sent, q.removed = p.removed,
             q.pending = p.pending, ~HasClient(p) => q.read = NoRead
      PROVE  Memory(q, f)
  <2>1. p.conn # "retiring" => InFlight(q) <= MaxInFlight
    <3>1. q.wire \in Seq(Messages) /\ p.wire \in Seq(Messages)
      BY <1>6, <1>2, <1>3, MemoryFacts
    <3>2. /\ InFlight(q) = Cardinality(Carried(q.wire)) /\ InFlight(q) \in Nat
          /\ InFlight(p) = Cardinality(Carried(p.wire)) /\ InFlight(p) \in Nat
      BY <3>1, InFlightFacts
    <3>3. InFlight(q) <= InFlight(p)
      BY <1>4, <1>5, <1>6, <3>2 DEF w
    <3>4. MaxInFlight \in Nat
      BY PublisherAssumption
    <3> QED
      BY <3>2, <3>3, <3>4 DEF Memory
  <2>2. \A j \in DOMAIN q.wire : Fits(q.wire[j])
    <3>1. \A j \in 1 .. Len(w) : Fits(w[j])
      BY <1>1 DEF Memory, w
    <3>2. CASE q.wire = RemoveAt(w, i)
      <4>1. ASSUME NEW j \in 1 .. Len(w) - 1 PROVE Fits(RemoveAt(w, i)[j])
        <5>1. j \in 1 .. Len(w) /\ j + 1 \in 1 .. Len(w)
          BY <1>1
        <5> QED
          BY <1>2, <3>1, <5>1
      <4> QED
        BY <1>1, <1>2, <3>2, <4>1
    <3>3. CASE q.wire = got
      <4>1. \A j \in 1 .. Len(w) : Fits(got[j])
        BY <1>3, <3>1 DEF Fits
      <4> QED
        BY <1>1, <1>3, <3>3, <4>1
    <3> QED
      BY <1>6, <3>2, <3>3
  <2>3. HasClient(q) <=> HasClient(p)
    BY <1>6 DEF HasClient
  <2> QED
    BY <1>6, <2>1, <2>2, <2>3 DEF Memory
<1>7. Without(p, i) \in Memories /\ Without(p, i).wire = RemoveAt(p.wire, i)
  BY <1>1, <1>2 DEF Without, Memories, w
<1>8. [p EXCEPT !.wire[i].got = TRUE] \in Memories
  <2>1. [p EXCEPT !.wire[i].got = TRUE] = [p EXCEPT !.wire = got]
    BY DEF got, w
  <2> QED
    BY <1>1, <1>3, <2>1 DEF Memories
<1> QED
  BY <1>6, <1>7, <1>8 DEF w, got

-----------------------------------------------------------------------------
(* The steps. *)

LEMMA IInvFacts ==
    ASSUME IInv
    PROVE  /\ Typed /\ Memory(pub, fleet) /\ (settings.enabled <=> HasClient(pub))
           /\ pub \in Memories /\ fleet \in [Ids -> UnitStates]
           /\ HasClient(pub) => \A t \in StateTopics \ excused :
                                  fleet[t[1]] = "gone" => Owed(pub, broker, t)
           /\ ~HasClient(pub) => \A t \in StateTopics \ excused : fleet[t[1]] # "gone"
           /\ WillSays \in [Topics -> Payloads] /\ \A t \in StateTopics : WillSays[t] = broker[t]
<1>1. Memory(pub, fleet) /\ pub \in Memories
  BY MemoryFacts DEF IInv
<1>2. WillSays \in [Topics -> Payloads] /\ \A t \in StateTopics : WillSays[t] = broker[t]
  BY TopicFacts DEF IInv, Typed, WillSays, Payloads
<1> QED
  BY <1>1, <1>2 DEF IInv, Typed, OwedInv

\* With a client: the step goes by way of p, and from p on by what is handed off.
LEMMA StepKeeps ==
    ASSUME Typed', settings'.enabled, Memory(pub', fleet'), NEW p, NEW X \in SUBSET StateTopics,
           HasClient(p), Keeps(p, pub', broker', fleet', X),
           p.conn = "up" => \A t \in Topics : (t \in StateTopics /\ t \in excused) \/ Cached(p, broker', t),
           \A t \in StateTopics \ excused : fleet'[t[1]] = "gone" => Owed(p, broker', t),
           X \subseteq excused',
           \A t \in StateTopics : t \in excused => \/ t \in excused' \/ t \in Told(p, pub')
                                                   \/ (fleet'[t[1]] # "gone" /\ Cached(p, broker', t))
    PROVE  IInv'
<1>1. pub'.conn = p.conn /\ HasClient(pub')
  BY DEF Keeps, HasClient
<1>2. ASSUME NEW t \in Topics, p.conn = "up", ~(t \in StateTopics /\ t \in excused')
      PROVE  Cached(pub', broker', t)
  <2>1. t \notin X
    BY <1>2
  <2>2. CASE Cached(p, broker', t)
    BY <2>1, <2>2 DEF Keeps
  <2>3. CASE ~Cached(p, broker', t)
    <3>1. t \in StateTopics /\ t \in Told(p, pub')
      BY <1>2, <2>3
    <3> QED
      BY <2>1, <3>1 DEF Keeps
  <2> QED
    BY <2>2, <2>3
<1>3. CacheInv'
  BY <1>1, <1>2 DEF CacheInv
<1>4. ASSUME NEW t \in StateTopics, t \notin excused', fleet'[t[1]] = "gone"
      PROVE  Owed(pub', broker', t)
  <2>1. t \notin Told(p, pub')
    BY <1>4 DEF Keeps
  <2>2. Owed(p, broker', t)
    BY <1>4, <2>1
  <2> QED
    BY <1>4, <2>2 DEF Keeps
<1>5. OwedInv'
  BY <1>1, <1>4 DEF OwedInv
<1> QED
  BY <1>1, <1>3, <1>5 DEF IInv

\* Without a client.
LEMMA StepEnds ==
    ASSUME Typed', ~settings'.enabled, Memory(pub', fleet'), ~HasClient(pub'),
           \A t \in StateTopics \ excused' : fleet'[t[1]] # "gone"
    PROVE  IInv'
<1>1. pub'.conn # "up"
  BY DEF HasClient
<1> QED
  BY <1>1 DEF IInv, CacheInv, OwedInv

\* The broker takes a message, or acknowledges one.
LEMMA StepWire ==
    ASSUME IInv, Typed', Memory(pub', fleet), UNCHANGED <<fleet, settings, excused>>,
           pub'.conn = pub.conn, pub'.sent = pub.sent, pub'.removed = pub.removed,
           \A t \in Topics, v \in Payloads :
             IsFinal(pub.wire, broker, t, v) => IsFinal(pub'.wire, broker', t, v)
    PROVE  IInv'
<1>1. HasClient(pub') <=> HasClient(pub)
  BY DEF HasClient
<1>2. \A t \in Topics : pub.sent[t] \in Payloads
  BY MemoryFacts DEF IInv
<1>3. \A t \in Topics : Cached(pub, broker, t) => Cached(pub', broker', t)
  BY <1>2 DEF Cached
<1>4. \A t \in StateTopics : Owed(pub, broker, t) => Owed(pub', broker', t)
  BY TopicFacts DEF Owed, Payloads
<1>5. CacheInv'
  BY <1>3 DEF IInv, CacheInv
<1>6. OwedInv'
  BY <1>1, <1>4 DEF IInv, OwedInv
<1> QED
  BY <1>1, <1>5, <1>6 DEF IInv

LEMMA InitIInv == Init => IInv
<1> SUFFICES ASSUME Init PROVE IInv
  OBVIOUS
<1>1. Memory(pub, fleet) /\ HasClient(pub)
  BY FreshFacts DEF Init, Conns
<1>2. Typed
  <2>1. MaxEvents \in Nat
    BY PublisherAssumption
  <2>2. fleet \in [Ids -> UnitStates]
    BY DEF Init, UnitStates
  <2>3. broker \in [Topics -> Payloads]
    BY DEF Init, Payloads
  <2>4. settings \in [enabled : BOOLEAN, discovery : BOOLEAN]
    BY DEF Init
  <2>5. stuck \in BOOLEAN
    BY Zenon DEF Init
  <2>6. events \in 0 .. MaxEvents /\ excused \subseteq Topics
    BY <2>1 DEF Init
  <2> QED
    BY <2>2, <2>3, <2>4, <2>5, <2>6 DEF Typed
<1>3. pub.conn = "down" /\ pub.wire = <<>> /\ settings.enabled
  BY DEF Init, Fresh
<1>4. \A t \in StateTopics : Owed(pub, broker, t)
  <2>1. \A t \in StateTopics : broker[t] = Empty
    BY TopicFacts DEF Init
  <2> QED
    BY <1>3, <2>1 DEF Owed, IsFinal
<1> QED
  BY <1>1, <1>2, <1>3, <1>4 DEF IInv, CacheInv, OwedInv

LEMMA TickIInv == ASSUME IInv, Tick PROVE IInv'
<1>1. /\ Typed /\ Memory(pub, fleet) /\ HasClient(pub)
      /\ \A t \in StateTopics \ excused : fleet[t[1]] = "gone" => Owed(pub, broker, t)
      /\ fleet \in [Ids -> UnitStates]
  BY IInvFacts DEF Tick
<1>2. /\ settings.enabled /\ pub' \in PublishFleet(pub) /\ excused' = excused \ Told(pub, pub')
      /\ UNCHANGED <<fleet, settings, broker, stuck, events>>
  BY DEF Tick
<1>3. Memory(pub', fleet) /\ Keeps(pub, pub', broker, fleet, {})
  BY <1>1, <1>2, PublishFleetFacts
<1>4. Typed'
  BY <1>1, <1>2 DEF Typed
<1>5. pub.conn = "up" =>
        \A t \in Topics : (t \in StateTopics /\ t \in excused) \/ Cached(pub, broker, t)
  BY DEF IInv, CacheInv
<1> QED
  BY <1>1, <1>2, <1>3, <1>4, <1>5, StepKeeps

LEMMA StalledTickIInv == ASSUME IInv, StalledTick PROVE IInv'
<1>1. /\ Typed /\ Memory(pub, fleet) /\ HasClient(pub)
      /\ \A t \in StateTopics \ excused : fleet[t[1]] = "gone" => Owed(pub, broker, t)
      /\ fleet \in [Ids -> UnitStates]
      /\ WillSays \in [Topics -> Payloads] /\ \A t \in StateTopics : WillSays[t] = broker[t]
  BY IInvFacts DEF StalledTick
<1> DEFINE p == Reopened(pub)
<1>2. /\ settings.enabled /\ pub' \in PublishFleet(p) /\ broker' = WillSays /\ stuck' = FALSE
      /\ UNCHANGED <<fleet, settings, events, excused>>
  BY DEF StalledTick
<1>3. /\ Memory(p, fleet) /\ p.conn = "down"
      /\ \A t \in StateTopics : Owed(pub, broker, t) => Owed(p, WillSays, t)
  BY <1>1, ReopenedFacts
<1> HIDE DEF p
<1>4. HasClient(p)
  BY <1>3 DEF HasClient
<1>5. Memory(pub', fleet) /\ Keeps(p, pub', WillSays, fleet, {})
  BY <1>1, <1>2, <1>3, <1>4, PublishFleetFacts
<1>6. Typed'
  BY <1>1, <1>2 DEF Typed
<1> QED
  BY <1>1, <1>2, <1>3, <1>4, <1>5, <1>6, StepKeeps

LEMMA ConnectIInv == ASSUME IInv, Connect PROVE IInv'
<1> DEFINE up == [pub EXCEPT !.conn = "up", !.sent = Fresh("up").sent, !.found = {}]
<1>1. /\ pub.conn = "down"
      /\ pub' \in {StartRead(p, IF settings.discovery THEN "sync" ELSE "sentinel") : p \in
                    {FlushRemovals(p) : p \in {ClearRemoved(p) : p \in UNION {Announce(p) : p \in {up}}}}}
      /\ excused' = excused \ {t \in StateTopics : fleet[t[1]] # "gone"}
      /\ UNCHANGED <<fleet, settings, broker, stuck, events>>
  BY DEF Connect
<1> DEFINE stage == IF settings.discovery THEN "sync" ELSE "sentinel"
<1>2. PICK a \in Announce(up) : pub' = StartRead(FlushRemovals(ClearRemoved(a)), stage)
  BY <1>1
<1>3. /\ Typed /\ Memory(pub, fleet) /\ pub \in Memories /\ HasClient(pub)
      /\ \A t \in StateTopics \ excused : fleet[t[1]] = "gone" => Owed(pub, broker, t)
      /\ settings.enabled
  BY <1>1, IInvFacts DEF HasClient
<1>4. Fresh("up").sent \in [Topics -> Payloads] /\ \A t \in Topics : Fresh("up").sent[t] = Empty
  BY DEF Fresh, Payloads
<1>5. /\ up \in Memories /\ up.conn = "up" /\ up.wire = pub.wire /\ up.removed = pub.removed
      /\ up.pending = pub.pending /\ \A t \in Topics : up.sent[t] = Empty
  BY <1>3, <1>4 DEF Memories, Conns
<1> HIDE DEF up
<1>6. Memory(up, fleet) /\ HasClient(up)
  <2>1. pub.conn # "retiring" /\ InFlight(up) = InFlight(pub)
    BY <1>1, <1>5 DEF InFlight
  <2>2. \A u \in Ids, k \in Kinds : <<u, k>> \in Topics
    BY TopicFacts DEF StateTopics
  <2>3. \A i \in DOMAIN up.pending : up.pending[i] \in Topics
    BY <1>3, <1>5, MemoryFacts, TopicFacts, Elements
  <2>4. HasClient(up)
    BY <1>5 DEF HasClient
  <2>5. up \in Memories /\ \A i \in DOMAIN up.wire : Fits(up.wire[i])
    BY <1>3, <1>5 DEF Memory
  <2>6. InFlight(up) <= MaxInFlight
    BY <1>3, <2>1 DEF Memory
  <2> QED
    BY <1>5, <2>2, <2>3, <2>4, <2>5, <2>6 DEF Memory
<1>7. /\ Memory(a, fleet) /\ HasClient(a) /\ Keeps(up, a, broker, fleet, {})
      /\ a.removed = up.removed /\ \A t \in Topics \ {Status} : a.sent[t] = up.sent[t]
  BY <1>6, AnnounceFacts
<1>8. \A u \in a.removed, k \in Kinds : <<u, k>> \in {} \/ a.sent[<<u, k>>] = Empty
  <2>1. \A u \in a.removed, k \in Kinds : <<u, k>> \in StateTopics
    BY <1>7, MemoryFacts DEF StateTopics
  <2> QED
    BY <1>5, <1>7, <2>1, TopicFacts
<1> DEFINE c == ClearRemoved(a)
           d == FlushRemovals(c)
<1>9. Memory(c, fleet) /\ HasClient(c) /\ Keeps(a, c, broker, fleet, {})
  BY <1>7, <1>8, ClearRemovedFacts
<1>10. pub' = StartRead(d, stage)
  BY <1>2
<1> HIDE DEF c
<1>11. Memory(d, fleet) /\ HasClient(d) /\ Keeps(c, d, broker, fleet, {})
  BY <1>9, FlushFacts
<1>12. stage \in {"sync", "sentinel", "purge"}
  OBVIOUS
<1> HIDE DEF d, stage
<1>13. Memory(pub', fleet) /\ Keeps(d, pub', broker, fleet, {})
  BY <1>10, <1>11, <1>12, StartReadFacts
<1>14. Keeps(up, c, broker, fleet, {})
  BY <1>6, <1>7, <1>9, Then
<1>15. Keeps(up, d, broker, fleet, {})
  BY <1>6, <1>9, <1>11, <1>14, Then
<1>16. Keeps(up, pub', broker, fleet, {})
  BY <1>6, <1>11, <1>13, <1>15, Then
<1>17. \A t \in Topics : Cached(up, broker, t)
  BY <1>5 DEF Cached
<1>18. \A t \in StateTopics : Owed(pub, broker, t) => Owed(up, broker, t)
  BY <1>5 DEF Owed
<1>19. Typed'
  BY <1>1, <1>3 DEF Typed
<1>20. \A t \in StateTopics \ excused : fleet'[t[1]] = "gone" => Owed(up, broker', t)
  BY <1>1, <1>3, <1>18
<1>21. \A t \in StateTopics : t \in excused => \/ t \in excused'
                                              \/ (fleet'[t[1]] # "gone" /\ Cached(up, broker', t))
  BY <1>1, <1>17, TopicFacts
<1> QED
  BY <1>1, <1>3, <1>6, <1>13, <1>16, <1>17, <1>19, <1>20, <1>21, StepKeeps

LEMMA ReadEndsIInv == ASSUME IInv, ReadEnds PROVE IInv'
<1> DEFINE over == [pub EXCEPT !.read = NoRead]
           found == pub.read.found
           topics == ConfigsOf(found) \o DashboardOf(found)
<1>1. /\ Typed /\ Memory(pub, fleet) /\ pub \in Memories
      /\ ~HasClient(pub) => pub.read = NoRead
  BY IInvFacts DEF Memory
<1>2. HasClient(pub)
  BY <1>1 DEF ReadEnds, NoRead
<1>3. /\ settings.enabled
      /\ \A t \in StateTopics \ excused : fleet[t[1]] = "gone" => Owed(pub, broker, t)
  BY <1>2, IInvFacts
<1>4. found \in SUBSET Nodes /\ NoRead \in ReadRecord
  <2>1. pub.read \in ReadRecord
    BY <1>1, MemoryFacts
  <2> QED
    BY <2>1 DEF ReadRecord, NoRead
<1>5. /\ over \in Memories /\ over.conn = pub.conn /\ over.wire = pub.wire /\ over.sent = pub.sent
      /\ over.pending = pub.pending /\ over.removed = pub.removed
  BY <1>1, <1>4 DEF Memories
<1>6. Memory(over, fleet) /\ HasClient(over) /\ Keeps(pub, over, broker, fleet, {})
  BY <1>1, <1>2, <1>5, Aside
<1>7. \/ pub' = [over EXCEPT !.found = found] \/ pub' = over \/ pub' = StartRead(over, "purge")
      \/ pub' = FlushRemovals(RemoveDiscovery(over, topics))
  <2>1. pub.read.stage \in {"sync", "sentinel", "purge"}
    BY <1>1, MemoryFacts DEF ReadRecord, ReadEnds
  <2> QED
    BY <2>1 DEF ReadEnds
<1>8. UNCHANGED <<fleet, settings, broker, stuck, events>>
  BY DEF ReadEnds
<1>9. \A t \in StateTopics : t \in excused => t \in excused'
  BY TopicFacts DEF ReadEnds
<1>10. excused' \subseteq Topics
  BY <1>1, TopicFacts DEF ReadEnds, Typed, Overlooked
<1> HIDE DEF over, topics
<1>11. Memory(pub', fleet) /\ Keeps(over, pub', broker, fleet, {})
  <2>1. CASE pub' = [over EXCEPT !.found = found]
    <3>1. /\ pub' \in Memories /\ pub'.conn = over.conn /\ pub'.wire = over.wire
          /\ pub'.sent = over.sent /\ pub'.pending = over.pending /\ pub'.removed = over.removed
      BY <1>4, <1>5, <2>1 DEF Memories
    <3> QED
      BY <1>6, <3>1, Aside
  <2>2. CASE pub' = over
    BY <1>5, <1>6, <2>2, Aside
  <2>3. CASE pub' = StartRead(over, "purge")
    BY <1>6, <2>3, StartReadFacts
  <2>4. CASE pub' = FlushRemovals(RemoveDiscovery(over, topics))
    <3> DEFINE r == RemoveDiscovery(over, topics)
    <3>1. topics \in Seq(Configs)
      BY ConfigsFacts DEF topics
    <3>2. Memory(r, fleet) /\ HasClient(r) /\ Keeps(over, r, broker, fleet, {})
      BY <1>6, <3>1, RemoveDiscoveryFacts
    <3>3. pub' = FlushRemovals(r)
      BY <2>4
    <3> HIDE DEF r
    <3>4. Memory(pub', fleet) /\ Keeps(r, pub', broker, fleet, {})
      BY <3>2, <3>3, FlushFacts
    <3> QED
      BY <1>6, <3>2, <3>4, Then
  <2> QED
    BY <1>7, <2>1, <2>2, <2>3, <2>4
<1>12. Keeps(pub, pub', broker, fleet, {})
  BY <1>1, <1>6, <1>11, Then
<1>13. Typed'
  BY <1>1, <1>8, <1>10 DEF Typed
<1>14. pub.conn = "up" =>
         \A t \in Topics : (t \in StateTopics /\ t \in excused) \/ Cached(pub, broker, t)
  BY DEF IInv, CacheInv
<1> QED
  BY <1>2, <1>3, <1>8, <1>9, <1>11, <1>12, <1>13, <1>14, StepKeeps

LEMMA DeliverIInv == ASSUME IInv, Deliver PROVE IInv'
<1> DEFINE w == pub.wire
           i == Next1(pub)
           m == w[i]
<1>1. /\ Typed /\ Memory(pub, fleet) /\ pub \in Memories
      /\ ~HasClient(pub) => pub.read = NoRead
  BY IInvFacts DEF Memory
<1>2. w \in Seq(Messages) /\ Len(w) \in Nat /\ DOMAIN w = 1 .. Len(w)
  BY <1>1, MemoryFacts
<1>3. i \in 1 .. Len(w) /\ ~w[i].got /\ \A j \in 1 .. Len(w) : ~w[j].got => i <= j
  <2>1. Ungot(pub) \in SUBSET Nat /\ Ungot(pub) # {}
    BY <1>2 DEF Ungot, Deliver, Delivering
  <2>2. \E x \in Ungot(pub) : \A j \in Ungot(pub) : x <= j
    BY <2>1, Least
  <2>3. i \in Ungot(pub) /\ \A j \in Ungot(pub) : i <= j
    BY <2>2 DEF Next1
  <2> QED
    BY <1>2, <2>3 DEF Ungot
<1>4. /\ pub' = IF m.topic = Reads THEN Without([pub EXCEPT !.read = Answered(@)], i)
                ELSE IF m.qos = 0 THEN Without(pub, i)
                ELSE [pub EXCEPT !.wire[i].got = TRUE]
      /\ broker' = IF m.topic \in Topics THEN [broker EXCEPT ![m.topic] = m.payload] ELSE broker
      /\ UNCHANGED <<fleet, settings, stuck, events, excused>>
  BY DEF Deliver
<1>5. m \in Messages
  BY <1>2, <1>3
<1> HIDE DEF i
<1> DEFINE got == [w EXCEPT ![i].got = TRUE]
<1>6. broker' \in [Topics -> Payloads] /\ \A t \in Topics : broker'[t] = IF m.topic = t THEN m.payload ELSE broker[t]
  BY <1>1, <1>4, <1>5, MessageFacts DEF Typed
<1>7. ASSUME NEW t \in Topics, NEW v \in Payloads, IsFinal(w, broker, t, v)
      PROVE  IsFinal(got, broker', t, v) /\ IsFinal(RemoveAt(w, i), broker', t, v)
  BY <1>2, <1>3, <1>6, <1>7, FinalDelivered
<1>8. Answered(pub.read) \in ReadRecord /\ (pub.read = NoRead => Answered(pub.read) = NoRead)
  <2>1. pub.read \in ReadRecord /\ Retained(pub.read.stage) \in SUBSET Nodes
    BY <1>1, MemoryFacts DEF Retained, Nodes
  <2>2. Answered(pub.read) \in ReadRecord
    <3> DEFINE r == pub.read
               s == Retained(r.stage)
    <3>1. r \in ReadRecord /\ s \in SUBSET Nodes
      BY <2>1
    <3>2. Answered(r) = IF r.stage = "none" THEN r ELSE [r EXCEPT !.got = TRUE, !.found = s]
      BY DEF Answered
    <3> HIDE DEF r, s
    <3>3. [r EXCEPT !.got = TRUE, !.found = s] \in ReadRecord
      BY <3>1 DEF ReadRecord
    <3>4. Answered(r) \in ReadRecord
      BY <3>1, <3>2, <3>3
    <3> QED
      BY <3>4 DEF r
  <2>3. pub.read = NoRead => Answered(pub.read) = NoRead
    BY DEF Answered, NoRead
  <2> QED
    BY <2>2, <2>3
<1>9. /\ pub' \in Memories /\ pub'.conn = pub.conn /\ pub'.sent = pub.sent
      /\ pub'.removed = pub.removed /\ pub'.pending = pub.pending
      /\ ~HasClient(pub) => pub'.read = NoRead
      /\ pub'.wire = RemoveAt(w, i) \/ pub'.wire = got
  <2>1. /\ Without(pub, i) \in Memories /\ Without(pub, i).wire = RemoveAt(w, i)
        /\ [pub EXCEPT !.wire[i].got = TRUE] \in Memories
    BY <1>1, <1>2, <1>3, WireFacts
  <2>2. CASE m.topic = Reads
    <3>1. pub' = [Without(pub, i) EXCEPT !.read = Answered(pub.read)]
      BY <1>1, <1>4, <2>2 DEF Without, Memories
    <3>2. Without(pub, i) = [pub EXCEPT !.wire = RemoveAt(w, i)]
      BY DEF Without
    <3> QED
      BY <1>1, <1>8, <2>1, <3>1, <3>2 DEF Memories
  <2>3. CASE m.topic # Reads /\ m.qos = 0
    BY <1>1, <1>4, <2>1, <2>3 DEF Without, Memories
  <2>4. CASE m.topic # Reads /\ m.qos # 0
    BY <1>1, <1>4, <2>1, <2>4 DEF Memories
  <2> QED
    BY <2>2, <2>3, <2>4
<1>10. Memory(pub', fleet)
  BY <1>1, <1>2, <1>3, <1>9, WireFacts
<1>11. Typed'
  BY <1>1, <1>4, <1>6 DEF Typed
<1>12. \A t \in Topics, v \in Payloads : IsFinal(pub.wire, broker, t, v) => IsFinal(pub'.wire, broker', t, v)
  BY <1>7, <1>9
<1> QED
  BY <1>4, <1>9, <1>10, <1>11, <1>12, StepWire

LEMMA AcknowledgeIInv == ASSUME IInv, Acknowledge PROVE IInv'
<1>1. /\ Typed /\ Memory(pub, fleet) /\ pub \in Memories
      /\ settings.enabled <=> HasClient(pub)
      /\ ~HasClient(pub) => \A t \in StateTopics \ excused : fleet[t[1]] # "gone"
      /\ WillSays \in [Topics -> Payloads]
      /\ ~HasClient(pub) => pub.read = NoRead
  BY IInvFacts DEF Memory
<1>2. /\ UNCHANGED <<fleet, settings, stuck, events, excused>>
      /\ pub.wire # <<>> /\ pub.wire[1].got
      /\ \/ pub.conn = "retiring" /\ pub' = Fresh("none") /\ broker' = WillSays
         \/ pub' = Without(pub, 1) /\ broker' = broker
  BY DEF Acknowledge
<1>3. Typed'
  BY <1>1, <1>2 DEF Typed
<1>4. CASE pub.conn = "retiring" /\ pub' = Fresh("none") /\ broker' = WillSays
  <2>1. ~HasClient(pub) /\ Memory(pub', fleet) /\ ~HasClient(pub')
    BY <1>4, FreshFacts DEF HasClient, Conns
  <2> QED
    BY <1>1, <1>2, <1>3, <2>1, StepEnds
<1>5. CASE pub' = Without(pub, 1) /\ broker' = broker
  <2>1. pub.wire \in Seq(Messages) /\ 1 \in 1 .. Len(pub.wire) /\ DOMAIN pub.wire = 1 .. Len(pub.wire)
    BY <1>1, <1>2, MemoryFacts
  <2>2. Without(pub, 1) \in Memories /\ Without(pub, 1).wire = RemoveAt(pub.wire, 1)
    BY <1>1, <2>1, WireFacts
  <2>3. /\ pub' \in Memories /\ pub'.conn = pub.conn /\ pub'.sent = pub.sent
        /\ pub'.removed = pub.removed /\ pub'.pending = pub.pending /\ pub'.read = pub.read
        /\ pub'.wire = RemoveAt(pub.wire, 1)
    BY <1>1, <1>5, <2>2 DEF Without, Memories
  <2>4. Memory(pub', fleet)
    BY <1>1, <2>1, <2>3, WireFacts, ZenonT(40)
  <2>5. ASSUME NEW t \in Topics, NEW v \in Payloads, IsFinal(pub.wire, broker, t, v)
        PROVE  IsFinal(pub'.wire, broker', t, v)
    BY <1>2, <1>5, <2>1, <2>3, <2>5, FinalRemoved
  <2> QED
    BY <1>2, <1>3, <2>3, <2>4, <2>5, StepWire
<1> QED
  BY <1>2, <1>4, <1>5

LEMMA RetireTimesOutIInv == ASSUME IInv, RetireTimesOut PROVE IInv'
<1>1. /\ Typed /\ (settings.enabled <=> HasClient(pub))
      /\ ~HasClient(pub) => \A t \in StateTopics \ excused : fleet[t[1]] # "gone"
      /\ WillSays \in [Topics -> Payloads]
  BY IInvFacts
<1>2. /\ pub.conn = "retiring" /\ pub' = Fresh("none") /\ broker' = WillSays /\ stuck' = FALSE
      /\ UNCHANGED <<fleet, settings, events, excused>>
  BY DEF RetireTimesOut
<1>3. Typed'
  BY <1>1, <1>2 DEF Typed
<1>4. ~HasClient(pub) /\ Memory(pub', fleet) /\ ~HasClient(pub')
  BY <1>2, FreshFacts DEF HasClient, Conns
<1> QED
  BY <1>1, <1>2, <1>3, <1>4, StepEnds

-----------------------------------------------------------------------------
(* The steps of the fleet, the user, the network and the process. *)

LEMMA HappensFacts ==
    ASSUME Typed, Happens
    PROVE  events' \in 0 .. MaxEvents
<1>1. MaxEvents \in Nat
  BY PublisherAssumption
<1> QED
  BY <1>1 DEF Typed, Happens

LEMMA UnitChangesIInv == ASSUME IInv, NEW u \in Ids, UnitChanges(u) PROVE IInv'
<1>1. /\ Typed /\ Memory(pub, fleet) /\ (settings.enabled <=> HasClient(pub))
      /\ fleet \in [Ids -> UnitStates]
  BY IInvFacts
<1>2. Happens /\ UNCHANGED <<settings, pub, broker, stuck, excused>>
  BY DEF UnitChanges
<1>3. PICK s \in UnitStates \ {"gone", fleet[u]} : fleet' = [fleet EXCEPT ![u] = s]
  BY DEF UnitChanges
<1>4. fleet' \in [Ids -> UnitStates] /\ \A x \in Ids : fleet'[x] = "gone" => fleet[x] = "gone"
  BY <1>1, <1>3
<1>5. events' \in 0 .. MaxEvents
  BY <1>1, <1>2, HappensFacts
<1>6. Typed'
  BY <1>1, <1>2, <1>4, <1>5 DEF Typed
<1>7. Memory(pub', fleet')
  BY <1>1, <1>2, <1>4 DEF Memory
<1>8. CacheInv'
  BY <1>2 DEF IInv, CacheInv
<1>9. OwedInv'
  <2>1. \A t \in StateTopics : t[1] \in Ids
    BY TopicFacts
  <2> QED
    BY <1>2, <1>4, <2>1 DEF IInv, OwedInv
<1> QED
  BY <1>1, <1>2, <1>6, <1>7, <1>8, <1>9 DEF IInv

LEMMA RemoveUnitIInv == ASSUME IInv, NEW u \in Ids, RemoveUnit(u) PROVE IInv'
<1> DEFINE p == [pub EXCEPT !.sent = Forget(@, {u} \X Kinds), !.removed = @ \union {u}]
           X == ((pub.removed \intersect Present) \ {u}) \X Kinds
<1>1. /\ Typed /\ Memory(pub, fleet) /\ (settings.enabled <=> HasClient(pub))
      /\ pub \in Memories /\ fleet \in [Ids -> UnitStates]
      /\ HasClient(pub) => \A t \in StateTopics \ excused : fleet[t[1]] = "gone" => Owed(pub, broker, t)
      /\ ~HasClient(pub) => \A t \in StateTopics \ excused : fleet[t[1]] # "gone"
  BY IInvFacts
<1>2. /\ Happens /\ fleet' = [fleet EXCEPT ![u] = "gone"]
      /\ UNCHANGED <<settings, broker, stuck>>
      /\ IF HasClient(pub)
         THEN pub' = Publish(ClearRemoved(p), <<Event>>) /\ excused' = excused \union X
         ELSE pub' = pub /\ excused' = excused \union ({u} \X Kinds)
  BY DEF RemoveUnit
<1>3. /\ fleet' \in [Ids -> UnitStates] /\ fleet'[u] = "gone"
      /\ \A x \in Ids : x # u => fleet'[x] = fleet[x]
  BY <1>1, <1>2 DEF UnitStates
<1>4. events' \in 0 .. MaxEvents
  BY <1>1, <1>2, HappensFacts
<1>5. X \in SUBSET StateTopics /\ {u} \X Kinds \subseteq StateTopics /\ StateTopics \subseteq Topics
  BY TopicFacts DEF StateTopics, Present
<1>6. Typed'
  BY <1>1, <1>2, <1>3, <1>4, <1>5 DEF Typed
<1>7. \A t \in StateTopics : t = <<t[1], t[2]>> /\ t[1] \in Ids /\ t[2] \in Kinds
  BY DEF StateTopics
<1>8. CASE HasClient(pub)
  <2>1. /\ Forget(pub.sent, {u} \X Kinds) \in [Topics -> Payloads]
        /\ \A t \in Topics : Forget(pub.sent, {u} \X Kinds)[t] =
                               IF t \in {u} \X Kinds THEN Empty ELSE pub.sent[t]
    BY <1>1, MemoryFacts, ForgetFacts
  <2>2. /\ p \in Memories /\ p.conn = pub.conn /\ p.wire = pub.wire /\ p.pending = pub.pending
        /\ p.read = pub.read /\ p.sent = Forget(pub.sent, {u} \X Kinds)
        /\ p.removed = pub.removed \union {u}
    BY <1>1, <2>1 DEF Memories
  <2> HIDE DEF p
  <2>3. Memory(p, fleet') /\ HasClient(p)
    <3>1. HasClient(p) /\ InFlight(p) = InFlight(pub)
      BY <1>8, <2>2 DEF HasClient, InFlight
    <3>2. \A x \in Ids, k \in Kinds : <<x, k>> \in Topics /\ <<x, k>>[1] = x
      BY TopicFacts DEF StateTopics
    <3>3. ASSUME NEW x \in Ids, NEW k \in Kinds, fleet'[x] = "gone" PROVE p.sent[<<x, k>>] = Empty
      <4>1. CASE x = u
        <5>1. <<x, k>> \in {u} \X Kinds
          BY <4>1
        <5> QED
          BY <2>1, <2>2, <3>2, <5>1
      <4>2. CASE x # u
        <5>1. fleet[x] = "gone"
          BY <1>3, <3>3, <4>2
        <5>2. pub.sent[<<x, k>>] = Empty
          BY <1>1, <5>1 DEF Memory
        <5> QED
          BY <2>1, <2>2, <3>2, <5>2
      <4> QED
        BY <4>1, <4>2
    <3>4. \A i \in DOMAIN p.pending : p.sent[p.pending[i]] = Empty
      <4>1. \A i \in DOMAIN pub.pending : pub.pending[i] \in Topics
        BY <1>1, MemoryFacts, TopicFacts, Elements
      <4>2. \A i \in DOMAIN pub.pending : pub.sent[pub.pending[i]] = Empty
        BY <1>1 DEF Memory
      <4> QED
        BY <2>1, <2>2, <4>1, <4>2, ZenonT(40)
    <3>5. \A i \in DOMAIN p.wire : Fits(p.wire[i])
      BY <1>1, <2>2 DEF Memory
    <3>6. p.conn # "retiring" => InFlight(p) <= MaxInFlight
      BY <1>1, <2>2, <3>1 DEF Memory
    <3> QED
      BY <2>2, <3>1, <3>3, <3>4, <3>5, <3>6 DEF Memory
  <2>4. \A x \in p.removed, k \in Kinds : <<x, k>> \in X \/ p.sent[<<x, k>>] = Empty
    <3>1. ASSUME NEW x \in p.removed, NEW k \in Kinds, <<x, k>> \notin X
          PROVE  x \in Ids /\ fleet'[x] = "gone"
      <4>1. x \in Ids /\ (x = u \/ x \in pub.removed)
        BY <1>1, <2>2, MemoryFacts
      <4>2. x # u => fleet[x] = "gone"
        BY <3>1, <4>1 DEF Present
      <4> QED
        BY <1>3, <4>1, <4>2
    <3> QED
      BY <2>3, <3>1 DEF Memory
  <2> DEFINE c == ClearRemoved(p)
  <2>5. Memory(c, fleet') /\ HasClient(c) /\ Keeps(p, c, broker, fleet', X)
    BY <2>3, <2>4, ClearRemovedFacts
  <2>6. pub' = Publish(c, <<Event>>)
    BY <1>2, <1>8
  <2> HIDE DEF c
  <2>7. Memory(pub', fleet') /\ Keeps(c, pub', broker, fleet', X)
    BY <2>5, <2>6, EventFacts
  <2>8. Keeps(p, pub', broker, fleet', X)
    BY <2>3, <2>5, <2>7, Then
  <2>9. \A t \in Topics : Cached(pub, broker, t) => Cached(p, broker, t)
    BY <2>1, <2>2 DEF Cached
  <2>10. p.conn = "up" =>
           \A t \in Topics : (t \in StateTopics /\ t \in excused) \/ Cached(p, broker', t)
    BY <1>2, <2>2, <2>9 DEF IInv, CacheInv
  <2>11. ASSUME NEW t \in StateTopics \ excused, fleet'[t[1]] = "gone" PROVE Owed(p, broker', t)
    <3>1. CASE t[1] = u
      BY <2>2, <3>1 DEF Owed
    <3>2. CASE t[1] # u
      <4>1. fleet[t[1]] = "gone"
        BY <1>3, <1>7, <2>11, <3>2
      <4>2. Owed(pub, broker, t)
        BY <1>1, <1>8, <2>11, <4>1
      <4> QED
        BY <1>2, <2>2, <4>2 DEF Owed
    <3> QED
      BY <3>1, <3>2
  <2>12. excused' = excused \union X /\ broker' = broker
    BY <1>2, <1>8
  <2>13. settings'.enabled
    BY <1>1, <1>2, <1>8
  <2> HIDE DEF X
  <2> QED
    BY <1>5, <1>6, <2>3, <2>7, <2>8, <2>10, <2>11, <2>12, <2>13, StepKeeps
<1>9. CASE ~HasClient(pub)
  <2>1. pub' = pub /\ excused' = excused \union ({u} \X Kinds)
    BY <1>2, <1>9
  <2>2. Memory(pub', fleet')
    <3>1. \A x \in Ids, k \in Kinds : <<x, k>> \in Topics
      BY TopicFacts DEF StateTopics
    <3> QED
      BY <1>1, <1>9, <2>1, <3>1 DEF Memory
  <2>3. \A t \in StateTopics \ excused' : fleet'[t[1]] # "gone"
    <3>1. ASSUME NEW t \in StateTopics \ excused' PROVE fleet'[t[1]] # "gone"
      <4>1. t[1] # u /\ t \notin excused
        BY <1>7, <2>1, <3>1
      <4> QED
        BY <1>1, <1>3, <1>7, <1>9, <4>1
    <3> QED
      BY <3>1
  <2> QED
    BY <1>1, <1>2, <1>6, <1>9, <2>1, <2>2, <2>3, StepEnds
<1> QED
  BY <1>8, <1>9

LEMMA SwitchOffIInv == ASSUME IInv, SwitchOff PROVE IInv'
<1> DEFINE known == ConfigsOf(pub.tracked) \o DashboardOf(pub.tracked)
           topics == pub.pending \o Filter(known, Configs \ ToSet(pub.pending))
           clears == [i \in DOMAIN topics |-> Clear(topics[i])]
<1>1. Typed /\ Memory(pub, fleet) /\ pub \in Memories /\ WillSays \in [Topics -> Payloads]
  BY IInvFacts
<1>2. /\ Happens /\ settings' = [settings EXCEPT !.enabled = FALSE]
      /\ IF pub.conn = "up" /\ topics # <<>>
         THEN pub' = [Fresh("retiring") EXCEPT !.wire = pub.wire \o clears] /\ UNCHANGED <<broker, stuck>>
         ELSE pub' = Fresh("none") /\ broker' = WillSays /\ stuck' = FALSE
      /\ excused' = excused \union Forgone /\ fleet' = fleet
  BY DEF SwitchOff
<1>3. topics \in Seq(Configs)
  <2>1. known \in Seq(Configs) /\ pub.pending \in Seq(Configs)
    BY <1>1, ConfigsFacts, MemoryFacts
  <2> HIDE DEF known
  <2> DEFINE others == Configs \ ToSet(pub.pending)
  <2>2. topics = pub.pending \o Filter(known, others)
    OBVIOUS
  <2> HIDE DEF others, topics
  <2>3. Filter(known, others) \in Seq(Configs)
    BY <2>1, FilterFacts
  <2> QED
    BY <2>1, <2>2, <2>3, ConcatFacts
<1> HIDE DEF topics
<1>4. \A t \in Configs : Clear(t) \in Messages /\ Fits(Clear(t))
  BY TopicFacts DEF Clear, Message, Messages, Payloads, Fits
<1>5. clears \in Seq(Messages) /\ \A i \in 1 .. Len(clears) : Fits(clears[i])
  BY <1>3, <1>4
<1> HIDE DEF clears
<1>6. events' \in 0 .. MaxEvents
  BY <1>1, <1>2, HappensFacts
<1>7. Typed'
  <2>1. settings' \in [enabled : BOOLEAN, discovery : BOOLEAN]
    BY <1>1, <1>2 DEF Typed
  <2>2. broker' \in [Topics -> Payloads] /\ stuck' \in BOOLEAN
    BY <1>1, <1>2 DEF Typed
  <2>3. excused' \subseteq Topics
    BY <1>1, <1>2, TopicFacts DEF Typed, Forgone
  <2> QED
    BY <1>1, <1>2, <1>6, <2>1, <2>2, <2>3 DEF Typed
<1>8. Memory(pub', fleet') /\ ~HasClient(pub')
  <2>1. CASE pub' = Fresh("none")
    BY <2>1, FreshFacts DEF Conns
  <2>2. CASE pub' = [Fresh("retiring") EXCEPT !.wire = pub.wire \o clears]
    <3> DEFINE r == Fresh("retiring")
               w == pub.wire \o clears
    <3>1. Memory(r, fleet') /\ r \in Memories /\ r.conn = "retiring" /\ ~HasClient(r)
      <4>1. Memory(r, fleet') /\ ~HasClient(r)
        BY FreshFacts DEF Conns
      <4>2. r.conn = "retiring"
        BY DEF Fresh
      <4> QED
        BY <4>1, <4>2, MemoryFacts
    <3>2. pub.wire \in Seq(Messages) /\ \A i \in 1 .. Len(pub.wire) : Fits(pub.wire[i])
      BY <1>1, MemoryFacts DEF Memory
    <3>3. /\ w \in Seq(Messages) /\ Len(w) = Len(pub.wire) + Len(clears)
          /\ \A i \in 1 .. Len(pub.wire) : w[i] = pub.wire[i]
          /\ \A i \in Len(pub.wire) + 1 .. Len(pub.wire) + Len(clears) :
               i - Len(pub.wire) \in 1 .. Len(clears) /\ w[i] = clears[i - Len(pub.wire)]
      BY <1>5, <3>2, ConcatFacts
    <3> HIDE DEF w
    <3>4. ASSUME NEW i \in 1 .. Len(w) PROVE Fits(w[i])
      <4>1. Len(pub.wire) \in Nat /\ i \in Int
        BY <3>2
      <4>2. CASE i <= Len(pub.wire)
        BY <3>2, <3>3, <4>1, <4>2
      <4>3. CASE i > Len(pub.wire)
        <5>1. i - Len(pub.wire) \in 1 .. Len(clears) /\ w[i] = clears[i - Len(pub.wire)]
          BY <3>3, <4>1, <4>3
        <5> QED
          BY <1>5, <5>1
      <4> QED
        BY <4>1, <4>2, <4>3
    <3>5. pub' = [r EXCEPT !.wire = w]
      BY <2>2 DEF w
    <3> HIDE DEF r
    <3>6. /\ pub' \in Memories /\ pub'.wire = w /\ pub'.conn = "retiring" /\ pub'.sent = r.sent
          /\ pub'.pending = r.pending /\ pub'.read = r.read
      BY <3>1, <3>3, <3>5 DEF Memories
    <3>7. ~HasClient(pub')
      BY <3>6 DEF HasClient
    <3>8. DOMAIN w = 1 .. Len(w)
      BY <3>3
    <3> QED
      BY <3>1, <3>4, <3>6, <3>7, <3>8 DEF Memory
  <2> QED
    BY <1>2, <2>1, <2>2
<1>9. ~settings'.enabled
  BY <1>1, <1>2 DEF Typed
<1>10. \A t \in StateTopics \ excused' : fleet'[t[1]] # "gone"
  BY <1>2 DEF Forgone
<1> QED
  BY <1>7, <1>8, <1>9, <1>10, StepEnds

\* A connection that begins, with nothing owed.
LEMMA StepBegins ==
    ASSUME Typed', settings'.enabled, pub' = Fresh("down"),
           \A t \in StateTopics \ excused' : fleet'[t[1]] # "gone"
    PROVE  IInv'
<1>1. Memory(pub', fleet') /\ HasClient(pub')
  BY FreshFacts DEF Conns
<1>2. pub'.conn = "down"
  BY DEF Fresh
<1> QED
  BY <1>1, <1>2 DEF IInv, CacheInv, OwedInv

LEMMA SwitchOnIInv == ASSUME IInv, SwitchOn PROVE IInv'
<1>1. /\ Typed /\ (settings.enabled <=> HasClient(pub)) /\ WillSays \in [Topics -> Payloads]
      /\ ~HasClient(pub) => \A t \in StateTopics \ excused : fleet[t[1]] # "gone"
  BY IInvFacts
<1>2. /\ Happens /\ ~settings.enabled /\ settings' = [settings EXCEPT !.enabled = TRUE]
      /\ pub' = Fresh("down") /\ broker' = WillSays /\ stuck' = FALSE
      /\ UNCHANGED <<fleet, excused>>
  BY DEF SwitchOn
<1>3. events' \in 0 .. MaxEvents
  BY <1>1, <1>2, HappensFacts
<1>4. settings' \in [enabled : BOOLEAN, discovery : BOOLEAN] /\ settings'.enabled
  BY <1>1, <1>2 DEF Typed
<1>5. Typed'
  BY <1>1, <1>2, <1>3, <1>4 DEF Typed
<1> QED
  BY <1>1, <1>2, <1>4, <1>5, StepBegins

LEMMA RestartIInv == ASSUME IInv, Restart PROVE IInv'
<1>1. Typed /\ WillSays \in [Topics -> Payloads]
  BY IInvFacts
<1>2. /\ Happens /\ broker' = WillSays /\ stuck' = FALSE /\ excused' = excused \union Forgone
      /\ UNCHANGED <<fleet, settings>>
      /\ pub' = Fresh(IF settings.enabled THEN "down" ELSE "none")
  BY DEF Restart
<1>3. events' \in 0 .. MaxEvents
  BY <1>1, <1>2, HappensFacts
<1>4. excused' \subseteq Topics
  BY <1>1, <1>2, TopicFacts DEF Typed, Forgone
<1>5. Typed'
  BY <1>1, <1>2, <1>3, <1>4 DEF Typed
<1>6. \A t \in StateTopics \ excused' : fleet'[t[1]] # "gone"
  BY <1>2 DEF Forgone
<1>7. CASE settings.enabled
  BY <1>2, <1>5, <1>6, <1>7, StepBegins
<1>8. CASE ~settings.enabled
  <2>1. Memory(pub', fleet') /\ ~HasClient(pub')
    BY <1>2, <1>8, FreshFacts DEF Conns
  <2> QED
    BY <1>2, <1>5, <1>6, <1>8, <2>1, StepEnds
<1> QED
  BY <1>7, <1>8

LEMMA SwitchDiscoveryIInv == ASSUME IInv, SwitchDiscovery PROVE IInv'
<1>1. /\ Typed /\ Memory(pub, fleet) /\ pub \in Memories /\ (settings.enabled <=> HasClient(pub))
      /\ ~HasClient(pub) => \A t \in StateTopics \ excused : fleet[t[1]] # "gone"
      /\ HasClient(pub) => \A t \in StateTopics \ excused : fleet[t[1]] = "gone" => Owed(pub, broker, t)
  BY IInvFacts
<1>2. /\ Happens /\ settings' = [settings EXCEPT !.discovery = ~@]
      /\ pub' = IF settings.enabled /\ settings.discovery THEN ClearDiscovery(pub) ELSE pub
      /\ excused' = IF pub.read # NoRead \/ pub.found # {} THEN excused \union Configs ELSE excused
      /\ UNCHANGED <<fleet, broker, stuck>>
  BY DEF SwitchDiscovery
<1>3. events' \in 0 .. MaxEvents
  BY <1>1, <1>2, HappensFacts
<1>4. settings' \in [enabled : BOOLEAN, discovery : BOOLEAN] /\ settings'.enabled = settings.enabled
  BY <1>1, <1>2 DEF Typed
<1>5. excused' \subseteq Topics /\ excused \subseteq excused' /\ excused' \subseteq excused \union Configs
  BY <1>1, <1>2, TopicFacts DEF Typed
<1>6. Typed'
  BY <1>1, <1>2, <1>3, <1>4, <1>5 DEF Typed
<1>7. CASE HasClient(pub)
  <2>1. Memory(pub', fleet) /\ Keeps(pub, pub', broker, fleet, {})
    <3>1. CASE pub' = ClearDiscovery(pub)
      <4> DEFINE topics == ConfigsOf(pub.tracked) \o DashboardOf(pub.tracked)
                 r == RemoveDiscovery(pub, topics)
                 q == [r EXCEPT !.tracked = {}]
      <4>1. topics \in Seq(Configs)
        BY ConfigsFacts
      <4>2. pub' = FlushRemovals(q)
        BY <3>1 DEF ClearDiscovery
      <4> HIDE DEF topics
      <4>3. Memory(r, fleet) /\ HasClient(r) /\ Keeps(pub, r, broker, fleet, {})
        BY <1>1, <1>7, <4>1, RemoveDiscoveryFacts
      <4> HIDE DEF r
      <4>4. /\ q \in Memories /\ q.conn = r.conn /\ q.wire = r.wire /\ q.sent = r.sent
            /\ q.pending = r.pending /\ q.removed = r.removed
        <5>1. r \in Memories
          BY <4>3, MemoryFacts
        <5> QED
          BY <5>1 DEF Memories
      <4> HIDE DEF q
      <4>5. Memory(q, fleet) /\ HasClient(q) /\ Keeps(r, q, broker, fleet, {})
        BY <4>3, <4>4, Aside
      <4>6. Memory(pub', fleet) /\ Keeps(q, pub', broker, fleet, {})
        BY <4>2, <4>5, FlushFacts
      <4>7. Keeps(pub, q, broker, fleet, {})
        BY <1>1, <4>3, <4>5, Then
      <4> QED
        BY <1>1, <4>5, <4>6, <4>7, Then
    <3>2. CASE pub' = pub
      BY <1>1, <1>7, <3>2, Aside
    <3> QED
      BY <1>2, <3>1, <3>2
  <2>2. pub.conn = "up" =>
          \A t \in Topics : (t \in StateTopics /\ t \in excused) \/ Cached(pub, broker, t)
    BY DEF IInv, CacheInv
  <2>3. \A t \in StateTopics : t \in excused => t \in excused'
    BY <1>5
  <2>4. \A t \in StateTopics \ excused : fleet[t[1]] = "gone" => Owed(pub, broker, t)
    BY <1>1, <1>7
  <2>5. settings'.enabled /\ fleet' = fleet /\ broker' = broker
    BY <1>1, <1>2, <1>4, <1>7
  <2> QED
    BY <1>6, <1>7, <2>1, <2>2, <2>3, <2>4, <2>5, StepKeeps
<1>8. CASE ~HasClient(pub)
  <2>1. pub' = pub /\ ~settings'.enabled /\ fleet' = fleet
    BY <1>1, <1>2, <1>4, <1>8
  <2>2. \A t \in StateTopics \ excused' : fleet'[t[1]] # "gone"
    BY <1>1, <1>5, <1>8, <2>1
  <2> QED
    BY <1>1, <1>6, <1>8, <2>1, <2>2, StepEnds
<1> QED
  BY <1>7, <1>8

LEMMA WedgeIInv == ASSUME IInv, Wedge PROVE IInv'
<1>1. Typed /\ Memory(pub, fleet)
  BY IInvFacts
<1>2. /\ Happens /\ stuck' = TRUE
      /\ UNCHANGED <<fleet, settings, pub, broker, excused>>
  BY DEF Wedge
<1>3. events' \in 0 .. MaxEvents
  BY <1>1, <1>2, HappensFacts
<1>4. Typed'
  BY <1>1, <1>2, <1>3 DEF Typed
<1> QED
  BY <1>1, <1>2, <1>4, StepWire

\* What a connection that drops keeps of w, to be sent again.
LEMMA ResentFacts ==
    ASSUME NEW w \in Seq(Messages), \A i \in 1 .. Len(w) : Fits(w[i])
    PROVE  LET kept == Filter(w, {m \in ToSet(w) : m.qos = 1})
               r == [i \in DOMAIN kept |-> [kept[i] EXCEPT !.got = FALSE]]
           IN /\ r \in Seq(Messages) /\ Cardinality(Carried(r)) <= Cardinality(Carried(w))
              /\ \A i \in 1 .. Len(r) : /\ Fits(r[i]) /\ ~r[i].got
                                        /\ r[i].topic \in StateTopics => r[i].payload = Empty
              /\ \A i \in 1 .. Len(w) : w[i].qos = 1 => \E j \in 1 .. Len(r) : r[j].topic = w[i].topic
<1> DEFINE S == {m \in ToSet(w) : m.qos = 1}
           kept == Filter(w, S)
           r == [i \in DOMAIN kept |-> [kept[i] EXCEPT !.got = FALSE]]
<1>1. \A m \in S : m.qos = 1
  OBVIOUS
<1>2. \A i \in 1 .. Len(w) : w[i].qos = 1 => w[i] \in S
  BY Elements
<1> HIDE DEF S
<1>3. /\ kept \in Seq(Messages) /\ \A x \in ToSet(w) : x \in S => x \in ToSet(kept)
      /\ Picked(w, S, Len(w), kept, Messages)
  BY FilterFacts, FilterIsPicked
<1> HIDE DEF kept
<1>4. PICK g \in [1 .. Len(kept) -> 1 .. Len(w)] :
           /\ \A i \in 1 .. Len(kept) : kept[i] = w[g[i]] /\ kept[i] \in S
           /\ \A i, j \in 1 .. Len(kept) : i < j => g[i] < g[j]
  BY <1>3 DEF Picked
<1>5. /\ Len(kept) \in Nat /\ DOMAIN kept = 1 .. Len(kept)
      /\ \A i \in 1 .. Len(kept) : kept[i] \in Messages
  BY <1>3, Elements
<1>6. ASSUME NEW i \in 1 .. Len(kept)
      PROVE  /\ [kept[i] EXCEPT !.got = FALSE] \in Messages
             /\ [kept[i] EXCEPT !.got = FALSE].topic = kept[i].topic
             /\ [kept[i] EXCEPT !.got = FALSE].payload = kept[i].payload
             /\ [kept[i] EXCEPT !.got = FALSE].qos = kept[i].qos
             /\ ~[kept[i] EXCEPT !.got = FALSE].got
  <2>1. kept[i] \in Messages
    BY <1>5
  <2> QED
    BY <2>1 DEF Messages
<1>7. /\ r \in Seq(Messages) /\ Len(r) = Len(kept)
      /\ \A i \in 1 .. Len(kept) : /\ r[i].topic = kept[i].topic /\ r[i].payload = kept[i].payload
                                   /\ r[i].qos = kept[i].qos /\ ~r[i].got
  <2> DEFINE reset(i) == [kept[i] EXCEPT !.got = FALSE]
  <2>1. r = [i \in 1 .. Len(kept) |-> reset(i)]
    BY <1>5
  <2>2. \A i \in 1 .. Len(kept) :
          /\ reset(i) \in Messages /\ reset(i).topic = kept[i].topic
          /\ reset(i).payload = kept[i].payload /\ reset(i).qos = kept[i].qos /\ ~reset(i).got
    BY <1>6
  <2> HIDE DEF reset, r
  <2> QED
    BY <1>5, <2>1, <2>2
<1> HIDE DEF r
<1>8. ASSUME NEW i \in 1 .. Len(r)
      PROVE  Fits(r[i]) /\ ~r[i].got /\ (r[i].topic \in StateTopics => r[i].payload = Empty)
  <2>1. kept[i] = w[g[i]] /\ g[i] \in 1 .. Len(w) /\ kept[i] \in S
    BY <1>4, <1>7
  <2>2. Fits(kept[i]) /\ kept[i].qos = 1
    BY <1>1, <2>1
  <2> QED
    BY <1>7, <2>2 DEF Fits
<1>9. Cardinality(Carried(r)) <= Cardinality(Carried(w))
  <2>1. g \in [1 .. Len(r) -> 1 .. Len(w)]
    BY <1>7
  <2>2. \A i \in 1 .. Len(r) : r[i].topic = w[g[i]].topic
    BY <1>4, <1>7
  <2>3. \A i, j \in 1 .. Len(r) : i # j => g[i] # g[j]
    BY <1>4, <1>5, <1>7
  <2> QED
    BY <1>7, <2>1, <2>2, <2>3, CarriedFewer
<1>10. ASSUME NEW i \in 1 .. Len(w), w[i].qos = 1
       PROVE  \E j \in 1 .. Len(r) : r[j].topic = w[i].topic
  <2>1. w[i] \in ToSet(kept)
    BY <1>2, <1>3, <1>10, Elements
  <2>2. PICK j \in 1 .. Len(kept) : kept[j] = w[i]
    BY <1>3, <2>1, Elements
  <2> QED
    BY <1>7, <2>2
<1> QED
  BY <1>7, <1>8, <1>9, <1>10 DEF r, kept, S

LEMMA DropIInv == ASSUME IInv, Drop PROVE IInv'
<1> DEFINE w == pub.wire
           lost == {m \in ToSet(w) : m.qos = 0}
           kept == Filter(w, {m \in ToSet(w) : m.qos = 1})
           r == [i \in DOMAIN kept |-> [kept[i] EXCEPT !.got = FALSE]]
           read == IF pub.read.got THEN pub.read ELSE NoRead
           p == [pub EXCEPT !.conn = "down", !.wire = r, !.read = read]
<1>1. /\ Happens /\ pub.conn = "up" /\ pub' = LateErrors(p, lost)
      /\ broker' \in {WillSays, [t \in Topics |-> Empty]}
      /\ stuck' = FALSE /\ UNCHANGED <<fleet, settings, excused>>
  BY DEF Drop
<1>2. /\ Typed /\ Memory(pub, fleet) /\ pub \in Memories /\ HasClient(pub)
      /\ settings.enabled /\ fleet \in [Ids -> UnitStates]
      /\ WillSays \in [Topics -> Payloads] /\ \A t \in StateTopics : WillSays[t] = broker[t]
      /\ \A t \in StateTopics \ excused : fleet[t[1]] = "gone" => Owed(pub, broker, t)
  BY <1>1, IInvFacts DEF HasClient
<1>3. /\ w \in Seq(Messages) /\ Len(w) \in Nat /\ DOMAIN w = 1 .. Len(w)
      /\ \A i \in 1 .. Len(w) : Fits(w[i])
  <2>1. w \in Seq(Messages) /\ Len(w) \in Nat /\ DOMAIN w = 1 .. Len(w)
    BY <1>2, MemoryFacts
  <2>2. \A i \in DOMAIN w : Fits(w[i])
    BY <1>2 DEF Memory
  <2> QED
    BY <2>1, <2>2
<1>4. lost \in SUBSET Messages
  BY <1>3, Elements
<1>5. /\ r \in Seq(Messages) /\ Cardinality(Carried(r)) <= Cardinality(Carried(w))
      /\ \A i \in 1 .. Len(r) : /\ Fits(r[i]) /\ ~r[i].got
                                /\ r[i].topic \in StateTopics => r[i].payload = Empty
      /\ \A i \in 1 .. Len(w) : w[i].qos = 1 => \E j \in 1 .. Len(r) : r[j].topic = w[i].topic
  BY <1>3, ResentFacts
<1> HIDE DEF r, lost
<1>6. read \in ReadRecord
  BY <1>2, MemoryFacts DEF ReadRecord, NoRead
<1> HIDE DEF read
<1>7. /\ p \in Memories /\ p.conn = "down" /\ p.wire = r /\ p.sent = pub.sent
      /\ p.pending = pub.pending /\ p.removed = pub.removed
  BY <1>2, <1>5, <1>6 DEF Memories, Conns
<1> HIDE DEF p
<1>8. Memory(p, fleet) /\ HasClient(p)
  <2>1. HasClient(p)
    BY <1>7 DEF HasClient
  <2>2. InFlight(p) <= MaxInFlight
    <3>1. /\ InFlight(p) = Cardinality(Carried(r)) /\ InFlight(p) \in Nat
          /\ InFlight(pub) = Cardinality(Carried(w)) /\ InFlight(pub) \in Nat
      BY <1>3, <1>5, <1>7, InFlightFacts
    <3>2. InFlight(pub) <= MaxInFlight
      BY <1>1, <1>2 DEF Memory
    <3>3. MaxInFlight \in Nat
      BY PublisherAssumption
    <3> QED
      BY <1>5, <3>1, <3>2, <3>3
  <2>3. \A i \in DOMAIN p.wire : Fits(p.wire[i])
    BY <1>5, <1>7
  <2> QED
    BY <1>2, <1>7, <2>1, <2>2, <2>3 DEF Memory
<1>9. /\ Memory(pub', fleet) /\ Keeps(p, pub', broker', fleet, {})
  BY <1>1, <1>4, <1>8, LateErrorsFacts
<1>10. ASSUME NEW t \in StateTopics, IsFinal(w, broker, t, Empty)
       PROVE  IsFinal(r, broker', t, Empty)
  <2> DEFINE S == {j \in 1 .. Len(r) : r[j].topic = t}
  <2>1. Len(r) \in Nat /\ DOMAIN r = 1 .. Len(r) /\ S \in SUBSET (1 .. Len(r))
    BY <1>5
  <2>2. CASE S # {}
    <3>1. PICK k \in S : \A j \in S : j <= k
      BY <2>1, <2>2, Greatest
    <3> QED
      BY <1>5, <2>1, <3>1 DEF IsFinal
  <2>3. CASE S = {}
    <3>1. \A i \in 1 .. Len(w) : w[i].topic = t => w[i].qos # 1
      BY <1>5, <2>3
    <3>2. \A i \in 1 .. Len(w) : w[i].topic = t => w[i].payload # Empty
      BY <1>3, <3>1, TopicFacts DEF Fits
    <3>3. broker[t] = Empty
      BY <1>3, <1>10, <3>2 DEF IsFinal
    <3>4. broker'[t] = Empty
      BY <1>1, <1>2, <3>3, TopicFacts
    <3> QED
      BY <2>1, <2>3, <3>4 DEF IsFinal
  <2> QED
    BY <2>2, <2>3
<1>11. \A t \in StateTopics \ excused : fleet'[t[1]] = "gone" => Owed(p, broker', t)
  BY <1>1, <1>2, <1>7, <1>10 DEF Owed
<1>12. events' \in 0 .. MaxEvents
  BY <1>1, <1>2, HappensFacts
<1>13. broker' \in [Topics -> Payloads]
  BY <1>1, <1>2 DEF Payloads
<1>14. Typed'
  BY <1>1, <1>2, <1>12, <1>13 DEF Typed
<1> QED
  BY <1>1, <1>2, <1>7, <1>8, <1>9, <1>11, <1>14, StepKeeps

LEMMA RefuseIInv == ASSUME IInv, Refuse PROVE IInv'
<1> DEFINE w == pub.wire
           i == Next1(pub)
           m == w[i]
           x == RemoveAt(w, i)
           p == Without(pub, i)
<1>1. /\ Typed /\ Memory(pub, fleet) /\ pub \in Memories /\ (settings.enabled <=> HasClient(pub))
      /\ WillSays \in [Topics -> Payloads]
      /\ HasClient(pub) => \A t \in StateTopics \ excused : fleet[t[1]] = "gone" => Owed(pub, broker, t)
      /\ ~HasClient(pub) => \A t \in StateTopics \ excused : fleet[t[1]] # "gone"
      /\ ~HasClient(pub) => pub.read = NoRead
  BY IInvFacts DEF Memory
<1>2. w \in Seq(Messages) /\ Len(w) \in Nat /\ DOMAIN w = 1 .. Len(w)
  BY <1>1, MemoryFacts
<1>3. i \in 1 .. Len(w) /\ ~w[i].got
  <2>1. Ungot(pub) \in SUBSET Nat /\ Ungot(pub) # {}
    BY <1>2 DEF Ungot, Refuse, Delivering
  <2>2. \E j \in Ungot(pub) : \A k \in Ungot(pub) : j <= k
    BY <2>1, Least
  <2>3. i \in Ungot(pub)
    BY <2>2 DEF Next1
  <2> QED
    BY <1>2, <2>3 DEF Ungot
<1>4. /\ Happens /\ pub.conn \in {"up", "retiring"}
      /\ pub' = IF pub.conn = "up" THEN LateErrors(p, {m})
                ELSE IF Len(w) = 1 THEN Fresh("none") ELSE p
      /\ broker' = IF pub'.conn = "none" THEN WillSays ELSE broker
      /\ UNCHANGED <<fleet, settings, stuck, excused>>
  BY DEF Refuse, Delivering
<1>5. m \in Messages
  BY <1>2, <1>3
<1>6. events' \in 0 .. MaxEvents
  BY <1>1, <1>4, HappensFacts
<1>7. Typed'
  BY <1>1, <1>4, <1>6 DEF Typed
<1> HIDE DEF i
<1>8. /\ p \in Memories /\ p.wire = x /\ p.conn = pub.conn /\ p.sent = pub.sent
      /\ p.removed = pub.removed /\ p.pending = pub.pending /\ p.read = pub.read
  <2>1. p \in Memories /\ p.wire = x
    BY <1>1, <1>2, <1>3, WireFacts
  <2> QED
    BY <1>1, <2>1 DEF Without, Memories
<1>9. Memory(p, fleet)
  BY <1>1, <1>2, <1>3, <1>8, WireFacts
<1> HIDE DEF p
<1>10. CASE pub.conn = "up"
  <2>1. HasClient(pub) /\ HasClient(p)
    BY <1>8, <1>10 DEF HasClient
  <2>2. {m} \in SUBSET Messages
    BY <1>5
  <2>3. /\ Memory(pub', fleet) /\ Keeps(p, pub', broker, fleet, {})
        /\ pub'.wire = p.wire /\ pub'.conn = p.conn
        /\ \A t \in Topics : pub'.sent[t] = Empty \/ pub'.sent[t] = p.sent[t]
        /\ m.topic \in Topics /\ m.payload # Empty => pub'.sent[m.topic] # m.payload
        /\ m.topic \in StateTopics /\ m.payload = Empty => m.topic[1] \in pub'.removed
    <3>1. pub' = LateErrors(p, {m})
      BY <1>4, <1>10
    <3> QED
      BY <1>9, <2>1, <2>2, <3>1, LateErrorsFacts
  <2>4. broker' = broker
    BY <1>4, <1>8, <1>10, <2>3
  \* Only the word of m itself can be lost.
  <2>5. ASSUME NEW t, NEW v, IsFinal(w, broker, t, v), m.topic = t => m.payload # v
        PROVE  IsFinal(x, broker, t, v)
    <3>1. CASE m.topic # t
      BY <1>2, <1>3, <2>5, <3>1, FinalRemoved
    <3>2. CASE m.topic = t
      <4>1. PICK k \in 1 .. Len(w) : /\ w[k].topic = t /\ ~w[k].got /\ w[k].payload = v
                                     /\ \A j \in 1 .. Len(w) : w[j].topic = t /\ ~w[j].got => j <= k
        BY <1>2, <1>3, <2>5, <3>2 DEF IsFinal
      <4>2. k # i /\ i <= k
        BY <1>3, <2>5, <3>2, <4>1
      <4>3. i < k
        BY <1>3, <4>2
      <4> QED
        BY <1>2, <1>3, <2>5, <4>1, <4>3, FinalRemoved
    <3> QED
      BY <3>1, <3>2
  <2>6. ASSUME NEW t \in Topics, Cached(pub, broker, t) PROVE Cached(pub', broker', t)
    <3> SUFFICES ASSUME pub'.sent[t] # Empty PROVE IsFinal(pub'.wire, broker', t, pub'.sent[t])
      BY DEF Cached
    <3>1. pub'.sent[t] = pub.sent[t]
      BY <1>8, <2>3
    <3>2. IsFinal(w, broker, t, pub.sent[t])
      BY <2>6, <3>1 DEF Cached
    <3>3. m.topic = t => m.payload # pub.sent[t]
      BY <2>3, <3>1
    <3> QED
      BY <1>8, <2>3, <2>4, <2>5, <3>1, <3>2, <3>3
  <2>7. ASSUME NEW t \in StateTopics, fleet[t[1]] = "gone", Owed(pub, broker, t)
        PROVE  Owed(pub', broker', t)
    <3>1. CASE m.topic = t /\ m.payload = Empty
      BY <2>3, <3>1 DEF Owed
    <3>2. CASE t[1] \in pub.removed
      <4>1. Owed(p, broker, t)
        BY <1>8, <3>2 DEF Owed
      <4> QED
        BY <2>3, <2>4, <2>7, <4>1 DEF Keeps
    <3>3. CASE IsFinal(w, broker, t, Empty) /\ ~(m.topic = t /\ m.payload = Empty)
      BY <1>8, <2>3, <2>4, <2>5, <3>3 DEF Owed
    <3> QED
      BY <2>7, <3>1, <3>2, <3>3 DEF Owed
  <2>8. CacheInv'
    BY <1>4, <1>10, <2>6 DEF IInv, CacheInv
  <2>9. HasClient(pub')
    BY <1>8, <1>10, <2>3 DEF HasClient
  <2>10. OwedInv'
    BY <1>1, <1>4, <2>1, <2>7, <2>9 DEF OwedInv
  <2> QED
    BY <1>1, <1>4, <1>7, <2>1, <2>3, <2>8, <2>9, <2>10 DEF IInv
<1>11. CASE pub.conn = "retiring"
  <2>1. ~HasClient(pub)
    BY <1>11 DEF HasClient
  <2>2. Memory(pub', fleet) /\ ~HasClient(pub')
    <3>1. CASE pub' = p
      BY <1>8, <1>9, <1>11, <3>1 DEF HasClient
    <3>2. CASE pub' = Fresh("none")
      BY <3>2, FreshFacts DEF Conns
    <3> QED
      BY <1>4, <1>11, <3>1, <3>2
  <2> QED
    BY <1>1, <1>4, <1>7, <2>1, <2>2, StepEnds
<1> QED
  BY <1>4, <1>10, <1>11

LEMMA NextIInv == IInv /\ [Next]_vars => IInv'
<1> SUFFICES ASSUME IInv, [Next]_vars PROVE IInv'
  OBVIOUS
<1>1. CASE UNCHANGED vars
  <2>1. UNCHANGED <<fleet, settings, pub, broker, stuck, events, excused>>
    BY <1>1 DEF vars
  <2> QED
    BY <2>1 DEF IInv, Typed, CacheInv, OwedInv
<1>2. CASE System
  BY <1>2, DeliverIInv, AcknowledgeIInv, RetireTimesOutIInv, ConnectIInv, ReadEndsIInv,
     StalledTickIInv, TickIInv DEF System
<1>3. CASE Environment
  BY <1>3, UnitChangesIInv, RemoveUnitIInv, SwitchOffIInv, SwitchOnIInv, SwitchDiscoveryIInv,
     DropIInv, WedgeIInv, RefuseIInv, RestartIInv DEF Environment
<1> QED
  BY <1>1, <1>2, <1>3 DEF Next

-----------------------------------------------------------------------------
(* The theorems. *)

\* The inductive invariant: beyond the types, the reading of a unit goes out
\* with QoS 0 and every clear with QoS 1, nothing is taken for sent while it
\* waits to be cleared, of a unit that is gone or without a client, and what is
\* owed has a client to go out on.
THEOREM Inductive == Spec => []IInv
<1> QED
  BY InitIInv, NextIInv, PTL DEF Spec

\* Whatever the fleet, the user and the network do, no more publishes are
\* outstanding than MAX_IN_FLIGHT allows, the clears of a tick, of a connect,
\* of a switch of discovery and of a removed unit included; only the last
\* clears of a connection that is given up may pass it.
THEOREM TypeCorrect == Spec => []TypeOK
<1>1. IInv => TypeOK
  <2> SUFFICES ASSUME IInv PROVE TypeOK
    OBVIOUS
  <2>1. Typed /\ Memory(pub, fleet)
    BY DEF IInv
  <2>2. /\ pub.conn \in Conns /\ pub.wire \in Seq(Messages) /\ pub.sent \in [Topics -> Payloads]
        /\ pub.removed \in SUBSET Ids /\ pub.pending \in Seq(Configs)
        /\ pub.tracked \in SUBSET Nodes /\ pub.found \in SUBSET Nodes
        /\ pub.read.found \in SUBSET Nodes
    BY <2>1, MemoryFacts DEF ReadRecord
  <2> QED
    BY <2>1, <2>2 DEF Typed, TypeOK, Memory, Conns, Nodes
<1> QED
  BY <1>1, Inductive, PTL

\* While the connection is up, what the publisher takes for sent, and so does
\* not send again, is what the broker retains or is about to, through lost
\* connections, teardowns, refusals and the clears of removed units. (The topics
\* in excused are left out: the README says which and why.)
THEOREM CacheCorrect == Spec => []CacheIsTrue
<1>1. IInv => CacheIsTrue
  <2> SUFFICES ASSUME IInv, pub.conn = "up", NEW t \in Topics \ excused, pub.sent[t] # Empty
               PROVE  Final(t) = pub.sent[t]
    BY DEF CacheIsTrue
  <2>1. Cached(pub, broker, t)
    BY DEF IInv, CacheInv
  <2>2. IsFinal(pub.wire, broker, t, pub.sent[t]) /\ pub.wire \in Seq(Messages)
    BY <2>1, MemoryFacts DEF IInv, Cached
  <2> QED
    BY <2>2, FinalIsFinal
<1> QED
  BY <1>1, Inductive, PTL

\* The state of a unit that was removed is cleared at the broker, or its clear
\* is under way or queued, whatever connection is lost, stalled or refused.
THEOREM ClearsRemembered == Spec => []OwedIsRemembered
<1>1. IInv => OwedIsRemembered
  <2> SUFFICES ASSUME IInv, NEW t \in StateTopics \ excused, fleet[t[1]] = "gone"
               PROVE  Final(t) = Empty \/ t[1] \in pub.removed
    BY DEF OwedIsRemembered
  <2>1. Owed(pub, broker, t) /\ pub.wire \in Seq(Messages)
    BY MemoryFacts DEF IInv, OwedInv
  <2> QED
    BY <2>1, FinalIsFinal DEF Owed
<1> QED
  BY <1>1, Inductive, PTL

===============================================================================

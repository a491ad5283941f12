--------------------------- MODULE Benchmarks_proofs ---------------------------
(***************************************************************************)
(* For any Sparks, cap and length of the history, and any number of jobs,  *)
(* shutdowns and crashes: the cap and the exclusion of the managers hold,  *)
(* no Spark stays blocked, no job is forgotten and none that a user has    *)
(* removed comes back, and an outcome is final.                            *)
(***************************************************************************)
EXTENDS Benchmarks, FiniteSetTheorems, WellFoundedInduction, TLAPS

Statuses == Ends \union {"running", "lost"}
JobRecord == [kind : Kinds, unit : Units, met : SUBSET Nat, status : Statuses, live : BOOLEAN,
              aborted : BOOLEAN, fatal : BOOLEAN, cleared : BOOLEAN, excused : BOOLEAN]
Row == [id : Nat, status : Ends]

\* Rows of the jobs in S, one for each at most.
GoodRows(rows, S) ==
    /\ rows \in Seq(Row) /\ Len(rows) <= HistoryLimit
    /\ \A i \in DOMAIN rows : rows[i].id \in S
    /\ \A i, j \in DOMAIN rows : rows[i].id = rows[j].id => i = j

GoodHistory(h) ==
    /\ h \in [Kinds -> [Units -> Seq(Row)]]
    /\ \A k \in Kinds, u \in Units : GoodRows(h[k][u], Of(k, u))

\* A job is in the history with this status.
Recorded(rows, x, s) == \E i \in DOMAIN rows : rows[i].id = x /\ rows[i].status = s
\* Later jobs of the same manager and Spark have taken all the room.
PushedOut(rows, x, S) == Places(rows, x) = {} /\ Cardinality(S \ {x}) >= HistoryLimit

Peers(j) == Of(job[j].kind, job[j].unit)
Accounted(h, x, s) == Recorded(Rows(h, x), x, s) \/ PushedOut(Rows(h, x), x, Peers(x))

\* A job that runs has a loop and a row to come; a loop whose job was ended from
\* outside belongs to a shutdown or to a showcase that was cancelled.
LiveInv ==
    \A j \in Started :
      /\ job[j].met \subseteq 1 .. j - 1
      /\ job[j].status = "running" => job[j].live /\ ~job[j].cleared
      /\ job[j].live /\ job[j].status # "running" =>
           IF job[j].kind \in Bench THEN stopping /\ job[j].status \in Ends
                                    ELSE job[j].status = "cancelled"
      /\ job[j].fatal => job[j].kind = "quality"

\* A manager's entry for a Spark is one of its jobs there.
ActiveInv ==
    /\ active \in [Kinds -> [Units -> Nat]]
    /\ \A k \in Kinds, u \in Units : active[k][u] # NoJob => active[k][u] \in Of(k, u)

CapInv == ActiveCount <= MaxActive

\* A request knows of the jobs that have come to run since its checks.
RequestInv ==
    /\ requests \subseteq [kind : Bench, unit : Units, met : SUBSET Started]
    /\ IsFiniteSet(requests)
    /\ \A r \in requests, j \in Started :
         job[j].unit = r.unit /\ job[j].kind # r.kind /\ job[j].status = "running" /\ Listed(j)
           => j \in r.met

\* The jobs, the entries of their managers and the requests to start more.
JobsInv ==
    /\ LiveInv /\ ActiveInv /\ RunningIsListed /\ BlockedOnlyByLoops
    /\ CapInv /\ Exclusive /\ RequestInv

\* Only the quality manager's writer can be late, and it writes a list that is
\* current unless it knows that a synchronous write came since.
WriterInv ==
    /\ writer \in [at : {"idle", "write", "rename", "renamed"}, list : SUBSET Started,
                   pending : SUBSET Started, stale : BOOLEAN, during : BOOLEAN, late : BOOLEAN]
    /\ \A j \in writer.list : job[j].kind = "quality"
    /\ writer.pending \in {{}, Running("quality")}
    /\ writer.at = "write" /\ ~writer.stale => writer.list = Running("quality")
    /\ writer.at = "rename" /\ ~writer.during => writer.list = Running("quality")

FileInv ==
    /\ file \in [Bench -> SUBSET Started]
    /\ \A k \in Bench : \A j \in file[k] : job[j].kind = k
    /\ FileIsCurrent

RowsInv ==
    /\ GoodHistory(history)
    /\ \A j \in Started :
         /\ job[j].status = "lost" => job[j].excused
         /\ job[j].status \in Ends /\ ~job[j].cleared => Accounted(history, j, job[j].status)
    /\ ClearedStaysGone

\* The files and the history.
DiskInv == WriterInv /\ FileInv /\ RowsInv

Typed ==
    /\ job \in Seq(JobRecord) /\ Len(job) <= MaxJobs
    /\ stopping \in BOOLEAN /\ events \in 0 .. MaxEvents

IInv == Typed /\ JobsInv /\ DiskInv

-----------------------------------------------------------------------------
(* Induction, from the least element of a set of numbers. *)

LEMMA Least ==
    ASSUME NEW S \in SUBSET Nat, S # {}
    PROVE  \E x \in S : \A y \in S : x <= y
<1> DEFINE R == OpToRel(<, Nat)
<1>1. IsWellFoundedOn(R, Nat)
  BY NatLessThanWellFounded
<1>2. \A x, y \in Nat : x < y => <<x, y>> \in R
  BY DEF OpToRel
<1> HIDE DEF R
<1>3. PICK x \in S : \A y \in S : ~ (<<y, x>> \in R)
  BY <1>1, WFMin
<1>4. ASSUME NEW y \in S PROVE x <= y
  <2>1. x \in Nat /\ y \in Nat /\ ~ (y < x)
    BY <1>2, <1>3
  <2> QED
    BY <2>1
<1> QED
  BY <1>4

LEMMA Induction ==
    ASSUME NEW N \in Nat, NEW G, 0 \in G, \A n \in 1 .. N : n - 1 \in G => n \in G
    PROVE  \A n \in 0 .. N : n \in G
<1> SUFFICES ASSUME NEW m \in 0 .. N, m \notin G PROVE FALSE
  OBVIOUS
<1> DEFINE S == {n \in 0 .. N : n \notin G}
<1>1. S \in SUBSET Nat /\ S # {}
  OBVIOUS
<1>2. PICK x \in S : \A y \in S : x <= y
  BY <1>1, Least
<1>3. x # 0 /\ x \in 1 .. N
  OBVIOUS
<1>4. x - 1 \in 0 .. N /\ ~ (x - 1 \in S)
  BY <1>2, <1>3
<1> QED
  BY <1>3, <1>4

-----------------------------------------------------------------------------
(* The rows of one Spark. *)

LEMMA RowsFacts ==
    ASSUME NEW S, NEW rows, GoodRows(rows, S)
    PROVE  /\ Len(rows) \in Nat /\ DOMAIN rows = 1 .. Len(rows)
           /\ \A i \in 1 .. Len(rows) : rows[i] \in Row /\ rows[i].id \in S
                                        /\ rows[i].id \in Nat /\ rows[i].status \in Ends
<1>1. rows \in Seq(Row) /\ \A i \in DOMAIN rows : rows[i].id \in S
  BY DEF GoodRows
<1>2. Len(rows) \in Nat /\ DOMAIN rows = 1 .. Len(rows) /\ \A i \in 1 .. Len(rows) : rows[i] \in Row
  BY <1>1
<1> QED
  BY <1>1, <1>2 DEF Row

LEMMA SubSeqFacts ==
    ASSUME NEW rows \in Seq(Row), NEW m \in Nat, NEW n \in Nat, 1 <= m, m <= n + 1, n <= Len(rows)
    PROVE  /\ SubSeq(rows, m, n) \in Seq(Row) /\ Len(SubSeq(rows, m, n)) = n - m + 1
           /\ \A i \in 1 .. n - m + 1 : SubSeq(rows, m, n)[i] = rows[m + i - 1]
<1>1. CASE m <= n
  BY <1>1
<1>2. CASE m = n + 1
  <2>1. SubSeq(rows, m, n) = <<>>
    BY <1>2
  <2> QED
    BY <1>2, <2>1
<1> QED
  BY <1>1, <1>2

LEMMA ConcatFacts ==
    ASSUME NEW a \in Seq(Row), NEW b \in Seq(Row)
    PROVE  /\ a \o b \in Seq(Row) /\ Len(a \o b) = Len(a) + Len(b)
           /\ \A i \in 1 .. Len(a) : (a \o b)[i] = a[i]
           /\ \A i \in 1 .. Len(b) : (a \o b)[Len(a) + i] = b[i]
OBVIOUS

\* The row of a job is gone, and nothing else.
LEMMA WithoutFacts ==
    ASSUME NEW S, NEW rows, GoodRows(rows, S), NEW j
    PROVE  LET w == Without(rows, j) IN
           /\ w \in Seq(Row) /\ Len(w) <= Len(rows)
           /\ \A i \in DOMAIN w : \E n \in DOMAIN rows : w[i] = rows[n] /\ rows[n].id # j
           /\ \A i, n \in DOMAIN w : w[i].id = w[n].id => i = n
           /\ \A n \in DOMAIN rows : rows[n].id # j => \E i \in DOMAIN w : w[i] = rows[n]
<1> DEFINE L == Len(rows)
<1>1. rows \in Seq(Row) /\ L \in Nat /\ DOMAIN rows = 1 .. L
      /\ \A i, n \in 1 .. L : rows[i].id = rows[n].id => i = n
  BY DEF GoodRows
<1>2. CASE Places(rows, j) = {}
  <2>1. Without(rows, j) = rows
    BY <1>2 DEF Without
  <2> QED
    BY <1>1, <1>2, <2>1 DEF Places
<1>3. CASE Places(rows, j) # {}
  <2> DEFINE p == Place(rows, j)
  <2>1. p \in 1 .. L /\ rows[p].id = j
    <3>1. p \in Places(rows, j)
      BY <1>3 DEF Place
    <3> QED
      BY <1>1, <3>1 DEF Places
  <2> HIDE DEF p
  <2> DEFINE w == RemoveAt(rows, p)
  <2>2. /\ w \in Seq(Row) /\ Len(w) = L - 1
        /\ \A i \in 1 .. L - 1 : w[i] = IF i < p THEN rows[i] ELSE rows[i + 1]
    <3> DEFINE a == SubSeq(rows, 1, p - 1)
               b == SubSeq(rows, p + 1, L)
    <3>0. p \in Nat /\ L \in Nat /\ 1 <= p /\ p <= L
      BY <1>1, <2>1
    <3>1. a \in Seq(Row) /\ Len(a) = p - 1 /\ \A i \in 1 .. p - 1 : a[i] = rows[i]
      <4>1. p - 1 \in Nat /\ 1 <= p - 1 + 1 /\ p - 1 <= Len(rows)
        BY <3>0
      <4>2. /\ SubSeq(rows, 1, p - 1) \in Seq(Row) /\ Len(SubSeq(rows, 1, p - 1)) = p - 1 - 1 + 1
            /\ \A i \in 1 .. p - 1 - 1 + 1 : SubSeq(rows, 1, p - 1)[i] = rows[1 + i - 1]
        BY <1>1, <4>1, SubSeqFacts
      <4> QED
        BY <3>0, <4>2
    <3>2. b \in Seq(Row) /\ Len(b) = L - p /\ \A i \in 1 .. L - p : b[i] = rows[p + i]
      <4>1. p + 1 \in Nat /\ 1 <= p + 1 /\ p + 1 <= L + 1 /\ L <= Len(rows)
        BY <3>0
      <4>2. /\ SubSeq(rows, p + 1, L) \in Seq(Row) /\ Len(SubSeq(rows, p + 1, L)) = L - (p + 1) + 1
            /\ \A i \in 1 .. L - (p + 1) + 1 : SubSeq(rows, p + 1, L)[i] = rows[p + 1 + i - 1]
        BY <1>1, <4>1, SubSeqFacts
      <4> QED
        BY <3>0, <4>2
    <3> HIDE DEF a, b
    <3>3. w = a \o b
      BY DEF a, b, RemoveAt
    <3>4. /\ w \in Seq(Row) /\ Len(w) = Len(a) + Len(b)
          /\ \A i \in 1 .. Len(a) : w[i] = a[i]
          /\ \A i \in 1 .. Len(b) : w[Len(a) + i] = b[i]
      <4> HIDE DEF w
      <4>1. /\ a \o b \in Seq(Row) /\ Len(a \o b) = Len(a) + Len(b)
            /\ \A i \in 1 .. Len(a) : (a \o b)[i] = a[i]
            /\ \A i \in 1 .. Len(b) : (a \o b)[Len(a) + i] = b[i]
        BY <3>1, <3>2, ConcatFacts
      <4> QED
        BY <3>3, <4>1
    <3>5. ASSUME NEW i \in 1 .. L - 1
          PROVE  w[i] = IF i < p THEN rows[i] ELSE rows[i + 1]
      <4>1. CASE i < p
        BY <3>0, <3>1, <3>4, <4>1
      <4>2. CASE ~ (i < p)
        <5>1. i - (p - 1) \in 1 .. L - p /\ p + (i - (p - 1)) = i + 1 /\ p - 1 + (i - (p - 1)) = i
          BY <3>0, <4>2
        <5>2. w[i] = b[i - (p - 1)]
          BY <3>1, <3>2, <3>4, <5>1
        <5> QED
          BY <3>2, <4>2, <5>1, <5>2
      <4> QED
        BY <4>1, <4>2
    <3>6. Len(w) = L - 1
      BY <3>0, <3>1, <3>2, <3>4
    <3> QED
      BY <3>4, <3>5, <3>6
  <2> HIDE DEF w
  <2>3. Without(rows, j) = w
    BY <1>3 DEF Without, p, w
  <2>4. DOMAIN w = 1 .. L - 1
    BY <1>1, <2>2
  <2>5. ASSUME NEW i \in 1 .. L - 1
        PROVE  \E n \in 1 .. L : w[i] = rows[n] /\ rows[n].id # j
    <3>1. CASE i < p
      BY <1>1, <2>1, <2>2, <3>1, SMTT(30)
    <3>2. CASE ~ (i < p)
      <4>1. i + 1 \in 1 .. L /\ i + 1 # p
        BY <1>1, <2>1, <3>2
      <4> QED
        BY <1>1, <2>1, <2>2, <3>2, <4>1
    <3> QED
      BY <3>1, <3>2
  <2>6. ASSUME NEW i \in 1 .. L - 1, NEW n \in 1 .. L - 1, w[i].id = w[n].id
        PROVE  i = n
    <3> DEFINE at(m) == IF m < p THEN m ELSE m + 1
    <3>1. \A m \in 1 .. L - 1 : at(m) \in 1 .. L /\ w[m] = rows[at(m)]
      BY <1>1, <2>1, <2>2
    <3>2. at(i) = at(n)
      <4>1. at(i) \in 1 .. L /\ at(n) \in 1 .. L /\ w[i] = rows[at(i)] /\ w[n] = rows[at(n)]
        BY <3>1
      <4> QED
        BY <1>1, <2>6, <4>1
    <3> QED
      BY <1>1, <2>1, <3>2
  <2>7. ASSUME NEW n \in 1 .. L, rows[n].id # j
        PROVE  \E i \in 1 .. L - 1 : w[i] = rows[n]
    <3>1. n # p /\ n \in Nat /\ p \in Nat /\ L \in Nat /\ 1 <= p /\ p <= L /\ 1 <= n /\ n <= L
      BY <1>1, <2>1, <2>7
    <3>2. CASE n < p
      <4>1. n \in 1 .. L - 1
        BY <1>1, <2>1, <3>2
      <4> QED
        BY <2>2, <3>2, <4>1
    <3>3. CASE p < n
      <4>1. n - 1 \in 1 .. L - 1 /\ ~ (n - 1 < p) /\ n - 1 + 1 = n
        BY <3>1, <3>3
      <4>2. w[n - 1] = rows[n]
        BY <2>2, <4>1
      <4> QED
        BY <4>1, <4>2
    <3> QED
      BY <3>1, <3>2, <3>3
  <2>8. Len(w) <= L
    BY <1>1, <2>2
  <2> QED
    BY <1>1, <2>2, <2>3, <2>4, <2>5, <2>6, <2>7, <2>8, ZenonT(30)
<1> QED
  BY <1>2, <1>3

LEMMA LatestFacts ==
    ASSUME NEW rows \in Seq(Row)
    PROVE  /\ Latest(rows) \in Seq(Row)
           /\ Len(Latest(rows)) = IF Len(rows) < HistoryLimit THEN Len(rows) ELSE HistoryLimit
           /\ \A i \in 1 .. Len(Latest(rows)) : Latest(rows)[i] = rows[i]
<1> DEFINE n == IF Len(rows) < HistoryLimit THEN Len(rows) ELSE HistoryLimit
<1>1. n \in Nat /\ 1 <= n + 1 /\ n <= Len(rows)
  BY BenchmarksAssumption
<1>2. Latest(rows) = SubSeq(rows, 1, n)
  BY DEF Latest
<1> HIDE DEF n
<1>3. /\ SubSeq(rows, 1, n) \in Seq(Row) /\ Len(SubSeq(rows, 1, n)) = n - 1 + 1
      /\ \A i \in 1 .. n - 1 + 1 : SubSeq(rows, 1, n)[i] = rows[1 + i - 1]
  BY <1>1, SubSeqFacts
<1> QED
  BY <1>1, <1>2, <1>3 DEF n

\* At most one of as many rows as there are other jobs.
LEMMA RowsFit ==
    ASSUME NEW S, IsFiniteSet(S), NEW rows, GoodRows(rows, S), NEW x, Places(rows, x) = {}
    PROVE  Len(rows) <= Cardinality(S \ {x})
<1> DEFINE f == [i \in 1 .. Len(rows) |-> rows[i].id]
<1> DEFINE T == S \ {x}
<1>1. /\ Len(rows) \in Nat /\ DOMAIN rows = 1 .. Len(rows)
      /\ \A i \in 1 .. Len(rows) : rows[i].id \in S
  BY RowsFacts
<1>2. \A i \in 1 .. Len(rows) : rows[i].id # x
  BY <1>1 DEF Places
<1>3. f \in Injection(1 .. Len(rows), T)
  <2>1. f \in [1 .. Len(rows) -> T]
    BY <1>1, <1>2
  <2>2. \A i, j \in 1 .. Len(rows) : rows[i].id = rows[j].id => i = j
    BY <1>1 DEF GoodRows
  <2> QED
    BY <2>1, <2>2 DEF Injection, IsInjective
<1>4. IsFiniteSet(T)
  BY FS_RemoveElement
<1>5. Cardinality(1 .. Len(rows)) = Len(rows)
  BY <1>1, FS_Interval
<1>6. Cardinality(1 .. Len(rows)) <= Cardinality(T)
  BY <1>3, <1>4, FS_Injection
<1> QED
  BY <1>5, <1>6

\* What a push does to the row of any other job: it may leave, by being pushed out.
RowKept(rows, new, x, S) ==
    \A t : /\ Recorded(new, x, t) => Recorded(rows, x, t)
           /\ Recorded(rows, x, t) => Recorded(new, x, t) \/ PushedOut(new, x, S)

LEMMA PushedRows ==
    ASSUME NEW S \in SUBSET Nat, IsFiniteSet(S), NEW rows, GoodRows(rows, S),
           NEW j \in S, NEW s \in Ends
    PROVE  LET new == Latest(<<[id |-> j, status |-> s]>> \o Without(rows, j)) IN
           /\ GoodRows(new, S) /\ Recorded(new, j, s)
           /\ \A x : x # j => RowKept(rows, new, x, S)
<1> DEFINE r == [id |-> j, status |-> s]
           w == Without(rows, j)
           all == <<r>> \o w
           new == Latest(all)
<1>1. /\ w \in Seq(Row) /\ Len(w) <= Len(rows)
      /\ \A i \in DOMAIN w : \E n \in DOMAIN rows : w[i] = rows[n] /\ rows[n].id # j
      /\ \A i, n \in DOMAIN w : w[i].id = w[n].id => i = n
      /\ \A n \in DOMAIN rows : rows[n].id # j => \E i \in DOMAIN w : w[i] = rows[n]
  BY WithoutFacts
<1> HIDE DEF w
<1>2. r \in Row /\ r.id = j /\ r.status = s
  BY DEF Row
<1> HIDE DEF r
<1>3. /\ Len(w) \in Nat /\ DOMAIN w = 1 .. Len(w)
      /\ all \in Seq(Row) /\ Len(all) = Len(w) + 1 /\ DOMAIN all = 1 .. Len(all)
      /\ all[1] = r /\ \A i \in 1 .. Len(w) : all[i + 1] = w[i]
  <2>1. <<r>> \in Seq(Row) /\ Len(<<r>>) = 1 /\ <<r>>[1] = r
    BY <1>2
  <2>2. /\ all \in Seq(Row) /\ Len(all) = 1 + Len(w)
        /\ \A i \in 1 .. 1 : all[i] = <<r>>[i]
        /\ \A i \in 1 .. Len(w) : all[1 + i] = w[i]
    BY <1>1, <2>1, ConcatFacts
  <2> HIDE DEF all
  <2> QED
    BY <1>1, <2>1, <2>2
<1> HIDE DEF all
<1>4. \A i \in 2 .. Len(all) : i - 1 \in 1 .. Len(w) /\ all[i] = w[i - 1]
  <2>1. ASSUME NEW i \in 2 .. Len(all) PROVE i - 1 \in 1 .. Len(w) /\ all[i] = w[i - 1]
    <3>1. i - 1 \in 1 .. Len(w) /\ i - 1 + 1 = i
      BY <1>3
    <3> QED
      BY <1>3, <3>1
  <2> QED
    BY <2>1
<1>5. \A i \in 1 .. Len(w) : w[i].id \in S /\ w[i].id # j
  BY <1>1, <1>3 DEF GoodRows
<1>6. \A i, n \in 1 .. Len(all) : all[i].id = all[n].id => i = n
  <2> SUFFICES ASSUME NEW i \in 1 .. Len(all), NEW n \in 1 .. Len(all), all[i].id = all[n].id
               PROVE  i = n
    OBVIOUS
  <2>1. CASE i = 1 /\ n = 1
    BY <2>1
  <2>2. CASE i = 1 /\ n # 1
    <3>1. n \in 2 .. Len(all)
      BY <2>2
    <3> QED
      BY <1>2, <1>3, <1>4, <1>5, <2>2, <3>1
  <2>3. CASE i # 1 /\ n = 1
    <3>1. i \in 2 .. Len(all)
      BY <2>3
    <3> QED
      BY <1>2, <1>3, <1>4, <1>5, <2>3, <3>1
  <2>4. CASE i # 1 /\ n # 1
    <3>1. i \in 2 .. Len(all) /\ n \in 2 .. Len(all)
      BY <2>4
    <3>2. i - 1 \in 1 .. Len(w) /\ n - 1 \in 1 .. Len(w) /\ w[i - 1].id = w[n - 1].id
      BY <1>4, <3>1
    <3>3. i - 1 = n - 1
      BY <1>1, <1>3, <3>2
    <3> QED
      BY <3>3
  <2> QED
    BY <2>1, <2>2, <2>3, <2>4
<1>7. /\ new \in Seq(Row) /\ Len(new) = IF Len(all) < HistoryLimit THEN Len(all) ELSE HistoryLimit
      /\ \A i \in 1 .. Len(new) : new[i] = all[i]
  BY <1>3, LatestFacts
<1> HIDE DEF new
<1>8. /\ Len(new) \in Nat /\ Len(new) <= HistoryLimit /\ Len(new) <= Len(all) /\ 1 <= Len(new)
      /\ DOMAIN new = 1 .. Len(new)
  BY <1>3, <1>7, BenchmarksAssumption
<1>9. \A i \in 1 .. Len(new) : i \in 1 .. Len(all)
  BY <1>3, <1>8
<1>10. \A i \in 1 .. Len(all) : all[i].id \in S
  <2> SUFFICES ASSUME NEW i \in 1 .. Len(all) PROVE all[i].id \in S
    OBVIOUS
  <2>1. CASE i = 1
    BY <1>2, <1>3, <2>1
  <2>2. CASE i # 1
    <3>1. i \in 2 .. Len(all)
      BY <2>2
    <3> QED
      BY <1>4, <1>5, <3>1
  <2> QED
    BY <2>1, <2>2
<1>11. GoodRows(new, S)
  BY <1>6, <1>7, <1>8, <1>9, <1>10 DEF GoodRows
<1>12. Recorded(new, j, s)
  <2>1. 1 \in 1 .. Len(new) /\ new[1] = r
    BY <1>3, <1>7, <1>8
  <2> QED
    BY <1>2, <1>8, <2>1 DEF Recorded
<1>13. ASSUME NEW x, x # j, NEW t, Recorded(new, x, t) PROVE Recorded(rows, x, t)
  <2>1. PICK i \in 1 .. Len(new) : new[i].id = x /\ new[i].status = t
    BY <1>8, <1>13 DEF Recorded
  <2>2. i # 1 /\ i \in 1 .. Len(all) /\ all[i].id = x /\ all[i].status = t
    BY <1>2, <1>3, <1>7, <1>9, <1>13, <2>1
  <2>3. i \in 2 .. Len(all)
    BY <2>2
  <2>4. i - 1 \in 1 .. Len(w) /\ all[i] = w[i - 1]
    BY <1>4, <2>3
  <2>5. PICK n \in DOMAIN rows : w[i - 1] = rows[n]
    BY <1>1, <1>3, <2>4
  <2> QED
    BY <2>2, <2>4, <2>5 DEF Recorded
<1>14. ASSUME NEW x, x # j, NEW t, Recorded(rows, x, t)
       PROVE  Recorded(new, x, t) \/ PushedOut(new, x, S)
  <2>1. PICK n \in DOMAIN rows : rows[n].id = x /\ rows[n].status = t
    BY <1>14 DEF Recorded
  <2>2. PICK i \in 1 .. Len(w) : w[i] = rows[n]
    BY <1>1, <1>3, <1>14, <2>1
  <2>3. i + 1 \in 1 .. Len(all) /\ all[i + 1] = w[i]
    BY <1>3
  <2>4. CASE i + 1 \in 1 .. Len(new)
    <3>1. new[i + 1] = rows[n]
      BY <1>7, <2>2, <2>3, <2>4
    <3> QED
      BY <1>8, <2>1, <2>4, <3>1 DEF Recorded
  <2>5. CASE ~ (i + 1 \in 1 .. Len(new))
    <3>1. Len(new) = HistoryLimit
      BY <1>3, <1>7, <1>8, <2>3, <2>5
    <3>2. ASSUME NEW m \in 1 .. Len(new) PROVE new[m].id # x
      <4>1. m \in 1 .. Len(all) /\ new[m] = all[m] /\ m # i + 1
        BY <1>7, <1>9, <2>5
      <4> QED
        BY <1>6, <2>1, <2>2, <2>3, <4>1
    <3>3. Places(new, x) = {}
      BY <1>8, <3>2 DEF Places
    <3>4. Len(new) <= Cardinality(S \ {x})
      BY <1>11, <3>3, RowsFit
    <3>5. Cardinality(S \ {x}) \in Nat
      BY FS_RemoveElement, FS_CardinalityType
    <3> QED
      BY <3>1, <3>3, <3>4, <3>5, BenchmarksAssumption DEF PushedOut
  <2> QED
    BY <2>4, <2>5
<1>15. \A x : x # j => RowKept(rows, new, x, S)
  BY <1>13, <1>14 DEF RowKept
<1> QED
  BY <1>11, <1>12, <1>15 DEF new, all, w, r

LEMMA WithoutRow ==
    ASSUME NEW S, NEW rows, GoodRows(rows, S), NEW j
    PROVE  LET new == Without(rows, j) IN
           /\ GoodRows(new, S) /\ Places(new, j) = {}
           /\ \A x : x # j => RowKept(rows, new, x, S)
<1> DEFINE w == Without(rows, j)
<1>1. /\ w \in Seq(Row) /\ Len(w) <= Len(rows)
      /\ \A i \in DOMAIN w : \E n \in DOMAIN rows : w[i] = rows[n] /\ rows[n].id # j
      /\ \A i, n \in DOMAIN w : w[i].id = w[n].id => i = n
      /\ \A n \in DOMAIN rows : rows[n].id # j => \E i \in DOMAIN w : w[i] = rows[n]
  BY WithoutFacts
<1> HIDE DEF w
<1>2. GoodRows(w, S)
  <2>1. Len(w) <= HistoryLimit
    BY <1>1, RowsFacts, BenchmarksAssumption DEF GoodRows
  <2>2. \A i \in DOMAIN w : w[i].id \in S
    BY <1>1 DEF GoodRows
  <2> QED
    BY <1>1, <2>1, <2>2 DEF GoodRows
<1>3. Places(w, j) = {}
  BY <1>1 DEF Places
<1>4. ASSUME NEW x, x # j, NEW t
      PROVE  Recorded(w, x, t) <=> Recorded(rows, x, t)
  BY <1>1, <1>4 DEF Recorded
<1> QED
  BY <1>2, <1>3, <1>4 DEF RowKept, w

LEMMA RecordedOnce ==
    ASSUME NEW S, NEW rows, GoodRows(rows, S), NEW x, NEW s, Recorded(rows, x, s)
    PROVE  /\ Places(rows, x) # {}
           /\ \E i \in DOMAIN rows : Places(rows, x) = {i} /\ rows[i].status = s
           /\ rows[Place(rows, x)].status = s
           /\ \A t : Recorded(rows, x, t) => t = s
<1>1. \A i, n \in DOMAIN rows : rows[i].id = rows[n].id => i = n
  BY DEF GoodRows
<1>2. PICK i \in DOMAIN rows : rows[i].id = x /\ rows[i].status = s
  BY DEF Recorded
<1>3. Places(rows, x) = {i}
  BY <1>1, <1>2 DEF Places
<1>4. Place(rows, x) = i
  BY <1>3 DEF Place
<1>5. ASSUME NEW t, Recorded(rows, x, t) PROVE t = s
  BY <1>1, <1>2, <1>5 DEF Recorded
<1> QED
  BY <1>2, <1>3, <1>4, <1>5

LEMMA NotRecorded ==
    ASSUME NEW rows, NEW x
    PROVE  /\ Places(rows, x) = {} => \A t : ~ Recorded(rows, x, t)
           /\ (\A t : ~ Recorded(rows, x, t)) => Places(rows, x) = {}
BY DEF Recorded, Places

LEMMA StaysOut ==
    ASSUME NEW a, NEW b, NEW x, NEW S, RowKept(a, b, x, S)
    PROVE  /\ Places(a, x) = {} => Places(b, x) = {}
           /\ PushedOut(a, x, S) => PushedOut(b, x, S)
BY NotRecorded DEF RowKept, PushedOut

LEMMA RowKeptTwice ==
    ASSUME NEW a, NEW b, NEW c, NEW x, NEW S, RowKept(a, b, x, S), RowKept(b, c, x, S)
    PROVE  RowKept(a, c, x, S)
<1>1. PushedOut(b, x, S) => PushedOut(c, x, S)
  BY StaysOut
<1> QED
  BY <1>1 DEF RowKept

-----------------------------------------------------------------------------
(* The history of all Sparks. *)

Kept(h, g, x) == RowKept(Rows(h, x), Rows(g, x), x, Peers(x))

LEMMA JobFacts ==
    ASSUME job \in Seq(JobRecord)
    PROVE  /\ Len(job) \in Nat /\ Started = 1 .. Len(job) /\ Started \subseteq Nat
           /\ IsFiniteSet(Started)
           /\ \A j \in Started : /\ job[j] \in JobRecord /\ job[j].kind \in Kinds
                                 /\ job[j].unit \in Units /\ job[j].status \in Statuses
                                 /\ j \in Peers(j)
           /\ \A k, u : Of(k, u) \in SUBSET Nat /\ Of(k, u) \subseteq Started /\ IsFiniteSet(Of(k, u))
<1>1. Len(job) \in Nat /\ Started = 1 .. Len(job) /\ \A j \in 1 .. Len(job) : job[j] \in JobRecord
  BY DEF Started
<1>2. IsFiniteSet(Started)
  BY <1>1, FS_Interval
<1>3. \A k, u : Of(k, u) \subseteq Started /\ IsFiniteSet(Of(k, u))
  BY <1>2, FS_Subset DEF Of
<1>4. \A j \in Started : job[j].kind \in Kinds /\ job[j].unit \in Units
                         /\ job[j].status \in Statuses /\ j \in Peers(j)
  BY <1>1 DEF JobRecord, Peers, Of
<1> QED
  BY <1>1, <1>2, <1>3, <1>4

LEMMA PushedFacts ==
    ASSUME job \in Seq(JobRecord), NEW h, GoodHistory(h), NEW j \in Started, NEW s \in Ends
    PROVE  LET g == Pushed(h, j, s) IN
           /\ GoodHistory(g) /\ Recorded(Rows(g, j), j, s)
           /\ \A x \in Started : x # j => Kept(h, g, x)
<1> DEFINE kind == job[j].kind
           unit == job[j].unit
           rows == h[kind][unit]
           new == Latest(<<[id |-> j, status |-> s]>> \o Without(rows, j))
           g == Pushed(h, j, s)
<1>1. kind \in Kinds /\ unit \in Units /\ j \in Of(kind, unit) /\ Of(kind, unit) \in SUBSET Nat
      /\ IsFiniteSet(Of(kind, unit))
  BY JobFacts DEF Peers
<1>2. g = [h EXCEPT ![kind][unit] = new]
  BY DEF Pushed
<1> HIDE DEF g
<1>3. h \in [Kinds -> [Units -> Seq(Row)]] /\ GoodRows(rows, Of(kind, unit))
  BY <1>1 DEF GoodHistory
<1>4. /\ GoodRows(new, Of(kind, unit)) /\ Recorded(new, j, s)
      /\ \A x : x # j => RowKept(rows, new, x, Of(kind, unit))
  <2> HIDE DEF kind, unit, rows
  <2> QED
    BY <1>1, <1>3, PushedRows
<1>5. new \in Seq(Row)
  BY <1>4 DEF GoodRows
<1> HIDE DEF new
<1>6. g \in [Kinds -> [Units -> Seq(Row)]] /\ g[kind][unit] = new
  BY <1>1, <1>2, <1>3, <1>5
<1>7. \A k \in Kinds, u \in Units : k # kind \/ u # unit => g[k][u] = h[k][u]
  BY <1>1, <1>2, <1>3
<1>8. GoodHistory(g)
  BY <1>4, <1>6, <1>7 DEF GoodHistory
<1>9. Recorded(Rows(g, j), j, s)
  BY <1>4, <1>6 DEF Rows
<1>10. ASSUME NEW x \in Started, x # j PROVE Kept(h, g, x)
  <2>1. job[x].kind \in Kinds /\ job[x].unit \in Units
    BY JobFacts
  <2>2. CASE job[x].kind = kind /\ job[x].unit = unit
    BY <1>4, <1>6, <1>10, <2>2 DEF Kept, Rows, Peers
  <2>3. CASE ~ (job[x].kind = kind /\ job[x].unit = unit)
    <3>1. Rows(g, x) = Rows(h, x)
      BY <1>7, <2>1, <2>3 DEF Rows
    <3> QED
      BY <3>1 DEF Kept, RowKept
  <2> QED
    BY <2>2, <2>3
<1> QED
  BY <1>8, <1>9, <1>10 DEF g

LEMMA AllPushedFacts ==
    ASSUME job \in Seq(JobRecord), NEW h, GoodHistory(h), NEW S \in SUBSET Started, NEW s \in Ends
    PROVE  LET g == AllPushed(h, S, s) IN
           /\ GoodHistory(g)
           /\ \A x \in S : Accounted(g, x, s)
           /\ \A x \in Started \ S : Kept(h, g, x)
<1> DEFINE N == Len(job)
           step(f, n) == IF n = 0 THEN h ELSE IF n \in S THEN Pushed(f[n - 1], n, s) ELSE f[n - 1]
           upto(f, m) == f = [n \in 0 .. m |-> step(f, n)]
           G == {m \in 0 .. N : \E f : upto(f, m)}
<1>1. N \in Nat /\ Started = 1 .. N
  BY JobFacts
<1>2. 0 \in G
  <2> DEFINE f == [n \in 0 .. 0 |-> h]
  <2>1. \A n \in 0 .. 0 : step(f, n) = h
    OBVIOUS
  <2>2. upto(f, 0)
    BY <2>1
  <2> HIDE DEF f, upto
  <2>3. 0 \in 0 .. N /\ \E g : upto(g, 0)
    BY <1>1, <2>2
  <2> QED
    BY <2>3
<1>3. ASSUME NEW m \in 1 .. N, m - 1 \in G PROVE m \in G
  <2>1. PICK f : upto(f, m - 1)
    BY <1>3
  <2> DEFINE g == [n \in 0 .. m |-> IF n = m THEN step(f, m) ELSE f[n]]
  <2>2. \A n \in 0 .. m : g[n] = step(g, n)
    <3>1. \A n \in 0 .. m - 1 : f[n] = step(f, n)
      BY <2>1
    <3> QED
      BY <1>1, <3>1
  <2>3. upto(g, m)
    BY <2>2
  <2>4. m \in 0 .. N
    BY <1>1
  <2> HIDE DEF upto, g
  <2> QED
    BY <2>3, <2>4
<1> HIDE DEF G
<1>4. N \in G
  <2>1. \A m \in 1 .. N : m - 1 \in G => m \in G
    BY <1>3
  <2>2. \A m \in 0 .. N : m \in G
    BY <1>1, <1>2, <2>1, Induction
  <2> QED
    BY <1>1, <2>2
<1> DEFINE f == CHOOSE f : upto(f, N)
<1>5. upto(f, N)
  <2>1. \E g : upto(g, N)
    BY <1>4 DEF G
  <2> HIDE DEF upto
  <2> QED
    BY <2>1
<1>6. AllPushed(h, S, s) = f[N]
  BY DEF AllPushed
<1> HIDE DEF f
<1>7. f[0] = h
  BY <1>1, <1>5
<1>8. ASSUME NEW n \in 1 .. N
      PROVE  f[n] = IF n \in S THEN Pushed(f[n - 1], n, s) ELSE f[n - 1]
  BY <1>1, <1>5
<1> HIDE DEF upto
<1> DEFINE P(n) == /\ GoodHistory(f[n])
                   /\ \A x \in S : x <= n => Accounted(f[n], x, s)
                   /\ \A x \in Started : ~ (x \in S /\ x <= n) => Kept(h, f[n], x)
           Q == {n \in 0 .. N : P(n)}
<1>9. 0 \in Q
  <2>1. \A x \in S : ~ (x <= 0)
    BY <1>1
  <2>2. \A x \in Started : Kept(h, h, x)
    BY DEF Kept, RowKept
  <2>3. 0 \in 0 .. N
    BY <1>1
  <2> QED
    BY <1>7, <2>1, <2>2, <2>3
<1>10. ASSUME NEW n \in 1 .. N, n - 1 \in Q PROVE n \in Q
  <2> DEFINE a == f[n - 1]
  <2>1. P(n - 1) /\ n \in 0 .. N /\ n \in Started
    BY <1>1, <1>10
  <2>2. \A x \in Started : x <= n - 1 <=> x <= n /\ x # n
    BY <1>1
  <2>3. CASE n \notin S
    <3>1. f[n] = a
      BY <1>8, <2>3
    <3>2. \A x \in S : x <= n => x <= n - 1
      BY <2>2, <2>3
    <3>3. \A x \in Started : ~ (x \in S /\ x <= n) => ~ (x \in S /\ x <= n - 1)
      BY <2>2
    <3>4. P(n)
      BY <2>1, <3>1, <3>2, <3>3
    <3> QED
      BY <2>1, <3>4
  <2>4. CASE n \in S
    <3> DEFINE b == Pushed(a, n, s)
    <3>1. f[n] = b
      BY <1>8, <2>4
    <3>2. GoodHistory(a) /\ (\A x \in S : x <= n - 1 => Accounted(a, x, s))
          /\ (\A x \in Started : ~ (x \in S /\ x <= n - 1) => Kept(h, a, x))
      BY <2>1
    <3> HIDE DEF a
    <3>3. /\ GoodHistory(b) /\ Recorded(Rows(b, n), n, s)
          /\ \A x \in Started : x # n => Kept(a, b, x)
      BY <2>1, <3>2, PushedFacts
    <3> HIDE DEF b, P
    <3>4. ASSUME NEW x \in S, x <= n PROVE Accounted(b, x, s)
      <4>1. CASE x = n
        BY <3>3, <4>1 DEF Accounted
      <4>2. CASE x # n
        <5>1. Accounted(a, x, s) /\ Kept(a, b, x)
          BY <2>2, <3>2, <3>3, <3>4, <4>2
        <5>2. PushedOut(Rows(a, x), x, Peers(x)) => PushedOut(Rows(b, x), x, Peers(x))
          BY <5>1, StaysOut DEF Kept
        <5> QED
          BY <5>1, <5>2 DEF Accounted, Kept, RowKept
      <4> QED
        BY <4>1, <4>2
    <3>5. ASSUME NEW x \in Started, ~ (x \in S /\ x <= n) PROVE Kept(h, b, x)
      <4>1. x # n
        BY <1>1, <2>4, <3>5
      <4>2. Kept(h, a, x) /\ Kept(a, b, x)
        BY <2>2, <3>2, <3>3, <3>5, <4>1
      <4> QED
        BY <4>2, RowKeptTwice DEF Kept
    <3>6. P(n)
      BY <3>1, <3>3, <3>4, <3>5 DEF P
    <3> QED
      BY <2>1, <3>6
  <2> QED
    BY <2>3, <2>4
<1> HIDE DEF Q
<1>11. N \in Q
  <2>1. \A n \in 1 .. N : n - 1 \in Q => n \in Q
    BY <1>10
  <2>2. \A n \in 0 .. N : n \in Q
    BY <1>1, <1>9, <2>1, Induction
  <2> QED
    BY <1>1, <2>2
<1>12. P(N)
  BY <1>11 DEF Q
<1>13. \A x \in Started : x <= N
  BY <1>1
<1> QED
  BY <1>6, <1>12, <1>13

-----------------------------------------------------------------------------
(* Steps that start no job. *)

\* The jobs are the same; what became of them may change.
SameJobs ==
    /\ job' \in Seq(JobRecord) /\ Started' = Started
    /\ \A j \in Started : job'[j].kind = job[j].kind /\ job'[j].unit = job[j].unit

LEMMA SameJobsFacts ==
    ASSUME SameJobs
    PROVE  /\ \A k, u : Of(k, u)' = Of(k, u)
           /\ \A j \in Started : Peers(j)' = Peers(j)
           /\ \A h : GoodHistory(h) /\ history' = h => GoodHistory(history)'
<1>1. \A k, u : Of(k, u)' = Of(k, u)
  BY DEF SameJobs, Of
<1>2. \A j \in Started : Peers(j)' = Peers(j)
  BY <1>1 DEF SameJobs, Peers
<1>3. ASSUME NEW h, GoodHistory(h), history' = h PROVE GoodHistory(history)'
  BY <1>1, <1>3 DEF GoodHistory, GoodRows
<1> QED
  BY <1>1, <1>2, <1>3

\* No job runs that did not, and a manager's entry stays or is released.
Fewer ==
    /\ SameJobs
    /\ \A j \in Started : job'[j].status = "running" => /\ job[j].status = "running"
                                                        /\ job'[j].met = job[j].met
    /\ active' \in [Kinds -> [Units -> Nat]]
    /\ \A k \in Kinds, u \in Units : active'[k][u] \in {active[k][u], NoJob}

LEMMA Pairs == IsFiniteSet(Bench \X Units) /\ Bench \subseteq Kinds
<1>1. IsFiniteSet({"decode"}) /\ IsFiniteSet({"prefill"}) /\ IsFiniteSet({"quality"})
  BY FS_Singleton
<1>2. IsFiniteSet({"decode"} \union {"prefill"})
  BY <1>1, FS_Union
<1>3. IsFiniteSet(({"decode"} \union {"prefill"}) \union {"quality"})
  BY <1>1, <1>2, FS_Union
<1>4. Bench = ({"decode"} \union {"prefill"}) \union {"quality"}
  BY DEF Bench
<1>5. IsFiniteSet(Bench)
  BY <1>3, <1>4
<1> QED
  BY <1>5, FS_Product, BenchmarksAssumption DEF Kinds

ActivePairs == {p \in Bench \X Units : active[p[1]][p[2]] # NoJob}

LEMMA ActivePairsFacts ==
    /\ IsFiniteSet(ActivePairs) /\ ActiveCount = Cardinality(ActivePairs) /\ ActiveCount \in Nat
<1>1. ActivePairs \in SUBSET (Bench \X Units)
  BY DEF ActivePairs
<1>2. IsFiniteSet(ActivePairs)
  BY <1>1, Pairs, FS_Subset
<1> QED
  BY <1>2, FS_CardinalityType DEF ActiveCount, ActivePairs

LEMMA FewerKeeps ==
    ASSUME Typed, ActiveInv, CapInv, Exclusive, Fewer
    PROVE  ActiveInv' /\ CapInv' /\ Exclusive'
<1>1. /\ Started' = Started /\ \A k, u : Of(k, u)' = Of(k, u)
      /\ \A j \in Started : job'[j].kind = job[j].kind /\ job'[j].unit = job[j].unit
      /\ \A j \in Started : job[j].kind \in Kinds /\ job[j].unit \in Units /\ j # NoJob
  BY SameJobsFacts, JobFacts DEF Fewer, SameJobs, Typed, NoJob
<1>2. \A k \in Kinds, u \in Units : active'[k][u] # NoJob => active'[k][u] = active[k][u]
  BY DEF Fewer
<1>3. ActiveInv'
  BY <1>1, <1>2 DEF ActiveInv, Fewer
<1>4. CapInv'
  <2>1. ActivePairs' \in SUBSET ActivePairs
    BY <1>2, Pairs DEF ActivePairs
  <2>2. IsFiniteSet(ActivePairs) /\ ActiveCount = Cardinality(ActivePairs) /\ ActiveCount \in Nat
    BY ActivePairsFacts
  <2>3. Cardinality(ActivePairs') <= Cardinality(ActivePairs) /\ IsFiniteSet(ActivePairs')
    BY <2>1, <2>2, FS_Subset
  <2>4. ActiveCount' = Cardinality(ActivePairs') /\ Cardinality(ActivePairs') \in Nat
    BY <2>3, FS_CardinalityType DEF ActiveCount, ActivePairs
  <2> QED
    BY <2>2, <2>3, <2>4, BenchmarksAssumption DEF CapInv
<1>5. \A j \in Started : Listed(j)' => Listed(j)
  BY <1>1, <1>2 DEF Listed
<1>6. Exclusive'
  <2> SUFFICES ASSUME NEW j \in Started, NEW k \in Started, j < k, job'[j].unit = job'[k].unit,
                      {job'[j].status, job'[k].status} = {"running"}, Listed(j)', Listed(k)'
               PROVE  j \in job'[k].met /\ <<job'[j].kind, job'[k].kind>> \in Overlaps
    BY <1>1 DEF Exclusive, Overlaps
  <2>1. job'[j].status = "running" /\ job'[k].status = "running"
    OBVIOUS
  <2>2. job[j].status = "running" /\ job[k].status = "running" /\ job'[k].met = job[k].met
    BY <2>1 DEF Fewer
  <2>3. {job[j].status, job[k].status} = {"running"} /\ job[j].unit = job[k].unit
        /\ Listed(j) /\ Listed(k)
    BY <1>1, <1>5, <2>2
  <2>4. j \in job[k].met /\ <<job[j].kind, job[k].kind>> \in Overlaps
    BY <2>3 DEF Exclusive
  <2> QED
    BY <1>1, <2>2, <2>4
<1> QED
  BY <1>3, <1>4, <1>6

\* The steps that leave the state of the jobs and of their managers alone.
Quiet ==
    /\ SameJobs
    /\ \A j \in Started : /\ job'[j].status = job[j].status /\ job'[j].live = job[j].live
                          /\ job'[j].met = job[j].met
                          /\ job'[j].fatal => job[j].fatal \/ job[j].kind = "quality"
                          /\ job'[j].cleared => job[j].cleared \/ job[j].status # "running"
    /\ UNCHANGED <<active, stopping>>

LEMMA QuietKeeps ==
    ASSUME Typed, JobsInv, Quiet, RequestInv'
    PROVE  JobsInv'
<1>1. /\ Started' = Started /\ \A k, u : Of(k, u)' = Of(k, u)
      /\ \A j \in Started : job'[j].kind = job[j].kind /\ job'[j].unit = job[j].unit
      /\ \A j \in Started : job[j].kind \in Kinds /\ job[j].unit \in Units
  BY SameJobsFacts, JobFacts DEF Quiet, SameJobs, Typed
<1>2. Fewer
  BY DEF Fewer, Quiet, JobsInv, ActiveInv
<1>3. ActiveInv' /\ CapInv' /\ Exclusive'
  BY <1>2, FewerKeeps DEF JobsInv
<1>4. LiveInv'
  BY <1>1 DEF LiveInv, JobsInv, Quiet
<1>5. \A j \in Started : Listed(j)' <=> Listed(j)
  BY <1>1 DEF Listed, Quiet
<1>6. RunningIsListed'
  <2>1. ASSUME NEW u, NEW i \in Of("showcase", u) PROVE i \in Started
    BY DEF Of
  <2> QED
    BY <1>1, <1>5, <2>1 DEF RunningIsListed, JobsInv, Quiet
<1>7. BlockedOnlyByLoops'
  <2>1. \A k \in Kinds, u \in Units : active[k][u] # NoJob => active[k][u] \in Started
    BY DEF JobsInv, ActiveInv, Of
  <2> QED
    BY <1>1, <2>1 DEF BlockedOnlyByLoops, JobsInv, Quiet
<1> QED
  BY <1>3, <1>4, <1>6, <1>7 DEF JobsInv

LEMMA RequestsStay ==
    ASSUME Typed, JobsInv, Quiet, requests' = requests
    PROVE  RequestInv'
<1>1. /\ Started' = Started
      /\ \A j \in Started : job'[j].kind = job[j].kind /\ job'[j].unit = job[j].unit
                            /\ job'[j].status = job[j].status
      /\ \A j \in Started : Listed(j)' <=> Listed(j)
  BY DEF Quiet, SameJobs, Listed
<1> QED
  BY <1>1 DEF RequestInv, JobsInv

LEMMA UnchangedIsQuiet ==
    ASSUME Typed, UNCHANGED <<job, active, stopping>>
    PROVE  Quiet
BY DEF Typed, Quiet, SameJobs, Started

-----------------------------------------------------------------------------
(* Starting: what becomes of the jobs. *)

LEMMA RequestJobs ==
    ASSUME Typed, JobsInv, NEW k \in Bench, NEW u \in Units, Request(k, u)
    PROVE  JobsInv'
<1> DEFINE r == [kind |-> k, unit |-> u, met |-> {}]
<1>1. UNCHANGED <<job, active, stopping>> /\ requests' = requests \union {r} /\ RouteAllows(k, u)
  BY DEF Request
<1>2. Started' = Started /\ \A j \in Started : Listed(j)' <=> Listed(j)
  BY <1>1 DEF Started, Listed
<1>3. r \in [kind : Bench, unit : Units, met : SUBSET Started]
  OBVIOUS
<1>4. ASSUME NEW j \in Started, job[j].unit = u, job[j].kind # k, job[j].status = "running", Listed(j)
      PROVE  FALSE
  <2>1. job[j].kind \in Kinds \ {k} /\ j # NoJob
    BY <1>4, JobFacts DEF Typed, NoJob
  <2>2. HasActive(job[j].kind, u)
    BY <1>4, <2>1 DEF HasActive, Listed
  <2> QED
    BY <1>1, <2>1, <2>2 DEF RouteAllows
<1>5. IsFiniteSet(requests')
  BY <1>1, FS_AddElement DEF JobsInv, RequestInv
<1>6. requests' \subseteq [kind : Bench, unit : Units, met : SUBSET Started]
  BY <1>1, <1>3 DEF JobsInv, RequestInv
<1>7. ASSUME NEW q \in requests', NEW j \in Started, job[j].unit = q.unit, job[j].kind # q.kind,
             job[j].status = "running", Listed(j)
      PROVE  j \in q.met
  <2>1. CASE q \in requests
    BY <1>7, <2>1 DEF JobsInv, RequestInv
  <2>2. CASE q = r
    BY <1>4, <1>7, <2>2
  <2> QED
    BY <1>1, <2>1, <2>2
<1>8. RequestInv'
  BY <1>1, <1>2, <1>5, <1>6, <1>7 DEF RequestInv
<1> QED
  BY <1>1, <1>8, UnchangedIsQuiet, QuietKeeps

LEMMA RefusedJobs ==
    ASSUME Typed, JobsInv, NEW r \in requests, Refused(r)
    PROVE  JobsInv'
<1>1. UNCHANGED <<job, active, stopping>> /\ requests' = requests \ {r}
  BY DEF Refused
<1>2. Started' = Started /\ \A j \in Started : Listed(j)' <=> Listed(j)
  BY <1>1 DEF Started, Listed
<1>3. IsFiniteSet(requests')
  BY <1>1, FS_RemoveElement DEF JobsInv, RequestInv
<1>4. RequestInv'
  BY <1>1, <1>2, <1>3 DEF JobsInv, RequestInv
<1> QED
  BY <1>1, <1>4, UnchangedIsQuiet, QuietKeeps

\* What a job is begun with: the requests that go on waiting, the jobs it has met,
\* and what its manager has asked for.
Beginning(k, u, met, waiting) ==
    /\ k \in Kinds /\ u \in Units /\ met \subseteq Started /\ waiting \subseteq requests
    /\ MayStart(k, u) /\ (k \in Bench => BelowCap)
    /\ \A j \in Started : /\ job[j].unit = u /\ job[j].kind \in Kinds \ ({k} \union Asks(k))
                          /\ job[j].status = "running" /\ Listed(j)
                          => j \in met
    /\ Begin(k, u, met, waiting)

\* A new job, and the others as they were.
LEMMA BeginFacts ==
    ASSUME Typed, IsFiniteSet(requests), NEW k, NEW u, NEW met, NEW waiting,
           Beginning(k, u, met, waiting)
    PROVE  LET n == Len(job) + 1 IN
           /\ job' \in Seq(JobRecord) /\ Len(job') <= MaxJobs /\ n \in Nat \ {NoJob}
           /\ n \notin Started /\ Started' = Started \union {n} /\ Started = 1 .. n - 1
           /\ \A j \in Started : job'[j] = job[j]
           /\ job'[n] = NewJob(k, u, met)
           /\ \A kk, uu : Of(kk, uu)' = IF kk = k /\ uu = u THEN Of(kk, uu) \union {n} ELSE Of(kk, uu)
           /\ \A kk : Running(kk)' = IF kk = k THEN Running(kk) \union {n} ELSE Running(kk)
<1> DEFINE n == Len(job) + 1
           new == NewJob(k, u, met)
<1>1. job \in Seq(JobRecord) /\ Len(job) \in Nat /\ Started = 1 .. Len(job)
      /\ job' = Append(job, new) /\ k \in Kinds /\ u \in Units /\ met \subseteq Started
  BY JobFacts DEF Typed, Beginning, Begin
<1>2. new \in JobRecord /\ new.kind = k /\ new.unit = u /\ new.status = "running"
  BY <1>1 DEF JobRecord, NewJob, Statuses
<1> HIDE DEF new
<1>3. /\ job' \in Seq(JobRecord) /\ Len(job') = n /\ job'[n] = new
      /\ \A j \in 1 .. Len(job) : job'[j] = job[j]
  BY <1>1, <1>2
<1>4. n \in Nat \ {NoJob} /\ n \notin Started /\ Started = 1 .. n - 1
      /\ Started' = Started \union {n}
  <2>1. Started' = 1 .. n
    BY <1>3 DEF Started
  <2> QED
    BY <1>1, <2>1 DEF NoJob
<1>5. Len(job') <= MaxJobs
  <2>1. waiting \subseteq requests /\ Len(job) + Cardinality(waiting) < MaxJobs
    BY DEF Beginning, Begin
  <2>2. Cardinality(waiting) \in Nat
    BY <2>1, FS_Subset, FS_CardinalityType
  <2> QED
    BY <1>1, <1>3, <2>1, <2>2, BenchmarksAssumption
<1>6. ASSUME NEW kk, NEW uu
      PROVE  Of(kk, uu)' = IF kk = k /\ uu = u THEN Of(kk, uu) \union {n} ELSE Of(kk, uu)
  BY <1>1, <1>2, <1>3, <1>4 DEF Of
<1>7. ASSUME NEW kk
      PROVE  Running(kk)' = IF kk = k THEN Running(kk) \union {n} ELSE Running(kk)
  BY <1>1, <1>2, <1>3, <1>4 DEF Running
<1> QED
  BY <1>1, <1>3, <1>4, <1>5, <1>6, <1>7 DEF new

LEMMA BeginActive ==
    ASSUME Typed, JobsInv, NEW k, NEW u, NEW met, NEW waiting, Beginning(k, u, met, waiting)
    PROVE  LET n == Len(job) + 1 IN
           /\ active' \in [Kinds -> [Units -> Nat]] /\ active[k][u] = NoJob /\ active'[k][u] = n
           /\ \A kk \in Kinds, uu \in Units : kk # k \/ uu # u => active'[kk][uu] = active[kk][uu]
           /\ \A j \in Started : Listed(j)' <=> Listed(j)
           /\ \A j : j = n => Listed(j)'
<1> DEFINE n == Len(job) + 1
<1>1. active' = [active EXCEPT ![k][u] = n] /\ active[k][u] = NoJob /\ k \in Kinds /\ u \in Units
  BY DEF Beginning, Begin, MayStart
<1>2. /\ n \in Nat \ {NoJob} /\ n \notin Started
      /\ \A j \in Started : job'[j] = job[j]
      /\ job'[n] = NewJob(k, u, met)
  BY BeginFacts DEF JobsInv, RequestInv
<1> HIDE DEF n
<1>3. active \in [Kinds -> [Units -> Nat]]
  BY DEF JobsInv, ActiveInv
<1>4. active' \in [Kinds -> [Units -> Nat]] /\ active'[k][u] = n
  BY <1>1, <1>2, <1>3
<1>5. \A kk \in Kinds, uu \in Units : kk # k \/ uu # u => active'[kk][uu] = active[kk][uu]
  BY <1>1, <1>3
<1>6. ASSUME NEW j \in Started PROVE Listed(j)' <=> Listed(j)
  <2>1. job[j].kind \in Kinds /\ job[j].unit \in Units /\ j # NoJob
    BY JobFacts DEF Typed, NoJob
  <2>2. CASE job[j].kind = k /\ job[j].unit = u
    BY <1>1, <1>2, <1>4, <2>1, <2>2 DEF Listed
  <2>3. CASE ~ (job[j].kind = k /\ job[j].unit = u)
    BY <1>2, <1>5, <2>1, <2>3 DEF Listed
  <2> QED
    BY <2>2, <2>3
<1>7. ASSUME NEW j, j = n PROVE Listed(j)'
  <2>1. job'[n].kind = k /\ job'[n].unit = u
    BY <1>2 DEF NewJob
  <2> QED
    BY <1>4, <1>7, <2>1 DEF Listed
<1> QED
  BY <1>1, <1>4, <1>5, <1>6, <1>7 DEF n

LEMMA BeginCap ==
    ASSUME Typed, JobsInv, NEW k, NEW u, NEW met, NEW waiting, Beginning(k, u, met, waiting)
    PROVE  CapInv'
<1> DEFINE n == Len(job) + 1
<1>1. /\ active[k][u] = NoJob /\ active'[k][u] = n /\ n # NoJob /\ k \in Kinds /\ u \in Units
      /\ \A kk \in Kinds, uu \in Units : kk # k \/ uu # u => active'[kk][uu] = active[kk][uu]
  BY BeginActive, BeginFacts DEF JobsInv, RequestInv, Beginning
<1> HIDE DEF n
<1>2. IsFiniteSet(ActivePairs) /\ ActiveCount = Cardinality(ActivePairs) /\ ActiveCount \in Nat
  BY ActivePairsFacts
<1>3. CASE k \notin Bench
  <2>1. ActivePairs' = ActivePairs
    BY <1>1, <1>3, Pairs DEF ActivePairs
  <2> QED
    BY <1>2, <2>1 DEF JobsInv, CapInv, ActiveCount, ActivePairs
<1>4. CASE k \in Bench
  <2>1. ActivePairs' = ActivePairs \union {<<k, u>>} /\ <<k, u>> \notin ActivePairs
    BY <1>1, <1>4, Pairs DEF ActivePairs
  <2>2. Cardinality(ActivePairs') = Cardinality(ActivePairs) + 1
    BY <1>2, <2>1, FS_AddElement
  <2>3. ActiveCount < MaxActive
    BY <1>4 DEF Beginning, BelowCap
  <2>4. ActiveCount' = Cardinality(ActivePairs')
    BY DEF ActiveCount, ActivePairs
  <2> QED
    BY <1>2, <2>2, <2>3, <2>4, BenchmarksAssumption DEF CapInv
<1> QED
  BY <1>3, <1>4

LEMMA BeginExclusive ==
    ASSUME Typed, JobsInv, NEW k, NEW u, NEW met, NEW waiting, Beginning(k, u, met, waiting)
    PROVE  Exclusive'
<1> DEFINE n == Len(job) + 1
           new == NewJob(k, u, met)
<1>1. /\ n \in Nat /\ n \notin Started /\ Started' = Started \union {n} /\ Started = 1 .. n - 1
      /\ \A j \in Started : job'[j] = job[j]
      /\ job'[n] = new /\ active[k][u] = NoJob
      /\ \A j \in Started : Listed(j)' <=> Listed(j)
  BY BeginFacts, BeginActive DEF JobsInv, RequestInv
<1>2. new.kind = k /\ new.unit = u /\ new.met = met
  BY DEF NewJob
<1> HIDE DEF n, new
<1> SUFFICES ASSUME NEW i \in Started', NEW j \in Started', i < j, job'[i].unit = job'[j].unit,
                    {job'[i].status, job'[j].status} = {"running"}, Listed(i)', Listed(j)'
             PROVE  i \in job'[j].met /\ <<job'[i].kind, job'[j].kind>> \in Overlaps
  BY DEF Exclusive, Overlaps
<1>3. i \in Started
  BY <1>1
<1>4. CASE j \in Started
  <2>1. {job[i].status, job[j].status} = {"running"} /\ Listed(i) /\ Listed(j)
        /\ job[i].unit = job[j].unit
    BY <1>1, <1>3, <1>4
  <2>2. i \in job[j].met /\ <<job[i].kind, job[j].kind>> \in Overlaps
    BY <1>3, <1>4, <2>1 DEF JobsInv, Exclusive
  <2> QED
    BY <1>1, <1>3, <1>4, <2>2
<1>5. CASE j = n
  <2>1. job[i].status = "running" /\ Listed(i) /\ job[i].unit = u /\ i # NoJob
        /\ job[i].kind \in Kinds
    <3>1. job[i].kind \in Kinds /\ i # NoJob
      BY <1>3, JobFacts DEF Typed, NoJob
    <3>2. job[i].status = "running" /\ Listed(i) /\ job[i].unit = u
      BY <1>1, <1>2, <1>3, <1>5
    <3> QED
      BY <3>1, <3>2
  <2>2. job[i].kind # k
    BY <1>1, <2>1 DEF Listed
  <2>3. active[job[i].kind][u] = i
    BY <2>1 DEF Listed
  <2>4. HasActive(job[i].kind, u)
    BY <2>1, <2>3 DEF HasActive
  <2>5. job[i].kind \notin Asks(k)
    BY <2>4 DEF Beginning, MayStart
  <2>6. i \in met
    BY <1>3, <2>1, <2>2, <2>5 DEF Beginning
  <2>7. k \in Kinds
    BY DEF Beginning
  <2>8. <<job[i].kind, k>> \in Overlaps
    <3> DEFINE kind == job[i].kind
    <3> HIDE DEF kind
    <3>1. kind \in Kinds /\ k \in Kinds /\ kind # k /\ kind \notin Asks(k)
      BY <2>1, <2>2, <2>5, <2>7 DEF kind
    <3>2. <<kind, k>> \in Overlaps
      BY <3>1 DEF Overlaps, Asks, Kinds, Bench
    <3> QED
      BY <3>2 DEF kind
  <2> QED
    BY <1>1, <1>2, <1>3, <1>5, <2>6, <2>8
<1> QED
  BY <1>1, <1>4, <1>5

LEMMA BeginRequests ==
    ASSUME Typed, JobsInv, NEW k, NEW u, NEW met, NEW waiting, Beginning(k, u, met, waiting)
    PROVE  RequestInv'
<1> DEFINE n == Len(job) + 1
           told(r) == IF r.unit = u THEN [r EXCEPT !.met = @ \union {n}] ELSE r
           f == [r \in waiting |-> told(r)]
<1>1. /\ n \in Nat /\ n \notin Started /\ Started' = Started \union {n}
      /\ \A j \in Started : job'[j] = job[j]
      /\ job'[n].kind = k /\ job'[n].unit = u
      /\ \A j \in Started : Listed(j)' <=> Listed(j)
  <2>1. job'[n] = NewJob(k, u, met)
    BY BeginFacts DEF JobsInv, RequestInv
  <2>2. job'[n].kind = k /\ job'[n].unit = u
    BY <2>1 DEF NewJob
  <2> QED
    BY <2>2, BeginFacts, BeginActive DEF JobsInv, RequestInv
<1>2. requests' = {told(r) : r \in waiting} /\ waiting \subseteq requests
  BY DEF Beginning, Begin
<1>3. /\ requests \subseteq [kind : Bench, unit : Units, met : SUBSET Started]
      /\ IsFiniteSet(requests)
  BY DEF JobsInv, RequestInv
<1>4. IsFiniteSet(waiting)
  BY <1>2, <1>3, FS_Subset
<1> HIDE DEF n
<1>5. ASSUME NEW r \in waiting
      PROVE  /\ told(r) \in [kind : Bench, unit : Units, met : SUBSET (Started \union {n})]
             /\ told(r).kind = r.kind /\ told(r).unit = r.unit /\ r.met \subseteq told(r).met
             /\ r.unit = u => n \in told(r).met
  <2>1. r \in [kind : Bench, unit : Units, met : SUBSET Started]
    BY <1>2, <1>3
  <2>2. CASE r.unit = u
    <3>1. told(r) = [r EXCEPT !.met = @ \union {n}]
      BY <2>2
    <3> QED
      BY <2>1, <2>2, <3>1
  <2>3. CASE r.unit # u
    <3>1. told(r) = r
      BY <2>3
    <3> QED
      BY <2>1, <2>3, <3>1
  <2> QED
    BY <2>2, <2>3
<1> HIDE DEF told
<1>6. IsFiniteSet(requests')
  <2>1. f \in Surjection(waiting, requests')
    BY <1>2 DEF Surjection
  <2> QED
    BY <1>4, <2>1, FS_Surjection
<1>7. requests' \subseteq [kind : Bench, unit : Units, met : SUBSET Started']
  BY <1>1, <1>2, <1>5
<1>8. ASSUME NEW q \in requests', NEW j \in Started', job'[j].unit = q.unit,
             job'[j].kind # q.kind, job'[j].status = "running", Listed(j)'
      PROVE  j \in q.met
  <2>1. PICK r \in waiting : q = told(r)
    BY <1>2
  <2>2. q.kind = r.kind /\ q.unit = r.unit /\ r.met \subseteq q.met /\ (r.unit = u => n \in q.met)
    BY <1>5, <2>1
  <2>3. CASE j = n
    BY <1>1, <1>8, <2>2, <2>3
  <2>4. CASE j \in Started
    <3>1. /\ job[j].unit = r.unit /\ job[j].kind # r.kind /\ job[j].status = "running"
          /\ Listed(j) /\ r \in requests
      BY <1>1, <1>2, <1>8, <2>2, <2>4
    <3>2. j \in r.met
      BY <2>4, <3>1 DEF JobsInv, RequestInv
    <3> QED
      BY <2>2, <3>2
  <2> QED
    BY <1>1, <2>3, <2>4
<1> QED
  BY <1>6, <1>7, <1>8 DEF RequestInv

\* Another session of the Spark was cancelled: its loop may release this one.
Forerun(j) == \E i \in Of("showcase", job[j].unit) \ {j} : job[i].status = "cancelled"

LEMMA BeginJobs ==
    ASSUME Typed, JobsInv, NEW k, NEW u, NEW met, NEW waiting, Beginning(k, u, met, waiting)
    PROVE  JobsInv'
<1> DEFINE n == Len(job) + 1
           new == NewJob(k, u, met)
<1>1. /\ n \in Nat \ {NoJob} /\ n \notin Started /\ Started' = Started \union {n}
      /\ Started = 1 .. n - 1
      /\ \A j \in Started : job'[j] = job[j]
      /\ job'[n] = new
      /\ \A kk, uu : Of(kk, uu)' = IF kk = k /\ uu = u THEN Of(kk, uu) \union {n} ELSE Of(kk, uu)
  BY BeginFacts DEF JobsInv, RequestInv
<1>2. /\ active' \in [Kinds -> [Units -> Nat]] /\ active[k][u] = NoJob /\ active'[k][u] = n
      /\ \A kk \in Kinds, uu \in Units : kk # k \/ uu # u => active'[kk][uu] = active[kk][uu]
      /\ \A j \in Started : Listed(j)' <=> Listed(j)
      /\ \A j : j = n => Listed(j)'
  BY BeginActive
<1>3. /\ new.met = met /\ met \subseteq Started /\ new.live /\ ~new.cleared /\ ~new.fatal
      /\ new.status = "running"
      /\ stopping' = stopping
  BY DEF NewJob, Beginning, Begin
<1> HIDE DEF n, new
<1>4. LiveInv'
  BY <1>1, <1>3, ZenonT(30) DEF LiveInv, JobsInv
<1>5. ActiveInv'
  <2> SUFFICES ASSUME NEW kk \in Kinds, NEW uu \in Units, active'[kk][uu] # NoJob
               PROVE  active'[kk][uu] \in Of(kk, uu)'
    BY <1>2 DEF ActiveInv
  <2>1. CASE kk = k /\ uu = u
    BY <1>1, <1>2, <2>1
  <2>2. CASE ~ (kk = k /\ uu = u)
    <3>1. active'[kk][uu] = active[kk][uu]
      BY <1>2, <2>2
    <3> QED
      BY <1>1, <2>2, <3>1 DEF JobsInv, ActiveInv
  <2> QED
    BY <2>1, <2>2
<1>6. RunningIsListed'
  <2> SUFFICES ASSUME NEW j \in Started', job'[j].status = "running", ~ Listed(j)',
                      ~ (job'[j].kind = "decode" /\ stopping')
               PROVE  job'[j].kind = "showcase" /\ Forerun(j)'
    BY DEF RunningIsListed, Forerun
  <2>1. j \in Started /\ ~ Listed(j) /\ job'[j] = job[j]
    BY <1>1, <1>2
  <2>2. job[j].kind = "showcase"
    BY <1>3, <2>1 DEF JobsInv, RunningIsListed
  <2>3. PICK i \in Of("showcase", job[j].unit) \ {j} : job[i].status = "cancelled"
    BY <1>3, <2>1 DEF JobsInv, RunningIsListed
  <2>4. i \in Started
    BY <2>3 DEF Of
  <2>5. i \in Of("showcase", job[j].unit)' \ {j} /\ job'[i].status = "cancelled"
    BY <1>1, <2>1, <2>3, <2>4
  <2> QED
    BY <2>1, <2>2, <2>5 DEF Forerun
<1>7. BlockedOnlyByLoops'
  <2> SUFFICES ASSUME NEW kk \in Kinds, NEW uu \in Units, active'[kk][uu] # NoJob
               PROVE  job'[active'[kk][uu]].live
    BY DEF BlockedOnlyByLoops
  <2>1. CASE kk = k /\ uu = u
    BY <1>1, <1>2, <1>3, <2>1
  <2>2. CASE ~ (kk = k /\ uu = u)
    <3>1. active'[kk][uu] = active[kk][uu]
      BY <1>2, <2>2
    <3>2. active[kk][uu] \in Started
      BY <3>1 DEF JobsInv, ActiveInv, Of
    <3> QED
      BY <1>1, <3>1, <3>2 DEF JobsInv, BlockedOnlyByLoops
  <2> QED
    BY <2>1, <2>2
<1> QED
  BY <1>4, <1>5, <1>6, <1>7, BeginCap, BeginExclusive, BeginRequests DEF JobsInv

LEMMA RouteSeesAll ==
    ASSUME Typed, NEW k, NEW u, RouteAllows(k, u), NEW j \in Started, job[j].unit = u,
           job[j].kind # k, job[j].status = "running", Listed(j)
    PROVE  FALSE
<1>1. job[j].kind \in Kinds \ {k} /\ j # NoJob
  BY JobFacts DEF Typed, NoJob
<1>2. HasActive(job[j].kind, u)
  BY <1>1 DEF HasActive, Listed
<1> QED
  BY <1>1, <1>2 DEF RouteAllows

LEMMA AwaitedBegins ==
    ASSUME Typed, JobsInv, NEW r \in requests, StartAwaited(r)
    PROVE  Beginning(r.kind, r.unit, r.met, requests \ {r})
<1>1. r.kind \in Bench /\ r.unit \in Units /\ r.met \subseteq Started
  BY DEF JobsInv, RequestInv
<1>2. BelowCap /\ MayStart(r.kind, r.unit) /\ Begin(r.kind, r.unit, r.met, requests \ {r})
  BY DEF StartAwaited, StartJob
<1>3. \A j \in Started : /\ job[j].unit = r.unit /\ job[j].kind \in Kinds \ ({r.kind} \union Asks(r.kind))
                         /\ job[j].status = "running" /\ Listed(j)
                         => j \in r.met
  BY DEF JobsInv, RequestInv
<1> QED
  BY <1>1, <1>2, <1>3, Pairs DEF Beginning

LEMMA AtOnceBegins ==
    ASSUME Typed, NEW k \in Bench, NEW u \in Units, StartAtOnce(k, u)
    PROVE  Beginning(k, u, {}, requests)
<1>1. RouteAllows(k, u) /\ BelowCap /\ MayStart(k, u) /\ Begin(k, u, {}, requests)
  BY DEF StartAtOnce, StartJob
<1>2. \A j \in Started : /\ job[j].unit = u /\ job[j].kind \in Kinds \ ({k} \union Asks(k))
                         /\ job[j].status = "running" /\ Listed(j)
                         => j \in {}
  BY <1>1, RouteSeesAll
<1> QED
  BY <1>1, <1>2, Pairs DEF Beginning

LEMMA ShowcaseBegins ==
    ASSUME NEW u \in Units, StartShowcase(u)
    PROVE  Beginning("showcase", u, {}, requests)
<1>1. MayStart("showcase", u) /\ Begin("showcase", u, {}, requests)
  BY DEF StartShowcase
<1>2. Kinds \ ({"showcase"} \union Asks("showcase")) = {}
  BY DEF Kinds, Bench, Asks
<1>3. "showcase" \in Kinds /\ "showcase" \notin Bench
  BY DEF Kinds, Bench
<1> QED
  BY <1>1, <1>2, <1>3 DEF Beginning

-----------------------------------------------------------------------------
(* Ending: what becomes of the jobs. *)

\* One job's record is replaced.
LEMMA OneJob ==
    ASSUME Typed, NEW j \in Started, NEW r \in JobRecord, job' = [job EXCEPT ![j] = r],
           r.kind = job[j].kind, r.unit = job[j].unit
    PROVE  SameJobs /\ job'[j] = r /\ \A i \in Started : i # j => job'[i] = job[i]
<1>1. job \in Seq(JobRecord) /\ j \in 1 .. Len(job) /\ Started = 1 .. Len(job)
  BY JobFacts DEF Typed
<1>2. job' \in Seq(JobRecord) /\ Len(job') = Len(job)
  BY <1>1
<1>3. job'[j] = r /\ \A i \in Started : i # j => job'[i] = job[i]
  BY <1>1
<1>4. Started' = Started
  BY <1>1, <1>2 DEF Started
<1> QED
  BY <1>2, <1>3, <1>4 DEF SameJobs

LEMMA RequestsRemain ==
    ASSUME Typed, RequestInv, Fewer, requests' = requests
    PROVE  RequestInv'
<1>1. /\ Started' = Started
      /\ \A j \in Started : /\ job'[j].kind = job[j].kind /\ job'[j].unit = job[j].unit
                            /\ job'[j].status = "running" => job[j].status = "running"
                            /\ Listed(j)' => Listed(j)
  <2>1. Started' = Started
        /\ \A j \in Started : /\ job'[j].kind = job[j].kind /\ job'[j].unit = job[j].unit
                              /\ job'[j].status = "running" => job[j].status = "running"
    BY DEF Fewer, SameJobs
  <2>2. ASSUME NEW j \in Started, Listed(j)' PROVE Listed(j)
    <3>1. job[j].kind \in Kinds /\ job[j].unit \in Units /\ j # NoJob
      BY JobFacts DEF Typed, NoJob
    <3>2. active'[job[j].kind][job[j].unit] \in {active[job[j].kind][job[j].unit], NoJob}
      BY <3>1 DEF Fewer
    <3> QED
      BY <2>1, <2>2, <3>1, <3>2 DEF Listed
  <2> QED
    BY <2>1, <2>2
<1> QED
  BY <1>1 DEF RequestInv

LEMMA CancelJobs ==
    ASSUME Typed, JobsInv, NEW j \in Started, Cancel(j)
    PROVE  JobsInv'
<1>1. job[j] \in JobRecord /\ job[j].kind \in Kinds /\ job[j].unit \in Units /\ j # NoJob
  BY JobFacts DEF Typed, NoJob
<1>2. job[j].status = "running" /\ UNCHANGED <<requests, stopping>>
  BY DEF Cancel
<1>3. CASE job[j].kind # "showcase"
  <2> DEFINE r == [job[j] EXCEPT !.aborted = TRUE]
  <2>1. job' = [job EXCEPT ![j] = r] /\ active' = active
    BY <1>3 DEF Cancel, CancelJob
  <2>2. /\ r \in JobRecord /\ r.kind = job[j].kind /\ r.unit = job[j].unit /\ r.status = job[j].status
        /\ r.live = job[j].live /\ r.met = job[j].met /\ r.fatal = job[j].fatal
        /\ r.cleared = job[j].cleared
    BY <1>1 DEF JobRecord
  <2> HIDE DEF r
  <2>3. SameJobs /\ job'[j] = r /\ \A i \in Started : i # j => job'[i] = job[i]
    BY <2>1, <2>2, OneJob
  <2>4. Quiet
    BY <1>2, <2>1, <2>2, <2>3 DEF Quiet
  <2> QED
    BY <1>2, <2>4, RequestsStay, QuietKeeps
<1>4. CASE job[j].kind = "showcase"
  <2> DEFINE u == job[j].unit
             r == [job[j] EXCEPT !.aborted = TRUE, !.status = "cancelled"]
  <2>1. job' = [job EXCEPT ![j] = r] /\ active' = [active EXCEPT !["showcase"][u] = NoJob]
    BY <1>4 DEF Cancel, CancelShowcase
  <2>2. /\ r \in JobRecord /\ r.kind = "showcase" /\ r.unit = u /\ r.status = "cancelled"
        /\ r.live = job[j].live /\ r.met = job[j].met /\ r.fatal = job[j].fatal
    BY <1>1, <1>4 DEF JobRecord, Statuses, Ends
  <2> HIDE DEF r, u
  <2>3. SameJobs /\ job'[j] = r /\ \A i \in Started : i # j => job'[i] = job[i]
    BY <1>4, <2>1, <2>2, OneJob DEF u
  <2>4. u \in Units /\ "showcase" \in Kinds /\ "showcase" \notin Bench
    BY <1>1 DEF u, Kinds, Bench
  <2>5. /\ active' \in [Kinds -> [Units -> Nat]] /\ active'["showcase"][u] = NoJob
        /\ \A k \in Kinds, v \in Units : k # "showcase" \/ v # u => active'[k][v] = active[k][v]
    BY <2>1, <2>4 DEF JobsInv, ActiveInv, NoJob
  <2>6. Fewer
    BY <2>2, <2>3, <2>5 DEF Fewer
  <2>7. ActiveInv' /\ CapInv' /\ Exclusive'
    BY <2>6, FewerKeeps DEF JobsInv
  <2>8. RequestInv'
    BY <1>2, <2>6, RequestsRemain DEF JobsInv
  <2>9. Started' = Started /\ \A k, v : Of(k, v)' = Of(k, v)
    BY <2>3, SameJobsFacts DEF SameJobs
  <2>10. LiveInv'
    <3>1. LiveInv
      BY DEF JobsInv
    <3>2. /\ r.met \subseteq 1 .. j - 1 /\ (r.fatal => r.kind = "quality")
          /\ r.status # "running" /\ r.kind \notin Bench
      BY <1>4, <2>2, <2>4, <3>1 DEF LiveInv, u
    <3> QED
      BY <1>2, <2>2, <2>3, <2>9, <3>1, <3>2 DEF LiveInv
  <2>11. RunningIsListed'
    <3> SUFFICES ASSUME NEW i \in Started, job'[i].status = "running", ~ Listed(i)',
                        ~ (job'[i].kind = "decode" /\ stopping')
                 PROVE  job'[i].kind = "showcase" /\ Forerun(i)'
      BY <2>9 DEF RunningIsListed, Forerun
    <3>1. i # j /\ job'[i] = job[i] /\ job[i].kind \in Kinds /\ job[i].unit \in Units
      BY <2>2, <2>3, JobFacts DEF Typed
    <3>2. CASE job[i].kind = "showcase" /\ job[i].unit = u
      <4>1. j \in Of("showcase", job[i].unit)' \ {i} /\ job'[j].status = "cancelled"
        BY <1>4, <2>2, <2>3, <2>9, <3>1, <3>2 DEF Of, u
      <4> QED
        BY <3>1, <3>2, <4>1 DEF Forerun
    <3>3. CASE ~ (job[i].kind = "showcase" /\ job[i].unit = u)
      <4>1. ~ Listed(i)
        BY <2>5, <3>1, <3>3 DEF Listed
      <4>2. job[i].kind = "showcase" /\ Forerun(i)
        BY <1>2, <3>1, <4>1 DEF JobsInv, RunningIsListed, Forerun
      <4>3. PICK n \in Of("showcase", job[i].unit) \ {i} : job[n].status = "cancelled"
        BY <4>2 DEF Forerun
      <4>4. n \in Started /\ job'[n].status = "cancelled" /\ n \in Of("showcase", job[i].unit)'
        BY <2>2, <2>3, <2>9, <3>1, <4>3 DEF Of
      <4> QED
        BY <3>1, <4>2, <4>3, <4>4 DEF Forerun
    <3> QED
      BY <3>2, <3>3
  <2>12. BlockedOnlyByLoops'
    <3> SUFFICES ASSUME NEW k \in Kinds, NEW v \in Units, active'[k][v] # NoJob
                 PROVE  job'[active'[k][v]].live
      BY DEF BlockedOnlyByLoops
    <3>1. active'[k][v] = active[k][v] /\ active[k][v] \in Started
      BY <2>5 DEF JobsInv, ActiveInv, Of
    <3>2. job[active[k][v]].live
      BY <3>1 DEF JobsInv, BlockedOnlyByLoops
    <3> QED
      BY <2>2, <2>3, <3>1, <3>2
  <2> QED
    BY <2>7, <2>8, <2>10, <2>11, <2>12 DEF JobsInv
<1> QED
  BY <1>3, <1>4

LEMMA GivesUpJobs ==
    ASSUME Typed, JobsInv, NEW j \in Started, GivesUp(j)
    PROVE  JobsInv'
<1> DEFINE r == [job[j] EXCEPT !.aborted = TRUE, !.fatal = TRUE]
<1>1. /\ job' = [job EXCEPT ![j] = r] /\ job[j].kind = "quality"
      /\ UNCHANGED <<active, requests, stopping>>
  BY DEF GivesUp
<1>2. job[j] \in JobRecord
  BY JobFacts DEF Typed
<1>3. /\ r \in JobRecord /\ r.kind = job[j].kind /\ r.unit = job[j].unit /\ r.status = job[j].status
      /\ r.live = job[j].live /\ r.met = job[j].met /\ r.cleared = job[j].cleared
  BY <1>2 DEF JobRecord
<1> HIDE DEF r
<1>4. SameJobs /\ job'[j] = r /\ \A i \in Started : i # j => job'[i] = job[i]
  BY <1>1, <1>3, OneJob
<1>5. Quiet
  BY <1>1, <1>3, <1>4 DEF Quiet
<1> QED
  BY <1>1, <1>5, RequestsStay, QuietKeeps

LEMMA DeleteRunJobs ==
    ASSUME Typed, JobsInv, NEW j \in Started, DeleteRun(j)
    PROVE  JobsInv'
<1> DEFINE r == [job[j] EXCEPT !.cleared = TRUE]
<1>1. /\ job' = [job EXCEPT ![j] = r] /\ job[j].status # "running"
      /\ UNCHANGED <<active, requests, stopping>>
  BY DEF DeleteRun
<1>2. job[j] \in JobRecord
  BY JobFacts DEF Typed
<1>3. /\ r \in JobRecord /\ r.kind = job[j].kind /\ r.unit = job[j].unit /\ r.status = job[j].status
      /\ r.live = job[j].live /\ r.met = job[j].met /\ r.fatal = job[j].fatal
  BY <1>2 DEF JobRecord
<1> HIDE DEF r
<1>4. SameJobs /\ job'[j] = r /\ \A i \in Started : i # j => job'[i] = job[i]
  BY <1>1, <1>3, OneJob
<1>5. Quiet
  BY <1>1, <1>3, <1>4 DEF Quiet
<1> QED
  BY <1>1, <1>5, RequestsStay, QuietKeeps

\* Every job's record is replaced.
LEMMA AllJobs ==
    ASSUME Typed, NEW f, \A j \in Started : /\ f[j] \in JobRecord /\ f[j].kind = job[j].kind
                                            /\ f[j].unit = job[j].unit,
           job' = [j \in Started |-> f[j]]
    PROVE  SameJobs /\ \A j \in Started : job'[j] = f[j]
<1>1. job \in Seq(JobRecord) /\ Len(job) \in Nat /\ Started = 1 .. Len(job)
  BY JobFacts DEF Typed
<1>2. job' = [j \in 1 .. Len(job) |-> f[j]] /\ \A j \in 1 .. Len(job) : f[j] \in JobRecord
  BY <1>1
<1>3. job' \in Seq(JobRecord) /\ \A j \in Started : job'[j] = f[j]
  BY <1>1, <1>2
<1>4. Started' = Started
  BY DEF Started
<1> QED
  BY <1>3, <1>4 DEF SameJobs

LEMMA ClearJobs ==
    ASSUME Typed, JobsInv, NEW k \in Kinds, NEW u \in Units, Clear(k, u)
    PROVE  /\ JobsInv' /\ SameJobs
           /\ \A j \in Started : job'[j] = IF j \in Of(k, u) \ Running(k)
                                           THEN [job[j] EXCEPT !.cleared = TRUE] ELSE job[j]
<1> DEFINE new(j) == IF j \in Of(k, u) \ Running(k) THEN [job[j] EXCEPT !.cleared = TRUE] ELSE job[j]
           f == [j \in Started |-> new(j)]
<1>1. job' = [j \in Started |-> new(j)] /\ UNCHANGED <<active, requests, stopping>>
  BY DEF Clear
<1>2. ASSUME NEW j \in Started
      PROVE  /\ new(j) \in JobRecord /\ new(j).kind = job[j].kind /\ new(j).unit = job[j].unit
             /\ new(j).status = job[j].status /\ new(j).live = job[j].live
             /\ new(j).met = job[j].met /\ new(j).fatal = job[j].fatal
             /\ new(j).cleared => job[j].cleared \/ job[j].status # "running"
  <2>1. job[j] \in JobRecord
    BY JobFacts DEF Typed
  <2>2. CASE j \in Of(k, u) \ Running(k)
    <3> DEFINE e == [job[j] EXCEPT !.cleared = TRUE]
    <3>1. new(j) = e
      BY <2>2
    <3>2. job[j].status # "running"
      BY <2>2 DEF Of, Running
    <3>3. /\ e \in JobRecord /\ e.kind = job[j].kind /\ e.unit = job[j].unit
          /\ e.status = job[j].status /\ e.live = job[j].live
          /\ e.met = job[j].met /\ e.fatal = job[j].fatal
      BY <2>1 DEF JobRecord
    <3> HIDE DEF new, e
    <3> QED
      BY <3>1, <3>2, <3>3
  <2>3. CASE ~ (j \in Of(k, u) \ Running(k))
    <3>1. new(j) = job[j]
      BY <2>3
    <3> HIDE DEF new
    <3> QED
      BY <2>1, <3>1
  <2> QED
    BY <2>2, <2>3
<1>3. job' = [j \in Started |-> f[j]] /\ \A j \in Started : f[j] = new(j)
  BY <1>1
<1> HIDE DEF new, f
<1>4. SameJobs /\ \A j \in Started : job'[j] = new(j)
  BY <1>2, <1>3, AllJobs
<1>5. Quiet
  BY <1>1, <1>2, <1>4 DEF Quiet
<1>6. JobsInv'
  BY <1>1, <1>5, RequestsStay, QuietKeeps
<1> QED
  BY <1>4, <1>6 DEF new

LEMMA ResultFacts ==
    ASSUME Typed, LiveInv, NEW j \in Started, job[j].live, NEW s \in Result(j)
    PROVE  /\ s \in Ends
           /\ job[j].status # "running" /\ job[j].kind # "quality" => s = job[j].status
<1>1. job[j].kind \in Kinds /\ (job[j].fatal => job[j].kind = "quality")
  BY JobFacts DEF Typed, LiveInv
<1>2. job[j].status # "running" => job[j].status \in Ends
  BY DEF LiveInv, Ends
<1>3. CASE job[j].fatal
  BY <1>1, <1>3 DEF Result, Ends
<1>4. CASE ~ job[j].fatal /\ job[j].status = "running"
  <2>1. s \in {"cancelled", "completed"}
    BY <1>4 DEF Result
  <2> QED
    BY <1>4, <2>1 DEF Ends
<1>5. CASE ~ job[j].fatal /\ job[j].status # "running"
  <2>1. s \in {job[j].status} \union (IF job[j].kind = "quality" THEN {"cancelled"} ELSE {})
    BY <1>5 DEF Result
  <2>2. s = job[j].status \/ (job[j].kind = "quality" /\ s = "cancelled")
    BY <2>1
  <2> QED
    BY <1>2, <1>5, <2>2 DEF Ends
<1> QED
  BY <1>3, <1>4, <1>5

\* A job whose loop has ended with status s.
Settled(j, s) == [job[j] EXCEPT !.status = s, !.live = FALSE, !.aborted = FALSE,
                                !.fatal = FALSE, !.met = {}, !.cleared = FALSE]

LEMMA SettledFacts ==
    ASSUME Typed, LiveInv, NEW j \in Started, job[j].live, NEW s \in Result(j),
           job' = [job EXCEPT ![j] = Settled(j, s)]
    PROVE  /\ SameJobs /\ job'[j] = Settled(j, s)
           /\ \A i \in Started : i # j => job'[i] = job[i]
           /\ job'[j].status = s /\ ~job'[j].live /\ ~job'[j].fatal /\ job'[j].met = {}
           /\ ~job'[j].cleared /\ s \in Ends /\ s # "running"
<1>1. job[j] \in JobRecord /\ s \in Ends
  BY JobFacts, ResultFacts DEF Typed
<1>2. LET r == Settled(j, s) IN
      /\ r \in JobRecord /\ r.kind = job[j].kind /\ r.unit = job[j].unit
      /\ r.status = s /\ ~r.live /\ ~r.fatal /\ r.met = {} /\ ~r.cleared
  BY <1>1 DEF JobRecord, Settled, Statuses
<1>3. s # "running"
  BY <1>1 DEF Ends
<1> DEFINE r == Settled(j, s)
<1>4. /\ r \in JobRecord /\ r.kind = job[j].kind /\ r.unit = job[j].unit
      /\ r.status = s /\ ~r.live /\ ~r.fatal /\ r.met = {} /\ ~r.cleared
      /\ job' = [job EXCEPT ![j] = r]
  BY <1>2
<1> HIDE DEF r
<1>5. SameJobs /\ job'[j] = r /\ \A i \in Started : i # j => job'[i] = job[i]
  BY <1>4, OneJob, ZenonT(30)
<1> QED
  BY <1>1, <1>3, <1>4, <1>5 DEF r

LEMMA SettleRequests ==
    ASSUME Typed, RequestInv, Fewer, NEW j \in Started, job'[j].status # "running",
           requests' = {[r EXCEPT !.met = @ \ {j}] : r \in requests}
    PROVE  RequestInv'
<1> DEFINE told(r) == [r EXCEPT !.met = @ \ {j}]
           f == [r \in requests |-> told(r)]
<1>1. /\ requests \subseteq [kind : Bench, unit : Units, met : SUBSET Started]
      /\ IsFiniteSet(requests)
  BY DEF RequestInv
<1>2. ASSUME NEW r \in requests
      PROVE  /\ told(r) \in [kind : Bench, unit : Units, met : SUBSET Started]
             /\ told(r).kind = r.kind /\ told(r).unit = r.unit /\ r.met \ {j} \subseteq told(r).met
  <2>1. r \in [kind : Bench, unit : Units, met : SUBSET Started]
    BY <1>1
  <2> DEFINE m == r.met \ {j}
  <2>2. m \in SUBSET Started /\ told(r) = [r EXCEPT !.met = m]
    BY <2>1
  <2> HIDE DEF m, told
  <2>3. /\ told(r) \in [kind : Bench, unit : Units, met : SUBSET Started]
        /\ told(r).kind = r.kind /\ told(r).unit = r.unit /\ told(r).met = m
    BY <2>1, <2>2
  <2> QED
    BY <2>3 DEF m
<1>3. requests' = {told(r) : r \in requests}
  OBVIOUS
<1> HIDE DEF told
<1>4. /\ Started' = Started
      /\ \A i \in Started : /\ job'[i].kind = job[i].kind /\ job'[i].unit = job[i].unit
                            /\ job'[i].status = "running" => job[i].status = "running"
  BY DEF Fewer, SameJobs
<1>5. ASSUME NEW i \in Started, Listed(i)' PROVE Listed(i)
  <2>1. job[i].kind \in Kinds /\ job[i].unit \in Units /\ i # NoJob
    BY JobFacts DEF Typed, NoJob
  <2>2. active'[job[i].kind][job[i].unit] \in {active[job[i].kind][job[i].unit], NoJob}
    BY <2>1 DEF Fewer
  <2> QED
    BY <1>4, <1>5, <2>1, <2>2 DEF Listed
<1>6. IsFiniteSet(requests')
  <2>1. f \in Surjection(requests, requests')
    BY <1>3 DEF Surjection
  <2> QED
    BY <1>1, <2>1, FS_Surjection
<1>7. requests' \subseteq [kind : Bench, unit : Units, met : SUBSET Started']
  BY <1>2, <1>3, <1>4
<1>8. ASSUME NEW q \in requests', NEW i \in Started, job'[i].unit = q.unit,
             job'[i].kind # q.kind, job'[i].status = "running", Listed(i)'
      PROVE  i \in q.met
  <2>1. PICK r \in requests : q = told(r)
    BY <1>3
  <2>2. i \in r.met /\ i # j
    BY <1>2, <1>4, <1>5, <1>8, <2>1 DEF RequestInv
  <2> QED
    BY <1>2, <2>1, <2>2
<1> QED
  BY <1>4, <1>6, <1>7, <1>8 DEF RequestInv

LEMMA SettleJobs ==
    ASSUME Typed, JobsInv, NEW j \in Started, Settle(j)
    PROVE  JobsInv'
<1> DEFINE k == job[j].kind
           u == job[j].unit
<1>1. PICK s \in Result(j) : job' = [job EXCEPT ![j] = Settled(j, s)]
  BY DEF Settle, Settled
<1>2. LiveInv /\ job[j].live /\ stopping' = stopping
  BY DEF JobsInv, Settle
<1>3. /\ SameJobs /\ \A i \in Started : i # j => job'[i] = job[i]
      /\ job'[j].status = s /\ ~job'[j].live /\ ~job'[j].fatal /\ job'[j].met = {} /\ s # "running"
  BY <1>1, <1>2, SettledFacts
<1>4. k \in Kinds /\ u \in Units /\ \A i \in Started : job[i].kind \in Kinds /\ job[i].unit \in Units
                                                        /\ i # NoJob
  BY JobFacts DEF Typed, NoJob
<1>5. Started' = Started /\ \A kk, v : Of(kk, v)' = Of(kk, v)
  BY <1>3, SameJobsFacts DEF SameJobs
<1> HIDE DEF k, u
<1>6. /\ active' = IF Releases(j) THEN [active EXCEPT ![k][u] = NoJob] ELSE active
      /\ requests' = {[r EXCEPT !.met = @ \ {j}] : r \in requests}
  BY DEF Settle, k, u
<1>7. /\ active' \in [Kinds -> [Units -> Nat]]
      /\ Releases(j) => active'[k][u] = NoJob
      /\ ~ Releases(j) => active'[k][u] = active[k][u]
      /\ \A kk \in Kinds, v \in Units : kk # k \/ v # u => active'[kk][v] = active[kk][v]
  BY <1>4, <1>6 DEF JobsInv, ActiveInv, NoJob
<1>8. Fewer
  BY <1>3, <1>7 DEF Fewer
<1>9. ActiveInv' /\ CapInv' /\ Exclusive'
  BY <1>8, FewerKeeps DEF JobsInv
<1>10. RequestInv'
  BY <1>3, <1>6, <1>8, SettleRequests DEF JobsInv
<1>11. LiveInv'
  <2>1. \A i \in Started : job'[i].kind = job[i].kind
    BY <1>3 DEF SameJobs
  <2> QED
    BY <1>2, <1>3, <1>5, <2>1 DEF LiveInv
<1>12. RunningIsListed'
  <2> SUFFICES ASSUME NEW i \in Started, job'[i].status = "running", ~ Listed(i)',
                      ~ (job'[i].kind = "decode" /\ stopping')
               PROVE  job'[i].kind = "showcase" /\ Forerun(i)'
    BY <1>5 DEF RunningIsListed, Forerun
  <2>1. i # j /\ job'[i] = job[i]
    BY <1>3
  <2>2. CASE Listed(i)
    <3>1. job[i].kind = k /\ job[i].unit = u /\ Releases(j) /\ active[k][u] = i
      BY <1>4, <1>7, <2>1, <2>2 DEF Listed
    <3>2. k \in {"decode", "showcase"} /\ ~ Listed(j)
      BY <2>1, <3>1 DEF Releases, k, u, Listed
    <3>3. CASE k = "decode"
      <4>1. stopping
        <5>1. CASE job[j].status = "running"
          BY <3>2, <3>3, <5>1 DEF JobsInv, RunningIsListed, k
        <5>2. CASE job[j].status # "running"
          <6>1. k \in Bench
            BY <3>3 DEF Bench
          <6> QED
            BY <1>2, <5>2, <6>1 DEF LiveInv, k
        <5> QED
          BY <5>1, <5>2
      <4> QED
        BY <1>2, <2>1, <3>1, <3>3, <4>1
    <3>4. CASE k = "showcase"
      <4>1. k \notin Bench
        BY <3>4 DEF Bench
      <4>2. CASE job[j].status = "running"
        <5>1. Forerun(j)
          BY <3>2, <3>4, <4>2 DEF JobsInv, RunningIsListed, k, Forerun
        <5>2. PICK n \in Of("showcase", u) \ {j} : job[n].status = "cancelled"
          BY <5>1 DEF Forerun, u
        <5>3. n \in Started /\ n # i /\ job'[n].status = "cancelled"
          BY <1>3, <2>1, <5>2 DEF Of
        <5> QED
          BY <1>5, <2>1, <3>1, <3>4, <5>2, <5>3 DEF Forerun
      <4>3. CASE job[j].status # "running"
        <5>1. job[j].status = "cancelled"
          BY <1>2, <4>1, <4>3 DEF LiveInv, k
        <5>2. s = "cancelled"
          BY <1>2, <3>4, <4>3, <5>1, ResultFacts DEF k
        <5>3. j \in Of("showcase", u) \ {i}
          BY <2>1, <3>4 DEF Of, k, u
        <5> QED
          BY <1>3, <1>5, <2>1, <3>1, <3>4, <5>2, <5>3 DEF Forerun
      <4> QED
        BY <4>2, <4>3
    <3> QED
      BY <3>2, <3>3, <3>4
  <2>3. CASE ~ Listed(i)
    <3>1. job[i].kind = "showcase" /\ Forerun(i)
      BY <1>2, <2>1, <2>3 DEF JobsInv, RunningIsListed, Forerun
    <3>2. PICK n \in Of("showcase", job[i].unit) \ {i} : job[n].status = "cancelled"
      BY <3>1 DEF Forerun
    <3>3. n \in Started /\ job[n].kind = "showcase"
      BY <3>2 DEF Of
    <3>4. job'[n].status = "cancelled"
      <4>1. CASE n # j
        BY <1>3, <3>2, <3>3, <4>1
      <4>2. CASE n = j
        <5>1. s = "cancelled"
          BY <1>2, <3>2, <3>3, <4>2, ResultFacts
        <5> QED
          BY <1>3, <4>2, <5>1
      <4> QED
        BY <4>1, <4>2
    <3> QED
      BY <1>5, <2>1, <3>1, <3>2, <3>4 DEF Forerun
  <2> QED
    BY <2>2, <2>3
<1>13. BlockedOnlyByLoops'
  <2> SUFFICES ASSUME NEW kk \in Kinds, NEW v \in Units, active'[kk][v] # NoJob
               PROVE  job'[active'[kk][v]].live
    BY DEF BlockedOnlyByLoops
  <2> DEFINE n == active[kk][v]
  <2>1. active'[kk][v] = n
    BY <1>8 DEF Fewer
  <2>2. n \in Of(kk, v) /\ job[n].live
    BY <2>1 DEF JobsInv, ActiveInv, BlockedOnlyByLoops
  <2>3. n \in Started /\ job[n].kind = kk /\ job[n].unit = v
    BY <2>2 DEF Of
  <2>4. n # j
    <3> SUFFICES ASSUME n = j PROVE FALSE
      OBVIOUS
    <3>1. kk = k /\ v = u
      BY <2>3 DEF k, u
    <3>2. Releases(j)
      BY <3>1 DEF Releases, k, u
    <3> QED
      BY <1>7, <3>1, <3>2
  <2> HIDE DEF n
  <2> QED
    BY <1>3, <2>1, <2>2, <2>3, <2>4
<1> QED
  BY <1>9, <1>10, <1>11, <1>12, <1>13 DEF JobsInv

\* The benchmarks a shutdown ends.
Cut == UNION {Running(k) : k \in Bench}

LEMMA CutFacts ==
    /\ Cut = {j \in Started : job[j].kind \in Bench /\ job[j].status = "running"}
    /\ Cut \in SUBSET Started
BY DEF Cut, Running

LEMMA InterruptFacts ==
    ASSUME Typed, Interrupt
    PROVE  /\ SameJobs /\ stopping' = TRUE /\ requests' = requests /\ writer' = Superseded
           /\ file' = [k \in Bench |-> {}] /\ history' = AllPushed(history, Cut, "failed")
           /\ active' = [k \in Kinds |->
                           [u \in Units |-> IF active[k][u] \in Cut THEN NoJob ELSE active[k][u]]]
           /\ \A j \in Started \ Cut : job'[j] = job[j]
           /\ \A j \in Cut : /\ job'[j].status = "failed" /\ job'[j].live = job[j].live
                             /\ job'[j].met = job[j].met /\ job'[j].fatal = job[j].fatal
                             /\ job'[j].cleared = job[j].cleared
                             /\ job'[j].excused = job[j].excused
<1> DEFINE new(j) == IF j \in Cut THEN [job[j] EXCEPT !.status = "failed", !.aborted = TRUE] ELSE job[j]
           f == [j \in Started |-> new(j)]
<1>1. /\ stopping' = TRUE /\ requests' = requests /\ writer' = Superseded
      /\ file' = [k \in Bench |-> {}] /\ history' = AllPushed(history, Cut, "failed")
      /\ active' = [k \in Kinds |->
                      [u \in Units |-> IF active[k][u] \in Cut THEN NoJob ELSE active[k][u]]]
      /\ job' = [j \in Started |-> new(j)]
  BY DEF Interrupt, Cut
<1>2. ASSUME NEW j \in Started
      PROVE  /\ new(j) \in JobRecord /\ new(j).kind = job[j].kind /\ new(j).unit = job[j].unit
             /\ j \in Cut => /\ new(j).status = "failed" /\ new(j).live = job[j].live
                             /\ new(j).met = job[j].met /\ new(j).fatal = job[j].fatal
                             /\ new(j).cleared = job[j].cleared
                             /\ new(j).excused = job[j].excused
             /\ j \notin Cut => new(j) = job[j]
  <2>1. job[j] \in JobRecord
    BY JobFacts DEF Typed
  <2>2. CASE j \in Cut
    <3> DEFINE e == [job[j] EXCEPT !.status = "failed", !.aborted = TRUE]
    <3>1. new(j) = e
      BY <2>2
    <3>2. /\ e \in JobRecord /\ e.kind = job[j].kind /\ e.unit = job[j].unit
          /\ e.status = "failed" /\ e.live = job[j].live /\ e.met = job[j].met
          /\ e.fatal = job[j].fatal /\ e.cleared = job[j].cleared /\ e.excused = job[j].excused
      BY <2>1 DEF JobRecord, Statuses, Ends
    <3> HIDE DEF new, e
    <3> QED
      BY <2>2, <3>1, <3>2
  <2>3. CASE j \notin Cut
    <3>1. new(j) = job[j]
      BY <2>3
    <3> HIDE DEF new
    <3> QED
      BY <2>1, <2>3, <3>1
  <2> QED
    BY <2>2, <2>3
<1>3. job' = [j \in Started |-> f[j]] /\ \A j \in Started : f[j] = new(j)
  BY <1>1
<1> HIDE DEF new, f
<1>4. SameJobs /\ \A j \in Started : job'[j] = new(j)
  BY <1>2, <1>3, AllJobs
<1>5. \A j \in Cut : j \in Started
  BY CutFacts
<1> QED
  BY <1>1, <1>2, <1>4, <1>5

LEMMA InterruptJobs ==
    ASSUME Typed, JobsInv, Interrupt
    PROVE  JobsInv'
<1>1. /\ SameJobs /\ stopping' = TRUE /\ requests' = requests
      /\ active' = [k \in Kinds |->
                      [u \in Units |-> IF active[k][u] \in Cut THEN NoJob ELSE active[k][u]]]
      /\ \A j \in Started \ Cut : job'[j] = job[j]
      /\ \A j \in Cut : /\ job'[j].status = "failed" /\ job'[j].live = job[j].live
                        /\ job'[j].met = job[j].met /\ job'[j].fatal = job[j].fatal
  BY InterruptFacts
<1>2. Started' = Started /\ (\A k, v : Of(k, v)' = Of(k, v))
      /\ \A j \in Started : job'[j].kind = job[j].kind /\ job'[j].unit = job[j].unit
  BY <1>1, SameJobsFacts DEF SameJobs
<1>3. \A j \in Started : j \in Cut <=> job[j].kind \in Bench /\ job[j].status = "running"
  BY CutFacts
<1>4. /\ active' \in [Kinds -> [Units -> Nat]]
      /\ \A k \in Kinds, u \in Units : active'[k][u] = IF active[k][u] \in Cut THEN NoJob ELSE active[k][u]
  BY <1>1 DEF JobsInv, ActiveInv, NoJob
<1>5. Fewer
  <2>1. ASSUME NEW j \in Started, job'[j].status = "running"
        PROVE  job[j].status = "running" /\ job'[j].met = job[j].met
    BY <1>1, <2>1
  <2> QED
    BY <1>1, <1>4, <2>1 DEF Fewer
<1>6. ActiveInv' /\ CapInv' /\ Exclusive'
  BY <1>5, FewerKeeps DEF JobsInv
<1>7. RequestInv'
  BY <1>1, <1>5, RequestsRemain DEF JobsInv
<1>8. LiveInv'
  <2> SUFFICES ASSUME NEW j \in Started
               PROVE  /\ job'[j].met \subseteq 1 .. j - 1
                      /\ job'[j].status = "running" => job'[j].live /\ ~job'[j].cleared
                      /\ job'[j].live /\ job'[j].status # "running" =>
                           IF job'[j].kind \in Bench THEN stopping' /\ job'[j].status \in Ends
                                                     ELSE job'[j].status = "cancelled"
                      /\ job'[j].fatal => job'[j].kind = "quality"
    BY <1>2 DEF LiveInv
  <2>1. LiveInv
    BY DEF JobsInv
  <2>2. CASE j \in Cut
    <3>1. job'[j].kind \in Bench /\ job'[j].status = "failed" /\ job'[j].status \in Ends
          /\ job'[j].status # "running"
      BY <1>1, <1>2, <1>3, <2>2 DEF Ends
    <3>2. job'[j].met \subseteq 1 .. j - 1 /\ (job'[j].fatal => job'[j].kind = "quality")
      BY <1>1, <1>2, <2>1, <2>2 DEF LiveInv
    <3> QED
      BY <1>1, <3>1, <3>2
  <2>3. CASE j \notin Cut
    BY <1>1, <2>1, <2>3 DEF LiveInv
  <2> QED
    BY <2>2, <2>3
<1>9. RunningIsListed'
  <2> SUFFICES ASSUME NEW i \in Started, job'[i].status = "running", ~ Listed(i)'
               PROVE  job'[i].kind = "showcase" /\ Forerun(i)'
    BY <1>2 DEF RunningIsListed, Forerun
  <2>1. i \notin Cut /\ job'[i] = job[i]
    BY <1>1
  <2>2. job[i].kind \in Kinds /\ job[i].unit \in Units
    BY JobFacts DEF Typed
  <2>3. job[i].kind = "showcase" /\ job[i].kind \notin Bench
    BY <1>3, <2>1, <2>2 DEF Kinds, Bench
  <2>4. ~ Listed(i)
    <3>1. CASE active[job[i].kind][job[i].unit] \in Cut
      BY <2>1, <3>1 DEF Listed
    <3>2. CASE ~ (active[job[i].kind][job[i].unit] \in Cut)
      BY <1>4, <2>1, <2>2, <3>2 DEF Listed
    <3> QED
      BY <3>1, <3>2
  <2>5. Forerun(i)
    BY <2>1, <2>3, <2>4 DEF JobsInv, RunningIsListed, Forerun
  <2>6. PICK n \in Of("showcase", job[i].unit) \ {i} : job[n].status = "cancelled"
    BY <2>5 DEF Forerun
  <2>7. n \in Started /\ n \notin Cut
    BY <1>3, <2>6 DEF Of
  <2> QED
    BY <1>1, <1>2, <2>1, <2>3, <2>6, <2>7 DEF Forerun
<1>10. BlockedOnlyByLoops'
  <2> SUFFICES ASSUME NEW k \in Kinds, NEW v \in Units, active'[k][v] # NoJob
               PROVE  job'[active'[k][v]].live
    BY DEF BlockedOnlyByLoops
  <2>1. active'[k][v] = active[k][v] /\ active[k][v] \in Started
    BY <1>4 DEF JobsInv, ActiveInv, Of
  <2>2. job[active[k][v]].live
    BY <2>1 DEF JobsInv, BlockedOnlyByLoops
  <2> QED
    BY <1>1, <2>1, <2>2
<1> QED
  BY <1>6, <1>7, <1>8, <1>9, <1>10 DEF JobsInv

-----------------------------------------------------------------------------
(* The end of the process. *)

\* What it finds on the disk is its history, if not with the row of one job more.
OnDisk(h) == GoodHistory(h) /\ \A j \in Started : HasRow(h, j) \/ Kept(history, h, j)

LEMMA StatusAfterFacts ==
    ASSUME Typed, NEW h, GoodHistory(h), NEW j \in Started
    PROVE  /\ StatusAfter(h, j) \in Ends \union {"lost"}
           /\ HasRow(h, j) => Recorded(Rows(h, j), j, StatusAfter(h, j)) /\ j \notin Recovered(h)
<1>1. job[j].kind \in Kinds /\ job[j].unit \in Units /\ job[j].status \in Statuses
  BY JobFacts DEF Typed
<1>2. GoodRows(Rows(h, j), Peers(j))
  BY <1>1 DEF GoodHistory, Rows, Peers
<1>3. CASE HasRow(h, j)
  <2> DEFINE rows == Rows(h, j)
             i == Place(rows, j)
  <2>1. i \in Places(rows, j)
    BY <1>3 DEF Place, HasRow
  <2>2. i \in DOMAIN rows /\ rows[i].id = j
    BY <2>1 DEF Places
  <2>3. rows[i].status \in Ends
    BY <1>2, <2>2, RowsFacts
  <2>4. StatusAfter(h, j) = rows[i].status
    BY <1>3 DEF StatusAfter
  <2>5. j \notin Recovered(h)
    BY <1>3 DEF Recovered
  <2> HIDE DEF i, rows
  <2>6. Recorded(rows, j, rows[i].status)
    BY <2>2 DEF Recorded
  <2> QED
    BY <2>3, <2>4, <2>5, <2>6 DEF rows
<1>4. CASE ~ HasRow(h, j)
  BY <1>1, <1>4 DEF StatusAfter, Statuses, Ends
<1> QED
  BY <1>3, <1>4

LEMMA RestartsFacts ==
    ASSUME Typed, NEW h, GoodHistory(h), Restarts(h)
    PROVE  /\ SameJobs
           /\ \A j \in Started :
                /\ job'[j].status = StatusAfter(h, j) /\ ~job'[j].live /\ ~job'[j].fatal
                /\ job'[j].met = {} /\ job'[j].cleared = (job[j].cleared /\ ~HasRow(h, j))
                /\ job'[j].excused = (job[j].excused \/ job[j].kind = "showcase"
                                        \/ (job[j].kind = "quality" /\ writer.late))
<1> DEFINE new(j) ==
             [job[j] EXCEPT !.status = StatusAfter(h, j), !.live = FALSE, !.aborted = FALSE,
                            !.fatal = FALSE, !.met = {}, !.cleared = @ /\ ~HasRow(h, j),
                            !.excused = @ \/ job[j].kind = "showcase"
                                          \/ (job[j].kind = "quality" /\ writer.late)]
           f == [j \in Started |-> new(j)]
<1>1. job' = [j \in Started |-> new(j)]
  BY DEF Restarts
<1>2. ASSUME NEW j \in Started
      PROVE  /\ new(j) \in JobRecord /\ new(j).kind = job[j].kind /\ new(j).unit = job[j].unit
             /\ new(j).status = StatusAfter(h, j) /\ ~new(j).live /\ ~new(j).fatal
             /\ new(j).met = {} /\ new(j).cleared = (job[j].cleared /\ ~HasRow(h, j))
             /\ new(j).excused = (job[j].excused \/ job[j].kind = "showcase"
                                    \/ (job[j].kind = "quality" /\ writer.late))
  <2> DEFINE status == StatusAfter(h, j)
             cleared == job[j].cleared /\ ~HasRow(h, j)
             excused == job[j].excused \/ job[j].kind = "showcase"
                                       \/ (job[j].kind = "quality" /\ writer.late)
  <2>1. job[j] \in JobRecord
    BY JobFacts DEF Typed
  <2>2. status \in Statuses /\ cleared \in BOOLEAN /\ excused \in BOOLEAN
    BY StatusAfterFacts DEF Statuses
  <2>3. new(j) = [job[j] EXCEPT !.status = status, !.live = FALSE, !.aborted = FALSE,
                                !.fatal = FALSE, !.met = {}, !.cleared = cleared,
                                !.excused = excused]
    BY <2>1 DEF JobRecord
  <2> HIDE DEF status, cleared, excused, new
  <2>4. /\ new(j) \in JobRecord /\ new(j).kind = job[j].kind /\ new(j).unit = job[j].unit
        /\ new(j).status = status /\ ~new(j).live /\ ~new(j).fatal
        /\ new(j).met = {} /\ new(j).cleared = cleared /\ new(j).excused = excused
    BY <2>1, <2>2, <2>3 DEF JobRecord
  <2> QED
    BY <2>4 DEF status, cleared, excused
<1>3. job' = [j \in Started |-> f[j]] /\ \A j \in Started : f[j] = new(j)
  BY <1>1
<1> HIDE DEF new, f
<1>4. SameJobs /\ \A j \in Started : job'[j] = new(j)
  BY <1>2, <1>3, AllJobs
<1> QED
  BY <1>2, <1>4

LEMMA RestartsJobs ==
    ASSUME Typed, JobsInv, NEW h, GoodHistory(h), Restarts(h)
    PROVE  JobsInv'
<1>1. /\ SameJobs
      /\ \A j \in Started : /\ job'[j].status # "running" /\ ~job'[j].live /\ ~job'[j].fatal
                            /\ job'[j].met = {}
  BY RestartsFacts, StatusAfterFacts DEF Ends
<1>2. requests' = {} /\ active' = [k \in Kinds |-> [u \in Units |-> NoJob]]
  BY DEF Restarts
<1>3. Started' = Started
  BY <1>1 DEF SameJobs
<1>4. active' \in [Kinds -> [Units -> Nat]] /\ \A k \in Kinds, u \in Units : active'[k][u] = NoJob
  BY <1>2 DEF NoJob
<1>5. Fewer
  BY <1>1, <1>4 DEF Fewer
<1>6. ActiveInv' /\ CapInv' /\ Exclusive'
  BY <1>5, FewerKeeps DEF JobsInv
<1>7. RequestInv'
  BY <1>2, FS_EmptySet DEF RequestInv
<1>8. LiveInv'
  BY <1>1, <1>3 DEF LiveInv
<1>9. RunningIsListed'
  BY <1>1, <1>3 DEF RunningIsListed
<1>10. BlockedOnlyByLoops'
  BY <1>4 DEF BlockedOnlyByLoops
<1> QED
  BY <1>6, <1>7, <1>8, <1>9, <1>10 DEF JobsInv

-----------------------------------------------------------------------------
(* The file of running jobs and its writer. *)

\* The jobs keep their kinds; there may be more of them.
SameKinds ==
    /\ Started \subseteq Started'
    /\ \A j \in Started : job'[j].kind = job[j].kind

LEMMA SupersededFacts ==
    ASSUME WriterInv
    PROVE  /\ Superseded \in [at : {"idle", "write", "rename", "renamed"}, list : SUBSET Started,
                              pending : SUBSET Started, stale : BOOLEAN, during : BOOLEAN,
                              late : BOOLEAN]
           /\ Superseded.at = writer.at /\ Superseded.list = writer.list
           /\ Superseded.pending = {} /\ ~Superseded.late
           /\ Superseded.stale <=> writer.at # "idle"
           /\ Superseded.during <=> writer.at = "rename"
<1>1. writer \in [at : {"idle", "write", "rename", "renamed"}, list : SUBSET Started,
                  pending : SUBSET Started, stale : BOOLEAN, during : BOOLEAN, late : BOOLEAN]
  BY DEF WriterInv
<1> DEFINE a == writer.at # "idle"
           b == writer.at = "rename"
<1>2. a \in BOOLEAN /\ b \in BOOLEAN /\ {} \in SUBSET Started
  OBVIOUS
<1>3. Superseded = [writer EXCEPT !.pending = {}, !.stale = a, !.during = b, !.late = FALSE]
  BY DEF Superseded
<1> HIDE DEF a, b
<1>4. /\ Superseded \in [at : {"idle", "write", "rename", "renamed"}, list : SUBSET Started,
                         pending : SUBSET Started, stale : BOOLEAN, during : BOOLEAN,
                         late : BOOLEAN]
      /\ Superseded.at = writer.at /\ Superseded.list = writer.list
      /\ Superseded.pending = {} /\ Superseded.late = FALSE
      /\ Superseded.stale = a /\ Superseded.during = b
  BY <1>1, <1>2, <1>3
<1> QED
  BY <1>4 DEF a, b

LEMMA RunningFacts ==
    \A k : Running(k) \subseteq Started /\ \A j \in Running(k) : job[j].kind = k
BY DEF Running

LEMMA WriterStays ==
    ASSUME WriterInv, SameKinds, writer' = writer, Running("quality")' = Running("quality")
    PROVE  WriterInv'
BY DEF WriterInv, SameKinds

LEMMA WriterSuperseded ==
    ASSUME WriterInv, SameKinds, writer' = Superseded
    PROVE  WriterInv' /\ ~writer'.late
BY SupersededFacts DEF WriterInv, SameKinds

LEMMA FileStays ==
    ASSUME FileInv, SameKinds, file' = file, writer.late => writer'.late,
           \A k \in Bench : Running(k)' = Running(k)
    PROVE  FileInv'
<1>1. \A k \in Bench : file[k] \subseteq Started
  BY DEF FileInv
<1>2. \A k \in Bench : \A j \in file'[k] : job'[j].kind = k
  BY <1>1 DEF FileInv, SameKinds
<1>3. FileIsCurrent'
  BY DEF FileInv, FileIsCurrent
<1>4. file' \in [Bench -> SUBSET Started']
  BY DEF FileInv, SameKinds
<1> QED
  BY <1>2, <1>3, <1>4 DEF FileInv

\* The synchronous write of one manager's list.
LEMMA WrittenFacts ==
    ASSUME WriterInv, FileInv, SameKinds, NEW k \in Bench, NEW S, Written(k, S),
           S = Running(k)', \A kk \in Bench \ {k} : Running(kk)' = Running(kk)
    PROVE  WriterInv' /\ FileInv'
<1>1. file' = [file EXCEPT ![k] = S] /\ file \in [Bench -> SUBSET Started]
  BY DEF Written, FileInv
<1>2. S \subseteq Started' /\ \A j \in S : job'[j].kind = k
  <2>1. Running(k)' \subseteq Started' /\ \A j \in Running(k)' : job'[j].kind = k
    BY DEF Running
  <2> QED
    BY <2>1
<1>3. file'[k] = S /\ \A kk \in Bench \ {k} : file'[kk] = file[kk]
  BY <1>1
<1>4. file' \in [Bench -> SUBSET Started']
  BY <1>1, <1>2, <1>3 DEF SameKinds
<1>5. ASSUME NEW kk \in Bench, NEW j \in file'[kk] PROVE job'[j].kind = kk
  <2>1. CASE kk = k
    BY <1>2, <1>3, <1>5, <2>1
  <2>2. CASE kk # k
    <3>1. j \in file[kk] /\ j \in Started
      BY <1>1, <1>3, <1>5, <2>2
    <3> QED
      BY <3>1 DEF FileInv, SameKinds
  <2> QED
    BY <2>1, <2>2
<1>6. CASE k = "quality"
  <2>1. WriterInv' /\ ~writer'.late
    BY <1>6, WriterSuperseded DEF Written
  <2>2. FileIsCurrent'
    <3> SUFFICES ASSUME NEW kk \in Bench PROVE file'[kk] = Running(kk)'
      BY DEF FileIsCurrent
    <3>1. CASE kk = k
      BY <1>3, <3>1
    <3>2. CASE kk # k
      BY <1>3, <1>6, <3>2 DEF FileInv, FileIsCurrent
    <3> QED
      BY <3>1, <3>2
  <2> QED
    BY <1>4, <1>5, <2>1, <2>2 DEF FileInv
<1>7. CASE k # "quality"
  <2>1. writer' = writer /\ "quality" \in Bench \ {k}
    BY <1>7 DEF Written, Bench
  <2>2. WriterInv'
    BY <2>1, WriterStays
  <2>3. FileIsCurrent'
    <3> SUFFICES ASSUME NEW kk \in Bench
                 PROVE  file'[kk] = Running(kk)' \/ (kk = "quality" /\ writer'.late)
      BY DEF FileIsCurrent
    <3>1. CASE kk = k
      BY <1>3, <3>1
    <3>2. CASE kk # k
      BY <1>3, <2>1, <3>2 DEF FileInv, FileIsCurrent
    <3> QED
      BY <3>1, <3>2
  <2> QED
    BY <1>4, <1>5, <2>2, <2>3 DEF FileInv
<1> QED
  BY <1>6, <1>7

LEMMA SavedFacts ==
    ASSUME WriterInv, FileInv, SameKinds, NEW k \in Kinds, NEW S, Saved(k, S),
           S = Running(k)', \A kk \in Kinds \ {k} : Running(kk)' = Running(kk)
    PROVE  WriterInv' /\ FileInv'
<1>1. CASE k \in Bench
  BY <1>1, Pairs, WrittenFacts DEF Saved
<1>2. CASE k \notin Bench
  <2>1. UNCHANGED <<file, writer>>
    BY <1>2 DEF Saved
  <2>2. \A kk \in Bench : Running(kk)' = Running(kk)
    BY <1>2, Pairs
  <2> QED
    BY <2>1, <2>2, WriterStays, FileStays DEF Bench
<1> QED
  BY <1>1, <1>2

\* Steps that change no job's status and write no file.
LEMMA DiskStays ==
    ASSUME WriterInv, FileInv, SameJobs, UNCHANGED <<file, writer>>,
           \A j \in Started : job[j].kind \in Bench \/ job'[j].kind \in Bench
                                => job'[j].status = job[j].status
    PROVE  WriterInv' /\ FileInv'
<1>1. SameKinds
  BY DEF SameJobs, SameKinds
<1>2. \A k \in Bench : Running(k)' = Running(k)
  BY DEF SameJobs, Running
<1> QED
  BY <1>1, <1>2, WriterStays, FileStays DEF Bench

-----------------------------------------------------------------------------
(* The writer's own steps, and the checkpoints. *)

LEMMA JobsUnchanged ==
    ASSUME Typed, job' = job
    PROVE  /\ SameJobs /\ SameKinds /\ Started' = Started
           /\ \A k : Running(k)' = Running(k)
           /\ \A k, u : Of(k, u)' = Of(k, u)
BY DEF Typed, SameJobs, SameKinds, Started, Running, Of

LEMMA CheckpointDisk ==
    ASSUME Typed, WriterInv, FileInv, Checkpoint
    PROVE  WriterInv' /\ FileInv'
<1>1. job' = job /\ Written("quality", Running("quality")) /\ "quality" \in Bench
  BY DEF Checkpoint, Bench
<1> QED
  BY <1>1, JobsUnchanged, WrittenFacts

LEMMA CheckpointLaterDisk ==
    ASSUME Typed, WriterInv, FileInv, CheckpointLater
    PROVE  WriterInv' /\ FileInv'
<1> DEFINE R == Running("quality")
           W == [at : {"idle", "write", "rename", "renamed"}, list : SUBSET Started,
                 pending : SUBSET Started, stale : BOOLEAN, during : BOOLEAN, late : BOOLEAN]
<1>1. /\ job' = job /\ file' = file
      /\ writer' = IF writer.at = "idle" THEN [writer EXCEPT !.at = "write", !.list = R]
                                         ELSE [writer EXCEPT !.pending = R]
  BY DEF CheckpointLater
<1>2. writer \in W /\ R \in SUBSET Started /\ \A j \in R : job[j].kind = "quality"
  BY RunningFacts DEF WriterInv
<1>3. Started' = Started /\ Running("quality")' = R /\ SameKinds
  BY <1>1, JobsUnchanged
<1> HIDE DEF R
<1>4. CASE writer.at = "idle"
  <2>1. /\ writer' \in W /\ writer'.list = R /\ writer'.pending = writer.pending
        /\ writer'.at = "write" /\ writer'.late = writer.late
    BY <1>1, <1>2, <1>4
  <2>2. WriterInv'
    BY <1>1, <1>2, <1>3, <2>1 DEF WriterInv, R
  <2> QED
    BY <1>1, <1>3, <2>1, <2>2, JobsUnchanged, FileStays
<1>5. CASE writer.at # "idle"
  <2>1. /\ writer' \in W /\ writer'.list = writer.list /\ writer'.pending = R
        /\ writer'.at = writer.at /\ writer'.late = writer.late
        /\ writer'.stale = writer.stale /\ writer'.during = writer.during
    BY <1>1, <1>2, <1>5
  <2>2. WriterInv'
    BY <1>1, <1>2, <1>3, <2>1 DEF WriterInv, R
  <2> QED
    BY <1>1, <1>3, <2>1, <2>2, JobsUnchanged, FileStays
<1> QED
  BY <1>4, <1>5

LEMMA StoppedFacts ==
    ASSUME WriterInv, Typed, job' = job, writer' = Stopped
    PROVE  WriterInv' /\ writer'.late = writer.late
<1>1. writer.late \in BOOLEAN
  BY DEF WriterInv
<1>2. /\ writer' \in [at : {"idle", "write", "rename", "renamed"}, list : SUBSET Started,
                      pending : SUBSET Started, stale : BOOLEAN, during : BOOLEAN, late : BOOLEAN]
      /\ writer'.at = "idle" /\ writer'.list = {} /\ writer'.pending = {}
      /\ writer'.late = writer.late
  BY <1>1 DEF Stopped, IdleWriter
<1>3. Started' = Started
  BY JobsUnchanged
<1> QED
  BY <1>2, <1>3 DEF WriterInv

LEMMA WriterDisk ==
    ASSUME Typed, WriterInv, FileInv, WriterWrote \/ WriterRenames \/ WriterContinues \/ WriterFails
    PROVE  WriterInv' /\ FileInv'
<1> DEFINE R == Running("quality")
           W == [at : {"idle", "write", "rename", "renamed"}, list : SUBSET Started,
                 pending : SUBSET Started, stale : BOOLEAN, during : BOOLEAN, late : BOOLEAN]
<1>1. job' = job
  BY DEF WriterWrote, WriterRenames, WriterContinues, WriterFails
<1>2. writer \in W /\ (\A j \in writer.list : job[j].kind = "quality")
      /\ R \subseteq Started /\ \A j \in R : job[j].kind = "quality"
  BY RunningFacts DEF WriterInv
<1>3. Started' = Started /\ SameKinds /\ \A k : Running(k)' = Running(k)
  BY <1>1, JobsUnchanged
<1>4. ASSUME file' = file, writer' = Stopped PROVE WriterInv' /\ FileInv'
  <2>1. WriterInv' /\ writer'.late = writer.late
    BY <1>1, <1>4, StoppedFacts
  <2>2. writer.late => writer'.late
    BY <2>1
  <2> QED
    BY <1>3, <1>4, <2>1, <2>2, FileStays
<1> HIDE DEF R
<1>5. CASE WriterWrote
  <2>1. file' = file /\ writer.at = "write"
    BY <1>5 DEF WriterWrote
  <2>2. CASE writer.stale
    BY <1>4, <1>5, <2>1, <2>2 DEF WriterWrote, GoesOn
  <2>3. CASE ~writer.stale
    <3>1. writer' = [writer EXCEPT !.at = "rename", !.during = FALSE]
      BY <1>5, <2>3 DEF WriterWrote, GoesOn
    <3>2. /\ writer' \in W /\ writer'.list = writer.list /\ writer'.pending = writer.pending
          /\ writer'.at = "rename" /\ writer'.late = writer.late
      BY <1>2, <3>1
    <3>3. writer.list = R /\ writer.pending \in {{}, R}
      BY <2>1, <2>3 DEF WriterInv, R
    <3>4. WriterInv'
      BY <1>1, <1>2, <1>3, <3>2, <3>3 DEF WriterInv, R
    <3> QED
      BY <1>3, <2>1, <3>2, <3>4, FileStays
  <2> QED
    BY <2>2, <2>3
<1>6. CASE WriterRenames
  <2>1. /\ writer.at = "rename" /\ file' = [file EXCEPT !["quality"] = writer.list]
        /\ writer' = [writer EXCEPT !.at = "renamed", !.list = {}, !.late = writer.during,
                                    !.during = FALSE]
    BY <1>6 DEF WriterRenames
  <2>2. /\ writer' \in W /\ writer'.list = {} /\ writer'.pending = writer.pending
        /\ writer'.at = "renamed" /\ writer'.late = writer.during
    BY <1>2, <2>1
  <2>3. WriterInv'
    BY <1>1, <1>2, <1>3, <2>2 DEF WriterInv, R
  <2>4. writer.during \/ writer.list = R
    BY <2>1 DEF WriterInv, R
  <2>5. file \in [Bench -> SUBSET Started] /\ "quality" \in Bench
    BY DEF FileInv, Bench
  <2>6. /\ file' \in [Bench -> SUBSET Started] /\ file'["quality"] = writer.list
        /\ \A k \in Bench \ {"quality"} : file'[k] = file[k]
    BY <1>2, <2>1, <2>5
  <2>7. \A k \in Bench : \A j \in file'[k] : job[j].kind = k
    BY <1>2, <2>6 DEF FileInv
  <2>8. FileIsCurrent'
    <3> SUFFICES ASSUME NEW k \in Bench
                 PROVE  file'[k] = Running(k)' \/ (k = "quality" /\ writer'.late)
      BY DEF FileIsCurrent
    <3>1. CASE k = "quality"
      BY <1>3, <2>2, <2>4, <2>6, <3>1 DEF R
    <3>2. CASE k # "quality"
      BY <1>3, <2>6, <3>2 DEF FileInv, FileIsCurrent
    <3> QED
      BY <3>1, <3>2
  <2> QED
    BY <1>1, <1>3, <2>3, <2>6, <2>7, <2>8 DEF FileInv
<1>7. CASE WriterContinues
  <2>1. file' = file
    BY <1>7 DEF WriterContinues
  <2>2. CASE writer.pending # {} /\ ~writer.stale
    <3>1. writer' = [writer EXCEPT !.at = "write", !.list = writer.pending, !.pending = {}]
      BY <1>7, <2>2 DEF WriterContinues, GoesOn
    <3>2. /\ writer' \in W /\ writer'.list = writer.pending /\ writer'.pending = {}
          /\ writer'.at = "write" /\ writer'.late = writer.late
      BY <1>2, <3>1
    <3>3. writer.pending = R
      BY <2>2 DEF WriterInv, R
    <3>4. WriterInv'
      BY <1>1, <1>2, <1>3, <3>2, <3>3 DEF WriterInv, R
    <3> QED
      BY <1>3, <2>1, <3>2, <3>4, FileStays
  <2>3. CASE ~ (writer.pending # {} /\ ~writer.stale)
    BY <1>4, <1>7, <2>1, <2>3 DEF WriterContinues, GoesOn
  <2> QED
    BY <2>2, <2>3
<1>8. CASE WriterFails
  BY <1>4, <1>8 DEF WriterFails
<1> QED
  BY <1>5, <1>6, <1>7, <1>8

-----------------------------------------------------------------------------
(* The disk when a job starts. *)

LEMMA BeginDisk ==
    ASSUME Typed, IsFiniteSet(requests), WriterInv, FileInv, NEW k, NEW u, NEW met, NEW waiting,
           Beginning(k, u, met, waiting)
    PROVE  WriterInv' /\ FileInv'
<1> DEFINE n == Len(job) + 1
           S == Running(k) \union {n}
<1>1. /\ Started' = Started \union {n} /\ \A j \in Started : job'[j] = job[j]
      /\ \A kk : Running(kk)' = IF kk = k THEN Running(kk) \union {n} ELSE Running(kk)
  BY BeginFacts
<1>2. k \in Kinds /\ Saved(k, S)
  BY DEF Beginning, Begin
<1>3. SameKinds
  BY <1>1 DEF SameKinds
<1>4. S = Running(k)' /\ \A kk \in Kinds \ {k} : Running(kk)' = Running(kk)
  BY <1>1
<1> HIDE DEF S
<1> QED
  BY <1>2, <1>3, <1>4, SavedFacts

LEMMA BeginRows ==
    ASSUME Typed, IsFiniteSet(requests), RowsInv, NEW k, NEW u, NEW met, NEW waiting,
           Beginning(k, u, met, waiting)
    PROVE  RowsInv'
<1> DEFINE n == Len(job) + 1
<1>1. /\ job' \in Seq(JobRecord) /\ Started' = Started \union {n} /\ n \notin Started
      /\ \A j \in Started : job'[j] = job[j]
      /\ job'[n] = NewJob(k, u, met)
      /\ \A kk, uu : Of(kk, uu)' = IF kk = k /\ uu = u THEN Of(kk, uu) \union {n} ELSE Of(kk, uu)
  BY BeginFacts
<1>2. job'[n].status = "running" /\ ~job'[n].cleared
  BY <1>1 DEF NewJob
<1>3. history' = history
  BY DEF Beginning, Begin
<1> HIDE DEF n
<1>4. \A kk, uu : Of(kk, uu) \subseteq Of(kk, uu)'
  BY <1>1
<1>5. GoodHistory(history)'
  BY <1>3, <1>4 DEF GoodHistory, GoodRows, RowsInv
<1>6. ASSUME NEW j \in Started, NEW s, Accounted(history, j, s) PROVE Accounted(history, j, s)'
  <2> DEFINE A == Of(job[j].kind, job[j].unit)
             B == Of(job[j].kind, job[j].unit) \union {n}
             rows == history[job[j].kind][job[j].unit]
  <2>1. IsFiniteSet(A)
    BY JobFacts DEF Typed
  <2>2. Peers(j)' = A \/ Peers(j)' = B
    BY <1>1 DEF Peers
  <2>3. Rows(history, j)' = rows /\ Rows(history, j) = rows
    BY <1>1, <1>3 DEF Rows
  <2> HIDE DEF A
  <2>4. IsFiniteSet(A \ {j}) /\ IsFiniteSet(B \ {j}) /\ A \ {j} \in SUBSET (B \ {j})
    BY <2>1, FS_AddElement, FS_RemoveElement DEF A
  <2> HIDE DEF B, rows
  <2>5. /\ Cardinality(A \ {j}) <= Cardinality(B \ {j})
        /\ Cardinality(A \ {j}) \in Nat /\ Cardinality(B \ {j}) \in Nat
    BY <2>4, FS_Subset, FS_CardinalityType
  <2>6. CASE Recorded(rows, j, s)
    BY <2>3, <2>6 DEF Accounted
  <2>7. CASE PushedOut(rows, j, A)
    <3>1. Places(rows, j) = {} /\ Cardinality(A \ {j}) >= HistoryLimit
      BY <2>7 DEF PushedOut
    <3>2. Cardinality(B \ {j}) >= HistoryLimit
      BY <2>5, <3>1, BenchmarksAssumption
    <3>3. PushedOut(Rows(history, j), j, Peers(j))'
      BY <2>2, <2>3, <3>1, <3>2 DEF PushedOut
    <3> QED
      BY <3>3 DEF Accounted
  <2> QED
    BY <1>6, <2>3, <2>6, <2>7 DEF Accounted, Peers, A
<1>7. ASSUME NEW j \in Started, job'[j].status \in Ends, ~job'[j].cleared
      PROVE  Accounted(history, j, job[j].status)'
  <2>1. Accounted(history, j, job[j].status) /\ job'[j].status = job[j].status
    BY <1>1, <1>7 DEF RowsInv
  <2>2. \A t : Accounted(history, j, t) => Accounted(history, j, t)'
    BY <1>6
  <2>3. PICK t : t = job[j].status
    OBVIOUS
  <2>4. Accounted(history, j, t)'
    BY <2>1, <2>2, <2>3
  <2> QED
    BY <2>1, <2>3, <2>4
<1>8. ClearedStaysGone'
  BY <1>1, <1>2, <1>3 DEF RowsInv, ClearedStaysGone, HasRow, Rows
<1> QED
  BY <1>1, <1>2, <1>5, <1>7, <1>8 DEF RowsInv, Ends

-----------------------------------------------------------------------------
(* The history when a job ends, or is removed. *)

\* What a step may do to a job and its row, g being the new history: nothing, at
\* most push the row out; write the row; remove it for good; or let the job run.
Untouched(g, j) == /\ job'[j].status = job[j].status /\ job'[j].cleared = job[j].cleared
                   /\ job'[j].excused = job[j].excused /\ Kept(history, g, j)
Entered(g, j) == /\ job'[j].status \in Ends /\ ~job'[j].cleared
                 /\ Accounted(g, j, job'[j].status)
Removed(g, j) == /\ job'[j].status = job[j].status /\ job'[j].cleared
                 /\ job'[j].excused = job[j].excused /\ ~HasRow(g, j)
StillRuns(j) == job'[j].status = "running" /\ ~job'[j].cleared

LEMMA RowsKept ==
    ASSUME Typed, RowsInv, SameJobs, NEW g, GoodHistory(g), history' = g,
           \A j \in Started : Untouched(g, j) \/ Entered(g, j) \/ Removed(g, j) \/ StillRuns(j)
    PROVE  RowsInv'
<1>1. /\ Started' = Started /\ GoodHistory(history)'
      /\ \A j \in Started : Peers(j)' = Peers(j)
      /\ \A j \in Started : job'[j].kind = job[j].kind /\ job'[j].unit = job[j].unit
  BY SameJobsFacts DEF SameJobs
<1>2. \A j \in Started : Rows(history, j)' = Rows(g, j)
  BY <1>1 DEF Rows
<1>3. ASSUME NEW j \in Started, Untouched(g, j)
      PROVE  /\ job'[j].status = "lost" => job'[j].excused
             /\ job'[j].status \in Ends /\ ~job'[j].cleared => Accounted(g, j, job'[j].status)
             /\ job'[j].cleared => ~HasRow(g, j) \/ job'[j].excused
  <2>1. /\ job[j].status = "lost" => job[j].excused
        /\ job[j].status \in Ends /\ ~job[j].cleared => Accounted(history, j, job[j].status)
        /\ job[j].cleared => ~HasRow(history, j) \/ job[j].excused
    BY DEF RowsInv, ClearedStaysGone
  <2>2. RowKept(Rows(history, j), Rows(g, j), j, Peers(j))
    BY <1>3 DEF Untouched, Kept
  <2>3. ~HasRow(history, j) => ~HasRow(g, j)
    BY <2>2, StaysOut DEF HasRow
  <2>4. Accounted(history, j, job[j].status) => Accounted(g, j, job[j].status)
    BY <2>2, StaysOut DEF Accounted, RowKept
  <2> QED
    BY <1>3, <2>1, <2>3, <2>4 DEF Untouched
<1>4. ASSUME NEW j \in Started
      PROVE  /\ job'[j].status = "lost" => job'[j].excused
             /\ job'[j].status \in Ends /\ ~job'[j].cleared => Accounted(g, j, job'[j].status)
             /\ job'[j].cleared => ~HasRow(g, j) \/ job'[j].excused
  <2>1. CASE Untouched(g, j)
    BY <1>3, <2>1
  <2>2. CASE Entered(g, j)
    BY <2>2 DEF Entered, Ends
  <2>3. CASE Removed(g, j)
    BY <2>3 DEF Removed, RowsInv
  <2>4. CASE StillRuns(j)
    BY <2>4 DEF StillRuns, Ends
  <2> QED
    BY <2>1, <2>2, <2>3, <2>4
<1>5. ASSUME NEW j \in Started, Accounted(g, j, job'[j].status)
      PROVE  Accounted(history, j, job[j].status)'
  BY <1>1, <1>2, <1>5 DEF Accounted
<1>6. \A j \in Started : HasRow(history, j)' <=> HasRow(g, j)
  BY <1>2 DEF HasRow
<1>7. ClearedStaysGone'
  BY <1>1, <1>4, <1>6 DEF ClearedStaysGone
<1> QED
  BY <1>1, <1>4, <1>5, <1>7 DEF RowsInv

LEMMA KeptAlone == \A h, j : Kept(h, h, j)
BY DEF Kept, RowKept

LEMMA RowsStay ==
    ASSUME Typed, RowsInv, SameJobs, history' = history,
           \A j \in Started : /\ job'[j].status = job[j].status
                              /\ job'[j].cleared = job[j].cleared
                              /\ job'[j].excused = job[j].excused
    PROVE  RowsInv'
<1>1. \A j \in Started : Untouched(history, j)
  BY KeptAlone DEF Untouched
<1> QED
  BY <1>1, RowsKept DEF RowsInv

LEMMA JobsUnchangedRows ==
    ASSUME Typed, RowsInv, UNCHANGED <<job, history>>
    PROVE  RowsInv'
BY JobsUnchanged, RowsStay

LEMMA NoStepDisk ==
    ASSUME Typed, DiskInv, UNCHANGED <<job, history, file, writer>>
    PROVE  DiskInv'
BY JobsUnchanged, JobsUnchangedRows, DiskStays DEF DiskInv

LEMMA CancelDisk ==
    ASSUME Typed, LiveInv, DiskInv, NEW j \in Started, Cancel(j)
    PROVE  DiskInv'
<1>1. job[j] \in JobRecord
  BY JobFacts DEF Typed
<1>2. job[j].status = "running" /\ UNCHANGED <<file, writer>>
  BY DEF Cancel
<1>3. CASE job[j].kind # "showcase"
  <2> DEFINE r == [job[j] EXCEPT !.aborted = TRUE]
  <2>1. job' = [job EXCEPT ![j] = r] /\ history' = history
    BY <1>3 DEF Cancel, CancelJob
  <2>2. /\ r \in JobRecord /\ r.kind = job[j].kind /\ r.unit = job[j].unit /\ r.status = job[j].status
        /\ r.cleared = job[j].cleared /\ r.excused = job[j].excused
    BY <1>1 DEF JobRecord
  <2> HIDE DEF r
  <2>3. SameJobs /\ job'[j] = r /\ \A i \in Started : i # j => job'[i] = job[i]
    BY <2>1, <2>2, OneJob
  <2>4. \A i \in Started : /\ job'[i].status = job[i].status /\ job'[i].cleared = job[i].cleared
                           /\ job'[i].excused = job[i].excused
    BY <2>2, <2>3
  <2> QED
    BY <1>2, <2>1, <2>3, <2>4, RowsStay, DiskStays DEF DiskInv
<1>4. CASE job[j].kind = "showcase"
  <2> DEFINE r == [job[j] EXCEPT !.aborted = TRUE, !.status = "cancelled"]
             g == Pushed(history, j, "cancelled")
  <2>1. job' = [job EXCEPT ![j] = r] /\ history' = g
    BY <1>4 DEF Cancel, CancelShowcase
  <2>2. /\ r \in JobRecord /\ r.kind = job[j].kind /\ r.unit = job[j].unit /\ r.status = "cancelled"
        /\ r.cleared = job[j].cleared
    BY <1>1, <1>4 DEF JobRecord, Statuses, Ends
  <2> HIDE DEF r
  <2>3. SameJobs /\ job'[j] = r /\ \A i \in Started : i # j => job'[i] = job[i]
    BY <2>1, <2>2, OneJob
  <2>4. "cancelled" \in Ends /\ GoodHistory(history)
    BY DEF Ends, DiskInv, RowsInv
  <2>5. /\ GoodHistory(g) /\ Recorded(Rows(g, j), j, "cancelled")
        /\ \A x \in Started : x # j => Kept(history, g, x)
    BY <2>4, PushedFacts DEF Typed
  <2> HIDE DEF g
  <2>6. ~job[j].cleared
    BY <1>2 DEF LiveInv
  <2>7. Entered(g, j)
    BY <2>2, <2>3, <2>4, <2>5, <2>6 DEF Entered, Accounted
  <2>8. \A x \in Started : x # j => Untouched(g, x)
    BY <2>3, <2>5 DEF Untouched
  <2>9. RowsInv'
    BY <2>1, <2>3, <2>5, <2>7, <2>8, RowsKept DEF DiskInv
  <2>10. job[j].kind \notin Bench /\ job'[j].kind \notin Bench
    BY <1>4, <2>2, <2>3 DEF Bench
  <2>11. WriterInv' /\ FileInv'
    BY <1>2, <2>3, <2>10, DiskStays DEF DiskInv
  <2> QED
    BY <2>9, <2>11 DEF DiskInv
<1> QED
  BY <1>3, <1>4

LEMMA GivesUpDisk ==
    ASSUME Typed, DiskInv, NEW j \in Started, GivesUp(j)
    PROVE  DiskInv'
<1> DEFINE r == [job[j] EXCEPT !.aborted = TRUE, !.fatal = TRUE]
<1>1. job' = [job EXCEPT ![j] = r] /\ UNCHANGED <<history, file, writer>>
  BY DEF GivesUp
<1>2. job[j] \in JobRecord
  BY JobFacts DEF Typed
<1>3. /\ r \in JobRecord /\ r.kind = job[j].kind /\ r.unit = job[j].unit /\ r.status = job[j].status
      /\ r.cleared = job[j].cleared /\ r.excused = job[j].excused
  BY <1>2 DEF JobRecord
<1> HIDE DEF r
<1>4. SameJobs /\ job'[j] = r /\ \A i \in Started : i # j => job'[i] = job[i]
  BY <1>1, <1>3, OneJob
<1>5. \A i \in Started : /\ job'[i].status = job[i].status /\ job'[i].cleared = job[i].cleared
                         /\ job'[i].excused = job[i].excused
  BY <1>3, <1>4
<1> QED
  BY <1>1, <1>4, <1>5, RowsStay, DiskStays DEF DiskInv

LEMMA SettleDisk ==
    ASSUME Typed, LiveInv, DiskInv, NEW j \in Started, Settle(j)
    PROVE  DiskInv'
<1>1. PICK s \in Result(j) : /\ job' = [job EXCEPT ![j] = Settled(j, s)]
                             /\ history' = Pushed(history, j, s)
  BY DEF Settle, Settled
<1>2. job[j].live /\ Saved(job[j].kind, OthersRunning(j))
  BY DEF Settle
<1>3. /\ SameJobs /\ \A i \in Started : i # j => job'[i] = job[i]
      /\ job'[j].status = s /\ ~job'[j].cleared /\ s \in Ends /\ s # "running"
  BY <1>1, <1>2, SettledFacts
<1> DEFINE g == Pushed(history, j, s)
<1>4. GoodHistory(history)
  BY DEF DiskInv, RowsInv
<1>5. /\ GoodHistory(g) /\ Recorded(Rows(g, j), j, s)
      /\ \A x \in Started : x # j => Kept(history, g, x)
  BY <1>3, <1>4, PushedFacts DEF Typed
<1>6. history' = g
  BY <1>1
<1> HIDE DEF g
<1>7. Entered(g, j)
  BY <1>3, <1>5 DEF Entered, Accounted
<1>8. \A x \in Started : x # j => Untouched(g, x)
  BY <1>3, <1>5 DEF Untouched
<1>9. RowsInv'
  BY <1>3, <1>5, <1>6, <1>7, <1>8, RowsKept DEF DiskInv
<1>10. SameKinds /\ Started' = Started /\ \A i \in Started : job'[i].kind = job[i].kind
  BY <1>3 DEF SameKinds, SameJobs
<1>11. PICK k, S : k = job[j].kind /\ S = OthersRunning(j)
  OBVIOUS
<1>12. S = Running(k)' /\ \A kk \in Kinds \ {k} : Running(kk)' = Running(kk)
  BY <1>3, <1>10, <1>11 DEF OthersRunning, Running
<1>13. k \in Kinds /\ Saved(k, S)
  BY <1>2, <1>11, JobFacts DEF Typed
<1>14. WriterInv' /\ FileInv'
  BY <1>10, <1>12, <1>13, SavedFacts DEF DiskInv
<1> QED
  BY <1>9, <1>14 DEF DiskInv

LEMMA ClearDisk ==
    ASSUME Typed, JobsInv, DiskInv, NEW k \in Kinds, NEW u \in Units, Clear(k, u)
    PROVE  DiskInv'
<1> DEFINE g == [history EXCEPT ![k][u] = <<>>]
           gone == Of(k, u) \ Running(k)
<1>1. UNCHANGED <<file, writer>> /\ history' = g
  BY DEF Clear
<1>2. /\ SameJobs
      /\ \A j \in Started : job'[j] = IF j \in gone THEN [job[j] EXCEPT !.cleared = TRUE] ELSE job[j]
  BY ClearJobs
<1>3. \A j \in Started : job[j] \in JobRecord /\ job[j].kind \in Kinds /\ job[j].unit \in Units
  BY JobFacts DEF Typed
<1>4. \A j \in Started : j \in gone <=> /\ job[j].kind = k /\ job[j].unit = u
                                        /\ job[j].status # "running"
  BY DEF Of, Running
<1> HIDE DEF gone
<1>5. ASSUME NEW j \in Started
      PROVE  /\ job'[j].status = job[j].status /\ job'[j].excused = job[j].excused
             /\ j \in gone => job'[j].cleared
             /\ j \notin gone => job'[j].cleared = job[j].cleared
  <2>1. CASE j \in gone
    <3> DEFINE e == [job[j] EXCEPT !.cleared = TRUE]
    <3>1. job'[j] = e
      BY <1>2, <2>1
    <3>2. e.status = job[j].status /\ e.excused = job[j].excused /\ e.cleared = TRUE
      BY <1>3 DEF JobRecord
    <3> HIDE DEF e
    <3> QED
      BY <2>1, <3>1, <3>2
  <2>2. CASE j \notin gone
    BY <1>2, <2>2
  <2> QED
    BY <2>1, <2>2
<1>6. history \in [Kinds -> [Units -> Seq(Row)]] /\ GoodHistory(history)
  BY DEF DiskInv, RowsInv, GoodHistory
<1>7. /\ g \in [Kinds -> [Units -> Seq(Row)]] /\ g[k][u] = <<>>
      /\ \A kk \in Kinds, v \in Units : kk # k \/ v # u => g[kk][v] = history[kk][v]
  BY <1>6
<1> HIDE DEF g
<1>8. GoodHistory(g)
  <2>1. GoodRows(<<>>, Of(k, u))
    BY BenchmarksAssumption DEF GoodRows
  <2> QED
    BY <1>6, <1>7, <2>1 DEF GoodHistory
<1>9. ASSUME NEW j \in Started
      PROVE  Untouched(g, j) \/ Entered(g, j) \/ Removed(g, j) \/ StillRuns(j)
  <2>1. CASE j \in gone
    <3>1. Rows(g, j) = <<>>
      BY <1>4, <1>7, <2>1 DEF Rows
    <3>2. ~HasRow(g, j)
      BY <3>1 DEF HasRow, Places
    <3> QED
      BY <1>5, <2>1, <3>2 DEF Removed
  <2>2. CASE job[j].kind = k /\ job[j].unit = u /\ job[j].status = "running"
    <3>1. ~job[j].cleared /\ j \notin gone
      BY <1>4, <2>2 DEF JobsInv, LiveInv
    <3> QED
      BY <1>5, <2>2, <3>1 DEF StillRuns
  <2>3. CASE ~ (job[j].kind = k /\ job[j].unit = u)
    <3>1. Rows(g, j) = Rows(history, j)
      BY <1>3, <1>7, <2>3 DEF Rows
    <3>2. Kept(history, g, j)
      BY <3>1 DEF Kept, RowKept
    <3> QED
      BY <1>4, <1>5, <2>3, <3>2 DEF Untouched
  <2> QED
    BY <1>4, <2>1, <2>2, <2>3
<1>10. RowsInv'
  BY <1>1, <1>2, <1>8, <1>9, RowsKept DEF DiskInv
<1>11. WriterInv' /\ FileInv'
  BY <1>1, <1>2, <1>5, DiskStays DEF DiskInv
<1> QED
  BY <1>10, <1>11 DEF DiskInv

LEMMA DeleteRunDisk ==
    ASSUME Typed, DiskInv, NEW j \in Started, DeleteRun(j)
    PROVE  DiskInv'
<1> DEFINE r == [job[j] EXCEPT !.cleared = TRUE]
           u == job[j].unit
           new == Without(history["quality"][u], j)
           g == [history EXCEPT !["quality"][u] = new]
<1>1. /\ job[j].kind = "quality" /\ job' = [job EXCEPT ![j] = r] /\ history' = g
      /\ UNCHANGED <<file, writer>>
  BY DEF DeleteRun
<1>2. job[j] \in JobRecord /\ u \in Units /\ "quality" \in Kinds
  BY JobFacts DEF Typed, Kinds, Bench
<1>3. /\ r \in JobRecord /\ r.kind = job[j].kind /\ r.unit = job[j].unit /\ r.status = job[j].status
      /\ r.cleared /\ r.excused = job[j].excused
  BY <1>2 DEF JobRecord
<1> HIDE DEF r
<1>4. SameJobs /\ job'[j] = r /\ \A i \in Started : i # j => job'[i] = job[i]
  BY <1>1, <1>3, OneJob
<1>5. GoodHistory(history) /\ history \in [Kinds -> [Units -> Seq(Row)]]
  BY DEF DiskInv, RowsInv, GoodHistory
<1>6. GoodRows(history["quality"][u], Of("quality", u))
  BY <1>2, <1>5 DEF GoodHistory
<1>7. /\ GoodRows(new, Of("quality", u)) /\ Places(new, j) = {}
      /\ \A x : x # j => RowKept(history["quality"][u], new, x, Of("quality", u))
  BY <1>6, WithoutRow
<1>8. new \in Seq(Row)
  BY <1>7 DEF GoodRows
<1> HIDE DEF new
<1>9. /\ g \in [Kinds -> [Units -> Seq(Row)]] /\ g["quality"][u] = new
      /\ \A k \in Kinds, v \in Units : k # "quality" \/ v # u => g[k][v] = history[k][v]
  BY <1>2, <1>5, <1>8
<1> HIDE DEF g
<1>10. GoodHistory(g)
  BY <1>5, <1>7, <1>9 DEF GoodHistory
<1>11. Removed(g, j)
  <2>1. ~HasRow(g, j)
    BY <1>1, <1>7, <1>9 DEF HasRow, Rows
  <2> QED
    BY <1>3, <1>4, <2>1 DEF Removed
<1>12. ASSUME NEW x \in Started, x # j PROVE Untouched(g, x)
  <2>1. job[x].kind \in Kinds /\ job[x].unit \in Units
    BY JobFacts DEF Typed
  <2>2. Kept(history, g, x)
    <3>1. CASE job[x].kind = "quality" /\ job[x].unit = u
      BY <1>7, <1>9, <1>12, <3>1 DEF Kept, Rows, Peers
    <3>2. CASE ~ (job[x].kind = "quality" /\ job[x].unit = u)
      <4>1. Rows(g, x) = Rows(history, x)
        BY <1>9, <2>1, <3>2 DEF Rows
      <4> QED
        BY <4>1 DEF Kept, RowKept
    <3> QED
      BY <3>1, <3>2
  <2> QED
    BY <1>4, <1>12, <2>2 DEF Untouched
<1>13. RowsInv'
  BY <1>1, <1>4, <1>10, <1>11, <1>12, RowsKept DEF DiskInv
<1>14. \A i \in Started : job'[i].status = job[i].status
  BY <1>3, <1>4
<1>15. WriterInv' /\ FileInv'
  BY <1>1, <1>4, <1>14, DiskStays DEF DiskInv
<1> QED
  BY <1>13, <1>15 DEF DiskInv

LEMMA InterruptDisk ==
    ASSUME Typed, LiveInv, DiskInv, Interrupt
    PROVE  DiskInv'
<1> DEFINE g == AllPushed(history, Cut, "failed")
<1>1. /\ SameJobs /\ writer' = Superseded /\ file' = [k \in Bench |-> {}] /\ history' = g
      /\ \A j \in Started \ Cut : job'[j] = job[j]
      /\ \A j \in Cut : /\ job'[j].status = "failed" /\ job'[j].cleared = job[j].cleared
                        /\ job'[j].excused = job[j].excused
  BY InterruptFacts
<1>2. Cut \in SUBSET Started /\ \A j \in Started : j \in Cut <=> job[j].kind \in Bench
                                                              /\ job[j].status = "running"
  BY CutFacts
<1>3. "failed" \in Ends /\ GoodHistory(history)
  BY DEF Ends, DiskInv, RowsInv
<1>4. /\ GoodHistory(g)
      /\ \A x \in Cut : Accounted(g, x, "failed")
      /\ \A x \in Started \ Cut : Kept(history, g, x)
  BY <1>2, <1>3, AllPushedFacts DEF Typed
<1> HIDE DEF g
<1>5. ASSUME NEW j \in Started PROVE Untouched(g, j) \/ Entered(g, j)
  <2>1. CASE j \in Cut
    <3>1. ~job[j].cleared
      BY <1>2, <2>1 DEF LiveInv
    <3> QED
      BY <1>1, <1>3, <1>4, <2>1, <3>1 DEF Entered
  <2>2. CASE j \notin Cut
    BY <1>1, <1>4, <2>2 DEF Untouched
  <2> QED
    BY <2>1, <2>2
<1>6. RowsInv'
  BY <1>1, <1>4, <1>5, RowsKept DEF DiskInv
<1>7. SameKinds /\ Started' = Started /\ \A j \in Started : job'[j].kind = job[j].kind
  BY <1>1 DEF SameJobs, SameKinds
<1>8. WriterInv'
  BY <1>1, <1>7, WriterSuperseded DEF DiskInv
<1>9. \A k \in Bench : Running(k)' = {}
  <2> SUFFICES ASSUME NEW k \in Bench, NEW j \in Started, job'[j].kind = k, job'[j].status = "running"
               PROVE  FALSE
    BY <1>7 DEF Running
  <2>1. j \notin Cut
    BY <1>1
  <2> QED
    BY <1>1, <1>2, <1>7, <2>1
<1>10. FileInv'
  BY <1>1, <1>9 DEF FileInv, FileIsCurrent
<1> QED
  BY <1>6, <1>8, <1>10 DEF DiskInv

LEMMA RestartsDisk ==
    ASSUME Typed, LiveInv, DiskInv, NEW h, OnDisk(h), Restarts(h)
    PROVE  DiskInv'
<1> DEFINE g == AllPushed(h, Recovered(h), "failed")
<1>1. /\ history' = g /\ file' = [k \in Bench |-> {}] /\ writer' = IdleWriter
  BY DEF Restarts
<1>2. GoodHistory(h) /\ \A j \in Started : HasRow(h, j) \/ Kept(history, h, j)
  BY DEF OnDisk
<1>3. /\ SameJobs
      /\ \A j \in Started :
           /\ job'[j].status = StatusAfter(h, j)
           /\ job'[j].cleared = (job[j].cleared /\ ~HasRow(h, j))
           /\ job'[j].excused = (job[j].excused \/ job[j].kind = "showcase"
                                   \/ (job[j].kind = "quality" /\ writer.late))
  BY <1>2, RestartsFacts
<1>4. /\ Recovered(h) \in SUBSET Started
      /\ \A j \in Recovered(h) : ~HasRow(h, j) /\ \E k \in Bench : j \in file[k]
  BY DEF Recovered, DiskInv, FileInv
<1>5. "failed" \in Ends
  BY DEF Ends
<1>6. /\ GoodHistory(g)
      /\ \A x \in Recovered(h) : Accounted(g, x, "failed")
      /\ \A x \in Started \ Recovered(h) : Kept(h, g, x)
  BY <1>2, <1>4, <1>5, AllPushedFacts DEF Typed
<1> HIDE DEF g
<1>7. /\ Started' = Started /\ GoodHistory(history)'
      /\ \A j \in Started : Peers(j)' = Peers(j)
      /\ \A j \in Started : job'[j].kind = job[j].kind /\ job'[j].unit = job[j].unit
  BY <1>1, <1>3, <1>6, SameJobsFacts DEF SameJobs
<1>8. \A j \in Started : Rows(history, j)' = Rows(g, j)
  BY <1>1, <1>7 DEF Rows
<1>9. \A j \in Started : StatusAfter(h, j) \in Ends \union {"lost"}
  BY <1>2, StatusAfterFacts
<1>10. ASSUME NEW j \in Started, NEW k \in Bench, j \in file[k], job[j].status # "running"
       PROVE  job[j].kind = "quality" /\ writer.late
  <2>1. job[j].kind = k /\ (file[k] = Running(k) \/ (k = "quality" /\ writer.late))
    BY <1>10 DEF DiskInv, FileInv, FileIsCurrent
  <2>2. j \notin Running(k)
    BY <1>10 DEF Running
  <2> QED
    BY <1>10, <2>1, <2>2
<1>11. ASSUME NEW j \in Started, StatusAfter(h, j) = "lost" PROVE job'[j].excused
  <2>1. ~HasRow(h, j)
    <3> SUFFICES ASSUME HasRow(h, j) PROVE FALSE
      OBVIOUS
    <3>1. job[j].kind \in Kinds /\ job[j].unit \in Units
      BY JobFacts DEF Typed
    <3>2. Recorded(Rows(h, j), j, "lost") /\ GoodRows(Rows(h, j), Peers(j))
      BY <1>2, <1>11, <3>1, StatusAfterFacts DEF GoodHistory, Rows, Peers
    <3>3. \E i \in DOMAIN Rows(h, j) : Rows(h, j)[i].status = "lost"
      BY <3>2 DEF Recorded
    <3> QED
      BY <3>2, <3>3, RowsFacts DEF Ends
  <2>2. j \notin Recovered(h)
    BY <1>11, <2>1 DEF StatusAfter
  <2>3. \A k \in Bench : j \notin file[k]
    BY <2>1, <2>2 DEF Recovered
  <2>4. CASE job[j].status = "running"
    <3>1. job[j].kind \in Kinds
      BY JobFacts DEF Typed
    <3>2. CASE job[j].kind = "showcase"
      BY <1>3, <3>2
    <3>3. CASE job[j].kind # "showcase"
      <4>1. job[j].kind \in Bench /\ j \in Running(job[j].kind)
        BY <2>4, <3>1, <3>3 DEF Kinds, Running
      <4>2. job[j].kind = "quality" /\ writer.late
        BY <2>3, <4>1 DEF DiskInv, FileInv, FileIsCurrent
      <4> QED
        BY <1>3, <4>2
    <3> QED
      BY <3>2, <3>3
  <2>5. CASE job[j].status # "running"
    <3>1. job[j].status = "lost"
      BY <1>11, <2>1, <2>2, <2>5 DEF StatusAfter
    <3>2. job[j].excused
      BY <3>1 DEF DiskInv, RowsInv
    <3> QED
      BY <1>3, <3>2
  <2> QED
    BY <2>4, <2>5
<1>12. ASSUME NEW j \in Started, StatusAfter(h, j) \in Ends, ~job'[j].cleared
       PROVE  Accounted(g, j, StatusAfter(h, j))
  <2>1. CASE HasRow(h, j)
    <3>1. Recorded(Rows(h, j), j, StatusAfter(h, j)) /\ j \notin Recovered(h)
      BY <1>2, <2>1, StatusAfterFacts
    <3>2. Kept(h, g, j)
      BY <1>6, <3>1
    <3> QED
      BY <3>1, <3>2 DEF Accounted, Kept, RowKept
  <2>2. CASE ~HasRow(h, j) /\ j \in Recovered(h)
    <3>1. StatusAfter(h, j) = "failed"
      BY <2>2 DEF StatusAfter
    <3> QED
      BY <1>6, <2>2, <3>1
  <2>3. CASE ~HasRow(h, j) /\ j \notin Recovered(h)
    <3>1. StatusAfter(h, j) = job[j].status
      BY <1>12, <2>3 DEF StatusAfter, Ends
    <3>2. ~job[j].cleared
      BY <1>3, <1>12, <2>3
    <3>3. Accounted(history, j, job[j].status)
      BY <1>12, <3>1, <3>2 DEF DiskInv, RowsInv
    <3>4. RowKept(Rows(history, j), Rows(h, j), j, Peers(j))
      BY <1>2, <2>3 DEF Kept
    <3>5. RowKept(Rows(h, j), Rows(g, j), j, Peers(j))
      BY <1>6, <2>3 DEF Kept
    <3>6. RowKept(Rows(history, j), Rows(g, j), j, Peers(j))
      BY <3>4, <3>5, RowKeptTwice
    <3>7. Accounted(g, j, job[j].status)
      BY <3>3, <3>6, StaysOut DEF Accounted, RowKept
    <3> QED
      BY <3>1, <3>7
  <2> QED
    BY <2>1, <2>2, <2>3
<1>13. ASSUME NEW j \in Started, job'[j].cleared, ~job'[j].excused PROVE ~HasRow(g, j)
  <2>1. job[j].cleared /\ ~HasRow(h, j)
    BY <1>3, <1>13
  <2>2. job[j].status # "running"
    BY <2>1 DEF LiveInv
  <2>3. j \notin Recovered(h)
    BY <1>3, <1>4, <1>10, <1>13, <2>2
  <2>4. Kept(h, g, j)
    BY <1>6, <2>3
  <2> QED
    BY <2>1, <2>4, StaysOut DEF Kept, HasRow
<1>14. ASSUME NEW j \in Started, Accounted(g, j, job'[j].status)
       PROVE  Accounted(history, j, job[j].status)'
  BY <1>7, <1>8, <1>14 DEF Accounted
<1>15. ClearedStaysGone'
  BY <1>7, <1>8, <1>13 DEF ClearedStaysGone, HasRow
<1>16. RowsInv'
  BY <1>3, <1>7, <1>11, <1>12, <1>14, <1>15 DEF RowsInv
<1>17. \A k \in Bench : Running(k)' = {}
  BY <1>3, <1>7, <1>9 DEF Running, Ends
<1>18. FileInv'
  BY <1>1, <1>17 DEF FileInv, FileIsCurrent
<1>19. WriterInv'
  BY <1>1 DEF WriterInv, IdleWriter
<1> QED
  BY <1>16, <1>18, <1>19 DEF DiskInv

-----------------------------------------------------------------------------
(* Every step. *)

LEMMA TypedStays ==
    ASSUME Typed, SameJobs, stopping' \in BOOLEAN, Happens \/ events' = events
    PROVE  Typed'
<1>1. job' \in Seq(JobRecord) /\ Len(job') = Len(job)
  <2>1. job' \in Seq(JobRecord) /\ Started' = Started
    BY DEF SameJobs
  <2>2. Len(job') \in Nat /\ Len(job) \in Nat /\ 1 .. Len(job') = 1 .. Len(job)
    BY <2>1 DEF Typed, Started
  <2> QED
    BY <2>1, <2>2
<1>2. events' \in 0 .. MaxEvents
  BY BenchmarksAssumption DEF Typed, Happens
<1> QED
  BY <1>1, <1>2 DEF Typed

LEMMA BeginStep ==
    ASSUME IInv, NEW k, NEW u, NEW met, NEW waiting, Beginning(k, u, met, waiting), events' = events
    PROVE  IInv'
<1>1. IsFiniteSet(requests)
  BY DEF IInv, JobsInv, RequestInv
<1>2. job' \in Seq(JobRecord) /\ Len(job') <= MaxJobs
  BY <1>1, BeginFacts DEF IInv
<1>3. stopping' = stopping
  BY DEF Beginning, Begin
<1>4. Typed'
  BY <1>2, <1>3 DEF IInv, Typed
<1>5. JobsInv'
  BY BeginJobs DEF IInv
<1>6. WriterInv' /\ FileInv' /\ RowsInv'
  BY <1>1, BeginDisk, BeginRows DEF IInv, DiskInv
<1> QED
  BY <1>4, <1>5, <1>6 DEF IInv, DiskInv

LEMMA RestartsStep ==
    ASSUME IInv, NEW h, OnDisk(h), Restarts(h), Happens
    PROVE  IInv'
<1>1. GoodHistory(h) /\ SameJobs /\ stopping' = FALSE
  BY RestartsFacts DEF OnDisk, IInv, Restarts
<1>2. Typed'
  BY <1>1, TypedStays DEF IInv
<1>3. JobsInv'
  BY <1>1, RestartsJobs DEF IInv
<1>4. DiskInv'
  BY RestartsDisk DEF IInv, JobsInv
<1> QED
  BY <1>2, <1>3, <1>4 DEF IInv

\* What a crash leaves on the disk, in the middle of a job's end or not.
LEMMA OnDiskFacts ==
    ASSUME IInv
    PROVE  /\ OnDisk(history)
           /\ \A j \in Started : job[j].live => \A s \in Result(j) : OnDisk(Pushed(history, j, s))
<1>1. GoodHistory(history) /\ Typed /\ LiveInv
  BY DEF IInv, DiskInv, RowsInv, JobsInv
<1>2. OnDisk(history)
  BY <1>1, KeptAlone DEF OnDisk
<1>3. ASSUME NEW j \in Started, job[j].live, NEW s \in Result(j) PROVE OnDisk(Pushed(history, j, s))
  <2> DEFINE g == Pushed(history, j, s)
  <2>1. s \in Ends
    BY <1>1, <1>3, ResultFacts
  <2>2. /\ GoodHistory(g) /\ Recorded(Rows(g, j), j, s)
        /\ \A x \in Started : x # j => Kept(history, g, x)
    BY <1>1, <2>1, PushedFacts DEF Typed
  <2> HIDE DEF g
  <2>3. HasRow(g, j)
    BY <2>2, NotRecorded DEF HasRow
  <2> QED
    BY <2>2, <2>3 DEF OnDisk, g
<1> QED
  BY <1>2, <1>3

LEMMA JobStep ==
    ASSUME IInv, NEW j \in Started,
           Cancel(j) \/ GivesUp(j) \/ Settle(j) \/ DeleteRun(j) \/ CrashInSettle(j)
    PROVE  IInv'
<1>1. Typed /\ JobsInv /\ LiveInv /\ DiskInv
  BY DEF IInv, JobsInv
<1>2. job[j] \in JobRecord
  BY <1>1, JobFacts DEF Typed
<1>3. ASSUME NEW r \in JobRecord, r.kind = job[j].kind, r.unit = job[j].unit,
             job' = [job EXCEPT ![j] = r], stopping' = stopping, Happens \/ events' = events
      PROVE  Typed'
  BY <1>1, <1>3, OneJob, TypedStays DEF Typed
<1>4. CASE Cancel(j)
  <2>1. Happens /\ stopping' = stopping
    BY <1>4 DEF Cancel
  <2>2. Typed'
    <3>1. CASE job[j].kind = "showcase"
      <4> DEFINE r == [job[j] EXCEPT !.aborted = TRUE, !.status = "cancelled"]
      <4>1. job' = [job EXCEPT ![j] = r]
        BY <1>4, <3>1 DEF Cancel, CancelShowcase
      <4>2. r \in JobRecord /\ r.kind = job[j].kind /\ r.unit = job[j].unit
        BY <1>2 DEF JobRecord, Statuses, Ends
      <4> HIDE DEF r
      <4> QED
        BY <1>3, <2>1, <4>1, <4>2
    <3>2. CASE job[j].kind # "showcase"
      <4> DEFINE r == [job[j] EXCEPT !.aborted = TRUE]
      <4>1. job' = [job EXCEPT ![j] = r]
        BY <1>4, <3>2 DEF Cancel, CancelJob
      <4>2. r \in JobRecord /\ r.kind = job[j].kind /\ r.unit = job[j].unit
        BY <1>2 DEF JobRecord
      <4> HIDE DEF r
      <4> QED
        BY <1>3, <2>1, <4>1, <4>2
    <3> QED
      BY <3>1, <3>2
  <2> QED
    BY <1>1, <1>4, <2>2, CancelJobs, CancelDisk DEF IInv
<1>5. CASE GivesUp(j)
  <2> DEFINE r == [job[j] EXCEPT !.aborted = TRUE, !.fatal = TRUE]
  <2>1. job' = [job EXCEPT ![j] = r] /\ Happens /\ stopping' = stopping
    BY <1>5 DEF GivesUp
  <2>2. r \in JobRecord /\ r.kind = job[j].kind /\ r.unit = job[j].unit
    BY <1>2 DEF JobRecord
  <2> HIDE DEF r
  <2>3. Typed'
    BY <1>3, <2>1, <2>2
  <2> QED
    BY <1>1, <1>5, <2>3, GivesUpJobs, GivesUpDisk DEF IInv
<1>6. CASE Settle(j)
  <2>1. job[j].live /\ stopping' = stopping /\ events' = events
    BY <1>6 DEF Settle
  <2>2. PICK s \in Result(j) : job' = [job EXCEPT ![j] = Settled(j, s)]
    BY <1>6 DEF Settle, Settled
  <2>3. SameJobs
    BY <1>1, <2>1, <2>2, SettledFacts
  <2>4. Typed'
    BY <1>1, <2>1, <2>3, TypedStays DEF Typed
  <2> QED
    BY <1>1, <1>6, <2>4, SettleJobs, SettleDisk DEF IInv
<1>7. CASE DeleteRun(j)
  <2> DEFINE r == [job[j] EXCEPT !.cleared = TRUE]
  <2>1. job' = [job EXCEPT ![j] = r] /\ Happens /\ stopping' = stopping
    BY <1>7 DEF DeleteRun
  <2>2. r \in JobRecord /\ r.kind = job[j].kind /\ r.unit = job[j].unit
    BY <1>2 DEF JobRecord
  <2> HIDE DEF r
  <2>3. Typed'
    BY <1>3, <2>1, <2>2
  <2> QED
    BY <1>1, <1>7, <2>3, DeleteRunJobs, DeleteRunDisk DEF IInv
<1>8. CASE CrashInSettle(j)
  <2>1. Happens /\ job[j].live
    BY <1>8 DEF CrashInSettle
  <2>2. PICK s \in Result(j) : Restarts(Pushed(history, j, s))
    BY <1>8 DEF CrashInSettle
  <2>3. OnDisk(Pushed(history, j, s))
    BY <2>1, OnDiskFacts
  <2> QED
    BY <2>1, <2>2, <2>3, RestartsStep
<1> QED
  BY <1>4, <1>5, <1>6, <1>7, <1>8

LEMMA InductiveStep ==
    IInv /\ [Next]_vars => IInv'
<1> SUFFICES ASSUME IInv, [Next]_vars PROVE IInv'
  OBVIOUS
<1>1. Typed /\ JobsInv /\ LiveInv /\ DiskInv
  BY DEF IInv, JobsInv
<1>2. ASSUME UNCHANGED <<job, history, file, writer, stopping, events>>, JobsInv' PROVE IInv'
  <2>1. Typed'
    BY <1>1, <1>2, JobsUnchanged, TypedStays DEF Typed
  <2> QED
    BY <1>1, <1>2, <2>1, NoStepDisk DEF IInv
<1>3. CASE UNCHANGED vars
  <2>1. JobsInv'
    BY <1>1, <1>3, UnchangedIsQuiet, RequestsStay, QuietKeeps DEF vars
  <2> QED
    BY <1>2, <1>3, <2>1 DEF vars
<1>4. ASSUME NEW u \in Units, StartShowcase(u) PROVE IInv'
  BY <1>4, ShowcaseBegins, BeginStep DEF StartShowcase
<1>5. ASSUME NEW u \in Units, NEW k \in Kinds, Clear(k, u) PROVE IInv'
  <2>1. SameJobs /\ JobsInv'
    BY <1>1, <1>5, ClearJobs
  <2>2. Happens /\ stopping' = stopping
    BY <1>5 DEF Clear
  <2>3. Typed'
    BY <1>1, <2>1, <2>2, TypedStays DEF Typed
  <2> QED
    BY <1>1, <1>5, <2>1, <2>3, ClearDisk DEF IInv
<1>6. ASSUME NEW u \in Units, NEW k \in Bench, Request(k, u) PROVE IInv'
  BY <1>1, <1>2, <1>6, RequestJobs DEF Request
<1>7. ASSUME NEW u \in Units, NEW k \in Bench, StartAtOnce(k, u) PROVE IInv'
  BY <1>1, <1>7, AtOnceBegins, BeginStep DEF StartAtOnce, StartJob
<1>8. ASSUME NEW r \in requests, StartAwaited(r) PROVE IInv'
  BY <1>1, <1>8, AwaitedBegins, BeginStep DEF StartAwaited, StartJob
<1>9. ASSUME NEW r \in requests, Refused(r) PROVE IInv'
  BY <1>1, <1>2, <1>9, RefusedJobs DEF Refused
<1>10. ASSUME NEW j \in Started,
              Cancel(j) \/ GivesUp(j) \/ Settle(j) \/ DeleteRun(j) \/ CrashInSettle(j)
       PROVE  IInv'
  BY <1>10, JobStep
<1>11. ASSUME UNCHANGED <<job, active, history, requests, stopping>>, WriterInv' /\ FileInv',
              Happens \/ events' = events
       PROVE  IInv'
  <2>1. Typed'
    BY <1>1, <1>11, JobsUnchanged, TypedStays DEF Typed
  <2>2. JobsInv'
    BY <1>1, <1>11, UnchangedIsQuiet, RequestsStay, QuietKeeps
  <2>3. RowsInv'
    BY <1>1, <1>11, JobsUnchangedRows DEF DiskInv
  <2> QED
    BY <1>11, <2>1, <2>2, <2>3 DEF IInv, DiskInv
<1>12. CASE Checkpoint \/ CheckpointLater
  <2>1. WriterInv' /\ FileInv'
    BY <1>1, <1>12, CheckpointDisk, CheckpointLaterDisk DEF DiskInv
  <2> QED
    BY <1>11, <1>12, <2>1 DEF Checkpoint, CheckpointLater
<1>13. CASE WriterWrote \/ WriterRenames \/ WriterContinues \/ WriterFails
  <2>1. WriterInv' /\ FileInv'
    BY <1>1, <1>13, WriterDisk DEF DiskInv
  <2> QED
    BY <1>11, <1>13, <2>1 DEF WriterWrote, WriterRenames, WriterContinues, WriterFails
<1>14. CASE Interrupt
  <2>1. SameJobs /\ stopping' = TRUE /\ Happens
    BY <1>1, <1>14, InterruptFacts DEF Interrupt
  <2>2. Typed'
    BY <1>1, <2>1, TypedStays
  <2> QED
    BY <1>1, <1>14, <2>2, InterruptJobs, InterruptDisk DEF IInv
<1>15. CASE Crash
  BY <1>15, OnDiskFacts, RestartsStep DEF Crash
<1> QED
  BY <1>3, <1>4, <1>5, <1>6, <1>7, <1>8, <1>9, <1>10, <1>12, <1>13, <1>14, <1>15 DEF Next

LEMMA InitialState ==
    Init => IInv
<1> SUFFICES ASSUME Init PROVE IInv
  OBVIOUS
<1>1. job = <<>> /\ Started = {}
  BY DEF Init, Started
<1>2. Typed
  <2>1. <<>> \in Seq(JobRecord) /\ Len(<<>>) = 0
    OBVIOUS
  <2>2. MaxJobs \in Nat /\ MaxEvents \in Nat /\ 0 <= MaxJobs /\ 0 \in 0 .. MaxEvents
    BY BenchmarksAssumption
  <2>3. stopping = FALSE /\ events = 0 /\ job = <<>>
    BY DEF Init
  <2>4. job \in Seq(JobRecord) /\ Len(job) <= MaxJobs
    BY <2>1, <2>2, <2>3
  <2> QED
    BY <2>2, <2>3, <2>4 DEF Typed
<1>3. /\ active \in [Kinds -> [Units -> Nat]] /\ \A k \in Kinds, u \in Units : active[k][u] = NoJob
      /\ requests = {}
  BY DEF Init, NoJob
<1>4. CapInv
  <2>1. ActivePairs = {}
    BY <1>3, Pairs DEF ActivePairs
  <2>2. ActiveCount = 0
    BY <2>1, ActivePairsFacts, FS_EmptySet
  <2> QED
    BY <2>2, BenchmarksAssumption DEF CapInv
<1>5. JobsInv
  BY <1>1, <1>3, <1>4, FS_EmptySet
     DEF JobsInv, LiveInv, ActiveInv, RunningIsListed, BlockedOnlyByLoops, Exclusive, RequestInv
<1>6. \A k : Running(k) = {}
  BY <1>1 DEF Running
<1>7. WriterInv
  BY <1>1 DEF Init, WriterInv, IdleWriter
<1>8. FileInv
  BY <1>1, <1>6 DEF Init, FileInv, FileIsCurrent
<1>9. GoodHistory(history)
  <2>1. \A S : GoodRows(<<>>, S)
    BY BenchmarksAssumption DEF GoodRows
  <2> QED
    BY <2>1 DEF Init, GoodHistory
<1>10. RowsInv
  BY <1>1, <1>9 DEF RowsInv, ClearedStaysGone
<1> QED
  BY <1>2, <1>5, <1>7, <1>8, <1>10 DEF IInv, DiskInv

\* The invariant that the properties follow from holds in every reachable state:
\* the jobs, the entries of their managers, the file and the history.
THEOREM Invariance == Spec => []IInv
<1>1. Init => IInv
  BY InitialState
<1>2. IInv /\ [Next]_vars => IInv'
  BY InductiveStep
<1> QED
  BY <1>1, <1>2, PTL DEF Spec

-----------------------------------------------------------------------------
(* The properties. *)

LEMMA BenchesListed ==
    ASSUME IInv, ~stopping, NEW j \in Started, job[j].kind \in Bench, job[j].status = "running"
    PROVE  Listed(j)
BY DEF IInv, JobsInv, RunningIsListed, Bench

\* For any Sparks, cap and number of jobs and requests: until a shutdown no more
\* benchmarks run than the cap allows, whatever was started while a request
\* awaited its target (index.js:288).
THEOREM TheCapHolds == Spec => []CapHolds
<1>1. IInv => CapHolds
  <2> SUFFICES ASSUME IInv, ~stopping PROVE Cardinality(Cut) <= MaxActive
    BY DEF CapHolds, Cut
  <2> DEFINE f == [j \in Cut |-> <<job[j].kind, job[j].unit>>]
  <2>1. \A j \in Started : /\ job[j].kind \in Kinds /\ job[j].unit \in Units /\ j # NoJob
    BY JobFacts DEF IInv, Typed, NoJob
  <2>2. Cut = {j \in Started : job[j].kind \in Bench /\ job[j].status = "running"}
    BY CutFacts
  <2>3. ASSUME NEW j \in Cut
        PROVE  /\ active[job[j].kind][job[j].unit] = j /\ j # NoJob
               /\ job[j].kind \in Bench /\ job[j].unit \in Units
    BY <2>1, <2>2, BenchesListed DEF Listed
  <2>4. \A j \in Cut : <<job[j].kind, job[j].unit>> \in ActivePairs
    BY <2>3 DEF ActivePairs
  <2>5. f \in Injection(Cut, ActivePairs)
    <3>1. f \in [Cut -> ActivePairs]
      BY <2>4
    <3>2. ASSUME NEW i \in Cut, NEW j \in Cut, f[i] = f[j] PROVE i = j
      <4>1. job[i].kind = job[j].kind /\ job[i].unit = job[j].unit
        BY <3>2
      <4> QED
        BY <2>3, <4>1
    <3> HIDE DEF f
    <3> QED
      BY <3>1, <3>2 DEF Injection, IsInjective
  <2>6. IsFiniteSet(ActivePairs) /\ ActiveCount = Cardinality(ActivePairs) /\ ActiveCount \in Nat
    BY ActivePairsFacts
  <2>7. IsFiniteSet(Cut) /\ Cardinality(Cut) <= Cardinality(ActivePairs)
    BY <2>5, <2>6, FS_Injection
  <2>8. Cardinality(Cut) \in Nat
    BY <2>7, FS_CardinalityType
  <2> QED
    BY <2>6, <2>7, <2>8, BenchmarksAssumption DEF IInv, JobsInv, CapInv
<1> QED
  BY <1>1, Invariance, PTL

\* Two jobs load the engine of one Spark together only where a manager does not
\* ask again after its await.
THEOREM JobsExclude == Spec => []Exclusive
<1>1. IInv => Exclusive
  BY DEF IInv, JobsInv
<1> QED
  BY <1>1, Invariance, PTL

\* What the managers believe is running is what runs, and no Spark stays blocked
\* without a loop that will release it.
THEOREM BooksAreRight == Spec => []Bookkeeping
<1>1. IInv => TypeOK
  <2> SUFFICES ASSUME IInv PROVE TypeOK
    OBVIOUS
  <2>1. Typed /\ JobsInv /\ WriterInv /\ FileInv /\ GoodHistory(history)
    BY DEF IInv, DiskInv, RowsInv
  <2>2. Len(job) <= MaxJobs /\ stopping \in BOOLEAN /\ events \in 0 .. MaxEvents
    BY <2>1 DEF Typed
  <2>3. ASSUME NEW j \in Started
        PROVE  /\ job[j].kind \in Kinds /\ job[j].unit \in Units
               /\ job[j].met \subseteq 1 .. (j - 1)
               /\ job[j].status \in Ends \union {"running", "lost"}
               /\ {job[j].live, job[j].aborted, job[j].fatal, job[j].cleared, job[j].excused}
                    \subseteq BOOLEAN
               /\ job[j].status = "running" => job[j].live
    <3>1. job[j] \in JobRecord
      BY <2>1, JobFacts DEF Typed
    <3>2. job[j].met \subseteq 1 .. j - 1 /\ (job[j].status = "running" => job[j].live)
      BY <2>1 DEF JobsInv, LiveInv
    <3> QED
      BY <3>1, <3>2 DEF JobRecord, Statuses
  <2>4. active \in [Kinds -> [Units -> Started \union {NoJob}]]
    <3>1. active \in [Kinds -> [Units -> Nat]]
          /\ \A k \in Kinds, u \in Units : active[k][u] \in Started \union {NoJob}
      BY <2>1 DEF JobsInv, ActiveInv, Of
    <3> QED
      BY <3>1
  <2>5. ASSUME NEW k \in Kinds, NEW u \in Units
        PROVE  /\ Len(history[k][u]) <= HistoryLimit
               /\ \A i \in DOMAIN history[k][u] :
                    history[k][u][i].id \in Of(k, u) /\ history[k][u][i].status \in Ends
    <3>1. GoodRows(history[k][u], Of(k, u))
      BY <2>1 DEF GoodHistory
    <3> QED
      BY <3>1, RowsFacts DEF GoodRows
  <2>6. file \in [Bench -> SUBSET Started]
    BY <2>1 DEF FileInv
  <2>7. writer.at \in {"idle", "write", "rename", "renamed"}
        /\ {writer.list, writer.pending} \subseteq SUBSET Started
    BY <2>1 DEF WriterInv
  <2>8. requests \subseteq [kind : Bench, unit : Units, met : SUBSET Started]
    BY <2>1 DEF JobsInv, RequestInv
  <2> QED
    BY <2>2, <2>3, <2>4, <2>5, <2>6, <2>7, <2>8 DEF TypeOK
<1>2. IInv => Bookkeeping
  BY <1>1 DEF Bookkeeping, IInv, JobsInv
<1> QED
  BY <1>2, Invariance, PTL

\* Whatever shutdowns and crashes came, the file of running jobs is current, no job
\* that was accepted is forgotten, and none that a user removed comes back: except
\* for what a rename that was late has overwritten, and a showcase.
THEOREM NoJobIsForgotten == Spec => []HistoryHolds
<1>1. IInv => HistoryHolds
  <2> SUFFICES ASSUME IInv PROVE HistoryHolds
    OBVIOUS
  <2>1. Typed /\ FileIsCurrent /\ RowsInv /\ GoodHistory(history) /\ ClearedStaysGone
    BY DEF IInv, DiskInv, FileInv, RowsInv
  <2>2. JobsAreRemembered
    <3> SUFFICES ASSUME NEW j \in Started, job[j].status \in Ends, ~job[j].cleared
                 PROVE  \/ \E i \in DOMAIN Rows(history, j) :
                             /\ Places(Rows(history, j), j) = {i}
                             /\ Rows(history, j)[i].status = job[j].status
                        \/ /\ ~HasRow(history, j)
                           /\ Cardinality(Of(job[j].kind, job[j].unit) \ {j}) >= HistoryLimit
      BY <2>1 DEF JobsAreRemembered, RowsInv
    <3>1. job[j].kind \in Kinds /\ job[j].unit \in Units
      BY <2>1, JobFacts DEF Typed
    <3>2. GoodRows(Rows(history, j), Peers(j))
      BY <2>1, <3>1 DEF GoodHistory, Rows, Peers
    <3>3. Accounted(history, j, job[j].status)
      BY <2>1 DEF RowsInv
    <3>4. CASE Recorded(Rows(history, j), j, job[j].status)
      BY <3>2, <3>4, RecordedOnce
    <3>5. CASE PushedOut(Rows(history, j), j, Peers(j))
      BY <3>5 DEF PushedOut, HasRow, Peers
    <3> QED
      BY <3>3, <3>4, <3>5 DEF Accounted
  <2> QED
    BY <2>1, <2>2 DEF HistoryHolds
<1> QED
  BY <1>1, Invariance, PTL

\* What a restart makes of an outcome.
LEMMA RestartsKeepOutcome ==
    ASSUME IInv, NEW h, OnDisk(h), Restarts(h), NEW j \in Started, job[j].status \in Ends,
           \A t : Recorded(Rows(h, j), j, t) => Recorded(Rows(history, j), j, t)
    PROVE  job'[j].status = job[j].status \/ job'[j].excused
<1>1. Typed /\ LiveInv /\ FileInv /\ RowsInv /\ ClearedStaysGone /\ GoodHistory(h) /\ GoodHistory(history)
  BY DEF IInv, JobsInv, DiskInv, RowsInv, OnDisk
<1>2. /\ job'[j].status = StatusAfter(h, j)
      /\ job'[j].excused = (job[j].excused \/ job[j].kind = "showcase"
                              \/ (job[j].kind = "quality" /\ writer.late))
  BY <1>1, RestartsFacts
<1>3. job[j].status # "running"
  BY DEF Ends
<1>4. CASE HasRow(h, j)
  <2>1. Recorded(Rows(h, j), j, StatusAfter(h, j))
    BY <1>1, <1>4, StatusAfterFacts
  <2>2. Recorded(Rows(history, j), j, StatusAfter(h, j))
    BY <2>1
  <2>3. HasRow(history, j)
    BY <2>2, NotRecorded DEF HasRow
  <2>4. CASE job[j].cleared
    BY <1>1, <1>2, <2>3, <2>4 DEF ClearedStaysGone
  <2>5. CASE ~job[j].cleared
    <3>1. Accounted(history, j, job[j].status)
      BY <1>1, <2>5 DEF RowsInv
    <3>2. Recorded(Rows(history, j), j, job[j].status)
      BY <2>3, <3>1 DEF Accounted, PushedOut, HasRow
    <3>3. GoodRows(Rows(history, j), Peers(j))
      BY <1>1, JobFacts DEF GoodHistory, Rows, Peers, Typed
    <3>4. StatusAfter(h, j) = job[j].status
      BY <2>2, <3>2, <3>3, RecordedOnce
    <3> QED
      BY <1>2, <3>4
  <2> QED
    BY <2>4, <2>5
<1>5. CASE ~HasRow(h, j) /\ j \in Recovered(h)
  <2>1. PICK k \in Bench : j \in file[k]
    BY <1>5 DEF Recovered
  <2>2. job[j].kind = k /\ (file[k] = Running(k) \/ (k = "quality" /\ writer.late))
    BY <1>1, <2>1 DEF FileInv, FileIsCurrent
  <2>3. j \notin Running(k)
    BY <1>3 DEF Running
  <2> QED
    BY <1>2, <2>1, <2>2, <2>3
<1>6. CASE ~HasRow(h, j) /\ j \notin Recovered(h)
  BY <1>2, <1>3, <1>6 DEF StatusAfter
<1> QED
  BY <1>4, <1>5, <1>6

\* An outcome stays, unless a shutdown interrupted a quality job whose loop still runs.
Changes(j) == job'[j].status # job[j].status
Excepted(j) == (job[j].kind = "quality" /\ job[j].live /\ stopping) \/ job'[j].excused

LEMMA LoopsKeepOutcome ==
    ASSUME IInv, NEW j \in Started, job[j].status \in Ends, job[j].live, NEW s \in Result(j)
    PROVE  s = job[j].status \/ (job[j].kind = "quality" /\ stopping)
<1>1. Typed /\ LiveInv /\ job[j].status # "running"
  BY DEF IInv, JobsInv, Ends
<1>2. job[j].kind # "quality" => s = job[j].status
  BY <1>1, ResultFacts
<1>3. job[j].kind = "quality" => stopping
  BY <1>1 DEF LiveInv, Bench
<1> QED
  BY <1>2, <1>3

LEMMA StepKeepsOutcome ==
    ASSUME IInv, [Next]_vars, NEW j \in Started, job[j].status \in Ends, Changes(j)
    PROVE  Excepted(j)
<1>1. Typed /\ LiveInv /\ JobsInv /\ RowsInv /\ job[j].status # "running"
  BY DEF IInv, JobsInv, DiskInv, Ends
<1>2. IsFiniteSet(requests) /\ job \in Seq(JobRecord)
  BY <1>1 DEF JobsInv, RequestInv, Typed
<1>3. ~ UNCHANGED job
  BY DEF Changes
<1>4. ASSUME NEW k, NEW u, NEW met, NEW waiting, Beginning(k, u, met, waiting) PROVE FALSE
  <2>1. job'[j] = job[j]
    BY <1>1, <1>2, <1>4, BeginFacts
  <2> QED
    BY <2>1 DEF Changes
<1>5. ASSUME NEW i \in Started, NEW r, job' = [job EXCEPT ![i] = r], r.status = job[i].status
      PROVE  FALSE
  <2>1. job'[j] = IF j = i THEN r ELSE job[j]
    BY <1>2, <1>5, JobFacts
  <2> QED
    BY <1>5, <2>1 DEF Changes
<1>6. ASSUME NEW i \in Started, Cancel(i) PROVE FALSE
  <2>1. job[i] \in JobRecord /\ job[i].status = "running"
    BY <1>2, <1>6, JobFacts DEF Cancel
  <2>2. CASE job[i].kind = "showcase"
    <3> DEFINE r == [job[i] EXCEPT !.aborted = TRUE, !.status = "cancelled"]
    <3>1. job' = [job EXCEPT ![i] = r] /\ j # i
      BY <1>1, <1>6, <2>1, <2>2 DEF Cancel, CancelShowcase
    <3> HIDE DEF r
    <3>2. job'[j] = job[j]
      BY <1>2, <3>1, JobFacts
    <3> QED
      BY <3>2 DEF Changes
  <2>3. CASE job[i].kind # "showcase"
    <3> DEFINE r == [job[i] EXCEPT !.aborted = TRUE]
    <3>1. job' = [job EXCEPT ![i] = r]
      BY <1>6, <2>3 DEF Cancel, CancelJob
    <3>2. r.status = job[i].status
      BY <2>1 DEF JobRecord
    <3> HIDE DEF r
    <3> QED
      BY <1>5, <3>1, <3>2
  <2> QED
    BY <2>2, <2>3
<1>7. ASSUME NEW i \in Started, GivesUp(i) PROVE FALSE
  <2> DEFINE r == [job[i] EXCEPT !.aborted = TRUE, !.fatal = TRUE]
  <2>1. job' = [job EXCEPT ![i] = r] /\ job[i] \in JobRecord
    BY <1>2, <1>7, JobFacts DEF GivesUp
  <2>2. r.status = job[i].status
    BY <2>1 DEF JobRecord
  <2> HIDE DEF r
  <2> QED
    BY <1>5, <2>1, <2>2
<1>8. ASSUME NEW i \in Started, DeleteRun(i) PROVE FALSE
  <2> DEFINE r == [job[i] EXCEPT !.cleared = TRUE]
  <2>1. job' = [job EXCEPT ![i] = r] /\ job[i] \in JobRecord
    BY <1>2, <1>8, JobFacts DEF DeleteRun
  <2>2. r.status = job[i].status
    BY <2>1 DEF JobRecord
  <2> HIDE DEF r
  <2> QED
    BY <1>5, <2>1, <2>2
<1>9. ASSUME NEW i \in Started, Settle(i) PROVE Excepted(j)
  <2>1. PICK s \in Result(i) : job' = [job EXCEPT ![i] = Settled(i, s)]
    BY <1>9 DEF Settle, Settled
  <2>2. job[i].live
    BY <1>9 DEF Settle
  <2>3. (\A x \in Started : x # i => job'[x] = job[x]) /\ job'[i].status = s
    BY <1>1, <2>1, <2>2, SettledFacts
  <2>4. i = j /\ s # job[j].status
    BY <2>3 DEF Changes
  <2> QED
    BY <2>2, <2>4, LoopsKeepOutcome DEF Excepted
<1>10. ASSUME NEW k \in Kinds, NEW u \in Units, Clear(k, u) PROVE FALSE
  <2>1. job'[j] = IF j \in Of(k, u) \ Running(k) THEN [job[j] EXCEPT !.cleared = TRUE] ELSE job[j]
    BY <1>1, <1>10, ClearJobs
  <2>2. job[j] \in JobRecord
    BY <1>2, JobFacts
  <2>3. job'[j].status = job[j].status
    BY <2>1, <2>2 DEF JobRecord
  <2> QED
    BY <2>3 DEF Changes
<1>11. CASE Interrupt
  <2>1. j \notin Cut
    BY <1>1, CutFacts
  <2>2. job'[j] = job[j]
    BY <1>1, <1>11, <2>1, InterruptFacts
  <2> QED
    BY <2>2 DEF Changes
<1>12. CASE Crash
  <2>1. OnDisk(history) /\ Restarts(history)
    BY <1>12, OnDiskFacts DEF Crash
  <2> QED
    BY <2>1, RestartsKeepOutcome DEF Changes, Excepted
<1>13. ASSUME NEW i \in Started, CrashInSettle(i) PROVE Excepted(j)
  <2>1. PICK s \in Result(i) : Restarts(Pushed(history, i, s))
    BY <1>13 DEF CrashInSettle
  <2> DEFINE g == Pushed(history, i, s)
  <2>2. job[i].live
    BY <1>13 DEF CrashInSettle
  <2>3. OnDisk(g)
    BY <2>2, OnDiskFacts
  <2>4. s \in Ends /\ GoodHistory(history)
    BY <1>1, <2>2, ResultFacts DEF RowsInv
  <2>5. /\ GoodHistory(g) /\ Recorded(Rows(g, i), i, s)
        /\ \A x \in Started : x # i => Kept(history, g, x)
    BY <1>2, <2>4, PushedFacts
  <2> HIDE DEF g
  <2>6. Restarts(g)
    BY <2>1 DEF g
  <2>7. CASE i # j
    <3>1. \A t : Recorded(Rows(g, j), j, t) => Recorded(Rows(history, j), j, t)
      BY <2>5, <2>7 DEF Kept, RowKept
    <3> QED
      BY <2>3, <2>6, <3>1, RestartsKeepOutcome DEF Changes, Excepted
  <2>8. CASE i = j
    <3>1. GoodRows(Rows(g, j), Peers(j))
      BY <2>5, <1>2, JobFacts DEF GoodHistory, Rows, Peers
    <3>2. HasRow(g, j)
      BY <2>5, <2>8, NotRecorded DEF HasRow
    <3>3. Recorded(Rows(g, j), j, StatusAfter(g, j))
      BY <1>1, <2>5, <3>2, StatusAfterFacts
    <3>4. StatusAfter(g, j) = s
      BY <2>5, <2>8, <3>1, <3>3, RecordedOnce
    <3>5. job'[j].status = s
      BY <1>1, <2>5, <2>6, <3>4, RestartsFacts
    <3> QED
      BY <2>2, <2>8, <3>5, LoopsKeepOutcome DEF Changes, Excepted
  <2> QED
    BY <2>7, <2>8
<1>14. ASSUME NEW u \in Units, StartShowcase(u) PROVE FALSE
  BY <1>4, <1>14, ShowcaseBegins
<1>15. ASSUME NEW u \in Units, NEW k \in Bench, StartAtOnce(k, u) PROVE FALSE
  BY <1>1, <1>4, <1>15, AtOnceBegins
<1>16. ASSUME NEW r \in requests, StartAwaited(r) PROVE FALSE
  BY <1>1, <1>4, <1>16, AwaitedBegins
<1>17. ASSUME NEW u \in Units, NEW k \in Bench, Request(k, u) PROVE FALSE
  BY <1>3, <1>17 DEF Request
<1>18. ASSUME NEW r \in requests, Refused(r) PROVE FALSE
  BY <1>3, <1>18 DEF Refused
<1>19. CASE Checkpoint \/ CheckpointLater
  BY <1>3, <1>19 DEF Checkpoint, CheckpointLater
<1>20. CASE WriterWrote \/ WriterRenames \/ WriterContinues \/ WriterFails
  BY <1>3, <1>20 DEF WriterWrote, WriterRenames, WriterContinues, WriterFails
<1>21. CASE UNCHANGED vars
  BY <1>3, <1>21 DEF vars
<1> QED
  BY <1>6, <1>7, <1>8, <1>9, <1>10, <1>11, <1>12, <1>13, <1>14, <1>15, <1>16, <1>17, <1>18,
     <1>19, <1>20, <1>21 DEF Next

\* A job that has ended keeps its status, through loops that unwind late, through
\* shutdowns and through crashes, but for the two exceptions of OutcomeIsFinal.
THEOREM OutcomesAreFinal == Spec => OutcomeIsFinal
<1>1. IInv /\ [Next]_vars =>
        [\A j \in Started :
           job[j].status \in Ends /\ job'[j].status # job[j].status =>
             \/ job[j].kind = "quality" /\ job[j].live /\ stopping
             \/ job'[j].excused]_vars
  BY StepKeepsOutcome DEF Changes, Excepted
<1> QED
  BY <1>1, Invariance, PTL DEF Spec, OutcomeIsFinal

===============================================================================

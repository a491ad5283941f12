------------------------- MODULE SparkRegistry_proofs -------------------------
(***************************************************************************)
(* For any units, hosts, ports and failing writes: the registry is         *)
(* consistent between requests, a secret stays with the host it was        *)
(* entered for, start-up loses no secret, and every step of the code is a  *)
(* step of the atomic store.                                               *)
(***************************************************************************)
EXTENDS SparkRegistry, TLAPS

\* A password in plain text is one of a unit in the file.
PlainInv == disk.plain \subseteq Known(disk.units)

DownInv == pc = "down" => mem = Nothing /\ monitors = GivenTo(Nothing) /\ tx = NoTx /\ ~apart

\* While it starts, the process has in memory what the files say; a start that
\* could not convert them serves no unit, and owes nothing.
StartInv ==
    Starting =>
      /\ ~apart => mem = Stored
      /\ ~apart /\ pc # "migrate" => disk.secrets = mem.secrets
      /\ ~apart /\ pc = "reconcile" => disk.plain = {}
      /\ apart => pc = "reconcile" /\ mem.units = NoUnits /\ torn = Ids

SecretsAgree(u) ==
    disk.secrets.pw[u] = mem.secrets.pw[u] /\ disk.secrets.keys[u] = mem.secrets.keys[u]

\* Between requests the files agree with the memory: on everything, or on
\* every unit that nothing has torn.
IdleInv ==
    pc = "idle" =>
      /\ ~apart => disk = [units |-> mem.units, secrets |-> mem.secrets, plain |-> {}]
      /\ disk.plain # {} => mem.units = NoUnits
      /\ \A u \in Ids \ torn : SecretsAgree(u) /\ disk.units[u] = mem.units[u]

\* Within a request the secrets are those of the write that came last, and the
\* units on disk are the new ones until they are taken back.
RequestInv ==
    InRequest =>
      /\ Plan(tx.id, tx.units, tx.writes, tx.undo) \in Plans(tx.was)
      /\ tx.done <= Len(tx.writes)
      /\ mem.units = tx.was.units
      /\ mem.secrets = IF tx.done = 0 THEN tx.was.secrets ELSE tx.writes[tx.done]
      /\ disk.plain = {}
      /\ disk.units = IF pc = "undoSecrets" THEN tx.was.units ELSE tx.units
      /\ tx.done > 0 \/ tx.was = tx.file => disk.secrets = mem.secrets
      /\ ~apart => tx.was = tx.file
      /\ pc # "write" => tx.done < tx.undo
      /\ pc = "undoSecrets" => tx.done > 0
      /\ \A u \in Ids \ torn : SecretsAgree(u)

\* The store as it is between requests, and as the files have it.
Settled == IF InRequest THEN tx.was ELSE IF pc = "idle" THEN mem ELSE Stored

OwnInv == \A u \in Ids \ torn : OwnSecrets(Settled, u)

OrphansOf(s, u) == {p \in Ports : s.secrets.keys[u][p] # None} \ s.units[u].ports

MonitorInv ==
    (InRequest \/ pc = "idle") /\ ~apart =>
      \A u \in Ids : ~RunsWith(monitors[u], Settled, u) =>
        u \in Known(Settled.units) /\ OrphansOf(Settled, u) # {}

IInv ==
    /\ TypeOK /\ PlainInv /\ DownInv /\ StartInv /\ IdleInv /\ RequestInv
    /\ OwnInv /\ MonitorInv

-----------------------------------------------------------------------------
(* What one call makes of the secrets. *)

LEMMA SecretsFields ==
    ASSUME NEW s \in Secrets, NEW u \in Ids
    PROVE  /\ s.pw \in [Ids -> Hosts \union {None}]
           /\ s.keys \in [Ids -> [Ports -> Hosts \union {None}]]
           /\ s.pw[u] \in Hosts \union {None}
           /\ s.keys[u] \in [Ports -> Hosts \union {None}]
           /\ \A p \in Ports : s.keys[u][p] \in Hosts \union {None}
BY DEF Secrets

LEMMA SecretsEqual ==
    ASSUME NEW s \in Secrets, NEW t \in Secrets,
           s.pw = t.pw, s.keys = t.keys
    PROVE  s = t
BY DEF Secrets

LEMMA StorePasswordFacts ==
    ASSUME NEW s \in Secrets, NEW u \in Ids, NEW h \in Hosts \union {None}
    PROVE  /\ StorePassword(s, u, h) \in Secrets
           /\ StorePassword(s, u, h).keys = s.keys
           /\ StorePassword(s, u, h).pw[u] = h
           /\ \A v \in Ids \ {u} : StorePassword(s, u, h).pw[v] = s.pw[v]
<1>1. StorePassword(s, u, h) = [s EXCEPT !.pw = [s.pw EXCEPT ![u] = h]]
  BY DEF StorePassword, Secrets
<1>2. [s.pw EXCEPT ![u] = h] \in [Ids -> Hosts \union {None}]
  BY SecretsFields
<1> QED
  BY <1>1, <1>2 DEF Secrets

LEMMA StoreKeyFacts ==
    ASSUME NEW s \in Secrets, NEW u \in Ids, NEW p \in Ports, NEW h \in Hosts \union {None}
    PROVE  /\ StoreKey(s, u, p, h) \in Secrets
           /\ StoreKey(s, u, p, h).pw = s.pw
           /\ StoreKey(s, u, p, h).keys[u][p] = h
           /\ \A q \in Ports \ {p} : StoreKey(s, u, p, h).keys[u][q] = s.keys[u][q]
           /\ \A v \in Ids \ {u} : StoreKey(s, u, p, h).keys[v] = s.keys[v]
<1> DEFINE row == [s.keys[u] EXCEPT ![p] = h]
<1>1. StoreKey(s, u, p, h) = [s EXCEPT !.keys = [s.keys EXCEPT ![u] = row]]
  BY DEF StoreKey, Secrets
<1>2. /\ row \in [Ports -> Hosts \union {None}]
      /\ row[p] = h /\ \A q \in Ports \ {p} : row[q] = s.keys[u][q]
  BY SecretsFields
<1> HIDE DEF row
<1>3. [s.keys EXCEPT ![u] = row] \in [Ids -> [Ports -> Hosts \union {None}]]
  BY <1>2, SecretsFields
<1> QED
  BY <1>1, <1>2, <1>3 DEF Secrets

LEMMA PruneFacts ==
    ASSUME NEW s \in Secrets, NEW u \in Ids, NEW keep
    PROVE  /\ PruneKeys(s, u, keep) \in Secrets
           /\ PruneKeys(s, u, keep).pw = s.pw
           /\ \A v \in Ids \ {u} : PruneKeys(s, u, keep).keys[v] = s.keys[v]
           /\ \A p \in Ports : PruneKeys(s, u, keep).keys[u][p]
                                 = IF p \in keep THEN s.keys[u][p] ELSE None
<1> DEFINE row == [p \in Ports |-> IF p \in keep THEN s.keys[u][p] ELSE None]
<1>1. PruneKeys(s, u, keep) = [s EXCEPT !.keys = [s.keys EXCEPT ![u] = row]]
  BY DEF PruneKeys, Secrets
<1>2. /\ row \in [Ports -> Hosts \union {None}]
      /\ \A p \in Ports : row[p] = IF p \in keep THEN s.keys[u][p] ELSE None
  BY SecretsFields
<1> HIDE DEF row
<1>3. [s.keys EXCEPT ![u] = row] \in [Ids -> [Ports -> Hosts \union {None}]]
  BY <1>2, SecretsFields
<1> QED
  BY <1>1, <1>2, <1>3 DEF Secrets

\* What is pruned and differs had a key of a port that is not kept.
LEMMA PruneWrites ==
    ASSUME NEW s \in Secrets, NEW u \in Ids, NEW keep, PruneKeys(s, u, keep) # s
    PROVE  \E p \in Ports \ keep : s.keys[u][p] # None
<1> SUFFICES ASSUME \A p \in Ports \ keep : s.keys[u][p] = None
             PROVE  PruneKeys(s, u, keep) = s
  OBVIOUS
<1> DEFINE t == PruneKeys(s, u, keep)
<1>1. /\ t \in Secrets /\ t.pw = s.pw
      /\ \A v \in Ids \ {u} : t.keys[v] = s.keys[v]
      /\ \A p \in Ports : t.keys[u][p] = s.keys[u][p]
  BY PruneFacts
<1> HIDE DEF t
<1>2. /\ t.keys[u] \in [Ports -> Hosts \union {None}]
      /\ s.keys[u] \in [Ports -> Hosts \union {None}]
  BY <1>1, SecretsFields
<1>3. t.keys[u] = s.keys[u]
  BY <1>1, <1>2
<1>4. t.keys = s.keys
  <2>1. /\ t.keys \in [Ids -> [Ports -> Hosts \union {None}]]
        /\ s.keys \in [Ids -> [Ports -> Hosts \union {None}]]
    BY <1>1, SecretsFields
  <2>2. \A v \in Ids : t.keys[v] = s.keys[v]
    BY <1>1, <1>3
  <2> QED
    BY <2>1, <2>2
<1>5. t = s
  BY <1>1, <1>4, SecretsEqual
<1> QED
  BY <1>5 DEF t

LEMMA MoveKeyFacts ==
    ASSUME NEW s \in Secrets, NEW u \in Ids, NEW p \in Ports, NEW q \in Ports, p # q
    PROVE  /\ MoveKey(s, u, p, q) \in Secrets
           /\ MoveKey(s, u, p, q).pw = s.pw
           /\ \A v \in Ids \ {u} : MoveKey(s, u, p, q).keys[v] = s.keys[v]
           /\ MoveKey(s, u, p, q).keys[u][p] = None
           /\ MoveKey(s, u, p, q).keys[u][q]
                = IF s.keys[u][p] = None THEN s.keys[u][q] ELSE s.keys[u][p]
           /\ \A r \in Ports \ {p, q} : MoveKey(s, u, p, q).keys[u][r] = s.keys[u][r]
           /\ MoveKey(s, u, p, q) # s => s.keys[u][p] # None
<1>1. CASE s.keys[u][p] = None
  BY <1>1 DEF MoveKey
<1>2. CASE s.keys[u][p] # None
  <2> DEFINE row == [s.keys[u] EXCEPT ![p] = None, ![q] = s.keys[u][p]]
  <2>1. MoveKey(s, u, p, q) = [s EXCEPT !.keys = [s.keys EXCEPT ![u] = row]]
    BY <1>2 DEF MoveKey, Secrets
  <2>2. /\ row \in [Ports -> Hosts \union {None}]
        /\ row[p] = None /\ row[q] = s.keys[u][p]
        /\ \A r \in Ports \ {p, q} : row[r] = s.keys[u][r]
    BY SecretsFields
  <2> HIDE DEF row
  <2>3. [s.keys EXCEPT ![u] = row] \in [Ids -> [Ports -> Hosts \union {None}]]
    BY <2>2, SecretsFields
  <2> QED
    BY <1>2, <2>1, <2>2, <2>3 DEF Secrets
<1> QED
  BY <1>1, <1>2

LEMMA ForgetFacts ==
    ASSUME NEW s \in Secrets, NEW u \in Ids
    PROVE  /\ Forget(s, u) \in Secrets
           /\ Forget(s, u).pw[u] = None
           /\ \A p \in Ports : Forget(s, u).keys[u][p] = None
           /\ \A v \in Ids \ {u} : /\ Forget(s, u).pw[v] = s.pw[v]
                                   /\ Forget(s, u).keys[v] = s.keys[v]
<1> DEFINE t == StorePassword(s, u, None)
<1>1. t \in Secrets /\ t.keys = s.keys /\ t.pw[u] = None
      /\ \A v \in Ids \ {u} : t.pw[v] = s.pw[v]
  BY StorePasswordFacts
<1> HIDE DEF t
<1>2. Forget(s, u) = PruneKeys(t, u, {})
  BY DEF Forget, t
<1> QED
  BY <1>1, <1>2, PruneFacts

-----------------------------------------------------------------------------
(* The writes of a request. *)

\* One write more than before.
OneMore(w, writes, y) ==
    /\ Len(w) = Len(writes) + 1 /\ w[Len(w)] = y
    /\ \A n \in 1 .. Len(writes) : w[n] = writes[n]

LEMMA ThenFacts ==
    ASSUME NEW s \in Secrets, NEW writes \in Seq(Secrets), NEW after \in Secrets,
           NEW before \in Secrets, Newest(s, writes) = before
    PROVE  LET w == Then(writes, before, after) IN
           /\ w \in Seq(Secrets) /\ Newest(s, w) = after
           /\ \/ w = writes /\ after = before
              \/ OneMore(w, writes, after) /\ after # before
<1>1. CASE after = before
  BY <1>1 DEF Then
<1>2. CASE after # before
  <2>1. Then(writes, before, after) = Append(writes, after)
    BY <1>2 DEF Then
  <2>2. /\ Append(writes, after) \in Seq(Secrets)
        /\ Len(Append(writes, after)) = Len(writes) + 1
        /\ Append(writes, after)[Len(writes) + 1] = after
        /\ \A n \in 1 .. Len(writes) : Append(writes, after)[n] = writes[n]
    OBVIOUS
  <2>3. Append(writes, after) # <<>>
    BY <2>2
  <2> QED
    BY <1>2, <2>1, <2>2, <2>3 DEF Newest, OneMore
<1> QED
  BY <1>1, <1>2

\* The secrets of all units but u are the same.
OthersKept(x, y, u) == \A v \in Ids \ {u} : x.pw[v] = y.pw[v] /\ x.keys[v] = y.keys[v]

LEMMA PasswordWritesFacts ==
    ASSUME NEW s \in Secrets, NEW writes \in Seq(Secrets), NEW u \in Ids,
           NEW unit \in Unit, NEW word \in Passwords,
           NEW x \in Secrets, Newest(s, writes) = x
    PROVE  LET w == PasswordWrites(writes, x, u, unit, word) IN
           /\ w \in Seq(Secrets) /\ Newest(s, w) \in Secrets
           /\ Newest(s, w).keys = x.keys
           /\ Newest(s, w).pw[u] \in {None, unit.ssh, x.pw[u]}
           /\ \A v \in Ids \ {u} : Newest(s, w).pw[v] = x.pw[v]
           /\ w = writes \/ OneMore(w, writes, Newest(s, w))
<1> DEFINE y == AfterPassword(x, u, unit, word)
<1> DEFINE w == PasswordWrites(writes, x, u, unit, word)
<1>1. unit.ssh \in Hosts
  BY DataAssumption
<1>2. /\ y \in Secrets /\ y.keys = x.keys
      /\ y.pw[u] \in {None, unit.ssh, x.pw[u]}
      /\ \A v \in Ids \ {u} : y.pw[v] = x.pw[v]
  <2>1. CASE word = "keep"
    BY <2>1 DEF AfterPassword
  <2>2. CASE word = "clear"
    <3>1. y = StorePassword(x, u, None)
      BY <2>2 DEF AfterPassword
    <3> QED
      BY <3>1, StorePasswordFacts
  <2>3. CASE word = "set"
    <3>1. y = StorePassword(x, u, unit.ssh)
      BY <2>3 DEF AfterPassword
    <3> QED
      BY <1>1, <3>1, StorePasswordFacts
  <2> QED
    BY <2>1, <2>2, <2>3 DEF Passwords
<1>3. \/ w = Append(writes, y)
      \/ w = Then(writes, x, y)
  BY DEF PasswordWrites
<1> HIDE DEF y, w
<1>4. CASE w = Append(writes, y)
  <2>1. /\ w \in Seq(Secrets) /\ Len(w) = Len(writes) + 1 /\ w[Len(w)] = y
        /\ \A n \in 1 .. Len(writes) : w[n] = writes[n]
    BY <1>2, <1>4
  <2>2. Newest(s, w) = y
    BY <2>1 DEF Newest
  <2>3. OneMore(w, writes, y)
    BY <2>1 DEF OneMore
  <2> QED
    BY <1>2, <2>1, <2>2, <2>3 DEF w
<1>5. CASE w = Then(writes, x, y)
  <2>1. /\ w \in Seq(Secrets) /\ Newest(s, w) = y
        /\ w = writes \/ OneMore(w, writes, y)
    BY <1>2, <1>5, ThenFacts
  <2> QED
    BY <1>2, <2>1 DEF w
<1> QED
  BY <1>3, <1>4, <1>5

\* What updateSpark writes for a new configuration: each write but the last only
\* clears, and the last leaves secrets of the new targets.
LEMMA UpdateWritesFacts ==
    ASSUME NEW s \in Store, NEW u \in Known(s.units), NEW unit \in Unit, NEW word \in Passwords
    PROVE  LET w == UpdateWrites(s, u, unit, word)
               x == Newest(s.secrets, w) IN
           /\ w \in Seq(Secrets) /\ x \in Secrets
           /\ \A n \in 1 .. Len(w) : OthersKept(w[n], s.secrets, u)
           /\ OthersKept(x, s.secrets, u)
           /\ \A n \in 1 .. Len(w) : n < Len(w) =>
                /\ w[n].pw[u] \in {None, s.secrets.pw[u]}
                /\ \A p \in Ports : w[n].keys[u][p] \in {None, s.secrets.keys[u][p]}
           /\ OwnSecrets(s, u) =>
                /\ x.pw[u] \in {None, unit.ssh}
                /\ \A p \in Ports : x.keys[u][p] \in {None, unit.llm}
<1> DEFINE s0 == s.secrets
<1> DEFINE old == s.units[u]
<1> DEFINE moved == IF unit.ssh # old.ssh THEN StorePassword(s0, u, None) ELSE s0
<1> DEFINE pruned == IF unit.llm # old.llm THEN PruneKeys(moved, u, {}) ELSE moved
<1> DEFINE w1 == Then(<<>>, s0, moved)
<1> DEFINE w2 == Then(w1, moved, pruned)
<1> DEFINE w == PasswordWrites(w2, pruned, u, unit, word)
<1> DEFINE x == Newest(s0, w)
<1>0. UpdateWrites(s, u, unit, word) = w
  BY DEF UpdateWrites
<1>1. u \in Ids /\ s0 \in Secrets /\ old \in Unit
  BY DEF Store, Units, Known
<1>2. /\ moved \in Secrets /\ moved.keys = s0.keys
      /\ moved.pw[u] = IF unit.ssh # old.ssh THEN None ELSE s0.pw[u]
      /\ \A v \in Ids \ {u} : moved.pw[v] = s0.pw[v]
  BY <1>1, StorePasswordFacts
<1> HIDE DEF moved
<1>3. /\ pruned \in Secrets /\ pruned.pw = moved.pw
      /\ \A p \in Ports : pruned.keys[u][p]
           = IF unit.llm # old.llm THEN None ELSE moved.keys[u][p]
      /\ \A v \in Ids \ {u} : pruned.keys[v] = moved.keys[v]
  BY <1>1, <1>2, PruneFacts
<1> HIDE DEF pruned
<1>4. <<>> \in Seq(Secrets) /\ Newest(s0, <<>>) = s0 /\ Len(<<>>) = 0
  BY DEF Newest
<1>a. u \in Ids /\ s0 \in Secrets /\ pruned \in Secrets /\ moved \in Secrets
  BY <1>1, <1>2, <1>3
<1> HIDE DEF s0
<1>5. /\ w1 \in Seq(Secrets) /\ Newest(s0, w1) = moved
      /\ \/ w1 = <<>> /\ moved = s0
         \/ OneMore(w1, <<>>, moved) /\ moved # s0
  BY <1>a, <1>4, ThenFacts
<1> HIDE DEF w1
<1>5a. \A n \in 1 .. Len(w1) : w1[n] = moved
  BY <1>4, <1>5 DEF OneMore
<1>6. /\ w2 \in Seq(Secrets) /\ Newest(s0, w2) = pruned
      /\ \A n \in 1 .. Len(w2) : w2[n] \in {moved, pruned}
  <2>1. /\ w2 \in Seq(Secrets) /\ Newest(s0, w2) = pruned
        /\ w2 = w1 \/ OneMore(w2, w1, pruned)
    BY <1>a, <1>5, ThenFacts
  <2> HIDE DEF w2
  <2> QED
    BY <1>5, <1>5a, <2>1 DEF OneMore
<1> HIDE DEF w2
<1>7. /\ w \in Seq(Secrets) /\ x \in Secrets /\ x.keys = pruned.keys
      /\ x.pw[u] \in {None, unit.ssh, pruned.pw[u]}
      /\ \A v \in Ids \ {u} : x.pw[v] = pruned.pw[v]
      /\ w = w2 \/ OneMore(w, w2, x)
  BY <1>a, <1>6, PasswordWritesFacts
<1> HIDE DEF w, x
<1>8. \A n \in 1 .. Len(w) : /\ w[n] \in {moved, pruned, x}
                             /\ n < Len(w) => w[n] \in {moved, pruned}
  BY <1>6, <1>7 DEF OneMore
<1>9. /\ OthersKept(moved, s0, u) /\ OthersKept(pruned, s0, u) /\ OthersKept(x, s0, u)
  BY <1>2, <1>3, <1>7 DEF OthersKept
<1>10. ASSUME NEW y \in {moved, pruned}
       PROVE  /\ y.pw[u] \in {None, s0.pw[u]}
              /\ \A p \in Ports : y.keys[u][p] \in {None, s0.keys[u][p]}
  BY <1>1, <1>2, <1>3
<1>11. ASSUME OwnSecrets(s, u)
       PROVE  /\ x.pw[u] \in {None, unit.ssh}
              /\ \A p \in Ports : x.keys[u][p] \in {None, unit.llm}
  <2>1. /\ s0.pw[u] \in {None, old.ssh}
        /\ \A p \in Ports : s0.keys[u][p] \in {None, old.llm}
    BY <1>1, <1>11, DataAssumption DEF OwnSecrets, s0
  <2>2. pruned.pw[u] \in {None, unit.ssh}
    BY <2>1, <1>2, <1>3
  <2>3. \A p \in Ports : pruned.keys[u][p] \in {None, unit.llm}
    BY <2>1, <1>2, <1>3
  <2> QED
    BY <2>2, <2>3, <1>7
<1>12. \A n \in 1 .. Len(w) : OthersKept(w[n], s0, u)
  BY <1>8, <1>9
<1>13. \A n \in 1 .. Len(w) : n < Len(w) =>
          /\ w[n].pw[u] \in {None, s0.pw[u]}
          /\ \A p \in Ports : w[n].keys[u][p] \in {None, s0.keys[u][p]}
  BY <1>8, <1>10
<1> QED
  BY <1>0, <1>7, <1>9, <1>11, <1>12, <1>13 DEF x, s0

\* What syncLlmApiKeysToPorts writes: a key at most moves or goes, and before
\* its last write one is left at a port that the unit no longer has.
LEMMA SyncWritesFacts ==
    ASSUME NEW x \in Secrets, NEW u \in Ids, NEW prev, NEW next
    PROVE  LET t == SyncWrites(x, u, prev, next) IN
           /\ t \in Seq(Secrets)
           /\ \A n \in 1 .. Len(t) :
                /\ OthersKept(t[n], x, u) /\ t[n].pw = x.pw
                /\ \A p \in Ports : t[n].keys[u][p] # None =>
                     \E q \in Ports : t[n].keys[u][p] = x.keys[u][q]
                /\ n < Len(t) => \E p \in Ports \ next : t[n].keys[u][p] # None
           /\ Len(t) > 0 => \E p \in Ports \ next : x.keys[u][p] # None
<1> DEFINE removed == prev \ next
<1> DEFINE added == next \ prev
<1> DEFINE renamed == \E p, q \in Ports : removed = {p} /\ added = {q}
<1> DEFINE from == CHOOSE p \in Ports : removed = {p}
<1> DEFINE to == CHOOSE q \in Ports : added = {q}
<1> DEFINE moved == IF renamed THEN MoveKey(x, u, from, to) ELSE x
<1> DEFINE pruned == PruneKeys(moved, u, next)
<1> DEFINE t1 == Then(<<>>, x, moved)
<1> DEFINE t == Then(t1, moved, pruned)
<1>0. SyncWrites(x, u, prev, next) = t
  BY DEF SyncWrites
<1>1. renamed => from \in Ports \ next /\ to \in Ports /\ from # to
  <2> SUFFICES ASSUME renamed PROVE from \in Ports \ next /\ to \in Ports /\ from # to
    OBVIOUS
  <2>1. from \in Ports /\ removed = {from}
    OBVIOUS
  <2>2. to \in Ports /\ added = {to}
    OBVIOUS
  <2> QED
    BY <2>1, <2>2
<1> HIDE DEF from, to, renamed
<1>2. /\ moved \in Secrets /\ moved.pw = x.pw
      /\ \A v \in Ids \ {u} : moved.keys[v] = x.keys[v]
      /\ \A p \in Ports : moved.keys[u][p] # None =>
           \E q \in Ports : moved.keys[u][p] = x.keys[u][q]
      /\ moved # x => \E p \in Ports \ next : x.keys[u][p] # None
  <2>1. CASE renamed
    <3> DEFINE m == MoveKey(x, u, from, to)
    <3>1. moved = m
      BY <2>1
    <3>2. /\ m \in Secrets /\ m.pw = x.pw
          /\ \A v \in Ids \ {u} : m.keys[v] = x.keys[v]
          /\ m.keys[u][from] = None
          /\ m.keys[u][to] = IF x.keys[u][from] = None THEN x.keys[u][to] ELSE x.keys[u][from]
          /\ \A r \in Ports \ {from, to} : m.keys[u][r] = x.keys[u][r]
          /\ m # x => x.keys[u][from] # None
      BY <1>1, <2>1, MoveKeyFacts
    <3> HIDE DEF m
    <3> QED
      BY <1>1, <2>1, <3>1, <3>2
  <2>2. CASE ~renamed
    BY <2>2
  <2> QED
    BY <2>1, <2>2
<1> HIDE DEF moved
<1>3. /\ pruned \in Secrets /\ pruned.pw = moved.pw
      /\ \A v \in Ids \ {u} : pruned.keys[v] = moved.keys[v]
      /\ \A p \in Ports : pruned.keys[u][p] = IF p \in next THEN moved.keys[u][p] ELSE None
      /\ pruned # moved => \E p \in Ports \ next : moved.keys[u][p] # None
  BY <1>2, PruneFacts, PruneWrites
<1> HIDE DEF pruned
<1>4. <<>> \in Seq(Secrets) /\ Newest(x, <<>>) = x /\ Len(<<>>) = 0
  BY DEF Newest
<1>5. /\ t1 \in Seq(Secrets) /\ Newest(x, t1) = moved
      /\ \/ t1 = <<>> /\ moved = x
         \/ OneMore(t1, <<>>, moved) /\ moved # x
  BY <1>2, <1>4, ThenFacts
<1> HIDE DEF t1
<1>5a. \/ Len(t1) = 0 /\ moved = x
       \/ Len(t1) = 1 /\ t1[1] = moved /\ moved # x
  BY <1>4, <1>5 DEF OneMore
<1>6. /\ t \in Seq(Secrets)
      /\ t = t1 \/ (OneMore(t, t1, pruned) /\ pruned # moved)
  BY <1>2, <1>3, <1>5, ThenFacts
<1> HIDE DEF t
<1>7. \A n \in 1 .. Len(t) : /\ t[n] \in {moved, pruned}
                             /\ n < Len(t) => t[n] = moved /\ pruned # moved
  BY <1>5, <1>5a, <1>6 DEF OneMore
<1>8. Len(t) > 0 => \E p \in Ports \ next : x.keys[u][p] # None
  <2>1. Len(t) > 0 => moved # x \/ (moved = x /\ pruned # moved)
    BY <1>5a, <1>6
  <2> QED
    BY <2>1, <1>2, <1>3
<1>9. OthersKept(moved, x, u) /\ OthersKept(pruned, x, u)
  BY <1>2, <1>3 DEF OthersKept
<1>10. \A p \in Ports : pruned.keys[u][p] # None =>
         \E q \in Ports : pruned.keys[u][p] = x.keys[u][q]
  BY <1>2, <1>3
<1>11. ASSUME NEW n \in 1 .. Len(t)
       PROVE  /\ OthersKept(t[n], x, u) /\ t[n].pw = x.pw
              /\ \A p \in Ports : t[n].keys[u][p] # None =>
                   \E q \in Ports : t[n].keys[u][p] = x.keys[u][q]
              /\ n < Len(t) => \E p \in Ports \ next : t[n].keys[u][p] # None
  <2>1. t[n] = moved \/ t[n] = pruned
    BY <1>7
  <2>2. n < Len(t) => t[n] = moved /\ pruned # moved
    BY <1>7
  <2>3. OthersKept(t[n], x, u)
    BY <2>1, <1>9
  <2>4. t[n].pw = x.pw
    BY <2>1, <1>2, <1>3
  <2>5. \A p \in Ports : t[n].keys[u][p] # None =>
          \E q \in Ports : t[n].keys[u][p] = x.keys[u][q]
    BY <2>1, <1>2, <1>10
  <2> QED
    BY <2>2, <2>3, <2>4, <2>5, <1>3
<1> QED
  BY <1>0, <1>6, <1>8, <1>11

-----------------------------------------------------------------------------
(* The plan of a request is about one unit. What it writes before the point  *)
(* of no return suits the old unit, and what it has written from there on    *)
(* suits the new one.                                                        *)

PlanType(p) ==
    /\ p.id \in Ids /\ p.units \in Units /\ p.writes \in Seq(Secrets)
    /\ p.undo \in 0 .. Len(p.writes)

OneUnit(s, p) ==
    /\ \A v \in Ids \ {p.id} : p.units[v] = s.units[v]
    /\ \A n \in 1 .. Len(p.writes) : OthersKept(p.writes[n], s.secrets, p.id)

OwnBefore(s, p) ==
    \A n \in 1 .. Len(p.writes) : n < p.undo =>
      OwnSecrets([units |-> s.units, secrets |-> p.writes[n]], p.id)

OwnAfter(s, p) ==
    \A n \in 0 .. Len(p.writes) : p.undo <= n => OwnSecrets(Reached(p, s, n), p.id)

\* A sync that stops half-way leaves a key at a port that the unit no longer has.
LeavesOrphans(s, p) ==
    \A n \in 0 .. Len(p.writes) : p.undo <= n /\ n < Len(p.writes) =>
      p.units[p.id] # NoUnit /\ OrphansOf(Reached(p, s, n), p.id) # {}

GoodPlan(s, p) ==
    /\ PlanType(p) /\ OneUnit(s, p)
    /\ OwnSecrets(s, p.id) => OwnBefore(s, p) /\ OwnAfter(s, p)
    /\ LeavesOrphans(s, p)

LEMMA PlanFields ==
    ASSUME NEW u, NEW units, NEW writes, NEW undo
    PROVE  /\ Plan(u, units, writes, undo).id = u
           /\ Plan(u, units, writes, undo).units = units
           /\ Plan(u, units, writes, undo).writes = writes
           /\ Plan(u, units, writes, undo).undo = undo
BY DEF Plan

LEMMA ReachedFields ==
    ASSUME NEW p, NEW s, NEW n
    PROVE  /\ Reached(p, s, n).units = p.units
           /\ Reached(p, s, n).secrets = IF n = 0 THEN s.secrets ELSE p.writes[n]
BY DEF Reached

LEMMA UnitChange ==
    ASSUME NEW units \in Units, NEW u \in Ids, NEW unit \in Unit
    PROVE  /\ [units EXCEPT ![u] = unit] \in Units
           /\ [units EXCEPT ![u] = unit][u] = unit
           /\ \A v \in Ids \ {u} : [units EXCEPT ![u] = unit][v] = units[v]
BY DEF Units

LEMMA UnitGone ==
    ASSUME NEW units \in Units, NEW u \in Ids
    PROVE  /\ [units EXCEPT ![u] = NoUnit] \in Units
           /\ [units EXCEPT ![u] = NoUnit][u] = NoUnit
           /\ \A v \in Ids \ {u} : [units EXCEPT ![u] = NoUnit][v] = units[v]
BY DEF Units

LEMMA OwnOfUnit ==
    ASSUME NEW s, NEW u \in Ids, s.units[u] \in Unit,
           s.secrets.pw[u] \in {None, s.units[u].ssh},
           \A p \in Ports : s.secrets.keys[u][p] \in {None, s.units[u].llm}
    PROVE  OwnSecrets(s, u)
BY DataAssumption DEF OwnSecrets

LEMMA AddIsGood ==
    ASSUME NEW s \in Store, NEW p \in AddPlans(s)
    PROVE  GoodPlan(s, p)
<1> DEFINE s0 == s.secrets
<1>1. PICK u \in Ids \ Known(s.units), unit \in Unit, word \in Passwords :
        p = AddPlan(s, u, unit, word)
  BY DEF AddPlans
<1> DEFINE w == PasswordWrites(<<>>, s0, u, unit, word)
<1>2. s0 \in Secrets /\ s.units \in Units /\ s.units[u] = NoUnit
  BY DEF Store, Known
<1>3. p.id = u /\ p.units = [s.units EXCEPT ![u] = unit] /\ p.writes = w /\ p.undo = Len(w)
  BY <1>1, PlanFields DEF AddPlan
<1> HIDE DEF s0
<1>4. <<>> \in Seq(Secrets) /\ Newest(s0, <<>>) = s0 /\ Len(<<>>) = 0
  BY DEF Newest
<1>5. /\ w \in Seq(Secrets) /\ Newest(s0, w) \in Secrets
      /\ Newest(s0, w).keys = s0.keys
      /\ Newest(s0, w).pw[u] \in {None, unit.ssh, s0.pw[u]}
      /\ \A v \in Ids \ {u} : Newest(s0, w).pw[v] = s0.pw[v]
      /\ w = <<>> \/ OneMore(w, <<>>, Newest(s0, w))
  BY <1>2, <1>4, PasswordWritesFacts
<1> HIDE DEF w
<1>6. \/ Len(w) = 0 /\ Newest(s0, w) = s0
      \/ Len(w) = 1 /\ Newest(s0, w) = w[1]
  BY <1>4, <1>5 DEF OneMore
<1>l. Len(w) \in Nat /\ Len(w) <= 1
  BY <1>4, <1>5 DEF OneMore
<1>7. PlanType(p)
  BY <1>2, <1>3, <1>5, <1>l, UnitChange DEF PlanType
<1>8. OneUnit(s, p)
  <2>1. \A v \in Ids \ {u} : p.units[v] = s.units[v]
    BY <1>2, <1>3, UnitChange
  <2>2. OthersKept(Newest(s0, w), s0, u)
    BY <1>5 DEF OthersKept
  <2>3. \A n \in 1 .. Len(w) : w[n] = Newest(s0, w)
    BY <1>6
  <2> QED
    BY <1>3, <2>1, <2>2, <2>3 DEF OneUnit, s0
<1>9. OwnBefore(s, p)
  <2>1. \A n \in 1 .. Len(w) : ~(n < Len(w))
    BY <1>l
  <2> QED
    BY <1>3, <2>1 DEF OwnBefore
<1>10. ASSUME OwnSecrets(s, u) PROVE OwnAfter(s, p)
  <2>1. s0.pw[u] = None /\ \A q \in Ports : s0.keys[u][q] = None
    BY <1>2, <1>10 DEF OwnSecrets, s0
  <2>2. Reached(p, s, Len(w)).secrets = Newest(s0, w)
    BY <1>3, <1>6, ReachedFields DEF s0
  <2>3. Reached(p, s, Len(w)).units[u] = unit
    BY <1>2, <1>3, UnitChange, ReachedFields
  <2>4. OwnSecrets(Reached(p, s, Len(w)), u)
    BY <1>5, <2>1, <2>2, <2>3, OwnOfUnit
  <2>5. \A n \in 0 .. Len(w) : Len(w) <= n => n = Len(w)
    BY <1>l
  <2> QED
    BY <1>3, <2>4, <2>5 DEF OwnAfter
<1>11. LeavesOrphans(s, p)
  BY <1>3, <1>6 DEF LeavesOrphans
<1> QED
  BY <1>3, <1>7, <1>8, <1>9, <1>10, <1>11 DEF GoodPlan

LEMMA RemoveIsGood ==
    ASSUME NEW s \in Store, NEW p \in RemovePlans(s)
    PROVE  GoodPlan(s, p)
<1> DEFINE s0 == s.secrets
<1>1. PICK u \in Known(s.units) : p = RemovePlan(s, u)
  BY DEF RemovePlans
<1> DEFINE new == Forget(s0, u)
<1> DEFINE w == Then(<<>>, s0, new)
<1>2. u \in Ids /\ s0 \in Secrets /\ s.units \in Units
  BY DEF Store, Known
<1>3. p.id = u /\ p.units = [s.units EXCEPT ![u] = NoUnit] /\ p.writes = w /\ p.undo = Len(w)
  BY <1>1, PlanFields DEF RemovePlan
<1>a. /\ new \in Secrets /\ new.pw[u] = None
      /\ \A q \in Ports : new.keys[u][q] = None
      /\ \A v \in Ids \ {u} : new.pw[v] = s0.pw[v] /\ new.keys[v] = s0.keys[v]
  BY <1>2, ForgetFacts
<1> HIDE DEF s0, new
<1>4. <<>> \in Seq(Secrets) /\ Newest(s0, <<>>) = s0 /\ Len(<<>>) = 0
  BY DEF Newest
<1>5. /\ w \in Seq(Secrets) /\ Newest(s0, w) = new
      /\ \/ w = <<>> /\ new = s0
         \/ OneMore(w, <<>>, new) /\ new # s0
  BY <1>2, <1>a, <1>4, ThenFacts
<1> HIDE DEF w
<1>6. \/ Len(w) = 0 /\ new = s0
      \/ Len(w) = 1 /\ new = w[1]
  BY <1>4, <1>5 DEF OneMore
<1>l. Len(w) \in Nat /\ Len(w) <= 1
  BY <1>4, <1>5 DEF OneMore
<1>m. p.units \in Units /\ p.units[u] = NoUnit
  <2>1. /\ [s.units EXCEPT ![u] = NoUnit] \in Units
        /\ [s.units EXCEPT ![u] = NoUnit][u] = NoUnit
    BY <1>2, UnitGone, Zenon
  <2> QED
    BY <1>3, <2>1, Zenon
<1>7. PlanType(p)
  BY <1>2, <1>3, <1>5, <1>l, <1>m DEF PlanType
<1>8. OneUnit(s, p)
  <2>1. \A v \in Ids \ {u} : p.units[v] = s.units[v]
    BY <1>2, <1>3, UnitGone
  <2>2. OthersKept(new, s0, u)
    BY <1>a DEF OthersKept
  <2>3. \A n \in 1 .. Len(w) : w[n] = new
    BY <1>6
  <2> QED
    BY <1>3, <2>1, <2>2, <2>3 DEF OneUnit, s0
<1>9. OwnBefore(s, p)
  <2>1. \A n \in 1 .. Len(w) : ~(n < Len(w))
    BY <1>l
  <2> QED
    BY <1>3, <2>1 DEF OwnBefore
<1>10. OwnAfter(s, p)
  <2>1. Reached(p, s, Len(w)).secrets = new
    BY <1>3, <1>6, ReachedFields DEF s0
  <2>2. Reached(p, s, Len(w)).units[u] = NoUnit
    BY <1>m, ReachedFields
  <2>3. OwnSecrets(Reached(p, s, Len(w)), u)
    BY <1>a, <2>1, <2>2 DEF OwnSecrets
  <2>4. \A n \in 0 .. Len(w) : Len(w) <= n => n = Len(w)
    BY <1>l
  <2> QED
    BY <1>3, <2>3, <2>4 DEF OwnAfter
<1>11. LeavesOrphans(s, p)
  BY <1>3, <1>6 DEF LeavesOrphans
<1> QED
  BY <1>3, <1>7, <1>8, <1>9, <1>10, <1>11 DEF GoodPlan

LEMMA DropPortIsGood ==
    ASSUME NEW s \in Store, NEW p \in DropPortPlans(s)
    PROVE  GoodPlan(s, p)
<1> DEFINE s0 == s.secrets
<1>0. PICK u \in Known(s.units) : \E q \in s.units[u].ports :
        Without(s.units[u], q) \in Unit /\ p = DropPortPlan(s, u, q)
  BY DEF DropPortPlans
<1>1. PICK q \in s.units[u].ports :
        Without(s.units[u], q) \in Unit /\ p = DropPortPlan(s, u, q)
  BY <1>0
<1> DEFINE unit == Without(s.units[u], q)
<1> DEFINE new == StoreKey(s0, u, q, None)
<1> DEFINE w == Then(<<>>, s0, new)
<1>b. s.units[u] \in Unit /\ unit \in Unit
  BY <1>1 DEF Known, Store, Units
<1>2. u \in Ids /\ u \in Known(s.units) /\ q \in Ports /\ s0 \in Secrets /\ s.units \in Units
  BY <1>b, DataAssumption DEF Store, Known
<1>c. unit.ssh = s.units[u].ssh /\ unit.llm = s.units[u].llm /\ q \notin unit.ports
  BY <1>b, DataAssumption DEF Without
<1>3. p.id = u /\ p.units = [s.units EXCEPT ![u] = unit] /\ p.writes = w /\ p.undo = 0
  BY <1>1, PlanFields DEF DropPortPlan
<1>a. /\ new \in Secrets /\ new.pw = s0.pw
      /\ new.keys[u][q] = None
      /\ \A r \in Ports \ {q} : new.keys[u][r] = s0.keys[u][r]
      /\ \A v \in Ids \ {u} : new.keys[v] = s0.keys[v]
  BY <1>2, StoreKeyFacts
<1>d. s0.keys[u][q] = None => new = s0
  <2> SUFFICES ASSUME s0.keys[u][q] = None PROVE new = s0
    OBVIOUS
  <2> HIDE DEF s0, new
  <2>1. \A r \in Ports : new.keys[u][r] = s0.keys[u][r]
    BY <1>a
  <2>2. new.keys[u] = s0.keys[u]
    BY <1>2, <1>a, <2>1, SecretsFields
  <2>3. \A v \in Ids : new.keys[v] = s0.keys[v]
    BY <1>a, <2>2
  <2>4. new.keys = s0.keys
    BY <1>2, <1>a, <2>3, SecretsFields
  <2> QED
    BY <1>2, <1>a, <2>4, SecretsEqual
<1> HIDE DEF s0, new, unit
<1>4. <<>> \in Seq(Secrets) /\ Newest(s0, <<>>) = s0 /\ Len(<<>>) = 0
  BY DEF Newest
<1>5. /\ w \in Seq(Secrets) /\ Newest(s0, w) = new
      /\ \/ w = <<>> /\ new = s0
         \/ OneMore(w, <<>>, new) /\ new # s0
  BY <1>2, <1>a, <1>4, ThenFacts
<1> HIDE DEF w
<1>6. \/ Len(w) = 0 /\ new = s0
      \/ Len(w) = 1 /\ new = w[1] /\ new # s0
  BY <1>4, <1>5 DEF OneMore
<1>l. Len(w) \in Nat /\ Len(w) <= 1
  BY <1>4, <1>5 DEF OneMore
<1>7. PlanType(p)
  BY <1>2, <1>b, <1>3, <1>5, <1>6, UnitChange DEF PlanType
<1>8. OneUnit(s, p)
  <2>1. \A v \in Ids \ {u} : p.units[v] = s.units[v]
    BY <1>2, <1>b, <1>3, UnitChange
  <2>2. OthersKept(new, s0, u)
    BY <1>a DEF OthersKept
  <2>3. \A n \in 1 .. Len(w) : w[n] = new
    BY <1>6
  <2> QED
    BY <1>3, <2>1, <2>2, <2>3 DEF OneUnit, s0
<1>9. OwnBefore(s, p)
  BY <1>3 DEF OwnBefore
<1>e. ASSUME NEW n \in 0 .. Len(w)
      PROVE  /\ Reached(p, s, n).units[u] = unit
             /\ Reached(p, s, n).secrets = IF n = Len(w) THEN new ELSE s0
  <2>1. n = 0 \/ n = Len(w)
    BY <1>l
  <2>2. Reached(p, s, n).secrets = IF n = Len(w) THEN new ELSE s0
    BY <1>3, <1>6, <2>1, ReachedFields DEF s0
  <2> QED
    BY <2>2, <1>2, <1>b, <1>3, UnitChange, ReachedFields
<1>10. ASSUME OwnSecrets(s, u) PROVE OwnAfter(s, p)
  <2>1. /\ s0.pw[u] \in {None, unit.ssh}
        /\ \A r \in Ports : s0.keys[u][r] \in {None, unit.llm}
    BY <1>2, <1>b, <1>c, <1>10, DataAssumption DEF OwnSecrets, s0
  <2>2. /\ new.pw[u] \in {None, unit.ssh}
        /\ \A r \in Ports : new.keys[u][r] \in {None, unit.llm}
    BY <2>1, <1>a
  <2>3. ASSUME NEW n \in 0 .. Len(w) PROVE OwnSecrets(Reached(p, s, n), u)
    BY <1>2, <1>b, <1>e, <2>1, <2>2, OwnOfUnit
  <2> QED
    BY <1>3, <2>3 DEF OwnAfter
<1>11. LeavesOrphans(s, p)
  <2> SUFFICES ASSUME NEW n \in 0 .. Len(w), n < Len(w)
               PROVE  p.units[u] # NoUnit /\ OrphansOf(Reached(p, s, n), u) # {}
    BY <1>3 DEF LeavesOrphans
  <2>1. s0.keys[u][q] # None
    BY <1>d, <1>6
  <2>2. /\ Reached(p, s, n).units[u] = unit /\ Reached(p, s, n).secrets = s0
        /\ p.units[u] = unit
    BY <1>e, ReachedFields
  <2>3. q \in OrphansOf(Reached(p, s, n), u)
    BY <1>2, <1>c, <2>1, <2>2 DEF OrphansOf
  <2> QED
    BY <1>b, <2>2, <2>3, DataAssumption
<1> QED
  BY <1>3, <1>7, <1>8, <1>9, <1>10, <1>11 DEF GoodPlan

LEMMA ConcatFacts ==
    ASSUME NEW w \in Seq(Secrets), NEW t \in Seq(Secrets)
    PROVE  /\ w \o t \in Seq(Secrets) /\ Len(w \o t) = Len(w) + Len(t)
           /\ \A n \in 1 .. Len(w) : (w \o t)[n] = w[n]
           /\ \A n \in 1 .. Len(t) : (w \o t)[Len(w) + n] = t[n]
OBVIOUS

LEMMA NewestFacts ==
    ASSUME NEW s, NEW w \in Seq(Secrets)
    PROVE  Newest(s, w) = IF Len(w) = 0 THEN s ELSE w[Len(w)]
BY DEF Newest

LEMMA UpdateIsGood ==
    ASSUME NEW s \in Store, NEW p \in UpdatePlans(s)
    PROVE  GoodPlan(s, p)
<1> DEFINE s0 == s.secrets
<1>1. PICK u \in Known(s.units), unit \in Unit, word \in Passwords, sync \in BOOLEAN :
        p = UpdatePlan(s, u, unit, word, sync)
  BY DEF UpdatePlans
<1> DEFINE w == UpdateWrites(s, u, unit, word)
<1> DEFINE x == Newest(s0, w)
<1> DEFINE t == IF sync \/ ~(s.units[u].ports \subseteq unit.ports)
                THEN SyncWrites(x, u, s.units[u].ports, unit.ports) ELSE <<>>
<1> DEFINE all == w \o t
<1>2. u \in Ids /\ s0 \in Secrets /\ s.units \in Units /\ s.units[u] \in Unit
  BY DEF Store, Known, Units
<1>3. p.id = u /\ p.units = [s.units EXCEPT ![u] = unit] /\ p.writes = all /\ p.undo = Len(w)
  <2>1. p = Plan(u, [s.units EXCEPT ![u] = unit], all, Len(w))
    BY <1>1, Zenon DEF UpdatePlan
  <2> HIDE DEF all, w
  <2> QED
    BY <2>1, PlanFields
<1>4. /\ w \in Seq(Secrets) /\ x \in Secrets
      /\ \A n \in 1 .. Len(w) : OthersKept(w[n], s0, u)
      /\ OthersKept(x, s0, u)
      /\ \A n \in 1 .. Len(w) : n < Len(w) =>
           /\ w[n].pw[u] \in {None, s0.pw[u]}
           /\ \A r \in Ports : w[n].keys[u][r] \in {None, s0.keys[u][r]}
      /\ OwnSecrets(s, u) =>
           /\ x.pw[u] \in {None, unit.ssh}
           /\ \A r \in Ports : x.keys[u][r] \in {None, unit.llm}
  BY UpdateWritesFacts
<1>x. x = IF Len(w) = 0 THEN s0 ELSE w[Len(w)]
  BY <1>4, NewestFacts
<1> HIDE DEF w, x, s0
<1>5. /\ t \in Seq(Secrets)
      /\ \A n \in 1 .. Len(t) :
           /\ OthersKept(t[n], x, u) /\ t[n].pw = x.pw
           /\ \A r \in Ports : t[n].keys[u][r] # None =>
                \E q \in Ports : t[n].keys[u][r] = x.keys[u][q]
           /\ n < Len(t) => \E r \in Ports \ unit.ports : t[n].keys[u][r] # None
      /\ Len(t) > 0 => \E r \in Ports \ unit.ports : x.keys[u][r] # None
  <2>1. CASE t = SyncWrites(x, u, s.units[u].ports, unit.ports)
    <3> DEFINE ps == s.units[u].ports
    <3> DEFINE y == SyncWrites(x, u, ps, unit.ports)
    <3>1. /\ y \in Seq(Secrets)
          /\ \A n \in 1 .. Len(y) :
               /\ OthersKept(y[n], x, u) /\ y[n].pw = x.pw
               /\ \A r \in Ports : y[n].keys[u][r] # None =>
                    \E q \in Ports : y[n].keys[u][r] = x.keys[u][q]
               /\ n < Len(y) => \E r \in Ports \ unit.ports : y[n].keys[u][r] # None
          /\ Len(y) > 0 => \E r \in Ports \ unit.ports : x.keys[u][r] # None
      <4> HIDE DEF ps, t
      <4>1. x \in Secrets /\ u \in Ids
        BY <1>2, <1>4
      <4> QED
        BY <4>1, SyncWritesFacts
    <3>2. t = y
      BY <2>1
    <3> HIDE DEF t, y
    <3> QED
      BY <3>1, <3>2, Zenon
  <2>2. CASE t = <<>>
    <3> HIDE DEF t
    <3>1. t \in Seq(Secrets) /\ Len(t) = 0
      BY <2>2
    <3>2. 1 .. Len(t) = {} /\ ~(Len(t) > 0)
      BY <3>1
    <3> QED
      BY <3>1, <3>2
  <2> QED
    BY <2>1, <2>2
<1> HIDE DEF t
<1>6. /\ all \in Seq(Secrets) /\ Len(all) = Len(w) + Len(t)
      /\ \A n \in 1 .. Len(w) : all[n] = w[n]
      /\ \A n \in 1 .. Len(t) : all[Len(w) + n] = t[n]
  BY <1>4, <1>5, ConcatFacts
<1> HIDE DEF all
<1>l. Len(w) \in Nat /\ Len(t) \in Nat
  BY <1>4, <1>5
<1>7. PlanType(p)
  <2>1. p.units \in Units
    BY <1>2, <1>3, UnitChange
  <2>2. Len(w) \in 0 .. Len(all)
    BY <1>6, <1>l
  <2> QED
    BY <1>2, <1>3, <1>6, <2>1, <2>2 DEF PlanType
\* The n-th write from the point of no return on.
<1>8. ASSUME NEW n \in 0 .. Len(all), Len(w) <= n
      PROVE  /\ Reached(p, s, n).units[u] = unit
             /\ Reached(p, s, n).secrets = IF n = Len(w) THEN x ELSE t[n - Len(w)]
             /\ n # Len(w) => n - Len(w) \in 1 .. Len(t)
  <2>1. Reached(p, s, n).units[u] = unit
    BY <1>2, <1>3, UnitChange, ReachedFields
  <2>2. n # Len(w) => n - Len(w) \in 1 .. Len(t) /\ n = Len(w) + (n - Len(w)) /\ n # 0
    BY <1>6, <1>l, <1>8
  <2>3. n # Len(w) => all[n] = t[n - Len(w)]
    BY <1>6, <2>2
  <2>4. Reached(p, s, n).secrets = IF n = 0 THEN s0 ELSE all[n]
    BY <1>3, ReachedFields DEF s0
  <2>5. n = Len(w) => Reached(p, s, n).secrets = x
    <3>1. CASE Len(w) = 0
      BY <1>x, <2>4, <3>1
    <3>2. CASE Len(w) # 0
      <4>1. Len(w) \in 1 .. Len(w)
        BY <1>l, <3>2
      <4> QED
        BY <1>x, <1>6, <2>4, <3>2, <4>1
    <3> QED
      BY <3>1, <3>2
  <2> QED
    BY <2>1, <2>2, <2>3, <2>4, <2>5
<1>9. OneUnit(s, p)
  <2>1. \A v \in Ids \ {u} : p.units[v] = s.units[v]
    BY <1>2, <1>3, UnitChange
  <2>2. ASSUME NEW n \in 1 .. Len(all) PROVE OthersKept(all[n], s0, u)
    <3>1. CASE n <= Len(w)
      BY <1>4, <1>6, <1>l, <3>1
    <3>2. CASE Len(w) < n
      <4>1. n - Len(w) \in 1 .. Len(t) /\ n = Len(w) + (n - Len(w))
        BY <1>6, <1>l, <3>2
      <4>2. all[n] = t[n - Len(w)] /\ OthersKept(t[n - Len(w)], x, u)
        BY <1>5, <1>6, <4>1
      <4> QED
        BY <1>4, <4>2 DEF OthersKept
    <3> QED
      BY <1>l, <3>1, <3>2
  <2> QED
    BY <1>3, <2>1, <2>2 DEF OneUnit, s0
<1>10. ASSUME OwnSecrets(s, u) PROVE OwnBefore(s, p)
  <2> SUFFICES ASSUME NEW n \in 1 .. Len(all), n < Len(w)
               PROVE  OwnSecrets([units |-> s.units, secrets |-> all[n]], u)
    BY <1>3 DEF OwnBefore
  <2>1. n \in 1 .. Len(w)
    BY <1>l, <1>6
  <2>2. /\ all[n].pw[u] \in {None, s0.pw[u]}
        /\ \A r \in Ports : all[n].keys[u][r] \in {None, s0.keys[u][r]}
    BY <1>4, <1>6, <2>1
  <2>3. /\ s0.pw[u] \in {None, s.units[u].ssh}
        /\ \A r \in Ports : s0.keys[u][r] \in {None, s.units[u].llm}
    BY <1>2, <1>10, DataAssumption DEF OwnSecrets, s0
  <2> DEFINE mix == [units |-> s.units, secrets |-> all[n]]
  <2>4. mix.units = s.units /\ mix.secrets = all[n]
    OBVIOUS
  <2> HIDE DEF mix
  <2>5. OwnSecrets(mix, u)
    BY <1>2, <2>2, <2>3, <2>4, OwnOfUnit
  <2> QED
    BY <2>5 DEF mix
<1>11. ASSUME OwnSecrets(s, u) PROVE OwnAfter(s, p)
  <2> SUFFICES ASSUME NEW n \in 0 .. Len(all), Len(w) <= n
               PROVE  OwnSecrets(Reached(p, s, n), u)
    BY <1>3 DEF OwnAfter
  <2>1. /\ x.pw[u] \in {None, unit.ssh}
        /\ \A r \in Ports : x.keys[u][r] \in {None, unit.llm}
    BY <1>4, <1>11
  <2>2. CASE n = Len(w)
    BY <1>2, <1>8, <2>1, <2>2, OwnOfUnit
  <2>3. CASE n # Len(w)
    <3>1. n - Len(w) \in 1 .. Len(t) /\ Reached(p, s, n).secrets = t[n - Len(w)]
      BY <1>8, <2>3
    <3>2. /\ t[n - Len(w)].pw = x.pw
          /\ \A r \in Ports : t[n - Len(w)].keys[u][r] \in {None, unit.llm}
      BY <1>5, <2>1, <3>1
    <3>3. Reached(p, s, n).units[u] = unit
      BY <1>8
    <3> QED
      BY <1>2, <2>1, <3>1, <3>2, <3>3, OwnOfUnit
  <2> QED
    BY <2>2, <2>3
<1>12. LeavesOrphans(s, p)
  <2> SUFFICES ASSUME NEW n \in 0 .. Len(all), Len(w) <= n, n < Len(all)
               PROVE  p.units[u] # NoUnit /\ OrphansOf(Reached(p, s, n), u) # {}
    BY <1>3 DEF LeavesOrphans
  <2>1. Reached(p, s, n).units[u] = unit /\ p.units[u] = unit
    BY <1>8, ReachedFields
  <2>2. \E r \in Ports \ unit.ports : Reached(p, s, n).secrets.keys[u][r] # None
    <3>1. CASE n = Len(w)
      <4>1. Len(t) > 0
        BY <1>6, <1>l, <3>1
      <4> QED
        BY <1>5, <1>8, <3>1, <4>1
    <3>2. CASE n # Len(w)
      <4>1. n - Len(w) \in 1 .. Len(t) /\ n - Len(w) < Len(t)
        BY <1>6, <1>8, <1>l, <3>2
      <4> QED
        BY <1>5, <1>8, <3>2, <4>1
    <3> QED
      BY <3>1, <3>2
  <2>3. OrphansOf(Reached(p, s, n), u) # {}
    BY <2>1, <2>2 DEF OrphansOf
  <2> QED
    BY <2>1, <2>3, DataAssumption
<1> QED
  BY <1>3, <1>7, <1>9, <1>10, <1>11, <1>12 DEF GoodPlan

LEMMA PlansAreGood ==
    ASSUME NEW s \in Store, NEW p \in Plans(s)
    PROVE  GoodPlan(s, p)
BY AddIsGood, UpdateIsGood, DropPortIsGood, RemoveIsGood DEF Plans

LEMMA PlanShape ==
    ASSUME NEW s \in Store, NEW p \in Plans(s)
    PROVE  p = Plan(p.id, p.units, p.writes, p.undo)
<1>1. CASE p \in AddPlans(s)
  <2>1. PICK u \in Ids \ Known(s.units), unit \in Unit, word \in Passwords :
          p = AddPlan(s, u, unit, word)
    BY <1>1 DEF AddPlans
  <2> QED
    BY <2>1, PlanFields DEF AddPlan
<1>2. CASE p \in UpdatePlans(s)
  <2>1. PICK u \in Known(s.units), unit \in Unit, word \in Passwords, sync \in BOOLEAN :
          p = UpdatePlan(s, u, unit, word, sync)
    BY <1>2 DEF UpdatePlans
  <2> QED
    BY <2>1, PlanFields DEF UpdatePlan
<1>3. CASE p \in DropPortPlans(s)
  <2>1. \E u \in Known(s.units) : \E q \in s.units[u].ports : p = DropPortPlan(s, u, q)
    BY <1>3 DEF DropPortPlans
  <2> QED
    BY <2>1, PlanFields DEF DropPortPlan
<1>4. CASE p \in RemovePlans(s)
  <2>1. PICK u \in Known(s.units) : p = RemovePlan(s, u)
    BY <1>4 DEF RemovePlans
  <2> QED
    BY <2>1, PlanFields DEF RemovePlan
<1> QED
  BY <1>1, <1>2, <1>3, <1>4 DEF Plans

\* Setting a password or a key from the settings keeps a unit's secrets its own.
LEMMA SecretEditsAreGood ==
    ASSUME NEW s \in Store, NEW e \in SecretEdits(s)
    PROVE  /\ e[1] \in Known(s.units) /\ e[2] \in Secrets
           /\ OthersKept(e[2], s.secrets, e[1])
           /\ OwnSecrets(s, e[1]) => OwnSecrets([units |-> s.units, secrets |-> e[2]], e[1])
<1> DEFINE good(u, x) ==
      /\ x \in Secrets /\ OthersKept(x, s.secrets, u)
      /\ OwnSecrets(s, u) => OwnSecrets([units |-> s.units, secrets |-> x], u)
<1>1. ASSUME NEW u \in Known(s.units)
      PROVE  /\ u \in Ids /\ s.secrets \in Secrets /\ s.units[u] \in Unit
             /\ s.units[u].ssh \in Hosts /\ s.units[u].llm \in Hosts
             /\ OwnSecrets(s, u) => /\ s.secrets.pw[u] \in {None, s.units[u].ssh}
                                    /\ \A p \in Ports : s.secrets.keys[u][p] \in {None, s.units[u].llm}
  <2>1. u \in Ids /\ s.secrets \in Secrets /\ s.units[u] \in Unit
    BY DEF Known, Store, Units
  <2> QED
    BY <2>1, DataAssumption DEF OwnSecrets
<1>2. ASSUME NEW u \in Known(s.units), NEW x \in Secrets, OthersKept(x, s.secrets, u),
             OwnSecrets(s, u) => /\ x.pw[u] \in {None, s.units[u].ssh}
                                 /\ \A p \in Ports : x.keys[u][p] \in {None, s.units[u].llm}
      PROVE  good(u, x)
  <2> DEFINE mix == [units |-> s.units, secrets |-> x]
  <2>1. mix.units = s.units /\ mix.secrets = x
    OBVIOUS
  <2> HIDE DEF mix
  <2>2. OwnSecrets(s, u) => OwnSecrets(mix, u)
    BY <1>1, <1>2, <2>1, OwnOfUnit
  <2> QED
    BY <1>2, <2>2 DEF mix
<1>3. ASSUME NEW u \in Known(s.units), NEW h \in {s.units[u].ssh}
      PROVE  good(u, StorePassword(s.secrets, u, h))
  <2> DEFINE x == StorePassword(s.secrets, u, h)
  <2>1. /\ x \in Secrets /\ x.keys = s.secrets.keys /\ x.pw[u] = h
        /\ \A v \in Ids \ {u} : x.pw[v] = s.secrets.pw[v]
    BY <1>1, StorePasswordFacts
  <2> HIDE DEF x
  <2>2. OthersKept(x, s.secrets, u)
    BY <2>1 DEF OthersKept
  <2>3. good(u, x)
    <3> HIDE DEF good
    <3> QED BY <1>1, <1>2, <2>1, <2>2
  <2> QED
    BY <2>3 DEF x
<1>4. ASSUME NEW u \in Known(s.units), NEW p \in Ports, NEW h \in {None, s.units[u].llm}
      PROVE  good(u, StoreKey(s.secrets, u, p, h))
  <2> DEFINE x == StoreKey(s.secrets, u, p, h)
  <2>1. /\ x \in Secrets /\ x.pw = s.secrets.pw /\ x.keys[u][p] = h
        /\ \A q \in Ports \ {p} : x.keys[u][q] = s.secrets.keys[u][q]
        /\ \A v \in Ids \ {u} : x.keys[v] = s.secrets.keys[v]
    BY <1>1, StoreKeyFacts
  <2> HIDE DEF x
  <2>2. OthersKept(x, s.secrets, u)
    BY <2>1 DEF OthersKept
  <2>3. good(u, x)
    <3> HIDE DEF good
    <3>1. OwnSecrets(s, u) => /\ x.pw[u] \in {None, s.units[u].ssh}
                              /\ \A q \in Ports : x.keys[u][q] \in {None, s.units[u].llm}
      BY <1>1, <2>1
    <3> QED BY <1>2, <2>1, <2>2, <3>1
  <2> QED
    BY <2>3 DEF x
<1>5. PICK u \in Known(s.units) :
        \/ e = <<u, StorePassword(s.secrets, u, s.units[u].ssh)>>
        \/ \E p \in Ports : \E h \in {None, s.units[u].llm} : e = <<u, StoreKey(s.secrets, u, p, h)>>
  BY DEF SecretEdits
<1>6. e[1] = u /\ good(u, e[2])
  <2>1. CASE e = <<u, StorePassword(s.secrets, u, s.units[u].ssh)>>
    <3> HIDE DEF good
    <3> QED BY <1>3, <2>1
  <2>2. ASSUME NEW p \in Ports, NEW h \in {None, s.units[u].llm},
               e = <<u, StoreKey(s.secrets, u, p, h)>>
        PROVE  e[1] = u /\ good(u, e[2])
    <3> HIDE DEF good
    <3> QED BY <1>4, <2>2
  <2> QED
    BY <1>5, <2>1, <2>2
<1> QED
  BY <1>6

-----------------------------------------------------------------------------
(* What the files and a request under way say, given the invariant. *)

LEMMA StoreFields ==
    ASSUME NEW s \in Store
    PROVE  s.units \in Units /\ s.secrets \in Secrets
           /\ s = [units |-> s.units, secrets |-> s.secrets]
BY DEF Store

DiskType(d) == d \in [units : Units, secrets : Secrets, plain : SUBSET Ids]

LEMMA PlainSecretsFacts ==
    ASSUME NEW d, DiskType(d), d.plain \subseteq Known(d.units)
    PROVE  /\ PlainSecrets(d) \in Secrets
           /\ PlainSecrets(d).keys = d.secrets.keys
           /\ \A u \in Ids : PlainSecrets(d).pw[u]
                = IF u \in d.plain THEN d.units[u].ssh ELSE d.secrets.pw[u]
<1> DEFINE f == [u \in Ids |-> IF u \in d.plain THEN d.units[u].ssh ELSE d.secrets.pw[u]]
<1>1. d.secrets \in Secrets /\ d.units \in Units
  BY DEF DiskType
<1>2. PlainSecrets(d) = [d.secrets EXCEPT !.pw = f]
  BY DEF PlainSecrets
<1>3. ASSUME NEW u \in Ids PROVE f[u] \in Hosts \union {None}
  <2>1. CASE u \in d.plain
    <3>1. d.units[u] \in Unit
      BY <1>1, <2>1 DEF Known, Units
    <3> QED
      BY <2>1, <3>1, DataAssumption
  <2>2. CASE u \notin d.plain
    BY <1>1, <2>2 DEF Secrets
  <2> QED
    BY <2>1, <2>2
<1>4. f \in [Ids -> Hosts \union {None}]
  BY <1>3
<1>5. \A u \in Ids : f[u] = IF u \in d.plain THEN d.units[u].ssh ELSE d.secrets.pw[u]
  OBVIOUS
<1> HIDE DEF f
<1> QED
  BY <1>1, <1>2, <1>4, <1>5 DEF Secrets

LEMMA PwEqual ==
    ASSUME NEW s \in Secrets, NEW t \in Secrets,
           \A u \in Ids : s.pw[u] = t.pw[u], s.keys = t.keys
    PROVE  s = t
<1>1. s.pw = t.pw
  BY DEF Secrets
<1> QED
  BY <1>1, SecretsEqual

LEMMA NothingPlain ==
    ASSUME NEW d, DiskType(d), d.plain = {}
    PROVE  PlainSecrets(d) = d.secrets
<1>1. d.secrets \in Secrets
  BY DEF DiskType
<1> QED
  BY <1>1, PlainSecretsFacts, PwEqual

LEMMA StoredType ==
    ASSUME DiskType(disk), PlainInv
    PROVE  /\ Stored \in Store /\ Stored.units = disk.units
           /\ Stored.secrets = PlainSecrets(disk)
           /\ disk.plain = {} => Stored.secrets = disk.secrets
<1>1. PlainSecrets(disk) \in Secrets /\ disk.units \in Units
  BY PlainSecretsFacts DEF DiskType, PlainInv
<1> QED
  BY <1>1, NothingPlain DEF Stored, Store

\* OwnSecrets and OrphansOf are about one unit.
LEMMA OwnOfSame ==
    ASSUME NEW a, NEW b, NEW u, OwnSecrets(a, u), a.units[u] = b.units[u],
           a.secrets.pw[u] = b.secrets.pw[u], a.secrets.keys[u] = b.secrets.keys[u]
    PROVE  OwnSecrets(b, u)
BY DEF OwnSecrets

LEMMA OrphansOfSame ==
    ASSUME NEW a, NEW b, NEW u, a.units[u] = b.units[u],
           a.secrets.keys[u] = b.secrets.keys[u]
    PROVE  OrphansOf(a, u) = OrphansOf(b, u)
BY DEF OrphansOf

LEMMA KnownFacts ==
    ASSUME NEW units, NEW u \in Ids
    PROVE  /\ u \in Known(units) <=> units[u] # NoUnit
           /\ units = NoUnits => Known(units) = {}
BY DEF Known, NoUnits

\* The secrets as a request has left them so far.
LEMMA RequestFacts ==
    ASSUME TypeOK, RequestInv, InRequest
    PROVE  /\ tx.id \in Ids
           /\ \A v \in Ids \ {tx.id} : /\ tx.units[v] = tx.was.units[v]
                                       /\ mem.secrets.pw[v] = tx.was.secrets.pw[v]
                                       /\ mem.secrets.keys[v] = tx.was.secrets.keys[v]
           /\ OwnSecrets(tx.was, tx.id) =>
                /\ tx.done < tx.undo => OwnSecrets(mem, tx.id)
                /\ tx.undo <= tx.done =>
                     OwnSecrets([units |-> tx.units, secrets |-> mem.secrets], tx.id)
           /\ tx.undo <= tx.done /\ tx.done < Len(tx.writes) =>
                /\ tx.units[tx.id] # NoUnit
                /\ OrphansOf([units |-> tx.units, secrets |-> mem.secrets], tx.id) # {}
<1> DEFINE p == Plan(tx.id, tx.units, tx.writes, tx.undo)
<1>1. /\ p.id = tx.id /\ p.units = tx.units /\ p.writes = tx.writes /\ p.undo = tx.undo
  BY PlanFields
<1>2. /\ tx.was \in Store /\ tx.done \in Nat /\ tx.undo \in Nat /\ mem \in Store
      /\ tx.writes \in Seq(Secrets)
  BY DEF TypeOK
<1>3. /\ p \in Plans(tx.was) /\ tx.done <= Len(tx.writes)
      /\ mem.units = tx.was.units
      /\ mem.secrets = IF tx.done = 0 THEN tx.was.secrets ELSE tx.writes[tx.done]
  BY DEF RequestInv
<1> HIDE DEF p
<1>4. GoodPlan(tx.was, p)
  BY <1>2, <1>3, PlansAreGood
<1>5. /\ Reached(p, tx.was, tx.done) = [units |-> tx.units, secrets |-> mem.secrets]
  BY <1>1, <1>3 DEF Reached
<1>6. tx.done \in 0 .. Len(p.writes) /\ (tx.done # 0 => tx.done \in 1 .. Len(p.writes))
  BY <1>1, <1>2, <1>3
<1>7. tx.id \in Ids
  BY <1>1, <1>4 DEF GoodPlan, PlanType
<1>8. ASSUME NEW v \in Ids \ {tx.id}
      PROVE  /\ tx.units[v] = tx.was.units[v]
             /\ mem.secrets.pw[v] = tx.was.secrets.pw[v]
             /\ mem.secrets.keys[v] = tx.was.secrets.keys[v]
  <2>1. tx.units[v] = tx.was.units[v]
    BY <1>1, <1>4 DEF GoodPlan, OneUnit
  <2>2. CASE tx.done = 0
    BY <1>3, <2>1, <2>2
  <2>3. CASE tx.done # 0
    <3>1. OthersKept(mem.secrets, tx.was.secrets, tx.id)
      BY <1>1, <1>3, <1>4, <1>6, <2>3 DEF GoodPlan, OneUnit
    <3> QED
      BY <2>1, <3>1 DEF OthersKept
  <2> QED
    BY <2>2, <2>3
<1>9. ASSUME OwnSecrets(tx.was, tx.id), tx.done < tx.undo PROVE OwnSecrets(mem, tx.id)
  <2>1. CASE tx.done = 0
    BY <1>3, <1>9, <2>1, OwnOfSame
  <2>2. CASE tx.done # 0
    <3>1. OwnBefore(tx.was, p)
      BY <1>1, <1>4, <1>9 DEF GoodPlan
    <3>2. OwnSecrets([units |-> tx.was.units, secrets |-> tx.writes[tx.done]], tx.id)
      BY <1>1, <1>6, <1>9, <2>2, <3>1 DEF OwnBefore
    <3>3. mem = [units |-> tx.was.units, secrets |-> tx.writes[tx.done]]
      BY <1>2, <1>3, <2>2, StoreFields
    <3> QED
      BY <3>2, <3>3
  <2> QED
    BY <2>1, <2>2
<1>10. ASSUME OwnSecrets(tx.was, tx.id), tx.undo <= tx.done
       PROVE  OwnSecrets([units |-> tx.units, secrets |-> mem.secrets], tx.id)
  <2>1. OwnAfter(tx.was, p)
    BY <1>1, <1>4, <1>10 DEF GoodPlan
  <2> QED
    BY <1>1, <1>5, <1>6, <1>10, <2>1 DEF OwnAfter
<1>11. ASSUME tx.undo <= tx.done, tx.done < Len(tx.writes)
       PROVE  /\ tx.units[tx.id] # NoUnit
              /\ OrphansOf([units |-> tx.units, secrets |-> mem.secrets], tx.id) # {}
  BY <1>1, <1>4, <1>5, <1>6, <1>11 DEF GoodPlan, LeavesOrphans
<1> QED
  BY <1>7, <1>8, <1>9, <1>10, <1>11

-----------------------------------------------------------------------------
(* The types. *)

TxType(x) ==
    x \in [id : Ids \union {None}, units : Units, writes : Seq(Secrets), undo : Nat,
           done : Nat, was : Store, file : Store, faults : Nat]

LEMMA TypeParts ==
    TypeOK <=> /\ DiskType(disk) /\ mem \in Store /\ monitors \in [Ids -> Copies] /\ pc \in PCs
               /\ TxType(tx) /\ apart \in BOOLEAN /\ torn \subseteq Ids
BY DEF TypeOK, DiskType, TxType

LEMMA ConstantTypes ==
    /\ NoUnits \in Units /\ NoSecrets \in Secrets /\ Nothing \in Store /\ TxType(NoTx)
    /\ NoTx.faults = 0
<1>1. NoUnits \in Units
  BY DEF NoUnits, Units
<1>2. NoSecrets \in Secrets
  BY DEF NoSecrets, Secrets
<1>3. Nothing \in Store
  BY <1>1, <1>2 DEF Nothing, Store
<1>4. <<>> \in Seq(Secrets)
  OBVIOUS
<1>5. TxType(NoTx)
  BY <1>1, <1>3, <1>4 DEF NoTx, TxType
<1> QED
  BY <1>1, <1>2, <1>3, <1>5 DEF NoTx

LEMMA GivenFacts ==
    ASSUME NEW s \in Store, NEW u \in Ids
    PROVE  Given(s, u) \in Copies /\ RunsWith(Given(s, u), s, u)
<1>1. s.units \in Units /\ s.secrets \in Secrets
  BY StoreFields
<1>2. s.units[u] \in Unit \union {NoUnit}
  BY <1>1 DEF Units
<1> QED
  BY <1>1, <1>2, SecretsFields DEF Given, Copies, RunsWith

LEMMA GivenToFacts ==
    ASSUME NEW s \in Store
    PROVE  /\ GivenTo(s) \in [Ids -> Copies]
           /\ \A u \in Ids : GivenTo(s)[u] = Given(s, u)
BY GivenFacts DEF GivenTo

LEMMA TestedType ==
    ASSUME NEW m \in [Ids -> Copies], NEW u \in Ids
    PROVE  /\ [m EXCEPT ![u].tested = TRUE] \in [Ids -> Copies]
           /\ \A v \in Ids \ {u} : [m EXCEPT ![u].tested = TRUE][v] = m[v]
           /\ [m EXCEPT ![u].tested = TRUE][u] = [m[u] EXCEPT !.tested = TRUE]
<1>1. m[u] \in Copies
  OBVIOUS
<1>2. [m[u] EXCEPT !.tested = TRUE] \in Copies
  BY <1>1 DEF Copies
<1>3. [m EXCEPT ![u].tested = TRUE] = [m EXCEPT ![u] = [m[u] EXCEPT !.tested = TRUE]]
  OBVIOUS
<1> QED
  BY <1>2, <1>3

LEMMA FailedType ==
    ASSUME TxType(tx)
    PROVE  /\ TxType(Failed)
           /\ Failed.id = tx.id /\ Failed.units = tx.units /\ Failed.writes = tx.writes
           /\ Failed.undo = tx.undo /\ Failed.done = tx.done /\ Failed.was = tx.was
           /\ Failed.file = tx.file
BY DEF TxType, Failed

LEMMA DiskChanges ==
    ASSUME NEW d, DiskType(d)
    PROVE  /\ \A x \in Secrets : /\ DiskType([d EXCEPT !.secrets = x])
                                 /\ [d EXCEPT !.secrets = x].secrets = x
                                 /\ [d EXCEPT !.secrets = x].units = d.units
                                 /\ [d EXCEPT !.secrets = x].plain = d.plain
           /\ \A x \in Units : /\ DiskType([d EXCEPT !.units = x])
                               /\ [d EXCEPT !.units = x].units = x
                               /\ [d EXCEPT !.units = x].secrets = d.secrets
                               /\ [d EXCEPT !.units = x].plain = d.plain
           /\ \A x \in SUBSET Ids : /\ DiskType([d EXCEPT !.plain = x])
                                    /\ [d EXCEPT !.plain = x].plain = x
                                    /\ [d EXCEPT !.plain = x].units = d.units
                                    /\ [d EXCEPT !.plain = x].secrets = d.secrets
           /\ \A x \in Units : /\ DiskType([d EXCEPT !.units = x, !.plain = {}])
                               /\ [d EXCEPT !.units = x, !.plain = {}].units = x
                               /\ [d EXCEPT !.units = x, !.plain = {}].secrets = d.secrets
                               /\ [d EXCEPT !.units = x, !.plain = {}].plain = {}
           /\ d.units \in Units /\ d.secrets \in Secrets /\ d.plain \subseteq Ids
BY DEF DiskType

LEMMA SecretsSaved ==
    ASSUME NEW d, NEW e, NEW x \in Secrets, DiskType(d), e = [d EXCEPT !.secrets = x]
    PROVE  DiskType(e) /\ e.secrets = x /\ e.units = d.units /\ e.plain = d.plain
BY DEF DiskType

LEMMA PlainSaved ==
    ASSUME NEW d, NEW e, NEW x \in SUBSET Ids, DiskType(d), e = [d EXCEPT !.plain = x]
    PROVE  DiskType(e) /\ e.secrets = d.secrets /\ e.units = d.units /\ e.plain = x
BY DEF DiskType

LEMMA UnitsTakenBack ==
    ASSUME NEW d, NEW e, NEW x \in Units, DiskType(d), e = [d EXCEPT !.units = x]
    PROVE  DiskType(e) /\ e.secrets = d.secrets /\ e.units = x /\ e.plain = d.plain
BY DEF DiskType

LEMMA SecretsHeld ==
    ASSUME NEW s \in Store, NEW t, NEW x \in Secrets, t = [s EXCEPT !.secrets = x]
    PROVE  t \in Store /\ t.secrets = x /\ t.units = s.units
BY DEF Store

LEMMA UnitsHeld ==
    ASSUME NEW s \in Store, NEW t, NEW x \in Units, t = [s EXCEPT !.units = x]
    PROVE  t \in Store /\ t.secrets = s.secrets /\ t.units = x
BY DEF Store

LEMMA MemChanges ==
    ASSUME NEW s \in Store
    PROVE  /\ \A x \in Secrets : /\ [s EXCEPT !.secrets = x] \in Store
                                 /\ [s EXCEPT !.secrets = x].secrets = x
                                 /\ [s EXCEPT !.secrets = x].units = s.units
           /\ \A x \in Units : /\ [s EXCEPT !.units = x] \in Store
                               /\ [s EXCEPT !.units = x].units = x
                               /\ [s EXCEPT !.units = x].secrets = s.secrets
BY DEF Store

LEMMA TxFields ==
    ASSUME TxType(tx)
    PROVE  /\ tx.units \in Units /\ tx.writes \in Seq(Secrets) /\ tx.undo \in Nat
           /\ tx.done \in Nat /\ tx.was \in Store /\ tx.file \in Store /\ tx.faults \in Nat
           /\ tx.done < Len(tx.writes) => tx.writes[tx.done + 1] \in Secrets
<1>1. /\ tx.units \in Units /\ tx.writes \in Seq(Secrets) /\ tx.undo \in Nat
      /\ tx.done \in Nat /\ tx.was \in Store /\ tx.file \in Store /\ tx.faults \in Nat
  BY DEF TxType
<1>2. tx.done < Len(tx.writes) => tx.done + 1 \in 1 .. Len(tx.writes)
  BY <1>1
<1> QED
  BY <1>1, <1>2

LEMMA MovedType ==
    ASSUME NEW s \in Store, NEW u \in Known(s.units), NEW p \in Ports, NEW q \in Ports,
           s.secrets.keys[u][p] # None, s.secrets.keys[u][q] = None
    PROVE  MoveKey(s.secrets, u, p, q) \in Secrets /\ u \in Ids /\ p # q
BY MoveKeyFacts, StoreFields DEF Known

LEMMA RenamedFacts ==
    ASSUME NEW u, NEW p, NEW q, Renamed(u, p, q)
    PROVE  /\ mem.secrets.keys[u][p] # None /\ mem.secrets.keys[u][q] = None
           /\ p \in Ports /\ p \notin mem.units[u].ports /\ q \in mem.units[u].ports
BY DEF Renamed, Orphans, Missing

\* What Begin notes down.
LEMMA BeginType ==
    ASSUME NEW s \in Store, NEW f \in Store, NEW p, PlanType(p)
    PROVE  TxType([id |-> p.id, units |-> p.units, writes |-> p.writes, undo |-> p.undo,
                   done |-> 0, was |-> s, file |-> f, faults |-> 0])
<1>1. /\ p.id \in Ids \union {None} /\ p.units \in Units /\ p.writes \in Seq(Secrets)
      /\ p.undo \in Nat
  BY DEF PlanType
<1> QED
  BY <1>1 DEF TxType

\* The test of a connection: an edit of the secrets of which the monitor is not told.
Saved(u) == StorePassword(mem.secrets, u, mem.units[u].ssh)
TestOf(u) ==
    /\ disk' = [disk EXCEPT !.secrets = Saved(u)]
    /\ mem' = [mem EXCEPT !.secrets = Saved(u)]
    /\ monitors' = [monitors EXCEPT ![u].tested = TRUE]

LEMMA TestPasswordCases ==
    ASSUME TestPassword
    PROVE  /\ pc = "idle" /\ UNCHANGED <<pc, tx, apart, torn>>
           /\ \E u \in Known(mem.units) : TestOf(u)
BY Zenon DEF TestPassword, TestOf, Saved

LEMMA TestedEdit ==
    ASSUME NEW u \in Known(mem.units)
    PROVE  <<u, Saved(u)>> \in SecretEdits(mem)
BY DEF SecretEdits, Saved

LEMMA TypeStep ==
    ASSUME IInv, Next
    PROVE  TypeOK'
<1>0. /\ DiskType(disk) /\ mem \in Store /\ monitors \in [Ids -> Copies] /\ pc \in PCs
      /\ TxType(tx) /\ apart \in BOOLEAN /\ torn \subseteq Ids /\ TypeOK /\ PlainInv
  BY TypeParts DEF IInv
<1>s. Stored \in Store
  BY <1>0, StoredType
<1>e. Ended => mem' \in Store /\ monitors' \in [Ids -> Copies] /\ pc' \in PCs /\ TxType(tx') /\ apart' \in BOOLEAN
  BY ConstantTypes, GivenToFacts DEF Ended, PCs
<1> SUFFICES /\ DiskType(disk') /\ mem' \in Store /\ monitors' \in [Ids -> Copies] /\ pc' \in PCs
             /\ TxType(tx') /\ apart' \in BOOLEAN /\ torn' \subseteq Ids
  BY DEF TypeOK, DiskType, TxType
<1>f. ASSUME LoadFails PROVE /\ DiskType(disk') /\ mem' \in Store /\ monitors' \in [Ids -> Copies] /\ pc' \in PCs
                             /\ TxType(tx') /\ apart' \in BOOLEAN /\ torn' \subseteq Ids
  BY <1>0, <1>f, ConstantTypes, MemChanges, FailedType DEF LoadFails, PCs
<1>1. CASE Load
  BY <1>0, <1>s, <1>1 DEF Load, PCs
<1>2. CASE Migrate
  <2>1. CASE LoadFails
    BY <1>f, <2>1
  <2>2. CASE disk' = [disk EXCEPT !.secrets = mem.secrets] /\ pc' = "strip"
             /\ UNCHANGED <<mem, monitors, tx, apart, torn>>
    <3>1. DiskType(disk')
      BY <1>0, <2>2, DiskChanges, StoreFields
    <3> QED
      BY <1>0, <2>2, <3>1 DEF PCs
  <2> QED
    BY <1>2, <2>1, <2>2 DEF Migrate
<1>3. CASE Strip
  <2>1. CASE LoadFails
    BY <1>f, <2>1
  <2>2. CASE disk' = [disk EXCEPT !.plain = {}] /\ pc' = "reconcile"
             /\ UNCHANGED <<mem, monitors, tx, apart, torn>>
    <3>1. DiskType(disk')
      BY <1>0, <2>2, DiskChanges
    <3> QED
      BY <1>0, <2>2, <3>1 DEF PCs
  <2> QED
    BY <1>3, <2>1, <2>2 DEF Strip
<1>4. CASE Reconcile
  <2>1. PICK u \in Known(mem.units), p \in Ports, q \in Ports :
          /\ Renamed(u, p, q)
          /\ LET moved == MoveKey(mem.secrets, u, p, q) IN
             \/ /\ disk' = [disk EXCEPT !.secrets = moved]
                /\ mem' = [mem EXCEPT !.secrets = moved]
                /\ UNCHANGED <<monitors, pc, tx, apart, torn>>
             \/ MayFail /\ Ended /\ UNCHANGED <<disk, torn>>
    BY <1>4, Zenon DEF Reconcile
  <2> DEFINE moved == MoveKey(mem.secrets, u, p, q)
  <2>2. moved \in Secrets
    BY <1>0, <2>1, RenamedFacts, MovedType
  <2> HIDE DEF moved
  <2>3. CASE Ended /\ UNCHANGED <<disk, torn>>
    BY <1>0, <1>e, <2>3
  <2>4. CASE /\ disk' = [disk EXCEPT !.secrets = moved]
             /\ mem' = [mem EXCEPT !.secrets = moved]
             /\ UNCHANGED <<monitors, pc, tx, apart, torn>>
    <3>1. DiskType(disk') /\ mem' \in Store
      BY <1>0, <2>2, <2>4, DiskChanges, MemChanges
    <3> QED
      BY <1>0, <2>4, <3>1
  <2> QED
    BY <2>1, <2>3, <2>4 DEF moved
<1>5. CASE Serve
  BY <1>0, <1>5, ConstantTypes, GivenToFacts DEF Serve, PCs
<1>6. CASE Begin
  <2>1. PICK p \in Plans(mem) :
          /\ tx' = [id |-> p.id, units |-> p.units, writes |-> p.writes, undo |-> p.undo,
                    done |-> 0, was |-> mem, file |-> Stored, faults |-> 0]
          /\ disk' = [disk EXCEPT !.units = p.units, !.plain = {}]
    BY <1>6, Zenon DEF Begin
  <2>2. PlanType(p) /\ p.units \in Units
    BY <1>0, PlansAreGood DEF GoodPlan, PlanType
  <2>3. TxType(tx')
    BY <1>0, <1>s, <2>1, <2>2, BeginType, Zenon
  <2>4. DiskType(disk')
    BY <1>0, <2>1, <2>2, DiskChanges
  <2> QED
    BY <1>0, <1>6, <2>3, <2>4 DEF Begin, PCs
<1>7. CASE WriteSecrets
  <2>1. DiskType(disk') /\ mem' \in Store
    BY <1>0, <1>7, TxFields, DiskChanges, MemChanges DEF WriteSecrets
  <2>2. TxType(tx')
    BY <1>0, <1>7, SMTT(30) DEF WriteSecrets, TxType
  <2> QED
    BY <1>0, <1>7, <2>1, <2>2 DEF WriteSecrets
<1>8. CASE WriteFails
  BY <1>0, <1>8, FailedType DEF WriteFails, PCs
<1>9. CASE UndoUnits
  <2>1. pc = "undoUnits" /\ UNCHANGED <<mem, monitors>>
    BY <1>9 DEF UndoUnits
  <2>2. tx.id \in Ids
    BY <1>0, <2>1, RequestFacts DEF IInv, InRequest
  <2>3. DiskType(disk')
    <3>1. disk' = disk \/ disk' = [disk EXCEPT !.units = mem.units]
      BY <1>9 DEF UndoUnits
    <3>2. mem.units \in Units
      BY <1>0, StoreFields
    <3>3. CASE disk' = disk
      BY <1>0, <3>3
    <3>4. CASE disk' = [disk EXCEPT !.units = mem.units]
      BY <1>0, <3>2, <3>4, DiskChanges
    <3> QED
      BY <3>1, <3>3, <3>4
  <2>4. tx' = tx \/ tx' = NoTx
    BY <1>9 DEF UndoUnits
  <2>5. pc' \in PCs /\ apart' \in BOOLEAN /\ torn' \subseteq Ids
    BY <1>0, <1>9, <2>2 DEF UndoUnits, PCs
  <2> QED
    BY <1>0, <2>1, <2>3, <2>4, <2>5, ConstantTypes
<1>10. CASE UndoSecrets
  <2>1. tx.was.secrets \in Secrets
    BY <1>0, TxFields, StoreFields
  <2>2. DiskType(disk') /\ mem' \in Store
    <3>1. \/ disk' = disk /\ mem' = mem
          \/ disk' = [disk EXCEPT !.secrets = tx.was.secrets]
             /\ mem' = [mem EXCEPT !.secrets = tx.was.secrets]
      BY <1>10 DEF UndoSecrets
    <3>2. CASE disk' = disk /\ mem' = mem
      BY <1>0, <3>2
    <3>3. CASE disk' = [disk EXCEPT !.secrets = tx.was.secrets]
               /\ mem' = [mem EXCEPT !.secrets = tx.was.secrets]
      <4>1. DiskType(disk')
        BY <1>0, <2>1, <3>3, SecretsSaved
      <4>2. mem' \in Store
        BY <1>0, <2>1, <3>3, SecretsHeld
      <4> QED
        BY <4>1, <4>2
    <3> QED
      BY <3>1, <3>2, <3>3
  <2> QED
    BY <1>0, <1>10, <2>2, ConstantTypes DEF UndoSecrets, PCs
<1>11. CASE SyncFails
  BY <1>0, <1>11, TxFields, MemChanges, ConstantTypes DEF SyncFails, PCs
<1>12. CASE Answer
  <2>1. tx.units \in Units /\ mem' \in Store
    BY <1>0, <1>12, TxFields, MemChanges DEF Answer
  <2>2. pc = "write" /\ InRequest
    BY <1>12 DEF Answer, InRequest
  <2>3. tx.id \in Ids
    BY <1>0, <2>2, RequestFacts DEF IInv
  <2>4. monitors' \in [Ids -> Copies]
    <3>1. Given(mem', tx.id) \in Copies /\ monitors' = [monitors EXCEPT ![tx.id] = Given(mem', tx.id)]
      BY <1>12, <2>1, <2>3, GivenFacts DEF Answer
    <3> QED
      BY <1>0, <3>1
  <2> QED
    BY <1>0, <1>12, <2>1, <2>4, ConstantTypes DEF Answer, PCs
<1>13. CASE EditSecret
  <2>1. PICK e \in SecretEdits(mem) :
          /\ disk' = [disk EXCEPT !.secrets = e[2]]
          /\ mem' = [mem EXCEPT !.secrets = e[2]]
          /\ monitors' = [monitors EXCEPT ![e[1]] = Given(mem', e[1])]
    BY <1>13, Zenon DEF EditSecret
  <2>2. e[1] \in Known(mem.units) /\ e[2] \in Secrets
    BY <1>0, SecretEditsAreGood
  <2>3. DiskType(disk') /\ mem' \in Store
    BY <1>0, <2>1, <2>2, DiskChanges, MemChanges
  <2>4. Given(mem', e[1]) \in Copies
    BY <2>2, <2>3, GivenFacts DEF Known
  <2>5. monitors' \in [Ids -> Copies]
    BY <1>0, <2>1, <2>4
  <2> QED
    BY <1>0, <1>13, <2>3, <2>5 DEF EditSecret
<1>17. CASE TestPassword
  <2>1. PICK u \in Known(mem.units) : TestOf(u)
    BY <1>17, TestPasswordCases
  <2>2. Saved(u) \in Secrets /\ u \in Ids
    BY <1>0, <2>1, TestedEdit, SecretEditsAreGood DEF Known
  <2>3. DiskType(disk') /\ mem' \in Store
    BY <1>0, <2>1, <2>2, DiskChanges, MemChanges DEF TestOf
  <2>4. monitors' \in [Ids -> Copies]
    BY <1>0, <2>1, <2>2, TestedType DEF TestOf
  <2> QED
    BY <1>0, <1>17, <2>3, <2>4 DEF TestPassword
<1>14. CASE Reorder
  <2>1. DiskType(disk')
    BY <1>0, <1>14, DiskChanges, StoreFields DEF Reorder
  <2> QED
    BY <1>0, <1>14, <2>1 DEF Reorder
<1>15. CASE Crash
  <2>1. torn' \subseteq Ids
    <3>1. CASE InRequest
      BY <1>0, <1>15, <3>1, RequestFacts DEF Crash, InRequest, IInv
    <3>2. CASE ~InRequest
      BY <1>0, <1>15, <3>2 DEF Crash, InRequest
    <3> QED
      BY <3>1, <3>2
  <2> QED
    BY <1>0, <1>e, <1>15, <2>1 DEF Crash
<1>16. CASE EditFile
  <2>1. PICK u \in Known(disk.units) :
          \/ \E unit \in Unit : /\ SameTargets(unit, disk.units[u])
                              /\ disk' = [disk EXCEPT !.units[u] = unit]
          \/ disk' = [disk EXCEPT !.plain = disk.plain \union {u}]
    BY <1>16 DEF EditFile
  <2>2. u \in Ids /\ disk.plain \union {u} \in SUBSET Ids /\ disk.units \in Units
    BY <1>0 DEF Known, DiskType
  <2>3. ASSUME NEW unit \in Unit, disk' = [disk EXCEPT !.units[u] = unit] PROVE DiskType(disk')
    <3>1. [disk EXCEPT !.units[u] = unit] = [disk EXCEPT !.units = [disk.units EXCEPT ![u] = unit]]
      BY <1>0 DEF DiskType
    <3> QED
      BY <1>0, <2>2, <2>3, <3>1, UnitChange, DiskChanges
  <2>4. ASSUME disk' = [disk EXCEPT !.plain = disk.plain \union {u}] PROVE DiskType(disk')
    BY <1>0, <2>2, <2>4, DiskChanges
  <2> QED
    BY <1>0, <1>16, <2>1, <2>3, <2>4 DEF EditFile
<1> QED
  BY <1>1, <1>2, <1>3, <1>4, <1>5, <1>6, <1>7, <1>8, <1>9, <1>10, <1>11, <1>12, <1>13,
     <1>14, <1>15, <1>16, <1>17 DEF Next

-----------------------------------------------------------------------------
(* What is left to show of a step, by where it ends. *)

LEMMA ToDown ==
    ASSUME TypeOK', PlainInv', Ended,
           \A u \in Ids \ torn' : OwnSecrets(Stored', u)
    PROVE  IInv'
<1>1. /\ pc' = "down" /\ mem' = Nothing /\ monitors' = GivenTo(Nothing) /\ tx' = NoTx /\ apart' = FALSE
  BY DEF Ended
<1>2. ~InRequest' /\ pc' # "idle" /\ ~Starting'
  BY <1>1 DEF InRequest, Starting
<1> QED
  BY <1>1, <1>2 DEF IInv, DownInv, StartInv, IdleInv, RequestInv, OwnInv, MonitorInv, Settled

LEMMA ToStart ==
    ASSUME TypeOK', PlainInv', Starting', StartInv',
           \A u \in Ids \ torn' : OwnSecrets(Stored', u)
    PROVE  IInv'
<1>1. ~InRequest' /\ pc' # "idle" /\ pc' # "down"
  BY DEF InRequest, Starting
<1> QED
  BY <1>1 DEF IInv, DownInv, IdleInv, RequestInv, OwnInv, MonitorInv, Settled

MonitorsOf(s) ==
    \A u \in Ids : ~RunsWith(monitors[u], s, u) => u \in Known(s.units) /\ OrphansOf(s, u) # {}

LEMMA ToIdle ==
    ASSUME TypeOK', PlainInv', pc' = "idle", IdleInv',
           \A u \in Ids \ torn' : OwnSecrets(mem', u),
           ~apart' => \A u \in Ids : ~RunsWith(monitors'[u], mem', u) =>
                        u \in Known(mem'.units) /\ OrphansOf(mem', u) # {}
    PROVE  IInv'
<1>1. ~InRequest' /\ pc' # "down" /\ ~Starting'
  BY DEF InRequest, Starting
<1>2. Settled' = mem'
  BY <1>1 DEF Settled
<1> QED
  BY <1>1, <1>2 DEF IInv, DownInv, StartInv, RequestInv, OwnInv, MonitorInv

LEMMA ToRequest ==
    ASSUME IInv, TypeOK', PlainInv', InRequest', RequestInv',
           Settled = tx'.was, InRequest \/ pc = "idle",
           UNCHANGED <<monitors, apart, torn>>
    PROVE  IInv'
<1>1. pc' # "idle" /\ pc' # "down" /\ ~Starting'
  BY DEF InRequest, Starting
<1>2. Settled' = Settled
  BY <1>1 DEF Settled
<1>3. OwnInv'
  BY <1>2 DEF IInv, OwnInv
<1>4. MonitorInv'
  BY <1>2 DEF IInv, MonitorInv
<1> QED
  BY <1>1, <1>3, <1>4 DEF IInv, DownInv, StartInv, IdleInv

LEMMA IdleFacts ==
    ASSUME IInv, pc = "idle"
    PROVE  /\ DiskType(disk) /\ mem \in Store /\ Stored \in Store
           /\ disk.plain # {} => Known(mem.units) = {}
           /\ \A u \in Ids \ torn : /\ OwnSecrets(mem, u) /\ SecretsAgree(u)
                                    /\ disk.units[u] = mem.units[u]
           /\ ~apart => /\ disk.units = mem.units /\ disk.secrets = mem.secrets
                        /\ disk.plain = {} /\ Stored = mem /\ MonitorsOf(mem)
           /\ Stored = mem => disk.secrets = mem.secrets
<1>1. /\ DiskType(disk) /\ mem \in Store /\ Stored \in Store /\ Settled = mem /\ PlainInv
      /\ Stored.units = disk.units
      /\ disk.plain = {} => Stored.secrets = disk.secrets
  BY TypeParts, StoredType DEF IInv, Settled, InRequest
<1>2. disk.plain # {} => mem.units = NoUnits
  BY DEF IInv, IdleInv
<1>3. NoUnits = NoUnits => Known(NoUnits) = {}
  BY DEF Known, NoUnits
<1>4. \A u \in Ids \ torn : OwnSecrets(mem, u) /\ SecretsAgree(u) /\ disk.units[u] = mem.units[u]
  BY <1>1 DEF IInv, OwnInv, IdleInv
<1>5. ASSUME ~apart
      PROVE  /\ disk.units = mem.units /\ disk.secrets = mem.secrets
             /\ disk.plain = {} /\ Stored = mem /\ MonitorsOf(mem)
  <2>1. disk = [units |-> mem.units, secrets |-> mem.secrets, plain |-> {}]
    BY <1>5 DEF IInv, IdleInv
  <2>2. disk.units = mem.units /\ disk.secrets = mem.secrets /\ disk.plain = {}
    BY <2>1
  <2>3. Stored = mem
    BY <1>1, <2>2, StoreFields
  <2>4. MonitorsOf(mem)
    BY <1>1, <1>5 DEF IInv, MonitorInv, MonitorsOf
  <2> QED
    BY <2>2, <2>3, <2>4
<1>6. ASSUME Stored = mem PROVE disk.secrets = mem.secrets
  <2>1. CASE disk.plain = {}
    BY <1>1, <1>6, <2>1
  <2>2. CASE disk.plain # {}
    <3>1. Known(disk.units) = {}
      BY <1>1, <1>2, <1>3, <1>6, <2>2
    <3> QED
      BY <1>1, <2>2, <3>1 DEF PlainInv
  <2> QED
    BY <2>1, <2>2
<1> QED
  BY <1>1, <1>2, <1>3, <1>4, <1>5, <1>6

-----------------------------------------------------------------------------
(* Every step keeps the invariant: the start. *)

LEMMA InitIInv ==
    ASSUME Init
    PROVE  IInv
<1>1. DiskType(disk) /\ disk.plain = {} /\ disk.units = NoUnits /\ disk.secrets = NoSecrets
  BY ConstantTypes DEF Init, DiskType
<1>2. TypeOK
  BY <1>1, ConstantTypes, GivenToFacts, TypeParts DEF Init, PCs
<1>3. pc = "down" /\ ~InRequest /\ ~Starting /\ pc # "idle"
  BY DEF Init, InRequest, Starting
<1>4. PlainInv
  BY <1>1 DEF PlainInv
<1>5. Stored.units = NoUnits /\ Stored.secrets = NoSecrets
  BY <1>1, <1>4, StoredType
<1>6. \A u \in Ids : OwnSecrets(Stored, u)
  <2> SUFFICES ASSUME NEW u \in Ids PROVE OwnSecrets(Stored, u)
    OBVIOUS
  <2>1. /\ NoUnits[u] = NoUnit /\ NoSecrets.pw[u] = None
        /\ \A p \in Ports : NoSecrets.keys[u][p] = None
    BY DEF NoUnits, NoSecrets
  <2> QED
    BY <1>5, <2>1 DEF OwnSecrets
<1>7. OwnInv
  BY <1>3, <1>6 DEF OwnInv, Settled
<1> QED
  BY <1>2, <1>3, <1>4, <1>7 DEF Init, IInv, DownInv, StartInv, IdleInv, RequestInv, MonitorInv

\* While no request runs and nothing is served, the files speak for themselves.
LEMMA StoredIsOwn ==
    ASSUME IInv, ~InRequest, pc # "idle"
    PROVE  \A u \in Ids \ torn : OwnSecrets(Stored, u)
BY DEF IInv, OwnInv, Settled

LEMMA LoadStep ==
    ASSUME IInv, Load, TypeOK'
    PROVE  IInv'
<1>1. /\ pc = "down" /\ mem' = Stored /\ disk' = disk /\ apart' = FALSE /\ torn' = torn
      /\ pc' = (IF disk.plain # {} THEN "migrate" ELSE "reconcile")
  BY DEF Load, IInv, DownInv, TypeOK
<1>2. DiskType(disk) /\ PlainInv
  BY TypeParts DEF IInv
<1>3. Stored' = Stored /\ PlainInv'
  BY <1>1, <1>2 DEF Stored, PlainInv
<1>4. pc' # "migrate" => disk.plain = {} /\ disk.secrets = Stored.secrets
  BY <1>1, <1>2, StoredType
<1>5. Starting' /\ StartInv'
  BY <1>1, <1>3, <1>4 DEF Starting, StartInv
<1>6. \A u \in Ids \ torn : OwnSecrets(Stored, u)
  BY <1>1, StoredIsOwn DEF InRequest
<1>7. \A u \in Ids \ torn' : OwnSecrets(Stored', u)
  BY <1>1, <1>3, <1>6
<1> QED
  BY <1>3, <1>5, <1>7, ToStart

LEMMA LoadFailsStep ==
    ASSUME IInv, Starting, LoadFails, TypeOK'
    PROVE  IInv'
<1>1. /\ mem' = [mem EXCEPT !.units = NoUnits] /\ pc' = "reconcile" /\ disk' = disk
      /\ apart' = TRUE /\ torn' = Ids
  BY DEF LoadFails
<1>2. mem'.units = NoUnits
  BY <1>1, ConstantTypes, MemChanges, TypeParts DEF IInv
<1>3. PlainInv'
  BY <1>1 DEF IInv, PlainInv
<1>4. Starting' /\ StartInv'
  BY <1>1, <1>2 DEF Starting, StartInv
<1>5. \A u \in Ids \ torn' : OwnSecrets(Stored', u)
  BY <1>1
<1> QED
  BY <1>3, <1>4, <1>5, ToStart

LEMMA MigrateStep ==
    ASSUME IInv, Migrate, TypeOK'
    PROVE  IInv'
<1>1. pc = "migrate" /\ Starting
  BY DEF Migrate, Starting
<1>2. CASE LoadFails
  BY <1>1, <1>2, LoadFailsStep
<1>3. CASE /\ disk' = [disk EXCEPT !.secrets = mem.secrets] /\ pc' = "strip"
           /\ UNCHANGED <<mem, monitors, tx, apart, torn>>
  <2>1. DiskType(disk) /\ mem \in Store /\ PlainInv
    BY TypeParts DEF IInv
  <2>2. ~apart /\ mem = Stored
    BY <1>1 DEF IInv, StartInv, TypeOK
  <2>3. /\ mem.secrets \in Secrets /\ mem.secrets = PlainSecrets(disk)
        /\ disk'.secrets = mem.secrets /\ disk'.units = disk.units
        /\ disk'.plain = disk.plain /\ DiskType(disk')
    <3>1. mem.secrets \in Secrets /\ mem.secrets = PlainSecrets(disk)
      BY <2>1, <2>2, StoredType, StoreFields
    <3> QED
      BY <1>3, <2>1, <3>1, SecretsSaved
  <2>4. PlainInv'
    BY <2>1, <2>3 DEF PlainInv
  <2>5. PlainSecrets(disk') = PlainSecrets(disk)
    <3>1. /\ PlainSecrets(disk') \in Secrets
          /\ PlainSecrets(disk').keys = mem.secrets.keys
          /\ \A u \in Ids : PlainSecrets(disk').pw[u]
               = IF u \in disk.plain THEN disk.units[u].ssh ELSE mem.secrets.pw[u]
      BY <2>3, <2>4, PlainSecretsFacts DEF PlainInv
    <3>2. \A u \in Ids : mem.secrets.pw[u]
               = IF u \in disk.plain THEN disk.units[u].ssh ELSE disk.secrets.pw[u]
      BY <2>1, <2>3, PlainSecretsFacts DEF PlainInv
    <3>3. \A u \in Ids : PlainSecrets(disk').pw[u] = mem.secrets.pw[u]
      BY <3>1, <3>2
    <3> QED
      BY <2>3, <3>1, <3>3, PwEqual
  <2>6. Stored' = Stored
    BY <2>3, <2>5 DEF Stored
  <2>7. Starting' /\ StartInv'
    BY <1>3, <2>2, <2>3, <2>6 DEF Starting, StartInv
  <2>8. \A u \in Ids \ torn' : OwnSecrets(Stored', u)
    BY <1>1, <1>3, <2>6, StoredIsOwn DEF InRequest
  <2> QED
    BY <2>4, <2>7, <2>8, ToStart
<1> QED
  BY <1>2, <1>3 DEF Migrate

LEMMA StripStep ==
    ASSUME IInv, Strip, TypeOK'
    PROVE  IInv'
<1>1. pc = "strip" /\ Starting
  BY DEF Strip, Starting
<1>2. CASE LoadFails
  BY <1>1, <1>2, LoadFailsStep
<1>3. CASE /\ disk' = [disk EXCEPT !.plain = {}] /\ pc' = "reconcile"
           /\ UNCHANGED <<mem, monitors, tx, apart, torn>>
  <2>1. DiskType(disk) /\ mem \in Store /\ PlainInv
    BY TypeParts DEF IInv
  <2>2. ~apart /\ mem = Stored /\ disk.secrets = mem.secrets
    BY <1>1 DEF IInv, StartInv, TypeOK
  <2>3. /\ disk'.secrets = disk.secrets /\ disk'.units = disk.units
        /\ disk'.plain = {} /\ DiskType(disk')
    <3>1. {} \in SUBSET Ids
      OBVIOUS
    <3> QED
      BY <1>3, <2>1, <3>1, PlainSaved
  <2>4. PlainInv'
    BY <2>3 DEF PlainInv
  <2>5. PlainSecrets(disk') = disk.secrets /\ PlainSecrets(disk) = disk.secrets
    BY <2>1, <2>2, <2>3, NothingPlain, StoredType
  <2>6. Stored' = Stored
    BY <2>3, <2>5 DEF Stored
  <2>7. Starting' /\ StartInv'
    BY <1>3, <2>2, <2>3, <2>6 DEF Starting, StartInv
  <2>8. \A u \in Ids \ torn' : OwnSecrets(Stored', u)
    BY <1>1, <1>3, <2>6, StoredIsOwn DEF InRequest
  <2> QED
    BY <2>4, <2>7, <2>8, ToStart
<1> QED
  BY <1>2, <1>3 DEF Strip

\* The key that follows its port at start.
ReconcileTo(u, p, q) ==
    /\ Renamed(u, p, q)
    /\ disk' = [disk EXCEPT !.secrets = MoveKey(mem.secrets, u, p, q)]
    /\ mem' = [mem EXCEPT !.secrets = MoveKey(mem.secrets, u, p, q)]
    /\ UNCHANGED <<monitors, pc, tx, apart, torn>>

LEMMA ReconcileCases ==
    ASSUME Reconcile
    PROVE  /\ pc = "reconcile"
           /\ \/ Ended /\ UNCHANGED <<disk, torn>>
              \/ \E u \in Known(mem.units), p \in Ports, q \in Ports : ReconcileTo(u, p, q)
BY Zenon DEF Reconcile, ReconcileTo

LEMMA ReconcileFacts ==
    ASSUME IInv, pc = "reconcile", NEW u \in Known(mem.units), NEW p \in Ports, NEW q \in Ports,
           ReconcileTo(u, p, q)
    PROVE  LET moved == MoveKey(mem.secrets, u, p, q) IN
           /\ u \in Ids /\ p # q /\ moved \in Secrets /\ moved.pw = mem.secrets.pw
           /\ ~apart /\ mem = Stored /\ mem.secrets = disk.secrets
           /\ DiskType(disk') /\ disk'.secrets = moved /\ disk'.units = disk.units
           /\ disk'.plain = {} /\ disk.plain = {} /\ mem' \in Store /\ mem'.units = mem.units
           /\ mem'.secrets = moved /\ Stored' = mem' /\ Stored \in Store /\ PlainInv'
<1> DEFINE moved == MoveKey(mem.secrets, u, p, q)
<1>1. /\ disk' = [disk EXCEPT !.secrets = moved] /\ mem' = [mem EXCEPT !.secrets = moved]
      /\ UNCHANGED <<monitors, pc, tx, apart, torn>> /\ Renamed(u, p, q)
  BY DEF ReconcileTo
<1>2. DiskType(disk) /\ mem \in Store /\ PlainInv
  BY TypeParts DEF IInv
<1>3. u \in Ids /\ p # q /\ moved \in Secrets /\ mem.secrets \in Secrets
  BY <1>1, <1>2, RenamedFacts, MovedType, StoreFields
<1>m. moved.pw = mem.secrets.pw
  BY <1>3, MoveKeyFacts
<1> HIDE DEF moved
<1>4. ~apart /\ mem = Stored /\ mem.secrets = disk.secrets /\ disk.plain = {}
  <2>1. mem.units # NoUnits
    BY <1>3, KnownFacts
  <2> QED
    BY <2>1 DEF IInv, StartInv, Starting
<1>5. /\ DiskType(disk') /\ disk'.secrets = moved /\ disk'.units = disk.units /\ disk'.plain = {}
      /\ mem' \in Store /\ mem'.units = mem.units /\ mem'.secrets = moved
  <2>1. /\ DiskType(disk') /\ disk'.secrets = moved /\ disk'.units = disk.units
        /\ disk'.plain = disk.plain
    BY <1>1, <1>2, <1>3, SecretsSaved
  <2>2. mem' \in Store /\ mem'.units = mem.units /\ mem'.secrets = moved
    BY <1>1, <1>2, <1>3, SecretsHeld
  <2> QED
    BY <1>4, <2>1, <2>2
<1>6. PlainInv'
  BY <1>5 DEF PlainInv
<1>7. Stored' = mem'
  <2>1. PlainSecrets(disk') = moved
    BY <1>5, NothingPlain
  <2>2. Stored.units = disk.units
    BY <1>2, StoredType
  <2> QED
    BY <1>4, <1>5, <2>1, <2>2, StoreFields DEF Stored
<1>8. Stored \in Store
  BY <1>2, StoredType
<1> QED
  BY <1>1, <1>3, <1>4, <1>5, <1>6, <1>7, <1>8, <1>m DEF moved

LEMMA ReconcileStep ==
    ASSUME IInv, Reconcile, TypeOK'
    PROVE  IInv'
<1>1. pc = "reconcile" /\ Starting /\ ~InRequest /\ pc # "idle"
  BY ReconcileCases DEF Starting, InRequest
<1>2. CASE Ended /\ UNCHANGED <<disk, torn>>
  <2>1. PlainInv' /\ Stored' = Stored
    BY <1>2 DEF IInv, PlainInv, Stored
  <2>2. \A u \in Ids \ torn' : OwnSecrets(Stored', u)
    BY <1>1, <1>2, <2>1, StoredIsOwn
  <2> QED
    BY <1>2, <2>1, <2>2, ToDown
<1>3. ASSUME NEW u \in Known(mem.units), NEW p \in Ports, NEW q \in Ports, ReconcileTo(u, p, q)
      PROVE  IInv'
  <2> DEFINE moved == MoveKey(mem.secrets, u, p, q)
  <2>1. /\ u \in Ids /\ p # q /\ moved \in Secrets /\ moved.pw = mem.secrets.pw
        /\ ~apart /\ mem = Stored /\ mem.secrets = disk.secrets
        /\ disk'.secrets = moved /\ disk'.units = disk.units
        /\ disk'.plain = {} /\ mem' \in Store /\ mem'.units = mem.units
        /\ mem'.secrets = moved /\ Stored' = mem' /\ Stored \in Store /\ PlainInv'
    BY <1>1, <1>3, ReconcileFacts
  <2>2. UNCHANGED <<pc, apart, torn>>
    BY <1>3 DEF ReconcileTo
  <2>3. Starting' /\ StartInv'
    BY <1>1, <2>1, <2>2 DEF Starting, StartInv
  <2>4. \A v \in Ids \ torn : OwnSecrets(mem, v)
    BY <1>1, <2>1, StoredIsOwn
  <2>5. /\ moved.keys[u][p] = None
        /\ moved.keys[u][q] = IF mem.secrets.keys[u][p] = None THEN mem.secrets.keys[u][q]
                              ELSE mem.secrets.keys[u][p]
        /\ \A r \in Ports \ {p, q} : moved.keys[u][r] = mem.secrets.keys[u][r]
        /\ \A v \in Ids \ {u} : moved.keys[v] = mem.secrets.keys[v]
    <3>1. mem.secrets \in Secrets /\ u \in Ids /\ p # q
      BY <2>1, StoreFields
    <3> QED
      BY <3>1, MoveKeyFacts, SMTT(30)
  <2> HIDE DEF moved
  <2>6. ASSUME NEW v \in Ids \ torn PROVE OwnSecrets(mem', v)
    <3>1. CASE v # u
      BY <2>1, <2>4, <2>5, <3>1, OwnOfSame
    <3>2. CASE v = u
      <4>1. OwnSecrets(mem, u) /\ mem.units[u] # NoUnit
        BY <2>1, <2>4, <3>2, KnownFacts
      <4>2. /\ mem.secrets.pw[u] \in {None, mem.units[u].ssh}
            /\ \A r \in Ports : mem.secrets.keys[u][r] \in {None, mem.units[u].llm}
        BY <4>1 DEF OwnSecrets
      <4>3. \A r \in Ports : moved.keys[u][r] \in {None, mem.units[u].llm}
        BY <2>5, <4>2
      <4> QED
        BY <2>1, <3>2, <4>1, <4>2, <4>3 DEF OwnSecrets
    <3> QED
      BY <3>1, <3>2
  <2>7. \A v \in Ids \ torn' : OwnSecrets(Stored', v)
    BY <2>1, <2>2, <2>6
  <2> QED
    BY <2>1, <2>3, <2>7, ToStart
<1> QED
  BY <1>2, <1>3, ReconcileCases

LEMMA ServeStep ==
    ASSUME IInv, Serve, TypeOK'
    PROVE  IInv'
<1>1. /\ pc = "reconcile" /\ pc' = "idle" /\ monitors' = GivenTo(mem)
      /\ UNCHANGED <<disk, mem, apart, torn>> /\ Starting /\ ~InRequest
  BY DEF Serve, Starting, InRequest
<1>2. DiskType(disk) /\ mem \in Store /\ PlainInv /\ PlainInv'
  BY <1>1, TypeParts DEF IInv, PlainInv
<1>3. /\ ~apart => mem = Stored /\ disk.secrets = mem.secrets /\ disk.plain = {}
      /\ apart => mem.units = NoUnits /\ torn = Ids
  BY <1>1 DEF IInv, StartInv
<1>4. ~apart => disk.units = mem.units
  BY <1>2, <1>3, StoredType
<1>5. ~apart => disk = [units |-> mem.units, secrets |-> mem.secrets, plain |-> {}]
  BY <1>2, <1>3, <1>4 DEF DiskType
<1>6. IdleInv'
  BY <1>1, <1>3, <1>4, <1>5 DEF IdleInv, SecretsAgree
<1>7. \A u \in Ids \ torn' : OwnSecrets(mem', u)
  BY <1>1, <1>3, StoredIsOwn
<1>8. \A u \in Ids : RunsWith(monitors'[u], mem', u)
  BY <1>1, <1>2, GivenFacts, GivenToFacts
<1> QED
  BY <1>1, <1>2, <1>6, <1>7, <1>8, ToIdle

-----------------------------------------------------------------------------
(* Every step keeps the invariant: the requests. *)

\* A request begins with the new unit list.
BeginWith(p) ==
    /\ p \in Plans(mem)
    /\ tx' = [id |-> p.id, units |-> p.units, writes |-> p.writes, undo |-> p.undo,
              done |-> 0, was |-> mem, file |-> Stored, faults |-> 0]
    /\ disk' = [disk EXCEPT !.units = p.units, !.plain = {}]

LEMMA BeginCases ==
    ASSUME Begin
    PROVE  /\ pc = "idle" /\ pc' = "write" /\ UNCHANGED <<mem, monitors, apart, torn>>
           /\ \E p \in Plans(mem) : BeginWith(p)
BY Zenon DEF Begin, BeginWith

LEMMA BeginFacts ==
    ASSUME IInv, pc = "idle", NEW p, BeginWith(p)
    PROVE  /\ p = Plan(tx'.id, tx'.units, tx'.writes, tx'.undo)
           /\ tx'.was = mem /\ tx'.file = Stored /\ tx'.done = 0 /\ tx'.units = p.units
           /\ tx'.writes \in Seq(Secrets)
           /\ DiskType(disk') /\ disk'.units = p.units /\ disk'.plain = {}
           /\ disk'.secrets = disk.secrets
<1>1. DiskType(disk) /\ mem \in Store
  BY IdleFacts
<1>2. p.units \in Units /\ p.writes \in Seq(Secrets) /\ p = Plan(p.id, p.units, p.writes, p.undo)
  BY <1>1, PlansAreGood, PlanShape DEF BeginWith, GoodPlan, PlanType
<1>3. /\ tx'.id = p.id /\ tx'.units = p.units /\ tx'.writes = p.writes /\ tx'.undo = p.undo
      /\ tx'.was = mem /\ tx'.file = Stored /\ tx'.done = 0
  BY DEF BeginWith
<1>4. /\ DiskType(disk') /\ disk'.units = p.units /\ disk'.plain = {}
      /\ disk'.secrets = disk.secrets
  <2>1. disk' = [disk EXCEPT !.units = p.units, !.plain = {}]
    BY DEF BeginWith
  <2> QED
    BY <1>1, <1>2, <2>1 DEF DiskType
<1> QED
  BY <1>2, <1>3, <1>4

LEMMA BeginStep ==
    ASSUME IInv, Begin, TypeOK'
    PROVE  IInv'
<1>1. /\ pc = "idle" /\ pc' = "write" /\ UNCHANGED <<mem, monitors, apart, torn>>
      /\ InRequest' /\ ~InRequest
  BY BeginCases DEF InRequest
<1>2. PICK p \in Plans(mem) : BeginWith(p)
  BY BeginCases
<1>3. /\ p = Plan(tx'.id, tx'.units, tx'.writes, tx'.undo)
      /\ tx'.was = mem /\ tx'.file = Stored /\ tx'.done = 0 /\ tx'.units = p.units
      /\ disk'.units = p.units /\ disk'.plain = {} /\ disk'.secrets = disk.secrets
      /\ tx'.writes \in Seq(Secrets)
  BY <1>1, <1>2, BeginFacts
<1>4. /\ ~apart => Stored = mem
      /\ Stored = mem => disk.secrets = mem.secrets
      /\ \A u \in Ids \ torn : SecretsAgree(u)
  BY <1>1, IdleFacts
<1>5. PlainInv'
  BY <1>3 DEF PlainInv
<1>6. \A u \in Ids \ torn : SecretsAgree(u)'
  BY <1>1, <1>3, <1>4 DEF SecretsAgree
<1>l. tx'.done <= Len(tx'.writes)
  BY <1>3
<1>7. RequestInv'
  <2>1. Plan(tx.id, tx.units, tx.writes, tx.undo)' \in Plans(tx'.was)
    BY <1>2, <1>3
  <2>2. /\ mem'.units = tx'.was.units /\ mem'.secrets = tx'.was.secrets
        /\ disk'.units = tx'.units
    BY <1>1, <1>3
  <2>3. tx'.done > 0 \/ tx'.was = tx'.file => disk'.secrets = mem'.secrets
    BY <1>1, <1>3, <1>4
  <2>4. ~apart' => tx'.was = tx'.file
    BY <1>1, <1>3, <1>4
  <2> QED
    BY <1>1, <1>3, <1>6, <1>l, <2>1, <2>2, <2>3, <2>4 DEF RequestInv
<1>8. Settled = tx'.was
  BY <1>1, <1>3 DEF Settled
<1> QED
  BY <1>1, <1>5, <1>7, <1>8, ToRequest

\* The parts of the invariant that a request rests on.
LEMMA TxFacts ==
    ASSUME IInv, InRequest
    PROVE  /\ DiskType(disk) /\ mem \in Store /\ TxType(tx) /\ Settled = tx.was
           /\ tx.was \in Store /\ tx.file \in Store /\ tx.units \in Units
           /\ tx.writes \in Seq(Secrets) /\ tx.done \in Nat /\ tx.undo \in Nat
           /\ Plan(tx.id, tx.units, tx.writes, tx.undo) \in Plans(tx.was)
           /\ tx.done <= Len(tx.writes)
           /\ mem.units = tx.was.units
           /\ mem.secrets = (IF tx.done = 0 THEN tx.was.secrets ELSE tx.writes[tx.done])
           /\ disk.plain = {}
           /\ disk.units = (IF pc = "undoSecrets" THEN tx.was.units ELSE tx.units)
           /\ tx.done > 0 \/ tx.was = tx.file => disk.secrets = mem.secrets
           /\ ~apart => tx.was = tx.file
           /\ pc # "write" => tx.done < tx.undo
           /\ pc = "undoSecrets" => tx.done > 0
           /\ \A u \in Ids \ torn : SecretsAgree(u) /\ OwnSecrets(tx.was, u)
           /\ ~apart => MonitorsOf(tx.was)
<1>1. Settled = tx.was
  BY DEF Settled
<1>2. /\ DiskType(disk) /\ mem \in Store /\ TxType(tx)
  BY TypeParts DEF IInv
<1>3. /\ tx.was \in Store /\ tx.file \in Store /\ tx.units \in Units
      /\ tx.writes \in Seq(Secrets) /\ tx.done \in Nat /\ tx.undo \in Nat
  BY <1>2, TxFields
<1>4. \A u \in Ids \ torn : OwnSecrets(tx.was, u)
  BY <1>1 DEF IInv, OwnInv
<1>5. ~apart => MonitorsOf(tx.was)
  BY <1>1 DEF IInv, MonitorInv, MonitorsOf
<1> QED
  BY <1>1, <1>2, <1>3, <1>4, <1>5 DEF IInv, RequestInv

LEMMA WriteSecretsStep ==
    ASSUME IInv, WriteSecrets, TypeOK'
    PROVE  IInv'
<1>1. /\ pc = "write" /\ InRequest /\ pc' = "write" /\ InRequest'
      /\ tx.done < Len(tx.writes)
      /\ UNCHANGED <<monitors, pc, apart, torn>>
      /\ disk' = [disk EXCEPT !.secrets = tx.writes[tx.done + 1]]
      /\ mem' = [mem EXCEPT !.secrets = tx.writes[tx.done + 1]]
      /\ tx' = [tx EXCEPT !.done = tx.done + 1]
  BY DEF WriteSecrets, InRequest
<1>2. /\ DiskType(disk) /\ mem \in Store /\ TxType(tx) /\ Settled = tx.was
      /\ tx.writes \in Seq(Secrets) /\ tx.done \in Nat
      /\ Plan(tx.id, tx.units, tx.writes, tx.undo) \in Plans(tx.was)
      /\ mem.units = tx.was.units /\ disk.plain = {} /\ disk.units = tx.units
      /\ ~apart => tx.was = tx.file
  BY <1>1, TxFacts
<1>3. tx.writes[tx.done + 1] \in Secrets
  BY <1>1, <1>2, TxFields
<1>4. /\ disk'.secrets = tx.writes[tx.done + 1] /\ disk'.units = disk.units
      /\ disk'.plain = disk.plain
  BY <1>1, <1>2, <1>3, SecretsSaved
<1>5. mem'.secrets = tx.writes[tx.done + 1] /\ mem'.units = mem.units
  BY <1>1, <1>2, <1>3, SecretsHeld
<1>6. /\ tx'.id = tx.id /\ tx'.units = tx.units /\ tx'.writes = tx.writes /\ tx'.undo = tx.undo
      /\ tx'.was = tx.was /\ tx'.file = tx.file /\ tx'.done = tx.done + 1
  BY <1>1, <1>2 DEF TxType
<1>7. tx'.done # 0 /\ tx'.done <= Len(tx'.writes)
  BY <1>1, <1>2, <1>6
<1>8. PlainInv'
  BY <1>2, <1>4 DEF PlainInv
<1>9. \A u \in Ids : SecretsAgree(u)'
  BY <1>4, <1>5 DEF SecretsAgree
<1>10. RequestInv'
  <2>1. Plan(tx.id, tx.units, tx.writes, tx.undo)' \in Plans(tx'.was)
    BY <1>2, <1>6
  <2>2. mem'.secrets = tx'.writes[tx'.done]
    BY <1>5, <1>6
  <2>3. mem'.units = tx'.was.units /\ disk'.units = tx'.units /\ disk'.secrets = mem'.secrets
        /\ disk'.plain = {}
    BY <1>2, <1>4, <1>5, <1>6
  <2>4. ~apart' => tx'.was = tx'.file
    BY <1>1, <1>2, <1>6
  <2> QED
    BY <1>1, <1>7, <1>9, <2>1, <2>2, <2>3, <2>4 DEF RequestInv
<1> QED
  BY <1>1, <1>2, <1>6, <1>8, <1>10, ToRequest

LEMMA WriteFailsStep ==
    ASSUME IInv, WriteFails, TypeOK'
    PROVE  IInv'
<1>1. /\ pc = "write" /\ InRequest /\ pc' = "undoUnits" /\ InRequest'
      /\ tx.done < tx.undo /\ tx' = Failed
      /\ UNCHANGED <<disk, mem, monitors, apart, torn>>
  BY DEF WriteFails, InRequest
<1>2. /\ TxType(tx) /\ Settled = tx.was /\ PlainInv /\ disk.units = tx.units
  BY <1>1, TxFacts DEF IInv
<1>3. /\ tx'.id = tx.id /\ tx'.units = tx.units /\ tx'.writes = tx.writes /\ tx'.undo = tx.undo
      /\ tx'.was = tx.was /\ tx'.file = tx.file /\ tx'.done = tx.done
  BY <1>1, <1>2, FailedType
<1>4. PlainInv'
  BY <1>1, <1>2 DEF PlainInv
<1>5. \A u \in Ids : SecretsAgree(u)' = SecretsAgree(u)
  BY <1>1 DEF SecretsAgree
<1>6. RequestInv'
  BY <1>1, <1>2, <1>3, <1>5 DEF IInv, RequestInv
<1> QED
  BY <1>1, <1>2, <1>3, <1>4, <1>6, ToRequest

\* The request ends with the old units.
LEMMA UndoUnitsStep ==
    ASSUME IInv, UndoUnits, TypeOK'
    PROVE  IInv'
<1>1. pc = "undoUnits" /\ InRequest /\ UNCHANGED <<mem, monitors>>
  BY DEF UndoUnits, InRequest
<1>2. /\ DiskType(disk) /\ mem \in Store /\ TxType(tx) /\ Settled = tx.was
      /\ tx.was \in Store /\ tx.done \in Nat /\ tx.done < tx.undo
      /\ Plan(tx.id, tx.units, tx.writes, tx.undo) \in Plans(tx.was)
      /\ tx.done <= Len(tx.writes)
      /\ mem.units = tx.was.units
      /\ mem.secrets = (IF tx.done = 0 THEN tx.was.secrets ELSE tx.writes[tx.done])
      /\ disk.plain = {} /\ disk.units = tx.units
      /\ tx.done > 0 \/ tx.was = tx.file => disk.secrets = mem.secrets
      /\ ~apart => tx.was = tx.file
      /\ \A u \in Ids \ torn : SecretsAgree(u) /\ OwnSecrets(tx.was, u)
      /\ ~apart => MonitorsOf(tx.was)
  BY <1>1, TxFacts
<1>3. /\ tx.id \in Ids
      /\ \A v \in Ids \ {tx.id} : /\ tx.units[v] = tx.was.units[v]
                                  /\ mem.secrets.pw[v] = tx.was.secrets.pw[v]
                                  /\ mem.secrets.keys[v] = tx.was.secrets.keys[v]
  BY <1>1, RequestFacts DEF IInv
<1>4. mem.units \in Units
  BY <1>2, StoreFields
<1>5. CASE /\ disk' = [disk EXCEPT !.units = mem.units] /\ tx.done > 0
           /\ pc' = "undoSecrets" /\ tx' = tx /\ UNCHANGED <<apart, torn>>
  <2>1. disk'.units = tx.was.units /\ disk'.secrets = disk.secrets /\ disk'.plain = {}
    BY <1>2, <1>4, <1>5, UnitsTakenBack
  <2>2. PlainInv'
    BY <2>1 DEF PlainInv
  <2>3. \A u \in Ids \ torn : SecretsAgree(u)'
    BY <1>1, <1>2, <2>1 DEF SecretsAgree
  <2>4. RequestInv'
    BY <1>1, <1>2, <1>5, <2>1, <2>3 DEF RequestInv
  <2> QED
    BY <1>1, <1>2, <1>5, <2>2, <2>4, ToRequest DEF InRequest
<1>6. CASE /\ disk' = [disk EXCEPT !.units = mem.units] /\ tx.done = 0
           /\ pc' = "idle" /\ UNCHANGED <<apart, torn>>
  <2>1. /\ disk'.units = mem.units /\ disk'.secrets = disk.secrets /\ disk'.plain = {}
        /\ DiskType(disk')
    BY <1>2, <1>4, <1>6, UnitsTakenBack
  <2>2. PlainInv'
    BY <2>1 DEF PlainInv
  <2>3. mem = tx.was
    BY <1>2, <1>6, StoreFields
  <2>4. ~apart => disk' = [units |-> mem.units, secrets |-> mem.secrets, plain |-> {}]
    BY <1>2, <2>1 DEF DiskType
  <2>5. \A u \in Ids \ torn : SecretsAgree(u)'
    BY <1>1, <1>2, <2>1 DEF SecretsAgree
  <2>6. IdleInv'
    BY <1>1, <1>6, <2>1, <2>4, <2>5 DEF IdleInv
  <2>7. ~apart => MonitorsOf(mem)
    BY <1>2, <2>3
  <2> QED
    BY <1>1, <1>2, <1>6, <2>2, <2>3, <2>6, <2>7, ToIdle DEF MonitorsOf
<1>7. CASE /\ pc' = "idle" /\ apart' = TRUE /\ torn' = torn \union {tx.id} /\ disk' = disk
  <2>1. PlainInv'
    BY <1>2, <1>7 DEF PlainInv
  <2>2. \A u \in Ids \ torn' : SecretsAgree(u)' /\ disk'.units[u] = mem'.units[u]
    BY <1>1, <1>2, <1>3, <1>7 DEF SecretsAgree
  <2>3. IdleInv'
    BY <1>2, <1>7, <2>2 DEF IdleInv
  <2>4. ASSUME NEW u \in Ids \ torn' PROVE OwnSecrets(mem, u)
    <3>1. u \in Ids \ {tx.id} /\ u \in Ids \ torn
      BY <1>7
    <3>2. OwnSecrets(tx.was, u)
      BY <1>2, <3>1
    <3> QED
      BY <1>2, <1>3, <3>1, <3>2, OwnOfSame
  <2> QED
    BY <1>1, <1>7, <2>1, <2>3, <2>4, ToIdle
<1>8. \/ /\ disk' = [disk EXCEPT !.units = mem.units] /\ UNCHANGED <<apart, torn>>
         /\ IF tx.done > 0 THEN pc' = "undoSecrets" /\ tx' = tx ELSE pc' = "idle" /\ tx' = NoTx
      \/ pc' = "idle" /\ apart' = TRUE /\ torn' = torn \union {tx.id} /\ disk' = disk
  BY DEF UndoUnits
<1>9. tx.done > 0 \/ tx.done = 0
  BY <1>2
<1> QED
  BY <1>5, <1>6, <1>7, <1>8, <1>9

LEMMA UndoSecretsStep ==
    ASSUME IInv, UndoSecrets, TypeOK'
    PROVE  IInv'
<1>1. pc = "undoSecrets" /\ InRequest /\ pc' = "idle" /\ UNCHANGED <<monitors, torn>>
  BY DEF UndoSecrets, InRequest
<1>2. /\ DiskType(disk) /\ mem \in Store /\ TxType(tx)
      /\ tx.was \in Store /\ tx.done \in Nat /\ tx.done < tx.undo
      /\ mem.units = tx.was.units
      /\ disk.plain = {} /\ disk.units = tx.was.units
      /\ tx.done > 0 /\ disk.secrets = mem.secrets
      /\ \A u \in Ids \ torn : SecretsAgree(u) /\ OwnSecrets(tx.was, u)
      /\ ~apart => MonitorsOf(tx.was)
  BY <1>1, TxFacts
<1>3. /\ tx.id \in Ids
      /\ \A v \in Ids \ {tx.id} : /\ mem.secrets.pw[v] = tx.was.secrets.pw[v]
                                  /\ mem.secrets.keys[v] = tx.was.secrets.keys[v]
      /\ OwnSecrets(tx.was, tx.id) => OwnSecrets(mem, tx.id)
  BY <1>1, <1>2, RequestFacts DEF IInv
<1>4. tx.was.secrets \in Secrets
  BY <1>2, StoreFields
<1>5. CASE /\ disk' = [disk EXCEPT !.secrets = tx.was.secrets]
           /\ mem' = [mem EXCEPT !.secrets = tx.was.secrets] /\ apart' = apart
  <2>1. /\ disk'.units = tx.was.units /\ disk'.secrets = tx.was.secrets /\ disk'.plain = {}
        /\ DiskType(disk')
    BY <1>2, <1>4, <1>5, SecretsSaved
  <2>2. mem' = tx.was
    <3>1. mem' \in Store /\ mem'.units = tx.was.units /\ mem'.secrets = tx.was.secrets
      BY <1>2, <1>4, <1>5, SecretsHeld
    <3> QED
      BY <1>2, <3>1, StoreFields
  <2>3. PlainInv'
    BY <2>1 DEF PlainInv
  <2>4. disk' = [units |-> tx.was.units, secrets |-> tx.was.secrets, plain |-> {}]
    BY <2>1 DEF DiskType
  <2>5. IdleInv'
    BY <2>1, <2>2, <2>4 DEF IdleInv, SecretsAgree
  <2>6. ~apart => MonitorsOf(mem')
    BY <1>2, <2>2
  <2> QED
    BY <1>1, <1>2, <1>5, <2>2, <2>3, <2>5, <2>6, ToIdle DEF MonitorsOf
<1>6. CASE apart' = TRUE /\ UNCHANGED <<disk, mem>>
  <2>1. PlainInv'
    BY <1>2, <1>6 DEF PlainInv
  <2>2. IdleInv'
    BY <1>2, <1>6 DEF IdleInv, SecretsAgree
  <2>3. ASSUME NEW u \in Ids \ torn PROVE OwnSecrets(mem, u)
    <3>1. CASE u = tx.id
      BY <1>2, <1>3, <3>1
    <3>2. CASE u # tx.id
      <4>1. OwnSecrets(tx.was, u) /\ u \in Ids \ {tx.id}
        BY <1>2, <3>2
      <4> QED
        BY <1>2, <1>3, <4>1, OwnOfSame
    <3> QED
      BY <3>1, <3>2
  <2> QED
    BY <1>1, <1>6, <2>1, <2>2, <2>3, ToIdle
<1> QED
  BY <1>5, <1>6 DEF UndoSecrets

\* A request that ends with the new units, at the secrets it has reached.
LEMMA NewUnits ==
    ASSUME IInv, pc = "write", tx.undo <= tx.done, mem' = [mem EXCEPT !.units = tx.units],
           UNCHANGED <<disk, apart, torn>>, pc' = "idle"
    PROVE  /\ PlainInv' /\ IdleInv'
           /\ mem' = [units |-> tx.units, secrets |-> mem.secrets]
           /\ \A u \in Ids \ torn' : OwnSecrets(mem', u)
           /\ ~apart => \A u \in Ids \ {tx.id} : ~RunsWith(monitors[u], mem', u) =>
                          u \in Known(mem'.units) /\ OrphansOf(mem', u) # {}
<1>1. InRequest
  BY DEF InRequest
<1>2. /\ DiskType(disk) /\ mem \in Store /\ tx.units \in Units
      /\ tx.was \in Store /\ tx.done \in Nat /\ tx.undo \in Nat
      /\ disk.plain = {} /\ disk.units = tx.units
      /\ tx.done > 0 \/ tx.was = tx.file => disk.secrets = mem.secrets
      /\ ~apart => tx.was = tx.file
      /\ \A u \in Ids \ torn : SecretsAgree(u) /\ OwnSecrets(tx.was, u)
      /\ ~apart => MonitorsOf(tx.was)
  BY <1>1, TxFacts
<1>3. /\ tx.id \in Ids
      /\ \A v \in Ids \ {tx.id} : /\ tx.units[v] = tx.was.units[v]
                                  /\ mem.secrets.pw[v] = tx.was.secrets.pw[v]
                                  /\ mem.secrets.keys[v] = tx.was.secrets.keys[v]
      /\ OwnSecrets(tx.was, tx.id) =>
           OwnSecrets([units |-> tx.units, secrets |-> mem.secrets], tx.id)
  BY <1>1, RequestFacts DEF IInv
<1>4. mem' = [units |-> tx.units, secrets |-> mem.secrets]
  BY <1>2 DEF Store
<1>5. mem'.units = tx.units /\ mem'.secrets = mem.secrets
  BY <1>4
<1>6. PlainInv'
  BY <1>2 DEF PlainInv
<1>7. ~apart => disk = [units |-> tx.units, secrets |-> mem.secrets, plain |-> {}]
  BY <1>2 DEF DiskType
<1>8. IdleInv'
  BY <1>2, <1>5, <1>7 DEF IdleInv, SecretsAgree
<1>9. ASSUME NEW u \in Ids \ torn PROVE OwnSecrets(mem', u)
  <2>1. CASE u = tx.id
    BY <1>2, <1>3, <1>4, <2>1
  <2>2. CASE u # tx.id
    <3>1. OwnSecrets(tx.was, u) /\ u \in Ids \ {tx.id}
      BY <1>2, <2>2
    <3>2. /\ tx.was.units[u] = mem'.units[u] /\ tx.was.secrets.pw[u] = mem'.secrets.pw[u]
          /\ tx.was.secrets.keys[u] = mem'.secrets.keys[u]
      BY <1>3, <1>5, <3>1
    <3> QED
      BY <3>1, <3>2, OwnOfSame
  <2> QED
    BY <2>1, <2>2
<1>10. ASSUME ~apart, NEW u \in Ids \ {tx.id}, ~RunsWith(monitors[u], mem', u)
       PROVE  u \in Known(mem'.units) /\ OrphansOf(mem', u) # {}
  <2>1. /\ mem'.units[u] = tx.was.units[u] /\ mem'.secrets.keys[u] = tx.was.secrets.keys[u]
        /\ mem'.secrets.pw[u] = tx.was.secrets.pw[u]
    BY <1>3, <1>5
  <2>2. u \in Known(tx.was.units) /\ OrphansOf(tx.was, u) # {}
    BY <1>2, <1>10, <2>1 DEF MonitorsOf, RunsWith
  <2>3. u \in Known(mem'.units)
    BY <2>1, <2>2, KnownFacts
  <2> QED
    BY <2>1, <2>2, <2>3, OrphansOfSame, ZenonT(30)
<1> QED
  BY <1>4, <1>6, <1>8, <1>9, <1>10

LEMMA SyncFailsStep ==
    ASSUME IInv, SyncFails, TypeOK'
    PROVE  IInv'
<1>1. /\ pc = "write" /\ InRequest /\ tx.undo <= tx.done /\ tx.done < Len(tx.writes)
      /\ mem' = [mem EXCEPT !.units = tx.units] /\ pc' = "idle"
      /\ UNCHANGED <<disk, monitors, apart, torn>>
  BY DEF SyncFails, InRequest
<1>2. /\ PlainInv' /\ IdleInv'
      /\ mem' = [units |-> tx.units, secrets |-> mem.secrets]
      /\ \A u \in Ids \ torn' : OwnSecrets(mem', u)
      /\ ~apart => \A u \in Ids \ {tx.id} : ~RunsWith(monitors[u], mem', u) =>
                     u \in Known(mem'.units) /\ OrphansOf(mem', u) # {}
  BY <1>1, NewUnits
<1>3. /\ tx.id \in Ids /\ tx.units[tx.id] # NoUnit
      /\ OrphansOf([units |-> tx.units, secrets |-> mem.secrets], tx.id) # {}
  BY <1>1, RequestFacts DEF IInv
<1>4. tx.id \in Known(mem'.units) /\ OrphansOf(mem', tx.id) # {}
  <2>1. mem'.units[tx.id] # NoUnit
    BY <1>2, <1>3
  <2> QED
    BY <1>2, <1>3, <2>1, KnownFacts
<1>5. ~apart' => \A u \in Ids : ~RunsWith(monitors'[u], mem', u) =>
                        u \in Known(mem'.units) /\ OrphansOf(mem', u) # {}
  BY <1>1, <1>2, <1>4
<1> QED
  BY <1>1, <1>2, <1>5, ToIdle

LEMMA AnswerStep ==
    ASSUME IInv, Answer, TypeOK'
    PROVE  IInv'
<1>1. /\ pc = "write" /\ InRequest /\ tx.done = Len(tx.writes)
      /\ mem' = [mem EXCEPT !.units = tx.units] /\ pc' = "idle"
      /\ monitors' = [monitors EXCEPT ![tx.id] = Given(mem', tx.id)]
      /\ UNCHANGED <<disk, apart, torn>>
  BY DEF Answer, InRequest
<1>2. tx.undo <= tx.done
  <2>1. Plan(tx.id, tx.units, tx.writes, tx.undo) \in Plans(tx.was) /\ tx.was \in Store
        /\ tx.writes \in Seq(Secrets)
    BY <1>1, TxFacts
  <2>2. tx.undo \in 0 .. Len(tx.writes)
    BY <2>1, PlansAreGood, PlanFields DEF GoodPlan, PlanType
  <2> QED
    BY <1>1, <2>1, <2>2
<1>3. /\ PlainInv' /\ IdleInv'
      /\ mem' = [units |-> tx.units, secrets |-> mem.secrets]
      /\ \A u \in Ids \ torn' : OwnSecrets(mem', u)
      /\ ~apart => \A u \in Ids \ {tx.id} : ~RunsWith(monitors[u], mem', u) =>
                     u \in Known(mem'.units) /\ OrphansOf(mem', u) # {}
  BY <1>1, <1>2, NewUnits
<1>4. monitors \in [Ids -> Copies] /\ tx.id \in Ids
  BY <1>1, RequestFacts DEF IInv, TypeOK
<1>5. /\ RunsWith(monitors'[tx.id], mem', tx.id)
      /\ \A u \in Ids \ {tx.id} : monitors'[u] = monitors[u]
  <2>1. mem' \in Store
    BY DEF TypeOK
  <2>2. RunsWith(Given(mem', tx.id), mem', tx.id)
    BY <1>4, <2>1, GivenFacts
  <2> QED
    BY <1>1, <1>4, <2>2
<1>6. ~apart' => \A u \in Ids : ~RunsWith(monitors'[u], mem', u) =>
                        u \in Known(mem'.units) /\ OrphansOf(mem', u) # {}
  BY <1>1, <1>3, <1>5
<1> QED
  BY <1>1, <1>3, <1>6, ToIdle

\* One secret is written.
EditTo(e) ==
    /\ e \in SecretEdits(mem)
    /\ disk' = [disk EXCEPT !.secrets = e[2]]
    /\ mem' = [mem EXCEPT !.secrets = e[2]]

LEMMA EditSecretCases ==
    ASSUME EditSecret
    PROVE  /\ pc = "idle" /\ UNCHANGED <<pc, tx, apart, torn>>
           /\ \E e \in SecretEdits(mem) :
                EditTo(e) /\ monitors' = [monitors EXCEPT ![e[1]] = Given(mem', e[1])]
BY Zenon DEF EditSecret, EditTo

LEMMA EditFacts ==
    ASSUME IInv, pc = "idle", NEW e, EditTo(e)
    PROVE  /\ e[1] \in Known(mem.units) /\ e[1] \in Ids /\ e[2] \in Secrets
           /\ DiskType(disk') /\ disk'.secrets = e[2] /\ disk'.units = disk.units
           /\ disk'.plain = {} /\ disk.plain = {}
           /\ mem' \in Store /\ mem'.secrets = e[2] /\ mem'.units = mem.units
           /\ mem' = [units |-> mem.units, secrets |-> e[2]]
           /\ OthersKept(e[2], mem.secrets, e[1])
           /\ OwnSecrets(mem, e[1]) => OwnSecrets(mem', e[1])
<1>1. DiskType(disk) /\ mem \in Store /\ (disk.plain # {} => Known(mem.units) = {})
  BY IdleFacts
<1>2. /\ e[1] \in Known(mem.units) /\ e[2] \in Secrets
      /\ OthersKept(e[2], mem.secrets, e[1])
      /\ OwnSecrets(mem, e[1]) => OwnSecrets([units |-> mem.units, secrets |-> e[2]], e[1])
  BY <1>1, SecretEditsAreGood DEF EditTo
<1>3. disk.plain = {} /\ e[1] \in Ids
  BY <1>1, <1>2 DEF Known
<1>4. disk' = [disk EXCEPT !.secrets = e[2]] /\ mem' = [mem EXCEPT !.secrets = e[2]]
  BY DEF EditTo
<1>5. DiskType(disk') /\ disk'.secrets = e[2] /\ disk'.units = disk.units /\ disk'.plain = disk.plain
  BY <1>1, <1>2, <1>4, SecretsSaved
<1>6. mem' \in Store /\ mem'.secrets = e[2] /\ mem'.units = mem.units
  BY <1>1, <1>2, <1>4, SecretsHeld
<1>7. mem' = [units |-> mem.units, secrets |-> e[2]]
  BY <1>6, StoreFields
<1> QED
  BY <1>2, <1>3, <1>5, <1>6, <1>7

\* A monitor that is right stays right; only keys make one wrong.
LEMMA EditKeeps ==
    ASSUME IInv, TypeOK', pc = "idle", pc' = "idle", UNCHANGED <<tx, apart, torn>>,
           NEW e, EditTo(e),
           \A u \in Ids \ {e[1]} : monitors'[u] = monitors[u],
           ~RunsWith(monitors'[e[1]], mem', e[1]) =>
              /\ ~RunsWith(monitors[e[1]], mem, e[1])
              /\ mem'.secrets.keys[e[1]] = mem.secrets.keys[e[1]]
    PROVE  IInv'
<1>1. /\ pc = "idle" /\ pc' = "idle" /\ UNCHANGED <<tx, apart, torn>>
  OBVIOUS
<1>3. /\ e[1] \in Known(mem.units) /\ e[1] \in Ids /\ e[2] \in Secrets
      /\ DiskType(disk') /\ disk'.secrets = e[2] /\ disk'.units = disk.units
      /\ disk'.plain = {} /\ mem'.secrets = e[2] /\ mem'.units = mem.units
      /\ OthersKept(e[2], mem.secrets, e[1])
      /\ OwnSecrets(mem, e[1]) => OwnSecrets(mem', e[1])
  BY EditFacts
<1>4. /\ \A u \in Ids \ torn : OwnSecrets(mem, u) /\ disk.units[u] = mem.units[u]
      /\ ~apart => disk.units = mem.units /\ MonitorsOf(mem)
  BY <1>1, IdleFacts
<1>5. PlainInv'
  BY <1>3 DEF PlainInv
<1>6. ~apart => disk' = [units |-> mem.units, secrets |-> e[2], plain |-> {}]
  BY <1>3, <1>4 DEF DiskType
<1>7. IdleInv'
  <2>1. ~apart' => disk' = [units |-> mem'.units, secrets |-> mem'.secrets, plain |-> {}]
    BY <1>1, <1>3, <1>6
  <2>2. \A u \in Ids \ torn' : SecretsAgree(u)' /\ disk'.units[u] = mem'.units[u]
    BY <1>1, <1>3, <1>4 DEF SecretsAgree
  <2> QED
    BY <1>3, <2>1, <2>2 DEF IdleInv
<1>8. ASSUME NEW u \in Ids \ torn PROVE OwnSecrets(mem', u)
  <2>1. CASE u = e[1]
    BY <1>3, <1>4, <2>1
  <2>2. CASE u # e[1]
    <3>1. OwnSecrets(mem, u)
      BY <1>4
    <3>2. /\ mem.units[u] = mem'.units[u] /\ mem.secrets.pw[u] = mem'.secrets.pw[u]
          /\ mem.secrets.keys[u] = mem'.secrets.keys[u]
      BY <1>3, <2>2 DEF OthersKept
    <3> QED
      BY <3>1, <3>2, OwnOfSame
  <2> QED
    BY <2>1, <2>2
<1>9. ASSUME ~apart, NEW u \in Ids, ~RunsWith(monitors'[u], mem', u)
      PROVE  u \in Known(mem'.units) /\ OrphansOf(mem', u) # {}
  <2>1. /\ mem'.units[u] = mem.units[u] /\ mem'.secrets.keys[u] = mem.secrets.keys[u]
        /\ ~RunsWith(monitors[u], mem, u)
    <3>1. CASE u = e[1]
      BY <1>3, <1>9, <3>1
    <3>2. CASE u # e[1]
      BY <1>3, <1>9, <3>2 DEF OthersKept, RunsWith
    <3> QED
      BY <3>1, <3>2
  <2>2. u \in Known(mem.units) /\ OrphansOf(mem, u) # {}
    BY <1>4, <1>9, <2>1 DEF MonitorsOf
  <2> QED
    BY <1>3, <2>1, <2>2, OrphansOfSame
<1> QED
  BY <1>1, <1>5, <1>7, <1>8, <1>9, ToIdle

LEMMA EditSecretStep ==
    ASSUME IInv, EditSecret, TypeOK'
    PROVE  IInv'
<1>1. pc = "idle" /\ pc' = "idle" /\ UNCHANGED <<tx, apart, torn>>
  BY EditSecretCases
<1>2. PICK e \in SecretEdits(mem) :
        EditTo(e) /\ monitors' = [monitors EXCEPT ![e[1]] = Given(mem', e[1])]
  BY EditSecretCases
<1>3. e[1] \in Ids /\ monitors \in [Ids -> Copies] /\ mem' \in Store
  BY <1>1, <1>2, EditFacts DEF IInv, TypeOK
<1>4. RunsWith(Given(mem', e[1]), mem', e[1])
  BY <1>3, GivenFacts
<1>5. /\ RunsWith(monitors'[e[1]], mem', e[1])
      /\ \A u \in Ids \ {e[1]} : monitors'[u] = monitors[u]
  BY <1>2, <1>3, <1>4
<1> QED
  BY <1>1, <1>2, <1>5, EditKeeps

\* The monitor keeps its password, and its copy says so.
LEMMA TestPasswordStep ==
    ASSUME IInv, TestPassword, TypeOK'
    PROVE  IInv'
<1>1. pc = "idle" /\ pc' = "idle" /\ UNCHANGED <<tx, apart, torn>>
  BY TestPasswordCases
<1>2. PICK u \in Known(mem.units) : TestOf(u)
  BY TestPasswordCases
<1> DEFINE e == <<u, Saved(u)>>
<1>3. e[1] = u /\ EditTo(e) /\ u \in Ids
  BY <1>2, TestedEdit DEF EditTo, TestOf, Known
<1>4. mem'.units = mem.units /\ mem'.secrets = Saved(u) /\ mem \in Store
  <2>1. mem'.units = mem.units /\ mem'.secrets = e[2] /\ mem \in Store
    BY <1>1, <1>3, EditFacts, IdleFacts
  <2> QED
    BY <2>1
<1>5. mem'.secrets.keys[u] = mem.secrets.keys[u]
  <2>1. mem.units[u] \in Unit /\ mem.secrets \in Secrets
    BY <1>2, <1>4, StoreFields DEF Known, Units
  <2>2. mem.units[u].ssh \in Hosts
    BY <2>1, DataAssumption
  <2> QED
    BY <1>3, <1>4, <2>1, <2>2, StorePasswordFacts DEF Saved
<1>6. monitors \in [Ids -> Copies] /\ monitors' = [monitors EXCEPT ![u].tested = TRUE]
  BY <1>2 DEF IInv, TypeOK, TestOf
<1>7. /\ \A v \in Ids \ {u} : monitors'[v] = monitors[v]
      /\ monitors'[u] = [monitors[u] EXCEPT !.tested = TRUE]
  BY <1>3, <1>6, TestedType
<1>8. RunsWith(monitors[u], mem, u) => RunsWith(monitors'[u], mem', u)
  <2>1. monitors[u] \in Copies
    BY <1>3, <1>6
  <2>2. /\ monitors'[u].unit = monitors[u].unit /\ monitors'[u].keys = monitors[u].keys
        /\ monitors'[u].tested
    BY <1>7, <2>1 DEF Copies
  <2> QED
    BY <1>4, <1>5, <2>2 DEF RunsWith
<1> HIDE DEF e
<1> QED
  BY <1>1, <1>3, <1>5, <1>7, <1>8, EditKeeps

LEMMA ReorderStep ==
    ASSUME IInv, Reorder, TypeOK'
    PROVE  IInv'
<1>1. /\ pc = "idle" /\ pc' = "idle" /\ UNCHANGED <<mem, monitors, tx, apart, torn>>
      /\ disk' = [disk EXCEPT !.units = mem.units, !.plain = {}]
  BY DEF Reorder
<1>2. /\ DiskType(disk) /\ mem \in Store
      /\ \A u \in Ids \ torn : OwnSecrets(mem, u) /\ SecretsAgree(u)
      /\ ~apart => disk.secrets = mem.secrets /\ MonitorsOf(mem)
  BY <1>1, IdleFacts
<1>3. DiskType(disk') /\ disk'.units = mem.units /\ disk'.plain = {} /\ disk'.secrets = disk.secrets
  <2>1. mem.units \in Units
    BY <1>2, StoreFields
  <2> QED
    BY <1>1, <1>2, <2>1 DEF DiskType
<1>4. PlainInv'
  BY <1>3 DEF PlainInv
<1>5. ~apart' => disk' = [units |-> mem'.units, secrets |-> mem'.secrets, plain |-> {}]
  BY <1>1, <1>2, <1>3 DEF DiskType
<1>6. \A u \in Ids \ torn' : SecretsAgree(u)' /\ disk'.units[u] = mem'.units[u]
  BY <1>1, <1>2, <1>3 DEF SecretsAgree
<1>7. IdleInv'
  BY <1>3, <1>5, <1>6 DEF IdleInv
<1> QED
  BY <1>1, <1>2, <1>4, <1>7, ToIdle DEF MonitorsOf

LEMMA CrashStep ==
    ASSUME IInv, Crash, TypeOK'
    PROVE  IInv'
<1>1. /\ pc # "down" /\ Ended /\ disk' = disk
      /\ InRequest => torn' = torn \union {tx.id}
      /\ ~InRequest => torn' = torn
  BY DEF Crash, InRequest
<1>2. DiskType(disk) /\ PlainInv /\ PlainInv' /\ Stored' = Stored
  BY <1>1, TypeParts DEF IInv, PlainInv, Stored
<1>3. /\ Stored.units = disk.units /\ Stored.secrets = PlainSecrets(disk)
      /\ disk.plain = {} => Stored.secrets = disk.secrets
  BY <1>2, StoredType
<1>4. ASSUME NEW u \in Ids \ torn' PROVE OwnSecrets(Stored, u)
  <2>1. CASE InRequest
    <3>1. u \in Ids \ torn /\ u \in Ids \ {tx.id}
      BY <1>1, <2>1
    <3>2. /\ disk.plain = {} /\ SecretsAgree(u) /\ OwnSecrets(tx.was, u)
          /\ disk.units = tx.was.units \/ disk.units = tx.units
      BY <2>1, <3>1, TxFacts
    <3>3. /\ tx.units[u] = tx.was.units[u] /\ mem.secrets.pw[u] = tx.was.secrets.pw[u]
          /\ mem.secrets.keys[u] = tx.was.secrets.keys[u]
      BY <2>1, <3>1, RequestFacts DEF IInv
    <3>4. /\ tx.was.units[u] = Stored.units[u] /\ tx.was.secrets.pw[u] = Stored.secrets.pw[u]
          /\ tx.was.secrets.keys[u] = Stored.secrets.keys[u]
      BY <1>3, <3>2, <3>3 DEF SecretsAgree
    <3> QED
      BY <3>2, <3>4, OwnOfSame
  <2>2. CASE pc = "idle"
    <3>1. ~InRequest /\ torn' = torn
      BY <1>1, <2>2 DEF InRequest
    <3>2. /\ OwnSecrets(mem, u) /\ SecretsAgree(u) /\ disk.units[u] = mem.units[u]
          /\ disk.plain # {} => Known(mem.units) = {}
      BY <2>2, <3>1, IdleFacts
    <3>3. u \notin disk.plain
      <4> SUFFICES ASSUME u \in disk.plain PROVE FALSE
        OBVIOUS
      <4>1. u \in Known(disk.units) /\ Known(mem.units) = {}
        BY <1>2, <3>2 DEF PlainInv
      <4> QED
        BY <3>2, <4>1 DEF Known
    <3>4. PlainSecrets(disk).keys = disk.secrets.keys /\ PlainSecrets(disk).pw[u] = disk.secrets.pw[u]
      BY <1>2, <3>3, PlainSecretsFacts DEF PlainInv
    <3>5. /\ mem.units[u] = Stored.units[u] /\ mem.secrets.pw[u] = Stored.secrets.pw[u]
          /\ mem.secrets.keys[u] = Stored.secrets.keys[u]
      BY <1>3, <3>2, <3>4 DEF SecretsAgree
    <3> QED
      BY <3>2, <3>5, OwnOfSame
  <2>3. CASE ~InRequest /\ pc # "idle"
    BY <1>1, <2>3, StoredIsOwn
  <2> QED
    BY <2>1, <2>2, <2>3
<1> QED
  BY <1>1, <1>2, <1>4, ToDown

\* A hand has edited a unit that keeps its targets, or written its password down.
EditUnit(u) ==
    \E unit \in Unit : SameTargets(unit, disk.units[u]) /\ disk' = [disk EXCEPT !.units[u] = unit]
WriteDown(u) == disk' = [disk EXCEPT !.plain = disk.plain \union {u}]

LEMMA EditFileCases ==
    ASSUME EditFile
    PROVE  /\ pc = "down" /\ UNCHANGED <<mem, monitors, pc, tx, apart, torn>>
           /\ \E u \in Known(disk.units) : EditUnit(u) \/ WriteDown(u)
BY DEF EditFile, EditUnit, WriteDown

LEMMA EditUnitFacts ==
    ASSUME DiskType(disk), PlainInv, NEW u \in Known(disk.units), NEW unit \in Unit,
           SameTargets(unit, disk.units[u]), disk' = [disk EXCEPT !.units[u] = unit]
    PROVE  /\ u \in Ids /\ disk.units[u] \in Unit /\ disk.units \in Units
           /\ DiskType(disk') /\ PlainInv'
           /\ Stored'.units = [disk.units EXCEPT ![u] = unit]
           /\ Stored'.secrets = Stored.secrets
           /\ unit.ssh = disk.units[u].ssh /\ unit.llm = disk.units[u].llm
<1>1. u \in Ids /\ disk.units \in Units /\ disk.units[u] \in Unit
  BY DEF DiskType, Known, Units
<1>2. disk' = [disk EXCEPT !.units = [disk.units EXCEPT ![u] = unit]]
  BY DEF DiskType
<1>3. [disk.units EXCEPT ![u] = unit] \in Units
  BY <1>1, UnitChange
<1>4. /\ DiskType(disk') /\ disk'.secrets = disk.secrets /\ disk'.plain = disk.plain
      /\ disk'.units = [disk.units EXCEPT ![u] = unit]
  BY <1>2, <1>3, UnitsTakenBack
<1>5. disk'.units[u] = unit /\ \A v \in Ids \ {u} : disk'.units[v] = disk.units[v]
  <2>1. /\ [disk.units EXCEPT ![u] = unit][u] = unit
        /\ \A v \in Ids \ {u} : [disk.units EXCEPT ![u] = unit][v] = disk.units[v]
    BY <1>1 DEF Units
  <2> QED
    BY <1>4, <2>1
<1>6. Known(disk'.units) = Known(disk.units)
  BY <1>1, <1>5, DataAssumption DEF Known
<1>7. PlainInv'
  BY <1>4, <1>6 DEF PlainInv
<1>8. unit.ssh = disk.units[u].ssh /\ unit.llm = disk.units[u].llm
  BY DEF SameTargets
<1>9. PlainSecrets(disk') = PlainSecrets(disk)
  <2>1. /\ PlainSecrets(disk') \in Secrets
        /\ PlainSecrets(disk').keys = disk.secrets.keys
        /\ \A v \in Ids : PlainSecrets(disk').pw[v]
             = IF v \in disk.plain THEN disk'.units[v].ssh ELSE disk.secrets.pw[v]
    <3>1. /\ PlainSecrets(disk') \in Secrets
          /\ PlainSecrets(disk').keys = disk'.secrets.keys
          /\ \A v \in Ids : PlainSecrets(disk').pw[v]
               = IF v \in disk'.plain THEN disk'.units[v].ssh ELSE disk'.secrets.pw[v]
      <4>1. DiskType(disk') /\ disk'.plain \subseteq Known(disk'.units)
        BY <1>4, <1>7 DEF PlainInv
      <4> QED
        BY <4>1, PlainSecretsFacts
    <3> QED
      BY <1>4, <3>1
  <2>2. /\ PlainSecrets(disk) \in Secrets
        /\ PlainSecrets(disk).keys = disk.secrets.keys
        /\ \A v \in Ids : PlainSecrets(disk).pw[v]
             = IF v \in disk.plain THEN disk.units[v].ssh ELSE disk.secrets.pw[v]
    BY PlainSecretsFacts DEF PlainInv
  <2>3. \A v \in Ids : disk'.units[v].ssh = disk.units[v].ssh
    BY <1>5, <1>8
  <2>4. \A v \in Ids : PlainSecrets(disk').pw[v] = PlainSecrets(disk).pw[v]
    BY <2>1, <2>2, <2>3
  <2> QED
    BY <2>1, <2>2, <2>4, PwEqual
<1>10. /\ Stored'.units = disk'.units /\ Stored'.secrets = PlainSecrets(disk')
       /\ Stored.secrets = PlainSecrets(disk)
  BY DEF Stored
<1> QED
  BY <1>1, <1>4, <1>7, <1>8, <1>9, <1>10

LEMMA WriteDownFacts ==
    ASSUME DiskType(disk), PlainInv, NEW u \in Known(disk.units), WriteDown(u)
    PROVE  /\ u \in Ids /\ disk.units[u] \in Unit
           /\ DiskType(disk') /\ PlainInv' /\ Stored \in Store
           /\ Stored'.units = disk.units /\ Stored.units = disk.units
           /\ Stored'.secrets \in Secrets
           /\ Stored'.secrets.keys = Stored.secrets.keys
           /\ \A v \in Ids : Stored'.secrets.pw[v]
                = IF v = u THEN disk.units[u].ssh ELSE Stored.secrets.pw[v]
<1>1. u \in Ids /\ disk.units[u] \in Unit /\ disk.plain \union {u} \in SUBSET Ids
  BY DEF DiskType, Known, Units
<1>2. DiskType(disk') /\ disk'.units = disk.units /\ disk'.secrets = disk.secrets
      /\ disk'.plain = disk.plain \union {u}
  BY <1>1, PlainSaved DEF WriteDown
<1>3. PlainInv'
  BY <1>2 DEF PlainInv
<1>4. /\ PlainSecrets(disk') \in Secrets
      /\ PlainSecrets(disk').keys = disk.secrets.keys
      /\ \A v \in Ids : PlainSecrets(disk').pw[v]
           = IF v \in disk.plain \union {u} THEN disk.units[v].ssh ELSE disk.secrets.pw[v]
  BY <1>2, <1>3, PlainSecretsFacts DEF PlainInv
<1>5. /\ PlainSecrets(disk) \in Secrets
      /\ PlainSecrets(disk).keys = disk.secrets.keys
      /\ \A v \in Ids : PlainSecrets(disk).pw[v]
           = IF v \in disk.plain THEN disk.units[v].ssh ELSE disk.secrets.pw[v]
  BY PlainSecretsFacts DEF PlainInv
<1>6. \A v \in Ids : PlainSecrets(disk').pw[v]
         = IF v = u THEN disk.units[u].ssh ELSE PlainSecrets(disk).pw[v]
  BY <1>4, <1>5
<1>7. /\ Stored'.units = disk'.units /\ Stored'.secrets = PlainSecrets(disk')
      /\ Stored.secrets = PlainSecrets(disk) /\ Stored.units = disk.units
  BY DEF Stored
<1>8. Stored \in Store
  BY StoredType
<1> QED
  BY <1>1, <1>2, <1>3, <1>4, <1>5, <1>6, <1>7, <1>8

LEMMA EditFileStep ==
    ASSUME IInv, EditFile, TypeOK'
    PROVE  IInv'
<1>1. /\ pc = "down" /\ pc' = "down" /\ UNCHANGED <<mem, monitors, tx, apart, torn>>
      /\ ~InRequest /\ pc # "idle"
  BY EditFileCases DEF InRequest
<1>2. Ended
  BY <1>1 DEF IInv, DownInv, TypeOK, Ended
<1>3. DiskType(disk) /\ PlainInv /\ Stored \in Store /\ Stored.units = disk.units
  BY TypeParts, StoredType DEF IInv
<1>4. \A u \in Ids \ torn : OwnSecrets(Stored, u)
  BY <1>1, StoredIsOwn
<1>5. PICK u \in Known(disk.units) : EditUnit(u) \/ WriteDown(u)
  BY EditFileCases
<1>6. ASSUME NEW unit \in Unit, SameTargets(unit, disk.units[u]),
             disk' = [disk EXCEPT !.units[u] = unit]
      PROVE  PlainInv' /\ \A v \in Ids \ torn : OwnSecrets(Stored', v)
  <2>1. /\ u \in Ids /\ disk.units[u] \in Unit /\ disk.units \in Units /\ PlainInv'
        /\ Stored'.units = [disk.units EXCEPT ![u] = unit] /\ Stored'.secrets = Stored.secrets
        /\ unit.ssh = disk.units[u].ssh /\ unit.llm = disk.units[u].llm
    BY <1>3, <1>6, EditUnitFacts
  <2>2. Stored'.units[u] = unit /\ \A v \in Ids \ {u} : Stored'.units[v] = Stored.units[v]
    BY <1>3, <2>1, UnitChange
  <2>3. ASSUME NEW v \in Ids \ torn PROVE OwnSecrets(Stored', v)
    <3>1. CASE v # u
      BY <1>4, <2>1, <2>2, <3>1, OwnOfSame
    <3>2. CASE v = u
      <4>1. OwnSecrets(Stored, u) /\ Stored.units[u] # NoUnit
        BY <1>3, <1>4, <2>1, <3>2, DataAssumption
      <4>2. /\ Stored.secrets.pw[u] \in {None, unit.ssh}
            /\ \A p \in Ports : Stored.secrets.keys[u][p] \in {None, unit.llm}
        BY <1>3, <2>1, <4>1 DEF OwnSecrets
      <4> QED
        BY <2>1, <2>2, <3>2, <4>2, OwnOfUnit
    <3> QED
      BY <3>1, <3>2
  <2> QED
    BY <2>1, <2>3
<1>7. ASSUME WriteDown(u)
      PROVE  PlainInv' /\ \A v \in Ids \ torn : OwnSecrets(Stored', v)
  <2>1. /\ u \in Ids /\ disk.units[u] \in Unit /\ PlainInv'
        /\ Stored'.units = disk.units /\ Stored'.secrets.keys = Stored.secrets.keys
        /\ \A v \in Ids : Stored'.secrets.pw[v]
             = IF v = u THEN disk.units[u].ssh ELSE Stored.secrets.pw[v]
    BY <1>3, <1>7, WriteDownFacts
  <2>2. ASSUME NEW v \in Ids \ torn PROVE OwnSecrets(Stored', v)
    <3>1. CASE v # u
      BY <1>3, <1>4, <2>1, <3>1, OwnOfSame
    <3>2. CASE v = u
      <4>1. OwnSecrets(Stored, u) /\ Stored.units[u] # NoUnit
        BY <1>3, <1>4, <2>1, <3>2, DataAssumption
      <4>2. \A p \in Ports : Stored.secrets.keys[u][p] \in {None, disk.units[u].llm}
        BY <1>3, <4>1 DEF OwnSecrets
      <4> QED
        BY <2>1, <3>2, <4>2, OwnOfUnit
    <3> QED
      BY <3>1, <3>2
  <2> QED
    BY <2>1, <2>2
<1>8. PlainInv' /\ \A v \in Ids \ torn' : OwnSecrets(Stored', v)
  BY <1>1, <1>5, <1>6, <1>7 DEF EditUnit
<1> QED
  BY <1>2, <1>8, ToDown

LEMMA StepKeepsIInv ==
    ASSUME IInv, Next
    PROVE  IInv'
<1>1. TypeOK'
  BY TypeStep
<1> QED
  BY <1>1, LoadStep, MigrateStep, StripStep, ReconcileStep, ServeStep, BeginStep,
     WriteSecretsStep, WriteFailsStep, UndoUnitsStep, UndoSecretsStep, SyncFailsStep, AnswerStep,
     EditSecretStep, TestPasswordStep, ReorderStep, CrashStep, EditFileStep DEF Next

LEMMA StutterKeepsIInv ==
    ASSUME IInv, UNCHANGED vars
    PROVE  IInv'
<1>1. /\ disk' = disk /\ mem' = mem /\ monitors' = monitors /\ pc' = pc /\ tx' = tx
      /\ apart' = apart /\ torn' = torn
  BY DEF vars
<1>2. Stored' = Stored /\ InRequest' = InRequest /\ Starting' = Starting
  BY <1>1 DEF Stored, InRequest, Starting
<1>3. Settled' = Settled
  BY <1>1, <1>2 DEF Settled
<1>4. TypeOK' /\ PlainInv' /\ DownInv'
  BY <1>1 DEF IInv, TypeOK, PlainInv, DownInv
<1>5. StartInv' /\ IdleInv'
  BY <1>1, <1>2 DEF IInv, StartInv, IdleInv, SecretsAgree
<1>6. RequestInv'
  BY <1>1, <1>2 DEF IInv, RequestInv, SecretsAgree
<1>7. OwnInv' /\ MonitorInv'
  BY <1>1, <1>2, <1>3 DEF IInv, OwnInv, MonitorInv
<1> QED
  BY <1>4, <1>5, <1>6, <1>7 DEF IInv

\* In every state of the registry the invariant above holds.
THEOREM Invariance == Spec => []IInv
<1>1. IInv /\ [Next]_vars => IInv'
  BY StepKeepsIInv, StutterKeepsIInv
<1> QED
  BY InitIInv, <1>1, PTL DEF Spec

-----------------------------------------------------------------------------
(* The properties. *)

LEMMA IInvImplies ==
    ASSUME IInv
    PROVE  Consistent /\ SecretsOfOwnHost
<1>1. TypeOK
  BY DEF IInv
<1>2. FilesAgree
  BY DEF IInv, IdleInv, FilesAgree
<1>3. MonitorsAreCurrent
  <2> SUFFICES ASSUME pc = "idle", ~apart, NEW u \in Ids, ~RunsWith(monitors[u], mem, u)
               PROVE  u \in Known(mem.units) /\ Orphans(u) # {}
    BY DEF MonitorsAreCurrent
  <2>1. u \in Known(mem.units) /\ OrphansOf(mem, u) # {}
    BY IdleFacts DEF MonitorsOf
  <2> QED
    BY <2>1 DEF Orphans, OrphansOf
<1>4. SecretsOfOwnHost
  BY IdleFacts DEF SecretsOfOwnHost
<1> QED
  BY <1>1, <1>2, <1>3, <1>4 DEF Consistent

\* Between requests memory and the two files agree, whichever of the writes of
\* addSpark, updateSpark and removeSpark failed before; every monitor runs with
\* what memory says, but for a password that a test of the connection has saved
\* and for the keys of a failed sync; and all variables have their types.
THEOREM BetweenRequestsConsistent == Spec => []Consistent
BY Invariance, IInvImplies, PTL

\* A password or a key is used with the host it was entered for, and not kept
\* for a unit that is gone, unless a crash tore the files of that unit.
THEOREM SecretsStayHome == Spec => []SecretsOfOwnHost
BY Invariance, IInvImplies, PTL

\* What the files say does not change while the process starts, but for a key
\* that moves to another port of the same unit.
LEMMA StartStep ==
    ASSUME IInv, Starting, Next
    PROVE  \/ Stored' = Stored /\ disk'.secrets.keys = disk.secrets.keys
           \/ /\ pc = "reconcile"
              /\ \E u \in Known(mem.units), p \in Ports, q \in Ports : ReconcileTo(u, p, q)
<1>1. DiskType(disk) /\ mem \in Store /\ PlainInv /\ Stored \in Store /\ TypeOK
  BY TypeParts, StoredType DEF IInv
<1>2. ASSUME disk' = disk PROVE Stored' = Stored /\ disk'.secrets.keys = disk.secrets.keys
  BY <1>2 DEF Stored
<1>3. CASE Migrate
  <2>1. CASE LoadFails
    BY <1>2, <2>1 DEF LoadFails
  <2>2. CASE disk' = [disk EXCEPT !.secrets = mem.secrets]
    <3>1. ~apart /\ mem = Stored
      BY <1>3 DEF IInv, StartInv, Starting, Migrate, TypeOK
    <3>2. mem.secrets \in Secrets /\ mem.secrets = PlainSecrets(disk)
      BY <1>1, <3>1, StoredType, StoreFields
    <3>3. /\ DiskType(disk') /\ disk'.secrets = PlainSecrets(disk) /\ disk'.units = disk.units
          /\ disk'.plain = disk.plain
      BY <1>1, <2>2, <3>2, SecretsSaved
    <3>4. /\ PlainSecrets(disk) \in Secrets
          /\ PlainSecrets(disk).keys = disk.secrets.keys
          /\ \A u \in Ids : PlainSecrets(disk).pw[u]
               = IF u \in disk.plain THEN disk.units[u].ssh ELSE disk.secrets.pw[u]
      BY <1>1, PlainSecretsFacts DEF PlainInv
    <3>5. /\ PlainSecrets(disk') \in Secrets
          /\ PlainSecrets(disk').keys = disk'.secrets.keys
          /\ \A u \in Ids : PlainSecrets(disk').pw[u]
               = IF u \in disk'.plain THEN disk'.units[u].ssh ELSE disk'.secrets.pw[u]
      <4>1. disk'.plain \subseteq Known(disk'.units)
        BY <3>3 DEF IInv, PlainInv
      <4> QED
        BY <3>3, <4>1, PlainSecretsFacts
    <3>6. \A u \in Ids : PlainSecrets(disk').pw[u] = PlainSecrets(disk).pw[u]
      BY <3>3, <3>4, <3>5
    <3>7. PlainSecrets(disk') = PlainSecrets(disk)
      BY <3>3, <3>4, <3>5, <3>6, PwEqual
    <3> QED
      BY <3>3, <3>4, <3>7 DEF Stored
  <2> QED
    BY <1>3, <2>1, <2>2 DEF Migrate
<1>4. CASE Strip
  <2>1. CASE LoadFails
    BY <1>2, <2>1 DEF LoadFails
  <2>2. CASE disk' = [disk EXCEPT !.plain = {}]
    <3>1. ~apart /\ mem = Stored /\ disk.secrets = mem.secrets
      BY <1>4 DEF IInv, StartInv, Starting, Strip, TypeOK
    <3>2. /\ DiskType(disk') /\ disk'.secrets = disk.secrets /\ disk'.units = disk.units
          /\ disk'.plain = {}
      <4>1. {} \in SUBSET Ids
        OBVIOUS
      <4> QED
        BY <1>1, <2>2, <4>1, PlainSaved
    <3>3. PlainSecrets(disk') = PlainSecrets(disk)
      BY <1>1, <3>1, <3>2, NothingPlain, StoredType
    <3> QED
      BY <3>2, <3>3 DEF Stored
  <2> QED
    BY <1>4, <2>1, <2>2 DEF Strip
<1>5. CASE Reconcile
  BY <1>2, <1>5, ReconcileCases
<1>6. CASE Serve \/ Crash
  BY <1>2, <1>6 DEF Serve, Crash
<1>7. Migrate \/ Strip \/ Reconcile \/ Serve \/ Crash
  BY DEF Starting, Next, Load, Begin, WriteSecrets, WriteFails, UndoUnits, UndoSecrets, SyncFails,
         Answer, EditSecret, TestPassword, Reorder, EditFile
<1> QED
  BY <1>3, <1>4, <1>5, <1>6, <1>7

LEMMA StartKeepsSecrets ==
    ASSUME IInv, Starting, Next
    PROVE  UNCHANGED <<Stored.secrets.pw, KeyHosts>>
<1>1. CASE Stored' = Stored /\ disk'.secrets.keys = disk.secrets.keys
  BY <1>1 DEF KeyHosts
<1>2. ASSUME NEW u \in Known(mem.units), NEW p \in Ports, NEW q \in Ports, ReconcileTo(u, p, q),
             pc = "reconcile"
      PROVE  UNCHANGED <<Stored.secrets.pw, KeyHosts>>
  <2> DEFINE moved == MoveKey(mem.secrets, u, p, q)
  <2>1. /\ u \in Ids /\ p # q /\ moved \in Secrets /\ moved.pw = mem.secrets.pw
        /\ mem = Stored /\ mem.secrets = disk.secrets /\ disk'.secrets = moved
        /\ mem'.secrets = moved /\ Stored' = mem' /\ Stored \in Store
    BY <1>2, ReconcileFacts
  <2>2. /\ mem.secrets.keys[u][p] # None /\ mem.secrets.keys[u][q] = None
    BY <1>2, RenamedFacts DEF ReconcileTo
  <2>3. mem.secrets \in Secrets /\ u \in Ids /\ p # q
    BY <2>1, StoreFields
  <2>4. /\ moved.keys[u][p] = None
        /\ moved.keys[u][q] = IF mem.secrets.keys[u][p] = None THEN mem.secrets.keys[u][q]
                              ELSE mem.secrets.keys[u][p]
        /\ \A r \in Ports \ {p, q} : moved.keys[u][r] = mem.secrets.keys[u][r]
        /\ \A v \in Ids \ {u} : moved.keys[v] = mem.secrets.keys[v]
    BY <2>3, MoveKeyFacts, SMTT(30)
  <2> HIDE DEF moved
  <2>5. \A v \in Ids, h \in Hosts :
          (\E r \in Ports : moved.keys[v][r] = h) <=> (\E r \in Ports : mem.secrets.keys[v][r] = h)
    <3> SUFFICES ASSUME NEW h \in Hosts
                 PROVE  (\E r \in Ports : moved.keys[u][r] = h)
                          <=> (\E r \in Ports : mem.secrets.keys[u][r] = h)
      BY <2>4
    <3>1. h # None
      BY DataAssumption
    <3>2. ASSUME NEW r \in Ports, moved.keys[u][r] = h
          PROVE  \E t \in Ports : mem.secrets.keys[u][t] = h
      BY <2>2, <2>4, <3>1, <3>2
    <3>3. ASSUME NEW r \in Ports, mem.secrets.keys[u][r] = h
          PROVE  \E t \in Ports : moved.keys[u][t] = h
      BY <2>2, <2>4, <3>1, <3>3
    <3> QED
      BY <3>2, <3>3
  <2>6. \A v \in Ids : {h \in Hosts : \E r \in Ports : moved.keys[v][r] = h}
                        = {h \in Hosts : \E r \in Ports : mem.secrets.keys[v][r] = h}
    BY <2>5
  <2>7. KeyHosts' = [v \in Ids |-> {h \in Hosts : \E r \in Ports : moved.keys[v][r] = h}]
    BY <2>1 DEF KeyHosts
  <2>8. KeyHosts = [v \in Ids |-> {h \in Hosts : \E r \in Ports : mem.secrets.keys[v][r] = h}]
    BY <2>1 DEF KeyHosts
  <2>9. KeyHosts' = KeyHosts
    BY <2>6, <2>7, <2>8
  <2> QED
    BY <2>1, <2>9
<1> QED
  BY <1>1, <1>2, StartStep

\* Start-up deletes no secret: what the two files say of the passwords does not
\* change, and every unit keeps the keys it had, if at another port.
THEOREM StartKeepsAll == Spec => LoadKeepsSecrets
<1>1. IInv /\ [Next]_vars => [Starting => UNCHANGED <<Stored.secrets.pw, KeyHosts>>]_vars
  BY StartKeepsSecrets
<1> QED
  BY Invariance, <1>1, PTL DEF Spec, LoadKeepsSecrets

-----------------------------------------------------------------------------
(* The registry implements the atomic store. The instance has its own copies *)
(* of what both modules take from RegistryData; first, that they agree.      *)

LEMMA SameCalls ==
    /\ \A s, u, h : Atomic!StorePassword(s, u, h) = StorePassword(s, u, h)
    /\ \A s, u, p, h : Atomic!StoreKey(s, u, p, h) = StoreKey(s, u, p, h)
    /\ \A s, u, k : Atomic!PruneKeys(s, u, k) = PruneKeys(s, u, k)
    /\ \A s, u, p, q : Atomic!MoveKey(s, u, p, q) = MoveKey(s, u, p, q)
    /\ \A s, u : Atomic!Forget(s, u) = Forget(s, u)
    /\ \A w, s, t : Atomic!Then(w, s, t) = Then(w, s, t)
    /\ \A s, w : Atomic!Newest(s, w) = Newest(s, w)
BY DEF Atomic!StorePassword, StorePassword, Atomic!StoreKey, StoreKey, Atomic!PruneKeys, PruneKeys,
       Atomic!MoveKey, MoveKey, Atomic!Forget, Forget, Atomic!Then, Then, Atomic!Newest, Newest

LEMMA SameData ==
    /\ Atomic!Store = Store /\ Atomic!NoUnits = NoUnits
    /\ \A units : Atomic!Known(units) = Known(units)
    /\ \A a, b : Atomic!SameTargets(a, b) <=> SameTargets(a, b)
    /\ \A unit, p : Atomic!Without(unit, p) = Without(unit, p)
    /\ \A a, b, c, d : Atomic!Plan(a, b, c, d) = Plan(a, b, c, d)
    /\ \A p, s, n : Atomic!Reached(p, s, n) = Reached(p, s, n)
BY DEF Atomic!Store, Store, Atomic!Units, Units, Atomic!Secrets, Secrets, Atomic!NoUnits, NoUnits,
       Atomic!Known, Known, Atomic!SameTargets, SameTargets, Atomic!Without, Without,
       Atomic!Plan, Plan, Atomic!Reached, Reached

LEMMA SameWrites ==
    /\ \A w, s, u, unit, word :
         Atomic!PasswordWrites(w, s, u, unit, word) = PasswordWrites(w, s, u, unit, word)
    /\ \A s, u, unit, word : Atomic!UpdateWrites(s, u, unit, word) = UpdateWrites(s, u, unit, word)
    /\ \A s, u, prev, next : Atomic!SyncWrites(s, u, prev, next) = SyncWrites(s, u, prev, next)
<1>1. \A s, u, unit, word : Atomic!AfterPassword(s, u, unit, word) = AfterPassword(s, u, unit, word)
  BY Zenon DEF Atomic!AfterPassword, AfterPassword, Atomic!StorePassword, StorePassword
<1>2. \A w, s, u, unit, word :
        Atomic!PasswordWrites(w, s, u, unit, word) = PasswordWrites(w, s, u, unit, word)
  BY <1>1, SameCalls DEF Atomic!PasswordWrites, PasswordWrites
<1>3. \A s, u, unit, word : Atomic!UpdateWrites(s, u, unit, word) = UpdateWrites(s, u, unit, word)
  BY <1>2, SameCalls DEF Atomic!UpdateWrites, UpdateWrites
<1>4. \A s, u, prev, next : Atomic!SyncWrites(s, u, prev, next) = SyncWrites(s, u, prev, next)
  BY DEF Atomic!SyncWrites, SyncWrites, Atomic!Then, Then, Atomic!PruneKeys, PruneKeys,
         Atomic!MoveKey, MoveKey
<1> QED
  BY <1>2, <1>3, <1>4

LEMMA SameUpdatePlan ==
    \A s, u, unit, word, sync :
      Atomic!UpdatePlan(s, u, unit, word, sync) = UpdatePlan(s, u, unit, word, sync)
<1> TAKE s, u, unit, word, sync
<1> DEFINE w == UpdateWrites(s, u, unit, word)
<1> DEFINE t == IF sync \/ ~(s.units[u].ports \subseteq unit.ports)
                THEN SyncWrites(Newest(s.secrets, w), u, s.units[u].ports, unit.ports)
                ELSE <<>>
<1> DEFINE v == Atomic!UpdateWrites(s, u, unit, word)
<1> DEFINE y == IF sync \/ ~(s.units[u].ports \subseteq unit.ports)
                THEN Atomic!SyncWrites(Atomic!Newest(s.secrets, v), u,
                                       s.units[u].ports, unit.ports)
                ELSE <<>>
<1>1. UpdatePlan(s, u, unit, word, sync) = Plan(u, [s.units EXCEPT ![u] = unit], w \o t, Len(w))
  BY Zenon DEF UpdatePlan
<1>2. Atomic!UpdatePlan(s, u, unit, word, sync)
        = Atomic!Plan(u, [s.units EXCEPT ![u] = unit], v \o y, Len(v))
  BY Zenon DEF Atomic!UpdatePlan
<1>3. v = w
  BY SameWrites
<1> HIDE DEF v, w
<1>4. y = t
  BY <1>3, SameCalls, SameWrites
<1> HIDE DEF y, t
<1> QED
  BY <1>1, <1>2, <1>3, <1>4, SameData

LEMMA SamePlans == \A s : Atomic!Plans(s) = Plans(s)
<1> TAKE s
<1>1. Atomic!AddPlans(s) = AddPlans(s)
  <2>1. \A u, unit, word : Atomic!AddPlan(s, u, unit, word) = AddPlan(s, u, unit, word)
    BY SameWrites, SameData DEF Atomic!AddPlan, AddPlan
  <2> QED
    BY <2>1, SameData DEF Atomic!AddPlans, AddPlans, Atomic!Passwords, Passwords
<1>2. Atomic!UpdatePlans(s) = UpdatePlans(s)
  BY SameUpdatePlan, SameData DEF Atomic!UpdatePlans, UpdatePlans, Atomic!Passwords, Passwords
<1>3. Atomic!DropPortPlans(s) = DropPortPlans(s)
  <2> DEFINE S(u) == {DropPortPlan(s, u, p) :
                        p \in {q \in s.units[u].ports : Without(s.units[u], q) \in Unit}}
  <2> DEFINE T(u) == {Atomic!DropPortPlan(s, u, p) :
                        p \in {q \in s.units[u].ports : Atomic!Without(s.units[u], q) \in Unit}}
  <2>1. \A u, p : Atomic!DropPortPlan(s, u, p) = DropPortPlan(s, u, p)
    BY SameCalls, SameData DEF Atomic!DropPortPlan, DropPortPlan
  <2>2. \A u : S(u) = T(u)
    BY <2>1, SameData
  <2>3. DropPortPlans(s) = UNION {S(u) : u \in Known(s.units)}
    BY DEF DropPortPlans
  <2>4. Atomic!DropPortPlans(s) = UNION {T(u) : u \in Atomic!Known(s.units)}
    BY DEF Atomic!DropPortPlans
  <2> HIDE DEF S, T
  <2> QED
    BY <2>2, <2>3, <2>4, SameData
<1>4. Atomic!RemovePlans(s) = RemovePlans(s)
  <2>1. \A u : Atomic!RemovePlan(s, u) = RemovePlan(s, u)
    BY SameCalls, SameData DEF Atomic!RemovePlan, RemovePlan
  <2> QED
    BY <2>1, SameData DEF Atomic!RemovePlans, RemovePlans
<1> QED
  BY <1>1, <1>2, <1>3, <1>4 DEF Atomic!Plans, Plans

LEMMA SameEdits == \A s : Atomic!SecretEdits(s) = SecretEdits(s)
BY SameCalls, SameData DEF Atomic!SecretEdits, SecretEdits

LEMMA Mapped ==
    /\ InRequest => Filed = tx.file /\ Served = tx.was
    /\ pc = "idle" => Filed = Stored /\ Served = mem
    /\ ~InRequest /\ pc # "idle" => Filed = Stored /\ Served = Down
BY DEF Filed, Served, InRequest

LEMMA MappedNext ==
    /\ InRequest' => Filed' = tx'.file /\ Served' = tx'.was
    /\ pc' = "idle" => Filed' = Stored' /\ Served' = mem'
    /\ ~InRequest' /\ pc' # "idle" => Filed' = Stored' /\ Served' = Down
BY DEF Filed, Served, InRequest

AtomicStep == Atomic!Next \/ UNCHANGED Atomic!vars

LEMMA Stutters ==
    ASSUME Filed' = Filed, Served' = Served
    PROVE  AtomicStep
BY DEF AtomicStep, Atomic!vars

LEMMA ServesUp ==
    ASSUME Served \in Store
    PROVE  Atomic!Up
BY DownAssumption DEF Atomic!Up

LEMMA InitMaps ==
    ASSUME Init
    PROVE  Atomic!Init
<1>1. DiskType(disk) /\ PlainInv
  BY InitIInv, TypeParts DEF IInv
<1>2. ~InRequest /\ pc # "idle"
  BY DEF Init, InRequest
<1> QED
  BY <1>1, <1>2, Mapped, StoredType, SameData DEF Atomic!Init

\* Start: only a key that follows its port is seen from outside, and the end.
LEMMA StartMaps ==
    ASSUME IInv, Next, Starting
    PROVE  AtomicStep
<1>1. ~InRequest /\ pc # "idle" /\ Filed = Stored /\ Served = Down
  BY Mapped DEF Starting, InRequest
<1>2. DiskType(disk) /\ mem \in Store /\ PlainInv /\ Stored \in Store
  BY TypeParts, StoredType DEF IInv
<1>3. ASSUME NEW u \in Known(mem.units), NEW p \in Ports, NEW q \in Ports, ReconcileTo(u, p, q),
             pc = "reconcile"
      PROVE  AtomicStep
  <2> DEFINE moved == MoveKey(mem.secrets, u, p, q)
  <2>1. /\ u \in Ids /\ mem = Stored /\ moved \in Secrets
        /\ Stored' = mem'
    BY <1>3, ReconcileFacts
  <2>2. mem' = [mem EXCEPT !.secrets = moved] /\ pc' = pc /\ Renamed(u, p, q)
    BY <1>3 DEF ReconcileTo
  <2>3. Filed' = Stored' /\ Served' = Down
    BY <1>1, <2>2, MappedNext DEF InRequest
  <2>4. Filed' = [Filed EXCEPT !.secrets = MoveKey(Filed.secrets, u, p, q)]
    BY <1>1, <2>1, <2>2, <2>3
  <2>5. Filed.secrets.keys[u][q] = None
    BY <1>1, <2>1, <2>2, RenamedFacts
  <2>6. Atomic!MoveKey(Filed.secrets, u, p, q) = MoveKey(Filed.secrets, u, p, q)
    BY SameCalls
  <2>7. ~Atomic!Up
    BY <1>1 DEF Atomic!Up
  <2>8. Atomic!Moved
    BY <1>1, <2>1, <2>3, <2>4, <2>5, <2>6, <2>7 DEF Atomic!Moved
  <2> QED
    BY <2>8 DEF AtomicStep, Atomic!Next
<1>4. CASE Stored' = Stored /\ ~InRequest' /\ pc' # "idle"
  BY <1>1, <1>4, MappedNext, Stutters
<1>5. CASE Serve
  <2>1. /\ pc = "reconcile" /\ pc' = "idle" /\ mem' = mem /\ Stored' = Stored
    BY <1>5 DEF Serve, Stored
  <2>2. Filed' = Filed /\ Served' = mem
    BY <1>1, <2>1, MappedNext
  <2>3. ~Atomic!Up
    BY <1>1 DEF Atomic!Up
  <2>4. CASE ~apart
    <3>1. mem = Stored
      BY <2>1, <2>4 DEF IInv, StartInv, Starting
    <3>2. Atomic!Start
      BY <1>1, <2>2, <2>3, <3>1 DEF Atomic!Start
    <3> QED
      BY <3>2 DEF AtomicStep, Atomic!Next
  <2>5. CASE apart
    <3>1. mem.units = NoUnits
      BY <2>1, <2>5 DEF IInv, StartInv, Starting
    <3>2. Atomic!BlankStart
      BY <1>2, <2>2, <2>3, <3>1, SameData DEF Atomic!BlankStart
    <3> QED
      BY <3>2 DEF AtomicStep, Atomic!Next
  <2> QED
    BY <2>4, <2>5
<1>6. Serve \/ (~InRequest' /\ pc' # "idle")
  <2>1. Migrate \/ Strip \/ Reconcile \/ Serve \/ Crash
    BY DEF Starting, Next, Load, Begin, WriteSecrets, WriteFails, UndoUnits, UndoSecrets, SyncFails,
           Answer, EditSecret, TestPassword, Reorder, EditFile
  <2>2. CASE Migrate \/ Strip \/ Crash
    BY <2>2 DEF Migrate, Strip, LoadFails, Crash, Ended, InRequest
  <2>3. CASE Reconcile
    BY <2>3, ReconcileCases DEF ReconcileTo, Ended, InRequest
  <2> QED
    BY <2>1, <2>2, <2>3
<1> QED
  BY <1>3, <1>4, <1>5, <1>6, StartStep

\* A process that is down: a start begins, or a hand edits the files.
LEMMA DownMaps ==
    ASSUME IInv, Next, pc = "down"
    PROVE  AtomicStep
<1>1. ~InRequest /\ pc # "idle" /\ Filed = Stored /\ Served = Down
  BY Mapped DEF InRequest
<1>2. DiskType(disk) /\ mem \in Store /\ PlainInv /\ Stored \in Store /\ Stored.units = disk.units
  BY TypeParts, StoredType DEF IInv
<1>3. CASE Load
  <2>1. Stored' = Stored /\ ~InRequest' /\ pc' # "idle"
    BY <1>3 DEF Load, Stored, InRequest
  <2> QED
    BY <1>1, <2>1, MappedNext, Stutters
<1>4. CASE EditFile
  <2>1. pc' = "down"
    BY <1>4, EditFileCases
  <2>2. Filed' = Stored' /\ Served' = Served
    BY <1>1, <2>1, MappedNext DEF InRequest
  <2>3. ~Atomic!Up
    BY <1>1 DEF Atomic!Up
  <2>4. PICK u \in Known(disk.units) : EditUnit(u) \/ WriteDown(u)
    BY <1>4, EditFileCases
  <2>5. ASSUME NEW unit \in Unit, SameTargets(unit, disk.units[u]),
               disk' = [disk EXCEPT !.units[u] = unit]
        PROVE  AtomicStep
    <3>1. /\ Stored'.units = [disk.units EXCEPT ![u] = unit]
          /\ Stored'.secrets = Stored.secrets
          /\ DiskType(disk') /\ PlainInv'
      BY <1>2, <2>5, EditUnitFacts
    <3>2. Stored' = [units |-> Stored'.units, secrets |-> Stored'.secrets]
      BY DEF Stored
    <3>3. [Stored EXCEPT !.units[u] = unit]
            = [units |-> [disk.units EXCEPT ![u] = unit], secrets |-> Stored.secrets]
      BY <1>2 DEF Store
    <3>4. Filed' = [Filed EXCEPT !.units[u] = unit]
      BY <1>1, <2>2, <3>1, <3>2, <3>3
    <3>5. Atomic!SameTargets(unit, Filed.units[u]) /\ u \in Atomic!Known(Filed.units)
      BY <1>1, <1>2, <2>5, SameData
    <3>6. Atomic!Edited
      BY <2>2, <2>3, <3>4, <3>5 DEF Atomic!Edited
    <3> QED
      BY <3>6 DEF AtomicStep, Atomic!Next
  <2>6. ASSUME WriteDown(u)
        PROVE  AtomicStep
    <3>1. /\ u \in Ids /\ Stored'.units = disk.units /\ Stored'.secrets \in Secrets
          /\ Stored'.secrets.keys = Stored.secrets.keys
          /\ \A v \in Ids : Stored'.secrets.pw[v]
               = IF v = u THEN disk.units[u].ssh ELSE Stored.secrets.pw[v]
      BY <1>2, <2>6, WriteDownFacts
    <3>2. Stored' = [units |-> Stored'.units, secrets |-> Stored'.secrets]
      BY DEF Stored
    <3> DEFINE h == disk.units[u].ssh
    <3>3. h \in Hosts
      BY <1>2, <2>6, WriteDownFacts, DataAssumption
    <3> HIDE DEF h
    <3>4. /\ Stored.secrets \in Secrets
          /\ Stored = [units |-> disk.units, secrets |-> Stored.secrets]
      BY <1>2, StoreFields
    <3>5. Stored'.secrets = StorePassword(Stored.secrets, u, h)
      <4>1. /\ StorePassword(Stored.secrets, u, h) \in Secrets
            /\ StorePassword(Stored.secrets, u, h).keys = Stored.secrets.keys
            /\ StorePassword(Stored.secrets, u, h).pw[u] = h
            /\ \A v \in Ids \ {u} : StorePassword(Stored.secrets, u, h).pw[v] = Stored.secrets.pw[v]
        BY <3>1, <3>3, <3>4, StorePasswordFacts
      <4>2. \A v \in Ids : Stored'.secrets.pw[v] = StorePassword(Stored.secrets, u, h).pw[v]
        BY <3>1, <4>1 DEF h
      <4> QED
        BY <3>1, <4>1, <4>2, PwEqual
    <3>6. [Stored EXCEPT !.secrets.pw[u] = h]
            = [units |-> disk.units, secrets |-> StorePassword(Stored.secrets, u, h)]
      <4>1. [Stored EXCEPT !.secrets.pw[u] = h]
              = [Stored EXCEPT !.secrets = StorePassword(Stored.secrets, u, h)]
        BY <1>2 DEF StorePassword, Store
      <4>2. StorePassword(Stored.secrets, u, h) \in Secrets
        BY <3>1, <3>3, <3>4, StorePasswordFacts
      <4> DEFINE x == StorePassword(Stored.secrets, u, h)
                 t == [Stored EXCEPT !.secrets = x]
      <4> HIDE DEF x
      <4>3. t \in Store /\ t.secrets = x /\ t.units = Stored.units
        BY <1>2, <4>2, SecretsHeld DEF x
      <4>4. t = [units |-> t.units, secrets |-> t.secrets]
        BY <4>3, StoreFields
      <4> QED
        BY <1>2, <4>1, <4>3, <4>4 DEF x
    <3>7. Filed' = [Filed EXCEPT !.secrets.pw[u] = Filed.units[u].ssh]
      BY <1>1, <1>2, <2>2, <3>1, <3>2, <3>5, <3>6 DEF h
    <3>8. u \in Atomic!Known(Filed.units)
      BY <1>1, <1>2, SameData
    <3>9. Atomic!Edited
      BY <2>2, <2>3, <3>7, <3>8 DEF Atomic!Edited
    <3> QED
      BY <3>9 DEF AtomicStep, Atomic!Next
  <2> QED
    BY <2>4, <2>5, <2>6 DEF EditUnit
<1>5. Load \/ EditFile
  BY DEF Next, Load, Migrate, Strip, Reconcile, Serve, Begin, WriteSecrets, WriteFails, UndoUnits,
         UndoSecrets, SyncFails, Answer, EditSecret, TestPassword, Reorder, Crash, EditFile
<1> QED
  BY <1>3, <1>4, <1>5

LEMMA AtomicSteps ==
    ASSUME \/ Atomic!Request \/ Atomic!SecretRequest \/ Atomic!Refused \/ Atomic!Unsynced
           \/ Atomic!Botched \/ Atomic!Crash
    PROVE  AtomicStep
BY DEF AtomicStep, Atomic!Next

\* With nothing in plain text the files say what is in them.
LEMMA StoredNext ==
    ASSUME DiskType(disk'), disk'.plain = {}
    PROVE  /\ Stored' = [units |-> disk'.units, secrets |-> disk'.secrets]
           /\ Stored'.units = disk'.units /\ Stored' \in Store
<1>1. PlainSecrets(disk') = disk'.secrets
  BY NothingPlain
<1>2. disk'.units \in Units /\ disk'.secrets \in Secrets
  BY DEF DiskType
<1>3. Stored' = [units |-> disk'.units, secrets |-> PlainSecrets(disk')]
  BY DEF Stored, PlainSecrets
<1> QED
  BY <1>1, <1>2, <1>3 DEF Store

\* What the atomic store sees of a request under way.
LEMMA RequestMapped ==
    ASSUME IInv, InRequest
    PROVE  /\ Served = tx.was /\ Filed = tx.file /\ Atomic!Up
           /\ Atomic!Whole <=> tx.was = tx.file
           /\ Plan(tx.id, tx.units, tx.writes, tx.undo) \in Atomic!Plans(Served)
<1>1. Served = tx.was /\ Filed = tx.file
  BY Mapped
<1>2. tx.was \in Store /\ Plan(tx.id, tx.units, tx.writes, tx.undo) \in Plans(tx.was)
  BY TxFacts
<1> QED
  BY <1>1, <1>2, ServesUp, SamePlans DEF Atomic!Whole

\* The secrets of a request under way, as the atomic store names them.
LEMMA RequestReached ==
    ASSUME IInv, InRequest, NEW p, p = Plan(tx.id, tx.units, tx.writes, tx.undo)
    PROVE  /\ [units |-> tx.units, secrets |-> mem.secrets] = Atomic!Reached(p, Served, tx.done)
           /\ mem = Atomic!Partly(p, tx.done)
           /\ p.undo = tx.undo /\ p.units = tx.units /\ Len(p.writes) = Len(tx.writes)
<1>1. /\ p.units = tx.units /\ p.writes = tx.writes /\ p.undo = tx.undo
  BY PlanFields
<1>2. /\ Served = tx.was /\ tx.was \in Store /\ mem \in Store /\ mem.units = tx.was.units
      /\ mem.secrets = (IF tx.done = 0 THEN tx.was.secrets ELSE tx.writes[tx.done])
  BY RequestMapped, TxFacts
<1>3. Atomic!Reached(p, Served, tx.done) = Reached(p, tx.was, tx.done)
  BY <1>2, SameData
<1>4. Reached(p, tx.was, tx.done) = [units |-> tx.units, secrets |-> mem.secrets]
  BY <1>1, <1>2 DEF Reached
<1>5. mem.secrets \in Secrets
  BY <1>2, StoreFields
<1>6. Atomic!Partly(p, tx.done) = [tx.was EXCEPT !.secrets = mem.secrets]
  BY <1>1, <1>2 DEF Atomic!Partly
<1> DEFINE t == [tx.was EXCEPT !.secrets = mem.secrets]
<1>7. t \in Store /\ t.secrets = mem.secrets /\ t.units = tx.was.units
  BY <1>2, <1>5, SecretsHeld
<1> HIDE DEF t
<1>8. t = mem
  BY <1>2, <1>7, StoreFields
<1> QED
  BY <1>1, <1>3, <1>4, <1>6, <1>8 DEF t

\* The files of a request under way.
LEMMA RequestStored ==
    ASSUME IInv, InRequest
    PROVE  /\ Stored \in Store /\ Stored = [units |-> disk.units, secrets |-> disk.secrets]
           /\ Stored.units = disk.units
           /\ disk.units = (IF pc = "undoSecrets" THEN tx.was.units ELSE tx.units)
           /\ tx.was = tx.file => disk.secrets = mem.secrets
<1>1. /\ DiskType(disk) /\ disk.plain = {} /\ PlainInv
      /\ disk.units = (IF pc = "undoSecrets" THEN tx.was.units ELSE tx.units)
      /\ tx.was = tx.file => disk.secrets = mem.secrets
  BY TxFacts DEF IInv
<1>2. Stored \in Store /\ Stored.units = disk.units /\ Stored.secrets = disk.secrets
  BY <1>1, StoredType
<1> QED
  BY <1>1, <1>2, StoreFields

\* A request begins, writes a secret, or fails: the store does not change yet.
LEMMA InsideMaps ==
    ASSUME IInv, Begin \/ WriteSecrets \/ WriteFails
    PROVE  AtomicStep
<1>1. CASE Begin
  <2>1. /\ pc = "idle" /\ pc' = "write" /\ InRequest'
    BY <1>1, BeginCases DEF InRequest
  <2>2. PICK p \in Plans(mem) : BeginWith(p)
    BY <1>1, BeginCases
  <2>3. tx'.was = mem /\ tx'.file = Stored
    BY <2>1, <2>2, BeginFacts
  <2> QED
    BY <2>1, <2>3, Mapped, MappedNext, Stutters
<1>2. CASE WriteSecrets
  <2>1. InRequest /\ InRequest' /\ tx' = [tx EXCEPT !.done = tx.done + 1]
    BY <1>2 DEF WriteSecrets, InRequest
  <2>2. tx'.was = tx.was /\ tx'.file = tx.file
    BY <2>1, TxFacts DEF TxType
  <2> QED
    BY <2>1, <2>2, Mapped, MappedNext, Stutters
<1>3. CASE WriteFails
  <2>1. InRequest /\ InRequest' /\ tx' = Failed
    BY <1>3 DEF WriteFails, InRequest
  <2>2. tx'.was = tx.was /\ tx'.file = tx.file
    BY <2>1, TxFacts, FailedType
  <2> QED
    BY <2>1, <2>2, Mapped, MappedNext, Stutters
<1> QED
  BY <1>1, <1>2, <1>3

\* A request that has been taken back was refused.
LEMMA RefusedMaps ==
    ASSUME IInv, InRequest, pc' = "idle", mem' = tx.was,
           DiskType(disk'), disk'.plain = {}, disk'.units = tx.was.units,
           tx.was = tx.file => disk'.secrets = tx.was.secrets
    PROVE  AtomicStep
<1>1. /\ Served = tx.was /\ Filed = tx.file /\ Atomic!Up
      /\ Atomic!Whole <=> tx.was = tx.file
  BY RequestMapped
<1>2. Filed' = Stored' /\ Served' = tx.was
  BY MappedNext
<1>3. /\ Stored' = [units |-> disk'.units, secrets |-> disk'.secrets]
      /\ Stored'.units = tx.was.units
  BY StoredNext
<1>4. tx.was = tx.file => Stored' = tx.file
  <2>1. tx.was = [units |-> tx.was.units, secrets |-> tx.was.secrets]
    BY TxFacts, StoreFields
  <2> QED
    BY <1>3, <2>1
<1>5. Atomic!Refused
  BY <1>1, <1>2, <1>3, <1>4 DEF Atomic!Refused
<1> QED
  BY <1>5, AtomicSteps

\* A request that could not be taken back.
LEMMA BotchedMaps ==
    ASSUME IInv, InRequest, pc # "write", pc' = "idle", UNCHANGED <<mem, disk>>
    PROVE  AtomicStep
<1> DEFINE p == Plan(tx.id, tx.units, tx.writes, tx.undo)
<1>1. /\ Served = tx.was /\ Filed = tx.file /\ Atomic!Up
      /\ Atomic!Whole <=> tx.was = tx.file
      /\ p \in Atomic!Plans(Served)
  BY RequestMapped
<1>2. Filed' = Stored /\ Served' = mem
  <2>1. Stored' = Stored
    BY DEF Stored, PlainSecrets
  <2> QED
    BY <2>1, MappedNext
<1>3. /\ [units |-> tx.units, secrets |-> mem.secrets] = Atomic!Reached(p, Served, tx.done)
      /\ mem = Atomic!Partly(p, tx.done) /\ p.undo = tx.undo /\ p.units = tx.units
  BY RequestReached
<1> HIDE DEF p
<1>4. /\ mem \in Store /\ mem.units = tx.was.units
      /\ tx.done \in Nat /\ tx.undo \in Nat /\ tx.done < tx.undo
  BY TxFacts
<1>5. tx.done \in Atomic!Half(p)
  BY <1>3, <1>4 DEF Atomic!Half
<1>6. /\ Stored = [units |-> disk.units, secrets |-> disk.secrets]
      /\ Stored.units = disk.units
      /\ disk.units = (IF pc = "undoSecrets" THEN tx.was.units ELSE tx.units)
      /\ tx.was = tx.file => disk.secrets = mem.secrets
  BY RequestStored
<1>7. tx.was = tx.file => Stored \in {Atomic!Reached(p, Served, tx.done), mem}
  <2>1. mem = [units |-> mem.units, secrets |-> mem.secrets]
    BY <1>4, StoreFields
  <2> QED
    BY <1>3, <1>4, <1>6, <2>1
<1>8. Stored.units \in {tx.was.units, tx.units}
  BY <1>6
<1>9. Atomic!Botched
  BY <1>1, <1>2, <1>3, <1>4, <1>5, <1>7, <1>8, SameData DEF Atomic!Botched
<1> QED
  BY <1>9, AtomicSteps

LEMMA UndoUnitsMaps ==
    ASSUME IInv, UndoUnits
    PROVE  AtomicStep
<1>1. pc = "undoUnits" /\ InRequest /\ UNCHANGED mem
  BY DEF UndoUnits, InRequest
<1>2. /\ DiskType(disk) /\ mem \in Store /\ tx.was \in Store /\ tx.done \in Nat
      /\ mem.units = tx.was.units /\ disk.plain = {}
      /\ mem.secrets = (IF tx.done = 0 THEN tx.was.secrets ELSE tx.writes[tx.done])
      /\ tx.was = tx.file => disk.secrets = mem.secrets
  BY <1>1, TxFacts
<1>3. mem.units \in Units
  BY <1>2, StoreFields
<1>4. CASE tx.done > 0 /\ pc' = "undoSecrets" /\ tx' = tx
  <2>1. InRequest'
    BY <1>4 DEF InRequest
  <2> QED
    BY <1>1, <1>4, <2>1, Mapped, MappedNext, Stutters
<1>5. CASE tx.done = 0 /\ pc' = "idle" /\ disk' = [disk EXCEPT !.units = mem.units]
  <2>1. /\ DiskType(disk') /\ disk'.units = tx.was.units /\ disk'.plain = {}
        /\ disk'.secrets = disk.secrets
    BY <1>2, <1>3, <1>5, UnitsTakenBack
  <2>2. mem' = tx.was
    BY <1>1, <1>2, <1>5, StoreFields
  <2> QED
    BY <1>1, <1>2, <1>5, <2>1, <2>2, RefusedMaps
<1>6. CASE pc' = "idle" /\ disk' = disk
  BY <1>1, <1>6, BotchedMaps
<1>7. \/ tx.done > 0 /\ pc' = "undoSecrets" /\ tx' = tx
      \/ ~(tx.done > 0) /\ pc' = "idle" /\ disk' = [disk EXCEPT !.units = mem.units]
      \/ pc' = "idle" /\ disk' = disk
  BY DEF UndoUnits
<1>8. tx.done > 0 \/ tx.done = 0
  BY <1>2
<1> QED
  BY <1>4, <1>5, <1>6, <1>7, <1>8

LEMMA UndoSecretsMaps ==
    ASSUME IInv, UndoSecrets
    PROVE  AtomicStep
<1>1. pc = "undoSecrets" /\ InRequest /\ pc' = "idle"
  BY DEF UndoSecrets, InRequest
<1>2. /\ DiskType(disk) /\ mem \in Store /\ tx.was \in Store
      /\ mem.units = tx.was.units /\ disk.plain = {} /\ disk.units = tx.was.units
  BY <1>1, TxFacts
<1>3. tx.was.secrets \in Secrets
  BY <1>2, StoreFields
<1>4. CASE /\ disk' = [disk EXCEPT !.secrets = tx.was.secrets]
           /\ mem' = [mem EXCEPT !.secrets = tx.was.secrets]
  <2>1. /\ DiskType(disk') /\ disk'.units = tx.was.units /\ disk'.plain = {}
        /\ disk'.secrets = tx.was.secrets
    BY <1>2, <1>3, <1>4, SecretsSaved
  <2>2. mem' \in Store /\ mem'.units = tx.was.units /\ mem'.secrets = tx.was.secrets
    BY <1>2, <1>3, <1>4, SecretsHeld
  <2>3. mem' = tx.was
    BY <1>2, <2>2, StoreFields
  <2> QED
    BY <1>1, <2>1, <2>3, RefusedMaps
<1>5. CASE UNCHANGED <<disk, mem>>
  BY <1>1, <1>5, BotchedMaps
<1> QED
  BY <1>4, <1>5 DEF UndoSecrets

\* A request that ends with the new units.
LEMMA EndMaps ==
    ASSUME IInv, SyncFails \/ Answer
    PROVE  AtomicStep
<1> DEFINE p == Plan(tx.id, tx.units, tx.writes, tx.undo)
<1>1. /\ pc = "write" /\ InRequest /\ pc' = "idle" /\ disk' = disk
      /\ mem' = [mem EXCEPT !.units = tx.units]
  BY DEF SyncFails, Answer, InRequest
<1>2. /\ Served = tx.was /\ Filed = tx.file /\ Atomic!Up
      /\ Atomic!Whole <=> tx.was = tx.file
      /\ p \in Atomic!Plans(Served)
  BY <1>1, RequestMapped
<1>3. Filed' = Stored /\ Served' = mem'
  <2>1. Stored' = Stored
    BY <1>1 DEF Stored, PlainSecrets
  <2> QED
    BY <1>1, <2>1, MappedNext
<1>4. /\ [units |-> tx.units, secrets |-> mem.secrets] = Atomic!Reached(p, Served, tx.done)
      /\ p.undo = tx.undo /\ Len(p.writes) = Len(tx.writes)
  BY <1>1, RequestReached
<1> HIDE DEF p
<1>5. /\ mem \in Store /\ tx.units \in Units /\ tx.done \in Nat /\ tx.undo \in Nat
      /\ tx.writes \in Seq(Secrets) /\ tx.done <= Len(tx.writes)
  BY <1>1, TxFacts
<1>6. /\ mem' \in Store /\ mem'.units = tx.units
      /\ mem' = [units |-> tx.units, secrets |-> mem.secrets]
  <2>1. mem' \in Store /\ mem'.units = tx.units /\ mem'.secrets = mem.secrets
    BY <1>1, <1>5, UnitsHeld
  <2> QED
    BY <2>1, StoreFields
<1>7. Atomic!Kept
  <2>1. /\ Stored = [units |-> tx.units, secrets |-> disk.secrets]
        /\ Stored.units = tx.units
        /\ tx.was = tx.file => disk.secrets = mem.secrets
    BY <1>1, RequestStored
  <2>2. tx.was = tx.file => Stored = mem'
    BY <1>6, <2>1
  <2> QED
    BY <1>2, <1>3, <1>6, <2>1, <2>2 DEF Atomic!Kept
<1>8. CASE SyncFails
  <2>1. tx.undo <= tx.done
    BY <1>8 DEF SyncFails
  <2>2. tx.done \in p.undo .. Len(p.writes)
    BY <1>4, <1>5, <2>1
  <2>3. Atomic!Unsynced
    BY <1>2, <1>3, <1>4, <1>6, <1>7, <2>2, SameData DEF Atomic!Unsynced
  <2> QED
    BY <2>3, AtomicSteps
<1>9. CASE Answer
  <2>1. tx.done = Len(p.writes)
    BY <1>4, <1>9 DEF Answer
  <2>2. Atomic!Request
    BY <1>2, <1>3, <1>4, <1>6, <1>7, <2>1, SameData DEF Atomic!Request
  <2> QED
    BY <2>2, AtomicSteps
<1> QED
  BY <1>8, <1>9

\* The requests that are over in one step.
LEMMA EditMaps ==
    ASSUME IInv, pc = "idle", pc' = "idle", NEW e, EditTo(e)
    PROVE  AtomicStep
<1>1. /\ pc = "idle" /\ pc' = "idle"
  OBVIOUS
<1>2. e \in SecretEdits(mem) /\ EditTo(e)
  BY DEF EditTo
<1>3. /\ DiskType(disk') /\ disk'.secrets = e[2] /\ disk'.units = disk.units /\ disk'.plain = {}
      /\ mem' \in Store /\ mem' = [units |-> mem.units, secrets |-> e[2]]
  BY <1>1, <1>2, EditFacts
<1>4. mem' = [mem EXCEPT !.secrets = e[2]]
  BY <1>2 DEF EditTo
<1>5. /\ DiskType(disk) /\ mem \in Store /\ PlainInv
  BY <1>1, IdleFacts DEF IInv
<1>6. Stored.units = disk.units
  BY <1>5, StoredType
<1>7. Filed = Stored /\ Served = mem /\ Filed' = Stored' /\ Served' = mem' /\ Atomic!Up
  BY <1>1, <1>5, Mapped, MappedNext, ServesUp
<1>8. /\ Stored' = [units |-> disk.units, secrets |-> e[2]] /\ Stored'.units = disk.units
  BY <1>3, StoredNext
<1>9. mem = Stored => Stored' = mem'
  BY <1>3, <1>6, <1>8
<1>10. e \in Atomic!SecretEdits(Served)
  BY <1>2, <1>7, SameEdits
<1>11. Atomic!SecretRequest
  BY <1>3, <1>4, <1>6, <1>7, <1>8, <1>9, <1>10, SameData DEF Atomic!SecretRequest, Atomic!Whole
<1> QED
  BY <1>11, AtomicSteps

LEMMA EditSecretMaps ==
    ASSUME IInv, EditSecret
    PROVE  AtomicStep
BY EditSecretCases, EditMaps

LEMMA TestPasswordMaps ==
    ASSUME IInv, TestPassword
    PROVE  AtomicStep
<1>1. /\ pc = "idle" /\ pc' = "idle"
  BY TestPasswordCases
<1>2. PICK u \in Known(mem.units) : TestOf(u)
  BY TestPasswordCases
<1>3. EditTo(<<u, Saved(u)>>)
  BY <1>2, TestedEdit DEF EditTo, TestOf
<1> QED
  BY <1>1, <1>3, EditMaps

LEMMA ReorderMaps ==
    ASSUME IInv, Reorder
    PROVE  AtomicStep
<1>1. /\ pc = "idle" /\ pc' = "idle" /\ UNCHANGED mem
      /\ disk' = [disk EXCEPT !.units = mem.units, !.plain = {}]
  BY DEF Reorder
<1>2. DiskType(disk) /\ mem \in Store /\ (Stored = mem => disk.secrets = mem.secrets)
  BY <1>1, IdleFacts
<1>3. DiskType(disk') /\ disk'.units = mem.units /\ disk'.plain = {} /\ disk'.secrets = disk.secrets
  <2>1. mem.units \in Units
    BY <1>2, StoreFields
  <2> QED
    BY <1>1, <1>2, <2>1 DEF DiskType
<1>4. Filed = Stored /\ Served = mem /\ Filed' = Stored' /\ Served' = mem /\ Atomic!Up
  BY <1>1, <1>2, Mapped, MappedNext, ServesUp
<1>5. Stored' = [units |-> mem.units, secrets |-> disk.secrets] /\ Stored'.units = mem.units
  BY <1>3, StoredNext
<1>6. mem = [units |-> mem.units, secrets |-> mem.secrets]
  BY <1>2, StoreFields
<1>7. mem = Stored => Stored' = Stored
  BY <1>2, <1>5, <1>6
<1>8. Atomic!Refused
  BY <1>4, <1>5, <1>7 DEF Atomic!Refused, Atomic!Whole
<1> QED
  BY <1>8, AtomicSteps

\* The process ends: between requests with its files, within one with the new
\* units and the secrets written so far, or with what was taken back of them.
LEMMA CrashMaps ==
    ASSUME IInv, Crash, InRequest \/ pc = "idle"
    PROVE  AtomicStep
<1>1. Ended /\ disk' = disk
  BY DEF Crash
<1>2. Filed' = Stored /\ Served' = Down
  <2>1. Stored' = Stored
    BY <1>1 DEF Stored, PlainSecrets
  <2>2. ~InRequest' /\ pc' # "idle"
    BY <1>1 DEF Ended, InRequest
  <2> QED
    BY <2>1, <2>2, MappedNext
<1>3. CASE pc = "idle"
  <2>1. mem \in Store
    BY <1>3, IdleFacts
  <2>2. Filed = Stored /\ Served = mem /\ Atomic!Up
    BY <1>3, <2>1, Mapped, ServesUp
  <2>3. Atomic!Crash
    BY <1>2, <2>2 DEF Atomic!Crash
  <2> QED
    BY <2>3, AtomicSteps
<1>4. CASE InRequest
  <2> DEFINE p == Plan(tx.id, tx.units, tx.writes, tx.undo)
  <2>1. /\ Served = tx.was /\ Filed = tx.file /\ Atomic!Up
        /\ Atomic!Whole <=> tx.was = tx.file
        /\ p \in Atomic!Plans(Served)
    BY <1>4, RequestMapped
  <2>2. /\ [units |-> tx.units, secrets |-> mem.secrets] = Atomic!Reached(p, Served, tx.done)
        /\ mem = Atomic!Partly(p, tx.done)
        /\ p.undo = tx.undo /\ p.units = tx.units /\ Len(p.writes) = Len(tx.writes)
    BY <1>4, RequestReached
  <2> HIDE DEF p
  <2>3. /\ mem \in Store /\ mem.units = tx.was.units
        /\ tx.done \in Nat /\ tx.undo \in Nat /\ tx.writes \in Seq(Secrets)
        /\ tx.done <= Len(tx.writes) /\ (pc = "undoSecrets" => tx.done < tx.undo)
    BY <1>4, TxFacts
  <2>4. /\ Stored = [units |-> disk.units, secrets |-> disk.secrets]
        /\ Stored.units = disk.units
        /\ disk.units = (IF pc = "undoSecrets" THEN tx.was.units ELSE tx.units)
        /\ tx.was = tx.file => disk.secrets = mem.secrets
    BY <1>4, RequestStored
  <2>5. CASE tx.was # tx.file
    <3>1. Stored.units \in {tx.was.units, tx.units}
      BY <2>4
    <3>2. Atomic!Crash
      BY <1>2, <2>1, <2>2, <2>5, <3>1 DEF Atomic!Crash
    <3> QED
      BY <3>2, AtomicSteps
  <2>6. CASE tx.was = tx.file /\ pc # "undoSecrets"
    <3>1. Stored = Atomic!Reached(p, Served, tx.done)
      BY <2>2, <2>4, <2>6
    <3>2. tx.done \in 0 .. Len(p.writes)
      BY <2>2, <2>3
    <3>3. Atomic!Crash
      BY <1>2, <2>1, <2>6, <3>1, <3>2, SameData DEF Atomic!Crash
    <3> QED
      BY <3>3, AtomicSteps
  <2>7. CASE tx.was = tx.file /\ pc = "undoSecrets"
    <3>1. Stored = Atomic!Partly(p, tx.done)
      <4>1. mem = [units |-> mem.units, secrets |-> mem.secrets]
        BY <2>3, StoreFields
      <4> QED
        BY <2>2, <2>3, <2>4, <2>7, <4>1
    <3>2. tx.done \in Atomic!Half(p)
      BY <2>2, <2>3, <2>7 DEF Atomic!Half
    <3>3. Atomic!Crash
      BY <1>2, <2>1, <2>7, <3>1, <3>2 DEF Atomic!Crash
    <3> QED
      BY <3>3, AtomicSteps
  <2> QED
    BY <2>5, <2>6, <2>7
<1> QED
  BY <1>3, <1>4

LEMMA EveryStepMaps ==
    ASSUME IInv, [Next]_vars
    PROVE  [Atomic!Next]_(Atomic!vars)
<1>1. ASSUME Next PROVE AtomicStep
  <2>1. CASE pc = "down"
    BY <1>1, <2>1, DownMaps
  <2>2. CASE Starting
    BY <1>1, <2>2, StartMaps
  <2>3. CASE InRequest \/ pc = "idle"
    <3>1. \/ Begin \/ WriteSecrets \/ WriteFails \/ UndoUnits \/ UndoSecrets \/ SyncFails
          \/ Answer \/ EditSecret \/ TestPassword \/ Reorder \/ Crash
      BY <1>1, <2>3 DEF Next, InRequest, Load, Migrate, Strip, Reconcile, Serve, EditFile
    <3> QED
      BY <2>3, <3>1, InsideMaps, UndoUnitsMaps, UndoSecretsMaps, EndMaps, EditSecretMaps,
         TestPasswordMaps, ReorderMaps, CrashMaps
  <2>4. pc = "down" \/ Starting \/ InRequest \/ pc = "idle"
    BY DEF IInv, TypeOK, PCs, Starting, InRequest
  <2> QED
    BY <2>1, <2>2, <2>3, <2>4
<1>2. ASSUME UNCHANGED vars PROVE AtomicStep
  <2>1. Filed' = Filed /\ Served' = Served
    BY <1>2 DEF vars, Filed, Served, Stored, PlainSecrets, InRequest
  <2> QED
    BY <2>1, Stutters
<1> QED
  BY <1>1, <1>2 DEF AtomicStep

\* Every step of the registry is a step of the atomic store or none at all: a
\* request takes effect as a whole or not at all, but for the exceptions that
\* store spells out, whatever is written and whichever write fails.
THEOREM RegistryIsAtomic == Spec => IsAtomic
<1>1. Spec => Atomic!Init
  BY InitMaps, PTL DEF Spec
<1>2. IInv /\ [Next]_vars => [Atomic!Next]_(Atomic!vars)
  BY EveryStepMaps
<1> QED
  BY Invariance, <1>1, <1>2, PTL DEF Spec, IsAtomic, Atomic!Spec
=============================================================================

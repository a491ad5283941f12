--------------------------- MODULE SparkRegistry ----------------------------
(***************************************************************************)
(* The unit registry: the units and their secrets, in memory and in two    *)
(* files. A request is synchronous code, so requests do not interleave;    *)
(* but it writes one file after the other, each write may fail, and the    *)
(* process may end between any two.                                        *)
(***************************************************************************)
EXTENDS RegistryData

CONSTANT MaxFaults   \* writes that may fail in one request or one start

ASSUME RegistryAssumption == MaxFaults \in Nat

VARIABLES
  disk,      \* sparks.json with its plain-text passwords; the secrets file
  mem,       \* _sparks, _passwords and _llmApiKeys
  monitors,  \* the copy of unit and secrets that each monitor runs with
  pc,        \* the write that comes next
  tx,        \* the request under way
  apart,     \* this process has failed to load the units, or to take a request back
  torn       \* units that a crash or such a failure may have left with foreign secrets

vars == <<disk, mem, monitors, pc, tx, apart, torn>>

PCs == {"down", "migrate", "strip", "reconcile", "idle", "write", "undoUnits", "undoSecrets"}
NoSecrets == [pw |-> [u \in Ids |-> None], keys |-> [u \in Ids |-> [p \in Ports |-> None]]]
Nothing == [units |-> NoUnits, secrets |-> NoSecrets]

\* What a monitor is given: getSpark's copy. `tested` remembers that a test of
\* the connection has saved a password since, which the monitor was not given.
Given(s, u) == [unit |-> s.units[u], pw |-> s.secrets.pw[u], keys |-> s.secrets.keys[u],
                tested |-> FALSE]
GivenTo(s) == [u \in Ids |-> Given(s, u)]
Copies == [unit : Unit \union {NoUnit}, pw : Hosts \union {None},
           keys : [Ports -> Hosts \union {None}], tested : BOOLEAN]
NoTx == [id |-> None, units |-> NoUnits, writes |-> <<>>, undo |-> 0,
         done |-> 0, was |-> Nothing, file |-> Nothing, faults |-> 0]

\* What the files say, a password in plain text included.
PlainSecrets(d) ==
  [d.secrets EXCEPT !.pw = [u \in Ids |-> IF u \in d.plain THEN d.units[u].ssh
                                          ELSE d.secrets.pw[u]]]
Stored == [units |-> disk.units, secrets |-> PlainSecrets(disk)]

\* A fresh install. Files of earlier versions are among those edited by hand.
Init ==
  /\ disk = [units |-> NoUnits, secrets |-> NoSecrets, plain |-> {}]
  /\ mem = Nothing
  /\ monitors = GivenTo(Nothing)
  /\ pc = "down"
  /\ tx = NoTx
  /\ apart = FALSE
  /\ torn = {}

MayFail == tx.faults < MaxFaults

Failed == [tx EXCEPT !.faults = @ + 1]

(***************************************************************************)
(* Start                                                                   *)
(***************************************************************************)
\* Mutant: the passwords are stripped before they are in the secrets file.
LoadStripsFirst ==
  /\ pc = "down"
  /\ mem' = Stored
  /\ pc' = IF disk.plain # {} THEN "strip" ELSE "reconcile"
  /\ UNCHANGED <<disk, monitors, tx, apart, torn>>

\* _load: both files are read; passwords in plain text are to be moved.
Load ==
  /\ pc = "down"
  /\ mem' = Stored
  /\ pc' = IF disk.plain # {} THEN "migrate" ELSE "reconcile"
  /\ UNCHANGED <<disk, monitors, tx, apart, torn>>

\* An error of either write is taken for one of reading: no unit is loaded.
LoadFails ==
  /\ MayFail
  /\ mem' = [mem EXCEPT !.units = NoUnits]
  /\ pc' = "reconcile"
  /\ tx' = Failed
  /\ apart' = TRUE
  /\ torn' = Ids
  /\ UNCHANGED <<disk, monitors>>

Migrate ==
  /\ pc = "migrate"
  /\ \/ /\ disk' = [disk EXCEPT !.secrets = mem.secrets]
        /\ pc' = "strip"
        /\ UNCHANGED <<mem, monitors, tx, apart, torn>>
     \/ LoadFails

Strip ==
  /\ pc = "strip"
  /\ \/ /\ disk' = [disk EXCEPT !.plain = {}]
        /\ pc' = "reconcile"
        /\ UNCHANGED <<mem, monitors, tx, apart, torn>>
     \/ LoadFails

Orphans(u) == {p \in Ports : mem.secrets.keys[u][p] # None} \ mem.units[u].ports
Missing(u) == {p \in mem.units[u].ports : mem.secrets.keys[u][p] = None}
Renamed(u, p, q) == Orphans(u) = {p} /\ Missing(u) = {q}

Ended ==
  /\ mem' = Nothing
  /\ monitors' = GivenTo(Nothing)
  /\ pc' = "down"
  /\ tx' = NoTx
  /\ apart' = FALSE

\* _reconcileLlmApiKeysAtLoad; an error leaves the constructor and ends the process.
Reconcile ==
  /\ pc = "reconcile"
  /\ \E u \in Known(mem.units), p, q \in Ports :
       /\ Renamed(u, p, q)
       /\ LET moved == MoveKey(mem.secrets, u, p, q) IN
          \/ /\ disk' = [disk EXCEPT !.secrets = moved]
             /\ mem' = [mem EXCEPT !.secrets = moved]
             /\ UNCHANGED <<monitors, pc, tx, apart, torn>>
          \/ /\ MayFail
             /\ Ended
             /\ UNCHANGED <<disk, torn>>

\* startAllMonitors, once nothing is left to reconcile.
Serve ==
  /\ pc = "reconcile"
  /\ ~ \E u \in Known(mem.units), p, q \in Ports : Renamed(u, p, q)
  /\ pc' = "idle"
  /\ monitors' = GivenTo(mem)
  /\ tx' = NoTx
  /\ UNCHANGED <<disk, mem, apart, torn>>

(***************************************************************************)
(* Requests                                                                *)
(***************************************************************************)
\* The unit list is written first, without passwords. If that fails, the
\* request is refused and nothing has changed.
Begin ==
  /\ pc = "idle"
  /\ \E p \in Plans(mem) :
       /\ tx' = [id |-> p.id, units |-> p.units, writes |-> p.writes, undo |-> p.undo,
                 done |-> 0, was |-> mem, file |-> Stored, faults |-> 0]
       /\ disk' = [disk EXCEPT !.units = p.units, !.plain = {}]
  /\ pc' = "write"
  /\ UNCHANGED <<mem, monitors, apart, torn>>

WriteSecrets ==
  /\ pc = "write"
  /\ tx.done < Len(tx.writes)
  /\ disk' = [disk EXCEPT !.secrets = tx.writes[tx.done + 1]]
  /\ mem' = [mem EXCEPT !.secrets = tx.writes[tx.done + 1]]
  /\ tx' = [tx EXCEPT !.done = @ + 1]
  /\ UNCHANGED <<monitors, pc, apart, torn>>

\* The request has failed; what its update has done so far is taken back.
WriteFails ==
  /\ pc = "write"
  /\ tx.done < tx.undo
  /\ MayFail
  /\ tx' = Failed
  /\ pc' = "undoUnits"
  /\ UNCHANGED <<disk, mem, monitors, apart, torn>>

UndoUnits ==
  /\ pc = "undoUnits"
  /\ \/ /\ disk' = [disk EXCEPT !.units = mem.units]
        /\ IF tx.done > 0 THEN pc' = "undoSecrets" /\ tx' = tx
                          ELSE pc' = "idle" /\ tx' = NoTx
        /\ UNCHANGED <<apart, torn>>
     \/ /\ MayFail
        /\ pc' = "idle"
        /\ tx' = NoTx
        /\ apart' = TRUE
        /\ torn' = torn \union {tx.id}
        /\ UNCHANGED disk
  /\ UNCHANGED <<mem, monitors>>

UndoSecrets ==
  /\ pc = "undoSecrets"
  /\ \/ /\ disk' = [disk EXCEPT !.secrets = tx.was.secrets]
        /\ mem' = [mem EXCEPT !.secrets = tx.was.secrets]
        /\ UNCHANGED apart
     \/ /\ MayFail
        /\ apart' = TRUE
        /\ UNCHANGED <<disk, mem>>
  /\ pc' = "idle"
  /\ tx' = NoTx
  /\ UNCHANGED <<monitors, torn>>

\* The update stands although the request fails, and the monitor is not told.
SyncFails ==
  /\ pc = "write"
  /\ tx.undo <= tx.done
  /\ tx.done < Len(tx.writes)
  /\ MayFail
  /\ mem' = [mem EXCEPT !.units = tx.units]
  /\ pc' = "idle"
  /\ tx' = NoTx
  /\ UNCHANGED <<disk, monitors, apart, torn>>

Answer ==
  /\ pc = "write"
  /\ tx.done = Len(tx.writes)
  /\ mem' = [mem EXCEPT !.units = tx.units]
  /\ monitors' = [monitors EXCEPT ![tx.id] = Given(mem', tx.id)]
  /\ pc' = "idle"
  /\ tx' = NoTx
  /\ UNCHANGED <<disk, apart, torn>>

\* Mutant: the monitor is not told.
EditSecretUntold ==
  /\ pc = "idle"
  /\ \E e \in SecretEdits(mem) : /\ disk' = [disk EXCEPT !.secrets = e[2]]
                               /\ mem' = [mem EXCEPT !.secrets = e[2]]
  /\ UNCHANGED <<monitors, pc, tx, apart, torn>>

\* Mutant: what is written takes the place of the keys of the other ports.
EditSecretDropsOthers ==
  /\ pc = "idle"
  /\ \E e \in SecretEdits(mem), p \in Ports :
       LET only == PruneKeys(e[2], e[1], {p}) IN
       /\ disk' = [disk EXCEPT !.secrets = only]
       /\ mem' = [mem EXCEPT !.secrets = only]
       /\ monitors' = [monitors EXCEPT ![e[1]] = Given(mem', e[1])]
  /\ UNCHANGED <<pc, tx, apart, torn>>

\* setPassword, setLlmApiKey: one write, and the monitor is given the unit.
EditSecret ==
  /\ pc = "idle"
  /\ \E e \in SecretEdits(mem) :
       /\ disk' = [disk EXCEPT !.secrets = e[2]]
       /\ mem' = [mem EXCEPT !.secrets = e[2]]
       /\ monitors' = [monitors EXCEPT ![e[1]] = Given(mem', e[1])]
  /\ UNCHANGED <<pc, tx, apart, torn>>

\* The test of a unit's connection saves the password it is sent, for itself
\* and for later: the running monitor keeps the one it has.
TestPassword ==
  /\ pc = "idle"
  /\ \E u \in Known(mem.units) :
       LET saved == StorePassword(mem.secrets, u, mem.units[u].ssh) IN
       /\ disk' = [disk EXCEPT !.secrets = saved]
       /\ mem' = [mem EXCEPT !.secrets = saved]
       /\ monitors' = [monitors EXCEPT ![u].tested = TRUE]
  /\ UNCHANGED <<pc, tx, apart, torn>>

\* reorderSparks: the list is written again. (The order itself is left out.)
Reorder ==
  /\ pc = "idle"
  /\ disk' = [disk EXCEPT !.units = mem.units, !.plain = {}]
  /\ UNCHANGED <<mem, monitors, pc, tx, apart, torn>>

(***************************************************************************)
(* The process ends; while it is down, a hand may edit sparks.json.        *)
(***************************************************************************)
Crash ==
  /\ pc # "down"
  /\ torn' = IF pc \in {"write", "undoUnits", "undoSecrets"} THEN torn \union {tx.id} ELSE torn
  /\ Ended
  /\ UNCHANGED disk

EditFile ==
  /\ pc = "down"
  /\ \E u \in Known(disk.units) :
       \/ \E unit \in Unit : /\ SameTargets(unit, disk.units[u])
                           /\ disk' = [disk EXCEPT !.units[u] = unit]
       \/ disk' = [disk EXCEPT !.plain = @ \union {u}]
  /\ UNCHANGED <<mem, monitors, pc, tx, apart, torn>>

Next ==
  \/ Load \/ Migrate \/ Strip \/ Reconcile \/ Serve
  \/ Begin \/ WriteSecrets \/ WriteFails \/ UndoUnits \/ UndoSecrets \/ SyncFails \/ Answer
  \/ EditSecret \/ TestPassword \/ Reorder
  \/ Crash \/ EditFile

Spec == Init /\ [][Next]_vars

(***************************************************************************)
(* Properties                                                              *)
(***************************************************************************)
\* Types of all variables.
TypeOK ==
  /\ disk \in [units : Units, secrets : Secrets, plain : SUBSET Ids]
  /\ mem \in Store
  /\ monitors \in [Ids -> Copies]
  /\ pc \in PCs
  /\ tx \in [id : Ids \union {None}, units : Units, writes : Seq(Secrets), undo : Nat,
             done : Nat, was : Store, file : Store, faults : Nat]
  /\ apart \in BOOLEAN
  /\ torn \subseteq Ids

\* The parts of Consistent. Between requests the two files say what memory says, whichever write failed,
\* and no password is left in plain text: the commit and rollback of addSpark,
\* updateSpark and removeSpark, and the migration of _load.
FilesAgree == pc = "idle" /\ ~apart => disk = [units |-> mem.units, secrets |-> mem.secrets,
                                              plain |-> {}]

\* A password and a key are used with the host they were entered for, and not
\* kept for a unit that is gone, unless a crash came between the two files.
OwnSecrets(s, u) ==
  IF s.units[u] = NoUnit
  THEN s.secrets.pw[u] = None /\ \A p \in Ports : s.secrets.keys[u][p] = None
  ELSE /\ s.secrets.pw[u] \in {None, s.units[u].ssh}
       /\ \A p \in Ports : s.secrets.keys[u][p] \in {None, s.units[u].llm}
SecretsOfOwnHost == pc = "idle" => \A u \in Ids \ torn : OwnSecrets(mem, u)

\* A monitor runs with the stored unit and its secrets, but for a password that
\* a test has saved (nothing is said of the password then). It runs with others
\* only while the key of a port that the unit no longer has is still there: the
\* failed sync of patchSpark, which leaves the update in place.
RunsWith(m, s, u) ==
  /\ m.unit = s.units[u]
  /\ m.keys = s.secrets.keys[u]
  /\ m.tested \/ m.pw = s.secrets.pw[u]
MonitorsAreCurrent ==
  pc = "idle" /\ ~apart =>
    \A u \in Ids : \/ RunsWith(monitors[u], mem, u)
                   \/ u \in Known(mem.units) /\ Orphans(u) # {}

\* Between requests memory and the two files agree, whatever failed, and the
\* monitors run with it: every route but the test of a connection hands them
\* what it has changed.
Consistent == TypeOK /\ FilesAgree /\ MonitorsAreCurrent

Starting == pc \in {"migrate", "strip", "reconcile"}

\* Start-up deletes no secret: a password moves from one file to the other and
\* a key from port to port ("never delete stored key material at load").
KeyHosts == [u \in Ids |-> {h \in Hosts : \E p \in Ports : disk.secrets.keys[u][p] = h}]
LoadKeepsSecrets ==
  [][Starting => UNCHANGED <<Stored.secrets.pw, KeyHosts>>]_vars

(***************************************************************************)
(* The registry as one atomic store. In the middle of a request it is      *)
(* still what it was; the files of a process that is down speak for        *)
(* themselves.                                                             *)
(***************************************************************************)
InRequest == pc \in {"write", "undoUnits", "undoSecrets"}
Filed == IF InRequest THEN tx.file ELSE Stored
Served == IF InRequest THEN tx.was ELSE IF pc = "idle" THEN mem ELSE Down
Atomic == INSTANCE AtomicRegistry WITH file <- Filed, served <- Served

\* Every step of the registry is a step the atomic store allows.
IsAtomic == Atomic!Spec

=============================================================================

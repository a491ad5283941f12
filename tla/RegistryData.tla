---------------------------- MODULE RegistryData ----------------------------
(***************************************************************************)
(* What the unit registry keeps, and what a request makes of it.           *)
(*                                                                         *)
(* A unit is reduced to what its secrets depend on: where ssh goes, where  *)
(* the LLM keys go, and the LLM ports. A secret is reduced to the place it *)
(* was entered for.                                                        *)
(***************************************************************************)
EXTENDS Naturals, Sequences

CONSTANTS
  Ids,     \* unit ids
  Hosts,   \* ssh and LLM targets
  Ports,   \* LLM ports
  Unit,    \* the configurations a unit may have
  NoUnit,  \* no unit under this id
  None,    \* no secret
  Down     \* what is served by a process that does not run

ASSUME DataAssumption ==
  /\ Unit \subseteq [ssh : Hosts, llm : Hosts, ports : SUBSET Ports]
  /\ NoUnit \notin Unit
  /\ None \notin Hosts \union Ids

Units == [Ids -> Unit \union {NoUnit}]
Secrets == [pw : [Ids -> Hosts \union {None}],
            keys : [Ids -> [Ports -> Hosts \union {None}]]]
Store == [units : Units, secrets : Secrets]

ASSUME DownAssumption == Down \notin Store

NoUnits == [u \in Ids |-> NoUnit]
SameTargets(a, b) == a.ssh = b.ssh /\ a.llm = b.llm
Known(units) == {u \in Ids : units[u] # NoUnit}

(***************************************************************************)
(* The secrets after one call.                                             *)
(***************************************************************************)
StorePassword(s, u, h) == [s EXCEPT !.pw[u] = h]
StoreKey(s, u, p, h) == [s EXCEPT !.keys[u][p] = h]
PruneKeys(s, u, keep) ==
  [s EXCEPT !.keys[u] = [p \in Ports |-> IF p \in keep THEN s.keys[u][p] ELSE None]]
MoveKey(s, u, p, q) ==
  IF s.keys[u][p] = None THEN s
  ELSE [s EXCEPT !.keys[u] = [s.keys[u] EXCEPT ![p] = None, ![q] = s.keys[u][p]]]
Forget(s, u) == PruneKeys(StorePassword(s, u, None), u, {})

\* Appends a call's result to the writes. A call that has nothing to clear
\* or to move writes nothing.
Then(writes, before, after) == IF after = before THEN writes ELSE Append(writes, after)
Newest(s, writes) == IF writes = <<>> THEN s ELSE writes[Len(writes)]

(***************************************************************************)
(* A plan is what a request does: the new unit list, which is saved first, *)
(* and then the secrets it writes, one file after another. An error in one *)
(* of the first `undo` of them takes everything back.                      *)
(***************************************************************************)
Plan(u, units, writes, undo) == [id |-> u, units |-> units, writes |-> writes, undo |-> undo]

Passwords == {"keep", "clear", "set"}
AfterPassword(s, u, unit, word) ==
  CASE word = "keep" -> s
    [] word = "clear" -> StorePassword(s, u, None)
    [] word = "set" -> StorePassword(s, u, unit.ssh)

\* A password that is given is written, even over the same one.
PasswordWrites(writes, s, u, unit, word) ==
  IF word = "set" THEN Append(writes, AfterPassword(s, u, unit, word))
                  ELSE Then(writes, s, AfterPassword(s, u, unit, word))

AddPlan(s, u, unit, word) ==
  LET writes == PasswordWrites(<<>>, s.secrets, u, unit, word) IN
  Plan(u, [s.units EXCEPT ![u] = unit], writes, Len(writes))
AddPlans(s) ==
  {AddPlan(s, u, unit, word) : u \in Ids \ Known(s.units), unit \in Unit, word \in Passwords}

\* Mutant: a new ssh target keeps the old password.
UpdateWritesKeepPassword(s, u, unit, word) ==
  LET old == s.units[u]
      pruned == IF unit.llm # old.llm THEN PruneKeys(s.secrets, u, {}) ELSE s.secrets
  IN PasswordWrites(Then(<<>>, s.secrets, pruned), pruned, u, unit, word)

UpdateWrites(s, u, unit, word) ==
  LET old == s.units[u]
      moved == IF unit.ssh # old.ssh THEN StorePassword(s.secrets, u, None) ELSE s.secrets
      pruned == IF unit.llm # old.llm THEN PruneKeys(moved, u, {}) ELSE moved
  IN PasswordWrites(Then(Then(<<>>, s.secrets, moved), moved, pruned), pruned, u, unit, word)

SyncWrites(s, u, prev, next) ==
  LET removed == prev \ next
      added == next \ prev
      renamed == \E p, q \in Ports : removed = {p} /\ added = {q}
      moved == IF renamed
               THEN MoveKey(s, u, CHOOSE p \in Ports : removed = {p},
                                  CHOOSE q \in Ports : added = {q})
               ELSE s
  IN Then(Then(<<>>, s, moved), moved, PruneKeys(moved, u, next))

\* The ports are synced by the requests that replace them, not by those that
\* add one or leave them alone.
UpdatePlan(s, u, unit, word, sync) ==
  LET old == s.units[u]
      writes == UpdateWrites(s, u, unit, word)
      synced == IF sync \/ ~(old.ports \subseteq unit.ports)
                THEN SyncWrites(Newest(s.secrets, writes), u, old.ports, unit.ports)
                ELSE <<>>
  IN Plan(u, [s.units EXCEPT ![u] = unit], writes \o synced, Len(writes))
UpdatePlans(s) ==
  {UpdatePlan(s, u, unit, word, sync) :
      u \in Known(s.units), unit \in Unit, word \in Passwords, sync \in BOOLEAN}

\* The route that takes one port away clears the key of that port only.
Without(unit, p) == [unit EXCEPT !.ports = @ \ {p}]
DropPortPlan(s, u, p) ==
  Plan(u, [s.units EXCEPT ![u] = Without(s.units[u], p)],
       Then(<<>>, s.secrets, StoreKey(s.secrets, u, p, None)), 0)
DropPortPlans(s) ==
  UNION {{DropPortPlan(s, u, p) : p \in {q \in s.units[u].ports : Without(s.units[u], q) \in Unit}} :
            u \in Known(s.units)}

RemovePlan(s, u) ==
  LET writes == Then(<<>>, s.secrets, Forget(s.secrets, u)) IN
  Plan(u, [s.units EXCEPT ![u] = NoUnit], writes, Len(writes))
RemovePlans(s) == {RemovePlan(s, u) : u \in Known(s.units)}

Plans(s) == AddPlans(s) \union UpdatePlans(s) \union DropPortPlans(s) \union RemovePlans(s)

\* Requests that write only the secrets: a password, a key.
SecretEdits(s) ==
  {<<u, StorePassword(s.secrets, u, s.units[u].ssh)>> : u \in Known(s.units)}
    \union {<<u, StoreKey(s.secrets, u, p, h)>> :
              u \in Known(s.units), p \in Ports, h \in {None}}
    \union {<<u, StoreKey(s.secrets, u, p, s.units[u].llm)>> :
              u \in Known(s.units), p \in Ports}

\* The files after the unit list and the first n secrets of a plan.
Reached(p, s, n) ==
  [units |-> p.units, secrets |-> IF n = 0 THEN s.secrets ELSE p.writes[n]]
=============================================================================

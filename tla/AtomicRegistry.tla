--------------------------- MODULE AtomicRegistry ---------------------------
(***************************************************************************)
(* What the unit registry promises: one store, served from memory and kept *)
(* in files, in which a request takes effect as a whole or not at all.     *)
(* Five exceptions are spelled out, because the code has them: keys that   *)
(* were to follow a renamed port (Unsynced), a request that cannot even be *)
(* taken back (Botched), a crash, which leaves the new units with the      *)
(* secrets on their way, never new secrets with the old units (Crash), a   *)
(* hand that edits the files (Edited), and a start that cannot convert an  *)
(* old file and serves no unit (BlankStart).                               *)
(***************************************************************************)
EXTENDS RegistryData

VARIABLES
  file,    \* the two files, passwords still in plain text included
  served   \* what the process serves, or Down

vars == <<file, served>>

Init == file \in Store /\ served = Down

Up == served # Down
Whole == served = file

\* After a blank start or a botched request the files owe only the unit list.
Kept == IF Whole THEN file' = served' ELSE file'.units = served'.units

Request ==
  /\ Up
  /\ served' \in Store
  /\ \E p \in Plans(served) : served' = Reached(p, served, Len(p.writes))
  /\ Kept

SecretRequest ==
  /\ Up
  /\ served' \in Store
  /\ \E e \in SecretEdits(served) : served' = [served EXCEPT !.secrets = e[2]]
  /\ IF Whole THEN file' = served' ELSE file'.units = file.units

Refused ==
  /\ Up
  /\ served' = served
  /\ IF Whole THEN file' = file ELSE file'.units \in {file.units, served.units}

Unsynced ==
  /\ Up
  /\ served' \in Store
  /\ \E p \in Plans(served) : \E n \in p.undo .. Len(p.writes) :
        served' = Reached(p, served, n)
  /\ Kept

\* All but the last of the secrets to be undone: the last is the new password.
Half(p) == 0 .. p.undo - 1
Partly(p, n) == [served EXCEPT !.secrets = IF n = 0 THEN @ ELSE p.writes[n]]

Botched ==
  /\ Up
  /\ served' \in Store
  /\ \E p \in Plans(served) : \E n \in Half(p) :
       /\ served' = Partly(p, n)
       /\ IF Whole THEN file' \in {Reached(p, served, n), served'}
                   ELSE file'.units \in {served.units, p.units}

Crash ==
  /\ Up
  /\ served' = Down
  /\ \/ file' = file
     \/ \E p \in Plans(served) :
          IF Whole
          THEN \/ \E n \in 0 .. Len(p.writes) : file' = Reached(p, served, n)
               \/ \E n \in Half(p) : file' = Partly(p, n)
          ELSE file'.units \in {served.units, p.units}

Start ==
  /\ ~Up
  /\ served' = file
  /\ file' = file

\* A key that follows its port, with nothing lost.
Moved ==
  /\ ~Up
  /\ served' = served
  /\ \E u \in Ids, p, q \in Ports :
        /\ file.secrets.keys[u][q] = None
        /\ file' = [file EXCEPT !.secrets = MoveKey(@, u, p, q)]

BlankStart ==
  /\ ~Up
  /\ file' = file
  /\ served' \in Store
  /\ served'.units = NoUnits

Edited ==
  /\ ~Up
  /\ served' = served
  /\ \E u \in Known(file.units) :
       \/ \E unit \in Unit : /\ SameTargets(unit, file.units[u])
                           /\ file' = [file EXCEPT !.units[u] = unit]
       \/ file' = [file EXCEPT !.secrets.pw[u] = file.units[u].ssh]

Next ==
  \/ Start \/ Moved \/ BlankStart \/ Edited
  \/ Refused \/ Crash
  \/ Request \/ SecretRequest \/ Unsynced \/ Botched

Spec == Init /\ [][Next]_vars
=============================================================================

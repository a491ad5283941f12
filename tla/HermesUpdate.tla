---------------------------- MODULE HermesUpdate ----------------------------
(***************************************************************************)
(* Hermes Agent on one unit: the periodic and the requested update check,  *)
(* the one-click update job (SparkMonitor.runHermesUpdate with             *)
(* collectors/HermesProbe.js), the edit that replaces the monitor while a  *)
(* job is under way and the hot edit that keeps it.  A script runs on the  *)
(* machine in one step; what it found reaches the monitor in a later one.  *)
(***************************************************************************)
EXTENDS Integers, FiniteSets

CONSTANTS
    MaxMonitors,   \* bound: monitors the unit has had
    MaxRelease,    \* bound: Hermes releases that come out
    MaxChecks,     \* bound: unanswered checks
    MaxJobs        \* bound: update jobs of one monitor at a time

ASSUME HermesAssumption ==
    /\ MaxMonitors \in Nat \ {0}
    /\ MaxRelease \in Nat \ {0}
    /\ MaxChecks \in Nat
    /\ MaxJobs \in Nat \ {0}

VARIABLES
    mon,       \* which of the unit's monitors is the live one
    enabled,   \* hermesMonitoring: that monitor has a probe
    status,    \* _hermes.status
    version,   \* _hermes.version, Unknown before the first answer
    badge,     \* _hermes.updateAvailable
    jobs,      \* update jobs under way, those of replaced monitors included
    checks,    \* unanswered checks
    machine    \* the release installed there and the newest one

shown == <<status, version, badge>>
vars == <<mon, enabled, shown, jobs, checks, machine>>

Unknown == 0
Ids == 1..MaxMonitors
Releases == 1..MaxRelease
Places == 1..MaxJobs
Stages == {"update", "repair", "retry"}

\* A job is named by its monitor and its place among that monitor's jobs.  It
\* is forgotten (history) when a hot edit switched the probe off while it ran,
\* or when it was started beside such a job.
Job == [mon : Ids, nth : Places, stage : Stages, forgotten : BOOLEAN]
Check == [mon : Ids, by : {"poll", "request", "job"}, saw : Releases,
          avail : {"yes", "no"}]

Init ==
    /\ mon = 1 /\ enabled \in BOOLEAN
    /\ status = "idle" /\ version = Unknown /\ badge = "unknown"
    /\ jobs = {} /\ checks = {}
    /\ machine = [installed |-> 1, released |-> 1]

Mine == {j \in jobs : j.mon = mon}
GitRuns == {j \in jobs : j.stage \in {"update", "retry"}}

-----------------------------------------------------------------------------
(* Checks.                                                                 *)

\* Mutant: a clean answer resets the job status whatever it is.
IdleAfterCheck(c) == IF c.by = "job" THEN status ELSE "idle"

\* applyHermesCheck lets a clean answer end the one-shot job status; the
\* check that follows an update leaves it.
StatusAfterCheck(c) ==
    IF c.by = "job" \/ status = "running" THEN status ELSE "idle"

\* What a check by `by` finds on machine m.
Finding(by, m) ==
    [mon |-> mon, by |-> by, saw |-> m.installed,
     avail |-> IF m.installed < m.released THEN "yes" ELSE "no"]

\* The poll has a guard; a requested check has none.
StartCheck(by) ==
    /\ enabled
    /\ by = "poll" => ~\E c \in checks : c.mon = mon /\ c.by = "poll"
    /\ Cardinality(checks) < MaxChecks
    /\ checks' = checks \cup {Finding(by, machine)}
    /\ UNCHANGED <<mon, enabled, shown, jobs, machine>>

\* The answer; or one that says less: hermes is missing (a clean answer), too
\* old to be asked, broken or out of reach.  A stopped monitor ignores it.
CheckLands(c) ==
    /\ checks' = checks \ {c}
    /\ UNCHANGED <<mon, enabled, jobs, machine>>
    /\ \/ /\ c.mon = mon
          /\ version' = c.saw /\ badge' = c.avail /\ status' = StatusAfterCheck(c)
       \/ /\ c.mon = mon
          /\ version' \in {c.saw, Unknown} /\ badge' = "unknown"
          /\ status' \in {status, StatusAfterCheck(c)}
       \/ /\ c.mon # mon
          /\ UNCHANGED shown

-----------------------------------------------------------------------------
(* The update job.                                                         *)

\* Mutant: the failure of a job is not recorded.
StatusUnchanged(j) == status

StatusAfterFailure(j) == IF j.mon = mon THEN "error" ELSE status

\* The lowest place no job of this monitor holds.
Free(n) == \A j \in Mine : j.nth # n
NextPlace(n) == Free(n) /\ \A m \in 1..(n - 1) : ~Free(m)

RunHermesUpdate ==
    /\ enabled /\ status # "running"
    /\ status' = "running"
    /\ \E n \in Places :
         /\ NextPlace(n)
         /\ LET j == [mon |-> mon, nth |-> n, stage |-> "update",
                      forgotten |-> \E k \in Mine : k.forgotten]
            IN jobs' = jobs \cup {j}
    /\ UNCHANGED <<mon, enabled, version, badge, checks, machine>>

\* hermes cannot launch: repair the venv, then try the update once more.
LaunchFails(j) ==
    /\ j.stage = "update"
    /\ jobs' = (jobs \ {j}) \cup {[j EXCEPT !.stage = "repair"]}
    /\ UNCHANGED <<mon, enabled, shown, checks, machine>>

Retry(j) ==
    /\ j.stage = "repair"
    /\ jobs' = (jobs \ {j}) \cup {[j EXCEPT !.stage = "retry"]}
    /\ UNCHANGED <<mon, enabled, shown, checks, machine>>

\* The output may name the version from before.  The job of a live monitor goes
\* on with a check of its own, if that monitor has a probe by then.
UpdateSucceeds(j) ==
    /\ j \in GitRuns
    /\ jobs' = jobs \ {j}
    /\ machine' = [machine EXCEPT !.installed = machine.released]
    /\ IF j.mon = mon
       THEN /\ status' = "success"
            /\ version' \in {machine.installed, machine.released, Unknown}
       ELSE UNCHANGED <<status, version>>
    /\ checks' = checks \cup
         (IF j.mon = mon /\ enabled THEN {Finding("job", machine')} ELSE {})
    /\ UNCHANGED <<mon, enabled, badge>>

\* It fails, or is given up while it goes on and perhaps succeeds.
UpdateFails(j) ==
    /\ jobs' = jobs \ {j}
    /\ \E v \in {machine.installed, machine.released} :
         machine' = [machine EXCEPT !.installed = v]
    /\ status' = StatusAfterFailure(j)
    /\ UNCHANGED <<mon, enabled, version, badge, checks>>

-----------------------------------------------------------------------------

\* An edit of the unit stops its monitor and starts a new one.
PatchUnit ==
    /\ mon < MaxMonitors
    /\ mon' = mon + 1 /\ enabled' \in BOOLEAN
    /\ status' = "idle" /\ version' = Unknown /\ badge' = "unknown"
    /\ UNCHANGED <<jobs, checks, machine>>

\* A hot edit keeps the monitor: the polls under way are abandoned, and without
\* hermesMonitoring the probe goes and the status reads "idle", whatever job is
\* under way.  index.js switches hermesMonitoring with PatchUnit; the edits of
\* credentials, ports and interfaces come here and leave it as it is.
UpdateConfig ==
    /\ enabled' \in BOOLEAN
    /\ checks' = {c \in checks : ~(c.mon = mon /\ c.by = "poll")}
    /\ IF enabled'
       THEN UNCHANGED <<status, jobs>>
       ELSE /\ status' = "idle"
            /\ jobs' = (jobs \ Mine) \cup {[j EXCEPT !.forgotten = TRUE] : j \in Mine}
    /\ UNCHANGED <<mon, version, badge, machine>>

ReleaseComesOut ==
    /\ machine.released < MaxRelease
    /\ machine' = [machine EXCEPT !.released = @ + 1]
    /\ UNCHANGED <<mon, enabled, shown, jobs, checks>>

Next ==
    \/ \E by \in {"poll", "request"} : StartCheck(by)
    \/ \E c \in checks : CheckLands(c)
    \/ RunHermesUpdate
    \/ \E j \in jobs : LaunchFails(j)
    \/ \E j \in jobs : Retry(j)
    \/ \E j \in jobs : UpdateSucceeds(j)
    \/ \E j \in jobs : UpdateFails(j)
    \/ PatchUnit
    \/ UpdateConfig
    \/ ReleaseComesOut

Spec == Init /\ [][Next]_vars

\* Every script ends or is given up at its timeout, and the poll timer fires.
FairSpec ==
    /\ Spec
    /\ WF_vars(StartCheck("poll"))
    /\ WF_vars(\E c \in checks : CheckLands(c))
    /\ WF_vars(\E j \in jobs : Retry(j) \/ UpdateSucceeds(j) \/ UpdateFails(j))

-----------------------------------------------------------------------------
(* Properties.                                                             *)

\* The types of the variables; the status is one the dashboard can show.
TypeOK ==
    /\ mon \in Ids /\ enabled \in BOOLEAN
    /\ status \in {"idle", "running", "success", "error"}
    /\ version \in Releases \cup {Unknown}
    /\ badge \in {"yes", "no", "unknown"}
    /\ jobs \subseteq Job /\ checks \subseteq Check
    /\ machine \in [installed : Releases, released : Releases]

\* The status reads "running" only while a job of the live monitor runs; and
\* each such job is the only one and shown as "running", although checks sent
\* before it land meanwhile: it is never lost from sight, and a finished one
\* never blocks the next.  Except the jobs a hot edit made the monitor forget by
\* switching its probe off, and those started beside one: another can run then.
RunningIsTheJob ==
    /\ status = "running" => Mine # {}
    /\ \A j \in Mine : ~j.forgotten => status = "running" /\ Mine = {j}

\* Every job comes to an end: the button does not stay on "updating".
JobsEnd == status = "running" ~> status # "running"
=============================================================================

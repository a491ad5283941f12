------------------------------ MODULE ToolEval ------------------------------
(***************************************************************************)
(* Tool evaluation on one Spark: benchmark runs that go on detached on the *)
(* Spark, the dashboard's watch of one of them, and the index of runs. What*)
(* happens on the Spark is learned from the watch, or asked for in a short *)
(* call whose answer may be old when it lands.                             *)
(***************************************************************************)
EXTENDS Naturals, FiniteSets

CONSTANTS
  Runs,      \* runs, each started at most once
  MaxEvents  \* bound: what users, the network and the machines do

NoRun == "no run"

ASSUME ToolEvalAssumption == MaxEvents \in Nat /\ NoRun \notin Runs

VARIABLES
  store,    \* the status of each run in the index
  results,  \* runs whose result is cached
  job,      \* the latest job: the watch of a run, or an install
  at,       \* each run's tool on the Spark, or how it ended
  calls,    \* short calls to the Spark under way
  reading,  \* runs whose result file is being read
  excused,  \* runs whose end was guessed, or that left the index while on record as running
  events

vars == <<store, results, job, at, calls, reading, excused, events>>

Outcomes == {"completed", "failed", "stopped"}
InIndex == {r \in Runs : store[r] \notin {"new", "deleted"}}

\* A tool is "unrecorded" while its pid file is not written; it ends with an
\* exit file, or is killed together with the wrapper that writes it.
Alive(r) == at[r] \in {"unrecorded", "running"}
Exit(r) == IF at[r] \in {"0", "1"} THEN at[r] ELSE "none"
Over(r) == at[r] \in {"0", "1", "killed"}

NewJob(kind, r) ==
  [kind |-> kind, run |-> r, status |-> "running", reached |-> FALSE, printed |-> FALSE,
   stop |-> FALSE, killed |-> "no"]
NoJob == [NewJob("none", NoRun) EXCEPT !.status = "ended"]
Active == job.status = "running"
Watches(r) == Active /\ job.run = r

Init ==
  /\ store = [r \in Runs |-> "new"]
  /\ results = {}
  /\ job = NoJob
  /\ at = [r \in Runs |-> "none"]
  /\ calls = {}
  /\ reading = {}
  /\ excused = {}
  /\ events = 0

Happens == events < MaxEvents /\ events' = events + 1

(***************************************************************************)
(* Starting jobs                                                           *)
(***************************************************************************)
\* Mutant: only the job in memory is asked.
OnlyTheJob(r) == Active => job.kind = "attach"

\* startRun: not beside a job, nor beside a run that may still be running.
MayStart(r) ==
  /\ Active => job.kind = "attach"
  /\ \A other \in Runs \ {r} : store[other] # "running"

StartRun(r) ==
  /\ store[r] = "new"
  /\ MayStart(r)
  /\ store' = [store EXCEPT ![r] = "running"]
  /\ job' = NewJob("run", r)
  /\ UNCHANGED <<results, at, calls, reading, excused, events>>

\* attachRun: takes over from the watch of another run that is attached.
AttachRun(r) ==
  /\ Happens
  /\ r \in InIndex
  /\ Active => job.kind = "attach" /\ job.run # r
  /\ job' = NewJob("attach", r)
  /\ UNCHANGED <<store, results, at, calls, reading, excused>>

Install ==
  /\ Happens
  /\ Active => job.kind = "attach"
  /\ job' = NewJob("install", NoRun)
  /\ UNCHANGED <<store, results, at, calls, reading, excused>>

(***************************************************************************)
(* The end of a job: _finish and _afterJob                                 *)
(***************************************************************************)

\* Mutant: a connection that is lost is the end of the run.
OutcomeIfLost(how, exit) ==
  IF how = "error" THEN "failed"
  ELSE IF job.killed = "cancelled" THEN "cancelled"
  ELSE IF job.killed = "timedOut" THEN "detached"
  ELSE IF exit = "0" THEN "completed"
  ELSE IF job.stop /\ job.kind # "install" THEN "stopped"
  ELSE IF exit = "1" \/ job.kind = "install" THEN "failed"
  ELSE IF job.kind = "run" /\ how = "lost" THEN "failed"
  ELSE "detached"

Outcome(how, exit) ==
  IF how = "error" THEN "failed"
  ELSE IF job.killed = "cancelled" THEN "cancelled"
  ELSE IF job.killed = "timedOut" THEN "detached"
  ELSE IF exit = "0" THEN "completed"
  ELSE IF job.stop /\ job.kind # "install" THEN "stopped"
  ELSE IF exit = "1" \/ job.kind = "install" THEN "failed"
  ELSE IF job.kind = "run" /\ ~job.printed /\ how = "lost" THEN "failed"
  ELSE "detached"

FinalStatus(status, exit, current) ==
  IF status = "stopped" THEN "stopped"
  ELSE IF exit = "0" THEN "completed"
  ELSE IF exit = "none" /\ status # "failed" THEN current
  ELSE "failed"

\* Mutant: only the watch a run was started with settles it.
ReportedByRun(status) == job.kind = "run" /\ job.run \in InIndex /\ status # "detached"

\* The index is left alone by a watch that saw no end, and by one that only
\* looked on and was cancelled.
Reported(status) ==
  /\ job.run \in InIndex
  /\ status # "detached"
  /\ ~(job.kind = "attach" /\ job.killed = "cancelled")

\* The ends that _finish guesses of a run that may go on: the ssh of an
\* attachment did not start, nothing was printed before the connection ended,
\* or a stop was asked for and no exit code is there.
Guesses(how) ==
  \/ how = "error" /\ job.kind = "attach"
  \/ /\ how = "lost" /\ job.killed = "no"
     /\ job.stop \/ (job.kind = "run" /\ job.reached /\ ~job.printed)
  \/ how = "reported" /\ job.stop /\ at[job.run] = "unrecorded"

Finish(how, exit) ==
  LET status == Outcome(how, exit)
      r == job.run
  IN /\ job' = [NewJob(job.kind, r) EXCEPT !.status = status]
     /\ IF Reported(status)
        THEN LET final == FinalStatus(status, exit, store[r])
             IN /\ store' = [store EXCEPT ![r] = final]
                /\ reading' = reading \union {r}
                /\ excused' = excused \union IF final # store[r] /\ Guesses(how) THEN {r} ELSE {}
        ELSE UNCHANGED <<store, reading, excused>>
     /\ UNCHANGED <<results, at, calls>>

\* The program at the other end reports the exit code it finds, if any.
Reports ==
  /\ Active
  /\ \/ job.kind = "run" /\ job.reached /\ ~Alive(job.run)
        /\ Finish("reported", IF at[job.run] = "none" THEN "1" ELSE Exit(job.run))
     \/ job.kind = "attach" /\ at[job.run] # "running"
        /\ Finish("reported", Exit(job.run))
     \/ job.kind = "install" /\ \E exit \in {"0", "1"} : Finish("reported", exit)
  /\ UNCHANGED events

\* The connection ends first; ssh may not have been startable at all.
Lost ==
  /\ Active
  /\ Happens
  /\ \/ Finish("lost", "none")
     \/ ~job.reached /\ Finish("error", "none")
KilledCloses == Active /\ job.killed # "no" /\ Finish("lost", "none") /\ UNCHANGED events

Prints ==
  /\ Active /\ job.reached /\ ~job.printed
  /\ job' = [job EXCEPT !.printed = TRUE]
  /\ UNCHANGED <<store, results, at, calls, reading, excused, events>>

Cancelled == IF Active THEN [job EXCEPT !.killed = "cancelled"] ELSE job

CancelWatch ==
  /\ Happens
  /\ Active
  /\ job' = Cancelled
  /\ UNCHANGED <<store, results, at, calls, reading, excused>>

TimesOut ==
  /\ Active /\ job.killed = "no"
  /\ job' = [job EXCEPT !.killed = "timedOut"]
  /\ UNCHANGED <<store, results, at, calls, reading, excused, events>>

(***************************************************************************)
(* The run on the Spark. Its program goes on without the watch, and may be *)
(* killed with it on the dashboard's own machine.                          *)
(***************************************************************************)
Becomes(r, tool) == at' = [at EXCEPT ![r] = tool]

Arrives ==
  /\ Active /\ job.kind = "run" /\ ~job.reached
  /\ job' = [job EXCEPT !.reached = TRUE]
  /\ \E tool \in {"unrecorded", "none"} : Becomes(job.run, tool)
  /\ UNCHANGED <<store, results, calls, reading, excused, events>>

WritesPid(r) ==
  /\ at[r] = "unrecorded"
  /\ Becomes(r, "running")
  /\ UNCHANGED <<store, results, job, calls, reading, excused, events>>

ToolEnds(r) ==
  /\ Alive(r)
  /\ \E exit \in {"0", "1"} : Becomes(r, exit)
  /\ UNCHANGED <<store, results, job, calls, reading, excused, events>>

\* Killed with its wrapper, which leaves no exit file.
ToolDies(r) ==
  /\ Happens
  /\ at[r] = "running"
  /\ Becomes(r, "killed")
  /\ UNCHANGED <<store, results, job, calls, reading, excused>>

(***************************************************************************)
(* Short calls                                                             *)
(***************************************************************************)
Call(op, r) == [op |-> op, run |-> r, answer |-> "none"]
Replaced(c, answer) == (calls \ {c}) \union {[c EXCEPT !.answer = answer]}

Refresh(r) ==
  /\ Happens
  /\ r \in InIndex
  /\ calls' = calls \union {Call("check", r)}
  /\ UNCHANGED <<store, results, job, at, reading, excused>>

StopRun(r) ==
  /\ Happens
  /\ r \in InIndex
  /\ job' = IF Watches(r) THEN [job EXCEPT !.stop = TRUE] ELSE job
  /\ calls' = calls \union {Call("stop", r)}
  /\ UNCHANGED <<store, results, at, reading, excused>>

\* GET .../result of a run that is not cached.
ReadResult(r) ==
  /\ Happens
  /\ r \in InIndex \ results
  /\ reading' = reading \union {r}
  /\ UNCHANGED <<store, results, job, at, calls, excused>>

Forget(S) ==
  /\ store' = [r \in Runs |-> IF r \in S THEN "deleted" ELSE store[r]]
  /\ results' = results \ S

\* DELETE of a run. The route is written to ask the Spark about a live run, and
\* to refuse; but it asks only if spark.online, which no unit of the registry
\* has. So a run that is alive is forgotten as well, with its watch cancelled.
RequestDelete(r) ==
  /\ Happens
  /\ r \in InIndex
  /\ Forget({r})
  /\ job' = IF Watches(r) /\ (store[r] = "running" \/ job.kind = "run") THEN Cancelled ELSE job
  /\ excused' = excused \union IF store[r] = "running" THEN {r} ELSE {}
  /\ UNCHANGED <<at, calls, reading>>

\* What buildCheckProgram prints: the exit code, or -1 also while no pid is
\* recorded. It has made the run's directory before it looks for it, so it never
\* prints GONE, and checkRun never marks a run "gone".
Printed(r) ==
  CASE at[r] = "running" -> "alive"
    [] Over(r)           -> at[r]
    [] OTHER             -> "no pid"

\* The Spark does what the call asks, if it is reached.
Answers(c) ==
  /\ c.answer = "none"
  /\ \/ /\ c.op = "check"
        /\ \E answer \in {Printed(c.run), "unknown"} : calls' = Replaced(c, answer)
        /\ UNCHANGED at
     \/ /\ c.op = "stop"
        /\ calls' = calls \ {c}
        /\ (at[c.run] = "running" /\ Becomes(c.run, "killed")) \/ UNCHANGED at
  /\ UNCHANGED <<store, results, job, reading, excused, events>>

Ended(answer) == answer \in {"0", "1", "killed", "no pid"}
StatusOf(answer) == CASE answer = "0" -> "completed" [] answer = "1" -> "failed" [] OTHER -> "stopped"

\* Mutant: whatever the run has become meanwhile.
AlwaysSettles(c) == Ended(c.answer) /\ c.run \in InIndex

Settles(c) == Ended(c.answer) /\ store[c.run] = "running"

CheckLands(c) ==
  /\ c.answer # "none"
  /\ calls' = calls \ {c}
  /\ IF Settles(c)
     THEN /\ store' = [store EXCEPT ![c.run] = StatusOf(c.answer)]
          /\ reading' = reading \union {c.run}
          /\ excused' = excused \union
               IF c.answer = "no pid" /\ store[c.run] = "running" THEN {c.run} ELSE {}
     ELSE UNCHANGED <<store, reading, excused>>
  /\ UNCHANGED <<results, job, at, events>>

\* Mutant: the result is kept without another look at the index.
KeepsResult(r) == Over(r)

\* captureResult: the run may be gone from the index when its file has come.
Keeps(r) == Over(r) /\ r \in InIndex

Captures(r) ==
  /\ r \in reading
  /\ reading' = reading \ {r}
  /\ results' \in {results} \union (IF Keeps(r) THEN {results \union {r}} ELSE {})
  /\ UNCHANGED <<store, job, at, calls, excused, events>>

(***************************************************************************)
(* Runs pushed out of the index by MAX_RUNS newer ones, the removal of the *)
(* Spark, and the end of the dashboard.                                    *)
(***************************************************************************)
Evicted(r) ==
  /\ Happens
  /\ r \in InIndex
  /\ Forget({r})
  /\ excused' = excused \union {r}
  /\ UNCHANGED <<job, at, calls, reading>>

RemoveSpark ==
  /\ Happens
  /\ Forget(InIndex)
  /\ job' = NoJob
  /\ excused' = excused \union InIndex
  /\ UNCHANGED <<at, calls, reading>>

Restart ==
  /\ Happens
  /\ job' = NoJob
  /\ calls' = {}
  /\ reading' = {}
  /\ UNCHANGED <<store, results, at, excused>>

User(r) ==
  \/ StartRun(r) \/ AttachRun(r) \/ StopRun(r) \/ Refresh(r) \/ ReadResult(r)
  \/ RequestDelete(r)

Next ==
  \/ \E r \in Runs : User(r) \/ WritesPid(r) \/ ToolEnds(r) \/ ToolDies(r) \/ Captures(r) \/ Evicted(r)
  \/ \E c \in calls : Answers(c) \/ CheckLands(c)
  \/ Install \/ CancelWatch \/ TimesOut \/ KilledCloses \/ Prints \/ Arrives
  \/ Reports \/ Lost \/ RemoveSpark \/ Restart

\* The time limit of a watch, and the end of a child that was killed; a tool
\* may run for ever.
Spec == Init /\ [][Next]_vars /\ WF_vars(TimesOut) /\ WF_vars(KilledCloses)

(***************************************************************************)
(* Properties                                                              *)
(***************************************************************************)
Job == [kind : {"none", "run", "attach", "install"}, run : Runs \union {NoRun},
        status : {"running", "ended", "cancelled", "detached"} \union Outcomes,
        reached : BOOLEAN, printed : BOOLEAN, stop : BOOLEAN,
        killed : {"no", "cancelled", "timedOut"}]
ShortCall == [op : {"check", "stop"}, run : Runs,
              answer : {"none", "alive", "0", "1", "killed", "no pid", "unknown"}]

\* The types of the variables.
TypeOK ==
  /\ store \in [Runs -> {"new", "running", "deleted"} \union Outcomes]
  /\ results \subseteq InIndex  \* a late result of a deleted run is not kept
  /\ job \in Job
  /\ at \in [Runs -> {"none", "unrecorded", "running", "0", "1", "killed"}]
  /\ calls \subseteq ShortCall
  /\ reading \subseteq Runs
  /\ excused \subseteq Runs
  /\ events \in 0 .. MaxEvents

\* A tool that is alive on the Spark is on record as running, whatever watches,
\* stops and checks came in between: what startRun relies on. A run that was
\* deleted while on record as running is excused: no DELETE is refused.
AliveIsOnRecord == \A r \in Runs \ excused : Alive(r) => store[r] = "running"

\* At most one benchmark at a time on the Spark.
OneTool == Cardinality({r \in Runs \ excused : Alive(r)}) <= 1

\* What is on record as the end of a run is how it ended.
OutcomeIsTrue ==
  \A r \in Runs \ excused :
    /\ store[r] = "completed" => at[r] = "0"
    /\ store[r] = "failed" => at[r] \in {"none", "1"}
    /\ store[r] = "stopped" => at[r] \in {"none", "1", "killed"}

\* What is on record of a run is what the Spark would say of it.
RecordIsTrue == AliveIsOnRecord /\ OutcomeIsTrue

\* An end once on record is not taken back by an answer that comes late.
OutcomeIsFinal ==
  [][\A r \in Runs \ excused' :
       /\ store[r] = "completed" => store'[r] \in {"completed", "deleted"}
       /\ store[r] \in Outcomes => store'[r] # "running"
       /\ store[r] = "deleted" => store'[r] = "deleted"]_vars

\* Every watch comes to an end, and settles its run unless it was given up.
WatchSettles ==
  \A r \in Runs : Watches(r) ~>
    ~Watches(r) /\ (store[r] # "running" \/ job.run # r \/ job.status \in {"cancelled", "detached"})
=============================================================================

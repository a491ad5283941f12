----------------------------- MODULE Benchmarks -----------------------------
(***************************************************************************)
(* The three benchmarks (decode, prefill, quality) and the showcase of a   *)
(* Spark: four managers that must not load one engine together, a cap over *)
(* the fleet, and the two files by which a finished or interrupted job     *)
(* survives the dashboard.                                                 *)
(***************************************************************************)
EXTENDS Naturals, FiniteSets, Sequences, SequencesExt

CONSTANTS
  Units,         \* the Sparks
  MaxActive,     \* the cap on benchmarks of the fleet
  HistoryLimit,  \* rows kept for a Spark
  MaxJobs,       \* bound: jobs ever started, and requests for more
  MaxEvents      \* bound: cancellations, removals, failures, shutdowns and crashes

ASSUME BenchmarksAssumption ==
  /\ {MaxActive, HistoryLimit, MaxJobs, MaxEvents} \subseteq Nat \ {0}
  /\ IsFiniteSet(Units)

VARIABLES
  job,       \* every job and session ever started, numbered in that order
  active,    \* the activeBySpark map of each manager
  history,   \* finished jobs of each manager and Spark, newest first; also on disk
  file,      \* the file of running jobs of each benchmark manager
  writer,    \* the asynchronous writer of the quality manager's file
  requests,  \* requests to start a benchmark that await their target
  stopping,  \* the signal to end has been handled
  events

vars == <<job, active, history, file, writer, requests, stopping, events>>

NoJob == 0
Bench == {"decode", "prefill", "quality"}
Kinds == Bench \cup {"showcase"}
\* "completed" also stands for a loop that failed with an exception of its own;
\* "failed" is a job that was cut short other than by a user.
Ends == {"completed", "failed", "cancelled"}
Started == DOMAIN job
Of(k, u) == {j \in Started : job[j].kind = k /\ job[j].unit = u}
Running(k) == {j \in Started : job[j].kind = k /\ job[j].status = "running"}

\* live: its loop has not ended. Kept for the properties: the jobs it met that had
\* started while it awaited its target; cleared by a user; excused from being
\* remembered.
NewJob(k, u, met) ==
  [kind |-> k, unit |-> u, met |-> met, status |-> "running", live |-> TRUE,
   aborted |-> FALSE, fatal |-> FALSE, cleared |-> FALSE, excused |-> FALSE]

\* The list being written, the one queued behind it, and whether a synchronous
\* write came since. Kept for the properties: it came after the rename was sent
\* off (during), and the rename was the later of the two (late).
IdleWriter ==
  [at |-> "idle", list |-> {}, pending |-> {}, stale |-> FALSE, during |-> FALSE, late |-> FALSE]

Init ==
  /\ job = <<>>
  /\ active = [k \in Kinds |-> [u \in Units |-> NoJob]]
  /\ history = [k \in Kinds |-> [u \in Units |-> <<>>]]
  /\ file = [k \in Bench |-> {}]
  /\ writer = IdleWriter
  /\ requests = {}
  /\ stopping = FALSE
  /\ events = 0

Happens == events < MaxEvents /\ events' = events + 1

(***************************************************************************)
(* History and the file of running jobs                                    *)
(***************************************************************************)
Rows(h, j) == h[job[j].kind][job[j].unit]
Places(rows, j) == {i \in DOMAIN rows : rows[i].id = j}
Place(rows, j) == CHOOSE i \in Places(rows, j) : TRUE
HasRow(h, j) == Places(Rows(h, j), j) # {}

\* A job has one row at most.
Without(rows, j) == IF Places(rows, j) = {} THEN rows ELSE RemoveAt(rows, Place(rows, j))
Latest(rows) == SubSeq(rows, 1, IF Len(rows) < HistoryLimit THEN Len(rows) ELSE HistoryLimit)

Pushed(h, j, s) ==
  [h EXCEPT ![job[j].kind][job[j].unit] = Latest(<<[id |-> j, status |-> s]>> \o Without(@, j))]

AllPushed(h, S, s) ==
  LET pushed[n \in 0..Len(job)] ==
        IF n = 0 THEN h ELSE IF n \in S THEN Pushed(pushed[n - 1], n, s) ELSE pushed[n - 1]
  IN  pushed[Len(job)]

\* A synchronous write drops what is queued and outdates what is under way.
Superseded ==
  [writer EXCEPT !.pending = {}, !.stale = (writer.at # "idle"), !.during = (writer.at = "rename"), !.late = FALSE]

Written(k, S) ==
  /\ file' = [file EXCEPT ![k] = S]
  /\ writer' = IF k = "quality" THEN Superseded ELSE writer

Saved(k, S) == IF k \in Bench THEN Written(k, S) ELSE UNCHANGED <<file, writer>>

(***************************************************************************)
(* Starting                                                                *)
(***************************************************************************)
ActiveCount == Cardinality({p \in Bench \X Units : active[p[1]][p[2]] # NoJob})
HasActive(k, u) ==
  active[k][u] # NoJob /\ (k = "showcase" => job[active[k][u]].status = "running")

\* What a manager asks of the others when its job starts; the route asked all of
\* them before it awaited the target.
\* Mutant: the prefill manager relies on its route.
AsksNobody(k) == IF k = "quality" THEN {"decode", "prefill"} ELSE IF k = "showcase" THEN Bench ELSE {}
Asks(k) ==
  [decode |-> {}, prefill |-> {"decode"}, quality |-> {"decode", "prefill"}, showcase |-> Bench][k]

MayStart(k, u) ==
  /\ active[k][u] = NoJob
  /\ \A other \in Asks(k) : ~HasActive(other, u)

\* Mutant: the cap is asked for before the await only.
NoSecondLook == TRUE
BelowCap == ActiveCount < MaxActive

\* waiting: the requests that still await their target.
Begin(k, u, met, waiting) ==
  /\ Len(job) + Cardinality(waiting) < MaxJobs
  /\ job' = Append(job, NewJob(k, u, met))
  /\ requests' = {IF r.unit = u THEN [r EXCEPT !.met = @ \cup {Len(job) + 1}] ELSE r : r \in waiting}
  /\ active' = [active EXCEPT ![k][u] = Len(job) + 1]
  /\ Saved(k, Running(k) \cup {Len(job) + 1})
  /\ UNCHANGED <<history, stopping>>

RouteAllows(k, u) ==
  /\ ActiveCount < MaxActive
  /\ \A other \in Kinds \ {k} : ~HasActive(other, u)

\* A request passes the route's checks and awaits the address of its target.
Request(k, u) ==
  /\ Len(job) + Cardinality(requests) < MaxJobs
  /\ RouteAllows(k, u)
  /\ requests' = requests \cup {[kind |-> k, unit |-> u, met |-> {}]}
  /\ UNCHANGED <<job, active, history, file, writer, stopping, events>>

StartJob(k, u, met, waiting) ==
  /\ BelowCap
  /\ MayStart(k, u)
  /\ Begin(k, u, met, waiting)
  /\ UNCHANGED events

\* The address of a target under a name of its own is looked up; the address of a
\* Spark's own port is known, and its job starts with the request.
StartAwaited(r) == StartJob(r.kind, r.unit, r.met, requests \ {r})

StartAtOnce(k, u) == RouteAllows(k, u) /\ StartJob(k, u, {}, requests)

\* The target, the options, a limit, the cap or the manager refuses it.
Refused(r) ==
  /\ requests' = requests \ {r}
  /\ UNCHANGED <<job, active, history, file, writer, stopping, events>>

StartShowcase(u) ==
  /\ MayStart("showcase", u)
  /\ Begin("showcase", u, {}, requests)
  /\ UNCHANGED events

(***************************************************************************)
(* A job's loop                                                            *)
(***************************************************************************)
\* Mutant: a cancelled benchmark releases its Spark without waiting for its loop.
CancelledAtOnce(j) ==
  /\ job' = [job EXCEPT ![j].aborted = TRUE]
  /\ active' = [active EXCEPT ![job[j].kind][job[j].unit] = NoJob]
  /\ UNCHANGED history
CancelJob(j) ==
  /\ job' = [job EXCEPT ![j].aborted = TRUE]
  /\ UNCHANGED <<active, history>>

\* A showcase ends when it is cancelled, by a user or for want of a heartbeat,
\* and its streams unwind afterwards.
CancelShowcase(j) ==
  /\ job' = [job EXCEPT ![j] = [@ EXCEPT !.aborted = TRUE, !.status = "cancelled"]]
  /\ active' = [active EXCEPT !["showcase"][job[j].unit] = NoJob]
  /\ history' = Pushed(history, j, "cancelled")

Cancel(j) ==
  /\ Happens
  /\ job[j].status = "running"
  /\ ~job[j].aborted
  /\ IF job[j].kind = "showcase" THEN CancelShowcase(j) ELSE CancelJob(j)
  /\ UNCHANGED <<file, writer, requests, stopping>>

\* Eight requests of a quality job fail in a row.
GivesUp(j) ==
  /\ Happens
  /\ job[j].kind = "quality"
  /\ job[j].status = "running"
  /\ ~job[j].aborted
  /\ job' = [job EXCEPT ![j] = [@ EXCEPT !.aborted = TRUE, !.fatal = TRUE]]
  /\ UNCHANGED <<active, history, file, writer, requests, stopping>>

\* The status a loop ends with. A quality job that was cut short says
\* "cancelled" even if it had been marked as interrupted, unless it ends with
\* an exception.
\* Mutant: a benchmark does not look whether it has been ended already.
ResultAnyway(j) == IF job[j].aborted THEN {"cancelled"} ELSE {"completed"}
Result(j) ==
  IF job[j].fatal THEN {"failed"}
  ELSE IF job[j].status = "running" THEN (IF job[j].aborted THEN {"cancelled"} ELSE {"completed"})
  ELSE {job[j].status} \cup (IF job[j].kind = "quality" THEN {"cancelled"} ELSE {})

Releases(j) ==
  job[j].kind \in {"decode", "showcase"} \/ active[job[j].kind][job[j].unit] = j

OthersRunning(j) == Running(job[j].kind) \ {j}

Settle(j) ==
  /\ job[j].live
  /\ \E s \in Result(j) :
       /\ job' = [job EXCEPT ![j] = [@ EXCEPT !.status = s, !.live = FALSE, !.aborted = FALSE,
                                              !.fatal = FALSE, !.met = {}, !.cleared = FALSE]]
       /\ history' = Pushed(history, j, s)
  /\ active' = IF Releases(j) THEN [active EXCEPT ![job[j].kind][job[j].unit] = NoJob] ELSE active
  /\ Saved(job[j].kind, OthersRunning(j))
  /\ requests' = {[r EXCEPT !.met = @ \ {j}] : r \in requests}
  /\ UNCHANGED <<stopping, events>>

(***************************************************************************)
(* The quality manager's checkpoints                                       *)
(***************************************************************************)
\* At a category boundary, synchronously. The other two managers write the list
\* that is there already.
Checkpoint ==
  /\ Running("quality") # {}
  /\ Written("quality", Running("quality"))
  /\ UNCHANGED <<job, active, history, requests, stopping, events>>

\* After an item: at once if no write is under way, else behind it.
CheckpointLater ==
  /\ Running("quality") # {}
  /\ writer' = IF writer.at = "idle"
               THEN [writer EXCEPT !.at = "write", !.list = Running("quality")]
               ELSE [writer EXCEPT !.pending = Running("quality")]
  /\ UNCHANGED <<job, active, history, file, requests, stopping, events>>

\* What is queued when the writer stops is replaced before it is looked at again.
Stopped == [IdleWriter EXCEPT !.late = writer.late]

\* Mutant: what was written is renamed without another look.
GoesOnAnyway == TRUE
GoesOn == ~writer.stale

\* The temporary file is written, and renamed unless it is outdated.
WriterWrote ==
  /\ writer.at = "write"
  /\ writer' = IF GoesOn THEN [writer EXCEPT !.at = "rename", !.during = FALSE] ELSE Stopped
  /\ UNCHANGED <<job, active, history, file, requests, stopping, events>>

WriterRenames ==
  /\ writer.at = "rename"
  /\ file' = [file EXCEPT !["quality"] = writer.list]
  /\ writer' = [writer EXCEPT !.at = "renamed", !.list = {}, !.late = writer.during, !.during = FALSE]
  /\ UNCHANGED <<job, active, history, requests, stopping, events>>

\* Back in the loop: the queued list is taken, and dropped if it is outdated.
WriterContinues ==
  /\ writer.at = "renamed"
  /\ writer' = IF writer.pending # {} /\ GoesOn
               THEN [writer EXCEPT !.at = "write", !.list = writer.pending, !.pending = {}]
               ELSE Stopped
  /\ UNCHANGED <<job, active, history, file, requests, stopping, events>>

WriterFails ==
  /\ Happens
  /\ writer.at \in {"write", "rename"}
  /\ writer' = Stopped
  /\ UNCHANGED <<job, active, history, file, requests, stopping>>

(***************************************************************************)
(* Clearing history; the end of the process                                *)
(***************************************************************************)
Clear(k, u) ==
  /\ Happens
  /\ ~HasActive(k, u)
  /\ history[k][u] # <<>>
  /\ history' = [history EXCEPT ![k][u] = <<>>]
  /\ job' = [j \in Started |->
               IF j \in Of(k, u) \ Running(k) THEN [job[j] EXCEPT !.cleared = TRUE] ELSE job[j]]
  /\ UNCHANGED <<active, file, writer, requests, stopping>>

DeleteRun(j) ==
  /\ Happens
  /\ job[j].kind = "quality"
  /\ job[j].status # "running"
  /\ HasRow(history, j)
  /\ history' = [history EXCEPT !["quality"][job[j].unit] = Without(@, j)]
  /\ job' = [job EXCEPT ![j].cleared = TRUE]
  /\ UNCHANGED <<active, file, writer, requests, stopping>>

\* SIGTERM: every running benchmark ends as failed before anything is awaited.
Interrupt ==
  LET cut == UNION {Running(k) : k \in Bench}
  IN  /\ Happens
      /\ ~stopping
      /\ stopping' = TRUE
      /\ job' = [j \in Started |->
                   IF j \in cut THEN [job[j] EXCEPT !.status = "failed", !.aborted = TRUE] ELSE job[j]]
      /\ active' = [k \in Kinds |->
                      [u \in Units |-> IF active[k][u] \in cut THEN NoJob ELSE active[k][u]]]
      /\ history' = AllPushed(history, cut, "failed")
      /\ file' = [k \in Bench |-> {}]
      /\ writer' = Superseded
      /\ UNCHANGED requests

Recovered(h) == {j \in UNION {file[k] : k \in Bench} : ~HasRow(h, j)}

\* A job that is in no file is lost with the process.
StatusAfter(h, j) ==
  IF HasRow(h, j) THEN Rows(h, j)[Place(Rows(h, j), j)].status
  ELSE IF j \in Recovered(h) THEN "failed"
  ELSE IF job[j].status = "running" THEN "lost" ELSE job[j].status

\* The process ends with history h on disk and starts again.
Restarts(h) ==
  /\ history' = AllPushed(h, Recovered(h), "failed")
  /\ job' = [j \in Started |->
       [job[j] EXCEPT !.status = StatusAfter(h, j), !.live = FALSE, !.aborted = FALSE,
                      !.fatal = FALSE, !.met = {}, !.cleared = @ /\ ~HasRow(h, j),
                      !.excused = @ \/ job[j].kind = "showcase"
                                    \/ (job[j].kind = "quality" /\ writer.late)]]
  /\ active' = [k \in Kinds |-> [u \in Units |-> NoJob]]
  /\ file' = [k \in Bench |-> {}]
  /\ writer' = IdleWriter
  /\ requests' = {}
  /\ stopping' = FALSE

Crash == Happens /\ Restarts(history)

\* The process is killed while a job ends: its row is saved, the list is not.
CrashInSettle(j) ==
  /\ Happens
  /\ job[j].live
  /\ \E s \in Result(j) : Restarts(Pushed(history, j, s))

Next ==
  \/ \E u \in Units : StartShowcase(u) \/ \E k \in Kinds : Clear(k, u)
  \/ \E u \in Units, k \in Bench : Request(k, u) \/ StartAtOnce(k, u)
  \/ \E r \in requests : StartAwaited(r) \/ Refused(r)
  \/ \E j \in Started : Cancel(j) \/ GivesUp(j) \/ Settle(j) \/ DeleteRun(j) \/ CrashInSettle(j)
  \/ Checkpoint \/ CheckpointLater
  \/ WriterWrote \/ WriterRenames \/ WriterContinues \/ WriterFails
  \/ Interrupt \/ Crash

Spec == Init /\ [][Next]_vars

(***************************************************************************)
(* Properties                                                              *)
(***************************************************************************)
TypeOK ==
  /\ Len(job) <= MaxJobs
  /\ \A j \in Started :
       /\ job[j].kind \in Kinds
       /\ job[j].unit \in Units
       /\ job[j].met \subseteq 1..(j - 1)
       /\ job[j].status \in Ends \cup {"running", "lost"}
       /\ {job[j].live, job[j].aborted, job[j].fatal, job[j].cleared, job[j].excused} \subseteq BOOLEAN
       /\ job[j].status = "running" => job[j].live
  /\ active \in [Kinds -> [Units -> Started \cup {NoJob}]]
  /\ \A k \in Kinds, u \in Units :
       /\ Len(history[k][u]) <= HistoryLimit
       /\ \A i \in DOMAIN history[k][u] :
            history[k][u][i].id \in Of(k, u) /\ history[k][u][i].status \in Ends
  /\ file \in [Bench -> SUBSET Started]
  /\ writer.at \in {"idle", "write", "rename", "renamed"}
  /\ {writer.list, writer.pending} \subseteq SUBSET Started
  /\ requests \subseteq [kind : Bench, unit : Units, met : SUBSET Started]
  /\ stopping \in BOOLEAN
  /\ events \in 0..MaxEvents

\* Together the three managers never run more benchmarks than the cap allows, though
\* it is asked for before the target is awaited; consumeBenchStartQuota asks again
\* (index.js:288). A shutdown stops counting jobs before their loops have ended.
CapHolds ==
  ~stopping => Cardinality(UNION {Running(k) : k \in Bench}) <= MaxActive

Listed(j) == active[job[j].kind][job[j].unit] = j
Overlaps ==
  {<<"prefill", "decode">>, <<"quality", "decode">>, <<"quality", "prefill">>} \cup
  ({"showcase"} \X Bench)

\* Two jobs their managers know of load the engine of one Spark together only if
\* the first was started while the second awaited its target and the manager of
\* the second does not ask for the first again: decode asks for none, prefill for
\* decode, quality for decode and prefill, and none for the showcase.
Exclusive ==
  \A j, k \in Started :
    /\ j < k
    /\ job[j].unit = job[k].unit
    /\ {job[j].status, job[k].status} = {"running"}
    /\ Listed(j) /\ Listed(k)
    => j \in job[k].met /\ <<job[j].kind, job[k].kind>> \in Overlaps

\* A job that runs is the one its manager has for the Spark, so the others see it.
\* Two ways out: a showcase's loop releases whatever session the Spark has after a
\* cancel had released it already (ShowcaseManager.js:832), and a decode loop does
\* so once a shutdown has ended its job (DecodeBench.js:1219).
RunningIsListed ==
  \A j \in Started : job[j].status = "running" =>
    \/ Listed(j)
    \/ job[j].kind = "decode" /\ stopping
    \/ job[j].kind = "showcase" /\ \E i \in Of("showcase", job[j].unit) \ {j} : job[i].status = "cancelled"

\* A Spark is never blocked for good: the job that keeps it from being used has a
\* loop that has not ended, which will release it.
BlockedOnlyByLoops ==
  \A k \in Kinds, u \in Units : active[k][u] # NoJob => job[active[k][u]].live

\* What the managers believe is running is what runs.
Bookkeeping == TypeOK /\ RunningIsListed /\ BlockedOnlyByLoops

\* The file of running jobs lists those that run. Only a rename that had been sent
\* off when a synchronous write came can put an older list in its place
\* (QualityBench.js:511).
FileIsCurrent ==
  \A k \in Bench : file[k] = Running(k) \/ (k = "quality" /\ writer.late)

\* A job that was accepted is running or has one row in the history with its
\* status, whatever shutdowns and crashes came: unless a user removed it, later
\* jobs pushed it out, or it was lost in a crash for one of two reasons: a
\* showcase has no file, or the file was overwritten as above.
JobsAreRemembered ==
  \A j \in Started :
    /\ job[j].status = "lost" => job[j].excused
    /\ job[j].status \in Ends /\ ~job[j].cleared =>
         \/ \E i \in DOMAIN Rows(history, j) :
              /\ Places(Rows(history, j), j) = {i}
              /\ Rows(history, j)[i].status = job[j].status
         \/ /\ ~HasRow(history, j)
            /\ Cardinality(Of(job[j].kind, job[j].unit) \ {j}) >= HistoryLimit

\* What a user removed from the history after its loop had ended does not come
\* back with the next start (_recoverInterruptedActive), unless the file was
\* overwritten.
ClearedStaysGone ==
  \A j \in Started : job[j].cleared => ~HasRow(history, j) \/ job[j].excused

\* No job is forgotten, and none that a user removed comes back.
HistoryHolds == FileIsCurrent /\ JobsAreRemembered /\ ClearedStaysGone

\* A job that has ended keeps its status, and a loop that unwinds late does not
\* change it; except that a quality job interrupted by a shutdown may turn from
\* "failed" into "cancelled" by a user who never cancelled it (QualityBench.js:783).
OutcomeIsFinal ==
  [][\A j \in Started :
       job[j].status \in Ends /\ job'[j].status # job[j].status =>
         \/ job[j].kind = "quality" /\ job[j].live /\ stopping
         \/ job'[j].excused]_vars
=============================================================================

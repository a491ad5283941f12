-------------------------- MODULE LauncherManager --------------------------
(***************************************************************************)
(* The start, stop and attach jobs of the models registered on one Spark:  *)
(* LauncherManager with the shell programs of llmlaunch/commands.js.  The  *)
(* dashboard holds a job per Spark and a child process per job; the        *)
(* program that child carries runs on the Spark, outlives the connection   *)
(* or not, and shares pid and exit files with the programs of other jobs.  *)
(***************************************************************************)
EXTENDS Integers, FiniteSets

CONSTANTS
    Launchers,  \* the models registered on the Spark
    MaxJobs,    \* bound: jobs started
    Local       \* the Spark is the dashboard's own machine: no ssh between

ASSUME LauncherAssumption == MaxJobs \in Nat \ {0} /\ Local \in BOOLEAN

VARIABLES
    store,    \* launchers that are registered
    current,  \* jobs.get(sparkId): the number of its latest job, or None
    jobs,     \* every job object, and what its program does on the Spark
    asks,     \* removals that wait for the status of their launcher
    spark     \* scripts that live there (by the job that started each), pid and exit files

vars == <<store, current, jobs, asks, spark>>

None == 0
JobIds == 1..MaxJobs
Actions == {"start", "attach", "stop"}
Finished == {"completed", "failed", "cancelled", "detached"}
Marks == {"none", "zero", "nonzero", "unknown"}

\* status "gone": the dashboard restarted and knows the job no more.
\* link: the child process; remote: the program it carries; mark: the exit
\* marker that program has printed; watch: the script it follows.
Job == [launcher : Launchers, action : Actions,
        status : {"running", "gone"} \cup Finished,
        cancelled : BOOLEAN, timedOut : BOOLEAN,
        link : {"up", "killed", "down"},
        remote : {"sent", "following", "stopping", "adrift", "over"},
        mark : Marks, watch : {None} \cup JobIds]
NoJob == [status |-> "none"]

NewJob(l, action, spawned) ==
    [launcher |-> l, action |-> action,
     status |-> IF spawned THEN "running" ELSE "failed",
     cancelled |-> FALSE, timedOut |-> FALSE,
     link |-> IF spawned THEN "up" ELSE "down",
     remote |-> IF spawned THEN "sent" ELSE "over",
     mark |-> "none", watch |-> None]

Init ==
    /\ store = Launchers /\ current = None
    /\ jobs = [j \in JobIds |-> NoJob]
    /\ asks = {}
    /\ spark = [live |-> {}, pid |-> [l \in Launchers |-> None],
                exit |-> [l \in Launchers |-> "unknown"]]

Known == {j \in JobIds : jobs[j] # NoJob}
Running == {j \in Known : jobs[j].status = "running"}

\* Mutant: the latest job of the Spark, finished or not.
LatestJob == {j \in Known : j = current}

ActiveJob == {j \in Running : j = current}
ActiveStop == {j \in ActiveJob : jobs[j].action = "stop"}
StopScripts == {j \in Known : jobs[j].remote \in {"stopping", "adrift"}}
Alive(l) == spark.pid[l] \in spark.live

-----------------------------------------------------------------------------
(* The dashboard's side.                                                   *)

\* Mutant: a lost connection is taken for exit code 0.
LostIsZero(job, got) ==
    IF job.cancelled THEN "cancelled"
    ELSE IF job.timedOut THEN IF job.action = "stop" THEN "failed" ELSE "detached"
    ELSE IF got # "nonzero" THEN "completed"
    ELSE "failed"

\* _finish, given the marker that arrived ("none" when the child ended first).
Outcome(job, got) ==
    IF job.cancelled THEN "cancelled"
    ELSE IF job.timedOut THEN IF job.action = "stop" THEN "failed" ELSE "detached"
    ELSE IF got = "zero" \/ (got = "unknown" /\ job.action # "stop") THEN "completed"
    ELSE "failed"

\* The child closes; a job that has an outcome keeps it.
Closed(job, got) ==
    [job EXCEPT !.link = "down",
                !.status = IF @ = "running" THEN Outcome(job, got) ELSE @]

Killed(job) == [job EXCEPT !.link = IF @ = "up" THEN "killed" ELSE @]

\* Mutant: the watcher that is replaced is only killed.
LeftRunning(job) == [Killed(job) EXCEPT !.cancelled = TRUE]

\* _detachWatcher: its outcome does not wait for the child to close.
WhenReplaced(job) == [Killed(job) EXCEPT !.cancelled = TRUE, !.status = "cancelled"]

\* Mutant: a stop job counts as one more watcher.
AlwaysFree == TRUE

\* A stop script is real work in flight; anything else is only a watcher.
MayStart == ActiveStop = {}

StartJob(l, action, j) ==
    /\ l \in store /\ MayStart
    /\ jobs[j] = NoJob /\ \A i \in 1..(j - 1) : jobs[i] # NoJob
    /\ \E spawned \in BOOLEAN :
         jobs' = [i \in JobIds |->
                    CASE i = j -> NewJob(l, action, spawned)
                      [] i \in ActiveJob -> WhenReplaced(jobs[i])
                      [] OTHER -> jobs[i]]
    /\ current' = j
    /\ UNCHANGED <<store, asks, spark>>

Cancellable == ActiveJob \ ActiveStop

Cancel(j) ==
    /\ j \in Cancellable
    /\ jobs' = [jobs EXCEPT ![j] = [Killed(@) EXCEPT !.cancelled = TRUE]]
    /\ UNCHANGED <<store, current, asks, spark>>

\* Mutant: the timer marks the job and leaves its child.
OnlyMarked(job) == [job EXCEPT !.timedOut = TRUE]

TimedOut(job) == [Killed(job) EXCEPT !.timedOut = TRUE]

Timeout(j) ==
    /\ j \in Running /\ ~jobs[j].timedOut
    /\ jobs' = [jobs EXCEPT ![j] = TimedOut(@)]
    /\ UNCHANGED <<store, current, asks, spark>>

\* The child's "close" waits for everyone who holds its pipes: on the local
\* machine that is the program and the scripts it runs attached.
MayClose(j) == Local => jobs[j].remote = "over"

ChildCloses(j) ==
    /\ j \in Known /\ MayClose(j)
    /\ \/ jobs[j].link # "down" /\ jobs[j].mark # "none"
          /\ jobs' = [jobs EXCEPT ![j] = Closed(@, @.mark)]
       \/ jobs[j].link = "killed"
          /\ jobs' = [jobs EXCEPT ![j] = Closed(@, "none")]
    /\ UNCHANGED <<store, current, asks, spark>>

ConnectionLost(j) ==
    /\ j \in Known /\ ~Local /\ jobs[j].link = "up"
    /\ jobs' = [jobs EXCEPT ![j] = Closed(@, "none")]
    /\ UNCHANGED <<store, current, asks, spark>>

\* removeLauncher awaits the status; an unreachable Spark is "unknown",
\* which isLive takes for not running.
AskRemove(l) ==
    /\ l \in store /\ ~\E j \in ActiveJob : jobs[j].launcher = l
    /\ \E live \in BOOLEAN :
         /\ (live <=> Alive(l)) \/ (~live /\ ~Local)
         /\ asks' = asks \cup {[launcher |-> l, live |-> live]}
    /\ UNCHANGED <<store, current, jobs, spark>>

Remove(a) ==
    /\ asks' = asks \ {a}
    /\ store' = IF a.live THEN store ELSE store \ {a.launcher}
    /\ UNCHANGED <<current, jobs, spark>>

RemoveSpark ==
    /\ store # {} \/ current # None
    /\ jobs' = [j \in JobIds |->
                  IF j \in Cancellable
                  THEN [Killed(jobs[j]) EXCEPT !.cancelled = TRUE] ELSE jobs[j]]
    /\ current' = None /\ store' = {}
    /\ UNCHANGED <<asks, spark>>

\* A shutdown or a crash of the dashboard, and its next start.
Restart ==
    /\ jobs' = [j \in JobIds |->
                  IF j \notin Known THEN NoJob
                  ELSE [jobs[j] EXCEPT !.link = "down",
                          !.status = IF @ = "running" THEN "gone" ELSE @]]
    /\ current' = None /\ asks' = {}
    /\ UNCHANGED <<store, spark>>

-----------------------------------------------------------------------------
(* The Spark's side: the program of job j.                                 *)

Over(j, mark) == [jobs EXCEPT ![j].remote = "over", ![j].mark = mark]

Follow(j, script) ==
    [jobs EXCEPT ![j].remote = "following", ![j].watch = script]

Sent(j, action) ==
    /\ j \in Known /\ jobs[j].remote = "sent" /\ jobs[j].action = action
    /\ UNCHANGED <<store, current, asks>>

\* The directory or the script fails a check.
Refuses(j) == jobs' = Over(j, "nonzero") /\ UNCHANGED spark

\* Under flock: attach to the script that lives, or launch one.
StartProgram(j) ==
    /\ Sent(j, "start")
    /\ LET l == jobs[j].launcher IN
         \/ Refuses(j)
         \/ Alive(l) /\ jobs' = Follow(j, spark.pid[l]) /\ UNCHANGED spark
         \/ /\ ~Alive(l)
            /\ jobs' = Follow(j, j)
            /\ spark' = [spark EXCEPT !.live = @ \cup {j}, !.pid[l] = j,
                                      !.exit[l] = "unknown"]

\* Without a living script: the end of the log and the last exit code.
AttachProgram(j) ==
    /\ Sent(j, "attach")
    /\ LET l == jobs[j].launcher IN
         jobs' = IF Alive(l) THEN Follow(j, spark.pid[l]) ELSE Over(j, spark.exit[l])
    /\ UNCHANGED spark

StopProgram(j) ==
    /\ Sent(j, "stop")
    /\ \/ Refuses(j)
       \/ jobs' = [jobs EXCEPT ![j].remote = "stopping"] /\ UNCHANGED spark

\* The script of job r and all it launched end; its wrapper writes the exit
\* code unless it was killed.
ScriptEnds(r) ==
    /\ r \in spark.live
    /\ \E code \in {"zero", "nonzero", spark.exit[jobs[r].launcher]} :
         spark' = [spark EXCEPT !.live = @ \ {r}, !.exit[jobs[r].launcher] = code]
    /\ UNCHANGED <<store, current, jobs, asks>>

ScriptIsOver(j) == jobs[j].watch \notin spark.live

\* follow: its script is over, so the pid file goes, whosever it is by now.
FollowEnds(j) ==
    /\ j \in Known /\ jobs[j].remote = "following" /\ ScriptIsOver(j)
    /\ jobs' = Over(j, spark.exit[jobs[j].launcher])
    /\ spark' = [spark EXCEPT !.pid[jobs[j].launcher] = None]
    /\ UNCHANGED <<store, current, asks>>

StopScriptEnds(j) ==
    /\ j \in Known /\ jobs[j].remote = "stopping"
    /\ \E mark \in {"zero", "nonzero"} : jobs' = Over(j, mark)
    /\ UNCHANGED <<store, current, asks, spark>>

Notices(job) == job.remote \in {"sent", "following", "stopping"}

\* The connection is gone: the program ends, and a stop script with it.
ProgramNotices(j) ==
    /\ j \in Known /\ jobs[j].link = "down" /\ Notices(jobs[j])
    /\ jobs' = Over(j, "none")
    /\ UNCHANGED <<store, current, asks, spark>>

\* On the local machine the signal reaches the program itself; a stop
\* script, in a session of its own, is left to itself.
ProgramKilled(j) ==
    /\ Local /\ j \in Known /\ jobs[j].link # "up"
    /\ jobs[j].remote \in {"sent", "following", "stopping"}
    /\ jobs' = IF jobs[j].remote = "stopping"
               THEN [jobs EXCEPT ![j].remote = "adrift"] ELSE Over(j, "none")
    /\ UNCHANGED <<store, current, asks, spark>>

AdriftEnds(j) ==
    /\ j \in Known /\ jobs[j].remote = "adrift"
    /\ jobs' = Over(j, "none")
    /\ UNCHANGED <<store, current, asks, spark>>

-----------------------------------------------------------------------------

Next ==
    \/ \E l \in Launchers, action \in Actions, j \in JobIds : StartJob(l, action, j)
    \/ \E j \in JobIds : Cancel(j)
    \/ \E j \in JobIds : Timeout(j)
    \/ \E j \in JobIds : ChildCloses(j)
    \/ \E j \in JobIds : ConnectionLost(j)
    \/ \E l \in Launchers : AskRemove(l)
    \/ \E a \in asks : Remove(a)
    \/ RemoveSpark
    \/ Restart
    \/ \E j \in JobIds : StartProgram(j)
    \/ \E j \in JobIds : AttachProgram(j)
    \/ \E j \in JobIds : StopProgram(j)
    \/ \E r \in JobIds : ScriptEnds(r)
    \/ \E j \in JobIds : FollowEnds(j)
    \/ \E j \in JobIds : StopScriptEnds(j)
    \/ \E j \in JobIds : ProgramNotices(j)
    \/ \E j \in JobIds : ProgramKilled(j)
    \/ \E j \in JobIds : AdriftEnds(j)

Spec == Init /\ [][Next]_vars

\* The timers of the dashboard fire, a child that was killed closes, and a
\* program that has lost its connection, or was killed, ends.  Nothing is
\* assumed of the users' scripts.
FairSpec ==
    /\ Spec
    /\ \A j \in JobIds : /\ WF_vars(Timeout(j))
                         /\ WF_vars(ChildCloses(j))
                         /\ WF_vars(ProgramNotices(j))
                         /\ WF_vars(ProgramKilled(j))

-----------------------------------------------------------------------------
(* Properties.                                                             *)

\* The types of the variables.
TypeOK ==
    /\ store \subseteq Launchers /\ current \in {None} \cup JobIds
    /\ jobs \in [JobIds -> Job \cup {NoJob}]
    /\ asks \subseteq [launcher : Launchers, live : BOOLEAN]
    /\ spark \in [live : SUBSET JobIds, pid : [Launchers -> {None} \cup JobIds],
                  exit : [Launchers -> {"zero", "nonzero", "unknown"}]]

\* One job at a time per Spark: whatever is detached, cancelled, timed out or
\* removed in between, a job that runs is the one the dashboard shows, except
\* when the Spark itself was removed under it.
OneJobAtATime == \A j \in Running : j = current \/ jobs[j].launcher \notin store

\* While a stop script runs, its job runs too and keeps every other job out.
\* Only a restart of the dashboard, or a connection that was lost or given
\* up, can tell them apart, and then the job has not reported a success.
StopHoldsTheSpark ==
    \A j \in StopScripts :
      \/ jobs[j].status \in {"running", "gone"}
      \/ ~Local /\ jobs[j].status = "failed"

\* A job that reports "completed" has seen the end: of its stop script, or of
\* the start script it has followed.
CompletedIsOver ==
    \A j \in Known : jobs[j].status = "completed" =>
      j \notin StopScripts /\ jobs[j].watch \notin spark.live

\* An outcome is final: neither the close of a child that was detached long
\* ago nor a timer changes what a finished job has reported.
OutcomeIsFinal ==
    [][\A j \in JobIds : jobs[j].status \in Finished =>
         jobs'[j].status = jobs[j].status]_vars

\* Every job ends, if only by its timer: a script that hangs or a Spark that
\* went away does not block the Spark's jobs for good. And a stop script does not
\* outlive its connection for good.
JobsEnd ==
    /\ \A j \in JobIds : j \in Running ~> j \notin Running
    /\ \A j \in JobIds :
         (j \in StopScripts /\ jobs[j].link = "down") ~> j \notin StopScripts
=============================================================================

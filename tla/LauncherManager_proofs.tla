------------------------ MODULE LauncherManager_proofs ------------------------
(***************************************************************************)
(* For any launchers and any number of jobs, over ssh and on the local     *)
(* machine: one job at a time, a stop script keeps the Spark for itself,   *)
(* a completed job is over, and outcomes are final.                        *)
(***************************************************************************)
EXTENDS LauncherManager, TLAPS

\* The program of job r has begun, so its script may have been launched.
Launched(r) == r \in Known /\ jobs[r].remote # "sent"

\* What the fields of one job say about each other and about its scripts.
Coherent(j) ==
    /\ jobs[j].status = "running" =>
         /\ jobs[j].link # "down"
         /\ j = current \/ jobs[j].launcher \notin store
         /\ jobs[j].action = "stop" => ~jobs[j].cancelled
    /\ jobs[j].remote \in {"stopping", "adrift"} => jobs[j].action = "stop"
    /\ jobs[j].action = "stop" /\ jobs[j].remote # "over" =>
         \/ jobs[j].status \in {"running", "gone"}
         \/ ~Local /\ jobs[j].status = "failed"
    /\ jobs[j].action = "stop" \/ jobs[j].remote = "sent" => jobs[j].watch = None
    /\ jobs[j].mark # "none" =>
         jobs[j].remote = "over" /\ jobs[j].watch \notin spark.live
    /\ jobs[j].status = "completed" => jobs[j].mark # "none"
    /\ jobs[j].watch # None => Launched(jobs[j].watch)

JobsInv == \A j \in Known : Coherent(j)

\* Living scripts, and those the pid files name, were launched by some job.
ScriptsInv ==
    /\ \A r \in spark.live : Launched(r)
    /\ \A l \in Launchers : spark.pid[l] # None => Launched(spark.pid[l])

IInv == TypeOK /\ JobsInv /\ ScriptsInv

\* A job object has the type of one, and is not the absent one.
LEMMA KnownJob ==
    ASSUME TypeOK
    PROVE  /\ \A j \in Known : jobs[j] \in Job
           /\ \A job \in Job : job # NoJob
BY DEF TypeOK, Known, Job, NoJob, Finished

\* Nothing runs before the first job.
LEMMA InitInv == Init => IInv
BY LauncherAssumption
   DEF Init, IInv, TypeOK, JobsInv, ScriptsInv, Known, NoJob, None, JobIds

\* A step that replaces one job record, and leaves what it has launched
\* launched, keeps the invariant when it keeps the record coherent.
LEMMA OneJob ==
    ASSUME IInv, NEW j \in Known, NEW new \in Job,
           jobs' = [jobs EXCEPT ![j] = new],
           UNCHANGED <<store, current, asks, spark>>,
           new.remote = "sent" => jobs[j].remote = "sent",
           Coherent(j)'
    PROVE  IInv'
<1>1. new # NoJob /\ j \in JobIds
  BY KnownJob DEF IInv, Known
<1>2. Known' = Known
  BY <1>1 DEF Known, IInv, TypeOK
<1>3. \A r : Launched(r) => Launched(r)'
  BY <1>1, <1>2 DEF Launched, IInv, TypeOK, Known
<1>4. TypeOK'
  BY DEF IInv, TypeOK
<1>5. JobsInv'
  <2>1. ASSUME NEW k \in Known', k # j PROVE Coherent(k)'
    BY <1>2, <1>3, <2>1 DEF IInv, JobsInv, Coherent, TypeOK, Known
  <2> QED BY <2>1 DEF JobsInv
<1>6. ScriptsInv'
  BY <1>3 DEF IInv, ScriptsInv
<1> QED BY <1>4, <1>5, <1>6 DEF IInv

\* Cancel and Timeout end the link of a job and mark it.
LEMMA CancelStep == ASSUME IInv, NEW j \in JobIds, Cancel(j) PROVE IInv'
<1>1. jobs[j] \in Job /\ j \in Known /\ Coherent(j) /\ jobs \in [JobIds -> Job \cup {NoJob}]
  BY KnownJob DEF Cancel, Cancellable, ActiveJob, Running, IInv, JobsInv, TypeOK
<1> DEFINE new == [Killed(jobs[j]) EXCEPT !.cancelled = TRUE]
<1>2. new \in Job /\ new.remote = jobs[j].remote
  BY <1>1 DEF Job, Killed
<1>3. jobs[j].action # "stop"
  BY DEF Cancel, Cancellable, ActiveStop
<1>4. Known' = Known
  BY <1>1, <1>2, KnownJob DEF IInv, Cancel, Known
<1>5. Coherent(j)'
  BY <1>1, <1>2, <1>3, <1>4 DEF Cancel, Coherent, Killed, Job, Launched
<1> QED BY <1>1, <1>2, <1>5, OneJob DEF Cancel

LEMMA TimeoutStep == ASSUME IInv, NEW j \in JobIds, Timeout(j) PROVE IInv'
<1>1. jobs[j] \in Job /\ j \in Known /\ Coherent(j) /\ jobs \in [JobIds -> Job \cup {NoJob}]
  BY KnownJob DEF Timeout, Running, IInv, JobsInv, TypeOK
<1> DEFINE new == TimedOut(jobs[j])
<1>2. new \in Job /\ new.remote = jobs[j].remote
  BY <1>1 DEF Job, TimedOut, Killed
<1>3. Known' = Known
  BY <1>1, <1>2, KnownJob DEF IInv, Timeout, Known
<1>4. Coherent(j)'
  BY <1>1, <1>2, <1>3 DEF Timeout, TimedOut, Coherent, Killed, Job, Launched
<1> QED BY <1>1, <1>2, <1>4, OneJob DEF Timeout

\* What a job that closes is told is its marker, or nothing.  Over a
\* connection a stop job may close before its program; it has failed then.
LEMMA CloseStep ==
    ASSUME IInv, NEW j \in Known, NEW got,
           jobs' = [jobs EXCEPT ![j] = Closed(@, got)],
           UNCHANGED <<store, current, asks, spark>>,
           got \in {jobs[j].mark, "none"}, Local => jobs[j].remote = "over"
    PROVE  IInv'
<1>1. jobs[j] \in Job /\ Coherent(j) /\ jobs \in [JobIds -> Job \cup {NoJob}] /\ j \in JobIds
  BY KnownJob DEF IInv, JobsInv, TypeOK, Known
<1> DEFINE new == Closed(jobs[j], got)
<1>2. Outcome(jobs[j], got) \in Finished
  BY DEF Outcome, Finished
<1>3. /\ new \in Job /\ new.remote = jobs[j].remote /\ new.link = "down"
      /\ new.mark = jobs[j].mark /\ new.watch = jobs[j].watch /\ new.action = jobs[j].action
      /\ new.status = IF jobs[j].status = "running" THEN Outcome(jobs[j], got)
                      ELSE jobs[j].status
  BY <1>1, <1>2 DEF Job, Closed, Finished
<1>4. Known' = Known
  BY <1>1, <1>3, KnownJob DEF IInv, Known
<1>5. Launched(jobs[j].watch) => Launched(jobs[j].watch)'
  BY <1>1, <1>3, <1>4 DEF Launched, Known
<1>6. jobs[j].status = "running" /\ jobs[j].action = "stop" /\ jobs[j].remote # "over" =>
        Outcome(jobs[j], got) = "failed"
  BY <1>1 DEF Outcome, Coherent, Job
<1>7. Outcome(jobs[j], got) = "completed" => jobs[j].mark # "none"
  BY <1>1 DEF Outcome, Job
<1>8. Coherent(j)'
  BY <1>1, <1>2, <1>3, <1>4, <1>5, <1>6, <1>7 DEF Coherent, Finished
<1> QED BY <1>1, <1>3, <1>8, OneJob

LEMMA ChildClosesStep == ASSUME IInv, NEW j \in JobIds, ChildCloses(j) PROVE IInv'
BY CloseStep DEF ChildCloses, MayClose

LEMMA ConnectionLostStep == ASSUME IInv, NEW j \in JobIds, ConnectionLost(j) PROVE IInv'
BY CloseStep DEF ConnectionLost

\* The program of j ends, with a marker or without.
LEMMA OverStep ==
    ASSUME IInv, NEW j \in Known, NEW mark \in Marks,
           jobs' = Over(j, mark), jobs[j].remote # "over",
           UNCHANGED <<store, current, asks, spark>>,
           jobs[j].watch \notin spark.live \/ mark = "none"
    PROVE  IInv'
<1>1. jobs[j] \in Job /\ Coherent(j) /\ jobs \in [JobIds -> Job \cup {NoJob}] /\ j \in JobIds
  BY KnownJob DEF IInv, JobsInv, TypeOK, Known
<1> DEFINE new == [jobs[j] EXCEPT !.remote = "over", !.mark = mark]
<1>2. new \in Job /\ new.remote = "over"
  BY <1>1 DEF Job
<1>3. Known' = Known /\ jobs' = [jobs EXCEPT ![j] = new]
  BY <1>1, <1>2, KnownJob DEF IInv, Known, Over
<1>4. Launched(jobs[j].watch) => Launched(jobs[j].watch)'
  BY <1>1, <1>2, <1>3 DEF Launched, Known
<1>5. jobs[j].status # "completed"
  BY <1>1 DEF Coherent
<1>6. Coherent(j)'
  BY <1>1, <1>2, <1>3, <1>4, <1>5 DEF Coherent, Job
<1> QED BY <1>1, <1>2, <1>3, <1>6, OneJob

\* A program that has not begun watches nothing.
LEMMA RefusesStep ==
    ASSUME IInv, NEW j \in Known, jobs[j].remote = "sent", Refuses(j),
           UNCHANGED <<store, current, asks>>
    PROVE  IInv'
<1>1. jobs[j].watch = None /\ None \notin spark.live
  BY DEF IInv, JobsInv, Coherent, TypeOK, JobIds, None
<1> QED BY <1>1, OverStep DEF Refuses, Marks

\* A watcher takes up a script that was launched.
LEMMA FollowStep ==
    ASSUME IInv, NEW j \in Known, jobs[j].remote = "sent", jobs[j].action # "stop",
           NEW r \in JobIds, Launched(r), jobs' = Follow(j, r),
           UNCHANGED <<store, current, asks, spark>>
    PROVE  IInv'
<1>1. jobs[j] \in Job /\ Coherent(j) /\ jobs \in [JobIds -> Job \cup {NoJob}] /\ j \in JobIds
  BY KnownJob DEF IInv, JobsInv, TypeOK, Known
<1> DEFINE new == [jobs[j] EXCEPT !.remote = "following", !.watch = r]
<1>2. new \in Job /\ new.remote = "following"
  BY <1>1 DEF Job
<1>3. Known' = Known /\ jobs' = [jobs EXCEPT ![j] = new]
  BY <1>1, <1>2, KnownJob DEF IInv, Known, Follow
<1>4. Launched(r)'
  BY <1>1, <1>2, <1>3 DEF Launched, Known
<1>5. Coherent(j)'
  BY <1>1, <1>2, <1>3, <1>4 DEF Coherent, Job
<1> QED BY <1>1, <1>2, <1>3, <1>5, OneJob

LEMMA AttachProgramStep == ASSUME IInv, NEW j \in JobIds, AttachProgram(j) PROVE IInv'
<1>1. /\ j \in Known /\ jobs[j] \in Job /\ jobs[j].action = "attach"
      /\ jobs[j].remote = "sent" /\ jobs[j].watch = None
  BY KnownJob DEF AttachProgram, Sent, IInv, JobsInv, Coherent
<1> DEFINE l == jobs[j].launcher
<1>2. l \in Launchers /\ None \notin spark.live /\ spark.exit[l] \in Marks
  BY <1>1 DEF Job, IInv, TypeOK, None, JobIds, Marks
<1>3. CASE Alive(l)
  BY <1>1, <1>2, <1>3, FollowStep DEF AttachProgram, Sent, Alive, IInv, ScriptsInv, TypeOK
<1>4. CASE ~Alive(l)
  BY <1>1, <1>2, <1>4, OverStep DEF AttachProgram, Sent
<1> QED BY <1>3, <1>4

LEMMA StopProgramStep == ASSUME IInv, NEW j \in JobIds, StopProgram(j) PROVE IInv'
<1>1. /\ j \in Known /\ jobs[j] \in Job /\ jobs[j].action = "stop" /\ Coherent(j)
      /\ jobs[j].remote = "sent" /\ jobs \in [JobIds -> Job \cup {NoJob}]
  BY KnownJob DEF StopProgram, Sent, IInv, JobsInv, TypeOK
<1>2. CASE Refuses(j)
  BY <1>1, <1>2, RefusesStep DEF StopProgram, Sent
<1>3. CASE jobs' = [jobs EXCEPT ![j].remote = "stopping"] /\ UNCHANGED spark
  <2> DEFINE new == [jobs[j] EXCEPT !.remote = "stopping"]
  <2>1. new \in Job /\ new.remote = "stopping" /\ jobs' = [jobs EXCEPT ![j] = new]
    BY <1>1, <1>3 DEF Job
  <2>2. Coherent(j)'
    BY <1>1, <1>3, <2>1 DEF StopProgram, Sent, Coherent, Job
  <2> QED BY <1>1, <1>3, <2>1, <2>2, OneJob DEF StopProgram, Sent
<1> QED BY <1>2, <1>3 DEF StopProgram

LEMMA StopScriptEndsStep == ASSUME IInv, NEW j \in JobIds, StopScriptEnds(j) PROVE IInv'
<1>1. j \in Known /\ jobs[j].remote = "stopping" /\ jobs[j].watch = None
  BY DEF StopScriptEnds, IInv, JobsInv, Coherent
<1>2. None \notin spark.live
  BY DEF IInv, TypeOK, None, JobIds
<1> QED BY <1>1, <1>2, OverStep DEF StopScriptEnds, Marks

LEMMA ProgramNoticesStep == ASSUME IInv, NEW j \in JobIds, ProgramNotices(j) PROVE IInv'
BY OverStep DEF ProgramNotices, Notices, Marks

LEMMA AdriftEndsStep == ASSUME IInv, NEW j \in JobIds, AdriftEnds(j) PROVE IInv'
BY OverStep DEF AdriftEnds, Marks

LEMMA ProgramKilledStep == ASSUME IInv, NEW j \in JobIds, ProgramKilled(j) PROVE IInv'
<1>1. /\ j \in Known /\ jobs[j] \in Job /\ Coherent(j) /\ jobs[j].remote # "over"
      /\ jobs \in [JobIds -> Job \cup {NoJob}]
  BY KnownJob DEF ProgramKilled, IInv, JobsInv, TypeOK
<1>2. CASE jobs[j].remote = "stopping"
  <2> DEFINE new == [jobs[j] EXCEPT !.remote = "adrift"]
  <2>1. new \in Job /\ new.remote = "adrift" /\ jobs' = [jobs EXCEPT ![j] = new]
    BY <1>1, <1>2 DEF Job, ProgramKilled
  <2>2. Coherent(j)'
    BY <1>1, <1>2, <2>1 DEF ProgramKilled, Coherent, Job
  <2> QED BY <1>1, <1>2, <2>1, <2>2, OneJob DEF ProgramKilled
<1>3. CASE jobs[j].remote # "stopping"
  BY <1>1, <1>3, OverStep DEF ProgramKilled, Marks
<1> QED BY <1>2, <1>3

\* A launch makes j a script that nobody has watched or named before.
LEMMA StartProgramStep == ASSUME IInv, NEW j \in JobIds, StartProgram(j) PROVE IInv'
<1>1. /\ j \in Known /\ jobs[j] \in Job /\ jobs[j].action = "start" /\ Coherent(j)
      /\ jobs[j].remote = "sent" /\ jobs \in [JobIds -> Job \cup {NoJob}]
  BY KnownJob DEF StartProgram, Sent, IInv, JobsInv, TypeOK
<1> DEFINE l == jobs[j].launcher
<1>2. l \in Launchers
  BY <1>1 DEF Job
<1>3. CASE Refuses(j)
  BY <1>1, <1>3, RefusesStep DEF StartProgram, Sent
<1>4. CASE Alive(l) /\ jobs' = Follow(j, spark.pid[l]) /\ UNCHANGED spark
  <2>1. spark.pid[l] \in JobIds /\ Launched(spark.pid[l])
    BY <1>2, <1>4 DEF Alive, IInv, ScriptsInv, TypeOK, None, JobIds
  <2> QED BY <1>1, <1>4, <2>1, FollowStep DEF StartProgram, Sent
<1>5. CASE /\ jobs' = Follow(j, j)
           /\ spark' = [spark EXCEPT !.live = @ \cup {j}, !.pid[l] = j,
                                     !.exit[l] = "unknown"]
  <2> DEFINE new == [jobs[j] EXCEPT !.remote = "following", !.watch = j]
  <2>1. /\ new \in Job /\ new.remote = "following" /\ jobs' = [jobs EXCEPT ![j] = new]
        /\ Known' = Known /\ UNCHANGED <<store, current, asks>>
    <3>1. new \in Job /\ new.remote = "following"
      BY <1>1 DEF Job
    <3>2. jobs' = [jobs EXCEPT ![j] = new]
      BY <1>1, <1>5 DEF Follow
    <3>3. Known' = Known
      BY <1>1, <3>1, <3>2, KnownJob DEF Known, IInv
    <3> QED BY <3>1, <3>2, <3>3 DEF StartProgram, Sent
  <2>2. \A r : Launched(r) => Launched(r)' /\ r # j
    BY <1>1, <2>1 DEF Launched, Known
  <2>3. Launched(j)'
    BY <1>1, <2>1 DEF Launched
  <2>4. /\ spark'.live = spark.live \cup {j}
        /\ spark'.pid = [spark.pid EXCEPT ![l] = j]
        /\ spark'.exit = [spark.exit EXCEPT ![l] = "unknown"]
        /\ TypeOK'
    BY <1>1, <1>2, <1>5, <2>1 DEF IInv, TypeOK
  <2>5. ASSUME NEW k \in Known, k # j PROVE Coherent(k)'
    <3>1. jobs'[k] = jobs[k] /\ Coherent(k) /\ k \in JobIds /\ jobs[k].watch # j
      <4>1. Coherent(k) /\ k \in JobIds
        BY DEF IInv, JobsInv, Known
      <4>2. jobs'[k] = jobs[k]
        BY <1>1, <2>1, <2>5, <4>1
      <4>3. jobs[k].watch # j
        BY <2>2, <4>1 DEF Coherent, None, JobIds
      <4> QED BY <4>1, <4>2, <4>3
    <3>2. jobs[k].watch \in spark'.live => jobs[k].watch \in spark.live
      BY <2>4, <3>1
    <3>3. UNCHANGED <<store, current>> /\ (Launched(jobs[k].watch) => Launched(jobs[k].watch)')
      BY <2>1, <2>2, <3>1
    <3> QED BY <3>1, <3>2, <3>3 DEF Coherent
  <2>6. Coherent(j)'
    BY <1>1, <2>1, <2>3, <2>4 DEF Coherent, Job
  <2>7. ScriptsInv'
    BY <1>2, <2>2, <2>3, <2>4 DEF IInv, ScriptsInv, TypeOK
  <2> QED BY <2>1, <2>4, <2>5, <2>6, <2>7 DEF IInv, JobsInv
<1> QED BY <1>3, <1>4, <1>5 DEF StartProgram

\* The scripts that live are fewer, the pid files name fewer of them.
LEMMA FewerScripts ==
    ASSUME IInv, UNCHANGED <<store, current, jobs, asks>>,
           NEW live \in SUBSET spark.live,
           spark'.live = live, spark'.pid = spark.pid, TypeOK'
    PROVE  IInv'
<1>1. \A j \in Known : Coherent(j)'
  BY DEF IInv, JobsInv, Coherent, Launched, Known
<1>2. ScriptsInv'
  BY DEF IInv, ScriptsInv, Launched, Known
<1> QED BY <1>1, <1>2 DEF IInv, JobsInv, Known

LEMMA ScriptEndsStep == ASSUME IInv, NEW r \in JobIds, ScriptEnds(r) PROVE IInv'
<1> DEFINE l == jobs[r].launcher
<1>1. l \in Launchers
  BY KnownJob DEF ScriptEnds, IInv, ScriptsInv, Launched, Job
<1>2. PICK code \in {"zero", "nonzero", spark.exit[l]} :
        spark' = [spark EXCEPT !.live = @ \ {r}, !.exit[l] = code]
  BY DEF ScriptEnds
<1>3. code \in {"zero", "nonzero", "unknown"} /\ UNCHANGED <<store, current, jobs, asks>>
  BY <1>1 DEF IInv, TypeOK, ScriptEnds
<1>4. spark'.live = spark.live \ {r} /\ spark'.pid = spark.pid /\ TypeOK'
  BY <1>1, <1>2, <1>3 DEF IInv, TypeOK
<1> QED BY <1>3, <1>4, FewerScripts

LEMMA FollowEndsStep == ASSUME IInv, NEW j \in JobIds, FollowEnds(j) PROVE IInv'
<1> DEFINE l == jobs[j].launcher
           new == [jobs[j] EXCEPT !.remote = "over", !.mark = spark.exit[l]]
<1>1. /\ j \in Known /\ jobs[j] \in Job /\ Coherent(j) /\ jobs[j].remote = "following"
      /\ jobs \in [JobIds -> Job \cup {NoJob}] /\ jobs[j].watch \notin spark.live
  BY KnownJob DEF FollowEnds, ScriptIsOver, IInv, JobsInv, TypeOK
<1>2. l \in Launchers /\ spark.exit[l] \in Marks
  BY <1>1 DEF Job, IInv, TypeOK, Marks
<1>3. /\ new \in Job /\ new.remote = "over" /\ jobs' = [jobs EXCEPT ![j] = new]
      /\ Known' = Known /\ UNCHANGED <<store, current, asks>>
  <2>1. new \in Job /\ new.remote = "over"
    BY <1>1, <1>2 DEF Job
  <2>2. jobs' = [jobs EXCEPT ![j] = new]
    BY <1>1 DEF FollowEnds, Over
  <2>3. Known' = Known
    BY <1>1, <2>1, <2>2, KnownJob DEF Known, IInv
  <2> QED BY <2>1, <2>2, <2>3 DEF FollowEnds
<1>4. /\ spark'.live = spark.live /\ spark'.pid = [spark.pid EXCEPT ![l] = None]
      /\ spark'.exit = spark.exit /\ TypeOK'
  BY <1>2, <1>3 DEF FollowEnds, IInv, TypeOK
<1>5. \A r : Launched(r) => Launched(r)'
  BY <1>1, <1>3 DEF Launched, Known
<1>6. ASSUME NEW k \in Known, k # j PROVE Coherent(k)'
  <2>1. jobs'[k] = jobs[k] /\ Coherent(k)
    BY <1>1, <1>3, <1>6 DEF IInv, JobsInv, Known
  <2>2. UNCHANGED <<store, current>> /\ spark'.live = spark.live
    BY <1>3, <1>4
  <2> QED BY <1>5, <2>1, <2>2 DEF Coherent
<1>7. Coherent(j)'
  <2>1. jobs[j].status # "completed"
    BY <1>1 DEF Coherent
  <2> QED BY <1>1, <1>3, <1>4, <1>5, <2>1 DEF Coherent, Job
<1>8. ScriptsInv'
  BY <1>2, <1>4, <1>5 DEF IInv, ScriptsInv, TypeOK
<1> QED BY <1>3, <1>4, <1>6, <1>7, <1>8 DEF IInv, JobsInv

\* A watcher that gives way was not a stop job: none is active.
LEMMA StartJobStep ==
    ASSUME IInv, NEW l \in Launchers, NEW action \in Actions, NEW j \in JobIds,
           StartJob(l, action, j)
    PROVE  IInv'
<1>1. /\ jobs \in [JobIds -> Job \cup {NoJob}] /\ jobs[j] = NoJob /\ j \notin Known
      /\ UNCHANGED <<store, asks, spark>> /\ current' = j /\ MayStart
  BY DEF IInv, TypeOK, StartJob, Known
<1>2. PICK spawned \in BOOLEAN :
        jobs' = [i \in JobIds |->
                   CASE i = j -> NewJob(l, action, spawned)
                     [] i \in ActiveJob -> WhenReplaced(jobs[i])
                     [] OTHER -> jobs[i]]
  BY DEF StartJob
<1> DEFINE new == NewJob(l, action, spawned)
<1>3. new \in Job /\ new.watch = None /\ new.mark = "none" /\ new.status # "completed"
      /\ (new.status = "running" => new.link = "up" /\ ~new.cancelled)
      /\ new.remote \in {"sent", "over"}
      /\ (new.remote = "sent" => new.status = "running")
  BY DEF NewJob, Job, Finished, Marks, None
<1>4. jobs'[j] = new
  BY <1>1, <1>2 DEF ActiveJob, Running
<1>5. ASSUME NEW k \in ActiveJob
      PROVE  /\ k \in Known /\ k # j /\ jobs'[k] = WhenReplaced(jobs[k])
             /\ jobs'[k] \in Job /\ jobs[k].action # "stop"
             /\ jobs'[k] = [Killed(jobs[k]) EXCEPT !.cancelled = TRUE, !.status = "cancelled"]
  <2>1. k \in Known /\ jobs[k] \in Job /\ k \in JobIds /\ k # j
    BY <1>1, KnownJob DEF ActiveJob, Running, IInv, Known
  <2>2. jobs'[k] = WhenReplaced(jobs[k])
    BY <1>2, <2>1
  <2>3. WhenReplaced(jobs[k]) \in Job
    BY <2>1 DEF WhenReplaced, Killed, Job, Finished
  <2>4. jobs[k].action # "stop"
    BY <1>1 DEF MayStart, ActiveStop
  <2> QED BY <2>1, <2>2, <2>3, <2>4 DEF WhenReplaced
<1>6. ASSUME NEW k \in JobIds, k # j, k \notin ActiveJob PROVE jobs'[k] = jobs[k]
  BY <1>2, <1>6
<1>7. jobs' \in [JobIds -> Job \cup {NoJob}]
  <2>1. jobs' = [k \in JobIds |-> jobs'[k]]
    BY <1>2
  <2>2. ASSUME NEW k \in JobIds PROVE jobs'[k] \in Job \cup {NoJob}
    BY <1>1, <1>3, <1>4, <1>5, <1>6
  <2> QED BY <2>1, <2>2
<1>8. Known' = Known \cup {j}
  <2>1. ASSUME NEW k \in JobIds PROVE k \in Known' <=> k \in Known \cup {j}
    BY <1>3, <1>4, <1>5, <1>6, KnownJob DEF IInv, Known
  <2> QED BY <2>1 DEF Known
<1>9. \A k \in Known :
        /\ k # j /\ k \in JobIds /\ Coherent(k)
        /\ jobs'[k].remote = jobs[k].remote
        /\ jobs'[k].watch = jobs[k].watch /\ jobs'[k].mark = jobs[k].mark
        /\ jobs'[k].action = jobs[k].action /\ jobs'[k].launcher = jobs[k].launcher
        /\ jobs'[k].status = IF k \in ActiveJob THEN "cancelled" ELSE jobs[k].status
  <2>1. ASSUME NEW k \in Known PROVE k # j /\ k \in JobIds /\ Coherent(k) /\ jobs[k] \in Job
    BY <1>1, KnownJob DEF IInv, JobsInv, Known
  <2>2. ASSUME NEW k \in Known, k \in ActiveJob
        PROVE  /\ jobs'[k].remote = jobs[k].remote /\ jobs'[k].status = "cancelled"
               /\ jobs'[k].watch = jobs[k].watch /\ jobs'[k].mark = jobs[k].mark
               /\ jobs'[k].action = jobs[k].action /\ jobs'[k].launcher = jobs[k].launcher
    <3>1. jobs'[k] = [Killed(jobs[k]) EXCEPT !.cancelled = TRUE, !.status = "cancelled"]
      BY <1>5, <2>2
    <3> QED BY <2>1, <3>1 DEF Killed, Job
  <2> QED BY <1>6, <2>1, <2>2
<1>10. \A r : Launched(r) => Launched(r)'
  BY <1>8, <1>9 DEF Launched
<1>11. ASSUME NEW k \in Known PROVE Coherent(k)'
  <2>1. CASE k \in ActiveJob
    <3>1. Launched(jobs[k].watch) => Launched(jobs[k].watch)'
      BY <1>9, <1>10
    <3>2. jobs[k].action # "stop"
      BY <1>5, <2>1
    <3> QED BY <1>1, <1>9, <2>1, <3>1, <3>2 DEF Coherent
  <2>2. CASE k \notin ActiveJob
    <3>1. jobs'[k] = jobs[k] /\ Coherent(k) /\ k \in JobIds
      BY <1>6, <1>9, <2>2
    <3>2. jobs[k].status = "running" => jobs[k].launcher \notin store
      BY <2>2, <3>1 DEF Coherent, ActiveJob, Running
    <3> QED BY <1>1, <1>10, <3>1, <3>2 DEF Coherent
  <2> QED BY <2>1, <2>2
<1>12. Coherent(j)'
  BY <1>1, <1>3, <1>4 DEF Coherent
<1>13. TypeOK'
  BY <1>1, <1>7 DEF IInv, TypeOK
<1>14. ScriptsInv'
  BY <1>1, <1>10 DEF IInv, ScriptsInv
<1> QED BY <1>8, <1>11, <1>12, <1>13, <1>14 DEF IInv, JobsInv

\* Removing the Spark cancels the watcher; a stop job goes on unseen, with
\* its launcher registered no more.
LEMMA RemoveSparkStep == ASSUME IInv, RemoveSpark PROVE IInv'
<1>1. /\ jobs \in [JobIds -> Job \cup {NoJob}] /\ store' = {} /\ current' = None
      /\ UNCHANGED <<asks, spark>>
  BY DEF IInv, TypeOK, RemoveSpark
<1>2. ASSUME NEW k \in JobIds
      PROVE  jobs'[k] = IF k \in Cancellable
                        THEN [Killed(jobs[k]) EXCEPT !.cancelled = TRUE] ELSE jobs[k]
  BY <1>2 DEF RemoveSpark
<1>3. Cancellable \subseteq Known /\ \A k \in Cancellable : jobs[k].action # "stop"
  BY DEF Cancellable, ActiveStop, ActiveJob, Running
<1>4. ASSUME NEW k \in Known
      PROVE  /\ k \in JobIds /\ jobs'[k] \in Job /\ Coherent(k)
             /\ jobs'[k].remote = jobs[k].remote /\ jobs'[k].status = jobs[k].status
             /\ jobs'[k].watch = jobs[k].watch /\ jobs'[k].mark = jobs[k].mark
             /\ jobs'[k].action = jobs[k].action /\ jobs'[k].launcher = jobs[k].launcher
             /\ (jobs'[k].link = "down" => jobs[k].link = "down")
             /\ (jobs'[k].action = "stop" => jobs'[k].cancelled = jobs[k].cancelled)
  <2>1. k \in JobIds /\ jobs[k] \in Job /\ Coherent(k)
    BY KnownJob DEF IInv, JobsInv, Known
  <2>2. CASE k \in Cancellable
    <3>1. jobs'[k] = [Killed(jobs[k]) EXCEPT !.cancelled = TRUE]
      BY <1>2, <2>1, <2>2
    <3> QED BY <1>3, <2>1, <2>2, <3>1 DEF Killed, Job
  <2>3. CASE k \notin Cancellable
    BY <1>2, <2>1, <2>3
  <2> QED BY <2>2, <2>3
<1>5. jobs' \in [JobIds -> Job \cup {NoJob}] /\ Known' = Known
  <2>1. jobs' = [k \in JobIds |-> jobs'[k]]
    BY DEF RemoveSpark
  <2>2. ASSUME NEW k \in JobIds
        PROVE  jobs'[k] \in Job \cup {NoJob} /\ (k \in Known' <=> k \in Known)
    <3>1. CASE k \in Known
      BY <1>4, <3>1, KnownJob DEF Known, IInv
    <3>2. CASE k \notin Known
      BY <1>2, <1>3, <3>2 DEF Known
    <3> QED BY <3>1, <3>2
  <2>3. Known' = Known
    BY <2>2 DEF Known
  <2> QED BY <2>1, <2>2, <2>3
<1>6. \A r : Launched(r) => Launched(r)'
  BY <1>4, <1>5 DEF Launched
<1>7. ASSUME NEW k \in Known PROVE Coherent(k)'
  <2>1. Launched(jobs[k].watch) => Launched(jobs[k].watch)'
    BY <1>4, <1>6
  <2> QED BY <1>1, <1>4, <2>1 DEF Coherent
<1>8. TypeOK'
  BY <1>1, <1>5 DEF IInv, TypeOK
<1>9. ScriptsInv'
  BY <1>1, <1>6 DEF IInv, ScriptsInv
<1> QED BY <1>5, <1>7, <1>8, <1>9 DEF IInv, JobsInv

\* The dashboard forgets every job: the links are down, and what ran is gone.
LEMMA RestartStep == ASSUME IInv, Restart PROVE IInv'
<1>1. /\ jobs \in [JobIds -> Job \cup {NoJob}] /\ current' = None /\ asks' = {}
      /\ UNCHANGED <<store, spark>>
  BY DEF IInv, TypeOK, Restart
<1> DEFINE after(k) == [jobs[k] EXCEPT !.link = "down",
                          !.status = IF @ = "running" THEN "gone" ELSE @]
<1>2. jobs' = [k \in JobIds |-> IF k \notin Known THEN NoJob ELSE after(k)]
  BY DEF Restart
<1>3. ASSUME NEW k \in Known
      PROVE  /\ k \in JobIds /\ jobs'[k] \in Job /\ Coherent(k)
             /\ jobs'[k].remote = jobs[k].remote
             /\ jobs'[k].status = IF jobs[k].status = "running" THEN "gone" ELSE jobs[k].status
             /\ jobs'[k].watch = jobs[k].watch /\ jobs'[k].mark = jobs[k].mark
             /\ jobs'[k].action = jobs[k].action
  <2>1. k \in JobIds /\ jobs[k] \in Job /\ Coherent(k)
    BY KnownJob DEF IInv, JobsInv, Known
  <2>2. jobs'[k] = after(k)
    BY <1>2, <2>1
  <2> QED BY <2>1, <2>2 DEF Job
<1>4. jobs' \in [JobIds -> Job \cup {NoJob}] /\ Known' = Known
  <2>1. jobs' = [k \in JobIds |-> jobs'[k]]
    BY <1>2
  <2>2. ASSUME NEW k \in JobIds
        PROVE  jobs'[k] \in Job \cup {NoJob} /\ (k \in Known' <=> k \in Known)
    <3>1. CASE k \in Known
      BY <1>3, <3>1, KnownJob DEF Known, IInv
    <3>2. CASE k \notin Known
      BY <1>2, <3>2 DEF Known
    <3> QED BY <3>1, <3>2
  <2>3. Known' = Known
    BY <2>2 DEF Known
  <2> QED BY <2>1, <2>2, <2>3
<1>5. \A r : Launched(r) => Launched(r)'
  BY <1>3, <1>4 DEF Launched
<1>6. ASSUME NEW k \in Known PROVE Coherent(k)'
  <2>1. Launched(jobs[k].watch) => Launched(jobs[k].watch)'
    BY <1>3, <1>5
  <2>2. jobs'[k].status # "running"
    BY <1>3
  <2> QED BY <1>1, <1>3, <2>1, <2>2 DEF Coherent
<1>7. TypeOK'
  BY <1>1, <1>4 DEF IInv, TypeOK
<1>8. ScriptsInv'
  BY <1>1, <1>5 DEF IInv, ScriptsInv
<1> QED BY <1>4, <1>6, <1>7, <1>8 DEF IInv, JobsInv

\* A registration that goes, or a request, touches no job.
LEMMA RegistryStep ==
    ASSUME IInv, UNCHANGED <<current, jobs, spark>>, store' \subseteq store,
           asks' \subseteq [launcher : Launchers, live : BOOLEAN]
    PROVE  IInv'
<1>1. TypeOK'
  BY DEF IInv, TypeOK
<1>2. Known' = Known /\ \A r : Launched(r) => Launched(r)'
  BY DEF Known, Launched
<1>3. \A k \in Known : Coherent(k)'
  BY <1>2 DEF IInv, JobsInv, Coherent
<1>4. ScriptsInv'
  BY <1>2 DEF IInv, ScriptsInv
<1> QED BY <1>1, <1>2, <1>3, <1>4 DEF IInv, JobsInv

LEMMA AskRemoveStep == ASSUME IInv, NEW l \in Launchers, AskRemove(l) PROVE IInv'
<1>1. PICK b \in BOOLEAN : asks' = asks \cup {[launcher |-> l, live |-> b]}
  BY DEF AskRemove
<1>2. asks' \subseteq [launcher : Launchers, live : BOOLEAN]
  BY <1>1 DEF IInv, TypeOK
<1> QED BY <1>2, RegistryStep DEF AskRemove

LEMMA RemoveStep == ASSUME IInv, NEW a \in asks, Remove(a) PROVE IInv'
<1>1. asks' \subseteq [launcher : Launchers, live : BOOLEAN] /\ store' \subseteq store
  BY DEF Remove, IInv, TypeOK
<1> QED BY <1>1, RegistryStep DEF Remove

\* Every step of the system keeps the invariant.
LEMMA NextInv == IInv /\ [Next]_vars => IInv'
<1> SUFFICES ASSUME IInv, [Next]_vars PROVE IInv'
  OBVIOUS
<1>1. CASE UNCHANGED vars
  BY <1>1, RegistryStep DEF vars, IInv, TypeOK
<1>2. CASE Next
  BY <1>2, StartJobStep, CancelStep, TimeoutStep, ChildClosesStep, ConnectionLostStep,
     AskRemoveStep, RemoveStep, RemoveSparkStep, RestartStep, StartProgramStep,
     AttachProgramStep, StopProgramStep, ScriptEndsStep, FollowEndsStep,
     StopScriptEndsStep, ProgramNoticesStep, ProgramKilledStep, AdriftEndsStep DEF Next
<1> QED BY <1>1, <1>2

\* The invariant holds in every reachable state, for any number of jobs.
THEOREM InductiveInvariant == Spec => []IInv
BY InitInv, NextInv, PTL DEF Spec

\* At any time one job runs on a Spark, unless the Spark was removed under it
\* (startJob, cancel and _detachWatcher against late closes and timers).
THEOREM JobsAreExclusive == Spec => []OneJobAtATime
<1>1. IInv => OneJobAtATime
  BY DEF IInv, JobsInv, Coherent, OneJobAtATime, Running
<1> QED BY <1>1, InductiveInvariant, PTL

\* While stop.sh runs, its job runs or has failed with its connection.
THEOREM StopIsExclusive == Spec => []StopHoldsTheSpark
<1>1. IInv => StopHoldsTheSpark
  BY DEF IInv, JobsInv, Coherent, StopHoldsTheSpark, StopScripts
<1> QED BY <1>1, InductiveInvariant, PTL

\* "completed" is reported of a stop script, or of a script that was
\* followed, only when it is over.
THEOREM CompletedIsTrue == Spec => []CompletedIsOver
<1>1. IInv => CompletedIsOver
  BY DEF IInv, JobsInv, Coherent, CompletedIsOver, StopScripts
<1> QED BY <1>1, InductiveInvariant, PTL

\* A finished job is in nobody's hands: no close, timer, cancel, removal or
\* restart changes the outcome it has reported.
LEMMA NextFinal ==
    ASSUME TypeOK, [Next]_vars, NEW j \in JobIds, jobs[j].status \in Finished
    PROVE  jobs'[j].status = jobs[j].status
<1>1. jobs \in [JobIds -> Job \cup {NoJob}] /\ jobs[j] # NoJob /\ jobs[j] \in Job
  BY DEF TypeOK, Finished, NoJob
<1>2. jobs[j].status # "running" /\ j \notin ActiveJob
  BY DEF Finished, ActiveJob, Running
<1>3. ASSUME NEW l \in Launchers, NEW action \in Actions, NEW i \in JobIds,
             StartJob(l, action, i)
      PROVE  jobs'[j].status = jobs[j].status
  BY <1>1, <1>2, <1>3 DEF StartJob
<1>4. ASSUME NEW i \in JobIds, Cancel(i) PROVE jobs'[j].status = jobs[j].status
  BY <1>1, <1>2, <1>4 DEF Cancel, Cancellable
<1>5. ASSUME NEW i \in JobIds, Timeout(i) PROVE jobs'[j].status = jobs[j].status
  BY <1>1, <1>2, <1>5 DEF Timeout, Running
<1>6. ASSUME NEW i \in JobIds, ChildCloses(i) \/ ConnectionLost(i)
      PROVE  jobs'[j].status = jobs[j].status
  <2>1. CASE i = j
    <3>1. \A got : Closed(jobs[j], got).status = jobs[j].status
      BY <1>1, <1>2 DEF Closed, Job
    <3> QED BY <1>1, <1>6, <2>1, <3>1 DEF ChildCloses, ConnectionLost
  <2>2. CASE i # j
    BY <1>1, <1>6, <2>2 DEF ChildCloses, ConnectionLost
  <2> QED BY <2>1, <2>2
<1>7. CASE RemoveSpark
  BY <1>1, <1>2, <1>7 DEF RemoveSpark, Cancellable
<1>8. CASE Restart
  BY <1>1, <1>2, <1>8 DEF Restart, Known, Job
<1>9. ASSUME NEW i \in JobIds,
             \/ StartProgram(i) \/ AttachProgram(i) \/ StopProgram(i) \/ FollowEnds(i)
             \/ StopScriptEnds(i) \/ ProgramNotices(i) \/ ProgramKilled(i) \/ AdriftEnds(i)
      PROVE  jobs'[j].status = jobs[j].status
  <2>1. jobs' = [jobs EXCEPT ![i] = jobs'[i]] /\ jobs'[i].status = jobs[i].status
    BY <1>1, <1>9 DEF StartProgram, AttachProgram, StopProgram, FollowEnds, StopScriptEnds,
       ProgramNotices, ProgramKilled, AdriftEnds, Refuses, Over, Follow, Sent, Known, Job
  <2> QED BY <1>1, <2>1
<1>10. CASE UNCHANGED jobs
  BY <1>10
<1> QED BY <1>3, <1>4, <1>5, <1>6, <1>7, <1>8, <1>9, <1>10
    DEF Next, vars, AskRemove, Remove, ScriptEnds

THEOREM OutcomesAreFinal == Spec => OutcomeIsFinal
<1>1. IInv /\ [Next]_vars =>
        [\A j \in JobIds : jobs[j].status \in Finished =>
           jobs'[j].status = jobs[j].status]_vars
  BY NextFinal DEF IInv
<1> QED BY <1>1, InductiveInvariant, PTL DEF Spec, OutcomeIsFinal
=============================================================================

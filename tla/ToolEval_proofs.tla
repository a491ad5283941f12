--------------------------- MODULE ToolEval_proofs ---------------------------
(***************************************************************************)
(* For any set of runs and any number of events: what is on record of a    *)
(* run is true, an end on record is final, and one tool at most is alive.  *)
(***************************************************************************)
EXTENDS ToolEval, FiniteSetTheorems, TLAPS

\* One run at most is on record as running, which is what startRun asks for.
OneRunning == \A r, s \in Runs : store[r] = "running" /\ store[s] = "running" => r = s

\* Nothing is on the Spark of a run that was not started.
NewIsAbsent == \A r \in Runs : store[r] = "new" => at[r] = "none"

\* A job is about a run that was started. While the program of a started run is
\* on its way, nothing of it is on the Spark, and the index waits for it.
JobInv ==
  /\ job.kind \in {"run", "attach"} => job.run \in Runs /\ store[job.run] # "new"
  /\ job.kind \in {"none", "install"} => job.run = NoRun
  /\ Active /\ job.kind = "run" /\ ~job.reached =>
       /\ at[job.run] = "none"
       /\ job.run \in excused \/ store[job.run] = "running"

\* An answer of the Spark that says how a run has ended stays true, however
\* late it lands; an answer of "no pid" or "alive" does not.
CallsInv ==
  \A c \in calls :
    /\ store[c.run] # "new"
    /\ c.answer \in {"0", "1", "killed"} => at[c.run] = c.answer

\* What is read of the records, the tools and what is excused alone.
RecordInv == OneRunning /\ NewIsAbsent /\ RecordIsTrue

IInv == TypeOK /\ RecordInv /\ JobInv /\ CallsInv

LEMMA NewJobType ==
    /\ NoJob \in Job
    /\ \A kind \in {"none", "run", "attach", "install"}, r \in Runs \union {NoRun} :
         NewJob(kind, r) \in Job
BY DEF NoJob, NewJob, Job

LEMMA CallType ==
    \A op \in {"check", "stop"}, r \in Runs : Call(op, r) \in ShortCall
BY DEF Call, ShortCall

LEMMA RecordFrame ==
    ASSUME RecordInv, UNCHANGED <<store, at, excused>> PROVE RecordInv'
BY DEF RecordInv, OneRunning, NewIsAbsent, RecordIsTrue, AliveIsOnRecord, OutcomeIsTrue, Alive

LEMMA CallsFrame ==
    ASSUME CallsInv, UNCHANGED <<store, at>>,
           \A c \in calls' : c \in calls \/ (store[c.run] # "new" /\ c.answer = "none")
    PROVE  CallsInv'
BY DEF CallsInv

LEMMA JobFrame ==
    ASSUME JobInv, UNCHANGED <<store, at, excused>>,
           \/ /\ job'.kind = job.kind /\ job'.run = job.run
              /\ job'.status = job.status /\ job'.reached = job.reached
           \/ job' = NoJob
    PROVE  JobInv'
BY DEF JobInv, Active, NoJob, NewJob

LEMMA InitInv == Init => IInv
<1> SUFFICES ASSUME Init PROVE IInv
  OBVIOUS
<1>1. TypeOK
  BY ToolEvalAssumption, NewJobType DEF Init, TypeOK, InIndex
<1>2. OneRunning /\ NewIsAbsent /\ CallsInv
  BY DEF Init, OneRunning, NewIsAbsent, CallsInv
<1>3. JobInv
  BY DEF Init, JobInv, Active, NoJob, NewJob
<1>4. RecordIsTrue
  BY DEF Init, RecordIsTrue, AliveIsOnRecord, OutcomeIsTrue, Alive
<1> QED BY <1>1, <1>2, <1>3, <1>4 DEF IInv, RecordInv

LEMMA StutterStep == ASSUME IInv, UNCHANGED vars PROVE IInv'
<1>1. TypeOK'
  BY DEF vars, IInv, TypeOK, InIndex
<1> QED BY <1>1, RecordFrame, CallsFrame, JobFrame DEF vars, IInv

\* A step that starts no job and touches no tool and no record: it changes what
\* the job remembers, the calls, or what is read.
LEMMA JobStep ==
    ASSUME IInv, TypeOK', UNCHANGED <<store, at, excused>>,
           job' \in {job, Cancelled, NoJob, [job EXCEPT !.stop = TRUE],
                     [job EXCEPT !.printed = TRUE], [job EXCEPT !.killed = "timedOut"]},
           \A c \in calls' : c \in calls \/ (store[c.run] # "new" /\ c.answer = "none")
    PROVE  IInv'
<1>1. \/ /\ job'.kind = job.kind /\ job'.run = job.run
         /\ job'.status = job.status /\ job'.reached = job.reached
      \/ job' = NoJob
  BY DEF Cancelled, IInv, TypeOK, Job
<1> QED BY <1>1, RecordFrame, CallsFrame, JobFrame DEF IInv

LEMMA StartRunStep == ASSUME IInv, NEW r \in Runs, StartRun(r) PROVE IInv'
<1> USE ToolEvalAssumption DEF IInv, RecordInv, TypeOK, StartRun, MayStart, NewJob, Outcomes
<1>1. TypeOK'
  BY NewJobType DEF InIndex
<1>2. OneRunning'
  BY DEF OneRunning
<1>3. NewIsAbsent'
  BY DEF NewIsAbsent
<1>4. JobInv'
  BY DEF JobInv, NewIsAbsent, Active
<1>5. CallsInv'
  BY DEF CallsInv
<1>6. RecordIsTrue'
  BY DEF RecordIsTrue, AliveIsOnRecord, OutcomeIsTrue, NewIsAbsent, Alive
<1> QED BY <1>1, <1>2, <1>3, <1>4, <1>5, <1>6

\* The two other ways to start a job leave the records alone.
LEMMA AttachRunStep == ASSUME IInv, NEW r \in Runs, AttachRun(r) PROVE IInv'
<1>1. TypeOK'
  BY ToolEvalAssumption, NewJobType DEF IInv, TypeOK, AttachRun, Happens, InIndex
<1>2. JobInv'
  BY DEF AttachRun, NewJob, JobInv, Active, InIndex
<1> QED BY <1>1, <1>2, RecordFrame, CallsFrame DEF IInv, AttachRun

LEMMA InstallStep == ASSUME IInv, Install PROVE IInv'
<1>1. TypeOK'
  BY ToolEvalAssumption, NewJobType DEF IInv, TypeOK, Install, Happens, InIndex
<1>2. JobInv'
  BY DEF Install, NewJob, JobInv, Active
<1> QED BY <1>1, <1>2, RecordFrame, CallsFrame DEF IInv, Install

\* What the end of a job may know of a run: a reported exit code is the run's own.
LEMMA FinishStep ==
    ASSUME IInv, Active, NEW how \in {"reported", "lost", "error"}, NEW exit \in {"0", "1", "none"},
           Finish(how, exit), events' \in 0 .. MaxEvents,
           how # "reported" => exit = "none",
           how = "error" => ~job.reached,
           job.kind \in {"run", "attach"} =>
             /\ exit = "0" => at[job.run] = "0"
             /\ how = "reported" /\ at[job.run] = "0" => exit = "0"
             /\ exit = "1" => at[job.run] \in {"none", "1"}
             /\ how = "reported" => at[job.run] # "running"
             /\ how = "reported" /\ job.kind = "run" => ~Alive(job.run)
    PROVE  IInv'
<1> DEFINE status == Outcome(how, exit)
           r == job.run
           final == FinalStatus(status, exit, store[r])
<1>1. status \in {"cancelled", "detached"} \union Outcomes
  BY DEF Outcome, Outcomes
<1>2. job' = [NewJob(job.kind, r) EXCEPT !.status = status] /\ UNCHANGED <<results, at, calls>>
  BY DEF Finish
<1>3. NewJob(job.kind, r) \in Job
  BY NewJobType DEF IInv, TypeOK, Job
<1>4. job' \in Job /\ job'.kind = job.kind /\ job'.run = job.run /\ job'.status = status
  BY <1>1, <1>2, <1>3 DEF Job, NewJob
<1>5. status # "running"
  BY <1>1 DEF Outcomes
<1>6. CASE ~Reported(status)
  <2>1. UNCHANGED <<store, reading, excused>>
    BY <1>6 DEF Finish
  <2>2. TypeOK'
    BY <1>2, <1>4, <1>5, <2>1 DEF IInv, TypeOK, InIndex
  <2>3. JobInv'
    BY <1>2, <1>4, <1>5, <2>1 DEF IInv, JobInv, Active
  <2> QED BY <1>2, <1>4, <1>5, <2>1, <2>2, <2>3, RecordFrame, CallsFrame DEF IInv
<1>7. CASE Reported(status)
  <2>1. /\ r \in Runs /\ store[r] \notin {"new", "deleted"} /\ job.kind \in {"run", "attach"}
        /\ store' = [store EXCEPT ![r] = final]
        /\ reading' = reading \union {r}
        /\ excused' = excused \union IF final # store[r] /\ Guesses(how) THEN {r} ELSE {}
        /\ final \in {store[r]} \union Outcomes
    <3>1. r \in Runs /\ store[r] \notin {"new", "deleted"}
      BY <1>7 DEF Reported, InIndex
    <3>2. job.kind \in {"run", "attach"}
      BY <3>1, ToolEvalAssumption DEF IInv, JobInv, TypeOK, Job
    <3>3. final \in {store[r]} \union Outcomes
      BY DEF FinalStatus, Outcomes
    <3> QED BY <1>7, <3>1, <3>2, <3>3 DEF Finish
  <2>2. TypeOK'
    BY <1>2, <1>4, <1>5, <2>1 DEF IInv, TypeOK, InIndex, Outcomes
  <2>3. JobInv'
    BY <1>2, <1>4, <1>5, <2>1 DEF IInv, JobInv, Active, Outcomes, TypeOK
  <2>4. \A s \in Runs : /\ store'[s] = "running" => store[s] = "running"
                        /\ store'[s] = "new" <=> store[s] = "new"
    BY <1>2, <1>4, <1>5, <2>1 DEF IInv, Outcomes, TypeOK
  <2>5. OneRunning' /\ NewIsAbsent'
    BY <1>2, <1>4, <1>5, <2>4 DEF IInv, RecordInv, OneRunning, NewIsAbsent
  <2>6. CallsInv'
    BY <1>2, <1>4, <1>5, <2>4 DEF IInv, CallsInv, TypeOK, ShortCall
  <2>7. r \notin excused' /\ final # store[r] =>
          /\ ~Alive(r)
          /\ final = "completed" => at[r] = "0"
          /\ final = "failed" => at[r] \in {"none", "1"}
          /\ final = "stopped" => at[r] \in {"none", "1", "killed"}
    <3> SUFFICES ASSUME r \notin excused', final # store[r]
                 PROVE  /\ ~Alive(r)
                        /\ final = "completed" => at[r] = "0"
                        /\ final = "failed" => at[r] \in {"none", "1"}
                        /\ final = "stopped" => at[r] \in {"none", "1", "killed"}
      OBVIOUS
    <3>1. /\ ~Guesses(how) /\ status # "detached"
          /\ ~(job.kind = "attach" /\ job.killed = "cancelled")
          /\ job.killed \in {"no", "cancelled", "timedOut"}
          /\ at[r] \in {"none", "unrecorded", "running", "0", "1", "killed"}
      BY <1>7, <2>1 DEF Reported, IInv, TypeOK, Job
    <3>3. CASE how # "reported"
      <4>1. exit = "none"
        BY <3>3
      <4>2. CASE job.kind = "run" /\ ~job.reached
        BY <2>1, <4>1, <4>2 DEF IInv, JobInv, FinalStatus, Alive
      <4>3. CASE how = "lost" /\ ~(job.kind = "run" /\ ~job.reached)
        <5>1. CASE job.killed = "no"
          BY <2>1, <3>1, <4>1, <4>3, <5>1 DEF Guesses, Outcome
        <5>2. CASE job.killed # "no"
          <6>1. status = "cancelled"
            BY <3>1, <4>1, <4>3, <5>2 DEF Outcome
          <6> QED BY <4>1, <6>1 DEF FinalStatus
        <5> QED BY <5>1, <5>2
      <4>4. how # "error" \/ (job.kind = "run" /\ ~job.reached)
        BY <2>1, <3>1 DEF Guesses
      <4> QED BY <3>3, <4>2, <4>3, <4>4
    <3>4. CASE how = "reported"
      <4>1. exit = "0" \/ exit = "1" \/ exit = "none"
        OBVIOUS
      <4>2. status = "failed" => exit # "none"
        BY <2>1, <3>4 DEF Outcome
      <4>3. status = "stopped" => exit # "0"
        BY <2>1, <3>4 DEF Outcome
      <4>4. status # "detached"
        BY <1>7 DEF Reported
      <4>5. final = "completed" => exit = "0"
        BY <3>4, <4>1, <4>2 DEF FinalStatus
      <4>6. final = "failed" => exit \in {"1", "none"}
        BY <3>4, <4>1 DEF FinalStatus
      <4>7. final = "failed" => exit = "1"
        BY <3>4, <4>1, <4>2, <4>6 DEF FinalStatus
      <4>8. final = "stopped" => status = "stopped"
        BY <4>1, <4>2 DEF FinalStatus
      <4>9. final = "stopped" => at[r] # "0"
        BY <2>1, <3>4, <4>3, <4>8
      <4>10. ~Alive(r)
        <5>1. CASE job.kind = "run"
          BY <3>4, <5>1
        <5>2. CASE job.kind = "attach"
          <6>1. ASSUME at[r] = "unrecorded" PROVE FALSE
            <7>1. exit = "none" /\ ~job.stop
              BY <2>1, <3>1, <3>4, <4>1, <6>1 DEF Guesses
            <7> QED BY <3>1, <3>4, <5>2, <7>1 DEF Outcome
          <6> QED BY <2>1, <3>4, <6>1 DEF Alive
        <5> QED BY <2>1, <5>1, <5>2
      <4> QED BY <2>1, <3>1, <4>5, <4>7, <4>9, <4>10 DEF Alive
    <3> QED BY <3>3, <3>4
  <2>8. RecordIsTrue'
    <3>1. ASSUME NEW s \in Runs \ excused'
          PROVE  /\ Alive(s)' => store'[s] = "running"
                 /\ store'[s] = "completed" => at'[s] = "0"
                 /\ store'[s] = "failed" => at'[s] \in {"none", "1"}
                 /\ store'[s] = "stopped" => at'[s] \in {"none", "1", "killed"}
      <4>1. s \in Runs \ excused /\ at'[s] = at[s] /\ (Alive(s)' <=> Alive(s))
        BY <1>2, <1>4, <1>5, <2>1 DEF Alive
      <4>2. CASE store'[s] = store[s]
        BY <4>1, <4>2 DEF IInv, RecordInv, RecordIsTrue, AliveIsOnRecord, OutcomeIsTrue
      <4>3. CASE store'[s] # store[s]
        BY <2>1, <2>7, <4>1, <4>3 DEF IInv, TypeOK
      <4> QED BY <4>2, <4>3
    <3> QED BY <3>1 DEF RecordIsTrue, AliveIsOnRecord, OutcomeIsTrue
  <2> QED BY <2>2, <2>3, <2>5, <2>6, <2>8 DEF IInv, RecordInv
<1> QED BY <1>6, <1>7

LEMMA ReportsStep == ASSUME IInv, Reports PROVE IInv'
<1>1. events' \in 0 .. MaxEvents /\ Active /\ job.kind \in {"run", "attach", "install"}
  BY DEF Reports, IInv, TypeOK
<1>2. job.kind \in {"run", "attach"} => job.run \in Runs
  BY DEF IInv, JobInv
<1>3. CASE job.kind = "run"
  BY <1>1, <1>2, <1>3, FinishStep DEF Reports, IInv, TypeOK, Alive, Exit
<1>4. CASE job.kind = "attach"
  BY <1>1, <1>2, <1>4, FinishStep DEF Reports, Exit
<1>5. CASE job.kind = "install"
  BY <1>1, <1>5, FinishStep DEF Reports
<1> QED BY <1>1, <1>3, <1>4, <1>5

LEMMA LostStep == ASSUME IInv, Lost PROVE IInv'
<1>1. events' \in 0 .. MaxEvents
  BY ToolEvalAssumption DEF Lost, Happens, IInv, TypeOK
<1> QED BY <1>1, FinishStep DEF Lost

LEMMA KilledClosesStep == ASSUME IInv, KilledCloses PROVE IInv'
<1>1. events' \in 0 .. MaxEvents
  BY DEF KilledCloses, IInv, TypeOK
<1> QED BY <1>1, FinishStep DEF KilledCloses

LEMMA PrintsStep == ASSUME IInv, Prints PROVE IInv'
<1>1. TypeOK'
  BY DEF Prints, IInv, TypeOK, Job, InIndex
<1> QED BY <1>1, JobStep DEF Prints

LEMMA CancelWatchStep == ASSUME IInv, CancelWatch PROVE IInv'
<1>1. TypeOK'
  BY ToolEvalAssumption DEF CancelWatch, Cancelled, Happens, IInv, TypeOK, Job, InIndex
<1> QED BY <1>1, JobStep DEF CancelWatch

LEMMA TimesOutStep == ASSUME IInv, TimesOut PROVE IInv'
<1>1. TypeOK'
  BY DEF TimesOut, IInv, TypeOK, Job, InIndex
<1> QED BY <1>1, JobStep DEF TimesOut

LEMMA RefreshStep == ASSUME IInv, NEW r \in Runs, Refresh(r) PROVE IInv'
<1>1. calls' \subseteq ShortCall
  BY CallType DEF Refresh, IInv, TypeOK
<1>2. TypeOK'
  BY <1>1, ToolEvalAssumption DEF Refresh, Call, Happens, IInv, TypeOK, InIndex
<1> QED BY <1>2, JobStep DEF Refresh, Call, InIndex

LEMMA StopRunStep == ASSUME IInv, NEW r \in Runs, StopRun(r) PROVE IInv'
<1>1. calls' \subseteq ShortCall
  BY CallType DEF StopRun, IInv, TypeOK
<1>2. job' \in Job /\ events' \in 0 .. MaxEvents
  <2>1. job' \in {job, [job EXCEPT !.stop = TRUE]}
    BY DEF StopRun
  <2>2. job' \in Job
    BY <2>1 DEF IInv, TypeOK, Job
  <2> QED BY <2>2, ToolEvalAssumption DEF StopRun, Happens, IInv, TypeOK
<1>3. TypeOK'
  BY <1>1, <1>2 DEF StopRun, IInv, TypeOK, InIndex
<1> QED BY <1>3, JobStep DEF StopRun, Call, InIndex

LEMMA ReadResultStep == ASSUME IInv, NEW r \in Runs, ReadResult(r) PROVE IInv'
<1>1. TypeOK'
  BY ToolEvalAssumption DEF ReadResult, Happens, IInv, TypeOK, InIndex
<1> QED BY <1>1, JobStep DEF ReadResult

LEMMA CapturesStep == ASSUME IInv, NEW r \in Runs, Captures(r) PROVE IInv'
<1>1. TypeOK'
  BY DEF Captures, Keeps, IInv, TypeOK, InIndex
<1> QED BY <1>1, JobStep DEF Captures

LEMMA RestartStep == ASSUME IInv, Restart PROVE IInv'
<1>1. TypeOK'
  BY ToolEvalAssumption, NewJobType DEF Restart, Happens, IInv, TypeOK, InIndex
<1> QED BY <1>1, JobStep DEF Restart

\* A step of the tool of one run.
LEMMA ToolStep ==
    ASSUME IInv, NEW r \in Runs, NEW tool \in {"none", "unrecorded", "running", "0", "1", "killed"},
           Becomes(r, tool), UNCHANGED <<store, results, reading, excused>>,
           store[r] # "new", ~Over(r),
           calls' \subseteq calls, events' \in 0 .. MaxEvents,
           \/ job' = job
              /\ (job.run = r /\ Active /\ job.kind = "run" => job.reached)
           \/ job' = [job EXCEPT !.reached = TRUE] /\ job.run = r,
           r \in excused \/ store[r] = "running"
    PROVE  IInv'
<1>1. at' = [at EXCEPT ![r] = tool]
  BY DEF Becomes
<1>2. TypeOK'
  BY <1>1 DEF IInv, TypeOK, Job, InIndex
<1>3. JobInv'
  BY <1>1 DEF IInv, JobInv, TypeOK, Job, Active
<1>4. OneRunning' /\ NewIsAbsent'
  BY <1>1 DEF IInv, RecordInv, OneRunning, NewIsAbsent, TypeOK
<1>5. CallsInv'
  BY <1>1 DEF IInv, CallsInv, TypeOK, ShortCall, Over
<1>6. RecordIsTrue'
  BY <1>1 DEF IInv, RecordInv, RecordIsTrue, AliveIsOnRecord, OutcomeIsTrue, TypeOK, Alive
<1> QED BY <1>2, <1>3, <1>4, <1>5, <1>6 DEF IInv, RecordInv

LEMMA ArrivesStep == ASSUME IInv, Arrives PROVE IInv'
<1>1. /\ job.run \in Runs /\ store[job.run] # "new" /\ at[job.run] = "none"
      /\ job.run \in excused \/ store[job.run] = "running"
  BY DEF Arrives, IInv, JobInv
<1> QED BY <1>1, ToolStep DEF Arrives, Over, IInv, TypeOK

\* What is alive was started, and is on record as running.
LEMMA AliveStep ==
    ASSUME IInv, NEW r \in Runs, NEW tool \in {"running", "0", "1", "killed"}, Alive(r),
           Becomes(r, tool), UNCHANGED <<store, results, job, reading, excused>>,
           calls' \subseteq calls, events' \in 0 .. MaxEvents
    PROVE  IInv'
<1>1. ~Over(r) /\ store[r] # "new" /\ (r \in excused \/ store[r] = "running")
  BY DEF Alive, Over, IInv, RecordInv, NewIsAbsent, RecordIsTrue, AliveIsOnRecord
<1>2. job.run = r /\ Active /\ job.kind = "run" => job.reached
  BY DEF Alive, IInv, JobInv
<1> QED BY <1>1, <1>2, ToolStep

LEMMA WritesPidStep == ASSUME IInv, NEW r \in Runs, WritesPid(r) PROVE IInv'
BY AliveStep DEF WritesPid, Alive, IInv, TypeOK

LEMMA ToolEndsStep == ASSUME IInv, NEW r \in Runs, ToolEnds(r) PROVE IInv'
BY AliveStep DEF ToolEnds, IInv, TypeOK

LEMMA ToolDiesStep == ASSUME IInv, NEW r \in Runs, ToolDies(r) PROVE IInv'
<1>1. events' \in 0 .. MaxEvents
  BY ToolEvalAssumption DEF ToolDies, Happens, IInv, TypeOK
<1> QED BY <1>1, AliveStep DEF ToolDies, Alive

\* An answer is put in place of a call that waits for one.
LEMMA AnswersStep == ASSUME IInv, NEW c \in calls, Answers(c) PROVE IInv'
<1>1. c \in ShortCall /\ c.run \in Runs /\ c.answer = "none"
  BY DEF Answers, IInv, TypeOK, ShortCall
<1>2. CASE c.op = "check"
  <2>1. PICK answer \in {Printed(c.run), "unknown"} : calls' = Replaced(c, answer)
    BY <1>2 DEF Answers
  <2>2. UNCHANGED <<at, store, results, job, reading, excused, events>>
    BY <1>2 DEF Answers
  <2>3. /\ answer \in {"alive", "0", "1", "killed", "no pid", "unknown"}
        /\ answer \in {"0", "1", "killed"} => at[c.run] = answer
    BY <1>1 DEF Printed, Over, IInv, TypeOK
  <2> DEFINE d == [c EXCEPT !.answer = answer]
  <2>4. d \in ShortCall /\ d.run = c.run /\ d.answer = answer
    BY <1>1, <2>3 DEF ShortCall
  <2>5. TypeOK'
    BY <2>1, <2>2, <2>4 DEF Replaced, IInv, TypeOK, InIndex
  <2>6. CallsInv'
    BY <2>1, <2>2, <2>3, <2>4 DEF Replaced, IInv, CallsInv
  <2> QED BY <2>2, <2>5, <2>6, RecordFrame, JobFrame DEF IInv
<1>3. CASE c.op = "stop" /\ Becomes(c.run, "killed") /\ at[c.run] = "running"
  BY <1>1, <1>3, AliveStep DEF Answers, Alive, IInv, TypeOK
<1>4. CASE c.op = "stop" /\ UNCHANGED at
  <2>1. calls' = calls \ {c} /\ UNCHANGED <<at, store, results, job, reading, excused, events>>
    BY <1>4 DEF Answers
  <2>2. TypeOK'
    BY <2>1 DEF IInv, TypeOK, InIndex
  <2> QED BY <2>1, <2>2, JobStep
<1> QED BY <1>1, <1>2, <1>3, <1>4 DEF Answers, ShortCall

\* A check that lands on a run that is still on record as running settles it.
LEMMA CheckLandsStep == ASSUME IInv, NEW c \in calls, CheckLands(c) PROVE IInv'
<1> DEFINE r == c.run
           final == StatusOf(c.answer)
<1>1. c \in ShortCall /\ r \in Runs
  BY DEF IInv, TypeOK, ShortCall
<1>2. calls' \subseteq calls
  BY DEF CheckLands
<1>3. UNCHANGED <<results, job, at, events>>
  BY DEF CheckLands
<1>4. CASE ~Settles(c)
  <2>1. UNCHANGED <<store, reading, excused>> /\ calls' \subseteq calls
    BY <1>4 DEF CheckLands
  <2>2. TypeOK'
    BY <1>1, <1>3, <2>1 DEF IInv, TypeOK, InIndex
  <2> QED BY <1>3, <2>1, <2>2, JobStep
<1>5. CASE Settles(c)
  <2>1. /\ store[r] = "running" /\ store' = [store EXCEPT ![r] = final]
        /\ reading' = reading \union {r} /\ final \in Outcomes
        /\ excused \subseteq excused' /\ excused' \subseteq Runs
        /\ c.answer \in {"0", "1", "killed"} \/ r \in excused'
    BY <1>1, <1>5 DEF CheckLands, Settles, Ended, StatusOf, Outcomes, IInv, TypeOK
  <2>2. TypeOK'
    BY <1>1, <1>2, <1>3, <2>1 DEF IInv, TypeOK, InIndex, Outcomes
  <2>3. c.answer \in {"0", "1", "killed"} => at[r] = c.answer
    BY DEF IInv, CallsInv
  <2>4. \A s \in Runs : /\ store'[s] = "running" => store[s] = "running"
                        /\ store'[s] = "new" <=> store[s] = "new"
                        /\ s = r \/ store'[s] = store[s]
    BY <1>1, <2>1 DEF IInv, Outcomes, TypeOK
  <2>5. store'[r] = final
    BY <1>1, <2>1 DEF IInv, TypeOK
  <2>6. OneRunning' /\ NewIsAbsent'
    BY <1>3, <2>4 DEF IInv, RecordInv, OneRunning, NewIsAbsent
  <2>7. CallsInv'
    <3>1. \A x \in calls : x.run \in Runs
      BY DEF IInv, TypeOK, ShortCall
    <3>2. ASSUME NEW x \in calls'
          PROVE  /\ store'[x.run] # "new"
                 /\ x.answer \in {"0", "1", "killed"} => at[x.run] = x.answer
      BY <1>2, <2>4, <3>1 DEF IInv, CallsInv
    <3> QED BY <1>3, <3>2 DEF CallsInv
  <2>8. JobInv'
    <3>1. job.kind \in {"run", "attach"} => job.run \in Runs /\ store'[job.run] # "new"
      BY <2>4 DEF IInv, JobInv
    <3>2. Active /\ job.kind = "run" /\ ~job.reached =>
            at[job.run] = "none" /\ (job.run \in excused' \/ store'[job.run] = "running")
      BY <1>1, <2>1, <2>3, <2>4 DEF IInv, JobInv
    <3> QED BY <1>3, <3>1, <3>2 DEF IInv, JobInv, Active
  <2>9. RecordIsTrue'
    <3>1. ASSUME NEW s \in Runs \ excused', s # r
          PROVE  s \in Runs \ excused /\ store'[s] = store[s]
      BY <2>1, <2>4, <3>1
    <3>2. r \notin excused' =>
            /\ ~Alive(r)
            /\ final = "completed" => at[r] = "0"
            /\ final = "failed" => at[r] \in {"none", "1"}
            /\ final = "stopped" => at[r] \in {"none", "1", "killed"}
      BY <2>1, <2>3 DEF StatusOf, Alive
    <3> QED BY <1>3, <2>5, <3>1, <3>2
            DEF IInv, RecordInv, RecordIsTrue, AliveIsOnRecord, OutcomeIsTrue, Alive
  <2> QED BY <2>2, <2>6, <2>7, <2>8, <2>9 DEF IInv, RecordInv
<1> QED BY <1>4, <1>5

\* Runs that leave the index: given up, over, or not on record as running.
LEMMA ForgetStep ==
    ASSUME IInv, NEW S \in SUBSET Runs, Forget(S), UNCHANGED <<at, reading>>,
           job' \in {job, Cancelled, NoJob}, calls' \subseteq calls,
           events' \in 0 .. MaxEvents, excused \subseteq excused', excused' \subseteq Runs,
           \A r \in S : store[r] # "new" /\ (r \in excused' \/ store[r] # "running" \/ Over(r))
    PROVE  IInv'
<1>1. \A s \in Runs : /\ s \in S => store'[s] = "deleted"
                      /\ s \notin S => store'[s] = store[s]
  BY DEF Forget
<1>2. store' \in [Runs -> {"new", "running", "deleted"} \union Outcomes] /\ results' = results \ S
  BY DEF Forget, IInv, TypeOK
<1>3. job' \in Job
      /\ (\/ /\ job'.kind = job.kind /\ job'.run = job.run
             /\ job'.status = job.status /\ job'.reached = job.reached
          \/ job' = NoJob)
  BY NewJobType DEF Cancelled, IInv, TypeOK, Job
<1>4. TypeOK'
  BY <1>1, <1>2, <1>3 DEF IInv, TypeOK, InIndex
<1>5. OneRunning' /\ NewIsAbsent' /\ CallsInv'
  <2>1. \A x \in calls : x.run \in Runs
    BY DEF IInv, TypeOK, ShortCall
  <2>2. OneRunning' /\ NewIsAbsent'
    BY <1>1 DEF IInv, RecordInv, OneRunning, NewIsAbsent
  <2>3. CallsInv'
    BY <1>1, <2>1 DEF IInv, CallsInv
  <2> QED BY <2>2, <2>3
<1>6. RecordIsTrue'
  <2>1. ASSUME NEW s \in S, s \notin excused' PROVE ~Alive(s)
    BY <2>1 DEF Alive, Over, IInv, RecordInv, RecordIsTrue, AliveIsOnRecord
  <2> QED BY <1>1, <2>1 DEF IInv, RecordInv, RecordIsTrue, AliveIsOnRecord, OutcomeIsTrue, Alive
<1>7. JobInv'
  <2>1. job.kind \in {"run", "attach"} => job.run \in Runs /\ store'[job.run] # "new"
    BY <1>1 DEF IInv, JobInv
  <2>2. Active /\ job.kind = "run" /\ ~job.reached =>
          at[job.run] = "none" /\ (job.run \in excused' \/ store'[job.run] = "running")
    BY <1>1 DEF IInv, JobInv, Over
  <2> QED BY <1>3, <2>1, <2>2 DEF IInv, JobInv, Active, NoJob, NewJob
<1> QED BY <1>4, <1>5, <1>6, <1>7 DEF IInv, RecordInv

LEMMA EvictedStep == ASSUME IInv, NEW r \in Runs, Evicted(r) PROVE IInv'
<1>1. events' \in 0 .. MaxEvents /\ r \in Runs /\ store[r] # "new"
  BY ToolEvalAssumption DEF Evicted, Happens, IInv, TypeOK, InIndex
<1> QED BY <1>1, ForgetStep DEF Evicted, IInv, TypeOK

LEMMA RemoveSparkStep == ASSUME IInv, RemoveSpark PROVE IInv'
<1>1. events' \in 0 .. MaxEvents /\ InIndex \subseteq Runs /\ \A r \in InIndex : store[r] # "new"
  BY ToolEvalAssumption DEF RemoveSpark, Happens, IInv, TypeOK, InIndex
<1> QED BY <1>1, ForgetStep DEF RemoveSpark, IInv, TypeOK

LEMMA RequestDeleteStep == ASSUME IInv, NEW r \in Runs, RequestDelete(r) PROVE IInv'
<1>1. events' \in 0 .. MaxEvents /\ store[r] # "new"
  BY ToolEvalAssumption DEF RequestDelete, Happens, IInv, TypeOK, InIndex
<1>2. /\ Forget({r}) /\ job' \in {job, Cancelled}
      /\ excused' = excused \union IF store[r] = "running" THEN {r} ELSE {}
      /\ UNCHANGED <<at, calls, reading>>
  BY DEF RequestDelete
<1> QED BY <1>1, <1>2, ForgetStep DEF IInv, TypeOK

LEMMA NextInv == IInv /\ [Next]_vars => IInv'
<1> SUFFICES ASSUME IInv, [Next]_vars PROVE IInv'
  OBVIOUS
<1>1. ASSUME NEW r \in Runs, User(r) PROVE IInv'
  BY <1>1, StartRunStep, AttachRunStep, StopRunStep, RefreshStep, ReadResultStep,
     RequestDeleteStep DEF User
<1>2. ASSUME NEW r \in Runs, WritesPid(r) \/ ToolEnds(r) \/ ToolDies(r) \/ Captures(r) \/ Evicted(r)
      PROVE  IInv'
  BY <1>2, WritesPidStep, ToolEndsStep, ToolDiesStep, CapturesStep, EvictedStep
<1>3. ASSUME NEW c \in calls, Answers(c) \/ CheckLands(c) PROVE IInv'
  BY <1>3, AnswersStep, CheckLandsStep
<1>4. ASSUME Install \/ CancelWatch \/ TimesOut \/ KilledCloses \/ Prints \/ Arrives PROVE IInv'
  BY <1>4, InstallStep, CancelWatchStep, TimesOutStep, KilledClosesStep, PrintsStep, ArrivesStep
<1>5. ASSUME Reports \/ Lost \/ RemoveSpark \/ Restart PROVE IInv'
  BY <1>5, ReportsStep, LostStep, RemoveSparkStep, RestartStep
<1>6. CASE UNCHANGED vars
  BY <1>6, StutterStep
<1> QED BY <1>1, <1>2, <1>3, <1>4, <1>5, <1>6 DEF Next

LEMMA Invariance == Spec => []IInv
BY InitInv, NextInv, PTL DEF Spec

\* The types of the variables; no result is cached of a run that is not in the index.
THEOREM TypeCorrect == Spec => []TypeOK
<1>1. IInv => TypeOK
  BY DEF IInv
<1> QED BY <1>1, Invariance, PTL

\* What is on record of a run is true, for any number of runs, however late the
\* answers of the Spark land: a tool that is alive is on record as running, and
\* an end on record is how the run ended. Excused are the ends _finish guesses,
\* a check while no pid is recorded, and runs that leave the index while they
\* are on record as running, as every DELETE of a live run makes them.
THEOREM RecordsAreTrue == Spec => []RecordIsTrue
<1>1. IInv => RecordIsTrue
  BY DEF IInv, RecordInv
<1> QED BY <1>1, Invariance, PTL

\* startRun asks the index only, and that is enough: at most one tool is alive.
THEOREM OneToolAtATime == Spec => []OneTool
<1>1. ASSUME IInv PROVE OneTool
  <2> DEFINE T == {r \in Runs \ excused : Alive(r)}
  <2>1. \A r, s \in T : r = s
    BY <1>1 DEF IInv, RecordInv, RecordIsTrue, AliveIsOnRecord, OneRunning
  <2>2. CASE T = {}
    BY <2>2, FS_EmptySet DEF OneTool
  <2>3. CASE \E r : T = {r}
    BY <2>3, FS_Singleton DEF OneTool
  <2> QED BY <2>1, <2>2, <2>3
<1> QED BY <1>1, Invariance, PTL

\* An outcome that was not guessed is not taken back by any step.
OutcomeKept(r) ==
  /\ store[r] = "completed" => store'[r] \in {"completed", "deleted"}
  /\ store[r] \in Outcomes => store'[r] # "running"
  /\ store[r] = "deleted" => store'[r] = "deleted"

\* A watch that ends on a run whose end is on record finds that same end.
LEMMA FinishKeeps ==
    ASSUME IInv, NEW how \in {"reported", "lost", "error"}, NEW exit \in {"0", "1", "none"},
           Active, Finish(how, exit), NEW s \in Runs \ excused',
           how # "reported" => exit = "none",
           how = "error" => ~job.reached,
           how = "reported" /\ job.kind \in {"run", "attach"} => (at[job.run] = "0" => exit = "0")
    PROVE  OutcomeKept(s)
<1> DEFINE status == Outcome(how, exit)
           r == job.run
           final == FinalStatus(status, exit, store[r])
<1>1. CASE ~Reported(status)
  BY <1>1 DEF Finish, OutcomeKept, Outcomes
<1>2. CASE Reported(status)
  <2>1. /\ r \in Runs /\ store[r] \notin {"new", "deleted"}
        /\ store' = [store EXCEPT ![r] = final]
        /\ excused' = excused \union IF final # store[r] /\ Guesses(how) THEN {r} ELSE {}
        /\ final \in {store[r]} \union Outcomes
    BY <1>2 DEF Finish, Reported, InIndex, FinalStatus, Outcomes
  <2>2. CASE s # r
    BY <2>1, <2>2 DEF OutcomeKept, Outcomes, IInv, TypeOK
  <2>3. CASE s = r /\ store[r] = "completed"
    <3>1. at[r] = "0"
      BY <2>1, <2>3 DEF IInv, RecordInv, RecordIsTrue, OutcomeIsTrue
    <3>2. job.kind \in {"run", "attach"}
      BY <2>1, ToolEvalAssumption DEF IInv, JobInv, TypeOK, Job
    <3>3. CASE how = "reported"
      BY <2>1, <2>3, <3>1, <3>2, <3>3 DEF Outcome, FinalStatus, OutcomeKept, Outcomes, IInv, TypeOK
    <3>4. CASE how # "reported" /\ job.kind = "run" /\ ~job.reached
      BY <2>1, <3>1, <3>4 DEF IInv, JobInv
    <3>5. CASE how # "reported" /\ ~(job.kind = "run" /\ ~job.reached)
      <4>1. final = store[r] \/ ~Guesses(how)
        BY <2>1, <2>3
      <4>2. final = store[r]
        <5>1. ASSUME ~Guesses(how) PROVE final = store[r]
          <6>1. /\ exit = "none" /\ status # "detached"
                /\ job.killed \in {"no", "cancelled", "timedOut"}
            BY <1>2, <3>5 DEF Reported, IInv, TypeOK, Job
          <6>2. how = "lost"
            BY <3>2, <3>5, <5>1 DEF Guesses
          <6>3. CASE job.killed = "no"
            BY <3>2, <3>5, <5>1, <6>1, <6>2, <6>3 DEF Guesses, Outcome
          <6>4. CASE job.killed # "no"
            <7>1. status = "cancelled"
              BY <6>1, <6>2, <6>4 DEF Outcome
            <7> QED BY <6>1, <7>1 DEF FinalStatus
          <6> QED BY <6>3, <6>4
        <5> QED BY <4>1, <5>1
      <4> QED BY <2>1, <2>3, <4>2 DEF OutcomeKept, Outcomes, IInv, TypeOK
    <3> QED BY <3>3, <3>4, <3>5
  <2>4. CASE s = r /\ store[r] # "completed"
    BY <2>1, <2>4 DEF OutcomeKept, Outcomes, IInv, TypeOK
  <2> QED BY <2>2, <2>3, <2>4
<1> QED BY <1>1, <1>2

LEMMA NextKeeps ==
    ASSUME IInv, [Next]_vars, NEW s \in Runs \ excused' PROVE OutcomeKept(s)
<1>0. store[s] \in {"new", "running", "deleted"} \union Outcomes
  BY DEF IInv, TypeOK
<1>1. ASSUME UNCHANGED store PROVE OutcomeKept(s)
  BY <1>0, <1>1 DEF OutcomeKept, Outcomes
<1>2. ASSUME NEW S \in SUBSET Runs, Forget(S) PROVE OutcomeKept(s)
  BY <1>0, <1>2 DEF Forget, OutcomeKept, Outcomes
<1>3. ASSUME NEW r \in Runs, User(r) PROVE OutcomeKept(s)
  <2>1. CASE StartRun(r)
    BY <1>0, <2>1 DEF StartRun, OutcomeKept, Outcomes, IInv, TypeOK
  <2>2. CASE AttachRun(r) \/ StopRun(r) \/ Refresh(r) \/ ReadResult(r)
    BY <1>1, <2>2 DEF AttachRun, StopRun, Refresh, ReadResult
  <2>3. CASE RequestDelete(r)
    BY <1>2, <2>3 DEF RequestDelete
  <2> QED BY <1>3, <2>1, <2>2, <2>3 DEF User
<1>4. ASSUME NEW r \in Runs, WritesPid(r) \/ ToolEnds(r) \/ ToolDies(r) \/ Captures(r) \/ Evicted(r)
      PROVE  OutcomeKept(s)
  BY <1>1, <1>2, <1>4 DEF WritesPid, ToolEnds, ToolDies, Captures, Evicted
<1>5. ASSUME NEW c \in calls, Answers(c) \/ CheckLands(c) PROVE OutcomeKept(s)
  <2>1. c.run \in Runs
    BY DEF IInv, TypeOK, ShortCall
  <2>2. CASE Answers(c)
    BY <1>1, <2>2 DEF Answers
  <2>3. CASE CheckLands(c)
    BY <1>0, <1>1, <2>1, <2>3 DEF CheckLands, Settles, StatusOf, OutcomeKept, Outcomes, IInv, TypeOK
  <2> QED BY <1>5, <2>2, <2>3
<1>6. CASE Install \/ CancelWatch \/ TimesOut \/ Prints \/ Arrives \/ Restart
  BY <1>1, <1>6 DEF Install, CancelWatch, TimesOut, Prints, Arrives, Restart
<1>7. CASE Lost \/ KilledCloses
  BY <1>7, FinishKeeps DEF Lost, KilledCloses
<1>8. CASE Reports
  <2>1. Active /\ job.kind \in {"run", "attach", "install"}
    BY <1>8 DEF Reports
  <2>2. CASE job.kind = "run"
    BY <1>8, <2>1, <2>2, FinishKeeps DEF Reports, Exit
  <2>3. CASE job.kind = "attach"
    BY <1>8, <2>1, <2>3, FinishKeeps DEF Reports, Exit
  <2>4. CASE job.kind = "install"
    BY <1>8, <2>1, <2>4, FinishKeeps DEF Reports
  <2> QED BY <2>1, <2>2, <2>3, <2>4
<1>9. CASE RemoveSpark
  BY <1>2, <1>9 DEF RemoveSpark, InIndex
<1>10. CASE UNCHANGED vars
  BY <1>1, <1>10 DEF vars
<1> QED BY <1>3, <1>4, <1>5, <1>6, <1>7, <1>8, <1>9, <1>10 DEF Next

\* An end on record that was seen, and not guessed, is not taken back by an
\* answer, a lost watch or a second job that lands later.
THEOREM OutcomesAreFinal == Spec => OutcomeIsFinal
<1>1. ASSUME IInv, [Next]_vars
      PROVE  \A r \in Runs \ excused' :
               /\ store[r] = "completed" => store'[r] \in {"completed", "deleted"}
               /\ store[r] \in Outcomes => store'[r] # "running"
               /\ store[r] = "deleted" => store'[r] = "deleted"
  BY <1>1, NextKeeps DEF OutcomeKept
<1> QED BY <1>1, Invariance, PTL DEF Spec, OutcomeIsFinal
=============================================================================

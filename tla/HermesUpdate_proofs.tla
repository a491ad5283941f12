------------------------ MODULE HermesUpdate_proofs ------------------------
(* The status and the update job agree, for any number of monitors,        *)
(* releases, checks and jobs.                                              *)
EXTENDS HermesUpdate, TLAPS

\* Jobs belong to the live monitor or to an earlier one.
JobsKnown ==
    /\ mon \in Nat
    /\ \A j \in jobs : j \in [mon : Nat, nth : Places, stage : Stages, forgotten : BOOLEAN]
    /\ \A j \in jobs : j.mon <= mon

IInv == JobsKnown /\ RunningIsTheJob

\* A step between checks leaves jobs and the running status alone.
LEMMA ChecksKeepJobs ==
    ASSUME IInv, UNCHANGED <<mon, jobs>>, status = "running" <=> status' = "running"
    PROVE  IInv'
BY DEF IInv, JobsKnown, RunningIsTheJob, Mine

\* A job that moves to its next stage keeps its name and its history.
LEMMA StageKeepsJobs ==
    ASSUME IInv, NEW j \in jobs, NEW s \in Stages,
           jobs' = (jobs \ {j}) \cup {[j EXCEPT !.stage = s]}, UNCHANGED <<mon, status>>
    PROVE  IInv'
<1> DEFINE k == [j EXCEPT !.stage = s]
<1>1. /\ k \in [mon : Nat, nth : Places, stage : Stages, forgotten : BOOLEAN]
      /\ k.mon = j.mon /\ k.forgotten = j.forgotten
  BY DEF IInv, JobsKnown
<1>2. jobs' = (jobs \ {j}) \cup {k}
  OBVIOUS
<1> HIDE DEF k
<1>3. JobsKnown'
  BY <1>1, <1>2 DEF IInv, JobsKnown
<1>4. CASE j.mon = mon
  <2>1. Mine' = (Mine \ {j}) \cup {k} /\ j \in Mine
    BY <1>1, <1>2, <1>4 DEF Mine
  <2>2. \A i \in Mine' : ~i.forgotten => status' = "running" /\ Mine' = {i}
    BY <1>1, <2>1 DEF IInv, RunningIsTheJob
  <2> QED
    BY <1>3, <2>1, <2>2 DEF IInv, RunningIsTheJob
<1>5. CASE j.mon # mon
  <2>1. Mine' = Mine
    BY <1>1, <1>2, <1>5 DEF Mine
  <2> QED
    BY <1>3, <2>1 DEF IInv, RunningIsTheJob
<1> QED
  BY <1>4, <1>5

\* A job that ends takes the running status of its own monitor with it; the
\* jobs it leaves behind there are all forgotten ones.
LEMMA EndKeepsJobs ==
    ASSUME IInv, NEW j \in jobs, jobs' = jobs \ {j}, UNCHANGED mon,
           j.mon = mon => status' # "running",
           j.mon # mon => UNCHANGED status
    PROVE  IInv'
<1>1. JobsKnown'
  BY DEF IInv, JobsKnown
<1>2. CASE j.mon = mon
  <2>1. j \in Mine /\ Mine' = Mine \ {j}
    BY <1>2 DEF Mine
  <2>2. \A i \in Mine' : i.forgotten
    BY <2>1 DEF IInv, RunningIsTheJob
  <2> QED
    BY <1>1, <1>2, <2>2 DEF IInv, RunningIsTheJob
<1>3. CASE j.mon # mon
  <2>1. Mine' = Mine
    BY <1>3 DEF Mine
  <2> QED
    BY <1>1, <1>3, <2>1 DEF IInv, RunningIsTheJob
<1> QED
  BY <1>2, <1>3

\* A start is refused beside a job that is not forgotten, for that one shows.
LEMMA StartKeepsJobs ==
    ASSUME IInv, RunHermesUpdate
    PROVE  IInv'
<1>1. PICK n \in Places :
        jobs' = jobs \cup {[mon |-> mon, nth |-> n, stage |-> "update",
                             forgotten |-> \E k \in Mine : k.forgotten]}
  BY DEF RunHermesUpdate
<1> DEFINE b == \E k \in Mine : k.forgotten
<1> DEFINE j == [mon |-> mon, nth |-> n, stage |-> "update", forgotten |-> b]
<1>2. /\ j \in [mon : Nat, nth : Places, stage : Stages, forgotten : BOOLEAN]
      /\ j.mon = mon /\ (j.forgotten <=> \E k \in Mine : k.forgotten)
  BY DEF IInv, JobsKnown, Stages
<1>3. jobs' = jobs \cup {j}
  BY <1>1
<1> HIDE DEF j, b
<1>4. status # "running" /\ status' = "running" /\ mon' = mon
  BY DEF RunHermesUpdate
<1>5. \A k \in Mine : k.forgotten
  BY <1>4 DEF IInv, RunningIsTheJob
<1>6. Mine' = Mine \cup {j}
  BY <1>2, <1>3, <1>4 DEF Mine
<1>7. \A k \in Mine' : ~k.forgotten => k = j /\ Mine = {}
  BY <1>2, <1>5, <1>6
<1>8. JobsKnown'
  BY <1>2, <1>3, <1>4 DEF IInv, JobsKnown
<1>9. RunningIsTheJob'
  BY <1>4, <1>6, <1>7 DEF RunningIsTheJob
<1> QED
  BY <1>8, <1>9 DEF IInv

\* An edit replaces the monitor: no job is the new one's.
LEMMA PatchKeepsJobs ==
    ASSUME IInv, PatchUnit
    PROVE  IInv'
<1>1. mon \in Nat /\ mon' = mon + 1 /\ jobs' = jobs /\ status' = "idle"
      /\ \A j \in jobs : j.mon \in Nat /\ j.mon <= mon
  BY DEF PatchUnit, IInv, JobsKnown
<1>2. \A j \in jobs' : j.mon <= mon' /\ j.mon # mon'
  BY <1>1
<1>3. JobsKnown'
  BY <1>1, <1>2 DEF IInv, JobsKnown
<1>4. Mine' = {}
  BY <1>2 DEF Mine
<1> QED
  BY <1>1, <1>3, <1>4 DEF IInv, RunningIsTheJob

\* A hot edit that switches the probe off makes every job of the monitor a
\* forgotten one.
LEMMA HotEditKeepsJobs ==
    ASSUME IInv, UpdateConfig
    PROVE  IInv'
<1>1. CASE UNCHANGED <<status, jobs>>
  BY <1>1, ChecksKeepJobs DEF UpdateConfig
<1>2. CASE /\ status' = "idle"
           /\ jobs' = (jobs \ Mine) \cup {[j EXCEPT !.forgotten = TRUE] : j \in Mine}
  <2>1. \A j \in jobs : /\ j \in [mon : Nat, nth : Places, stage : Stages, forgotten : BOOLEAN]
                         /\ j.mon <= mon
    BY DEF IInv, JobsKnown
  <2>2. \A j \in Mine : LET k == [j EXCEPT !.forgotten = TRUE]
                        IN /\ k \in [mon : Nat, nth : Places, stage : Stages,
                                      forgotten : BOOLEAN]
                           /\ k.mon = mon /\ k.forgotten
    BY <2>1 DEF Mine
  <2>3. mon' = mon /\ mon \in Nat
    BY DEF UpdateConfig, IInv, JobsKnown
  <2>4. \A k \in jobs' : \/ k \in jobs /\ k \notin Mine
                         \/ /\ k \in [mon : Nat, nth : Places, stage : Stages,
                                       forgotten : BOOLEAN]
                            /\ k.mon = mon /\ k.forgotten
    BY <1>2, <2>2
  <2>5. JobsKnown'
    BY <2>1, <2>3, <2>4 DEF JobsKnown
  <2>6. \A k \in Mine' : k.forgotten
    BY <2>3, <2>4 DEF Mine
  <2> QED
    BY <1>2, <2>5, <2>6 DEF IInv, RunningIsTheJob
<1> QED
  BY <1>1, <1>2 DEF UpdateConfig

\* What the next theorem rests on: IInv is inductive.
THEOREM InductiveInvariant == Spec => []IInv
<1>1. Init => IInv
  BY DEF Init, IInv, JobsKnown, RunningIsTheJob, Mine
<1>2. ASSUME IInv, [Next]_vars
      PROVE  IInv'
  <2>1. CASE (\E by \in {"poll", "request"} : StartCheck(by)) \/ ReleaseComesOut
             \/ UNCHANGED vars
    BY <1>2, <2>1, ChecksKeepJobs DEF StartCheck, ReleaseComesOut, shown, vars
  <2>2. ASSUME NEW c \in checks, CheckLands(c)
        PROVE  IInv'
    BY <1>2, <2>2, ChecksKeepJobs DEF CheckLands, StatusAfterCheck, shown
  <2>3. CASE RunHermesUpdate
    BY <1>2, <2>3, StartKeepsJobs
  <2>4. ASSUME NEW j \in jobs, LaunchFails(j) \/ Retry(j)
        PROVE  IInv'
    BY <1>2, <2>4, StageKeepsJobs DEF LaunchFails, Retry, shown, Stages
  <2>5. ASSUME NEW j \in jobs, UpdateSucceeds(j)
        PROVE  IInv'
    BY <1>2, <2>5, EndKeepsJobs DEF UpdateSucceeds
  <2>6. ASSUME NEW j \in jobs, UpdateFails(j)
        PROVE  IInv'
    BY <1>2, <2>6, EndKeepsJobs DEF UpdateFails, StatusAfterFailure
  <2>7. CASE PatchUnit
    BY <1>2, <2>7, PatchKeepsJobs
  <2>8. CASE UpdateConfig
    BY <1>2, <2>8, HotEditKeepsJobs
  <2> QED
    BY <1>2, <2>1, <2>2, <2>3, <2>4, <2>5, <2>6, <2>7, <2>8 DEF Next
<1> QED
  BY <1>1, <1>2, PTL DEF Spec

\* The status reads "running" only while a job of the live monitor runs, and a
\* job no hot edit has made it forget is its only one and shown as "running".
THEOREM StatusIsTheJob == Spec => []RunningIsTheJob
<1>1. IInv => RunningIsTheJob
  BY DEF IInv
<1> QED
  BY <1>1, InductiveInvariant, PTL

\* A check finds what is installed and what is released.
LEMMA FindingType ==
    ASSUME TypeOK, NEW by \in {"poll", "request", "job"},
           NEW m \in [installed : Releases, released : Releases]
    PROVE  Finding(by, m) \in Check
BY DEF TypeOK, Finding, Check, Releases, Ids

\* One step keeps the types.
LEMMA StepType ==
    ASSUME TypeOK, [Next]_vars
    PROVE  TypeOK'
<1> USE HermesAssumption
<1>1. ASSUME NEW by \in {"poll", "request"}, StartCheck(by)
      PROVE  TypeOK'
  <2>1. Finding(by, machine) \in Check
    BY FindingType DEF TypeOK
  <2> QED
    BY <1>1, <2>1 DEF StartCheck, TypeOK, shown
<1>2. ASSUME NEW c \in checks, CheckLands(c)
      PROVE  TypeOK'
  BY <1>2 DEF CheckLands, StatusAfterCheck, TypeOK, Check, shown
<1>3. ASSUME RunHermesUpdate
      PROVE  TypeOK'
  <2>1. PICK n \in Places :
          jobs' = jobs \cup {[mon |-> mon, nth |-> n, stage |-> "update",
                               forgotten |-> \E k \in Mine : k.forgotten]}
    BY <1>3 DEF RunHermesUpdate
  <2>2. [mon |-> mon, nth |-> n, stage |-> "update",
         forgotten |-> \E k \in Mine : k.forgotten] \in Job
    BY DEF TypeOK, Job, Stages
  <2>3. jobs' \subseteq Job
    BY <2>1, <2>2 DEF TypeOK
  <2> QED
    BY <1>3, <2>3 DEF RunHermesUpdate, TypeOK
<1>4. ASSUME NEW j \in jobs, LaunchFails(j) \/ Retry(j)
      PROVE  TypeOK'
  BY <1>4 DEF LaunchFails, Retry, TypeOK, Job, Stages, shown
<1>5. ASSUME NEW j \in jobs, UpdateSucceeds(j)
      PROVE  TypeOK'
  <2>1. machine' \in [installed : Releases, released : Releases]
    BY <1>5 DEF UpdateSucceeds, TypeOK
  <2>2. Finding("job", machine') \in Check
    BY <2>1, FindingType
  <2>3. checks' \subseteq Check
    BY <1>5, <2>2 DEF UpdateSucceeds, TypeOK
  <2>4. jobs' \subseteq Job /\ status' \in {"idle", "running", "success", "error"}
        /\ version' \in Releases \cup {Unknown}
    BY <1>5 DEF UpdateSucceeds, TypeOK
  <2> QED
    BY <1>5, <2>1, <2>3, <2>4 DEF UpdateSucceeds, TypeOK
<1>6. ASSUME NEW j \in jobs, UpdateFails(j)
      PROVE  TypeOK'
  BY <1>6 DEF UpdateFails, StatusAfterFailure, TypeOK
<1>7. CASE PatchUnit
  BY <1>7 DEF PatchUnit, TypeOK, Ids
<1>8. CASE ReleaseComesOut
  BY <1>8 DEF ReleaseComesOut, TypeOK, Releases, shown
<1>9. CASE UNCHANGED vars
  BY <1>9 DEF vars, shown, TypeOK
<1>10. CASE UpdateConfig
  <2>1. \A j \in Mine : [j EXCEPT !.forgotten = TRUE] \in Job
    BY DEF Mine, TypeOK, Job
  <2>2. jobs' \subseteq Job
    BY <1>10, <2>1 DEF UpdateConfig, TypeOK
  <2> QED
    BY <1>10, <2>2 DEF UpdateConfig, TypeOK
<1> QED
  BY <1>1, <1>2, <1>3, <1>4, <1>5, <1>6, <1>7, <1>8, <1>9, <1>10 DEF Next

\* The variables keep their types, for any number of monitors, releases and checks.
THEOREM TypeCorrectness == Spec => []TypeOK
<1>1. Init => TypeOK
  BY HermesAssumption DEF Init, TypeOK, Ids, Releases, Unknown
<1>2. TypeOK /\ [Next]_vars => TypeOK'
  BY StepType
<1> QED
  BY <1>1, <1>2, PTL DEF Spec
=============================================================================

------------------------ MODULE SparkMonitor_proofs ------------------------
(***************************************************************************)
(* The safety properties of SparkMonitor, proved for any set of machines,  *)
(* domains and unit records and any retry schedule.                        *)
(***************************************************************************)
EXTENDS SparkMonitor, TLAPS

LEMMA LimitsType ==
    FailureCap \in Nat /\ OverGrace \in Nat
BY ConstantsAssumption DEF FailureCap, OverGrace, LargerOf

LEMMA SmallerOfType ==
    ASSUME NEW a \in Nat, NEW b \in Nat
    PROVE  SmallerOf(a, b) \in 0..b
BY DEF SmallerOf

\* The delay to the next attempt is always one of the schedule's.
LEMMA LivenessDelayType ==
    ASSUME NEW n \in Nat, NEW why
    PROVE  LivenessDelay(n, why) \in Nat
<1>1. SmallerOf(LargerOf(n, 1), Len(LIVENESS_BACKOFF)) \in 1..Len(LIVENESS_BACKOFF)
  <2>1. Len(LIVENESS_BACKOFF) \in Nat /\ Len(LIVENESS_BACKOFF) > 0
    BY ConstantsAssumption
  <2> QED
    BY <2>1 DEF SmallerOf, LargerOf
<1>2. \A i \in 1..Len(LIVENESS_BACKOFF) : LIVENESS_BACKOFF[i] \in Nat
  BY ConstantsAssumption
<1> QED
  BY <1>1, <1>2, ConstantsAssumption DEF LivenessDelay

-----------------------------------------------------------------------------
(* Type correctness, one lemma per action.                                 *)

LEMMA InitType == Init => TypeOK
<1> SUFFICES ASSUME Init PROVE TypeOK
  OBVIOUS
<1>1. 0 \in 0..MaxGen /\ 0 \in 0..MaxPending /\ 0 \in 0..FailureCap
      /\ OverGrace \in 0..OverGrace
  BY ConstantsAssumption, LimitsType
<1>2. inflight \in [Kinds -> 0..MaxPending] /\ calls \subseteq Call
  BY <1>1 DEF Init
<1>3. metrics \in [Domains -> Hosts \cup {NoData}] /\ collOk \in [Domains -> BOOLEAN]
  BY DEF Init
<1> QED
  BY <1>1, <1>2, <1>3 DEF Init, TypeOK

LEMMA SendType ==
    ASSUME TypeOK, NEW k \in Kinds, Send(k)
    PROVE  /\ inflight' \in [Kinds -> 0..MaxPending]
           /\ calls' \subseteq Call
<1>1. PICK s \in Slots :
        /\ inflight' = [inflight EXCEPT ![k] = s]
        /\ calls' = calls \cup
            {[kind |-> k, slot |-> s, gen |-> gen, host |-> cfg.host,
              isLocal |-> cfg.isLocal, stage |-> "sent", ans |-> "pending"]}
  BY DEF Send
<1>2. cfg.host \in Hosts /\ cfg.isLocal \in BOOLEAN /\ gen \in Nat
  BY ConstantsAssumption DEF TypeOK, Config
<1>3. [kind |-> k, slot |-> s, gen |-> gen, host |-> cfg.host,
       isLocal |-> cfg.isLocal, stage |-> "sent", ans |-> "pending"] \in Call
  BY <1>2 DEF Call
<1> QED
  BY <1>1, <1>3, ConstantsAssumption DEF TypeOK, Slots

LEMMA ReleasedType ==
    ASSUME TypeOK, NEW c \in calls
    PROVE  /\ Released(c) \in [Kinds -> 0..MaxPending]
           /\ (calls \ {c}) \subseteq Call
BY ConstantsAssumption DEF TypeOK, Released, Call

LEMMA AnswerType ==
    ASSUME TypeOK, NEW c \in calls, Answer(c)
    PROVE  TypeOK'
<1>1. c \in Call
  BY DEF TypeOK
<1>2. PICK a \in Outcomes(c) : calls' = (calls \ {c}) \cup {[c EXCEPT !.ans = a]}
  BY DEF Answer
<1>3. a \in {"pending", "ok", "empty", "throw", "network", "auth"}
  BY DEF Outcomes
<1>4. [c EXCEPT !.ans = a] \in Call
  BY <1>1, <1>3 DEF Call
<1>5. calls' \subseteq Call
  BY <1>2, <1>4 DEF TypeOK
<1> QED
  BY <1>5 DEF Answer, TypeOK, liveness, readings

LEMMA CheckFailedType ==
    ASSUME TypeOK, NEW c \in calls, c.ans \in {"network", "auth"}, CheckFailed(c)
    PROVE  /\ failures' \in 0..FailureCap /\ retryIn' \in Nat
           /\ reason' \in {"none", "network", "auth"}
           /\ failedHost' \in Hosts \cup {NoData}
           /\ online' \in BOOLEAN /\ sinceOk' \in 0..OverGrace
           /\ announced' \in {"unknown", "online", "offline"}
           /\ metrics' \in [Domains -> Hosts \cup {NoData}]
           /\ collOk' \in [Domains -> BOOLEAN] /\ mac' \in Hosts \cup {NoData}
<1>1. c \in Call
  BY DEF TypeOK
<1>2. failures' \in 0..FailureCap
  <2>1. failures + 1 \in Nat
    BY LimitsType DEF TypeOK
  <2> QED
    BY <2>1, LimitsType, SmallerOfType DEF CheckFailed
<1>3. retryIn' \in Nat
  BY <1>2, LimitsType, LivenessDelayType DEF CheckFailed
<1>4. failedHost' \in Hosts \cup {NoData}
  BY <1>1 DEF CheckFailed, Call
<1>5. metrics' \in [Domains -> Hosts \cup {NoData}] /\ collOk' \in [Domains -> BOOLEAN]
      /\ mac' \in Hosts \cup {NoData}
  <2>1. CASE sinceOk > ONLINE_GRACE /\ ~cfg.isLocal
    BY <2>1 DEF CheckFailed, InvalidateSshMetrics, TypeOK
  <2>2. CASE ~(sinceOk > ONLINE_GRACE /\ ~cfg.isLocal)
    BY <2>2 DEF CheckFailed, readings, TypeOK
  <2> QED
    BY <2>1, <2>2
<1>6. reason' \in {"none", "network", "auth"} /\ sinceOk' \in 0..OverGrace
      /\ online' \in BOOLEAN /\ announced' \in {"unknown", "online", "offline"}
  BY DEF CheckFailed, LivenessReason, TypeOK
<1> QED
  BY <1>2, <1>3, <1>4, <1>5, <1>6

LEMMA LandCheckType ==
    ASSUME TypeOK, NEW c \in calls, LandCheck(c)
    PROVE  TypeOK'
<1>1. CASE PingSucceeded(c)
  <2>1. [c EXCEPT !.stage = "uptime"] \in Call
    BY DEF TypeOK, Call
  <2>2. calls' \subseteq Call
    BY <1>1, <2>1 DEF PingSucceeded, TypeOK
  <2> QED
    BY <1>1, <2>2, LimitsType DEF LandCheck, PingSucceeded, TypeOK, readings
<1>2. CASE calls' = calls \ {c} /\ inflight' = Released(c) /\ CheckSucceeded
  BY <1>2, ReleasedType, LimitsType DEF LandCheck, CheckSucceeded, TypeOK, readings
<1>3. CASE /\ calls' = calls \ {c} /\ inflight' = Released(c)
           /\ c.ans \in {"network", "auth"} /\ CheckFailed(c)
  BY <1>3, ReleasedType, CheckFailedType DEF LandCheck, TypeOK
<1>4. CASE /\ calls' = calls \ {c} /\ inflight' = Released(c)
           /\ UNCHANGED <<liveness, readings, failedHost>>
  BY <1>4, ReleasedType DEF LandCheck, TypeOK, liveness, readings
<1> QED
  BY <1>1, <1>2, <1>3, <1>4 DEF LandCheck

\* What a poll that lands makes of the readings.
LEMMA CommitReadings ==
    ASSUME TypeOK, NEW c \in calls, c.kind \in Domains, Commit(c)
    PROVE  \E r \in Hosts \cup {NoData} :
              /\ metrics' = [metrics EXCEPT ![c.kind] = r]
              /\ r \in {c.host, NoData, metrics[c.kind]}
              /\ c.ans = "ok" => r = c.host
<1>1. PICK r \in Readings(c) : metrics' = [metrics EXCEPT ![c.kind] = r]
  BY DEF Commit
<1>2. r \in {c.host, NoData, metrics[c.kind]} /\ (c.ans = "ok" => r = c.host)
  BY DEF Readings
<1>3. c.host \in Hosts /\ metrics[c.kind] \in Hosts \cup {NoData}
  BY DEF TypeOK, Call
<1> QED
  BY <1>1, <1>2, <1>3

LEMMA CommitType ==
    ASSUME TypeOK, NEW c \in calls, c.kind \in Domains, Commit(c)
    PROVE  /\ metrics' \in [Domains -> Hosts \cup {NoData}]
           /\ collOk' \in [Domains -> BOOLEAN]
           /\ gen' \in 0..MaxGen
           /\ inflight' \in [Kinds -> 0..MaxPending]
           /\ mac' \in Hosts \cup {NoData}
           /\ failures' \in 0..FailureCap /\ retryIn' \in Nat
           /\ UNCHANGED <<online, sinceOk, reason, announced, failedHost>>
<1>1. metrics' \in [Domains -> Hosts \cup {NoData}]
  BY CommitReadings DEF TypeOK
<1>2. c \in Call
  BY DEF TypeOK
<1>3. CASE /\ collOk' = [collOk EXCEPT ![c.kind] = SuccessAfter(c)]
           /\ inflight' = Released(c)
           /\ UNCHANGED <<gen, liveness, mac, failedHost>>
  <2>1. SuccessAfter(c) \in BOOLEAN
    BY DEF SuccessAfter, TypeOK
  <2>2. collOk' \in [Domains -> BOOLEAN]
    BY <1>3, <2>1 DEF TypeOK
  <2> QED
    BY <1>1, <1>3, <2>2, ReleasedType DEF TypeOK, liveness
<1>4. CASE /\ DiscoversMac(c) /\ gen < MaxGen /\ mac' = c.host /\ gen' = gen + 1
           /\ inflight' = [k \in Kinds |-> 0] /\ RetryNow
           /\ collOk' = [FlagsCleared EXCEPT ![c.kind] = TRUE]
           /\ UNCHANGED <<online, sinceOk, reason, announced, failedHost>>
  <2>1. collOk' \in [Domains -> BOOLEAN]
    BY <1>4 DEF FlagsCleared, TypeOK
  <2>2. inflight' \in [Kinds -> 0..MaxPending]
    BY <1>4, ConstantsAssumption
  <2>3. gen' \in 0..MaxGen
    BY <1>4, ConstantsAssumption DEF TypeOK
  <2> QED
    BY <1>1, <1>2, <1>4, <2>1, <2>2, <2>3, LimitsType DEF RetryNow, Call
<1> QED
  BY <1>3, <1>4 DEF Commit

LEMMA LandPollType ==
    ASSUME TypeOK, NEW c \in calls, LandPoll(c)
    PROVE  TypeOK'
<1>1. CASE Current(c) /\ c.ans # "pending" /\ Commit(c)
  BY <1>1, CommitType, ReleasedType DEF LandPoll, TypeOK
<1>2. CASE /\ ~Current(c) /\ inflight' = Released(c)
           /\ UNCHANGED <<gen, liveness, readings, failedHost>>
  BY <1>2, ReleasedType DEF LandPoll, TypeOK, liveness, readings
<1> QED
  BY <1>1, <1>2 DEF LandPoll

LEMMA UpdateConfigType ==
    ASSUME TypeOK, NEW c \in Configs, UpdateConfig(c)
    PROVE  TypeOK'
<1>1. gen' \in 0..MaxGen
  BY ConstantsAssumption DEF TypeOK, UpdateConfig
<1>2. inflight' \in [Kinds -> 0..MaxPending]
  BY ConstantsAssumption DEF UpdateConfig
<1>3. metrics' \in [Domains -> Hosts \cup {NoData}]
  BY DEF TypeOK, UpdateConfig
<1>4. collOk' \in [Domains -> BOOLEAN]
  BY DEF TypeOK, UpdateConfig, FlagsCleared
<1> QED
  BY <1>1, <1>2, <1>3, <1>4, LimitsType DEF TypeOK, UpdateConfig, RetryNow

LEMMA LifeCycleType ==
    ASSUME TypeOK, Start \/ Stop \/ Tick \/ (\E h \in Hosts : HostChanges(h))
    PROVE  TypeOK'
<1>1. CASE Start
  <2>1. gen' \in 0..MaxGen
    BY <1>1, ConstantsAssumption DEF TypeOK, Start
  <2> QED
    BY <1>1, <2>1 DEF TypeOK, Start, liveness, readings
<1>2. CASE Stop
  <2>1. gen' \in 0..MaxGen /\ inflight' \in [Kinds -> 0..MaxPending]
    BY <1>2, ConstantsAssumption DEF TypeOK, Stop
  <2>2. collOk' \in [Domains -> BOOLEAN]
    BY <1>2 DEF TypeOK, Stop, FlagsCleared
  <2> QED
    BY <1>2, <2>1, <2>2 DEF TypeOK, Stop, liveness
<1>3. CASE Tick
  <2>1. sinceOk' \in 0..OverGrace
    BY <1>3, LimitsType, SmallerOfType DEF TypeOK, Tick
  <2>2. retryIn' \in Nat
    BY <1>3 DEF TypeOK, Tick, LargerOf
  <2> QED
    BY <1>3, <2>1, <2>2 DEF TypeOK, Tick, readings
<1>4. CASE \E h \in Hosts : HostChanges(h)
  <2>1. reach' \in [Hosts -> HostStates]
    BY <1>4 DEF TypeOK, HostChanges
  <2> QED
    BY <1>4, <2>1 DEF TypeOK, HostChanges, liveness, readings
<1> QED
  BY <1>1, <1>2, <1>3, <1>4

LEMMA NextType ==
    ASSUME TypeOK, [Next]_vars
    PROVE  TypeOK'
<1>1. CASE CheckOnline
  BY <1>1, SendType DEF CheckOnline, TypeOK, Kinds, liveness, readings
<1>2. CASE \E d \in Domains : PollDomain(d)
  BY <1>2, SendType DEF PollDomain, TypeOK, Kinds, liveness, readings
<1>3. CASE RefreshStorage
  BY <1>3, SendType DEF RefreshStorage, TypeOK, Kinds, liveness, readings
<1>4. CASE \E c \in calls : Answer(c) \/ LandCheck(c) \/ LandPoll(c)
  BY <1>4, AnswerType, LandCheckType, LandPollType
<1>5. CASE \E c \in Configs : UpdateConfig(c)
  BY <1>5, UpdateConfigType
<1>6. CASE Start \/ Stop \/ Tick \/ (\E h \in Hosts : HostChanges(h))
  BY <1>6, LifeCycleType
<1>7. CASE UNCHANGED vars
  BY <1>7 DEF TypeOK, vars, liveness, readings
<1> QED
  BY <1>1, <1>2, <1>3, <1>4, <1>5, <1>6, <1>7 DEF Next

\* TypeOK holds in every reachable state: whatever lands, and whatever is
\* edited, stopped or started meanwhile, every variable keeps its type.
THEOREM TypeCorrectness == Spec => []TypeOK
<1>1. Init => TypeOK
  BY InitType
<1>2. TypeOK /\ [Next]_vars => TypeOK'
  BY NextType
<1> QED
  BY <1>1, <1>2, PTL DEF Spec

-----------------------------------------------------------------------------
(* The invariant about calls: tokens are unique, and a call of the present  *)
(* run holds its guard and was sent to the machine the unit points at.      *)

OnePerSlot ==
    \A c1, c2 \in calls : c1.kind = c2.kind /\ c1.slot = c2.slot => c1 = c2

NotFromTheFuture == \A c \in calls : c.gen <= gen

CurrentHoldsGuard == \A c \in calls : c.gen = gen => inflight[c.kind] = c.slot

CurrentIsOwn ==
    \A c \in calls : c.gen = gen =>
        /\ c.host = cfg.host
        /\ c.kind \in ClearedWhenOff => c.kind \in cfg.on

CallsInv == OnePerSlot /\ NotFromTheFuture /\ CurrentHoldsGuard /\ CurrentIsOwn

\* A new call takes a fresh token and the open guard.
LEMMA SendCalls ==
    ASSUME TypeOK, CallsInv, NEW k \in Kinds, Send(k), UNCHANGED <<gen, cfg>>,
           k \in ClearedWhenOff => k \in cfg.on
    PROVE  CallsInv'
<1> DEFINE n(s) == [kind |-> k, slot |-> s, gen |-> gen, host |-> cfg.host,
                    isLocal |-> cfg.isLocal, stage |-> "sent", ans |-> "pending"]
<1>1. PICK s \in Slots : /\ Free(k, s)
                         /\ inflight' = [inflight EXCEPT ![k] = s]
                         /\ calls' = calls \cup {n(s)}
  BY DEF Send, Fresh
<1>2. /\ n(s).kind = k /\ n(s).slot = s /\ n(s).gen = gen /\ n(s).host = cfg.host
  OBVIOUS
<1> HIDE DEF n
<1>3. inflight[k] = 0 /\ gen \in Nat /\ calls \subseteq Call
  BY ConstantsAssumption DEF Send, TypeOK
<1>4. \A c \in calls : c.kind = k => c.slot # s /\ c.gen # gen
  BY <1>1, <1>3 DEF Free, CallsInv, CurrentHoldsGuard, Call, Slots
<1>5. OnePerSlot'
  BY <1>1, <1>2, <1>4 DEF CallsInv, OnePerSlot
<1>6. NotFromTheFuture'
  BY <1>1, <1>2, <1>3 DEF CallsInv, NotFromTheFuture
<1>7. CurrentHoldsGuard'
  BY <1>1, <1>2, <1>3, <1>4 DEF CallsInv, CurrentHoldsGuard, TypeOK, Call
<1>8. CurrentIsOwn'
  BY <1>1, <1>2 DEF CallsInv, CurrentIsOwn
<1> QED
  BY <1>5, <1>6, <1>7, <1>8 DEF CallsInv

\* A call that ends opens its own guard and no other call's.
LEMMA ReleaseCalls ==
    ASSUME TypeOK, CallsInv, NEW c \in calls, calls' = calls \ {c},
           inflight' = Released(c), UNCHANGED <<gen, cfg>>
    PROVE  CallsInv'
<1>1. OnePerSlot' /\ NotFromTheFuture' /\ CurrentIsOwn'
  BY DEF CallsInv, OnePerSlot, NotFromTheFuture, CurrentIsOwn
<1>2. CurrentHoldsGuard'
  <2> SUFFICES ASSUME NEW e \in calls', e.gen = gen'
               PROVE  inflight'[e.kind] = e.slot
    BY DEF CurrentHoldsGuard
  <2>1. e \in calls /\ e # c /\ inflight[e.kind] = e.slot
    BY DEF CallsInv, CurrentHoldsGuard
  <2>2. e.kind # c.kind \/ e.slot # c.slot
    BY <2>1 DEF CallsInv, OnePerSlot
  <2> QED
    BY <2>1, <2>2 DEF Released, TypeOK, Call
<1> QED
  BY <1>1, <1>2 DEF CallsInv

\* A call that goes on (its answer arrives, its uptime read starts) keeps
\* its token, its run and its target.
LEMMA ContinueCalls ==
    ASSUME TypeOK, CallsInv, NEW c \in calls, NEW e,
           e.kind = c.kind, e.slot = c.slot, e.gen = c.gen, e.host = c.host,
           calls' = (calls \ {c}) \cup {e}, UNCHANGED <<gen, cfg, inflight>>
    PROVE  CallsInv'
<1>1. OnePerSlot'
  BY DEF CallsInv, OnePerSlot
<1>2. NotFromTheFuture' /\ CurrentIsOwn' /\ CurrentHoldsGuard'
  BY DEF CallsInv, NotFromTheFuture, CurrentIsOwn, CurrentHoldsGuard
<1> QED
  BY <1>1, <1>2 DEF CallsInv

\* A new run abandons every call there is.
LEMMA NewRunCalls ==
    ASSUME TypeOK, CallsInv, gen' = gen + 1, calls' \subseteq calls
    PROVE  CallsInv'
<1>1. gen \in Nat /\ \A c \in calls : c.gen \in Nat /\ c.gen <= gen
  BY ConstantsAssumption DEF TypeOK, CallsInv, NotFromTheFuture, Call
<1>2. \A c \in calls' : c.gen < gen'
  BY <1>1
<1>3. OnePerSlot'
  BY DEF CallsInv, OnePerSlot
<1>4. \A c \in calls' : c.gen <= gen' /\ c.gen # gen'
  BY <1>1
<1> QED
  BY <1>3, <1>4 DEF CallsInv, NotFromTheFuture, CurrentHoldsGuard, CurrentIsOwn

\* A step that leaves calls, guards, run and target alone.
LEMMA IdleCalls ==
    ASSUME CallsInv, UNCHANGED <<gen, cfg, inflight, calls>>
    PROVE  CallsInv'
BY DEF CallsInv, OnePerSlot, NotFromTheFuture, CurrentHoldsGuard, CurrentIsOwn

LEMMA NextCalls ==
    ASSUME TypeOK, CallsInv, [Next]_vars
    PROVE  CallsInv'
<1>1. CASE CheckOnline
  BY <1>1, SendCalls DEF CheckOnline, Kinds, ClearedWhenOff
<1>2. CASE \E d \in Domains : PollDomain(d)
  BY <1>2, SendCalls DEF PollDomain, Kinds
<1>3. CASE RefreshStorage
  BY <1>3, SendCalls DEF RefreshStorage, Kinds, ClearedWhenOff
<1>4. ASSUME NEW c \in calls, Answer(c)
      PROVE  CallsInv'
  <2>1. PICK a \in Outcomes(c) : calls' = (calls \ {c}) \cup {[c EXCEPT !.ans = a]}
    BY <1>4 DEF Answer
  <2> DEFINE e == [c EXCEPT !.ans = a]
  <2>2. e.kind = c.kind /\ e.slot = c.slot /\ e.gen = c.gen /\ e.host = c.host
    BY DEF TypeOK, Call
  <2> HIDE DEF e
  <2>3. calls' = (calls \ {c}) \cup {e}
    BY <2>1 DEF e
  <2> QED
    BY <1>4, <2>2, <2>3, ContinueCalls DEF Answer
<1>5. ASSUME NEW c \in calls, LandCheck(c)
      PROVE  CallsInv'
  <2>1. CASE PingSucceeded(c)
    <3> DEFINE e == [c EXCEPT !.stage = "uptime"]
    <3>1. e.kind = c.kind /\ e.slot = c.slot /\ e.gen = c.gen /\ e.host = c.host
      BY DEF TypeOK, Call
    <3>2. calls' = (calls \ {c}) \cup {e}
      BY <2>1 DEF PingSucceeded
    <3> HIDE DEF e
    <3> QED
      BY <1>5, <2>1, <3>1, <3>2, ContinueCalls DEF LandCheck, PingSucceeded
  <2>2. CASE calls' = calls \ {c} /\ inflight' = Released(c)
    BY <1>5, <2>2, ReleaseCalls DEF LandCheck
  <2> QED
    BY <1>5, <2>1, <2>2 DEF LandCheck
<1>6. ASSUME NEW c \in calls, LandPoll(c)
      PROVE  CallsInv'
  <2>1. CASE calls' = calls \ {c} /\ inflight' = Released(c) /\ gen' = gen
    BY <1>6, <2>1, ReleaseCalls DEF LandPoll
  <2>2. CASE calls' = calls \ {c} /\ gen' = gen + 1
    BY <2>2, NewRunCalls
  <2> QED
    BY <1>6, <2>1, <2>2 DEF LandPoll, Commit
<1>7. CASE \E c \in Configs : UpdateConfig(c)
  BY <1>7, NewRunCalls DEF UpdateConfig
<1>8. CASE Start \/ Stop
  BY <1>8, NewRunCalls DEF Start, Stop
<1>9. CASE Tick \/ (\E h \in Hosts : HostChanges(h)) \/ UNCHANGED vars
  BY <1>9, IdleCalls DEF Tick, HostChanges, vars
<1> QED
  BY <1>1, <1>2, <1>3, <1>4, <1>5, <1>6, <1>7, <1>8, <1>9 DEF Next

-----------------------------------------------------------------------------
(* The invariant about what is served.                                     *)

\* The part of OfflineHasReason that BackoffIsOwn does not give.
SaysWhy == announced = "offline" /\ ~online => reason # "none"

ReadingsInv ==
    CollectedIsOwn /\ SaysWhy /\ BackoffIsOwn /\ DisabledShowsNothing

LEMMA CheckFailedReadings ==
    ASSUME TypeOK, CallsInv, ReadingsInv, NEW c \in calls, Current(c),
           c.ans \in {"network", "auth"}, CheckFailed(c), UNCHANGED cfg
    PROVE  ReadingsInv'
<1>1. c.host = cfg.host
  BY DEF CallsInv, CurrentIsOwn, Current
<1>2. BackoffIsOwn'
  BY <1>1 DEF BackoffIsOwn, CheckFailed
<1>3. SaysWhy'
  BY DEF SaysWhy, CheckFailed, LivenessReason
<1>4. CollectedIsOwn' /\ DisabledShowsNothing'
  <2>1. CASE sinceOk > ONLINE_GRACE /\ ~cfg.isLocal
    BY <2>1 DEF CheckFailed, InvalidateSshMetrics, ReadingsInv, CollectedIsOwn,
                DisabledShowsNothing, Invalidated, Flagged
  <2>2. CASE ~(sinceOk > ONLINE_GRACE /\ ~cfg.isLocal)
    BY <2>2 DEF CheckFailed, readings, ReadingsInv, CollectedIsOwn, DisabledShowsNothing
  <2> QED
    BY <2>1, <2>2
<1> QED
  BY <1>2, <1>3, <1>4 DEF ReadingsInv

LEMMA LandCheckReadings ==
    ASSUME TypeOK, CallsInv, ReadingsInv, NEW c \in calls, LandCheck(c)
    PROVE  ReadingsInv'
<1>1. CASE PingSucceeded(c)
  BY <1>1 DEF LandCheck, PingSucceeded, readings, ReadingsInv, CollectedIsOwn,
              SaysWhy, BackoffIsOwn, DisabledShowsNothing
<1>2. CASE CheckSucceeded
  BY <1>2 DEF LandCheck, CheckSucceeded, readings, ReadingsInv, CollectedIsOwn,
              SaysWhy, BackoffIsOwn, DisabledShowsNothing
<1>3. CASE Current(c) /\ c.ans \in {"network", "auth"} /\ CheckFailed(c)
  BY <1>3, CheckFailedReadings DEF LandCheck
<1>4. CASE UNCHANGED <<liveness, readings, failedHost>>
  BY <1>4 DEF LandCheck, liveness, readings, ReadingsInv, CollectedIsOwn,
              SaysWhy, BackoffIsOwn, DisabledShowsNothing
<1> QED
  BY <1>1, <1>2, <1>3, <1>4 DEF LandCheck

\* What a landing poll publishes is the unit's own.
LEMMA CommitIsOwn ==
    ASSUME TypeOK, CallsInv, ReadingsInv, NEW c \in calls, c.kind \in Domains,
           Current(c), Commit(c), UNCHANGED cfg
    PROVE  /\ \A d \in Domains :
                 metrics'[d] # metrics[d] => metrics'[d] \in {NoData, cfg.host}
           /\ CollectedIsOwn' /\ DisabledShowsNothing'
<1>1. PICK r \in Hosts \cup {NoData} :
        /\ metrics' = [metrics EXCEPT ![c.kind] = r]
        /\ r \in {c.host, NoData, metrics[c.kind]}
        /\ c.ans = "ok" => r = c.host
  BY CommitReadings
<1>2. c.host = cfg.host /\ (c.kind \in ClearedWhenOff => c.kind \in cfg.on)
  BY DEF CallsInv, CurrentIsOwn, Current
<1>3. /\ metrics'[c.kind] = r
      /\ \A d \in Domains : d # c.kind => metrics'[d] = metrics[d]
  BY <1>1 DEF TypeOK
<1>4. \A d \in Domains :
         metrics'[d] # metrics[d] => metrics'[d] \in {NoData, cfg.host}
  BY <1>1, <1>2, <1>3
<1>5. DisabledShowsNothing'
  BY <1>2, <1>3 DEF ReadingsInv, DisabledShowsNothing
<1>6. CollectedIsOwn'
  <2>1. \A d \in Domains \cap Flagged :
           collOk'[d] => IF d = c.kind THEN c.ans = "ok" ELSE collOk[d]
    <3>1. CASE collOk' = [collOk EXCEPT ![c.kind] = SuccessAfter(c)]
      <4>1. c.kind \in Flagged => SuccessAfter(c) = (c.ans = "ok")
        BY DEF SuccessAfter, Flagged
      <4> QED
        BY <3>1, <4>1 DEF TypeOK
    <3>2. CASE DiscoversMac(c) /\ collOk' = [FlagsCleared EXCEPT ![c.kind] = TRUE]
      BY <3>2 DEF DiscoversMac, FlagsCleared, Flagged
    <3> QED
      BY <3>1, <3>2 DEF Commit
  <2> QED
    BY <1>1, <1>2, <1>3, <2>1 DEF ReadingsInv, CollectedIsOwn
<1> QED
  BY <1>4, <1>5, <1>6

LEMMA LandPollReadings ==
    ASSUME TypeOK, CallsInv, ReadingsInv, NEW c \in calls, LandPoll(c)
    PROVE  ReadingsInv'
<1>1. CASE Current(c) /\ Commit(c)
  <2>1. CollectedIsOwn' /\ DisabledShowsNothing'
    BY <1>1, CommitIsOwn DEF LandPoll
  <2>2. UNCHANGED <<online, announced, reason, failedHost, cfg>>
    BY <1>1 DEF LandPoll, Commit, liveness
  <2>3. (failures' > 0 \/ retryIn' > 0) => (failures > 0 \/ retryIn > 0)
    BY <1>1 DEF Commit, liveness, RetryNow
  <2> QED
    BY <2>1, <2>2, <2>3 DEF ReadingsInv, SaysWhy, BackoffIsOwn
<1>2. CASE UNCHANGED <<liveness, readings, failedHost>>
  BY <1>2 DEF LandPoll, liveness, readings, ReadingsInv, CollectedIsOwn,
              SaysWhy, BackoffIsOwn, DisabledShowsNothing
<1> QED
  BY <1>1, <1>2 DEF LandPoll

LEMMA UpdateConfigReadings ==
    ASSUME TypeOK, ReadingsInv, NEW c \in Configs, UpdateConfig(c)
    PROVE  ReadingsInv'
<1>1. CollectedIsOwn'
  BY DEF UpdateConfig, FlagsCleared, CollectedIsOwn
<1>2. DisabledShowsNothing'
  BY DEF UpdateConfig, DisabledShowsNothing
<1>3. BackoffIsOwn' /\ SaysWhy'
  BY DEF UpdateConfig, RetryNow, BackoffIsOwn, SaysWhy, ReadingsInv
<1> QED
  BY <1>1, <1>2, <1>3 DEF ReadingsInv

LEMMA NextReadings ==
    ASSUME TypeOK, CallsInv, ReadingsInv, [Next]_vars
    PROVE  ReadingsInv'
<1> USE DEF ReadingsInv, CollectedIsOwn, SaysWhy, BackoffIsOwn,
            DisabledShowsNothing, liveness, readings
<1>1. CASE CheckOnline \/ (\E d \in Domains : PollDomain(d)) \/ RefreshStorage
           \/ (\E c \in calls : Answer(c))
  BY <1>1 DEF CheckOnline, PollDomain, RefreshStorage, Answer
<1>2. CASE \E c \in calls : LandCheck(c) \/ LandPoll(c)
  BY <1>2, LandCheckReadings, LandPollReadings
<1>3. CASE \E c \in Configs : UpdateConfig(c)
  BY <1>3, UpdateConfigReadings
<1>4. CASE Start \/ (\E h \in Hosts : HostChanges(h)) \/ UNCHANGED vars
  BY <1>4 DEF Start, HostChanges, vars
<1>5. CASE Stop
  BY <1>5 DEF Stop, FlagsCleared
<1>6. CASE Tick
  <2>1. retryIn' > 0 => retryIn > 0
    BY <1>6 DEF Tick, LargerOf, TypeOK
  <2> QED
    BY <1>6, <2>1 DEF Tick
<1> QED
  BY <1>1, <1>2, <1>3, <1>4, <1>5, <1>6 DEF Next

-----------------------------------------------------------------------------
(* The theorems.                                                           *)

IInv == TypeOK /\ CallsInv /\ ReadingsInv

\* The three parts together are inductive.
THEOREM InductiveInvariant == Spec => []IInv
<1>1. Init => IInv
  <2> SUFFICES ASSUME Init PROVE IInv
    OBVIOUS
  <2>1. TypeOK
    BY InitType
  <2>2. CallsInv
    BY DEF Init, CallsInv, OnePerSlot, NotFromTheFuture, CurrentHoldsGuard, CurrentIsOwn
  <2>3. ReadingsInv
    BY DEF Init, ReadingsInv, CollectedIsOwn, SaysWhy, BackoffIsOwn,
           DisabledShowsNothing
  <2> QED
    BY <2>1, <2>2, <2>3 DEF IInv
<1>2. IInv /\ [Next]_vars => IInv'
  BY NextType, NextCalls, NextReadings DEF IInv
<1> QED
  BY <1>1, <1>2, PTL DEF Spec

\* At most one check and one poll of a domain belong to the present run,
\* however many abandoned ones are still unanswered.
THEOREM NoDuplicatePolls == Spec => []OneCallPerDomain
<1>1. IInv => OneCallPerDomain
  BY DEF IInv, CallsInv, OnePerSlot, CurrentHoldsGuard, OneCallPerDomain
<1> QED
  BY <1>1, InductiveInvariant, PTL

\* Success flags and backoff are those of the machine the unit points at, and
\* so is the offline reason once a check has landed after the last edit; until
\* then that check is due.
THEOREM ServedStateIsOwn == Spec => []ServedIsOwn
<1>1. IInv => ServedIsOwn
  <2> SUFFICES ASSUME IInv PROVE ServedIsOwn
    OBVIOUS
  <2>1. CollectedIsOwn /\ SaysWhy /\ BackoffIsOwn
    BY DEF IInv, ReadingsInv
  <2>2. failures \in Nat /\ retryIn \in Nat
    BY LimitsType DEF IInv, TypeOK
  <2>3. failedHost = cfg.host \/ (failures = 0 /\ retryIn = 0)
    BY <2>1, <2>2 DEF BackoffIsOwn
  <2> QED
    BY <2>1, <2>3 DEF SaysWhy, OfflineHasReason, ReasonFromBeforeEdit, ServedIsOwn
<1> QED
  BY <1>1, InductiveInvariant, PTL

\* A probe that is switched off shows nothing, whatever its last poll answers.
THEOREM OffShowsNothing == Spec => []DisabledShowsNothing
<1>1. IInv => DisabledShowsNothing
  BY DEF IInv, ReadingsInv
<1> QED
  BY <1>1, InductiveInvariant, PTL

\* A poll sent to the machine of an earlier configuration never publishes.
THEOREM ReadingsAreOwn == Spec => NoForeignReading
<1> DEFINE Own == \A d \in Domains :
                    metrics'[d] # metrics[d] => metrics'[d] \in {NoData, cfg'.host}
<1>1. IInv /\ [Next]_vars => [Own]_vars
  <2> SUFFICES ASSUME IInv, Next PROVE Own
    BY DEF vars
  <2>1. CASE metrics' = metrics
    BY <2>1
  <2>2. ASSUME NEW c \in calls, LandPoll(c)
        PROVE  Own
    <3>1. CASE Current(c) /\ Commit(c)
      BY <2>2, <3>1, CommitIsOwn DEF IInv, LandPoll
    <3>2. CASE UNCHANGED readings
      BY <3>2 DEF readings
    <3> QED
      BY <2>2, <3>1, <3>2 DEF LandPoll
  <2>3. ASSUME NEW c \in calls, LandCheck(c)
        PROVE  Own
    <3>1. CASE UNCHANGED readings
      BY <3>1 DEF readings
    <3>2. CASE InvalidateSshMetrics
      BY <3>2 DEF InvalidateSshMetrics
    <3> QED
      BY <2>3, <3>1, <3>2 DEF LandCheck, PingSucceeded, CheckSucceeded, CheckFailed
  <2>4. CASE \E c \in Configs : UpdateConfig(c)
    BY <2>4 DEF UpdateConfig
  <2>5. CASE \/ CheckOnline \/ (\E d \in Domains : PollDomain(d)) \/ RefreshStorage
             \/ (\E c \in calls : Answer(c))
             \/ Start \/ Stop \/ Tick \/ (\E h \in Hosts : HostChanges(h))
    BY <2>1, <2>5 DEF CheckOnline, PollDomain, RefreshStorage, Answer, Start, Stop,
                      Tick, HostChanges, readings
  <2> QED
    BY <2>2, <2>3, <2>4, <2>5 DEF Next
<1> QED
  BY <1>1, InductiveInvariant, PTL DEF Spec, NoForeignReading

\* The MAC for Wake-on-LAN only ever changes to that of the machine the unit
\* points at.
THEOREM MacIsOwn == Spec => MacIsOfThisUnit
<1> DEFINE Own == mac' # mac => mac' = cfg'.host
<1>1. IInv /\ [Next]_vars => [Own]_vars
  <2> SUFFICES ASSUME IInv, Next PROVE Own
    BY DEF vars
  <2>1. ASSUME NEW c \in calls, LandPoll(c)
        PROVE  Own
    <3>1. CASE Current(c) /\ Commit(c)
      <4>1. c.host = cfg.host
        BY <3>1 DEF IInv, CallsInv, CurrentIsOwn, Current
      <4> QED
        BY <2>1, <3>1, <4>1 DEF LandPoll, Commit
    <3>2. CASE UNCHANGED readings
      BY <3>2 DEF readings
    <3> QED
      BY <2>1, <3>1, <3>2 DEF LandPoll
  <2>2. ASSUME NEW c \in calls, LandCheck(c)
        PROVE  Own
    BY <2>2 DEF LandCheck, PingSucceeded, CheckSucceeded, CheckFailed,
                InvalidateSshMetrics, readings
  <2>3. CASE \/ CheckOnline \/ (\E d \in Domains : PollDomain(d)) \/ RefreshStorage
             \/ (\E c \in calls : Answer(c))
             \/ (\E c \in Configs : UpdateConfig(c))
             \/ Start \/ Stop \/ Tick \/ (\E h \in Hosts : HostChanges(h))
    BY <2>3 DEF CheckOnline, PollDomain, RefreshStorage, Answer, UpdateConfig,
                Start, Stop, Tick, HostChanges, readings
  <2> QED
    BY <2>1, <2>2, <2>3 DEF Next
<1> QED
  BY <1>1, InductiveInvariant, PTL DEF Spec, MacIsOfThisUnit
=============================================================================

---------------------------- MODULE SparkMonitor ----------------------------
(***************************************************************************)
(* One SparkMonitor (server/sparks/SparkMonitor.js): the liveness check    *)
(* with its retry backoff, the poll loop of every collector domain, the    *)
(* hot configuration edit and stop/start.  Each `await` splits its handler *)
(* in two steps: the step that sends the call and the step in which its    *)
(* answer lands; edits, restarts and other answers happen in between.      *)
(***************************************************************************)
EXTENDS Integers, Sequences

CONSTANTS
    Hosts,                   \* ssh targets: a machine with an account on it
    NoData,                  \* the collectors' zeroed default of a domain
    Domains,                 \* the poll domains of this instance
    Configs,                 \* the unit records an edit can install
    LIVENESS_BACKOFF,        \* retry delays, in ticks
    LIVENESS_AUTH_ATTEMPTS,  \* quick attempts before a credential failure stops
    LIVENESS_AUTH_IDLE,      \* the delay after that, in ticks
    ONLINE_GRACE,            \* ticks a unit stays online without an answer
    HostStates,              \* what the machines of this instance can do
    MaxGen,                  \* bound: edits, stops and starts in a behaviour
    MaxPending               \* bound: unanswered calls of one kind

\* The Hermes check has an update job of its own: module HermesUpdate.
AllDomains == {"gpu", "cpu", "ram", "memory", "network", "storage", "runtimes",
               "residentModels", "tailscale", "llm", "comfy"}

\* The polls that do not go over SSH keep running while liveness fails.
SshBacked(d) == d \notin {"llm", "comfy"}

\* What _invalidateSshMetrics resets.
Invalidated == {"gpu", "cpu", "ram", "memory", "network", "storage"}

\* Domains whose reading an edit that turns them off clears.
ClearedWhenOff == {"llm", "residentModels", "comfy", "tailscale", "runtimes"}

\* Domains with their own success flag (_metricCollectionSuccessful).
Flagged == {"gpu", "cpu"}

Config == [host : Hosts, isLocal : BOOLEAN, on : SUBSET Domains]

ASSUME ConstantsAssumption ==
    /\ NoData \notin Hosts
    /\ Domains \subseteq AllDomains
    /\ Configs \subseteq Config
    /\ LIVENESS_BACKOFF \in Seq(Nat)
    /\ Len(LIVENESS_BACKOFF) > 0
    /\ LIVENESS_AUTH_ATTEMPTS \in Nat \ {0}
    /\ LIVENESS_AUTH_IDLE \in Nat
    /\ ONLINE_GRACE \in Nat
    /\ HostStates \subseteq {"up", "down", "denied"}
    /\ MaxGen \in Nat
    /\ MaxPending \in Nat \ {0}

VARIABLES
    running, gen, cfg,                           \* _running, _runGeneration, spark
    online, sinceOk, failures, retryIn, reason,  \* liveness (ages, not timestamps)
    announced,                                   \* _prevOnline
    inflight, calls,                             \* guards, and the calls themselves
    metrics, collOk,                             \* cached readings and their success
    mac,                                         \* host whose MAC the registry holds
    reach,                                       \* environment: state of every host
    failedHost                                   \* history: where the last failure came from

liveness == <<online, sinceOk, failures, retryIn, reason, announced>>
readings == <<metrics, collOk, mac>>
vars == <<running, gen, cfg, liveness, inflight, calls, readings, reach, failedHost>>

Kinds == Domains \cup {"online"}
Slots == 1..MaxPending

\* A call in flight: its guard token (slot), the run it belongs to, where it
\* was sent and what came back.
Call == [kind : Kinds, slot : Slots, gen : Nat, host : Hosts,
         isLocal : BOOLEAN, stage : {"sent", "uptime"},
         ans : {"pending", "ok", "empty", "throw", "network", "auth"}]

SmallerOf(a, b) == IF a < b THEN a ELSE b
LargerOf(a, b) == IF a < b THEN b ELSE a

\* Only comparisons with these limits are ever made, so counting stops there.
FailureCap == LargerOf(LIVENESS_AUTH_ATTEMPTS, Len(LIVENESS_BACKOFF))
OverGrace == ONLINE_GRACE + 1

\* nextLivenessDelayMs(failures, reason), in ticks.
LivenessDelay(n, why) ==
    IF why = "auth" /\ n >= LIVENESS_AUTH_ATTEMPTS
    THEN LIVENESS_AUTH_IDLE
    ELSE LIVENESS_BACKOFF[SmallerOf(LargerOf(n, 1), Len(LIVENESS_BACKOFF))]

Init ==
    /\ running = FALSE /\ gen = 0
    /\ cfg \in Configs
    /\ online = FALSE /\ sinceOk = OverGrace
    /\ failures = 0 /\ retryIn = 0 /\ reason = "none"
    /\ announced = "unknown"
    /\ inflight = [k \in Kinds |-> 0]
    /\ calls = {}
    /\ metrics = [d \in Domains |-> NoData]
    /\ collOk = [d \in Domains |-> FALSE]
    /\ mac = NoData
    /\ reach \in [Hosts -> HostStates]
    /\ failedHost = NoData

-----------------------------------------------------------------------------
(* What an edit starts over.                                               *)

\* Mutant: the wait until the next attempt stays.
CountRetriedNow == failures' = 0 /\ UNCHANGED retryIn

\* The next liveness attempt is immediate and its backoff starts over.
RetryNow == failures' = 0 /\ retryIn' = 0

\* _metricCollectionSuccessful = { gpu: false, cpu: false }
FlagsCleared == [d \in Domains |-> collOk[d] /\ d \notin Flagged]

-----------------------------------------------------------------------------
(* Calls: the guard, the token and the generation every handler shares.    *)

\* Tokens are fresh symbols: the lowest one no unanswered call holds.
Free(k, s) == \A c \in calls : c.kind = k => c.slot # s
Fresh(k, s) == Free(k, s) /\ \A t \in 1..(s - 1) : ~Free(k, t)

\* _inflight[k] = Symbol(k), and the request leaves for the current target.
Send(k) ==
    /\ running
    /\ inflight[k] = 0
    /\ \E s \in Slots :
        /\ Fresh(k, s)
        /\ inflight' = [inflight EXCEPT ![k] = s]
        /\ calls' = calls \cup
            {[kind |-> k, slot |-> s, gen |-> gen, host |-> cfg.host,
              isLocal |-> cfg.isLocal, stage |-> "sent", ans |-> "pending"]}

\* Mutants: a re-check that only asks whether the monitor runs, a guard
\* cleared by whoever finishes, and one cleared on the success path only.
CurrentWhileRunning(c) == running
ReleasedAlways(c) == [inflight EXCEPT ![c.kind] = 0]
ReleasedOnSuccess(c) ==
    IF c.ans = "ok" /\ inflight[c.kind] = c.slot
    THEN [inflight EXCEPT ![c.kind] = 0] ELSE inflight

\* The re-check after every await.
Current(c) == running /\ gen = c.gen

\* finally: only the call that still holds the guard clears it.
Released(c) ==
    IF inflight[c.kind] = c.slot
    THEN [inflight EXCEPT ![c.kind] = 0]
    ELSE inflight

\* What the machine, the network or the HTTP engine can answer to a call.  A
\* call on the server's own machine reads files or runs a command there.
Outcomes(c) ==
    IF c.kind = "online"
    THEN {a \in {"ok", "network", "auth"} :
            c.isLocal \/ a = (CASE reach[c.host] = "up"   -> "ok"
                                [] reach[c.host] = "down" -> "network"
                                [] OTHER                  -> "auth")}
    ELSE {a \in {"ok", "empty", "throw"} :
            a = "ok" => c.isLocal \/ ~SshBacked(c.kind) \/ reach[c.host] = "up"}

\* The answer leaves the machine; that of an abandoned call is never read.
Answer(c) ==
    /\ c.ans = "pending" /\ Current(c)
    /\ \E a \in Outcomes(c) : calls' = (calls \ {c}) \cup {[c EXCEPT !.ans = a]}
    /\ UNCHANGED <<running, gen, cfg, liveness, inflight, readings, reach, failedHost>>

-----------------------------------------------------------------------------
(* Liveness: _checkOnline.                                                 *)

CheckOnline ==
    /\ retryIn = 0
    /\ Send("online")
    /\ UNCHANGED <<running, gen, cfg, liveness, readings, reach, failedHost>>

CheckSucceeded ==
    /\ online' = TRUE /\ announced' = "online"
    /\ reason' = "none" /\ failures' = 0 /\ retryIn' = 0 /\ sinceOk' = 0
    /\ UNCHANGED <<readings, failedHost>>

\* A local check that pinged goes on to read the uptime before it commits.
PingSucceeded(c) ==
    /\ online' = TRUE /\ sinceOk' = 0
    /\ calls' = (calls \ {c}) \cup {[c EXCEPT !.stage = "uptime"]}
    /\ UNCHANGED <<failures, retryIn, reason, announced, inflight, readings, failedHost>>

\* Mutant: the error text as it came, empty or not.
BareReason(c) == IF c.ans = "auth" THEN "auth" ELSE ""

\* livenessReason: what the failure was, never an empty string.
LivenessReason(c) == c.ans

\* Mutant: only the check that finds the unit newly offline clears.
InvalidateOnTransition ==
    /\ metrics' = [d \in Domains |->
          IF online /\ d \in Invalidated THEN NoData ELSE metrics[d]]
    /\ collOk' = [d \in Domains |-> ~(online /\ d \in Invalidated) /\ collOk[d]]
    /\ UNCHANGED mac

InvalidateSshMetrics ==
    /\ metrics' = [d \in Domains |-> IF d \in Invalidated THEN NoData ELSE metrics[d]]
    /\ collOk' = [d \in Domains |-> d \notin Invalidated /\ collOk[d]]
    /\ UNCHANGED mac

CheckFailed(c) ==
    /\ failures' = SmallerOf(failures + 1, FailureCap)
    /\ reason' = LivenessReason(c)
    /\ retryIn' = LivenessDelay(failures', reason')
    /\ failedHost' = c.host
    /\ UNCHANGED sinceOk
    /\ IF sinceOk > ONLINE_GRACE
       THEN /\ online' = FALSE /\ announced' = "offline"
            /\ IF cfg.isLocal THEN UNCHANGED readings ELSE InvalidateSshMetrics
       ELSE UNCHANGED <<online, announced, readings>>

LandCheck(c) ==
    /\ c.kind = "online"
    /\ UNCHANGED <<running, gen, cfg, reach>>
    /\ \/ /\ Current(c) /\ c.isLocal /\ c.stage = "sent" /\ c.ans = "ok"
          /\ PingSucceeded(c)
       \/ /\ Current(c) /\ c.ans = "ok" /\ (c.isLocal => c.stage = "uptime")
          /\ calls' = calls \ {c} /\ inflight' = Released(c)
          /\ CheckSucceeded
       \/ /\ Current(c) /\ c.ans \in {"network", "auth"}
          /\ calls' = calls \ {c} /\ inflight' = Released(c)
          /\ CheckFailed(c)
       \/ /\ ~Current(c)
          /\ calls' = calls \ {c} /\ inflight' = Released(c)
          /\ UNCHANGED <<liveness, readings, failedHost>>

-----------------------------------------------------------------------------
(* Collector polls: _pollDomain and refreshDomain.                         *)

\* Mutant: the timer of a probe that was switched off still polls it.
PollWhateverIsOn(d) ==
    /\ SshBacked(d) => cfg.isLocal \/ online
    /\ Send(d)
    /\ UNCHANGED <<running, gen, cfg, liveness, readings, reach, failedHost>>

PollDomain(d) ==
    /\ SshBacked(d) => cfg.isLocal \/ online
    /\ d \in cfg.on
    /\ Send(d)
    /\ UNCHANGED <<running, gen, cfg, liveness, readings, reach, failedHost>>

\* A manual storage refresh ignores the offline pause and the off switch.
RefreshStorage ==
    /\ "storage" \in Domains
    /\ Send("storage")
    /\ UNCHANGED <<running, gen, cfg, liveness, readings, reach, failedHost>>

\* A discovery that could not tell keeps the list, or clears it once it is old.
Readings(c) ==
    CASE c.ans = "ok"                                   -> {c.host}
      [] c.ans = "throw" /\ c.kind # "runtimes"         -> {metrics[c.kind]}
      [] c.ans = "empty" /\ c.kind = "residentModels"   -> {metrics[c.kind], NoData}
      [] OTHER                                          -> {NoData}

\* collectionOk(domain) after this answer.
SuccessAfter(c) ==
    CASE c.ans = "throw" /\ c.kind \notin Flagged -> collOk[c.kind]
      [] c.kind \in {"runtimes", "comfy", "tailscale"} -> FALSE
      [] c.kind = "llm" /\ c.ans # "throw" -> TRUE
      [] OTHER -> c.ans = "ok"

\* The network answer of a machine whose MAC is not on record yet: the hook
\* persists it and, unless that fails, edits this same monitor before the
\* poll has finished.
DiscoversMac(c) == c.kind = "network" /\ c.ans = "ok" /\ mac # c.host

Commit(c) ==
    /\ \E r \in Readings(c) : metrics' = [metrics EXCEPT ![c.kind] = r]
    /\ \/ /\ collOk' = [collOk EXCEPT ![c.kind] = SuccessAfter(c)]
          /\ inflight' = Released(c)
          /\ UNCHANGED <<gen, liveness, mac, failedHost>>
       \/ /\ DiscoversMac(c) /\ gen < MaxGen
          /\ mac' = c.host
          /\ gen' = gen + 1
          /\ inflight' = [k \in Kinds |-> 0]
          /\ RetryNow
          /\ collOk' = [FlagsCleared EXCEPT ![c.kind] = TRUE]
          /\ UNCHANGED <<online, sinceOk, reason, announced, failedHost>>

LandPoll(c) ==
    /\ c.kind \in Domains
    /\ calls' = calls \ {c}
    /\ UNCHANGED <<running, cfg, reach>>
    /\ \/ Current(c) /\ c.ans # "pending" /\ Commit(c)
       \/ /\ ~Current(c) /\ inflight' = Released(c)
          /\ UNCHANGED <<gen, liveness, readings, failedHost>>

-----------------------------------------------------------------------------
(* Life cycle and environment.                                             *)

\* Any unit record.  The routes that keep a monitor change credentials, ports
\* and switches; its tests move it to another address.
UpdateConfig(c) ==
    /\ gen < MaxGen
    /\ gen' = gen + 1
    /\ cfg' = c
    /\ RetryNow
    /\ inflight' = [k \in Kinds |-> 0]
    /\ metrics' = [d \in Domains |->
          IF d \in ClearedWhenOff /\ d \notin c.on THEN NoData ELSE metrics[d]]
    /\ collOk' = [d \in Domains |->
          FlagsCleared[d] /\ (d = "residentModels" => d \in c.on)]
    /\ UNCHANGED <<running, online, sinceOk, reason, announced, calls, mac, reach,
                   failedHost>>

Start ==
    /\ ~running /\ gen < MaxGen
    /\ running' = TRUE /\ gen' = gen + 1
    /\ UNCHANGED <<cfg, liveness, inflight, calls, readings, reach, failedHost>>

Stop ==
    /\ gen < MaxGen
    /\ running' = FALSE /\ gen' = gen + 1
    /\ inflight' = [k \in Kinds |-> 0]
    /\ collOk' = FlagsCleared
    /\ UNCHANGED <<cfg, liveness, calls, metrics, mac, reach, failedHost>>

Tick ==
    /\ sinceOk' = SmallerOf(sinceOk + 1, OverGrace)
    /\ retryIn' = LargerOf(retryIn - 1, 0)
    /\ UNCHANGED <<running, gen, cfg, online, failures, reason, announced,
                   inflight, calls, readings, reach, failedHost>>

\* A host comes up, goes down or starts refusing the credentials.
HostChanges(h) ==
    /\ \E s \in HostStates : reach' = [reach EXCEPT ![h] = s]
    /\ UNCHANGED <<running, gen, cfg, liveness, inflight, calls, readings, failedHost>>

Next ==
    \/ CheckOnline
    \/ \E d \in Domains : PollDomain(d)
    \/ RefreshStorage
    \/ \E c \in calls : Answer(c) \/ LandCheck(c) \/ LandPoll(c)
    \/ \E c \in Configs : UpdateConfig(c)
    \/ Start
    \/ Stop
    \/ Tick
    \/ \E h \in Hosts : HostChanges(h)

Spec == Init /\ [][Next]_vars

\* The liveness timer fires for ever, time passes, and every call ends: SSH
\* and HTTP calls carry timeouts.  Polls, edits and hosts owe nothing.
FairSpec ==
    /\ Spec
    /\ WF_vars(CheckOnline)
    /\ WF_vars(Tick)
    /\ \A k \in Kinds, s \in Slots :
        WF_vars(\E c \in calls : /\ c.kind = k /\ c.slot = s
                                 /\ (Answer(c) \/ LandCheck(c) \/ LandPoll(c)))

-----------------------------------------------------------------------------
(* Properties.                                                             *)

\* Every variable has its type, and the generation never passes its bound.
TypeOK ==
    /\ running \in BOOLEAN
    /\ gen \in 0..MaxGen
    /\ cfg \in Configs
    /\ online \in BOOLEAN
    /\ sinceOk \in 0..OverGrace
    /\ failures \in 0..FailureCap
    /\ retryIn \in Nat
    /\ reason \in {"none", "network", "auth"}
    /\ announced \in {"unknown", "online", "offline"}
    /\ inflight \in [Kinds -> 0..MaxPending]
    /\ calls \subseteq Call
    /\ metrics \in [Domains -> Hosts \cup {NoData}]
    /\ collOk \in [Domains -> BOOLEAN]
    /\ mac \in Hosts \cup {NoData}
    /\ reach \in [Hosts -> HostStates]
    /\ failedHost \in Hosts \cup {NoData}

\* The timers never run two polls of a domain, or two liveness checks, of the
\* same run at once, however edits and restarts overlap with slow answers:
\* the finally block of an abandoned call must not open the guard of its
\* successor.
OneCallPerDomain ==
    \A c1, c2 \in calls :
        c1.kind = c2.kind /\ c1.gen = gen /\ c2.gen = gen => c1 = c2

\* A reading is only ever replaced by the default or by an answer of the
\* machine the unit points at now: a poll sent to the machine it pointed at
\* before an edit can no longer publish.
NoForeignReading ==
    [][\A d \in Domains :
         metrics'[d] # metrics[d] => metrics'[d] \in {NoData, cfg'.host}]_vars

\* While a GPU or CPU reading counts as collected (what fleet energy and the
\* histories integrate), it was read from the machine the unit points at.
CollectedIsOwn ==
    \A d \in Domains \cap Flagged : collOk[d] => metrics[d] = cfg.host

\* The retry backoff belongs to the machine the unit points at: the failure
\* that set it was never one of a machine the unit pointed at before.
BackoffIsOwn ==
    failures > 0 \/ retryIn > 0 => failedHost = cfg.host

\* An edit starts failures and retry over and keeps the reason of the last
\* failure, which is of the machine the unit pointed at then.
ReasonFromBeforeEdit == reason # "none" /\ failures = 0

\* A unit that is known to be offline says why (snapshot.offlineReason), and the
\* reason is that of the machine it points at; except after an edit, until the
\* first check that lands: then the old reason stands, and the check is due.
OfflineHasReason ==
    announced = "offline" /\ ~online =>
        /\ reason # "none"
        /\ failedHost = cfg.host \/ (ReasonFromBeforeEdit /\ retryIn = 0)

\* What index.js serves of a unit beside its readings: the flags and the time it
\* is asked next are of the machine it points at now; the reason it is offline
\* is too, from the first check after an edit on.
ServedIsOwn == CollectedIsOwn /\ OfflineHasReason /\ BackoffIsOwn

\* A probe the user switched off shows nothing, although its last poll may
\* still be under way and answer later.
DisabledShowsNothing ==
    \A d \in Domains \cap ClearedWhenOff : d \notin cfg.on => metrics[d] = NoData

\* The MAC kept for Wake-on-LAN is recorded from the machine the unit points at.
MacIsOfThisUnit ==
    [][mac' # mac => mac' = cfg'.host]_vars

\* A unit whose machine stays reachable is online for good in the end,
\* whatever the backoff had grown to.
RecoversWhenReachable ==
    <>[](running /\ reach[cfg.host] = "up") => <>[]online

\* A remote unit whose machine stays unreachable ends up offline with the
\* no-data defaults, also when a good answer lands after the first clearing.
UnreachableIsCleared ==
    <>[](running /\ ~cfg.isLocal /\ reach[cfg.host] # "up")
        => <>[](~online /\ \A d \in Domains \cap Invalidated : metrics[d] = NoData)
=============================================================================

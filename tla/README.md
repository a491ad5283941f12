# sparkDash in TLA+

sparkDash is a dashboard server (Node.js, `src/server/`) for a fleet of machines, the *units* or
*Sparks*. It polls each over SSH or HTTP, shows what it reads, and acts on request: it starts and
stops model servers, updates Hermes Agent, runs benchmarks, sends alerts. These modules specify the
parts of it where the order of events decides whether it works.

Node runs one callback at a time, so the atomic step of every module is the code between two
`await`s (or between two callbacks). What makes the code hard is what happens at an `await`: the
unit is edited, the monitor restarted, another request arrives, the machine goes away, the dashboard
ends, and the answer lands afterwards in a state nobody was thinking of.

## 1. The system

### Components

| Component | State it keeps | Operations |
|---|---|---|
| **Spark monitor** `sparks/SparkMonitor.js` | running flag and run generation, one in-flight token per domain, cached readings and success flags, liveness (online, last success, failures, next attempt, reason), Hermes status | `start`, `stop`, `updateConfig`, `_checkOnline`, `_pollDomain` (12 domains), `refreshDomain`, `runHermesUpdate`, `getState` |
| **Hermes probe** `collectors/HermesProbe.js` | none; the installed version, and git locks, are on the machine | check, update with one repair and retry |
| **LLM launcher** `llmlaunch/` | launchers on disk; one job per Spark; pid, exit and log files on the Spark | start, attach, stop, cancel, timeout, remove, shutdown |
| **Alert engine** `alerts/engine.js`, `runtime.js`, `conditions.js` | a slot per unit and rule; the firing set on disk | evaluate, reset, restore, persist, remind |
| **Alert delivery** `alerts/notifier.js`, `outbound.js`, `store.js` | channels | send to a channel |
| **Unit registry, secrets** `sparks/SparkRegistry.js`, `secretsStore.js` | units, secrets: two files | add, update, remove, reorder, load with migration, two-file commit with rollback |
| **Health findings** `health/HealthEvaluator.js` | recent kernel errors; held findings (in the monitor) | evaluate |
| **Benchmarks, showcase** `collectors/*Bench.js`, `ShowcaseManager.js` | a running job each, history with checkpoints | start, cancel, checkpoint, shut down |
| **Tool evaluation** `tooleval/` | runs on disk, a watcher per run, detached programs on Sparks | start, watch, stop, check lost runs, delete |
| **GPU clock caps** `gpuclock/` | units in use, units held after a lost connection, password lock | set, reset |
| **MQTT publisher** `mqtt/` | connection, retained topics, clears under way | publish, clear removed units, reconnect |
| **Energy and token ledgers** `energy/`, `llmtokens/` | minute buckets; base and recent file | integrate, roll, persist, load |
| **Unit history, event log** `metrics/`, `events/` | ring buffers | append, downsample, persist |
| **Occupancy** `occupancy/` | poller epoch, last projection | poll, project |
| **Collectors** `collectors/` | caches, tunnels | one reading of one domain |
| **HTTP and WebSocket server** `index.js` | monitors by unit | routes, broadcast tick |

The frontend, the macOS agent, the Home Assistant integration and the helper scripts are separate
programs that read the API.

### How they interact

* A request that changes a password, a probe, ports or disabled devices goes to the registry and
  calls `updateConfig` of the unit's monitor (hot edit). Any other PATCH stops the monitor and puts
  a new one in its place, while calls of the old one are still unanswered.
* A network poll that finds a new MAC calls back into the registry, which calls `updateConfig` of the
  monitor that is *inside that poll*.
* The broadcast tick of `index.js` takes the snapshot of every monitor and hands it to the alert
  runtime, the ledgers, the histories, MQTT and the WebSocket clients.
* The launcher carries shell programs over ssh. They share a pid file and an exit file per model with
  the programs of earlier and later jobs, and survive the dashboard.
* Hermes checks and updates run in the same git directory of the same machine, started by a
  monitor, by a request and by monitors that have been replaced.
* The test of a unit's connection writes a password to the registry and does not tell the monitor.

### What makes each part correct

* **Monitor**: what is shown of a unit was read from the machine it points at; one call of a kind per
  run; flags and backoff belong to the current machine, and the reason it is offline does from the first
  check after an edit on; a machine that comes back is found, one that goes away stops showing numbers.
* **Hermes**: the status is "running" only while the live monitor has a job, and a job is shown and alone
  unless a hot edit switched its probe off; a check never undoes that; each job ends.
* **Launcher**: one job at a time per Spark, a stop script alone, one copy of a script, truthful and
  final outcomes, every job over ssh ends, nothing that still runs is forgotten.
* **Alerts**: nothing fires or ends on a blip, nothing is said twice, who hears "firing" hears
  "resolved", a restart changes none of this, lasting trouble is reported.
* **Registry**: the two files agree after every failing write, and monitors run with what they say; no
  secret is lost, or kept for a host it was not entered for.
* **Benchmarks, tool evaluation, clock caps**: mutual exclusion holds across the awaits of the
  routes; a run is never both lost and running; nothing waits for a run that is gone.
* **MQTT**: a removed unit's retained topics are cleared, a present unit's never.
* **Ledgers**: no minute counted twice or lost beyond what has not been saved.

The hazards, each at its line, are listed in `PROJECT.json`.

## 2. The modules

`Module.tla` is a component; `MCModule.tla` gives the instance for TLC and `MCModule_run.cfg` its
constants and properties; `Module_proofs.tla` holds the theorems. Operators under a comment "Mutant"
are not part of the specification: each is a plausible bug of the definition below it, and the
property named with it in `PROJECT.json` fails when it takes that definition's place.

### SparkMonitor

One monitor. Time is counted in ticks and only ages are kept: `sinceOk` for `_lastSuccessAt`,
`retryIn` for the time to the next attempt, capped where only a comparison matters.

| Code | Module |
|---|---|
| `_runGeneration`, `_running`, `_inflight` symbols | `gen`, `running`, `inflight` (0: no token) and `Slots` (the lowest unused one is the fresh symbol) |
| the guard at the head of a handler, up to its `await` | `Send`; `CheckOnline`, `PollDomain`, `RefreshStorage` |
| the call itself | a record in `calls`: where it was sent, under which generation, what came back |
| the re-check of `_running` and `_runGeneration` after an `await`; `finally` | `Current`, `Released` |
| `_checkOnline` after its ping | `LandCheck`: `PingSucceeded` (local: a second await for the uptime), `CheckSucceeded`, `CheckFailed` with `InvalidateSshMetrics` |
| `nextLivenessDelayMs`, `livenessReason` | `LivenessDelay`, `LivenessReason` |
| `_pollDomain`, its commit per domain | `LandPoll`, `Commit`, `Readings`, `SuccessAfter` |
| `onMacDiscovered` and the edit it causes | second disjunct of `Commit` |
| `updateConfig`, `start`, `stop` | `UpdateConfig`, `Start`, `Stop` |

A reading is abstracted to the machine it came from, which is what the properties tell apart. A "host" is an ssh target, that is a machine and the account on it: the
routes of `index.js` that keep a monitor change the credentials, and `updateConfig` itself takes any
record (`sparks/__tests__/monitor-lifecycle.test.js:124` moves the unit to another address), so the model
does too. `reach` is the environment: what the machines do. `failedHost` is a history variable.

`NoForeignReading` and `CollectedIsOwn` are not the same: a reading of the old machine *stays* on
display after a hot edit (the code clears only what an edit switched off), but it can no longer
*arrive*, and it does not count as collected. The reason of an offline unit stays as well: `updateConfig`
resets the failures and the next attempt (`SparkMonitor.js:269`) and leaves `offlineReason`, which is served
(`:688`). `OfflineHasReason`, a part of `ServedIsOwn`, says that it is of the current machine, or from
before the last edit with no failed check since and the next one due at once.

### HermesUpdate

The status, version and badge of one unit's Hermes Agent over the life of several monitors
(`PatchUnit` replaces the monitor while its job goes on). A job passes through the stages update,
repair and retry. `CheckLands` covers the answers that say less: missing, too old, broken, out of
reach. `UpdateConfig` is the hot edit of a live monitor (`SparkMonitor.js:354`). One that switches Hermes
monitoring off drops the probe and sets the status to "idle" whatever job runs; switched on again, a second
job can run beside the first. The history field `forgotten` marks these jobs, and those started beside them,
and `RunningIsTheJob` excepts them. No route of `index.js` makes that edit (a PATCH with `hermesMonitoring`
replaces the monitor), but `updateConfig` handles it, so the model has it.

| Code | Module |
|---|---|
| `_pollDomain("hermes")`, the check route | `StartCheck` |
| `applyHermesCheck` | `CheckLands` with `StatusAfterCheck` |
| `runHermesUpdate` up to its `await`; after it | `RunHermesUpdate`; `UpdateSucceeds`, `UpdateFails` |
| `HermesProbe.update`, `_repairVenv` | `LaunchFails`, `Retry` |
| PATCH of the unit; `updateConfig` | `PatchUnit`; `UpdateConfig` |

### LauncherManager

Three parties: the dashboard (`jobs`, `current`, `store`), the child process of a job (`link`) and the
program it carries on the Spark (`remote`), with the scripts that live there and the pid and exit
files (`spark`). `Local` distinguishes the dashboard's own machine, where there is no ssh: a signal
reaches the program, and the child's "close" waits for all who hold its pipes; and a real Spark, where
killing ssh closes the child at once and the program notices later.

| Code | Module |
|---|---|
| `start`, `attach`, `stop` with `_detachWatcher` and the spawn | `StartJob` (with `MayStart`, `WhenReplaced`) |
| `_finish`, child "close" and "error" | `Outcome`, `Closed`; `ChildCloses`, `ConnectionLost` |
| `cancel`, the timer | `Cancel`, `Timeout` |
| `removeLauncher` before and after its `await` | `AskRemove`, `Remove` |
| `removeSpark`, `shutdown` | `RemoveSpark`, `Restart` |
| `commands.js`: start, attach, stop programs | `StartProgram`, `AttachProgram`, `StopProgram` |
| `follow`; the wrapper that writes the exit code | `FollowEnds`; `ScriptEnds` |
| the stop program's look at its parent, and its traps | `ProgramNotices`, `ProgramKilled`, `AdriftEnds` |

### AlertEngine

One slot per unit and rule. Instants (`startsAt`, `falseSince`, `severityChangeSince`,
`lastNotifiedAt`) are the time since them, capped. A condition is reduced to its severity: an offline
unit has only its offline rule judged. `Evaluate` is one broadcast: the pass over the units
(`AfterTrue`, `AfterFalse`), removed units, reminders, and the save with its heartbeat, which may fail.
`Reset` is the tick that finds notifications off; `Restart` reads the set back if it is young enough.
`seen` and `told` are history variables: what was judged, and what was sent.

### The unit registry: RegistryData, AtomicRegistry, SparkRegistry

`RegistryData` holds what both levels share: units, secrets and the writes each request consists of
(`AddPlans`, `UpdatePlans`, `DropPortPlans`, `RemovePlans`). A unit is reduced to what its secrets depend
on, and a secret to the host it was entered for. `SparkRegistry` is the code: memory, two files, and one
write per step, each of which may fail (`MaxFaults`) or be the last before a crash. `AtomicRegistry` is
the promise: one store, requests that happen or do not. `IsAtomic` is the refinement,

    Atomic == INSTANCE AtomicRegistry WITH file <- Filed, served <- Served

where the middle of a request is still the state before it. The promise has five exceptions, each an
action of its own: `Unsynced`, `Botched`, `Crash`, `Edited` and `BlankStart`, so a step that is none of
them must be atomic.

| Code | Module |
|---|---|
| `_load` with its migration, `_reconcileLlmApiKeysAtLoad` | `Load`, `LoadFails`, `Migrate`, `Strip`, `Reconcile`, `Serve` |
| `addSpark`, `updateSpark`, `removeSpark`, the key sync of `patchSpark` | `Begin` with the plans, `WriteSecrets`, `Answer`, `SyncFails` |
| `_save`, `_saveSecrets` that fail, and the rollback | `WriteFails`, `UndoUnits`, `UndoSecrets` |
| the secrets routes, the test of a connection, the order of the units | `EditSecret`, `TestPassword`, `Reorder` |
| the end of the process, a hand in the files | `Crash`, `EditFile` |

A monitor runs with the copy of unit and secrets it was given (`monitors`, `Given`). `MonitorsAreCurrent`
says that it is the stored one between requests, with two exceptions in its text: a password saved by the
test of a connection (`tested`; the route at `index.js:862` calls `setPassword` and not `updateConfig`), and a
unit whose key sync failed.

`apart` remembers that a rollback itself failed, `torn` the units that a crash between the two files hit;
the properties except both and nothing else. Host and password of a unit are two files, so after such a
crash a new host can stand beside an old password.

### MqttPublisher

The publisher's memory `pub` (connection, publishes on the wire, what it takes for sent, clears it owes,
discovery configs it knows or has found), the retained messages of the `broker`, and a network that
drops, wedges (`stuck`) or refuses. A payload is the state of its unit; one discovery config per unit
stands for its entities.

| Code | Module |
|---|---|
| `_publish` with its cap, `_publishIfChanged` | `Room`, `Publish`, `PublishChanged` (with `Tell`) |
| `_clearRemovedUnits`, `removeUnit` | `ClearRemoved`, `RemoveUnit` |
| `_syncDiscovery`, `_flushDiscoveryRemovals`, `_clearDiscovery`, `_adoptFoundDiscovery` | `SyncDiscovery`, `FlushRemovals`, `ClearDiscovery`, `AdoptFound` |
| `onConnect`, the sentinel and the full `_readDiscovery` | `Connect`, `StartRead`, `ReadEnds` |
| `publishFleet` at each tick, `_checkStall` | `Tick`, `StalledTick`, `Reopened` |
| late errors of publishes | `LateErrors` |
| `applySettings`, `_retire` | `SwitchOn`, `SwitchOff`, `SwitchDiscovery`, `RetireTimesOut` |

`excused` collects the topics the code is known to get wrong; see "What the code does" below. The client
library is external: that it fails outstanding publishes when it is ended is taken from the stub of the
tests and from where the client is closed (`MqttPublisher.js:714`).

### ToolEval

One Spark: `store` is the index of runs, `job` the one watch, `at` what is on the Spark, `calls` the short
calls (check, stop) whose answers may be old when they land.

| Code | Module |
|---|---|
| `startRun`, `attachRun`, installs | `StartRun` (`MayStart`), `AttachRun`, `Install` |
| `_finish`, the close of the child, `_afterJob` | `Finish` with `Outcome`, `FinalStatus`, `Reported`; `Reports`, `Lost`, `KilledCloses` |
| `cancelWatch`, the timer | `CancelWatch`, `TimesOut` |
| `checkRun`, `stopRun`, `deleteRun`, `_captureResult` | `Refresh`, `CheckLands`; `StopRun`; `RequestDelete`; `ReadResult`, `Captures` |
| eviction by `MAX_RUNS`, removal of the Spark, the end of the process | `Evicted`, `RemoveSpark`, `Restart` |
| the programs of `commands.js` on the Spark | `Arrives`, `WritesPid`, `ToolEnds`, `ToolDies`, `Answers` |

`excused` are the runs whose end was guessed (`Guesses`), and those that left the index while on record as
running, by a DELETE, by eviction or with their Spark. A DELETE is one atomic step: the look at the Spark that
the route would take before it (`routes.js:300`) is under a condition that never holds, see below. The answer
GONE of `checkRun` (`ToolEvalManager.js:613`) is not in the model, as the program makes the directory before
it looks for it and never prints that.

### Benchmarks

Decode, prefill, quality and the showcase with their routes. A job is a record that is never dropped, so
that the properties can ask what became of it; `live` says that its loop has not ended.

| Code | Module |
|---|---|
| a bench route before its `await` of the target; after it | `RouteAllows`, `Request`; `StartAwaited`, `Refused` (`StartAtOnce` for a saved port, where nothing is awaited) |
| `consumeBenchStartQuota` and what each manager asks | `BelowCap`, `Asks`, `MayStart` |
| `cancel`, the loop that unwinds | `CancelJob`, `CancelShowcase`; `GivesUp`, `Settle` (`Result`, `Releases`) |
| synchronous checkpoints; the asynchronous writer of the quality manager | `Written`, `Saved`; `Checkpoint`, `CheckpointLater`, `Writer...` |
| `interruptAll` | `Interrupt` |
| `_recoverInterruptedActive` | `Recovered`, `Restarts`; `Crash`, `CrashInSettle` |
| history routes | `Clear`, `DeleteRun` |

`met` is a history variable: the jobs that started while a request awaited its target.

## 3. What is checked

| Run | Question | Answer |
|---|---|---|
| `monitor_edit` | A unit is edited between two machines (and to the local one) while checks and GPU polls are unanswered | no reading of the old machine arrives, flags and backoff are the current machine's, a reason outlives an edit only until the check that is due; one call per domain |
| `monitor_probes` | The MAC edit from inside a poll, probes switched off, stop and start | the MAC is the unit's; a probe that is off shows nothing |
| `monitor_liveness` | Fair timers, a machine that comes and goes | it recovers when reachable, and is cleared when not |
| `hermes_jobs` | Checks land late, launches fail, the unit is edited with its monitor replaced or kept | "running" means a job; a job is alone and shown unless a hot edit made the monitor forget it; each job ends |
| `launcher_remote` | Jobs over ssh, lost connections, cancels, timeouts, removals, restarts | one job, stop alone, truthful and final outcomes, everything ends |
| `launcher_local` | The same without ssh, where signals and pipes behave otherwise | a stop script keeps the Spark to itself |
| `alert_timing` | One rule over outages, edits, rule and notification switches and a restart | no blip fires or resolves, nothing is repeated, channels agree, lasting trouble and calm get through |
| `alert_rules` | Two rules beside each other, saves that fail | the saved set is the firing one |
| `registry_commit` | Every request with failing writes, crashes and edited files | memory and files agree, and monitors run with them but for a tested password and a failed key sync; secrets stay with their host; start-up deletes none; the registry refines the atomic store |
| `mqtt_broker` | Removals, outages, refusals, switches, restarts | no clear is forgotten, nothing is taken for sent that is not, the broker settles on the fleet |
| `tooleval_runs` | Watches lost, attached, cancelled; stops, checks and deletions that land late | one tool at a time and a true record, of runs not deleted while they go on; a completed run stays so; a watch settles its run |
| `bench_jobs` | Requests that race across their `await`, cancels, clears, shutdowns, crashes | the cap and the exclusion hold; no job is forgotten, comes back or blocks its Spark |

Properties that belong together are stated as one: `ServedIsOwn`, `Consistent`, `RecordIsTrue`,
`Bookkeeping`, `HistoryHolds`, `NotOnABlip`, `NothingRepeated` and `LastingIsReported` are conjunctions of
named parts or of two obvious ones.

### What the code does that its comments do not say

The models have all of the following. The properties except what is listed here, name by name, and hold
otherwise.

* Every Hermes script deletes the git locks it finds, those of a running update included
  (`HermesProbe.js:156`; the comment at `:154` speaks of stale ones; this one is left out of the model). A
  PATCH that replaces the monitor lets a second update run beside the first (`index.js:728`), and so would a
  hot edit that switches the probe off and on (`SparkMonitor.js:363`).
* An edit keeps the offline reason of the machine before it until the next check (`SparkMonitor.js:269`).
* Clearing an offline unit leaves its tailnet, resident-model and runtime readings
  (`SparkMonitor.js:995`), and one counter serves network failures and refused credentials
  (`SparkMonitor.js:969`; `CHANGELOG.md:349` promises the refused ones four quick retries).
* The watcher of a dead start script deletes the pid file of its successor (`commands.js:126`), after
  which a third start launches a second copy. A launcher can be removed under a running script, because
  "unknown" counts as stopped and the answer is old when it is used (`LauncherManager.js:426`). On the
  local machine a stop script that hangs keeps its job past the timeout (`LauncherManager.js:310`), so
  `JobsEnd` is checked over ssh only.
* An outage counts as waiting time for an alert (`engine.js:306`).
* Registry: a failing key sync answers a PATCH with 500 although the unit is updated, and leaves its
  monitor on the old configuration (`Unsynced`). The test of a connection saves a password and leaves the
  monitor on the old one (`index.js:862`). A failing rollback leaves files and memory apart until
  the next start (`Botched`). A migration whose write fails is taken for a file that cannot be read: no
  unit is served, and the next request overwrites the old file (`BlankStart`).
* MQTT (`excused`): clears are dropped on switch-off, restart and when there is no client; a unit that was
  added again after its clear failed is cleared with the next removed one (`MqttPublisher.js:607`);
  configs of an earlier process are overlooked when the pending clear of the dashboard's own config goes
  out before the sentinel is read (`:202`), when discovery is switched during a read, and when a read
  ends by its timer. While all slots but one are taken at every tick, the second clear of a unit is never
  sent, which is why `Settles` assumes `CatchesUp`.
* Tool evaluation (`excused`): the end of a run is guessed when the connection is lost after a stop was
  asked for ("stopped") or before anything was printed ("failed"), when a check or an attach arrives
  before the pid file is written, and when the ssh of an attach cannot be spawned; a live run is given up
  by every deletion, by eviction and by removal of the Spark. For DELETE asks `spark.online` three times
  (`routes.js:300`, `:310`, `:315`), and the units the routes see are those of the registry (`index.js:887`),
  which have no such field: the run is not checked, neither 409 (`:308`, `:311`) is ever sent, `force` makes no
  difference and the run's files stay on the Spark. So `OneTool` and `RecordIsTrue` say nothing of a run that
  was deleted while on record as running, and a second tool can run beside it. A watch that is cancelled does
  not stop its run, whatever the event log says. An end on record is not quite final: "failed" can become
  "stopped" when the run is attached to and stopped (`OutcomeIsFinal` fixes "completed", and that no end
  becomes "running").
* Benchmarks: decode asks only its own manager, prefill decode, quality both, none the showcase, so two
  jobs run together when the first started while the second awaited the lookup of its target: that, and
  no other way, is what `Exclusive` allows. A cancelled showcase releases its Spark twice
  (`ShowcaseManager.js:578`, `:832`), decode releases whatever runs after a shutdown
  (`DecodeBench.js:1219`): `RunningIsListed` names both. A rename that was sent off before a synchronous
  write can overwrite it (`QualityBench.js:511`). A quality job cut short by a shutdown may become
  "cancelled" (`QualityBench.js:783`). A showcase that was cancelled and cleared is archived again.

### Bounds

* `MaxGen` counts starts, stops and edits. 2 is a start and one more, which puts an abandoned call
  beside its successor; 3 in `monitor_probes` adds the MAC edit from inside a poll to an edit or a
  restart. `MaxPending`: 2 unanswered calls of one kind, the present one and an abandoned one;
  `monitor_probes` needs only one, as its subject is one call under two generations.
* Machines: two, so that "the other one" exists. Domains: those whose handling differs for the run's
  question: `gpu` (own success flag), `network` (MAC), `residentModels` (cleared when off), `storage`
  (cleared when offline, manual refresh). The proofs cover every set of domains.
* The retry schedule is `<<1, 2>>` and the credential delay 2 or 3, which keeps the order of the
  real delays and has every branch; the proofs cover every schedule.
* Launcher, `MaxJobs`: 2 for all pairs of actions of one model. One model is enough, since programs of
  different models share no file.
* Hermes: two monitors, two releases, one unanswered check (of the old monitor or version, or of the new),
  and two jobs of one monitor, so that one can be started beside a forgotten one. The proof covers any number.
* Alerts: `for` 2, clear time 2 (`MIN_CLEAR` 1), reminders every 2, a saved set too old after 3, all
  longer than one tick and short enough to expire; one restart. Two severities are all there are.
  `alert_rules` sets the waits to 0, which makes room for two rules, the saves and their failures.

* Registry: one unit, because a request reads and writes the secrets of one id only; two hosts and two
  ports, so that each target moves and each key is renamed, added and dropped; two failing writes, the
  second one in the rollback of the first. Two ids are out of reach.
* MQTT: one unit with two state topics, two slots (one fewer than the messages of a removal, so the cap
  bites), three steps of the environment: a removal, a failure and what follows. Two units with one topic
  and three steps have been checked too (1.9 million states).
* Tool evaluation: two runs, because what goes wrong is one run taken for another or beside another, and
  two steps of users, network and machines beyond the starts and the course of a run.
* Benchmarks: one Spark with three jobs or requests (a job, its successor and a third of another manager),
  two slots in the cap, two rows of history so that a row is pushed out, three events. Two Sparks with two
  events have been checked too (2.6 million states).

The launcher, MQTT, tool evaluation and benchmark configurations switch the deadlock check off:
when the bounded number of jobs or events is used up and all is over, nothing is left
to do.

### Fairness

* Monitor: the interval `start` sets up calls `_checkOnline` every 5 s for as long as the monitor runs,
  and it goes through once the delay is over, so `CheckOnline` is fair; time passes; every call ends, because ssh commands and HTTP requests carry timeouts. Polls, edits
  and machines owe nothing.
* Hermes: a script ends or is given up at its timeout, and the poll timer fires.
* Launcher: timers fire, a killed child closes (over ssh; on the local machine only once its pipes are
  free), a program that lost its connection or was killed ends. *Nothing* is assumed of the users'
  start and stop scripts.
* Alerts: time passes, and the broadcast tick calls the runtime.
* MQTT: some step of the publisher, its client, its timers or the broker is taken as long as one is
  possible (`WF_vars(System)`); the fleet, the user and failures owe nothing.
* Tool evaluation: a watch reaches its time limit and a killed child closes. A tool may run for ever.

Weak fairness is enough everywhere: a timer that is due stays due.

## 4. What is proved

All theorems are of the form `Spec => []Inv` or `Spec => [][A]_vars` and hold for every value of the
constants that satisfies the named assumptions; bounds such as `MaxGen` and `MaxJobs` are arbitrary.

**SparkMonitor_proofs**, from `ConstantsAssumption`. `TypeCorrectness` goes action by action. The
other properties are not inductive: that a late answer does no harm depends on which token and which
machine it has. The strengthening is `IInv == TypeOK /\ CallsInv /\ ReadingsInv`, where `CallsInv` says
that no two calls share a token (`OnePerSlot`), none is of a later generation (`NotFromTheFuture`), one of
the present generation holds its guard (`CurrentHoldsGuard`) and was sent to the present target
(`CurrentIsOwn`). An edit keeps it because it raises the generation and so leaves no call current; a
`finally` keeps it because of the tokens. From it follow `NoDuplicatePolls`, `ServedStateIsOwn`
(flags, backoff, and what is known of the reason, `OfflineHasReason`) and `ReadingsAreOwn` (an action property).

`MacIsOwn` follows in the same way, `OffShowsNothing` from the conjunct of its name.

**HermesUpdate_proofs**, from `HermesAssumption`. `StatusIsTheJob` needs that jobs belong to the live monitor
or an earlier one (`JobsKnown`), since an edit must not make an old job the new monitor's; a hot edit keeps it
because it marks every job it takes out of sight.
`TypeCorrectness` is inductive by itself.

**LauncherManager_proofs**, from `LauncherAssumption`. `IInv == TypeOK /\ JobsInv /\ ScriptsInv`.
`Coherent(j)` ties status, link, action, marker and watched script of one job together: a running job
has a child, a program with a marker is over and its script too, a completed job has a marker.
`ScriptsInv` says that what lives, and what a pid file names, has been launched: without it a new job
could be mistaken for the watcher of its own script. `OneJob` is the frame lemma of all steps that
change one job; `StartJob`, `RemoveSpark` and `Restart` change several and have proofs of their own.
From it follow `JobsAreExclusive`, `StopIsExclusive`, `CompletedIsTrue` and `OutcomesAreFinal`.

**ToolEval_proofs**, from `ToolEvalAssumption` (the name of no run is none of the runs). `RecordIsTrue` is
about answers that may land at any later time, so `IInv == TypeOK /\ RecordInv /\ JobInv /\ CallsInv` says what
every answer under way is still worth: one that says how a run ended stays true (`CallsInv`), and while the
program of a started run is on its way the Spark has nothing of it and the index waits for it (`JobInv`).
`RecordInv` adds that one run at most is on record as running, which is all that `startRun` asks, and that
nothing is on the Spark of a run that was not started. From it follow `TypeCorrect`, `RecordsAreTrue`,
`OneToolAtATime` and `OutcomesAreFinal`.

**AlertEngine_proofs**, from `AlertAssumption`. `NotOnABlip` and `NothingRepeated` are about what was seen and
what was said, and `IInv` ties both to the slots: the clocks of an alert never run ahead of what was judged
(`SeenInv`), what a slot (and a file young enough to be read) remembers of its messages is what was sent
(`ToldInv`), the file holds nothing but firing alerts (`SavedShape`), and a start reads it before it judges
(`RestoredFirst`, `FileInv`). From it follow `TypeCorrect`, `FileIsCurrent` and `NoBlipCounts`. `NothingTwice`
and `ResolvedAsFired` have a hypothesis, `~DiskFails \/ MaxRestarts = 0`: either saves succeed or the engine
is not restarted. It is needed: with both, TLC finds each property violated, since after a save that failed
the next start does not know what was sent (`engine.js:140`). `alert_timing` checks them under it too.

**SparkRegistry_proofs**, from `DataAssumption`, `DownAssumption` and `RegistryAssumption`. Between two writes
of a request nothing is consistent, so `IInv` says for each program counter what the files and the memory
hold: `RequestInv` that the request is one of the plans of the state it began in and which of its writes the
files have, `StartInv` the same of a start, `IdleInv` of the time between requests; `OwnInv` speaks of
`Settled`, the store a request began from, and `MonitorInv` of the copies the monitors run with. From it follow
`BetweenRequestsConsistent`, `SecretsStayHome`, `StartKeepsAll` and the refinement `RegistryIsAtomic`: the
initial state maps to the initial state of `AtomicRegistry`, and for each action there is a lemma that names
the step of the store (or the stutter) it maps to. It holds for any units, hosts, ports
and number of failing writes.

**Benchmarks_proofs**, from `BenchmarksAssumption` (the set of Sparks is finite, else a cap on all of them could not
be counted). `IInv == Typed /\ JobsInv /\ DiskInv`. In `JobsInv`, `Exclusive` rests on what a request knows
(`RequestInv`: a job of another manager that came to run since the checks is among those it met) and the cap by
`CapInv`, which counts the managers' entries; `TheCapHolds` goes from entries to jobs by an injection. `DiskInv`
says when the list a late rename carries is current (`WriterInv`), what the file and the history owe to each job
(`FileInv`, `RowsInv`) and that what was cleared stays away. "Pushed out" is a matter of counting: a job with no row
has at least `HistoryLimit` peers in its list. What `interruptAll` and the recovery push is a recursive function
over the numbers of the jobs; `Induction` gets induction from the least number of a set
(`NatLessThanWellFounded`), since the library's induction theorems take an operator. From it follow
`TheCapHolds`, `JobsExclude`, `BooksAreRight`, `NoJobIsForgotten` and `OutcomesAreFinal`.

**`MqttPublisher_proofs`**: what a topic retains in the end (`Final`) picks the last of the messages under way
that the broker has not taken; the proof works with `IsFinal`, the same without a choice (`FinalIsFinal`).
`CacheIsTrue` and `OwedIsRemembered` are not inductive: a clear that waits on a topic taken for sent would break
the first, a reading that a lost connection leaves to be resent the second. `IInv` adds what they rest on (`Memory`). A reading goes out with QoS 0 and is lost with the connection, a clear with QoS 1
and is resent, so that after a drop only clears are under way on the topics of units and a resend never brings
back what was cleared. Nothing waits to be cleared, belongs to a unit that is gone, or is there without a
client, and is still taken for sent. What is owed has a client to go out on. The cap is part of it. Every handler is a
sequence of small steps that hand messages to the client; `Keeps` says what each of them preserves (what was
true of the cache and of what is owed stays so, what is told is true), it is transitive (`KeepsTrans`), and
`Handing` proves it once for any sequence of messages that fits the room. The lemmas on the removal of a message,
its delivery and the resend of what was kept cover the network. From `IInv` (`Inductive`) follow `TypeCorrect`,
`CacheCorrect` and `ClearsRemembered`, for any units, any cap and any number of events. TLC checked `IInv` on
the run's instance first.

**Only model-checked**:

* the liveness properties, which are out of this prover's reach: `RecoversWhenReachable`,
  `UnreachableIsCleared`, `JobsEnd` (Hermes and launcher), `LastingIsReported`, `WatchSettles`, `Settles`.

## 5. What is left out

* Of the monitor: the hardware summary (whose guard is the identity of the collector), health
  findings and their hold, throttle events, a change of the poll interval, the rebuild of the collector.
* Of the launcher: output lines, editing a launcher, the status cache of the route.
* Of the alerts: channel edits and delivery; the model ends where the decision to send is taken.
* Of Hermes: the git locks on the machine, and the list of pending commits.
* Of the registry: fields of a unit that no secret depends on, `noteDetectedMac` among their writers, and the
  order of the units.
* Of MQTT: a change of broker, prefix or user, the limits `MAX_PENDING_*`, a `connect` that throws, several
  configs per unit. `stop` is the first half of `Restart`.
* Of tool evaluation: output and progress, the directories of deleted runs, update checks, exit codes beyond
  zero and other, the event log.
* Of the benchmarks: measuring and scoring, rate limits, clearing the history of one port only, history writes that fail, tunnels, and the removal of
  a Spark, which leaves its benchmark running in its slot of the cap.
* Pure parsing and arithmetic (collectors, probes, prices, energy integration): a bounded model says
  less of them than the unit tests, which feed them recorded output.
* Frontend, agents, integrations, scripts: other programs.

## 6. Plan

In order of what can go wrong:

1. `GpuClock`: exclusion with the hold after a lost connection, the password lock.
2. `EnergyStore`: base and recent file across crashes. `OccupancyPoller`: the epoch.
3. `HealthFindings`, composed with `AlertEngine` and the monitor's hold.
4. Abstract specifications: of the monitor (a register that holds a reading of the current machine or
   nothing) and of the launcher (a lock with an owner), with the detailed modules as refinements.

Every safety property of a run is stated by a theorem, but those listed under "only model-checked".

## 7. Running

In this directory, with TLC and TLAPS installed and the community modules on the path:

    tlc -workers 2 -config MCSparkMonitor_edit.cfg MCSparkMonitor
    tlapm SparkMonitor_proofs.tla

The largest run has two million states; each takes at most about four minutes.

----------------------------- MODULE AlertEngine -----------------------------
(***************************************************************************)
(* The timing of alert notifications: alerts/engine.js, driven by the      *)
(* evaluation of alerts/runtime.js over the snapshots of the fleet, with   *)
(* the conditions of alerts/conditions.js and the per-channel filter of    *)
(* alerts/notifier.js.  An instant of the code (startsAt, falseSince, ...) *)
(* is the time that has passed since it, which stops counting at a cap.    *)
(***************************************************************************)
EXTENDS Integers

CONSTANTS
    Units,
    Rules,        \* the rules watched
    Offline,      \* the rule that reads liveness; all others read metrics
    For,          \* how long a rule's condition must hold before it fires
    MinClear,     \* MIN_CLEAR_MS
    Repeat,       \* repeatIntervalMin, 0 for no reminders
    Heartbeat,    \* STATE_HEARTBEAT_MS
    MaxAge,       \* STATE_MAX_AGE_MS
    MinSeverity,  \* of each channel
    DiskFails,    \* saving the firing set may fail
    MaxRestarts   \* bound: restarts of the dashboard

ASSUME AlertAssumption ==
    /\ For \in [Rules -> Nat] /\ DiskFails \in BOOLEAN
    /\ {MinClear, Repeat, Heartbeat, MaxAge, MaxRestarts} \subseteq Nat

VARIABLES
    fleet,     \* what the snapshot says of each unit
    config,    \* alerts switched on, rules switched on
    alerts,    \* _alerts: a slot per unit and rule
    engine,    \* _dirty, wasEnabled, restored, time since _lastPersistAt
    saved,     \* the firing set on disk and its age
    seen,      \* history: what was judged of a key last, and for how long
    told,      \* history: the gravest severity sent out in this episode, and
               \* the time since the last message that says a key is firing
    restarts

vars == <<fleet, config, alerts, engine, saved, seen, told, restarts>>

Keys == Units \X Rules
Unset == -1
NoAlert == [state |-> "none"]
Warning == 1
Critical == 2

Larger(m, n) == IF m > n THEN m ELSE n
Count(age, cap) == IF age = Unset \/ age >= cap THEN age ELSE age + 1

\* _conditionFalse: "for" again, and never less than MIN_CLEAR_MS.
ClearTime(r) == Larger(For[r], MinClear)

Init ==
    /\ fleet \in [Units -> [net : {"unchecked"}, sev : {0, Warning, Critical}]]
    /\ config \in [on : BOOLEAN, rules : {Rules}]
    /\ alerts = [k \in Keys |-> NoAlert]
    /\ engine = [dirty |-> FALSE, wasEnabled |-> FALSE, restored |-> FALSE,
                 sinceSave |-> Heartbeat]
    /\ saved = [age |-> MaxAge + 1, firing |-> [k \in Keys |-> NoAlert]]
    /\ seen = [k \in Keys |-> [holds |-> FALSE, for |-> 0]]
    /\ told = [k \in Keys |-> [sev |-> 0, ago |-> Repeat]]
    /\ restarts = 0

-----------------------------------------------------------------------------
(* Conditions of one unit.                                                 *)

Judged(k) ==
    \/ fleet[k[1]].net = "online"
    \/ fleet[k[1]].net = "offline" /\ k[2] = Offline

\* The severity of the condition of k, 0 while it is false.
Severity(k) ==
    IF fleet[k[1]].net = "offline"
    THEN IF k[2] = Offline THEN Critical ELSE 0
    ELSE IF fleet[k[1]].net = "online" /\ k[2] # Offline THEN fleet[k[1]].sev
    ELSE 0

-----------------------------------------------------------------------------
(* One alert in one evaluation.                                            *)

Pending(sev) ==
    [state |-> "pending", severity |-> sev, peak |-> sev, notified |-> 0,
     held |-> 0, clear |-> Unset, change |-> Unset, quiet |-> Repeat]

Firing(a, sev) ==
    [a EXCEPT !.state = "firing", !.severity = sev, !.peak = sev,
              !.notified = sev, !.quiet = 0]

\* Mutant: the peak stays at the severity that fired first.
PeakKept(a, sev) ==
    [a EXCEPT !.severity = sev, !.change = Unset, !.notified = Larger(@, sev),
              !.quiet = IF sev > a.notified THEN 0 ELSE @]

\* A severity that differs from the alert's own for `for` becomes its own.
\* An escalation beyond what was notified is notified.
Escalated(a, sev) ==
    [a EXCEPT !.severity = sev, !.change = Unset, !.peak = Larger(@, sev),
              !.notified = Larger(@, sev),
              !.quiet = IF sev > a.notified THEN 0 ELSE @]

\* Mutant: the clear time goes on counting across a relapse.
ClearKept(a) == a

Relapsed(a) == [a EXCEPT !.clear = Unset]

\* Mutant: a pending alert starts over when its severity changes.
AfterTrueOver(old, r, sev) ==
    LET a == Relapsed(IF old = NoAlert THEN Pending(sev) ELSE old)
    IN IF a.state # "pending" THEN [a EXCEPT !.severity = sev]
       ELSE IF a.severity # sev THEN Pending(sev)
       ELSE IF a.held >= For[r] THEN Firing(a, sev) ELSE a

\* _conditionTrue
AfterTrue(old, r, sev) ==
    LET a == Relapsed(IF old = NoAlert THEN Pending(sev) ELSE old)
        change == IF a.change = Unset THEN 0 ELSE a.change
    IN IF a.state = "pending"
       THEN IF a.held >= For[r] THEN Firing(a, sev) ELSE [a EXCEPT !.severity = sev]
       ELSE IF sev = a.severity THEN [a EXCEPT !.change = Unset]
       ELSE IF change >= For[r] THEN Escalated(a, sev)
       ELSE [a EXCEPT !.change = change]

\* Mutant: an ended alert is marked instead of deleted.
MarkedResolved(a, r) == [a EXCEPT !.state = "resolved"]

\* _conditionFalse
AfterFalse(a, r) ==
    LET clear == IF a.clear = Unset THEN 0 ELSE a.clear
    IN IF a.state = "pending" \/ clear >= ClearTime(r) THEN NoAlert
       ELSE [a EXCEPT !.change = Unset, !.clear = clear]

Present(k) == fleet[k[1]].net # "removed"
RuleOn(k) == k[2] \in config.rules

\* The alert of k after the pass over the units, and over removed units.
Evaluated(a, k) ==
    IF ~Present(k) \/ ~RuleOn(k) THEN NoAlert
    ELSE IF Severity(k) > 0 THEN AfterTrue(a, k[2], Severity(k))
    ELSE IF a # NoAlert /\ Judged(k) THEN AfterFalse(a, k[2])
    ELSE a

IsFiring(a) == a.state = "firing"

\* A "firing" message goes out for the step from a to b.
Notifies(a, b) == IsFiring(b) /\ (~IsFiring(a) \/ b.notified > a.notified)

Due(a, b) ==
    Repeat > 0 /\ IsFiring(b) /\ ~Notifies(a, b) /\ b.quiet >= Repeat

Reminded(a, b) == IF Due(a, b) THEN [b EXCEPT !.quiet = 0] ELSE b

-----------------------------------------------------------------------------
(* The firing set on disk.                                                 *)

\* stateForSave keeps neither the clear nor the change time.
Saved(a) ==
    IF IsFiring(a) THEN [a EXCEPT !.clear = Unset, !.change = Unset] ELSE NoAlert

\* Mutant: the notified severity is not restored, so the alert is news again.
RestoredUntold(a) == IF a = NoAlert THEN a ELSE [a EXCEPT !.notified = 0]

RestoredAlert(a) == a

\* What the engine starts this evaluation from.
Resumed ==
    IF engine.restored THEN alerts
    ELSE [k \in Keys |-> IF saved.age <= MaxAge THEN RestoredAlert(saved.firing[k])
                         ELSE NoAlert]

\* What must be on disk has changed.
Dirties(a, b) ==
    \/ IsFiring(a) # IsFiring(b) \/ Due(a, b)
    \/ IsFiring(a) /\ IsFiring(b) /\ a.severity # b.severity

-----------------------------------------------------------------------------
(* runtime.tick                                                            *)

\* The unit's last poll says whether the condition of k holds.
Visible(k) == fleet[k[1]].net = IF k[2] = Offline /\ Severity(k) > 0 THEN "offline" ELSE "online"

SeenAfter(k) ==
    LET holds == Severity(k) > 0
    IN IF ~Present(k) \/ ~RuleOn(k) \/ ~Visible(k) THEN seen[k]
       ELSE IF seen[k].holds = holds THEN seen[k]
       ELSE [holds |-> holds, for |-> 0]

\* What was sent out of the episode of k that is under way.
ToldBefore(k) == IF IsFiring(Resumed[k]) THEN told[k].sev ELSE 0

ToldAfter(k, a, b) ==
    [sev |-> IF Notifies(a, b) THEN b.notified ELSE IF IsFiring(b) THEN ToldBefore(k) ELSE 0,
     ago |-> IF Notifies(a, b) \/ Due(a, b) THEN 0 ELSE told[k].ago]

\* The flags after an evaluation whose save failed or was not needed.
\* Mutant: the flag is cleared before the save has worked.
CleanAnyway(dirty) ==
    [engine EXCEPT !.dirty = FALSE, !.wasEnabled = TRUE, !.restored = TRUE]
Unsaved(dirty) ==
    [engine EXCEPT !.dirty = dirty, !.wasEnabled = TRUE, !.restored = TRUE]

Evaluate ==
    LET next == [k \in Keys |-> Evaluated(Resumed[k], k)]
        dirty == engine.dirty \/ \E k \in Keys : Dirties(Resumed[k], next[k])
        heartbeat == engine.sinceSave >= Heartbeat /\ \E k \in Keys : IsFiring(next[k])
        final == [k \in Keys |-> Reminded(Resumed[k], next[k])]
    IN /\ config.on
       /\ alerts' = final
       /\ seen' = [k \in Keys |-> SeenAfter(k)]
       /\ told' = [k \in Keys |-> ToldAfter(k, Resumed[k], next[k])]
       /\ \/ /\ dirty \/ heartbeat
             /\ saved' = [age |-> 0, firing |-> [k \in Keys |-> Saved(final[k])]]
             /\ engine' = [dirty |-> FALSE, wasEnabled |-> TRUE, restored |-> TRUE,
                           sinceSave |-> 0]
          \/ /\ (dirty \/ heartbeat) => DiskFails
             /\ engine' = Unsaved(dirty)
             /\ UNCHANGED saved
    /\ UNCHANGED <<fleet, config, restarts>>

\* Alerts were switched off since the last tick: forget them, write nothing.
Reset ==
    /\ ~config.on /\ engine.wasEnabled
    /\ alerts' = [k \in Keys |-> NoAlert]
    /\ engine' = [engine EXCEPT !.dirty = TRUE, !.wasEnabled = FALSE]
    /\ UNCHANGED <<fleet, config, saved, seen, told, restarts>>

\* The dashboard ends and starts again.  A save that had failed is lost.
Restart ==
    /\ restarts < MaxRestarts
    /\ restarts' = restarts + 1
    /\ alerts' = [k \in Keys |-> NoAlert]
    /\ engine' = [dirty |-> FALSE, wasEnabled |-> FALSE, restored |-> FALSE,
                  sinceSave |-> Heartbeat]
    /\ fleet' = [u \in Units |->
                   IF fleet[u].net = "removed" THEN fleet[u]
                   ELSE [fleet[u] EXCEPT !.net = "unchecked"]]
    /\ UNCHANGED <<config, saved, seen, told>>

-----------------------------------------------------------------------------
(* The fleet, the settings and the time.                                   *)

FleetChanges(u) ==
    /\ \E net \in {"unchecked", "online", "offline", "removed"}, sev \in {0, Warning, Critical} :
         fleet' = [fleet EXCEPT ![u] = [net |-> net, sev |-> sev]]
    /\ UNCHANGED <<config, alerts, engine, saved, seen, told, restarts>>

SettingsChange ==
    /\ \/ config' = [config EXCEPT !.on = ~@]
       \/ \E r \in Rules : config.on /\ config' = [config EXCEPT !.rules =
            IF r \in @ THEN @ \ {r} ELSE @ \cup {r}]
    /\ UNCHANGED <<fleet, alerts, engine, saved, seen, told, restarts>>

Older(a, r) ==
    IF a = NoAlert THEN a
    ELSE [a EXCEPT !.held = Count(@, For[r]), !.clear = Count(@, ClearTime(r)),
                   !.change = Count(@, For[r]), !.quiet = Count(@, Repeat)]

Tick ==
    /\ alerts' = [k \in Keys |-> Older(alerts[k], k[2])]
    /\ saved' = [age |-> Count(saved.age, MaxAge + 1),
                 firing |-> [k \in Keys |-> Older(saved.firing[k], k[2])]]
    /\ engine' = [engine EXCEPT !.sinceSave = Count(@, Heartbeat)]
    /\ seen' = [k \in Keys |-> [seen[k] EXCEPT !.for = Count(@, ClearTime(k[2]))]]
    /\ told' = [k \in Keys |-> [told[k] EXCEPT !.ago = Count(@, Repeat)]]
    /\ UNCHANGED <<fleet, config, restarts>>

Next ==
    \/ Evaluate
    \/ Reset
    \/ Restart
    \/ \E u \in Units : FleetChanges(u)
    \/ SettingsChange
    \/ Tick

Spec == Init /\ [][Next]_vars

\* Time passes, and index.js ticks the runtime on every broadcast.
FairSpec == Spec /\ WF_vars(Tick) /\ WF_vars(Evaluate \/ Reset)

-----------------------------------------------------------------------------
(* Properties.                                                             *)

Alert == [state : {"pending", "firing"}, severity : 1..2, peak : 1..2, notified : 0..2,
          held : Nat, clear : Nat \cup {Unset}, change : Nat \cup {Unset}, quiet : Nat]
Slot == {NoAlert} \cup Alert

\* The types of the variables.
TypeOK ==
    /\ fleet \in [Units -> [net : {"unchecked", "online", "offline", "removed"}, sev : 0..2]]
    /\ config \in [on : BOOLEAN, rules : SUBSET Rules]
    /\ alerts \in [Keys -> Slot]
    /\ engine \in [dirty : BOOLEAN, wasEnabled : BOOLEAN, restored : BOOLEAN, sinceSave : Nat]
    /\ saved \in [age : Nat, firing : [Keys -> Slot]]
    /\ seen \in [Keys -> [holds : BOOLEAN, for : Nat]]
    /\ told \in [Keys -> [sev : 0..2, ago : Nat]] /\ restarts \in Nat

\* No blip fires or resolves, whatever settings, outages and restarts do. A
\* condition fires only after every judgement for at least `for` has found it
\* true; an alert of a rule that is on, on a unit that is there, resolves only
\* after every judgement for `for`, and for MIN_CLEAR_MS, has found it false.
FiresOnlyWhenHeld(k) ==
    IsFiring(alerts'[k]) /\ ~IsFiring(Resumed[k]) =>
      seen'[k].holds /\ seen'[k].for >= For[k[2]]
ResolvesOnlyWhenClear(k) ==
    Evaluate /\ IsFiring(Resumed[k]) /\ ~IsFiring(alerts'[k]) /\ Present(k) /\ RuleOn(k) =>
      ~seen'[k].holds /\ seen'[k].for >= ClearTime(k[2])
NotOnABlip == [][\A k \in Keys : FiresOnlyWhenHeld(k) /\ ResolvesOnlyWhenClear(k)]_vars

\* Nothing is said twice, a restart included: no severity is announced again in
\* one episode, and a reminder never comes sooner than repeatIntervalMin after the
\* last message that said the alert fires.
NotAgain(k) ==
    Notifies(Resumed[k], alerts'[k]) => ToldBefore(k) < alerts'[k].notified
Spaced(k) ==
    /\ IsFiring(Resumed[k]) /\ IsFiring(alerts'[k])
    /\ alerts'[k].notified = Resumed[k].notified
    /\ told'[k].ago = 0 /\ told[k].ago > 0
    => told[k].ago >= Repeat
NothingRepeated == [][\A k \in Keys : Evaluate => NotAgain(k) /\ Spaced(k)]_vars

\* filterGroupForChannel: the resolved message goes exactly to the channels
\* that a firing message of this alert has gone to.
ResolvedFollowsFiring ==
    [][\A k \in Keys : Evaluate /\ IsFiring(Resumed[k]) /\ ~IsFiring(alerts'[k]) =>
         \A c \in DOMAIN MinSeverity :
           Resumed[k].peak >= MinSeverity[c] <=> told[k].sev >= MinSeverity[c]]_vars

\* Unless the last save failed, what is on disk is what fires.
SavedIsCurrent ==
    engine.restored /\ ~engine.dirty =>
      \A k \in Keys :
        /\ IsFiring(alerts[k]) => Saved(alerts[k]) = saved.firing[k]
        /\ ~IsFiring(alerts[k]) /\ saved.age <= MaxAge => saved.firing[k] = NoAlert

Bad(k) == config.on /\ Present(k) /\ RuleOn(k) /\ Severity(k) > 0
Fine(k) == config.on /\ Present(k) /\ Judged(k) /\ Severity(k) = 0

\* A condition that stays true fires, one that stays false resolves.
LastingIsReported ==
    /\ \A k \in Keys : <>[]Bad(k) => <>[]IsFiring(alerts[k])
    /\ \A k \in Keys : <>[]Fine(k) => <>[](alerts[k] = NoAlert)
=============================================================================

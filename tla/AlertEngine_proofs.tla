-------------------------- MODULE AlertEngine_proofs --------------------------
(***************************************************************************)
(* For any units, rules and times: no blip fires or resolves, nothing is   *)
(* said twice, "resolved" follows "firing", and the file is current.       *)
(***************************************************************************)
EXTENDS AlertEngine, TLAPS

\* The file holds firing alerts, without the times that stateForSave drops.
SavedShape ==
    \A k \in Keys : \/ saved.firing[k] = NoAlert
                    \/ /\ IsFiring(saved.firing[k])
                       /\ saved.firing[k].clear = Unset /\ saved.firing[k].change = Unset

\* An engine that has not read the file yet has no alerts.
RestoredFirst ==
    ~engine.restored => \A k \in Keys : alerts[k] = NoAlert

\* No file is young enough to be read before the first start has written one.
FileInv == restarts = 0 /\ saved.age <= MaxAge => engine.restored

\* The two times of an alert that runs never run ahead of what was seen.
SeenInv ==
    \A k \in Keys :
      /\ alerts[k].state = "pending" => seen[k].holds /\ seen[k].for >= alerts[k].held
      /\ IsFiring(alerts[k]) /\ alerts[k].clear # Unset =>
           ~seen[k].holds /\ seen[k].for >= alerts[k].clear

\* What an alert remembers of its messages is what was sent out.
OnTrack(a, k) ==
    IsFiring(a) => /\ a.peak = a.notified /\ told[k].sev = a.notified
                   /\ told[k].ago >= a.quiet

\* No restart comes after a failed save.
SavesLast == ~DiskFails \/ MaxRestarts = 0

ToldInv ==
    SavesLast => \A k \in Keys :
      /\ OnTrack(alerts[k], k)
      /\ ~DiskFails /\ saved.age <= MaxAge => OnTrack(saved.firing[k], k)

IInv ==
    /\ TypeOK /\ SavedShape /\ SavedIsCurrent /\ RestoredFirst /\ FileInv
    /\ restarts <= MaxRestarts /\ SeenInv /\ ToldInv

-----------------------------------------------------------------------------
(* One alert in one evaluation: what _conditionTrue and _conditionFalse do. *)

LEMMA AlertFields ==
    ASSUME NEW a \in Slot
    PROVE  /\ a = NoAlert => a.state = "none"
           /\ a # NoAlert => a \in Alert
           /\ IsFiring(a) => a \in Alert
           /\ a.state = "pending" => a \in Alert
BY DEF Slot, Alert, NoAlert, IsFiring

LEMMA PendingType ==
    ASSUME NEW sev \in 1..2
    PROVE  /\ Pending(sev) \in Alert /\ Pending(sev).state = "pending"
           /\ Pending(sev).held = 0 /\ Pending(sev).clear = Unset
BY AlertAssumption DEF Pending, Alert, Unset

\* The alert that _conditionTrue starts from.
LEMMA RelapsedFacts ==
    ASSUME NEW old \in Slot, NEW sev \in 1..2,
           NEW a, a = Relapsed(IF old = NoAlert THEN Pending(sev) ELSE old)
    PROVE  /\ a \in Alert /\ a.clear = Unset
           /\ old = NoAlert => a.state = "pending" /\ a.held = 0
           /\ old # NoAlert => old \in Alert /\ a = [old EXCEPT !.clear = Unset]
           /\ IsFiring(a) <=> IsFiring(old)
<1>1. CASE old = NoAlert
  BY <1>1, PendingType DEF Relapsed, Alert, IsFiring, NoAlert
<1>2. CASE old # NoAlert
  BY <1>2, AlertFields DEF Relapsed, Alert, IsFiring
<1> QED BY <1>1, <1>2

\* An alert that fires stays so, and only a severity that has become its own
\* changes what it remembers.
LEMMA TrueOfFiring ==
    ASSUME NEW old \in Slot, IsFiring(old), NEW r \in Rules, NEW sev \in 1..2,
           NEW b, b = AfterTrue(old, r, sev)
    PROVE  /\ b \in Alert /\ IsFiring(b) /\ b.clear = Unset /\ b.held = old.held
           /\ \/ b.severity = old.severity /\ b.peak = old.peak
                 /\ b.notified = old.notified /\ b.quiet = old.quiet
              \/ /\ b.severity # old.severity
                 /\ b.peak = Larger(old.peak, sev) /\ b.notified = Larger(old.notified, sev)
                 /\ b.quiet = IF sev > old.notified THEN 0 ELSE old.quiet
<1> DEFINE a == Relapsed(IF old = NoAlert THEN Pending(sev) ELSE old)
           change == IF a.change = Unset THEN 0 ELSE a.change
<1>1. old \in Alert /\ old # NoAlert
  BY AlertFields DEF IsFiring, NoAlert
<1>2. a = [old EXCEPT !.clear = Unset] /\ a \in Alert
  BY <1>1, RelapsedFacts
<1>3. /\ a.state = "firing" /\ a.severity = old.severity /\ a.peak = old.peak /\ a.clear = Unset
      /\ a.notified = old.notified /\ a.quiet = old.quiet /\ a.held = old.held
  BY <1>1, <1>2 DEF Alert, IsFiring
<1>4. change \in Nat
  BY <1>2 DEF Alert
<1>5. b = IF sev = a.severity THEN [a EXCEPT !.change = Unset]
          ELSE IF change >= For[r] THEN Escalated(a, sev) ELSE [a EXCEPT !.change = change]
  BY <1>3 DEF AfterTrue
<1> HIDE DEF a, change
<1>6. CASE b = [a EXCEPT !.change = Unset] \/ b = [a EXCEPT !.change = change]
  BY <1>2, <1>3, <1>4, <1>6 DEF Alert, IsFiring
<1>7. CASE b = Escalated(a, sev) /\ sev # a.severity
  <2>1. /\ Larger(a.peak, sev) \in 1..2 /\ Larger(a.notified, sev) \in 0..2
        /\ (IF sev > a.notified THEN 0 ELSE a.quiet) \in Nat
    BY <1>2 DEF Larger, Alert
  <2>2. b = [a EXCEPT !.severity = sev, !.change = Unset, !.peak = Larger(a.peak, sev),
                      !.notified = Larger(a.notified, sev),
                      !.quiet = IF sev > a.notified THEN 0 ELSE a.quiet]
    BY <1>2, <1>7 DEF Escalated, Alert
  <2> QED BY <1>2, <1>3, <1>7, <2>1, <2>2, ZenonT(30) DEF Alert, IsFiring
<1> QED BY <1>5, <1>6, <1>7

\* One that does not fire does so when its condition has held long enough.
LEMMA TrueOfOther ==
    ASSUME NEW old \in Slot, ~IsFiring(old), NEW r \in Rules, NEW sev \in 1..2,
           NEW b, b = AfterTrue(old, r, sev)
    PROVE  /\ b \in Alert /\ b.clear = Unset
           /\ b.held = IF old = NoAlert THEN 0 ELSE old.held
           /\ IsFiring(b) => /\ b.held >= For[r] /\ b.peak = sev /\ b.notified = sev
                             /\ b.severity = sev /\ b.quiet = 0
<1> DEFINE a == Relapsed(IF old = NoAlert THEN Pending(sev) ELSE old)
<1>1. /\ a \in Alert /\ a.clear = Unset /\ a.state = "pending"
      /\ a.held = IF old = NoAlert THEN 0 ELSE old.held
  BY RelapsedFacts DEF Alert, IsFiring
<1>2. b = IF a.held >= For[r] THEN Firing(a, sev) ELSE [a EXCEPT !.severity = sev]
  BY <1>1 DEF AfterTrue
<1> HIDE DEF a
<1>3. CASE b = Firing(a, sev) /\ a.held >= For[r]
  <2>1. b = [a EXCEPT !.state = "firing", !.severity = sev, !.peak = sev, !.notified = sev, !.quiet = 0]
    BY <1>3 DEF Firing
  <2>2. b \in Alert
    <3>1. sev \in 0..2 /\ 0 \in Nat
      OBVIOUS
    <3> QED BY <1>1, <2>1, <3>1 DEF Alert
  <2>3. /\ b.clear = a.clear /\ b.held = a.held /\ b.peak = sev /\ b.notified = sev
        /\ b.severity = sev /\ b.quiet = 0
    BY <1>1, <2>1 DEF Alert
  <2> QED BY <1>1, <1>3, <2>2, <2>3
<1>4. CASE b = [a EXCEPT !.severity = sev]
  BY <1>1, <1>4 DEF Alert, IsFiring
<1> QED BY <1>2, <1>3, <1>4

\* A judgement of false ends a pending alert, and a firing one when it has been
\* clear for long enough.
LEMMA FalseFacts ==
    ASSUME NEW a \in Alert, NEW r \in Rules, NEW b, b = AfterFalse(a, r)
    PROVE  \/ /\ b = NoAlert
              /\ IsFiring(a) => (IF a.clear = Unset THEN 0 ELSE a.clear) >= ClearTime(r)
           \/ /\ b \in Alert /\ IsFiring(a) /\ IsFiring(b)
              /\ b.clear = IF a.clear = Unset THEN 0 ELSE a.clear
              /\ b.severity = a.severity /\ b.peak = a.peak /\ b.notified = a.notified
              /\ b.quiet = a.quiet /\ b.held = a.held
<1> DEFINE clear == IF a.clear = Unset THEN 0 ELSE a.clear
<1>1. clear \in Nat
  BY DEF Alert
<1>2. b = IF a.state = "pending" \/ clear >= ClearTime(r) THEN NoAlert
          ELSE [a EXCEPT !.change = Unset, !.clear = clear]
  BY DEF AfterFalse
<1>3. CASE a.state = "pending" \/ clear >= ClearTime(r)
  BY <1>2, <1>3 DEF IsFiring
<1>4. CASE ~(a.state = "pending" \/ clear >= ClearTime(r))
  BY <1>1, <1>2, <1>4 DEF Alert, IsFiring
<1> QED BY <1>3, <1>4

LEMMA SeverityType ==
    ASSUME TypeOK, NEW k \in Keys
    PROVE  Severity(k) \in 0..2 /\ k[2] \in Rules /\ k[1] \in Units
BY DEF TypeOK, Severity, Keys, Critical

\* The four ways of one evaluation.
LEMMA EvaluatedCases ==
    ASSUME TypeOK, NEW k \in Keys, NEW old \in Slot
    PROVE  \/ (~Present(k) \/ ~RuleOn(k)) /\ Evaluated(old, k) = NoAlert
           \/ /\ Present(k) /\ RuleOn(k) /\ Severity(k) \in 1..2
              /\ Evaluated(old, k) = AfterTrue(old, k[2], Severity(k))
           \/ /\ Present(k) /\ RuleOn(k) /\ Severity(k) = 0 /\ Judged(k) /\ old \in Alert
              /\ Evaluated(old, k) = AfterFalse(old, k[2])
           \/ /\ Present(k) /\ RuleOn(k) /\ Severity(k) = 0 /\ Evaluated(old, k) = old
              /\ old = NoAlert \/ ~Judged(k)
<1>1. Severity(k) = 0 \/ Severity(k) \in 1..2
  BY SeverityType
<1>2. old # NoAlert => old \in Alert
  BY DEF Slot
<1> QED BY <1>1, <1>2 DEF Evaluated

\* What an evaluation does to one alert, whichever way it takes.
LEMMA EvaluatedFacts ==
    ASSUME TypeOK, NEW k \in Keys, NEW old \in Slot, NEW b, b = Evaluated(old, k)
    PROVE  /\ b \in Slot
           /\ IsFiring(b) /\ ~IsFiring(old) =>
                /\ b.clear = Unset /\ b.quiet = 0 /\ b.peak = b.notified
                /\ b.notified \in 1..2
           /\ IsFiring(b) /\ IsFiring(old) =>
                /\ b.held = old.held
                /\ \/ b.severity = old.severity /\ b.peak = old.peak
                      /\ b.notified = old.notified /\ b.quiet = old.quiet
                   \/ /\ b.severity # old.severity
                      /\ \E sev \in 1..2 :
                           /\ b.peak = Larger(old.peak, sev)
                           /\ b.notified = Larger(old.notified, sev)
                           /\ b.quiet = IF sev > old.notified THEN 0 ELSE old.quiet
<1>1. CASE Evaluated(old, k) = NoAlert
  BY <1>1 DEF Slot, IsFiring, NoAlert
<1>2. CASE Severity(k) \in 1..2 /\ Evaluated(old, k) = AfterTrue(old, k[2], Severity(k))
  <2>1. CASE IsFiring(old)
    BY <1>2, <2>1, SeverityType, TrueOfFiring DEF Slot
  <2>2. CASE ~IsFiring(old)
    BY <1>2, <2>2, SeverityType, TrueOfOther DEF Slot
  <2> QED BY <2>1, <2>2
<1>3. CASE old \in Alert /\ Evaluated(old, k) = AfterFalse(old, k[2])
  BY <1>1, <1>3, SeverityType, FalseFacts DEF Slot
<1>4. CASE Evaluated(old, k) = old
  BY <1>4
<1> QED BY <1>1, <1>2, <1>3, <1>4, EvaluatedCases

\* What was seen is what the evaluation judged.
LEMMA SeenFacts ==
    ASSUME TypeOK, NEW k \in Keys
    PROVE  /\ SeenAfter(k) \in [holds : BOOLEAN, for : Nat]
           /\ ~Present(k) \/ ~RuleOn(k) => SeenAfter(k) = seen[k]
           /\ Present(k) /\ RuleOn(k) /\ Severity(k) \in 1..2 =>
                /\ SeenAfter(k).holds
                /\ seen[k].holds => SeenAfter(k) = seen[k]
           /\ Present(k) /\ RuleOn(k) /\ Severity(k) = 0 /\ Judged(k) =>
                /\ ~SeenAfter(k).holds
                /\ ~seen[k].holds => SeenAfter(k) = seen[k]
           /\ Severity(k) = 0 /\ ~Judged(k) => SeenAfter(k) = seen[k]
<1>1. seen[k] \in [holds : BOOLEAN, for : Nat]
  BY DEF TypeOK
<1>2. Severity(k) \in 1..2 => Visible(k) /\ Severity(k) > 0
  BY SeverityType DEF Visible, Severity
<1>3. Severity(k) = 0 /\ Judged(k) => Visible(k)
  BY DEF Visible, Severity, Judged, Critical
<1>4. Severity(k) = 0 /\ ~Judged(k) => ~Visible(k)
  BY DEF Visible, Judged
<1>5. CASE ~Present(k) \/ ~RuleOn(k) \/ ~Visible(k)
  BY <1>1, <1>2, <1>3, <1>5 DEF SeenAfter
<1>6. CASE Present(k) /\ RuleOn(k) /\ Visible(k)
  <2>1. CASE Severity(k) \in 1..2
    <3>1. SeenAfter(k) = IF seen[k].holds THEN seen[k] ELSE [holds |-> TRUE, for |-> 0]
      BY <1>1, <1>2, <1>6, <2>1 DEF SeenAfter
    <3> QED BY <1>1, <1>6, <2>1, <3>1
  <2>2. CASE Severity(k) = 0
    <3>1. SeenAfter(k) = IF ~seen[k].holds THEN seen[k] ELSE [holds |-> FALSE, for |-> 0]
      <4>1. (Severity(k) > 0) = FALSE
        BY <2>2
      <4>2. SeenAfter(k) = IF seen[k].holds = FALSE THEN seen[k] ELSE [holds |-> FALSE, for |-> 0]
        BY <1>6, <4>1, Zenon DEF SeenAfter
      <4> QED BY <1>1, <4>2
    <3> QED BY <1>1, <1>4, <1>6, <2>2, <3>1
  <2> QED BY <2>1, <2>2, SeverityType
<1> QED BY <1>5, <1>6

\* A reminder restarts the time since the last message, and nothing else.
LEMMA RemindedFacts ==
    ASSUME NEW a \in Slot, NEW b \in Slot
    PROVE  /\ Reminded(a, b) \in Slot /\ (IsFiring(Reminded(a, b)) <=> IsFiring(b))
           /\ ~Due(a, b) => Reminded(a, b) = b
           /\ Due(a, b) => /\ Reminded(a, b) \in Alert /\ b \in Alert
                           /\ Reminded(a, b) = [b EXCEPT !.quiet = 0]
<1>1. CASE ~Due(a, b)
  BY <1>1 DEF Reminded
<1>2. CASE Due(a, b)
  BY <1>2, AlertFields DEF Reminded, Due, Slot, Alert, IsFiring
<1> QED BY <1>1, <1>2

LEMMA ResumedType == ASSUME TypeOK PROVE Resumed \in [Keys -> Slot]
BY DEF TypeOK, Resumed, RestoredAlert, Slot

-----------------------------------------------------------------------------
(* What the file keeps of an alert.                                         *)

LEMMA SavedFacts ==
    ASSUME NEW a \in Slot
    PROVE  /\ Saved(a) \in Slot
           /\ ~IsFiring(a) => Saved(a) = NoAlert
           /\ IsFiring(a) =>
                /\ IsFiring(Saved(a)) /\ Saved(a).clear = Unset /\ Saved(a).change = Unset
                /\ Saved(a).peak = a.peak /\ Saved(a).notified = a.notified
                /\ Saved(a).quiet = a.quiet
           /\ IsFiring(a) /\ a.clear = Unset /\ a.change = Unset => Saved(a) = a
<1>1. CASE IsFiring(a)
  BY <1>1, AlertFields DEF Saved, Slot, Alert, IsFiring
<1>2. CASE ~IsFiring(a)
  BY <1>2 DEF Saved, Slot
<1> QED BY <1>1, <1>2

LEMMA SavedEqual ==
    ASSUME NEW a \in Alert, NEW b \in Alert, IsFiring(a), IsFiring(b),
           a.severity = b.severity, a.peak = b.peak, a.notified = b.notified,
           a.held = b.held, a.quiet = b.quiet
    PROVE  Saved(a) = Saved(b)
BY ZenonT(30) DEF Saved, Alert, IsFiring

\* An alert as the evaluation resumes it.
LEMMA ResumedFacts ==
    ASSUME IInv, NEW k \in Keys
    PROVE  /\ Resumed[k] \in Slot
           /\ engine.restored => Resumed[k] = alerts[k]
           /\ ~engine.restored =>
                Resumed[k] = IF saved.age <= MaxAge THEN saved.firing[k] ELSE NoAlert
           /\ Resumed[k].state = "pending" =>
                engine.restored /\ seen[k].holds /\ seen[k].for >= Resumed[k].held
           /\ IsFiring(Resumed[k]) /\ Resumed[k].clear # Unset =>
                ~seen[k].holds /\ seen[k].for >= Resumed[k].clear
           /\ SavesLast => OnTrack(Resumed[k], k)
<1>1. Resumed[k] \in Slot
  BY ResumedType DEF IInv
<1>2. CASE engine.restored
  <2>1. Resumed[k] = alerts[k]
    BY <1>2 DEF Resumed
  <2> QED BY <1>1, <1>2, <2>1 DEF IInv, SeenInv, ToldInv
<1>3. CASE ~engine.restored
  <2>1. Resumed[k] = IF saved.age <= MaxAge THEN saved.firing[k] ELSE NoAlert
    BY <1>3 DEF Resumed, RestoredAlert
  <2>2. SavesLast /\ IsFiring(Resumed[k]) => ~DiskFails /\ saved.age <= MaxAge
    BY <1>3, <2>1, AlertAssumption DEF IInv, FileInv, SavesLast, TypeOK, IsFiring, NoAlert
  <2>3. SavesLast => OnTrack(Resumed[k], k)
    BY <2>1, <2>2 DEF IInv, ToldInv, OnTrack
  <2>4. Resumed[k].state # "pending" /\ (IsFiring(Resumed[k]) => Resumed[k].clear = Unset)
    BY <2>1 DEF IInv, SavedShape, IsFiring, NoAlert
  <2> QED BY <1>1, <1>3, <2>1, <2>3, <2>4
<1> QED BY <1>2, <1>3

-----------------------------------------------------------------------------
(* One evaluation.                                                          *)

LEMMA EvaluateAlerts ==
    ASSUME IInv, Evaluate, NEW k \in Keys, NEW a, NEW b, a = Resumed[k], b = Evaluated(a, k)
    PROVE  /\ a \in Slot /\ b \in Slot /\ alerts'[k] = Reminded(a, b) /\ alerts'[k] \in Slot
           /\ IsFiring(alerts'[k]) <=> IsFiring(b)
           /\ seen'[k] = SeenAfter(k) /\ told'[k] = ToldAfter(k, a, b)
BY ResumedFacts, EvaluatedFacts, RemindedFacts DEF Evaluate, IInv

LEMMA EvaluateType == ASSUME IInv, Evaluate PROVE TypeOK'
<1> DEFINE next == [k \in Keys |-> Evaluated(Resumed[k], k)]
           final == [k \in Keys |-> Reminded(Resumed[k], next[k])]
           dirty == engine.dirty \/ \E k \in Keys : Dirties(Resumed[k], next[k])
<1>1. alerts' \in [Keys -> Slot] /\ alerts' = final
  <2>1. alerts' = final
    BY DEF Evaluate
  <2>2. \A k \in Keys : final[k] \in Slot
    BY EvaluateAlerts, <2>1
  <2> QED BY <2>1, <2>2
<1>2. seen' \in [Keys -> [holds : BOOLEAN, for : Nat]]
  BY SeenFacts DEF Evaluate, IInv
<1>3. told' \in [Keys -> [sev : 0..2, ago : Nat]]
  <2>1. ASSUME NEW k \in Keys PROVE ToldAfter(k, Resumed[k], next[k]) \in [sev : 0..2, ago : Nat]
    <3> DEFINE a == Resumed[k]
               b == next[k]
    <3>1. a \in Slot /\ b \in Slot /\ told[k] \in [sev : 0..2, ago : Nat]
      BY EvaluateAlerts DEF IInv, TypeOK
    <3>2. IsFiring(b) => b.notified \in 0..2
      BY <3>1, AlertFields DEF Alert
    <3>3. ToldBefore(k) \in 0..2
      BY <3>1 DEF ToldBefore
    <3> HIDE DEF a, b
    <3>4. ToldAfter(k, a, b) \in [sev : 0..2, ago : Nat]
      BY <3>1, <3>2, <3>3 DEF ToldAfter, Notifies
    <3> QED BY <3>4 DEF a, b
  <2> QED BY <2>1 DEF Evaluate
<1>4. CASE /\ saved' = [age |-> 0, firing |-> [k \in Keys |-> Saved(final[k])]]
           /\ engine' = [dirty |-> FALSE, wasEnabled |-> TRUE, restored |-> TRUE, sinceSave |-> 0]
  <2>1. \A k \in Keys : Saved(final[k]) \in Slot
    BY <1>1, SavedFacts
  <2> HIDE DEF final
  <2>2. saved' \in [age : Nat, firing : [Keys -> Slot]]
    BY <1>4, <2>1
  <2>3. engine' \in [dirty : BOOLEAN, wasEnabled : BOOLEAN, restored : BOOLEAN, sinceSave : Nat]
    BY <1>4
  <2> QED BY <1>1, <1>2, <1>3, <2>2, <2>3 DEF Evaluate, IInv, TypeOK
<1>5. CASE engine' = Unsaved(dirty) /\ UNCHANGED saved
  <2>1. dirty \in BOOLEAN
    BY DEF IInv, TypeOK
  <2> HIDE DEF dirty
  <2>2. engine' \in [dirty : BOOLEAN, wasEnabled : BOOLEAN, restored : BOOLEAN, sinceSave : Nat]
    BY <1>5, <2>1 DEF Unsaved, IInv, TypeOK
  <2> QED BY <1>1, <1>2, <1>3, <1>5, <2>2 DEF Evaluate, IInv, TypeOK
<1> QED BY <1>4, <1>5 DEF Evaluate

\* The two times of one alert are not ahead of what was seen, and what fires or
\* resolves was seen for long enough.
LEMMA EvaluateSeen ==
    ASSUME IInv, Evaluate, NEW k \in Keys
    PROVE  /\ alerts'[k].state = "pending" => seen'[k].holds /\ seen'[k].for >= alerts'[k].held
           /\ IsFiring(alerts'[k]) /\ alerts'[k].clear # Unset =>
                ~seen'[k].holds /\ seen'[k].for >= alerts'[k].clear
           /\ IsFiring(alerts'[k]) /\ ~IsFiring(Resumed[k]) =>
                seen'[k].holds /\ seen'[k].for >= For[k[2]]
           /\ IsFiring(Resumed[k]) /\ ~IsFiring(alerts'[k]) /\ Present(k) /\ RuleOn(k) =>
                ~seen'[k].holds /\ seen'[k].for >= ClearTime(k[2])
<1> DEFINE a == Resumed[k]
           b == Evaluated(a, k)
<1>1. /\ a \in Slot /\ b \in Slot /\ alerts'[k] = Reminded(a, b) /\ seen'[k] = SeenAfter(k)
      /\ IsFiring(alerts'[k]) <=> IsFiring(b)
  BY EvaluateAlerts
<1>2. /\ alerts'[k].state = "pending" => b.state = "pending" /\ alerts'[k].held = b.held
      /\ IsFiring(alerts'[k]) => alerts'[k].clear = b.clear
  <2>1. CASE Due(a, b)
    <3>1. alerts'[k] = [b EXCEPT !.quiet = 0] /\ b \in Alert
      BY <1>1, <2>1, RemindedFacts
    <3> HIDE DEF b
    <3> QED BY <3>1 DEF Alert
  <2>2. CASE ~Due(a, b)
    BY <1>1, <2>2, RemindedFacts
  <2> QED BY <2>1, <2>2
<1>3. /\ a.state = "pending" => seen[k].holds /\ seen[k].for >= a.held
      /\ IsFiring(a) /\ a.clear # Unset => ~seen[k].holds /\ seen[k].for >= a.clear
  BY ResumedFacts
<1>4. seen[k].for \in Nat /\ SeenAfter(k).for \in Nat /\ For[k[2]] \in Nat /\ k[2] \in Rules
  BY SeenFacts, SeverityType, AlertAssumption DEF IInv, TypeOK
<1> HIDE DEF a, b
<1>5. CASE (~Present(k) \/ ~RuleOn(k)) /\ b = NoAlert
  BY <1>1, <1>2, <1>5 DEF NoAlert, IsFiring
<1>6. CASE Present(k) /\ RuleOn(k) /\ Severity(k) \in 1..2 /\ b = AfterTrue(a, k[2], Severity(k))
  <2>1. SeenAfter(k).holds /\ (seen[k].holds => SeenAfter(k) = seen[k])
    BY <1>6, SeenFacts DEF IInv
  <2>2. CASE IsFiring(a)
    BY <1>1, <1>2, <1>4, <1>6, <2>2, TrueOfFiring DEF IsFiring, a
  <2>3. CASE ~IsFiring(a)
    <3>1. /\ b.clear = Unset /\ b.held = IF a = NoAlert THEN 0 ELSE a.held
          /\ IsFiring(b) => b.held >= For[k[2]]
      BY <1>1, <1>4, <1>6, <2>3, TrueOfOther
    <3>2. a # NoAlert => a.state = "pending" /\ a.held \in Nat
      BY <1>1, <2>3 DEF Slot, Alert, IsFiring
    <3>3. SeenAfter(k).for >= b.held /\ b.held \in Nat
      BY <1>3, <1>4, <2>1, <3>1, <3>2
    <3> QED BY <1>1, <1>2, <1>4, <2>1, <2>3, <3>1, <3>3 DEF a
  <2> QED BY <2>2, <2>3
<1>7. CASE Severity(k) = 0 /\ Judged(k) /\ a \in Alert /\ b = AfterFalse(a, k[2])
            /\ Present(k) /\ RuleOn(k)
  <2>1. ~SeenAfter(k).holds /\ (~seen[k].holds => SeenAfter(k) = seen[k])
    BY <1>7, SeenFacts DEF IInv
  <2>2. CASE b = NoAlert /\ (IsFiring(a) => (IF a.clear = Unset THEN 0 ELSE a.clear) >= ClearTime(k[2]))
    <3>1. b.state = "none"
      BY <2>2 DEF NoAlert
    <3>2. IsFiring(a) => SeenAfter(k).for >= ClearTime(k[2])
      BY <1>3, <1>4, <1>7, <2>1, <2>2, AlertAssumption DEF Alert, ClearTime, Larger
    <3> QED BY <1>1, <1>2, <2>1, <3>1, <3>2 DEF IsFiring, a
  <2>3. CASE IsFiring(a) /\ IsFiring(b) /\ b.clear = IF a.clear = Unset THEN 0 ELSE a.clear
    BY <1>1, <1>2, <1>3, <1>4, <1>7, <2>1, <2>3 DEF IsFiring, Alert, a
  <2> QED BY <1>4, <1>7, <2>2, <2>3, FalseFacts
<1>8. CASE Severity(k) = 0 /\ b = a /\ (a = NoAlert \/ ~Judged(k))
  <2>1. a # NoAlert => SeenAfter(k) = seen[k]
    BY <1>8, SeenFacts DEF IInv
  <2> QED BY <1>1, <1>2, <1>3, <1>8, <2>1 DEF NoAlert, IsFiring, a
<1> QED BY <1>1, <1>5, <1>6, <1>7, <1>8, EvaluatedCases DEF IInv, a, b

\* Unless something must be written, the file goes on saying what fires.
LEMMA EvaluateSaved == ASSUME IInv, Evaluate PROVE SavedIsCurrent' /\ SavedShape'
<1> DEFINE next == [k \in Keys |-> Evaluated(Resumed[k], k)]
           final == [k \in Keys |-> Reminded(Resumed[k], next[k])]
           dirty == engine.dirty \/ \E k \in Keys : Dirties(Resumed[k], next[k])
<1>1. alerts' = final /\ \A k \in Keys : alerts'[k] \in Slot
  BY EvaluateAlerts DEF Evaluate
<1>2. CASE saved' = [age |-> 0, firing |-> [k \in Keys |-> Saved(final[k])]]
  <2>1. \A k \in Keys : saved'.firing[k] = Saved(alerts'[k])
    BY <1>1, <1>2
  <2> QED BY <1>1, <2>1, SavedFacts DEF SavedIsCurrent, SavedShape
<1>3. CASE engine' = Unsaved(dirty) /\ UNCHANGED saved
  <2>1. SavedShape'
    BY <1>3 DEF IInv, SavedShape
  <2>2. engine'.dirty = dirty
    BY <1>3 DEF Unsaved, IInv, TypeOK
  <2>3. ASSUME ~dirty, NEW k \in Keys
        PROVE  /\ IsFiring(alerts'[k]) => Saved(alerts'[k]) = saved.firing[k]
               /\ ~IsFiring(alerts'[k]) /\ saved.age <= MaxAge => saved.firing[k] = NoAlert
    <3> DEFINE a == Resumed[k]
               b == Evaluated(a, k)
    <3>1. /\ a \in Slot /\ b \in Slot /\ alerts'[k] = Reminded(a, b)
          /\ IsFiring(alerts'[k]) <=> IsFiring(b)
      BY EvaluateAlerts
    <3>2. ~engine.dirty /\ ~Dirties(a, b)
      BY <2>3
    <3>3. /\ IsFiring(a) <=> IsFiring(b)
          /\ ~Due(a, b)
          /\ IsFiring(b) => a.severity = b.severity
      BY <3>2 DEF Dirties, IsFiring
    <3>4. alerts'[k] = b
      BY <3>1, <3>3, RemindedFacts
    <3>5. IsFiring(b) => Saved(b) = Saved(a)
      BY <3>1, <3>3, EvaluatedFacts, SavedEqual, AlertFields DEF IInv
    <3>6. /\ IsFiring(a) => Saved(a) = saved.firing[k]
          /\ ~IsFiring(a) /\ saved.age <= MaxAge => saved.firing[k] = NoAlert
      <4>1. CASE engine.restored
        BY <3>2, <4>1, ResumedFacts DEF IInv, SavedIsCurrent
      <4>2. CASE ~engine.restored
        <5>1. a = IF saved.age <= MaxAge THEN saved.firing[k] ELSE NoAlert
          BY <4>2, ResumedFacts
        <5>2. IsFiring(a) => a = saved.firing[k] /\ a.clear = Unset /\ a.change = Unset
          BY <5>1 DEF IInv, SavedShape, IsFiring, NoAlert
        <5> QED BY <3>1, <5>1, <5>2, SavedFacts DEF IInv, SavedShape
      <4> QED BY <4>1, <4>2
    <3> QED BY <3>1, <3>3, <3>4, <3>5, <3>6
  <2> QED BY <1>3, <2>1, <2>2, <2>3 DEF SavedIsCurrent
<1> QED BY <1>2, <1>3 DEF Evaluate

\* What was sent out keeps track of what the alert remembers.
LEMMA TrackKept ==
    ASSUME NEW k \in Keys, NEW a \in Slot, NEW b \in Slot, OnTrack(a, k), a = Resumed[k],
           TypeOK, b = Evaluated(a, k), NEW t, t = ToldAfter(k, a, b)
    PROVE  /\ IsFiring(b) => /\ b.peak = b.notified /\ t.sev = b.notified
                             /\ t.ago >= Reminded(a, b).quiet
           /\ Notifies(a, b) => ToldBefore(k) < b.notified
           /\ Due(a, b) => told[k].ago >= Repeat
           /\ ~Due(a, b) /\ ~Notifies(a, b) => t.ago = told[k].ago
<1>1. told[k] \in [sev : 0..2, ago : Nat] /\ Repeat \in Nat
  BY AlertAssumption DEF TypeOK
<1>2. /\ IsFiring(a) => a \in Alert
      /\ IsFiring(b) => b \in Alert
  BY AlertFields
<1>3. ToldBefore(k) = IF IsFiring(a) THEN told[k].sev ELSE 0
  BY DEF ToldBefore
<1>4. /\ t.sev = IF Notifies(a, b) THEN b.notified ELSE IF IsFiring(b) THEN ToldBefore(k) ELSE 0
      /\ t.ago = IF Notifies(a, b) \/ Due(a, b) THEN 0 ELSE told[k].ago
  BY DEF ToldAfter
<1>5. CASE ~IsFiring(b)
  BY <1>4, <1>5 DEF Notifies, Due
<1>6. CASE IsFiring(b) /\ ~IsFiring(a)
  <2>1. b.quiet = 0 /\ b.peak = b.notified /\ b.notified \in 1..2
    BY <1>6, EvaluatedFacts
  <2>2. Notifies(a, b) /\ ~Due(a, b)
    BY <1>6 DEF Notifies, Due
  <2> QED BY <1>3, <1>4, <1>6, <2>1, <2>2, RemindedFacts
<1>7. CASE IsFiring(b) /\ IsFiring(a)
  <2>1. a.peak = a.notified /\ told[k].sev = a.notified /\ told[k].ago >= a.quiet
    BY <1>7 DEF OnTrack
  <2>2. Notifies(a, b) <=> b.notified > a.notified
    BY <1>7 DEF Notifies
  <2>3. b.peak = b.notified /\ b.notified >= a.notified
        /\ b.quiet = IF b.notified > a.notified THEN 0 ELSE a.quiet
    BY <1>2, <1>7, <2>1, EvaluatedFacts DEF Alert, Larger
  <2>4. CASE Due(a, b)
    <3>1. ~Notifies(a, b) /\ b.quiet >= Repeat /\ Reminded(a, b).quiet = 0
      BY <1>2, <1>7, <2>4, RemindedFacts DEF Due, Alert
    <3> QED BY <1>1, <1>2, <1>3, <1>4, <1>7, <2>1, <2>2, <2>3, <2>4, <3>1 DEF Alert
  <2>5. CASE ~Due(a, b)
    <3>1. Reminded(a, b) = b
      BY <2>5, RemindedFacts
    <3> QED BY <1>1, <1>2, <1>3, <1>4, <1>7, <2>1, <2>2, <2>3, <2>5, <3>1 DEF Alert
  <2> QED BY <2>4, <2>5
<1> QED BY <1>5, <1>6, <1>7

LEMMA EvaluateEngine ==
    ASSUME TypeOK, Evaluate
    PROVE  /\ engine'.restored /\ UNCHANGED restarts
           /\ ~DiskFails => ~engine'.dirty
<1> DEFINE next == [k \in Keys |-> Evaluated(Resumed[k], k)]
           dirty == engine.dirty \/ \E k \in Keys : Dirties(Resumed[k], next[k])
<1>1. \/ engine' = [dirty |-> FALSE, wasEnabled |-> TRUE, restored |-> TRUE, sinceSave |-> 0]
      \/ engine' = Unsaved(dirty) /\ (dirty => DiskFails)
  BY DEF Evaluate
<1>2. UNCHANGED restarts
  BY DEF Evaluate
<1> HIDE DEF dirty
<1>3. CASE engine' = Unsaved(dirty) /\ (dirty => DiskFails)
  BY <1>2, <1>3 DEF Unsaved, TypeOK
<1> QED BY <1>1, <1>2, <1>3

\* What was sent out is on record with the alert, and in the file with it.
LEMMA EvaluateTold == ASSUME IInv, Evaluate, TypeOK', SavedIsCurrent' PROVE ToldInv'
<1> SUFFICES ASSUME SavesLast, NEW k \in Keys
             PROVE  /\ OnTrack(alerts[k], k)'
                    /\ ~DiskFails /\ saved'.age <= MaxAge => OnTrack(saved.firing[k], k)'
  BY DEF ToldInv, SavesLast
<1> DEFINE a == Resumed[k]
           b == Evaluated(a, k)
           t == ToldAfter(k, a, b)
<1>1. /\ a \in Slot /\ b \in Slot /\ alerts'[k] = Reminded(a, b) /\ alerts'[k] \in Slot
      /\ IsFiring(alerts'[k]) <=> IsFiring(b)
      /\ told'[k] = t
  BY EvaluateAlerts
<1>2. OnTrack(a, k)
  BY ResumedFacts
<1>3. IsFiring(b) => /\ b.peak = b.notified /\ t.sev = b.notified
                     /\ t.ago >= Reminded(a, b).quiet
  BY <1>1, <1>2, TrackKept DEF IInv
<1>4. IsFiring(b) => alerts'[k].peak = b.peak /\ alerts'[k].notified = b.notified
  BY <1>1, RemindedFacts DEF Alert
<1>5. OnTrack(alerts[k], k)'
  BY <1>1, <1>3, <1>4 DEF OnTrack
<1>6. ~DiskFails /\ saved'.age <= MaxAge => OnTrack(saved.firing[k], k)'
  <2> SUFFICES ASSUME ~DiskFails, saved'.age <= MaxAge PROVE OnTrack(saved.firing[k], k)'
    OBVIOUS
  <2>1. engine'.restored /\ ~engine'.dirty
    BY EvaluateEngine DEF IInv
  <2>2. /\ IsFiring(alerts'[k]) => saved'.firing[k] = Saved(alerts'[k])
        /\ ~IsFiring(alerts'[k]) => saved'.firing[k] = NoAlert
    BY <2>1 DEF SavedIsCurrent
  <2> QED BY <1>1, <1>5, <2>2, SavedFacts DEF OnTrack, IsFiring, NoAlert
<1> QED BY <1>5, <1>6

LEMMA EvaluateStep == ASSUME IInv, Evaluate PROVE IInv'
<1>1. TypeOK' /\ SavedIsCurrent' /\ SavedShape'
  BY EvaluateType, EvaluateSaved
<1>2. RestoredFirst' /\ FileInv'
  BY EvaluateEngine DEF RestoredFirst, FileInv, IInv
<1>3. (restarts <= MaxRestarts)'
  BY DEF Evaluate, IInv
<1>4. SeenInv'
  BY EvaluateSeen DEF SeenInv
<1> QED BY <1>1, <1>2, <1>3, <1>4, EvaluateTold DEF IInv

-----------------------------------------------------------------------------
(* The other steps.                                                         *)

LEMMA InitInv == Init => IInv
<1> SUFFICES ASSUME Init PROVE IInv
  OBVIOUS
<1> USE AlertAssumption
<1>1. TypeOK
  <2>1. fleet \in [Units -> [net : {"unchecked", "online", "offline", "removed"}, sev : 0..2]]
    BY DEF Init, Warning, Critical
  <2>2. config \in [on : BOOLEAN, rules : SUBSET Rules]
    BY DEF Init
  <2>3. alerts \in [Keys -> Slot] /\ saved \in [age : Nat, firing : [Keys -> Slot]]
    BY DEF Init, Slot
  <2> QED BY <2>1, <2>2, <2>3 DEF Init, TypeOK
<1>2. SavedShape /\ SavedIsCurrent /\ RestoredFirst
  BY DEF Init, SavedShape, SavedIsCurrent, RestoredFirst
<1>3. FileInv /\ restarts <= MaxRestarts
  BY DEF Init, FileInv
<1>4. SeenInv /\ ToldInv
  BY DEF Init, SeenInv, ToldInv, OnTrack, IsFiring, NoAlert
<1> QED BY <1>1, <1>2, <1>3, <1>4 DEF IInv

\* Steps that change only the fleet or the settings.
LEMMA OutsideStep ==
    ASSUME IInv, TypeOK', UNCHANGED <<alerts, engine, saved, seen, told, restarts>>
    PROVE  IInv'
BY DEF IInv, SavedShape, SavedIsCurrent, RestoredFirst, FileInv, SeenInv, ToldInv, OnTrack

LEMMA FleetChangesStep == ASSUME IInv, NEW u \in Units, FleetChanges(u) PROVE IInv'
<1>1. TypeOK'
  BY DEF FleetChanges, Warning, Critical, IInv, TypeOK
<1> QED BY <1>1, OutsideStep DEF FleetChanges

LEMMA SettingsChangeStep == ASSUME IInv, SettingsChange PROVE IInv'
<1>1. config' \in [on : BOOLEAN, rules : SUBSET Rules]
  <2>1. config \in [on : BOOLEAN, rules : SUBSET Rules]
    BY DEF IInv, TypeOK
  <2>2. CASE config' = [config EXCEPT !.on = ~@]
    BY <2>1, <2>2
  <2>3. ASSUME NEW r \in Rules,
               config' = [config EXCEPT !.rules = IF r \in @ THEN @ \ {r} ELSE @ \cup {r}]
        PROVE  config' \in [on : BOOLEAN, rules : SUBSET Rules]
    BY <2>1, <2>3
  <2> QED BY <2>2, <2>3 DEF SettingsChange
<1>2. TypeOK'
  BY <1>1 DEF SettingsChange, IInv, TypeOK
<1> QED BY <1>2, OutsideStep DEF SettingsChange

LEMMA ResetStep == ASSUME IInv, Reset PROVE IInv'
<1>1. TypeOK'
  BY DEF Reset, IInv, TypeOK, Slot
<1>2. engine'.restored = engine.restored /\ engine'.dirty
  BY DEF Reset, IInv, TypeOK
<1>3. \A k \in Keys : alerts'[k] = NoAlert
  BY DEF Reset
<1>4. SavedShape' /\ SavedIsCurrent' /\ RestoredFirst' /\ FileInv' /\ (restarts <= MaxRestarts)'
  BY <1>2, <1>3 DEF Reset, IInv, SavedShape, SavedIsCurrent, RestoredFirst, FileInv
<1>5. SeenInv' /\ ToldInv'
  BY <1>3 DEF Reset, IInv, SeenInv, ToldInv, OnTrack, IsFiring, NoAlert
<1> QED BY <1>1, <1>4, <1>5 DEF IInv

LEMMA RestartStep == ASSUME IInv, Restart PROVE IInv'
<1>1. TypeOK'
  BY AlertAssumption, SMTT(30) DEF Restart, IInv, TypeOK, Slot
<1>2. ~engine'.restored /\ restarts' \in Nat /\ restarts' # 0 /\ restarts' <= MaxRestarts
  BY AlertAssumption DEF Restart, IInv, TypeOK
<1>3. \A k \in Keys : alerts'[k] = NoAlert
  BY DEF Restart
<1>4. SavedShape' /\ SavedIsCurrent' /\ RestoredFirst' /\ FileInv'
  BY <1>2, <1>3 DEF Restart, IInv, SavedShape, SavedIsCurrent, RestoredFirst, FileInv
<1>5. SeenInv' /\ ToldInv'
  BY <1>3 DEF Restart, IInv, SeenInv, ToldInv, OnTrack, IsFiring, NoAlert
<1> QED BY <1>1, <1>2, <1>4, <1>5 DEF IInv

\* A time that counts stays one; counting up to the higher cap keeps the order.
LEMMA CountFacts ==
    ASSUME NEW m \in Nat, NEW n \in Nat, NEW cap \in Nat, NEW higher \in Nat, cap <= higher
    PROVE  /\ Count(m, cap) \in Nat /\ Count(m, cap) >= m
           /\ n >= m => Count(n, higher) >= Count(m, cap)
           /\ Count(Unset, cap) = Unset
BY DEF Count, Unset

LEMMA OlderFacts ==
    ASSUME NEW a \in Slot, NEW r \in Rules
    PROVE  /\ Older(a, r) \in Slot
           /\ a = NoAlert => Older(a, r) = NoAlert
           /\ a # NoAlert =>
                /\ a \in Alert /\ Older(a, r) \in Alert
                /\ Older(a, r).state = a.state /\ Older(a, r).peak = a.peak
                /\ Older(a, r).notified = a.notified
                /\ Older(a, r).held = Count(a.held, For[r])
                /\ Older(a, r).clear = Count(a.clear, ClearTime(r))
                /\ Older(a, r).change = Count(a.change, For[r])
                /\ Older(a, r).quiet = Count(a.quiet, Repeat)
           /\ IsFiring(Older(a, r)) <=> IsFiring(a)
<1>1. CASE a = NoAlert
  BY <1>1 DEF Older, Slot
<1>2. CASE a # NoAlert
  <2>1. a \in Alert /\ For[r] \in Nat /\ Repeat \in Nat /\ ClearTime(r) \in Nat
    BY <1>2, AlertAssumption DEF Slot, ClearTime, Larger
  <2>2. /\ Count(a.held, For[r]) \in Nat /\ Count(a.quiet, Repeat) \in Nat
        /\ Count(a.clear, ClearTime(r)) \in Nat \cup {Unset}
        /\ Count(a.change, For[r]) \in Nat \cup {Unset}
    BY <2>1 DEF Alert, Count, Unset
  <2>3. Older(a, r) = [a EXCEPT !.held = Count(a.held, For[r]), !.clear = Count(a.clear, ClearTime(r)),
                                !.change = Count(a.change, For[r]), !.quiet = Count(a.quiet, Repeat)]
    BY <1>2, <2>1 DEF Older, Alert
  <2> QED BY <1>2, <2>1, <2>2, <2>3 DEF Slot, Alert, IsFiring
<1> QED BY <1>1, <1>2

\* The file ages as the alerts do.
LEMMA SavedOlder ==
    ASSUME NEW a \in Alert, IsFiring(a), NEW r \in Rules
    PROVE  Saved(Older(a, r)) = Older(Saved(a), r)
<1> DEFINE x == Saved(Older(a, r))
           y == Older(Saved(a), r)
<1>1. a \in Slot /\ a # NoAlert
  BY DEF Slot, IsFiring, NoAlert
<1>2. /\ Saved(a) = [a EXCEPT !.clear = Unset, !.change = Unset]
      /\ x = [Older(a, r) EXCEPT !.clear = Unset, !.change = Unset]
  BY <1>1, OlderFacts DEF Saved
<1>3. Saved(a) \in Alert /\ Saved(a) # NoAlert /\ Older(a, r) \in Alert
  BY <1>1, <1>2, OlderFacts DEF Alert, NoAlert, IsFiring
<1>4. Older(a, r) = [a EXCEPT !.held = Count(a.held, For[r]), !.clear = Count(a.clear, ClearTime(r)),
                              !.change = Count(a.change, For[r]), !.quiet = Count(a.quiet, Repeat)]
  BY <1>1 DEF Older, Alert
<1>5. y = [a EXCEPT !.held = Count(a.held, For[r]), !.clear = Unset,
                    !.change = Unset, !.quiet = Count(a.quiet, Repeat)]
  <2>1. Saved(a).held = a.held /\ Saved(a).quiet = a.quiet
        /\ Saved(a).clear = Unset /\ Saved(a).change = Unset
    BY <1>2 DEF Alert
  <2>2. \A cap : Count(Unset, cap) = Unset
    BY DEF Count
  <2>3. y = [Saved(a) EXCEPT !.held = Count(a.held, For[r]), !.clear = Unset,
                             !.change = Unset, !.quiet = Count(a.quiet, Repeat)]
    BY <1>3, <2>1, <2>2 DEF Older, Alert
  <2> QED BY <1>2, <2>3 DEF Alert
<1> QED BY <1>2, <1>4, <1>5 DEF Alert

LEMMA TickType == ASSUME IInv, Tick PROVE TypeOK'
<1> USE AlertAssumption
<1>1. \A k \in Keys : k[2] \in Rules /\ For[k[2]] \in Nat /\ ClearTime(k[2]) \in Nat
  BY SeverityType DEF IInv, ClearTime, Larger
<1>2. \A m \in Nat, cap \in Nat : Count(m, cap) \in Nat
  BY DEF Count
<1>3. alerts' \in [Keys -> Slot]
  BY <1>1, OlderFacts DEF Tick, IInv, TypeOK
<1>4. saved' \in [age : Nat, firing : [Keys -> Slot]]
  <2>1. saved.age \in Nat /\ MaxAge + 1 \in Nat /\ saved.firing \in [Keys -> Slot]
    BY DEF IInv, TypeOK
  <2>2. \A k \in Keys : Older(saved.firing[k], k[2]) \in Slot
    BY <1>1, <2>1, OlderFacts
  <2> QED BY <1>2, <2>1, <2>2 DEF Tick
<1>5. engine' \in [dirty : BOOLEAN, wasEnabled : BOOLEAN, restored : BOOLEAN, sinceSave : Nat]
  BY <1>2 DEF Tick, IInv, TypeOK
<1>6. seen' \in [Keys -> [holds : BOOLEAN, for : Nat]]
  BY <1>1, <1>2 DEF Tick, IInv, TypeOK
<1>7. told' \in [Keys -> [sev : 0..2, ago : Nat]]
  BY <1>2 DEF Tick, IInv, TypeOK
<1> QED BY <1>3, <1>4, <1>5, <1>6, <1>7 DEF Tick, IInv, TypeOK

\* Time keeps an alert on track: both count up to the same reminder.
LEMMA TickTrack ==
    ASSUME IInv, Tick, NEW k \in Keys, NEW a \in Slot, OnTrack(a, k), NEW b, b = Older(a, k[2])
    PROVE  OnTrack(b, k)'
<1>1. k[2] \in Rules /\ Repeat \in Nat /\ told[k] \in [sev : 0..2, ago : Nat]
  BY SeverityType, AlertAssumption DEF IInv, TypeOK
<1>2. told'[k].sev = told[k].sev /\ told'[k].ago = Count(told[k].ago, Repeat)
  BY <1>1 DEF Tick
<1>3. SUFFICES ASSUME IsFiring(b)
               PROVE  b.peak = b.notified /\ told'[k].sev = b.notified /\ told'[k].ago >= b.quiet
  BY DEF OnTrack
<1>4. IsFiring(a) /\ a # NoAlert /\ a \in Alert
  BY <1>1, <1>3, OlderFacts, AlertFields DEF IsFiring, NoAlert
<1>5. b.peak = a.peak /\ b.notified = a.notified /\ b.quiet = Count(a.quiet, Repeat)
  BY <1>1, <1>4, OlderFacts
<1>6. Count(told[k].ago, Repeat) >= Count(a.quiet, Repeat)
  <2>1. told[k].ago \in Nat /\ a.quiet \in Nat /\ told[k].ago >= a.quiet
    BY <1>1, <1>4 DEF OnTrack, Alert
  <2>2. Repeat <= Repeat
    BY <1>1
  <2> QED BY ONLY <1>1, <2>1, <2>2, CountFacts
<1> QED BY <1>2, <1>4, <1>5, <1>6 DEF OnTrack

LEMMA TickStep == ASSUME IInv, Tick PROVE IInv'
<1> USE AlertAssumption
<1>1. TypeOK'
  BY TickType
<1>2. \A k \in Keys : k[2] \in Rules /\ For[k[2]] \in Nat /\ ClearTime(k[2]) \in Nat
                      /\ For[k[2]] <= ClearTime(k[2])
  BY SeverityType DEF IInv, ClearTime, Larger
<1>3. \A k \in Keys : /\ alerts'[k] = Older(alerts[k], k[2]) /\ alerts[k] \in Slot
                      /\ saved'.firing[k] = Older(saved.firing[k], k[2]) /\ saved.firing[k] \in Slot
  BY DEF Tick, IInv, TypeOK
<1>4. /\ engine'.restored = engine.restored /\ engine'.dirty = engine.dirty
      /\ restarts' = restarts
      /\ saved'.age <= MaxAge => saved.age <= MaxAge
  <2>1. saved'.age >= saved.age /\ saved'.age \in Nat /\ saved.age \in Nat
    <3>1. saved'.age = Count(saved.age, MaxAge + 1) /\ saved.age \in Nat /\ MaxAge \in Nat
      BY DEF Tick, IInv, TypeOK
    <3> QED BY <3>1 DEF Count
  <2> QED BY <2>1 DEF Tick, IInv, TypeOK
<1>5. SavedShape'
  <2>1. ASSUME NEW k \in Keys
        PROVE  \/ saved'.firing[k] = NoAlert
               \/ /\ IsFiring(saved'.firing[k])
                  /\ saved'.firing[k].clear = Unset /\ saved'.firing[k].change = Unset
    BY <1>2, <1>3, OlderFacts, CountFacts DEF IInv, SavedShape, Count
  <2> QED BY <2>1 DEF SavedShape
<1>6. SavedIsCurrent'
  <2>1. ASSUME engine.restored, ~engine.dirty, NEW k \in Keys
        PROVE  /\ IsFiring(alerts'[k]) => Saved(alerts'[k]) = saved'.firing[k]
               /\ ~IsFiring(alerts'[k]) /\ saved'.age <= MaxAge => saved'.firing[k] = NoAlert
    <3>1. IsFiring(alerts'[k]) <=> IsFiring(alerts[k])
      BY <1>2, <1>3, OlderFacts
    <3>2. IsFiring(alerts[k]) => Saved(alerts[k]) = saved.firing[k] /\ alerts[k] \in Alert
      BY <1>3, <2>1, AlertFields DEF IInv, SavedIsCurrent
    <3>3. ~IsFiring(alerts[k]) /\ saved.age <= MaxAge => saved.firing[k] = NoAlert
      BY <2>1 DEF IInv, SavedIsCurrent
    <3> QED BY <1>2, <1>3, <1>4, <3>1, <3>2, <3>3, SavedOlder, OlderFacts
  <2> QED BY <1>4, <2>1 DEF SavedIsCurrent
<1>7. RestoredFirst' /\ FileInv' /\ (restarts <= MaxRestarts)'
  BY <1>2, <1>3, <1>4, OlderFacts DEF IInv, RestoredFirst, FileInv
<1>8. SeenInv'
  <2>1. ASSUME NEW k \in Keys
        PROVE  /\ alerts'[k].state = "pending" => seen'[k].holds /\ seen'[k].for >= alerts'[k].held
               /\ IsFiring(alerts'[k]) /\ alerts'[k].clear # Unset =>
                    ~seen'[k].holds /\ seen'[k].for >= alerts'[k].clear
    <3>1. /\ seen[k] \in [holds : BOOLEAN, for : Nat] /\ seen'[k].holds = seen[k].holds
          /\ seen'[k].for = Count(seen[k].for, ClearTime(k[2]))
      BY DEF Tick, IInv, TypeOK
    <3>2. CASE alerts[k] = NoAlert
      <4>1. alerts'[k] = NoAlert
        BY <1>2, <1>3, <3>2, OlderFacts
      <4> QED BY <4>1 DEF NoAlert, IsFiring
    <3>3. CASE alerts[k] # NoAlert
      <4>1. /\ alerts[k] \in Alert /\ alerts'[k].state = alerts[k].state
            /\ alerts'[k].held = Count(alerts[k].held, For[k[2]])
            /\ alerts'[k].clear = Count(alerts[k].clear, ClearTime(k[2]))
        BY <1>2, <1>3, <3>3, OlderFacts
      <4>2. alerts[k].state = "pending" =>
              seen[k].holds /\ Count(seen[k].for, ClearTime(k[2])) >= Count(alerts[k].held, For[k[2]])
        <5>1. alerts[k].held \in Nat /\ seen[k].for \in Nat
          BY <3>1, <4>1 DEF Alert
        <5>2. alerts[k].state = "pending" => seen[k].holds /\ seen[k].for >= alerts[k].held
          BY DEF IInv, SeenInv
        <5> QED BY <1>2, <5>1, <5>2, CountFacts
      <4>3. alerts'[k].clear # Unset => alerts[k].clear \in Nat /\ alerts[k].clear # Unset
        BY <1>2, <4>1 DEF Alert, Count
      <4>4. IsFiring(alerts[k]) /\ alerts'[k].clear # Unset =>
              /\ ~seen[k].holds
              /\ Count(seen[k].for, ClearTime(k[2])) >= Count(alerts[k].clear, ClearTime(k[2]))
        <5>1. seen[k].for \in Nat
          BY <3>1
        <5>2. IsFiring(alerts[k]) /\ alerts[k].clear # Unset =>
                ~seen[k].holds /\ seen[k].for >= alerts[k].clear
          BY DEF IInv, SeenInv
        <5>3. ASSUME NEW m \in Nat, NEW n \in Nat, NEW cap \in Nat, n >= m
              PROVE  Count(n, cap) >= Count(m, cap)
          BY <5>3 DEF Count
        <5> QED BY <1>2, <4>3, <5>1, <5>2, <5>3
      <4> QED BY <3>1, <4>1, <4>2, <4>4 DEF IsFiring
    <3> QED BY <3>2, <3>3
  <2> QED BY <2>1 DEF SeenInv
<1>9. ToldInv'
  BY <1>3, <1>4, TickTrack DEF IInv, ToldInv, SavesLast
<1> QED BY <1>1, <1>5, <1>6, <1>7, <1>8, <1>9 DEF IInv

LEMMA StutterStep == ASSUME IInv, UNCHANGED vars PROVE IInv'
<1>1. TypeOK'
  BY DEF vars, IInv, TypeOK
<1> QED BY <1>1, OutsideStep DEF vars

LEMMA NextInv == IInv /\ [Next]_vars => IInv'
BY EvaluateStep, ResetStep, RestartStep, FleetChangesStep, SettingsChangeStep, TickStep, StutterStep
   DEF Next

LEMMA Invariance == Spec => []IInv
BY InitInv, NextInv, PTL DEF Spec

\* The types of the variables.
THEOREM TypeCorrect == Spec => []TypeOK
<1>1. IInv => TypeOK
  BY DEF IInv
<1> QED BY <1>1, Invariance, PTL

\* Unless the last save failed, what is on disk is what fires, for any number of
\* units and rules and whatever the clock, the settings and restarts do.
THEOREM FileIsCurrent == Spec => []SavedIsCurrent
<1>1. IInv => SavedIsCurrent
  BY DEF IInv
<1> QED BY <1>1, Invariance, PTL

\* An alert that fires is one that the evaluation resumed, unless it fires now.
LEMMA FiresInEvaluate ==
    ASSUME IInv, [Next]_vars, NEW k \in Keys, IsFiring(alerts'[k]), ~IsFiring(Resumed[k])
    PROVE  Evaluate
<1>1. ~IsFiring(alerts[k])
  <2>1. CASE engine.restored
    BY <2>1, ResumedFacts
  <2>2. CASE ~engine.restored
    BY <2>2 DEF IInv, RestoredFirst, IsFiring, NoAlert
  <2> QED BY <2>1, <2>2
<1>2. CASE Reset \/ Restart
  BY <1>2 DEF Reset, Restart, IsFiring, NoAlert
<1>3. CASE Tick
  BY <1>1, <1>3, SeverityType, OlderFacts DEF Tick, IInv, TypeOK
<1>4. CASE SettingsChange \/ (\E u \in Units : FleetChanges(u)) \/ UNCHANGED vars
  BY <1>1, <1>4 DEF SettingsChange, FleetChanges, vars
<1> QED BY <1>2, <1>3, <1>4 DEF Next

\* Flap protection: a condition fires only when every judgement for its "for"
\* has found it true, and an alert resolves only when every judgement for as
\* long, and for MIN_CLEAR_MS, has found it false.
THEOREM NoBlipCounts == Spec => NotOnABlip
<1>1. ASSUME IInv, [Next]_vars
      PROVE  \A k \in Keys : FiresOnlyWhenHeld(k) /\ ResolvesOnlyWhenClear(k)
  BY <1>1, FiresInEvaluate, EvaluateSeen DEF FiresOnlyWhenHeld, ResolvesOnlyWhenClear
<1> QED BY <1>1, Invariance, PTL DEF Spec, NotOnABlip

\* What one evaluation sends out, given that no restart comes after a failed save.
LEMMA EvaluateTells ==
    ASSUME IInv, Evaluate, SavesLast, NEW k \in Keys
    PROVE  NotAgain(k) /\ Spaced(k)
<1> DEFINE a == Resumed[k]
           b == Evaluated(a, k)
<1>1. /\ a \in Slot /\ b \in Slot /\ alerts'[k] = Reminded(a, b)
      /\ IsFiring(alerts'[k]) <=> IsFiring(b)
      /\ told'[k] = ToldAfter(k, a, b)
  BY EvaluateAlerts
<1>2. OnTrack(a, k) /\ TypeOK
  BY ResumedFacts DEF IInv
<1>3. /\ Notifies(a, b) => ToldBefore(k) < b.notified
      /\ Due(a, b) => told[k].ago >= Repeat
      /\ ~Due(a, b) /\ ~Notifies(a, b) => told'[k].ago = told[k].ago
  BY <1>1, <1>2, TrackKept
<1>4. IsFiring(b) => alerts'[k].notified = b.notified
  BY <1>1, RemindedFacts DEF Alert
<1>5. Notifies(a, alerts'[k]) <=> Notifies(a, b)
  BY <1>1, <1>4 DEF Notifies
<1>6. NotAgain(k)
  BY <1>3, <1>4, <1>5 DEF NotAgain, Notifies
<1>7. Spaced(k)
  <2>1. SUFFICES ASSUME IsFiring(a), IsFiring(b), b.notified = a.notified,
                        told'[k].ago = 0, told[k].ago > 0
                 PROVE  told[k].ago >= Repeat
    BY <1>1, <1>4 DEF Spaced
  <2>2. a.notified \in Int
    BY <1>1, <2>1, AlertFields DEF Alert
  <2>3. ~Notifies(a, b)
    BY <2>1, <2>2 DEF Notifies
  <2>4. told[k].ago \in Nat
    BY <1>2 DEF TypeOK
  <2> QED BY <1>3, <2>1, <2>3, <2>4
<1> QED BY <1>6, <1>7

\* Nothing is said twice, however many units, rules, escalations and restarts
\* there are, as long as no restart comes after a save that failed: the file is
\* all the next start knows of what was sent.
THEOREM NothingTwice == ASSUME ~DiskFails \/ MaxRestarts = 0 PROVE Spec => NothingRepeated
<1>1. SavesLast
  BY DEF SavesLast
<1>2. ASSUME IInv, [Next]_vars
      PROVE  \A k \in Keys : Evaluate => NotAgain(k) /\ Spaced(k)
  BY <1>1, <1>2, EvaluateTells
<1> QED BY <1>2, Invariance, PTL DEF Spec, NothingRepeated

\* The resolved message of an alert goes exactly to the channels that one of
\* its firing messages went to, whatever the channels filter by.
THEOREM ResolvedAsFired == ASSUME ~DiskFails \/ MaxRestarts = 0 PROVE Spec => ResolvedFollowsFiring
<1>1. SavesLast
  BY DEF SavesLast
<1>2. ASSUME IInv, [Next]_vars
      PROVE  \A k \in Keys : Evaluate /\ IsFiring(Resumed[k]) /\ ~IsFiring(alerts'[k]) =>
               \A c \in DOMAIN MinSeverity :
                 Resumed[k].peak >= MinSeverity[c] <=> told[k].sev >= MinSeverity[c]
  BY <1>1, <1>2, ResumedFacts DEF OnTrack
<1> QED BY <1>2, Invariance, PTL DEF Spec, ResolvedFollowsFiring
=============================================================================

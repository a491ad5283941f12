---------------------------- MODULE MqttPublisher ----------------------------
(***************************************************************************)
(* The MQTT publisher: it keeps the retained topics of a broker in line    *)
(* with the fleet, over a connection that drops, wedges and refuses, with  *)
(* at most MaxInFlight publishes outstanding, from memory that a restart   *)
(* of the dashboard loses.                                                 *)
(*                                                                         *)
(* One discovery config per unit stands for the entities of its hardware:  *)
(* a unit that is "bare" is online without it.                             *)
(***************************************************************************)
EXTENDS Naturals, Sequences, FiniteSets, SequencesExt

CONSTANTS
  Ids,          \* units
  Dashboard,    \* the dashboard, a topic owner beside the units
  Kinds,        \* the state topics of a unit: status, metrics
  MaxInFlight,  \* MAX_IN_FLIGHT
  MaxEvents     \* bound: steps of the fleet, the user, the network and the broker

ASSUME PublisherAssumption ==
  /\ IsFiniteSet(Ids) /\ Dashboard \notin Ids
  /\ Kinds \subseteq {"status", "metrics"}
  /\ {MaxInFlight, MaxEvents} \subseteq Nat

VARIABLES
  fleet,     \* the units and how they are
  settings,  \* mqttEnabled and mqttDiscovery
  pub,       \* the publisher's memory
  broker,    \* the retained messages
  stuck,     \* the connection takes publishes and delivers nothing
  events,    \* steps of the environment so far
  excused    \* topics that the publisher is known to get wrong; see the README

vars == <<fleet, settings, pub, broker, stuck, events, excused>>

UnitStates == {"gone", "down", "bare", "up"}
Empty == "empty"    \* deletes the retained value; nothing retained
StateTopics == Ids \X Kinds
Status == <<Dashboard, "status">>
Config(u) == <<u, "config">>
Configs == {Config(u) : u \in Ids \union {Dashboard}}
Topics == StateTopics \union Configs \union {Status}
Payloads == UnitStates \union {"1", "0", "config", Empty}

Present == {u \in Ids : fleet[u] # "gone"}
\* The status says no more than whether the unit is online.
Reading(t) == IF t[2] = "status" /\ fleet[t[1]] = "bare" THEN "up" ELSE fleet[t[1]]

Message(t, v, qos) == [topic |-> t, payload |-> v, qos |-> qos, got |-> FALSE]
Clear(t) == Message(t, Empty, 1)
\* Two messages that are not retained.
Reads == <<Dashboard, "read">>
Events == <<Dashboard, "events">>
Subscribe == Message(Reads, Empty, 0)
Event == Message(Events, Empty, 1)
Messages == [topic : Topics \union {Reads, Events}, payload : Payloads,
             qos : {0, 1}, got : BOOLEAN]

\* The topics in the order of the loops: one unit after the other.
Owners == SetToSeq(Ids)
Names == SetToSeq(Kinds)
StateSeq == [n \in 1 .. Len(Owners) * Len(Names) |->
               <<Owners[1 + ((n - 1) \div Len(Names))], Names[1 + ((n - 1) % Len(Names))]>>]
ConfigSeq == [i \in DOMAIN Owners |-> Config(Owners[i])]

\* What of s is in S, in the order of s.
Filter(s, S) ==
  LET kept[n \in 0 .. Len(s)] ==
        IF n = 0 THEN <<>> ELSE IF s[n] \in S THEN Append(kept[n - 1], s[n]) ELSE kept[n - 1]
  IN kept[Len(s)]
StatesOf(S) == Filter(StateSeq, S \X Kinds)
ConfigsOf(S) == Filter(ConfigSeq, {Config(u) : u \in S})
DashboardOf(S) == IF Dashboard \in S THEN <<Config(Dashboard)>> ELSE <<>>

(***************************************************************************)
(* The publisher's memory p: the connection ("retiring" is one kept only   *)
(* to deliver the last clears), what is outstanding on it in order, the    *)
(* last payload sent per topic, the units and configs waiting to be        *)
(* cleared, the owners whose configs are tracked, the read of the broker's *)
(* configs under way, and what the last one found.                         *)
(***************************************************************************)
NoRead == [stage |-> "none", got |-> FALSE, found |-> {}]
Fresh(conn) ==
  [conn |-> conn, wire |-> <<>>, sent |-> [t \in Topics |-> Empty], removed |-> {},
   pending |-> <<>>, tracked |-> {}, read |-> NoRead, found |-> {}]

HasClient(p) == p.conn \in {"down", "up"}
InFlight(p) == Cardinality({i \in DOMAIN p.wire : p.wire[i].topic # Reads})

\* Mutant: the cap is compared before the publish is counted.
RoomOver(p) == IF p.conn = "up" /\ InFlight(p) <= MaxInFlight
               THEN (MaxInFlight + 1) - InFlight(p) ELSE 0

Room(p) == IF p.conn = "up" /\ InFlight(p) < MaxInFlight THEN MaxInFlight - InFlight(p) ELSE 0
First(s, n) == SubSeq(s, 1, IF n < Len(s) THEN n ELSE Len(s))
Rest(s, n) == SubSeq(s, n + 1, Len(s))

\* _publish, for one message after the other: the cap is met by the last ones.
Publish(p, messages) == [p EXCEPT !.wire = @ \o First(messages, Room(p))]

Tell(p, topics, payloads, qos) ==
  [p EXCEPT !.wire = @ \o [i \in DOMAIN topics |-> Message(topics[i], payloads[topics[i]], qos)],
            !.sent = [t \in Topics |-> IF t \in ToSet(topics) THEN payloads[t] ELSE @[t]]]
\* _publishIfChanged, for one topic of order after the other. (A handler may be
\* the set of its one outcome, so that TLC computes what its parts hand on once.)
PublishChanged(p, order, payloads, qos) ==
  LET changed == {t \in DOMAIN payloads : p.sent[t] # payloads[t]}
  IN {Tell(p, topics, payloads, qos) : topics \in {First(Filter(order, changed), Room(p))}}

Announce(p) == PublishChanged(p, <<Status>>, [t \in {Status} |-> "1"], 1)

\* Mutant: one clear that is handed off is enough.
ClearRemovedAtOnce(p) ==
  LET topics == StatesOf(p.removed)
      handed == ToSet(First(topics, Room(p)))
  IN [Publish(p, [i \in DOMAIN topics |-> Clear(topics[i])])
        EXCEPT !.removed = {u \in @ : \A k \in Kinds : <<u, k>> \notin handed}]

\* _clearRemovedUnits: a unit stays queued until all its clears are handed off.
ClearRemoved(p) ==
  LET topics == StatesOf(p.removed)
      left == ToSet(Rest(topics, Room(p)))
  IN [Publish(p, [i \in DOMAIN topics |-> Clear(topics[i])])
        EXCEPT !.removed = {u \in @ : \E k \in Kinds : <<u, k>> \in left}]

\* _removeDiscovery, for one topic after the other; without a client nothing is queued.
Forget(sent, topics) == [t \in Topics |-> IF t \in topics THEN Empty ELSE sent[t]]
Unqueued(p, topics) == [p EXCEPT !.pending = Filter(@, Configs \ topics)]
RemoveDiscovery(p, topics) ==
  LET forgotten == [p EXCEPT !.sent = Forget(@, ToSet(topics))]
  IN IF ~HasClient(p) THEN forgotten
     ELSE [Unqueued(forgotten, ToSet(topics)) EXCEPT !.pending = @ \o topics]

FlushRemovals(p) ==
  [Publish(p, [i \in DOMAIN p.pending |-> Clear(p.pending[i])])
     EXCEPT !.pending = Rest(@, Room(p))]

\* _clearDiscovery: the dashboard's own config goes last.
ClearDiscovery(p) ==
  LET removed == RemoveDiscovery(p, ConfigsOf(p.tracked) \o DashboardOf(p.tracked))
  IN FlushRemovals([removed EXCEPT !.tracked = {}])

\* Mutant: configs of units that are gone are left alone.
AdoptPresent(p) == [p EXCEPT !.tracked = @ \union (p.found \intersect Present), !.found = {}]

\* _adoptFoundDiscovery
AdoptFound(p) ==
  LET ours == p.found \ {Dashboard}
      gone == RemoveDiscovery(p, ConfigsOf(ours \ Present))
  IN [gone EXCEPT !.tracked = @ \union (ours \intersect Present), !.found = {}]

\* _syncDiscovery: the configs of an offline unit are kept, those of hardware
\* that is not there any more are removed.
Kept(p) == {u \in Ids : fleet[u] = "up" \/ (fleet[u] = "down" /\ u \in p.tracked)}
Outdated(p) == [RemoveDiscovery(p, ConfigsOf(p.tracked \ Kept(p)))
                  EXCEPT !.tracked = Kept(p) \union {Dashboard}]
Wanted(p) == {Config(o) : o \in p.tracked}
Superseded(p) == FlushRemovals(Unqueued(p, Wanted(p)))
PublishConfigs(p) ==
  PublishChanged(p, <<Config(Dashboard)>> \o ConfigSeq, [t \in Wanted(p) |-> "config"], 1)

SyncDiscovery(p) ==
  UNION {PublishConfigs(flushed) : flushed \in
    {Superseded(outdated) : outdated \in
      {Outdated(adopted) : adopted \in {AdoptFound(p)}}}}

StartRead(p, stage) ==
  [p EXCEPT !.read = [NoRead EXCEPT !.stage = stage], !.wire = Append(@, Subscribe)]

\* publishFleet, after its check for a stall.
PublishStates(p) == PublishChanged(p, StateSeq, [t \in Present \X Kinds |-> Reading(t)], 0)
PublishFleet(p) ==
  LET cleared == {ClearRemoved(announced) : announced \in
                   Announce([p EXCEPT !.removed = @ \ Present])}
      published == UNION {PublishStates(q) : q \in cleared}
  IN IF settings.discovery THEN UNION {SyncDiscovery(q) : q \in published}
                           ELSE {FlushRemovals(q) : q \in published}

Init ==
  /\ fleet \in [Ids -> {"gone", "up"}]
  /\ settings = [enabled |-> TRUE, discovery |-> TRUE]
  /\ pub = Fresh("down")
  /\ broker = [t \in Topics |-> Empty]
  /\ stuck = FALSE
  /\ events = 0
  /\ excused = {}

(***************************************************************************)
(* What goes wrong for publishes that were handed off: onLateError of each *)
(* of them. A clear is queued again, what was sent is forgotten.           *)
(***************************************************************************)
LateErrors(p, failed) ==
  LET wrong == {t \in Topics : \E m \in failed : /\ m.topic = t /\ m.payload # Empty
                                                /\ p.sent[t] = m.payload}
      uncleared == {t \in Topics : \E m \in failed : m.topic = t /\ m.payload = Empty}
      units == {t[1] : t \in uncleared \intersect StateTopics}
      owners == {t[1] : t \in uncleared \intersect Configs} \ p.tracked
  IN RemoveDiscovery([p EXCEPT !.sent = Forget(@, wrong), !.removed = @ \union units],
                     ConfigsOf(owners) \o DashboardOf(owners))

\* The teardown of a stalled connection and its reopening. The client is gone
\* when its publishes fail, so the clear of a config is not queued again.
Reopened(p) ==
  LET closed == [Fresh("none") EXCEPT !.removed = p.removed, !.pending = p.pending,
                                      !.tracked = p.tracked]
  IN [LateErrors(closed, ToSet(p.wire)) EXCEPT !.conn = "down"]

\* Topics handed off with a value by a step from p to q.
Told(p, q) == {q.wire[i].topic : i \in {j \in Len(p.wire) + 1 .. Len(q.wire) :
                                          q.wire[j].payload # Empty}}
WillSays == [broker EXCEPT ![Status] = "0"]

\* The broadcast tick.
Tick ==
  /\ settings.enabled
  /\ pub' \in PublishFleet(pub)
  /\ excused' = excused \ Told(pub, pub')
  /\ UNCHANGED <<fleet, settings, broker, stuck, events>>

\* The tick that finds a publish unacknowledged for ACK_TIMEOUT_MS.
StalledTick ==
  /\ settings.enabled
  /\ stuck
  /\ InFlight(pub) > 0
  /\ pub' \in PublishFleet(Reopened(pub))
  /\ broker' = WillSays
  /\ stuck' = FALSE
  /\ UNCHANGED <<fleet, settings, events, excused>>

\* Mutant: what was sent on the last connection is still taken for sent.
ConnectRemembers ==
  /\ pub.conn = "down"
  /\ LET up == [pub EXCEPT !.conn = "up", !.found = {}]
         announced == UNION {Announce(p) : p \in {up}}
         cleared == {ClearRemoved(p) : p \in announced}
         flushed == {FlushRemovals(p) : p \in cleared}
     IN pub' \in {StartRead(p, IF settings.discovery THEN "sync" ELSE "sentinel") : p \in flushed}
  /\ UNCHANGED <<fleet, settings, broker, stuck, events, excused>>

\* The client connects, and resends what the broker has not acknowledged.
Connect ==
  /\ pub.conn = "down"
  /\ LET up == [pub EXCEPT !.conn = "up", !.sent = Fresh("up").sent, !.found = {}]
         announced == UNION {Announce(p) : p \in {up}}
         cleared == {ClearRemoved(p) : p \in announced}
         flushed == {FlushRemovals(p) : p \in cleared}
     IN pub' \in {StartRead(p, IF settings.discovery THEN "sync" ELSE "sentinel") : p \in flushed}
  /\ excused' = excused \ {t \in StateTopics : fleet[t[1]] # "gone"}
  /\ UNCHANGED <<fleet, settings, broker, stuck, events>>

\* Without the dashboard's config at the broker, or after a switch of discovery,
\* the read leaves everything that is not queued already.
Overlooked == IF pub.read.stage = "sentinel" /\ pub.read.found # {} THEN {}
              ELSE {t \in Configs : broker[t] # Empty} \ ToSet(pub.pending)

\* The read of the broker's configs is over, because no more arrive or because
\* none has arrived for DISCOVERY_READ_MAX_MS.
ReadEnds ==
  /\ pub.read.stage # "none"
  /\ pub.read.got \/ stuck
  /\ LET stage == pub.read.stage
         found == pub.read.found
         over == [pub EXCEPT !.read = NoRead]
     IN pub' = CASE stage = "sync" -> IF settings.discovery THEN [over EXCEPT !.found = found]
                                                            ELSE over
                 [] stage = "sentinel" -> IF found # {} THEN StartRead(over, "purge") ELSE over
                 [] stage = "purge" ->
                      IF settings.discovery THEN over
                      ELSE FlushRemovals(RemoveDiscovery(over, ConfigsOf(found) \o DashboardOf(found)))
  /\ excused' = IF ~pub.read.got THEN excused \union Configs
                ELSE IF pub.read.stage = (IF settings.discovery THEN "sync" ELSE "purge")
                THEN excused \ Configs
                ELSE excused \union Overlooked
  /\ UNCHANGED <<fleet, settings, broker, stuck, events>>

(***************************************************************************)
(* The broker takes what comes first on the connection.                    *)
(***************************************************************************)
Ungot(p) == {i \in DOMAIN p.wire : ~p.wire[i].got}
Next1(p) == CHOOSE i \in Ungot(p) : \A j \in Ungot(p) : i <= j
Delivering == pub.conn \in {"up", "retiring"} /\ ~stuck /\ Ungot(pub) # {}
Without(p, i) == [p EXCEPT !.wire = RemoveAt(@, i)]

\* The configs that a read's subscription matches.
Retained(stage) == {o \in Ids \union {Dashboard} :
                      broker[Config(o)] # Empty /\ (stage = "sentinel" => o = Dashboard)}

Answered(read) ==
  IF read.stage = "none" THEN read
  ELSE [read EXCEPT !.got = TRUE, !.found = Retained(read.stage)]

Deliver ==
  /\ Delivering
  /\ LET i == Next1(pub)
         m == pub.wire[i]
     IN /\ pub' = IF m.topic = Reads
                  THEN Without([pub EXCEPT !.read = Answered(@)], i)
                  ELSE IF m.qos = 0 THEN Without(pub, i)
                  ELSE [pub EXCEPT !.wire[i].got = TRUE]
        /\ broker' = IF m.topic \in Topics THEN [broker EXCEPT ![m.topic] = m.payload]
                                           ELSE broker
  /\ UNCHANGED <<fleet, settings, stuck, events, excused>>

\* The last acknowledgement of a connection that is retiring closes it.
Acknowledge ==
  /\ pub.conn \in {"up", "retiring"}
  /\ ~stuck
  /\ pub.wire # <<>>
  /\ pub.wire[1].got
  /\ IF pub.conn = "retiring" /\ Len(pub.wire) = 1
     THEN pub' = Fresh("none") /\ broker' = WillSays
     ELSE pub' = Without(pub, 1) /\ broker' = broker
  /\ UNCHANGED <<fleet, settings, stuck, events, excused>>

\* _retire gives up after retireTimeoutMs.
RetireTimesOut ==
  /\ pub.conn = "retiring"
  /\ pub' = Fresh("none")
  /\ broker' = WillSays
  /\ stuck' = FALSE
  /\ UNCHANGED <<fleet, settings, events, excused>>

(***************************************************************************)
(* The fleet and the user                                                  *)
(***************************************************************************)
Happens == events < MaxEvents /\ events' = events + 1

UnitChanges(u) ==
  /\ Happens
  /\ \E s \in UnitStates \ {"gone", fleet[u]} : fleet' = [fleet EXCEPT ![u] = s]
  /\ UNCHANGED <<settings, pub, broker, stuck, excused>>

\* DELETE /api/sparks/:id, the event it records included. A unit that was
\* added again and is still queued is cleared with the others.
RemoveUnit(u) ==
  LET forgotten == [pub EXCEPT !.sent = Forget(@, {u} \X Kinds),
                               !.removed = @ \union {u}]
  IN /\ Happens
     /\ fleet[u] # "gone"
     /\ fleet' = [fleet EXCEPT ![u] = "gone"]
     /\ IF HasClient(pub)
        THEN /\ pub' = Publish(ClearRemoved(forgotten), <<Event>>)
             /\ excused' = excused \union (((pub.removed \intersect Present) \ {u}) \X Kinds)
        ELSE /\ pub' = pub
             /\ excused' = excused \union ({u} \X Kinds)
     /\ UNCHANGED <<settings, broker, stuck>>

\* Clears of removed units that are dropped, or lost with the process.
Forgone == {t \in StateTopics : fleet[t[1]] = "gone"}

SwitchOff ==
  /\ Happens
  /\ settings.enabled
  /\ settings' = [settings EXCEPT !.enabled = FALSE]
  /\ LET known == ConfigsOf(pub.tracked) \o DashboardOf(pub.tracked)
         topics == pub.pending \o Filter(known, Configs \ ToSet(pub.pending))
         clears == [i \in DOMAIN topics |-> Clear(topics[i])]
     IN IF pub.conn = "up" /\ topics # <<>>
        THEN /\ pub' = [Fresh("retiring") EXCEPT !.wire = pub.wire \o clears]
             /\ UNCHANGED <<broker, stuck>>
        ELSE /\ pub' = Fresh("none")
             /\ broker' = WillSays
             /\ stuck' = FALSE
  /\ excused' = excused \union Forgone
  /\ UNCHANGED fleet

SwitchOn ==
  /\ Happens
  /\ ~settings.enabled
  /\ settings' = [settings EXCEPT !.enabled = TRUE]
  /\ pub' = Fresh("down")
  /\ broker' = WillSays
  /\ stuck' = FALSE
  /\ UNCHANGED <<fleet, excused>>

\* A read under way belongs to the setting it was begun with.
SwitchDiscovery ==
  /\ Happens
  /\ settings' = [settings EXCEPT !.discovery = ~@]
  /\ pub' = IF settings.enabled /\ settings.discovery THEN ClearDiscovery(pub) ELSE pub
  /\ excused' = IF pub.read # NoRead \/ pub.found # {} THEN excused \union Configs ELSE excused
  /\ UNCHANGED <<fleet, broker, stuck>>

(***************************************************************************)
(* The network, the broker, the process                                    *)
(***************************************************************************)
\* The connection drops; a broker that restarts may have lost what it retained.
Drop ==
  /\ Happens
  /\ pub.conn = "up"
  /\ LET lost == {m \in ToSet(pub.wire) : m.qos = 0}
         kept == Filter(pub.wire, {m \in ToSet(pub.wire) : m.qos = 1})
         down == [pub EXCEPT !.conn = "down",
                    !.wire = [i \in DOMAIN kept |-> [kept[i] EXCEPT !.got = FALSE]],
                    !.read = IF @.got THEN @ ELSE NoRead]
     IN pub' = LateErrors(down, lost)
  /\ broker' \in {WillSays, [t \in Topics |-> Empty]}
  /\ stuck' = FALSE
  /\ UNCHANGED <<fleet, settings, excused>>

Wedge ==
  /\ Happens
  /\ pub.conn \in {"up", "retiring"}
  /\ ~stuck
  /\ stuck' = TRUE
  /\ UNCHANGED <<fleet, settings, pub, broker, excused>>

\* The broker refuses a publish, and the connection stays.
Refuse ==
  /\ Happens
  /\ Delivering
  /\ LET i == Next1(pub)
         m == pub.wire[i]
     IN /\ m.topic # Reads /\ m.qos = 1
        /\ pub' = IF pub.conn = "up" THEN LateErrors(Without(pub, i), {m})
                  ELSE IF Len(pub.wire) = 1 THEN Fresh("none") ELSE Without(pub, i)
        /\ broker' = IF pub'.conn = "none" THEN WillSays ELSE broker
  /\ UNCHANGED <<fleet, settings, stuck, excused>>

Restart ==
  /\ Happens
  /\ pub' = Fresh(IF settings.enabled THEN "down" ELSE "none")
  /\ broker' = WillSays
  /\ stuck' = FALSE
  /\ excused' = excused \union Forgone
  /\ UNCHANGED <<fleet, settings>>

Environment ==
  \/ \E u \in Ids : UnitChanges(u) \/ RemoveUnit(u)
  \/ SwitchOff \/ SwitchOn \/ SwitchDiscovery
  \/ Drop \/ Wedge \/ Refuse \/ Restart

System ==
  \/ Deliver \/ Acknowledge \/ RetireTimesOut \/ Connect \/ ReadEnds
  \/ StalledTick \/ Tick

Next == System \/ Environment

\* Neither the connection nor the timers of the publisher and of its client
\* stop for good while one of them has something to do.
Spec == Init /\ [][Next]_vars /\ WF_vars(System)

(***************************************************************************)
(* Properties                                                              *)
(***************************************************************************)
\* Types, and the cap on what is outstanding, which only the last clears of a
\* connection that is being given up may pass.
TypeOK ==
  /\ fleet \in [Ids -> UnitStates]
  /\ settings \in [enabled : BOOLEAN, discovery : BOOLEAN]
  /\ pub.conn \in {"none", "down", "up", "retiring"}
  /\ pub.wire \in Seq(Messages)
  /\ pub.conn # "retiring" => InFlight(pub) <= MaxInFlight
  /\ pub.sent \in [Topics -> Payloads]
  /\ pub.removed \subseteq Ids
  /\ pub.pending \in Seq(Configs)
  /\ pub.tracked \union pub.found \union pub.read.found \subseteq Ids \union {Dashboard}
  /\ broker \in [Topics -> Payloads]
  /\ stuck \in BOOLEAN
  /\ events \in 0 .. MaxEvents
  /\ excused \subseteq Topics

\* What a topic retains once all that is outstanding has been delivered.
Final(t) ==
  LET on == {i \in Ungot(pub) : pub.wire[i].topic = t}
  IN IF on = {} THEN broker[t] ELSE pub.wire[CHOOSE i \in on : \A j \in on : j <= i].payload

\* What the publisher takes for sent, and will not send again, is what the
\* broker retains or is about to: no clear, resend or lost message comes after.
CacheIsTrue ==
  pub.conn = "up" => \A t \in Topics \ excused : pub.sent[t] # Empty => Final(t) = pub.sent[t]

\* The state of a unit that is gone is cleared, or its clear is under way or
\* queued, through outages, stalls, the cap and refusals.
OwedIsRemembered ==
  HasClient(pub) => \A t \in StateTopics \ excused :
    fleet[t[1]] = "gone" => Final(t) = Empty \/ t[1] \in pub.removed

WantsConfig(o) == settings.discovery /\ (o = Dashboard \/ (o \in Ids /\ fleet[o] = "up"))
MayKeep(o) == settings.discovery /\ o \in Ids /\ fleet[o] = "down"
Right(t) ==
  CASE t = Status -> broker[t] = "1"
    [] t \in StateTopics -> broker[t] = IF fleet[t[1]] = "gone" THEN Empty ELSE Reading(t)
    [] t \in Configs -> MayKeep(t[1]) \/ broker[t] = IF WantsConfig(t[1]) THEN "config" ELSE Empty

\* Once the fleet, the network and the user are quiet, the broker retains what
\* the fleet is: every unit's state, no state or entity of one that is gone,
\* and with discovery off no entity at all. The broker is taken to catch up
\* now and then: while all slots but one are taken at every tick, the first of
\* a unit's clears goes out again and again and the second never does.
CatchesUp == []<>(stuck \/ pub.wire = <<>>)
Settles == CatchesUp => <>[](settings.enabled => \A t \in Topics \ excused : Right(t))
=============================================================================

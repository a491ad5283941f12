--------------------------- MODULE MCSparkMonitor ---------------------------
(* TLC instances of SparkMonitor: two machines and a few unit records.     *)
EXTENDS SparkMonitor

CONSTANTS h1, h2

MCHosts == {h1, h2}
OneHost == {h1}

\* 5 s, 15 s, 30 s and 60 s keep their order, not their length.
ShortBackoff == <<1, 2>>
FlatBackoff == <<1>>

Unit(h, l, on) == [host |-> h, isLocal |-> l, on |-> on]

\* The unit points at h1 or h2, or is the machine the server runs on.
EditConfigs == {Unit(h1, FALSE, Domains), Unit(h2, FALSE, Domains),
                Unit(h1, TRUE, Domains)}
OneConfig == {Unit(h1, FALSE, Domains)}

\* Two machines, and an edit that switches the optional probes off.
ProbeConfigs == {Unit(h1, FALSE, Domains), Unit(h2, FALSE, Domains),
                 Unit(h1, FALSE, Domains \ ClearedWhenOff)}
=============================================================================

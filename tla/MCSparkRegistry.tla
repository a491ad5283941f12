--------------------------- MODULE MCSparkRegistry ---------------------------
EXTENDS SparkRegistry

CONSTANTS h1, h2, p1, p2

At(s, l, ports) == [ssh |-> s, llm |-> l, ports |-> ports]

\* Each target moves, alone or with the other; a port is renamed (by a request or
\* a hand), added, dropped.
MCUnits == {At(h1, h1, {p1}), At(h1, h1, {p2}), At(h2, h1, {p1, p2}), At(h2, h2, {p1})}
=============================================================================

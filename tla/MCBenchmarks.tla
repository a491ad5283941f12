---------------------------- MODULE MCBenchmarks ----------------------------
EXTENDS Benchmarks
=============================================================================

----------------------------- MODULE MCBenchmark -----------------------------
(***************************************************************************)
(* Model checking of Benchmark: two scenarios, the first of which tracks   *)
(* the program's database, and a branch the harness skips.                 *)
(***************************************************************************)
EXTENDS Benchmark

CONSTANTS b1, b2, main
MCWrites == {{}, Files}
MCBranches == {b1, b2, main}
=============================================================================

--------------------------- MODULE MCHealingGraph ---------------------------
(***************************************************************************)
(* Model checking of HealingGraph.  The fingerprints only matter up to     *)
(* equality, so the safety runs identify states that differ by a           *)
(* permutation of them (never the runs that check a temporal property      *)
(* under fairness).                                                        *)
(***************************************************************************)
EXTENDS HealingGraph, TLC

Symmetry == Permutations(Errors)
=============================================================================

------------------------------ MODULE MCSweBench ------------------------------
(***************************************************************************)
(* Model checking of SweBench: a slice of two instances.                   *)
(***************************************************************************)
EXTENDS SweBench

CONSTANTS i1, i2
MCOrder  == <<i1, i2>>
MCWrites == {{"test"}, Files}
=============================================================================

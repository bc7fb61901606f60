-------------------------- MODULE MCErrorSignature --------------------------
(***************************************************************************)
(* Model checking of ErrorSignature: every crash with up to three calls and *)
(* every failing test over two exceptions, directories and functions.      *)
(***************************************************************************)
EXTENDS ErrorSignature
=============================================================================

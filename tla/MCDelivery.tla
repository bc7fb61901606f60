----------------------------- MODULE MCDelivery -----------------------------
(***************************************************************************)
(* Model checking of Delivery: one artefact of each sort and a session     *)
(* that chains two errors with two retries each.                           *)
(***************************************************************************)
EXTENDS Delivery
=============================================================================

------------------------- MODULE MCWorkspaceWorkers -------------------------
(***************************************************************************)
(* Model checking of WorkspaceWorkers: two attempts on a host shared with  *)
(* one other session, with fewer threads than calls.                       *)
(***************************************************************************)
EXTENDS WorkspaceWorkers
=============================================================================

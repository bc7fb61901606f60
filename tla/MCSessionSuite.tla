--------------------------- MODULE MCSessionSuite ---------------------------
(***************************************************************************)
(* Model checking of SessionSuite: names and errors are interchangeable,   *)
(* and session files of up to three tests are enough for a draft of two to *)
(* meet an earlier one, and an earlier draft of two a later one.           *)
(***************************************************************************)
EXTENDS SessionSuite

Symmetry == Permutations(Names) \cup Permutations(Errors)

\* What was recorded about a commit matters in the state it makes only, where the
\* invariants are checked of it; the nodes that follow read the rest of it.
NodeView ==
  [vs |-> <<pc, current, codeVars, session, green, recorded, faults, cycle>>,
   commit |-> IF pc \in {"fix", "end"} THEN <<head, prev>>
              ELSE <<head.err, head.broken, head.session>>]

ShortSuite == Len(Suite(session)) <= 3
=============================================================================

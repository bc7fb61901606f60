--------------------------- MODULE HealingContract ---------------------------
(***************************************************************************)
(* What a healing session promises its caller, whatever the agents do: it  *)
(* heals one error after the other, each within a budget of retries and    *)
(* all of them within a budget of errors, never two equal errors in a row, *)
(* and ends resolved, given up on (post-mortem) or aborted by an           *)
(* exception.  HealingGraph implements it.                                 *)
(***************************************************************************)
EXTENDS Naturals, Sequences

CONSTANTS MaxRetries, ErrorCycleBudget, Errors, None

VARIABLES
  status,    \* "healing", "resolved", "post_mortem" or "aborted"
  healed,    \* the errors healed so far, None for one without a fingerprint
  attempts   \* failed attempts at the current error

vars == <<status, healed, attempts>>

Init == status = "healing" /\ healed = <<>> /\ attempts = 0

\* An attempt at the current error fails; there are MaxRetries of them.
FailAttempt ==
  /\ status = "healing" /\ attempts < MaxRetries
  /\ attempts' = attempts + 1
  /\ UNCHANGED <<status, healed>>

\* The current error is healed.  The session goes on with another error, and
\* all its retries, while the budget of errors lasts; otherwise it is over.
Heal ==
  /\ status = "healing" /\ attempts < MaxRetries
  /\ Len(healed) < ErrorCycleBudget
  /\ \E error \in Errors \cup {None} :
       /\ healed # <<>> => error \notin {None, healed[Len(healed)]}
       /\ healed' = Append(healed, error)
  /\ \/ status' = "resolved" /\ UNCHANGED attempts
     \/ Len(healed') < ErrorCycleBudget /\ attempts' = 0 /\ UNCHANGED status

\* The retries are used up: what was healed before stays healed.
GiveUp ==
  /\ status = "healing" /\ attempts = MaxRetries
  /\ status' = "post_mortem"
  /\ UNCHANGED <<healed, attempts>>

\* An exception leaves the session.
Abandon ==
  /\ status = "healing"
  /\ status' = "aborted"
  /\ UNCHANGED <<healed, attempts>>

Next == FailAttempt \/ Heal \/ GiveUp \/ Abandon

Spec == Init /\ [][Next]_vars /\ WF_vars(Next)
=============================================================================

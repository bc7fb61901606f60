------------------------------- MODULE SweBench -------------------------------
(***************************************************************************)
(* scripts/run_swebench.py: instance after instance in one directory, each *)
(* cloned at its base commit, with the test patch committed on top (T),    *)
(* reproduced in its image, healed, and turned into one line of the        *)
(* predictions file; or, with --sanity, checked against the gold patch     *)
(* only.                                                                   *)
(*                                                                         *)
(* The session is HealingContract, as in Delivery.  A file is represented  *)
(* by the instance during whose run it was written.                        *)
(***************************************************************************)
EXTENDS Naturals, Sequences

CONSTANTS
  MaxRetries, ErrorCycleBudget, Errors, None,   \* as in HealingContract
  Order,        \* the instances of the slice
  Old,          \* an instance of an earlier run, whose prediction is on disk
  Writes,       \* the sets of files that a run of an agent or a test writes
  CommandsFail  \* may git, docker or the file system fail?

Instances == {Order[i] : i \in 1..Len(Order)}

Files == {"src", "stray", "test"}   \* tracked, untracked, of the test patch

ASSUME SweBenchAssumption ==
  /\ Order \in Seq(Instances)
  /\ \A i, j \in 1..Len(Order) : Order[i] = Order[j] => i = j
  /\ Old \notin Instances /\ None \notin Instances
  /\ Writes \subseteq SUBSET Files /\ CommandsFail \in BOOLEAN

VARIABLES
  pc,           \* the step about to run, "exited" at the end
  sanity,       \* --sanity
  todo,         \* instances not started yet
  inst,         \* the instance under way
  dirty,        \* for each file the instance whose run wrote it, None: as in HEAD
  commits,      \* the commits on top of the base, T first: files with their writers
  predictions,  \* the predictions file: instance and model patch of each line
  rows,         \* instance and outcome of the rows so far
  summary,      \* the rows written to the summary, None: no summary
  status, healed, attempts,   \* the session, see HealingContract
  healedBy,     \* history: the commits of each resolved session
  straggler,    \* the instance whose timed-out call still runs, None: no call
  leaked        \* history: instances with such a call or files that survived a wipe

sessionVars == <<status, healed, attempts>>
callVars    == <<straggler, leaked>>
outVars     == <<predictions, rows, summary>>
vars == <<pc, sanity, todo, inst, dirty, commits, outVars, sessionVars, healedBy, callVars>>

Session == INSTANCE HealingContract

Wrote(tree, files, who) == [f \in Files |-> IF f \in files THEN who ELSE tree[f]]
Clean == [f \in Files |-> None]

\* git add -A: everything that differs from HEAD.
Swept(tree) == {<<f, tree[f]>> : f \in {g \in Files : tree[g] # None}}

-----------------------------------------------------------------------------

\* Appends to whatever an earlier run predicted.
BugKeepOld(lines) == lines

\* A healing run unlinks the predictions file.
StartPredictions(lines) == IF sanity THEN lines ELSE <<>>

Init ==
  /\ pc = "start" /\ sanity \in BOOLEAN /\ todo = Order /\ inst = None
  /\ dirty = Clean /\ commits = <<>>
  /\ predictions = <<[instance |-> Old, patch |-> {<<"src", Old>>}]>>
  /\ rows = <<>> /\ summary = None
  /\ Session!Init
  /\ healedBy = [i \in Instances |-> <<>>] /\ straggler = None /\ leaked = {}

Start ==
  /\ pc = "start" /\ pc' = "loop" /\ predictions' = StartPredictions(predictions)
  /\ UNCHANGED <<sanity, todo, inst, dirty, commits, rows, summary, sessionVars, healedBy,
                 callVars>>

NextInstance ==
  /\ pc = "loop"
  /\ IF todo # <<>>
       THEN inst' = Head(todo) /\ todo' = Tail(todo) /\ pc' = "wipe"
       ELSE pc' = "summary" /\ UNCHANGED <<inst, todo>>
  /\ UNCHANGED <<sanity, dirty, commits, outVars, sessionVars, healedBy, callVars>>

RowOf(outcome) ==
  /\ pc' = "loop"
  /\ rows' = Append(rows, [instance |-> inst, outcome |-> outcome])

\* The exception is logged, and there is no row.
BugNoRow == pc' = "loop" /\ UNCHANGED rows

\* _amain's handler: whatever raised becomes the row of the instance.
Failed == RowOf("error")

\* No wipe: the clone of the instance before stays.
BugNoWipe(tree) == tree

Wiped(tree) == Clean

\* The files of the instance before that are on disk, with their writers.
OnDisk ==
  Swept(dirty) \cup {edit \in UNION {commits[i] : i \in 1..Len(commits)} : dirty[edit[1]] = None}

\* _wipe: what cannot be deleted is logged and stays.
Wipe ==
  /\ pc = "wipe" /\ pc' = "prepare"
  /\ \/ dirty' = Wiped(dirty) /\ UNCHANGED leaked
     \/ /\ CommandsFail
        /\ \E kept \in SUBSET OnDisk :
             /\ \A e1, e2 \in kept : e1[1] = e2[1] => e1 = e2
             /\ dirty' = [f \in Files |-> IF \E e \in kept : e[1] = f
                                        THEN (CHOOSE e \in kept : e[1] = f)[2] ELSE None]
             /\ leaked' = leaked \cup {e[2] : e \in kept}
  /\ UNCHANGED <<sanity, todo, inst, commits, outVars, sessionVars, healedBy, straggler>>

\* prepare_instance: `git checkout base` may refuse to overwrite what survived;
\* otherwise it is committed with the test patch.
PrepareInstance ==
  /\ pc = "prepare"
  /\ \/ /\ commits' = <<Swept(Wrote(dirty, {"test"}, inst))>>
        /\ dirty' = Clean /\ pc' = "reproduce" /\ UNCHANGED rows
     \/ (CommandsFail \/ dirty # Clean) /\ Failed /\ UNCHANGED <<dirty, commits>>
  /\ UNCHANGED <<sanity, todo, inst, predictions, summary, sessionVars, healedBy, callVars>>

\* A run of the tests writes the tree, and goes on doing so when it timed out.
TestsRun(verdict) ==
  /\ \E files \in Writes : dirty' = Wrote(dirty, files, inst)
  /\ IF verdict = "timeout" /\ straggler = None
       THEN straggler' = inst /\ leaked' = leaked \cup {inst}
       ELSE UNCHANGED callVars

\* heal_one: only tests that fail in the image start a session.
Reproduce ==
  /\ pc = "reproduce" /\ ~sanity
  /\ \E verdict \in {"passed", "failed", "timeout"} :
       /\ TestsRun(verdict)
       /\ IF verdict = "failed"
            THEN /\ pc' = "session" /\ UNCHANGED rows
                 /\ status' = "healing" /\ healed' = <<>> /\ attempts' = 0
            ELSE RowOf("skipped") /\ UNCHANGED sessionVars
  /\ UNCHANGED <<sanity, todo, inst, commits, predictions, summary, healedBy>>

\* sanity_one: the tests fail, and pass on the gold patch.
SanityBefore ==
  /\ pc = "reproduce" /\ sanity
  /\ \E verdict \in {"passed", "failed", "timeout"} :
       /\ TestsRun(verdict)
       /\ IF verdict = "timeout" THEN RowOf("env_error")
          ELSE /\ pc' = IF verdict = "failed" THEN "gold" ELSE "gold_anyway"
               /\ UNCHANGED rows
  /\ UNCHANGED <<sanity, todo, inst, commits, predictions, summary, sessionVars, healedBy>>

SanityAfter ==
  /\ pc \in {"gold", "gold_anyway"}
  /\ \/ \E verdict \in {"passed", "failed", "timeout"} :
          /\ TestsRun(verdict)
          /\ RowOf(IF pc = "gold" /\ verdict = "passed" THEN "ok" ELSE "not_ok")
     \/ CommandsFail /\ Failed /\ UNCHANGED <<dirty, callVars>>
  /\ UNCHANGED <<sanity, todo, inst, commits, predictions, summary, sessionVars, healedBy>>

-----------------------------------------------------------------------------
(* The session. *)

AgentRuns ==
  \/ UNCHANGED callVars
  \/ straggler = None /\ straggler' = inst /\ leaked' = leaked \cup {inst}

FailAttempt ==
  /\ pc = "session" /\ Session!FailAttempt /\ AgentRuns
  /\ \E files \in Writes :
       dirty' \in {Clean} \cup IF CommandsFail THEN {Wrote(dirty, files, inst)} ELSE {}
  /\ UNCHANGED <<pc, sanity, todo, inst, commits, outVars, healedBy>>

Heal ==
  /\ pc = "session" /\ Session!Heal /\ AgentRuns
  /\ \E files \in Writes : commits' = Append(commits, Swept(Wrote(dirty, files, inst)))
  /\ dirty' = Clean
  /\ UNCHANGED <<pc, sanity, todo, inst, outVars, healedBy>>

EndUnresolved ==
  /\ pc = "session" /\ (Session!GiveUp \/ Session!Abandon)
  /\ UNCHANGED <<pc, sanity, todo, inst, dirty, commits, outVars, healedBy, callVars>>

\* The diff without the exclusion of the test files.
BugWithTests(log) == UNION {log[i] : i \in 1..Len(log)}

\* extract_model_patch: base_commit..HEAD without the files of the test patch.
ModelPatch(log) == {edit \in UNION {log[i] : i \in 1..Len(log)} : edit[1] # "test"}

\* heal_one after the session: a prediction for a resolved instance whose patch
\* is not empty.
SessionOver ==
  /\ pc = "session" /\ status # "healing"
  /\ \/ status = "aborted" /\ Failed /\ UNCHANGED <<predictions, healedBy>>
     \/ status = "post_mortem" /\ RowOf("unresolved") /\ UNCHANGED <<predictions, healedBy>>
     \/ /\ status = "resolved" /\ RowOf("resolved")
        /\ healedBy' = [healedBy EXCEPT ![inst] = SubSeq(commits, 2, Len(commits))]
        /\ predictions' =
             IF ModelPatch(commits) = {} THEN predictions
             ELSE Append(predictions, [instance |-> inst, patch |-> ModelPatch(commits)])
     \/ /\ status = "resolved" /\ CommandsFail /\ Failed
        /\ UNCHANGED <<predictions, healedBy>>
  /\ UNCHANGED <<sanity, todo, inst, dirty, commits, summary, sessionVars, callVars>>

WriteSummary ==
  /\ pc = "summary" /\ pc' = "exited" /\ summary' = rows
  /\ UNCHANGED <<sanity, todo, inst, dirty, commits, predictions, rows, sessionVars,
                 healedBy, callVars>>

\* Nothing catches Ctrl+C: the predictions so far stay, without a summary.
CtrlC ==
  /\ pc # "exited" /\ pc' = "exited"
  /\ UNCHANGED <<sanity, todo, inst, dirty, commits, outVars, sessionVars, healedBy, callVars>>

\* A call that timed out writes the directory, whichever instance is in it.
Straggle ==
  /\ straggler # None /\ pc # "exited"
  /\ \E files \in Writes : dirty' = Wrote(dirty, files, straggler)
  /\ UNCHANGED <<pc, sanity, todo, inst, commits, outVars, sessionVars, healedBy, callVars>>

StragglerEnds ==
  /\ straggler # None /\ straggler' = None
  /\ UNCHANGED <<pc, sanity, todo, inst, dirty, commits, outVars, sessionVars, healedBy, leaked>>

Exited == pc = "exited" /\ UNCHANGED vars

Next ==
  \/ Start \/ NextInstance \/ Wipe \/ PrepareInstance
  \/ Reproduce \/ SanityBefore \/ SanityAfter
  \/ FailAttempt \/ Heal \/ EndUnresolved \/ SessionOver
  \/ WriteSummary \/ CtrlC
  \/ Straggle \/ StragglerEnds
  \/ Exited

Spec == Init /\ [][Next]_vars

-----------------------------------------------------------------------------
(* Correctness. *)

\* What a session committed outside the tests.
SourceEdits(log) == UNION {{edit \in log[i] : edit[1] # "test"} : i \in 1..Len(log)}

Predicted == {predictions[k].instance : k \in 1..Len(predictions)}

\* The model patch of a prediction is the healing of its instance: all that its
\* session committed outside the tests, and nothing else, neither the test patch
\* nor what another instance left in the directory, unless a timed-out call or a
\* failing wipe leaked it.
PatchIsTheHealing ==
  \A k \in 1..Len(predictions) :
    LET p == predictions[k]
        healing == SourceEdits(healedBy[p.instance])
    IN p.instance \in Instances =>
         /\ healing \subseteq p.patch
         /\ \A edit \in p.patch \ healing : edit[1] # "test" /\ edit[2] \in leaked

\* The slice has i before j.
Precedes(i, j) ==
  \E m, n \in 1..Len(Order) : m < n /\ Order[m] = i /\ Order[n] = j

\* A healing run predicts in the order of the slice, hence each instance at most
\* once, and only instances of this run whose session resolved; a sanity run
\* leaves the predictions on disk alone.
PredictionsAreOfThisRun ==
  IF sanity THEN Predicted = {Old}
  ELSE inst # None =>
         /\ \A j, k \in 1..Len(predictions) :
              j < k => Precedes(predictions[j].instance, predictions[k].instance)
         /\ \A i \in Predicted : i \in Instances /\ healedBy[i] # <<>>

\* The summary has a row for every instance in order, whatever failed before it,
\* and a healing run's row that says resolved comes with a prediction or with a
\* session that edited nothing but tests.
SummaryIsComplete ==
  summary # None =>
    /\ [k \in 1..Len(summary) |-> summary[k].instance] = Order
    /\ \A k \in 1..Len(summary) :
         summary[k].outcome = "resolved" =>
           \/ Order[k] \in Predicted
           \/ SourceEdits(healedBy[Order[k]]) = {}
=============================================================================

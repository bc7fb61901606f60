---------------------------- MODULE HealingGraph ----------------------------
(***************************************************************************)
(* The healing session: the seven LangGraph nodes of orchestrator/nodes.py *)
(* composed with the routers of orchestrator/routers.py along the edges of *)
(* orchestrator/graph.py, together with the git working tree they edit.    *)
(*                                                                         *)
(* A node and the router behind it are one LangGraph superstep, hence one  *)
(* action here.  The session is a single coroutine: no two nodes overlap.  *)
(* What the agents, the sandbox and git answer is chosen by \E.            *)
(*                                                                         *)
(* A failure is represented by the fingerprint its output carries: an      *)
(* element of Errors.  None is Python's None and also "no failure"; Noise  *)
(* is non-empty output that carries no fingerprint.                        *)
(***************************************************************************)
EXTENDS Naturals, Sequences, FiniteSets

CONSTANTS
  MaxRetries,        \* Settings.max_retries
  ErrorCycleBudget,  \* Settings.error_cycle_budget
  RecursionLimit,    \* LangGraph's recursion_limit: supersteps of one ainvoke
  EntryKinds,        \* which triggers start the session: "crash", "test"
  Errors,            \* the fingerprints the failures of the program can have
  Files,             \* the files of the repository the Corrector may edit
  HasTestFile,       \* files some test file imports or is named after
  HasTests,          \* files whose related test file holds at least one test
  Hides,             \* may the program depend on files git passes over (ignored,
                     \* or marked skip-worktree)?
  SandboxFaults,     \* verdicts a sandbox run may give whatever the tree is
  GitMayFail,        \* may git raise GitOperationError?
  AgentsMayRaise,    \* may an agent or the report raise what no node catches?
  None, Noise

ASSUME BudgetAssumption ==
  /\ MaxRetries \in Nat \ {0}
  /\ ErrorCycleBudget \in Nat \ {0}
  /\ RecursionLimit \in Nat \ {0}

ASSUME InputAssumption ==
  /\ EntryKinds \subseteq {"crash", "test"}
  /\ HasTests \subseteq HasTestFile /\ HasTestFile \subseteq Files
  /\ SandboxFaults \subseteq {"timeout", "infrastructure_error"}
  /\ GitMayFail \in BOOLEAN /\ AgentsMayRaise \in BOOLEAN /\ Hides \in BOOLEAN

ASSUME SentinelAssumption ==
  /\ None \notin Errors /\ Noise \notin Errors /\ None # Noise
  /\ None \notin {"passed", "failed", "timeout", "infrastructure_error"}
  /\ None \notin {"corrector", "tester", "git", "reporter", "recursion"}

VARIABLES
  pc,                       \* the node about to run, "end" or "aborted"
  steps,                    \* supersteps taken
  abort_cause,              \* what the exception that left the graph came from
  entry_kind,               \* "crash" or "test"
  regression_cmd,           \* TRUE: the caller supplied a protected-tests command
  current_error_signature,
  current_failure_output,
  current_patch,            \* files of the captured diff, None: no patch
  current_sandbox_result,   \* verdict, None: no result
  current_regression_test,  \* quality of the test kept, None: no test
  post_fix_signature,
  post_fix_output,
  regression_detected,
  should_continue,
  attempt_count,
  error_cycle_index,
  failed_attempts,
  resolved_errors,
  is_resolved,
  post_mortem_path,         \* TRUE: a post-mortem was written
  tree,                     \* the working tree
  git_log                   \* the trees of the commits, the initial one first

envVars   == <<entry_kind, regression_cmd>>
errorVars == <<current_error_signature, current_failure_output>>
workVars  == <<current_patch, current_sandbox_result, post_fix_signature,
               post_fix_output, regression_detected>>
testVars  == <<current_regression_test>>
loopVars  == <<should_continue, attempt_count, error_cycle_index>>
histVars  == <<failed_attempts, resolved_errors, is_resolved, post_mortem_path>>
gitVars   == <<tree, git_log>>
vars == <<pc, steps, abort_cause, envVars, errorVars, workVars, testVars,
          loopVars, histVars, gitVars>>

Verdicts == {"passed", "failed", "timeout", "infrastructure_error"}
Texts    == Errors \cup {Noise}
Terminal == {"end", "aborted"}
Nodes    == {"bootstrap", "fix", "validate", "immunize", "report_commit",
             "rollback", "post_mortem"}

(***************************************************************************)
(* A generated test is "sound" (passes once its error is healed), "wrong"  *)
(* (fails even then) or "poison" (the whole session file stops being       *)
(* importable).  The session file is the sequence of the tests appended to *)
(* it; None when the file does not exist.                                  *)
(***************************************************************************)
Qualities == {"sound", "wrong", "poison"}
Sessions  == Seq(Qualities) \cup {None}

Tree == [err     : Texts \cup {None},  \* what the reproduce command shows
         broken  : SUBSET Files,       \* files with a failing related test
         touched : SUBSET Files,       \* files that differ from HEAD
         session : Sessions]           \* the session regression file

head == git_log[Len(git_log)]

-----------------------------------------------------------------------------
(* Fingerprints. *)

(* The definitions named Bug... are single plausible bugs of the definition    *)
(* behind them; each shows that some property below can fail.                *)

\* Fingerprints output that has none.
BugFingerprint(text) == text

\* parse_error: the fingerprint in a failure text, None when there is none.
Fingerprint(text) == IF text \in Errors THEN text ELSE None

\* ErrorSignature.matches: nothing matches None.
Matches(sig, other) == other # None /\ sig = other

\* Takes any failure for progress.
BugDifferentError(post, current) == post # None

DifferentError(post, current) == post # None /\ ~Matches(post, current)

(* The routers. *)

RouteAfterFix(patch) == IF patch # None THEN "validate" ELSE "rollback"

RouteAfterValidate(regressed, result, post, current) ==
  IF ~regressed /\ (result = "passed" \/ DifferentError(post, current))
    THEN "immunize" ELSE "rollback"

RouteAfterCommit(continue) == IF continue THEN "fix" ELSE "end"

\* One retry too many, one too few.
BugRouteOneMore(attempts) == IF attempts <= MaxRetries THEN "fix" ELSE "post_mortem"
BugRouteOneLess(attempts) == IF attempts + 1 < MaxRetries THEN "fix" ELSE "post_mortem"

RouteAfterRollback(attempts) ==
  IF attempts < MaxRetries THEN "fix" ELSE "post_mortem"

\* LangGraph runs a node only while the recursion limit leaves a superstep.
Superstep(node) ==
  /\ pc = node
  /\ steps < RecursionLimit
  /\ steps' = steps + 1
  /\ UNCHANGED abort_cause

-----------------------------------------------------------------------------
(* The session regression file. *)

\* pytest on one node id of the session file: the file must import, and the
\* test just appended decides.
SelectedTestPasses(session) ==
  /\ session # None /\ session # <<>>
  /\ \A i \in 1..Len(session) : session[i] # "poison"
  /\ session[Len(session)] = "sound"

\* pytest on the whole session file, as the related-tests gate runs it.
WholeSessionPasses(session) == \A i \in 1..Len(session) : session[i] = "sound"

AppendTest(session, quality) ==
  IF session = None THEN <<quality>> ELSE Append(session, quality)

\* _gate_and_keep: the set of [session, kept] it may leave.  An ungated test is
\* always kept; a gated one is kept when the gate passes and otherwise the file
\* is restored.  A sandbox fault fails the gate whatever the test is.
GateAndKeep(session, quality, gate) ==
  LET appended == AppendTest(session, quality)
      kept     == [session |-> appended, kept |-> quality]
      dropped  == [session |-> session, kept |-> None]
  IN  (IF ~gate \/ SelectedTestPasses(appended) THEN {kept} ELSE {dropped})
      \cup (IF gate /\ SandboxFaults # {} THEN {dropped} ELSE {})

-----------------------------------------------------------------------------
(* Nodes. *)

Init ==
  /\ pc = "bootstrap" /\ steps = 0 /\ abort_cause = None
  /\ entry_kind \in EntryKinds /\ regression_cmd \in BOOLEAN
  /\ current_error_signature = None
  /\ current_failure_output \in Texts       \* the trigger's captured output
  /\ current_patch = None /\ current_sandbox_result = None
  /\ current_regression_test = None
  /\ post_fix_signature = None /\ post_fix_output = None
  /\ regression_detected = FALSE /\ should_continue = FALSE
  /\ attempt_count = 0 /\ error_cycle_index = 0
  /\ failed_attempts = <<>> /\ resolved_errors = <<>>
  /\ is_resolved = FALSE /\ post_mortem_path = FALSE
  /\ tree \in [err : Texts, broken : {{}}, touched : {{}}, session : {None}]
  /\ git_log = <<tree>>

\* bootstrap_node: fingerprints the trigger; crash entry creates the session
\* file (a header without tests).
Bootstrap ==
  /\ Superstep("bootstrap")
  /\ pc' = "fix"
  /\ current_error_signature' = Fingerprint(current_failure_output)
  /\ attempt_count' = 0 /\ error_cycle_index' = 0 /\ is_resolved' = FALSE
  /\ tree' = IF entry_kind = "crash" THEN [tree EXCEPT !.session = <<>>] ELSE tree
  /\ UNCHANGED <<envVars, current_failure_output, workVars, testVars,
                 should_continue, failed_attempts, resolved_errors,
                 post_mortem_path, git_log>>

\* The Corrector edits some files in place, which may change the failure and
\* break or repair the tests related to those files; so may a file git hides,
\* with any test.
Edit ==
  \E fs \in SUBSET Files, broken \in SUBSET HasTests, err \in Texts \cup {None} :
    /\ Hides \/ broken \ fs = tree.broken \ fs
    /\ Hides \/ fs # {} \/ err = tree.err
    /\ tree' = [tree EXCEPT !.err = err, !.touched = @ \cup fs, !.broken = broken]

\* _capture_diff: git diff against HEAD, new files included.
HasDiff(t) == t.touched # {} \/ t.session # head.session

\* The diff of the files edited by this attempt alone.
BugOwnEdits(t) == {f \in t.touched : f \notin tree.touched}

\* The diff of everything that differs from HEAD, leftovers of a failed reset too.
CapturedPatch(t) == t.touched

\* fix_node: a FixGenerationError (agent error, timeout, no edit) is no patch,
\* but the edits made before it stay in the tree.
Fix ==
  /\ Superstep("fix")
  /\ Edit
  /\ \E answered \in BOOLEAN :
       current_patch' = IF answered /\ HasDiff(tree') THEN CapturedPatch(tree') ELSE None
  /\ pc' = RouteAfterFix(current_patch')
  /\ UNCHANGED <<envVars, errorVars, current_sandbox_result, post_fix_signature,
                 post_fix_output, regression_detected, testVars, loopVars,
                 histVars, git_log>>

\* What the reproduction command may report of the tree; a failure without a
\* fingerprint may print nothing at all.
Observations ==
  { [verdict |-> v, text |-> Noise] : v \in SandboxFaults } \cup
  { [verdict |-> "passed", text |-> Noise] : t \in {tree.err} \cap {None} } \cup
  { [verdict |-> "failed", text |-> t] : t \in {tree.err} \ {None} } \cup
  { [verdict |-> "failed", text |-> None] : t \in {tree.err} \cap {Noise} }

\* The files whose tests the no-regression gate runs: the caller's protected
\* tests, or those related to the files of this fix.
GateFiles == IF regression_cmd THEN HasTestFile ELSE current_patch \cap HasTestFile

\* The related tests may include the session file: it imports what it tests.
SessionSelectable ==
  /\ ~regression_cmd /\ current_patch # {}
  /\ tree.session \notin {None, <<>>}

\* Ignores the verdict of the gate.
BugGateIgnored(files, own) == FALSE

\* The gate over the files and, if `own`, the session file fails the fix.  Exit
\* code 5 (nothing collected) is not a failure.
GateMayFail(files, own) ==
  /\ regression_cmd \/ files # {} \/ own
  /\ \/ tree.broken \cap files \cap HasTests # {}
     \/ own /\ ~WholeSessionPasses(tree.session)

\* validate_node, the gate rejecting a fix the reproduction command accepted.
ValidateRegression ==
  /\ Superstep("validate")
  /\ tree.err = None
  /\ \E own \in IF SessionSelectable THEN BOOLEAN ELSE {FALSE},
        verdict \in {"failed"} \cup SandboxFaults :
       /\ verdict = "failed" => GateMayFail(GateFiles, own)
       /\ verdict # "failed" => regression_cmd \/ GateFiles # {} \/ own
       /\ current_sandbox_result' = verdict
  /\ post_fix_signature' = None /\ post_fix_output' = None
  /\ regression_detected' = TRUE
  /\ pc' = RouteAfterValidate(TRUE, current_sandbox_result', None,
                              current_error_signature)
  /\ UNCHANGED <<envVars, errorVars, current_patch, testVars, loopVars, histVars,
                 gitVars>>

\* validate_node otherwise: fingerprint what the reproduction command shows.
ValidateObserved ==
  /\ Superstep("validate")
  /\ \E o \in Observations :
       /\ o.verdict = "passed" =>
            \E own \in IF SessionSelectable THEN BOOLEAN ELSE {FALSE} :
              ~GateMayFail(GateFiles, own)
       /\ current_sandbox_result' = o.verdict
       /\ post_fix_signature' =
            IF o.verdict = "passed" THEN None ELSE Fingerprint(o.text)
       /\ post_fix_output' = o.text
  /\ regression_detected' = FALSE
  /\ pc' = RouteAfterValidate(FALSE, current_sandbox_result', post_fix_signature',
                              current_error_signature)
  /\ UNCHANGED <<envVars, errorVars, current_patch, testVars, loopVars, histVars,
                 gitVars>>

\* immunize_node on crash entry: the Tester's draft (None: TestGenerationError),
\* gated when the tree is green; on green the smoke test is the gated fallback.
ImmunizeOutcomes ==
  LET green    == current_sandbox_result = "passed"
      untested == [session |-> tree.session, kept |-> None]
      targeted == {untested} \cup
                  UNION {GateAndKeep(tree.session, q, green) : q \in Qualities}
  IN  UNION { IF o.kept = None /\ green
                THEN GateAndKeep(o.session, "sound", TRUE) ELSE {o} : o \in targeted }

Immunize ==
  /\ Superstep("immunize")
  /\ \E o \in IF entry_kind = "crash" THEN ImmunizeOutcomes
                ELSE {[session |-> tree.session, kept |-> None]} :
       /\ tree' = [tree EXCEPT !.session = o.session]
       /\ current_regression_test' = o.kept
  /\ pc' = "report_commit"
  /\ UNCHANGED <<envVars, errorVars, workVars, loopVars, histVars, git_log>>

\* Forgets the chained error.
BugNoResidual == None

\* _residual_signature: the chained error that remains after this commit.
Residual ==
  IF current_sandbox_result # "passed"
     /\ DifferentError(post_fix_signature, current_error_signature)
    THEN post_fix_signature ELSE None

Commit ==
  /\ git_log' = Append(git_log, tree)
  /\ tree' = [tree EXCEPT !.touched = {}]

\* The per-error scratch of the next error: without the reset of the attempts,
\* and with the output of the error just healed.
BugKeepAttempts == attempt_count
BugStaleOutput  == current_failure_output

AttemptsAtNextError == 0
OutputOfNextError   == post_fix_output

\* The chain advances: the residual error is healed next, with a fresh budget.
AdvanceChain ==
  /\ should_continue' = TRUE
  /\ current_error_signature' = Residual
  /\ current_failure_output' = OutputOfNextError
  /\ error_cycle_index' = error_cycle_index + 1
  /\ attempt_count' = AttemptsAtNextError
  /\ current_patch' = None /\ current_sandbox_result' = None
  /\ current_regression_test' = None
  /\ post_fix_signature' = None /\ post_fix_output' = None
  /\ UNCHANGED regression_detected

\* report_commit_node: git commit, one ledger entry, then chain or finish.
ReportCommit ==
  /\ Superstep("report_commit")
  /\ Commit
  /\ resolved_errors' = Append(resolved_errors,
       [signature |-> current_error_signature, test |-> current_regression_test])
  /\ is_resolved' = TRUE
  /\ IF Residual # None /\ error_cycle_index + 1 < ErrorCycleBudget
       THEN AdvanceChain
       ELSE /\ should_continue' = FALSE
            /\ UNCHANGED <<errorVars, workVars, testVars, attempt_count,
                           error_cycle_index>>
  /\ pc' = RouteAfterCommit(should_continue')
  /\ UNCHANGED <<envVars, failed_attempts, post_mortem_path>>

\* _summarise_failure.
FailureSummary ==
  IF current_patch = None THEN "no fix"
  ELSE IF regression_detected THEN "regression"
  ELSE IF current_sandbox_result \notin {None, "passed"} THEN "sandbox"
  ELSE "unknown"

\* HEAD as far as git sees it, with some session file; what git passes over may
\* keep or change the failure and the tests.
HeadWith(session) ==
  [err     : IF Hides THEN Texts \cup {None} ELSE {head.err},
   broken  : IF Hides THEN SUBSET HasTests ELSE {head.broken},
   touched : {{}},
   session : {session}]

\* reset --hard and clean -fd; a failure of either is swallowed by the node and
\* leaves the tree as it was, or without the tracked changes only.
ResetHard ==
  \/ tree' \in HeadWith(head.session)
  \/ GitMayFail /\ tree' = tree
  \/ GitMayFail /\ head.session = None /\ tree' \in HeadWith(tree.session)

\* rollback_node: revert, record the attempt, feed the freshest output back.
Rollback ==
  /\ Superstep("rollback")
  /\ ResetHard
  /\ failed_attempts' = Append(failed_attempts,
       [attempt_index |-> attempt_count, cycle_index |-> error_cycle_index,
        error_summary |-> FailureSummary])
  /\ attempt_count' = attempt_count + 1
  /\ current_failure_output' =
       IF post_fix_output # None THEN post_fix_output ELSE current_failure_output
  /\ current_patch' = None /\ current_sandbox_result' = None
  /\ post_fix_signature' = None /\ post_fix_output' = None
  /\ regression_detected' = FALSE
  /\ pc' = RouteAfterRollback(attempt_count')
  /\ UNCHANGED <<envVars, current_error_signature, testVars, should_continue,
                 error_cycle_index, resolved_errors, is_resolved,
                 post_mortem_path, git_log>>

\* post_mortem_node: the report is written and the session counts as unresolved.
PostMortem ==
  /\ Superstep("post_mortem")
  /\ post_mortem_path' = TRUE
  /\ is_resolved' = FALSE
  /\ pc' = "end"
  /\ UNCHANGED <<envVars, errorVars, workVars, testVars, loopVars,
                 failed_attempts, resolved_errors, gitVars>>

-----------------------------------------------------------------------------
(* Exceptions that leave the graph: ainvoke raises, the tree stays. *)

Raise(cause) ==
  /\ pc' = "aborted" /\ abort_cause' = cause
  /\ UNCHANGED <<envVars, errorVars, workVars, testVars, loopVars, histVars,
                 git_log>>

\* fix_node catches FixGenerationError only.
CorrectorRaises ==
  /\ AgentsMayRaise /\ pc = "fix" /\ steps < RecursionLimit
  /\ Edit
  /\ Raise("corrector") /\ UNCHANGED steps

\* immunize_node catches TestGenerationError only.
TesterRaises ==
  /\ AgentsMayRaise /\ pc = "immunize" /\ entry_kind = "crash"
  /\ steps < RecursionLimit
  /\ Raise("tester") /\ UNCHANGED <<tree, steps>>

\* report_commit_node does not catch GitOperationError.
CommitRaises ==
  /\ GitMayFail /\ pc = "report_commit" /\ steps < RecursionLimit
  /\ Raise("git") /\ UNCHANGED <<tree, steps>>

\* post_mortem_node does not catch what writing the report raises (OSError).
ReporterRaises ==
  /\ AgentsMayRaise /\ pc = "post_mortem" /\ steps < RecursionLimit
  /\ Raise("reporter") /\ UNCHANGED <<tree, steps>>

\* LangGraph raises GraphRecursionError before the next node.
OutOfSteps ==
  /\ pc \in Nodes /\ steps >= RecursionLimit
  /\ Raise("recursion") /\ UNCHANGED <<tree, steps>>

\* The session is over: nothing runs any more.
Over == pc \in Terminal /\ UNCHANGED vars

Next ==
  \/ Bootstrap
  \/ Fix
  \/ ValidateRegression
  \/ ValidateObserved
  \/ Immunize
  \/ ReportCommit
  \/ Rollback
  \/ PostMortem
  \/ CorrectorRaises
  \/ TesterRaises
  \/ CommitRaises
  \/ ReporterRaises
  \/ OutOfSteps
  \/ Over

\* The event loop drives the one coroutine until it returns or raises; every
\* agent and sandbox call is bounded by a timeout, so a node always answers.
Spec == Init /\ [][Next]_vars /\ WF_vars(Next)

-----------------------------------------------------------------------------
(* Correctness. *)

Attempt == [attempt_index : Nat, cycle_index : Nat,
            error_summary : {"no fix", "regression", "sandbox", "unknown"}]
Resolved == [signature : Errors \cup {None}, test : Qualities \cup {None}]

\* Every variable has its type.
TypeOK ==
  /\ pc \in Nodes \cup Terminal /\ steps \in Nat
  /\ abort_cause \in {None, "corrector", "tester", "git", "reporter", "recursion"}
  /\ entry_kind \in {"crash", "test"} /\ regression_cmd \in BOOLEAN
  /\ current_error_signature \in Errors \cup {None}
  /\ current_failure_output \in Texts
  /\ current_patch \in (SUBSET Files) \cup {None}
  /\ current_sandbox_result \in Verdicts \cup {None}
  /\ current_regression_test \in Qualities \cup {None}
  /\ post_fix_signature \in Errors \cup {None}
  /\ post_fix_output \in Texts \cup {None}
  /\ regression_detected \in BOOLEAN /\ should_continue \in BOOLEAN
  /\ attempt_count \in Nat /\ error_cycle_index \in Nat
  /\ failed_attempts \in Seq(Attempt) /\ resolved_errors \in Seq(Resolved)
  /\ is_resolved \in BOOLEAN /\ post_mortem_path \in BOOLEAN
  /\ tree \in Tree /\ git_log \in Seq(Tree) \ {<<>>}

\* The longest pass over one error: MaxRetries failed attempts (fix, validate,
\* rollback) and the post-mortem, or one attempt less and the four nodes of a
\* healed one.
StepsPerError == 3 * MaxRetries + 1

\* The two budgets bound the session: it never takes more supersteps than the
\* bootstrap and ErrorCycleBudget passes.  A limit of that size is never hit.
StepsBounded == steps <= 1 + ErrorCycleBudget * StepsPerError

\* With a recursion limit of at least that size LangGraph never cuts the
\* session short: it ends by its own budgets.
EndsByItsBudgets ==
  RecursionLimit >= 1 + ErrorCycleBudget * StepsPerError => abort_cause # "recursion"

\* The ledger tells the history of the branch: entry i is commit i, the commit
\* no longer shows the error the entry says it healed, and from the second on
\* that error is the one the commit before it was left with.
LedgerIsTheHistory ==
  /\ Len(git_log) = Len(resolved_errors) + 1
  /\ \A i \in 1..Len(resolved_errors) :
       LET healed == resolved_errors[i].signature
       IN  /\ healed # None => git_log[i + 1].err # healed
           /\ i > 1 => healed # None /\ git_log[i].err = healed

\* No commit that makes the reproduction command green breaks a protected test:
\* any of the caller's, or any related to the files the commit changes.
GreenCommitsPassTheGate ==
  \A i \in 2..Len(git_log) :
    git_log[i].err = None =>
      git_log[i].broken \cap
        (IF regression_cmd THEN HasTests ELSE git_log[i].touched \cap HasTests) = {}

\* A session that ends resolved leaves a green branch, unless its last commit
\* spent the error-cycle budget.
ResolvedIsGreenOrBudgetSpent ==
  pc = "end" /\ is_resolved =>
    head.err = None \/ Len(resolved_errors) = ErrorCycleBudget

CurrentCycle ==
  {i \in 1..Len(failed_attempts) : failed_attempts[i].cycle_index = error_cycle_index}

\* The Corrector is shown the failed attempts of the error it is healing, all
\* of them, in order, and of no other error.
CorrectorSeesItsCycle ==
  pc = "fix" =>
    /\ CurrentCycle = (Len(failed_attempts) - attempt_count + 1)..Len(failed_attempts)
    /\ \A i \in CurrentCycle :
         failed_attempts[i].attempt_index = i - (Len(failed_attempts) - attempt_count) - 1

\* The output the Corrector is shown is of the error it is healing, or carries
\* no fingerprint at all (a timeout): never of an error already left behind.
FeedbackIsOfTheCurrentError ==
  pc = "fix" => Fingerprint(current_failure_output) \in {current_error_signature, None}

\* What a commit changes, the session file aside, is the patch that was validated,
\* gated and shown to the Reporter for the message: whatever resets that failed
\* left of earlier attempts is in that patch as well, never committed unseen.
CommitsAreTheirPatch ==
  [][Len(git_log') > Len(git_log) =>
       git_log'[Len(git_log')].touched = current_patch]_vars

\* A post-mortem is written only when the current error has used up its retry
\* budget, each of these attempts with a known reason.
PostMortemAfterTheRetries ==
  post_mortem_path =>
    /\ ~is_resolved /\ abort_cause = None
    /\ Cardinality(CurrentCycle) = MaxRetries
    /\ \A i \in CurrentCycle : failed_attempts[i].error_summary # "unknown"

\* LangGraph's own limit never ends a session before its budgets do.
NeverOutOfSteps == abort_cause # "recursion"

-----------------------------------------------------------------------------
(* Refinement: the session as its caller sees it. *)

Status ==
  CASE pc = "aborted" -> "aborted"
    [] pc = "end" /\ post_mortem_path -> "post_mortem"
    [] pc = "end" /\ ~post_mortem_path -> "resolved"
    [] OTHER -> "healing"

HealedErrors ==
  [i \in 1..Len(resolved_errors) |-> resolved_errors[i].signature]

Contract == INSTANCE HealingContract
              WITH status <- Status, healed <- HealedErrors, attempts <- attempt_count

\* The session keeps its contract: budgets, order of the healed errors, the
\* three ways to end, and that it does end.
KeepsTheContract == Contract!Spec
=============================================================================

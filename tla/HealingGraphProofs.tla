-------------------------- MODULE HealingGraphProofs --------------------------
(***************************************************************************)
(* What holds of the healing session for every value of the constants: its *)
(* types and its pace, the contract it implements, the bound on its steps, *)
(* and then of its attempts, the feedback they get, the tree they start    *)
(* from, the gate their commits pass and the way the session ends.         *)
(***************************************************************************)
EXTENDS HealingGraph, FiniteSetTheorems, TLAPS

-----------------------------------------------------------------------------
(* Type correctness. *)

\* The gated append leaves a session file, and keeps a test or none.
LEMMA GateAndKeepType ==
  ASSUME NEW session \in Sessions, NEW quality \in Qualities, NEW gate \in BOOLEAN,
         NEW o \in GateAndKeep(session, quality, gate)
  PROVE  o.session \in Sessions /\ o.kept \in Qualities \cup {None}
<1>1. AppendTest(session, quality) \in Sessions
  BY DEF AppendTest, Sessions
<1>2. QED
  BY <1>1 DEF GateAndKeep

\* So does the whole of immunization.
LEMMA ImmunizeType ==
  ASSUME tree \in Tree, NEW o \in ImmunizeOutcomes
  PROVE  o.session \in Sessions /\ o.kept \in Qualities \cup {None}
<1> DEFINE green == current_sandbox_result = "passed"
           untested == [session |-> tree.session, kept |-> None]
           targeted == {untested} \cup
                       UNION {GateAndKeep(tree.session, q, green) : q \in Qualities}
<1>1. tree.session \in Sessions
  BY DEF Tree
<1>2. ASSUME NEW t \in targeted
      PROVE  t.session \in Sessions /\ t.kept \in Qualities \cup {None}
  <2>1. CASE t = untested
    BY <1>1, <2>1
  <2>2. CASE t # untested
    <3>1. PICK q \in Qualities : t \in GateAndKeep(tree.session, q, green)
      BY <2>2
    <3>2. green \in BOOLEAN
      OBVIOUS
    <3> HIDE DEF green
    <3>3. QED
      BY <1>1, <3>1, <3>2, GateAndKeepType
  <2>3. QED
    BY <2>1, <2>2
<1>3. PICK t \in targeted :
        o \in IF t.kept = None /\ green
                THEN GateAndKeep(t.session, "sound", TRUE) ELSE {t}
  BY DEF ImmunizeOutcomes
<1>4. CASE t.kept = None /\ green
  BY <1>2, <1>3, <1>4, GateAndKeepType DEF Qualities
<1>5. CASE ~(t.kept = None /\ green)
  BY <1>2, <1>3, <1>5
<1>6. QED
  BY <1>4, <1>5

\* Updating the fields of a tree gives a tree.
LEMMA TreeSession ==
  ASSUME NEW t \in Tree, NEW session \in Sessions
  PROVE  [t EXCEPT !.session = session] \in Tree
BY DEF Tree

LEMMA TreeClean ==
  ASSUME NEW t \in Tree PROVE [t EXCEPT !.touched = {}] \in Tree
BY DEF Tree

LEMMA TreeEdit ==
  ASSUME NEW t \in Tree, NEW err \in Texts \cup {None},
         NEW fs \in SUBSET Files, NEW broken \in SUBSET Files
  PROVE  [t EXCEPT !.err = err, !.touched = @ \cup fs, !.broken = broken] \in Tree
BY DEF Tree

LEMMA HeadType ==
  ASSUME TypeOK PROVE head \in Tree /\ Len(git_log) \in Nat \ {0}
BY DEF TypeOK, head

LEMMA EditType ==
  ASSUME TypeOK, Edit PROVE tree' \in Tree
<1>1. tree \in Tree
  BY DEF TypeOK
<1>2. HasTests \subseteq Files
  BY InputAssumption
<1>3. PICK fs \in SUBSET Files, broken \in SUBSET HasTests, err \in Texts \cup {None} :
        tree' = [tree EXCEPT !.err = err, !.touched = @ \cup fs, !.broken = broken]
  BY DEF Edit
<1>4. broken \in SUBSET Files
  BY <1>2
<1>5. QED
  BY <1>1, <1>3, <1>4, TreeEdit

LEMMA HeadWithType ==
  ASSUME TypeOK, NEW session \in Sessions PROVE HeadWith(session) \subseteq Tree
<1>1. /\ head.err \in Texts \cup {None} /\ head.broken \in SUBSET Files
  BY HeadType DEF Tree
<1>2. HasTests \subseteq Files
  BY InputAssumption
<1>3. QED
  BY <1>1, <1>2 DEF HeadWith, Tree

LEMMA ResetType ==
  ASSUME TypeOK, ResetHard PROVE tree' \in Tree
<1>1. head.session \in Sessions /\ tree.session \in Sessions /\ tree \in Tree
  BY HeadType DEF TypeOK, Tree
<1>2. QED
  BY <1>1, HeadWithType DEF ResetHard

\* A fingerprint of a validated fix is the output itself.  TypeOK is not
\* inductive without it: the output becomes that of the next error.
PostFixAgrees == post_fix_signature # None => post_fix_output = post_fix_signature

TypeInv == TypeOK /\ PostFixAgrees

LEMMA TypeInit == ASSUME Init PROVE TypeInv
<1>1. tree \in Tree
  BY DEF Init, Tree, Sessions
<1>2. git_log \in Seq(Tree) \ {<<>>}
  BY <1>1 DEF Init
<1>3. failed_attempts \in Seq(Attempt) /\ resolved_errors \in Seq(Resolved)
  BY DEF Init
<1>4. QED
  BY <1>1, <1>2, <1>3, InputAssumption
  DEF Init, TypeInv, TypeOK, PostFixAgrees, Texts, Nodes, Terminal

\* The working tree, the commits and the two histories keep their types.
LEMMA TreeTypeNext ==
  ASSUME TypeInv, [Next]_vars
  PROVE  tree' \in Tree /\ git_log' \in Seq(Tree) \ {<<>>}
<1>0. /\ tree \in Tree /\ git_log \in Seq(Tree) \ {<<>>}
      /\ TypeOK
  BY DEF TypeInv, TypeOK
<1>1. CASE Bootstrap
  <2>1. <<>> \in Sessions
    BY DEF Sessions
  <2>2. [tree EXCEPT !.session = <<>>] \in Tree
    BY <1>0, <2>1, TreeSession
  <2>3. QED
    BY <1>0, <1>1, <2>2 DEF Bootstrap
<1>2. CASE Fix
  BY <1>0, <1>2, EditType DEF Fix
<1>3. CASE Immunize
  <2>1. tree.session \in Sessions
    BY <1>0 DEF Tree
  <2>2. PICK session \in Sessions : tree' = [tree EXCEPT !.session = session]
    BY <1>0, <1>3, <2>1, ImmunizeType DEF Immunize
  <2>3. QED
    BY <1>0, <1>3, <2>2, TreeSession DEF Immunize
<1>4. CASE ReportCommit
  <2>1. tree' \in Tree
    BY <1>0, <1>4, TreeClean DEF ReportCommit, Commit
  <2>2. git_log' \in Seq(Tree) \ {<<>>}
    BY <1>0, <1>4 DEF ReportCommit, Commit
  <2>3. QED
    BY <1>4, <2>1, <2>2 DEF ReportCommit, Commit
<1>5. CASE Rollback
  BY <1>0, <1>5, ResetType DEF Rollback
<1>6. CASE CorrectorRaises
  BY <1>0, <1>6, EditType DEF CorrectorRaises, Raise
<1>7. CASE ~(Bootstrap \/ Fix \/ Immunize \/ ReportCommit \/ Rollback \/ CorrectorRaises)
  BY <1>0, <1>7
  DEF Next, ValidateRegression, ValidateObserved, PostMortem, TesterRaises,
      CommitRaises, ReporterRaises, OutOfSteps, Over, Raise, vars, gitVars
<1>8. QED
  BY <1>1, <1>2, <1>3, <1>4, <1>5, <1>6, <1>7

\* The types of the failure being healed, the work on it and its test.
WorkTyped ==
  /\ current_error_signature \in Errors \cup {None}
  /\ current_failure_output \in Texts
  /\ current_patch \in (SUBSET Files) \cup {None}
  /\ current_sandbox_result \in Verdicts \cup {None}
  /\ current_regression_test \in Qualities \cup {None}
  /\ post_fix_signature \in Errors \cup {None}
  /\ post_fix_output \in Texts \cup {None}

LEMMA WorkTypeNext ==
  ASSUME TypeInv, [Next]_vars PROVE WorkTyped' /\ PostFixAgrees'
<1> USE DEF WorkTyped, PostFixAgrees
<1>0. WorkTyped /\ PostFixAgrees /\ tree \in Tree
  BY DEF TypeInv, TypeOK
<1>1. CASE Bootstrap
  BY <1>0, <1>1 DEF Bootstrap, Fingerprint, workVars, testVars
<1>2. CASE Fix
  <2>1. tree' \in Tree
    BY <1>2, TreeTypeNext DEF Next
  <2>2. current_patch' \in (SUBSET Files) \cup {None}
    BY <1>2, <2>1 DEF Fix, CapturedPatch, Tree
  <2>3. QED
    BY <1>0, <1>2, <2>2 DEF Fix, errorVars, testVars
<1>3. CASE ValidateRegression
  <2>1. PICK verdict \in {"failed"} \cup SandboxFaults : current_sandbox_result' = verdict
    BY <1>3 DEF ValidateRegression
  <2>2. verdict \in Verdicts
    BY InputAssumption DEF Verdicts
  <2>3. QED
    BY <1>0, <1>3, <2>1, <2>2 DEF ValidateRegression, errorVars, testVars
<1>4. CASE ValidateObserved
  <2>1. PICK o \in Observations :
          /\ current_sandbox_result' = o.verdict
          /\ post_fix_signature' =
               IF o.verdict = "passed" THEN None ELSE Fingerprint(o.text)
          /\ post_fix_output' = o.text
    BY <1>4 DEF ValidateObserved
  <2>2. o.verdict \in Verdicts /\ o.text \in Texts \cup {None}
    <3>1. tree.err \in Texts \cup {None}
      BY <1>0 DEF Tree
    <3>2. QED
      BY <3>1, InputAssumption DEF Observations, Verdicts, Texts
  <2>3. UNCHANGED <<current_error_signature, current_failure_output, current_patch,
                    current_regression_test>>
    BY <1>4 DEF ValidateObserved, errorVars, testVars
  <2>4. QED
    BY <1>0, <2>1, <2>2, <2>3 DEF Fingerprint
<1>5. CASE Immunize
  <2>1. current_regression_test' \in Qualities \cup {None}
    BY <1>0, <1>5, ImmunizeType DEF Immunize
  <2>2. QED
    BY <1>0, <1>5, <2>1 DEF Immunize, errorVars, workVars
<1>6. CASE ReportCommit
  <2>1. CASE Residual # None /\ error_cycle_index + 1 < ErrorCycleBudget
    <3>1. Residual \in Errors /\ post_fix_output \in Texts
      BY <1>0, <2>1 DEF Residual, Texts
    <3>2. QED
      BY <1>6, <2>1, <3>1 DEF ReportCommit, AdvanceChain, OutputOfNextError
  <2>2. CASE ~(Residual # None /\ error_cycle_index + 1 < ErrorCycleBudget)
    BY <1>0, <1>6, <2>2 DEF ReportCommit, errorVars, workVars, testVars
  <2>3. QED
    BY <2>1, <2>2
<1>7. CASE Rollback
  <2>1. current_failure_output' \in Texts
    BY <1>0, <1>7 DEF Rollback
  <2>2. QED
    BY <1>0, <1>7, <2>1 DEF Rollback, testVars
<1>8. CASE PostMortem
  BY <1>0, <1>8 DEF PostMortem, errorVars, workVars, testVars
<1>9. CASE CorrectorRaises \/ TesterRaises \/ CommitRaises \/ ReporterRaises \/ OutOfSteps
  BY <1>0, <1>9
  DEF CorrectorRaises, TesterRaises, CommitRaises, ReporterRaises, OutOfSteps, Raise, errorVars,
      workVars, testVars
<1>10. CASE UNCHANGED vars
  BY <1>0, <1>10 DEF vars, errorVars, workVars, testVars
<1>11. QED
  BY <1>1, <1>2, <1>3, <1>4, <1>5, <1>6, <1>7, <1>8, <1>9, <1>10 DEF Next, Over

\* The node about to run and the number of supersteps keep their types.
PcTyped ==
  /\ pc \in Nodes \cup Terminal /\ steps \in Nat
  /\ abort_cause \in {None, "corrector", "tester", "git", "reporter", "recursion"}

LEMMA PcTypeNext ==
  ASSUME TypeInv, [Next]_vars PROVE PcTyped'
<1> USE DEF PcTyped, Nodes, Terminal
<1>0. PcTyped
  BY DEF TypeInv, TypeOK
<1>1. ASSUME NEW node \in Nodes, Superstep(node)
      PROVE  steps' \in Nat /\ UNCHANGED abort_cause
  BY <1>0, <1>1 DEF Superstep
<1>2. CASE Bootstrap \/ Fix \/ Immunize
  BY <1>0, <1>1, <1>2 DEF Bootstrap, Fix, Immunize, RouteAfterFix
<1>3. CASE ValidateRegression \/ ValidateObserved
  BY <1>0, <1>1, <1>3 DEF ValidateRegression, ValidateObserved, RouteAfterValidate
<1>4. CASE ReportCommit \/ Rollback \/ PostMortem
  BY <1>0, <1>1, <1>4
  DEF ReportCommit, Rollback, PostMortem, RouteAfterCommit, RouteAfterRollback
<1>5. CASE CorrectorRaises \/ TesterRaises \/ CommitRaises \/ ReporterRaises \/ OutOfSteps
  BY <1>0, <1>5 DEF CorrectorRaises, TesterRaises, CommitRaises, ReporterRaises, OutOfSteps, Raise
<1>6. CASE UNCHANGED vars
  BY <1>0, <1>6 DEF vars
<1>7. QED
  BY <1>2, <1>3, <1>4, <1>5, <1>6 DEF Next, Over

\* The entry, the loop counters and the histories keep their types.
LoopTyped ==
  /\ entry_kind \in {"crash", "test"} /\ regression_cmd \in BOOLEAN
  /\ regression_detected \in BOOLEAN /\ should_continue \in BOOLEAN
  /\ attempt_count \in Nat /\ error_cycle_index \in Nat
  /\ failed_attempts \in Seq(Attempt) /\ resolved_errors \in Seq(Resolved)
  /\ is_resolved \in BOOLEAN /\ post_mortem_path \in BOOLEAN

LEMMA LoopTypeNext ==
  ASSUME TypeInv, [Next]_vars PROVE LoopTyped'
<1> USE DEF LoopTyped
<1>0. LoopTyped /\ WorkTyped
  BY DEF TypeInv, TypeOK, WorkTyped
<1>1. CASE Bootstrap
  BY <1>0, <1>1 DEF Bootstrap, envVars, workVars
<1>2. CASE Fix
  BY <1>0, <1>2 DEF Fix, envVars, loopVars, histVars
<1>3. CASE ValidateRegression \/ ValidateObserved
  BY <1>0, <1>3
  DEF ValidateRegression, ValidateObserved, envVars, loopVars, histVars
<1>4. CASE Immunize
  BY <1>0, <1>4 DEF Immunize, envVars, workVars, loopVars, histVars
<1>5. CASE ReportCommit
  <2>1. resolved_errors' \in Seq(Resolved)
    BY <1>0, <1>5 DEF ReportCommit, Resolved, WorkTyped
  <2>2. CASE Residual # None /\ error_cycle_index + 1 < ErrorCycleBudget
    <3>1. /\ should_continue' = TRUE /\ error_cycle_index' = error_cycle_index + 1
          /\ attempt_count' = 0 /\ UNCHANGED regression_detected
      BY <1>5, <2>2 DEF ReportCommit, AdvanceChain, AttemptsAtNextError
    <3>2. is_resolved' = TRUE /\ UNCHANGED <<envVars, failed_attempts, post_mortem_path>>
      BY <1>5 DEF ReportCommit
    <3>3. QED
      BY <1>0, <2>1, <3>1, <3>2 DEF envVars
  <2>3. CASE ~(Residual # None /\ error_cycle_index + 1 < ErrorCycleBudget)
    BY <1>0, <1>5, <2>1, <2>3 DEF ReportCommit, workVars, envVars
  <2>4. QED
    BY <2>2, <2>3
<1>6. CASE Rollback
  <2>1. [attempt_index |-> attempt_count, cycle_index |-> error_cycle_index,
         error_summary |-> FailureSummary] \in Attempt
    BY <1>0 DEF Attempt, FailureSummary
  <2>2. failed_attempts' \in Seq(Attempt)
    BY <1>0, <1>6, <2>1 DEF Rollback
  <2>3. attempt_count' = attempt_count + 1 /\ regression_detected' = FALSE
    BY <1>6 DEF Rollback
  <2>4. UNCHANGED <<entry_kind, regression_cmd, should_continue, error_cycle_index,
                    resolved_errors, is_resolved, post_mortem_path>>
    BY <1>6 DEF Rollback, envVars
  <2>5. attempt_count' \in Nat
    BY <1>0, <2>3
  <2>6. QED
    BY <1>0, <2>2, <2>3, <2>4, <2>5
<1>7. CASE PostMortem
  BY <1>0, <1>7 DEF PostMortem, envVars, workVars, loopVars
<1>8. CASE CorrectorRaises \/ TesterRaises \/ CommitRaises \/ ReporterRaises \/ OutOfSteps
  BY <1>0, <1>8
  DEF CorrectorRaises, TesterRaises, CommitRaises, ReporterRaises, OutOfSteps, Raise, envVars,
      workVars, loopVars, histVars
<1>9. CASE UNCHANGED vars
  BY <1>0, <1>9 DEF vars, envVars, workVars, loopVars, histVars
<1>10. QED
  BY <1>1, <1>2, <1>3, <1>4, <1>5, <1>6, <1>7, <1>8, <1>9 DEF Next, Over

LEMMA TypeNext == ASSUME TypeInv, [Next]_vars PROVE TypeInv'
BY TreeTypeNext, WorkTypeNext, PcTypeNext, LoopTypeNext
DEF TypeInv, TypeOK, WorkTyped, PcTyped, LoopTyped

\* Every variable of the session keeps its type.
THEOREM TypeCorrect == Spec => []TypeOK
<1>1. Init => TypeInv
  BY TypeInit
<1>2. TypeInv /\ [Next]_vars => TypeInv'
  BY TypeNext
<1>3. TypeInv => TypeOK
  BY DEF TypeInv
<1>4. QED
  BY <1>1, <1>2, <1>3, PTL DEF Spec

-----------------------------------------------------------------------------
(* The budgets bound the supersteps. *)

\* The supersteps the session may have spent when it reaches the next fix: the
\* bootstrap, a full pass for every error healed, three per failed attempt.
Spent == 1 + error_cycle_index * StepsPerError + 3 * attempt_count

\* Where the session is within its budgets.  StepsBounded alone is not
\* inductive: it needs how far each node is from the last fix, and that a fix
\* is only ever attempted with a retry and an error of the budget left.
Pace ==
  /\ error_cycle_index < ErrorCycleBudget /\ attempt_count <= MaxRetries
  /\ pc \in Nodes \ {"bootstrap", "post_mortem"} => attempt_count < MaxRetries
  /\ pc = "bootstrap" => steps = 0
  /\ pc \in {"fix", "post_mortem"} => steps <= Spent
  /\ pc = "validate" => steps <= Spent + 1
  /\ pc \in {"immunize", "rollback"} => steps <= Spent + 2
  /\ pc = "report_commit" => steps <= Spent + 3
  /\ pc \in Terminal => steps <= 1 + (error_cycle_index + 1) * StepsPerError

\* A session that LangGraph cut short had a limit below its budgets.
CutShort ==
  abort_cause = "recursion" =>
    pc = "aborted" /\ RecursionLimit < 1 + ErrorCycleBudget * StepsPerError

PaceInv == TypeInv /\ Pace /\ CutShort

LEMMA OneMore ==
  ASSUME NEW c \in Nat, NEW k \in Nat
  PROVE  c * k \in Nat /\ (c + 1) * k = c * k + k
OBVIOUS

LEMMA WithinBudget ==
  ASSUME NEW b \in Nat, NEW c \in Nat, c < b, NEW k \in Nat
  PROVE  (c + 1) * k <= b * k
<1>1. PICK d \in Nat : b = c + 1 + d
  <2>1. b - c - 1 \in Nat /\ b = c + 1 + (b - c - 1)
    OBVIOUS
  <2>2. QED
    BY <2>1
<1>2. b * k = (c + 1) * k + d * k /\ d * k \in Nat /\ (c + 1) * k \in Nat
  BY <1>1
<1>3. QED
  BY <1>2

\* The arithmetic of one pass, with the product left alone.
LEMMA PassArithmetic ==
  ASSUME TypeOK
  PROVE  /\ StepsPerError \in Nat /\ StepsPerError = 3 * MaxRetries + 1
         /\ error_cycle_index * StepsPerError \in Nat
         /\ (error_cycle_index + 1) * StepsPerError
              = error_cycle_index * StepsPerError + StepsPerError
         /\ MaxRetries \in Nat /\ MaxRetries > 0
         /\ Spent = 1 + error_cycle_index * StepsPerError + 3 * attempt_count
<1>1. StepsPerError \in Nat /\ StepsPerError = 3 * MaxRetries + 1
  BY BudgetAssumption DEF StepsPerError
<1>2. error_cycle_index \in Nat
  BY DEF TypeOK
<1>3. QED
  BY <1>1, <1>2, OneMore, BudgetAssumption DEF Spent

LEMMA PaceInit == ASSUME Init PROVE PaceInv
<1>1. TypeInv
  BY TypeInit
<1>2. CutShort
  BY SentinelAssumption DEF Init, CutShort
<1>3. Pace
  BY BudgetAssumption DEF Init, Pace, Nodes, Terminal
<1>4. QED
  BY <1>1, <1>2, <1>3 DEF PaceInv

LEMMA PaceNext == ASSUME PaceInv, [Next]_vars PROVE Pace'
<1> DEFINE base == error_cycle_index * StepsPerError
<1>0. /\ TypeOK /\ TypeOK' /\ Pace
  BY TypeNext DEF PaceInv, TypeInv
<1>1. /\ attempt_count \in Nat /\ error_cycle_index \in Nat /\ steps \in Nat
      /\ base \in Nat /\ MaxRetries \in Nat /\ MaxRetries > 0
      /\ StepsPerError = 3 * MaxRetries + 1
      /\ (error_cycle_index + 1) * StepsPerError = base + StepsPerError
      /\ Spent = 1 + base + 3 * attempt_count
  BY <1>0, PassArithmetic DEF TypeOK
<1>2. ASSUME UNCHANGED <<error_cycle_index, attempt_count>>
      PROVE  /\ Spent' = Spent
             /\ ((error_cycle_index + 1) * StepsPerError)' = base + StepsPerError
  BY <1>1, <1>2 DEF Spent, StepsPerError
<1> HIDE DEF base
<1> USE DEF Pace, Nodes, Terminal
<1>3. CASE Bootstrap
  <2>1. attempt_count' = 0 /\ error_cycle_index' = 0 /\ pc' = "fix" /\ steps' = 1
    BY <1>0, <1>3 DEF Bootstrap, Superstep
  <2>2. Spent' >= 1
    BY <1>0, <2>1, PassArithmetic, BudgetAssumption DEF Spent, StepsPerError
  <2>3. QED
    BY <2>1, <2>2, BudgetAssumption
<1>4. CASE Fix
  <2>1. UNCHANGED <<error_cycle_index, attempt_count>>
    BY <1>4 DEF Fix, loopVars
  <2>2. pc = "fix" /\ steps' = steps + 1 /\ pc' \in {"validate", "rollback"}
    BY <1>4 DEF Fix, Superstep, RouteAfterFix
  <2>3. QED
    BY <1>0, <1>1, <1>2, <2>1, <2>2
<1>5. CASE ValidateRegression \/ ValidateObserved
  <2>1. UNCHANGED <<error_cycle_index, attempt_count>>
    BY <1>5 DEF ValidateRegression, ValidateObserved, loopVars
  <2>2. pc = "validate" /\ steps' = steps + 1 /\ pc' \in {"immunize", "rollback"}
    BY <1>5 DEF ValidateRegression, ValidateObserved, Superstep, RouteAfterValidate
  <2>3. QED
    BY <1>0, <1>1, <1>2, <2>1, <2>2
<1>6. CASE Immunize
  <2>1. UNCHANGED <<error_cycle_index, attempt_count>>
    BY <1>6 DEF Immunize, loopVars
  <2>2. pc = "immunize" /\ steps' = steps + 1 /\ pc' = "report_commit"
    BY <1>6 DEF Immunize, Superstep
  <2>3. QED
    BY <1>0, <1>1, <1>2, <2>1, <2>2
<1>7. CASE ReportCommit
  <2>1. pc = "report_commit" /\ steps' = steps + 1
    BY <1>7 DEF ReportCommit, Superstep
  <2>2. steps' <= 1 + base + StepsPerError
    BY <1>0, <1>1, <2>1
  <2>3. CASE Residual # None /\ error_cycle_index + 1 < ErrorCycleBudget
    <3>1. /\ error_cycle_index' = error_cycle_index + 1 /\ attempt_count' = 0
          /\ pc' = "fix"
      BY <1>7, <2>3
      DEF ReportCommit, AdvanceChain, AttemptsAtNextError, RouteAfterCommit
    <3>2. Spent' = 1 + (error_cycle_index + 1) * StepsPerError + 3 * 0
      BY <3>1 DEF Spent, StepsPerError
    <3>3. QED
      BY <1>1, <2>2, <2>3, <3>1, <3>2
  <2>4. CASE ~(Residual # None /\ error_cycle_index + 1 < ErrorCycleBudget)
    <3>1. UNCHANGED <<error_cycle_index, attempt_count>> /\ pc' = "end"
      BY <1>7, <2>4 DEF ReportCommit, RouteAfterCommit
    <3>2. QED
      BY <1>0, <1>1, <1>2, <2>2, <3>1
  <2>5. QED
    BY <2>3, <2>4
<1>8. CASE Rollback
  <2>1. /\ error_cycle_index' = error_cycle_index
        /\ attempt_count' = attempt_count + 1
    BY <1>8 DEF Rollback
  <2>2. /\ pc = "rollback" /\ steps' = steps + 1
        /\ pc' = IF attempt_count' < MaxRetries THEN "fix" ELSE "post_mortem"
    BY <1>8 DEF Rollback, Superstep, RouteAfterRollback
  <2>3. Spent' = 1 + base + 3 * (attempt_count + 1)
    BY <2>1 DEF Spent, StepsPerError, base
  <2>4. QED
    BY <1>0, <1>1, <2>1, <2>2, <2>3
<1>9. CASE PostMortem
  <2>1. UNCHANGED <<error_cycle_index, attempt_count>>
    BY <1>9 DEF PostMortem, loopVars
  <2>2. pc = "post_mortem" /\ steps' = steps + 1 /\ pc' = "end"
    BY <1>9 DEF PostMortem, Superstep
  <2>3. QED
    BY <1>0, <1>1, <1>2, <2>1, <2>2
<1>10. CASE CorrectorRaises \/ TesterRaises \/ CommitRaises \/ ReporterRaises \/ OutOfSteps
  <2>1. UNCHANGED <<error_cycle_index, attempt_count, steps>>
    BY <1>10 DEF CorrectorRaises, TesterRaises, CommitRaises, ReporterRaises, OutOfSteps, Raise, loopVars
  <2>2. pc \in Nodes /\ pc' = "aborted"
    BY <1>10 DEF CorrectorRaises, TesterRaises, CommitRaises, ReporterRaises, OutOfSteps, Raise
  <2>3. QED
    BY <1>0, <1>1, <1>2, <2>1, <2>2
<1>11. CASE UNCHANGED vars
  <2>1. UNCHANGED <<error_cycle_index, attempt_count, steps, pc>>
    BY <1>11 DEF vars, loopVars
  <2>2. QED
    BY <1>0, <1>1, <1>2, <2>1
<1>12. QED
  BY <1>3, <1>4, <1>5, <1>6, <1>7, <1>8, <1>9, <1>10, <1>11 DEF Next, Over

\* Within its budgets the session is below its bound, strictly while a node is
\* still to run.
LEMMA PaceBound ==
  ASSUME PaceInv
  PROVE  /\ steps \in Nat /\ ErrorCycleBudget * StepsPerError \in Nat
         /\ steps <= 1 + ErrorCycleBudget * StepsPerError
         /\ pc \in Nodes => steps < 1 + ErrorCycleBudget * StepsPerError
<1> DEFINE base == error_cycle_index * StepsPerError
<1>0. TypeOK /\ Pace
  BY DEF PaceInv, TypeInv
<1>1. /\ attempt_count \in Nat /\ error_cycle_index \in Nat /\ steps \in Nat
      /\ pc \in Nodes \cup Terminal
  BY <1>0 DEF TypeOK
<1>2. /\ base \in Nat /\ MaxRetries \in Nat /\ MaxRetries > 0
      /\ StepsPerError \in Nat /\ StepsPerError = 3 * MaxRetries + 1
      /\ (error_cycle_index + 1) * StepsPerError = base + StepsPerError
      /\ Spent = 1 + base + 3 * attempt_count
  BY <1>0, PassArithmetic
<1>3. base + StepsPerError <= ErrorCycleBudget * StepsPerError
  BY <1>0, <1>1, <1>2, WithinBudget, BudgetAssumption DEF Pace
<1>4. ErrorCycleBudget * StepsPerError \in Nat
  BY <1>2, OneMore, BudgetAssumption
<1> HIDE DEF base
<1>5. pc \in Nodes => steps < 1 + base + StepsPerError
  BY <1>0, <1>1, <1>2 DEF Pace, Nodes
<1>6. pc \in Terminal => steps <= 1 + base + StepsPerError
  BY <1>0, <1>1, <1>2 DEF Pace
<1>7. QED
  BY <1>1, <1>2, <1>3, <1>4, <1>5, <1>6

LEMMA CutShortNext == ASSUME PaceInv, [Next]_vars PROVE CutShort'
<1>0. TypeOK /\ Pace /\ CutShort
  BY DEF PaceInv, TypeInv
<1>1. CASE OutOfSteps
  <2>1. pc \in Nodes /\ steps >= RecursionLimit /\ pc' = "aborted"
    BY <1>1 DEF OutOfSteps, Raise
  <2>2. RecursionLimit < 1 + ErrorCycleBudget * StepsPerError
    BY <2>1, PaceBound, BudgetAssumption
  <2>3. QED
    BY <2>1, <2>2 DEF CutShort, StepsPerError
<1>2. CASE CorrectorRaises \/ TesterRaises \/ CommitRaises \/ ReporterRaises
  BY <1>2 DEF CorrectorRaises, TesterRaises, CommitRaises, ReporterRaises, Raise, CutShort
<1>3. CASE UNCHANGED vars
  BY <1>0, <1>3 DEF vars, CutShort, StepsPerError
<1>4. CASE Bootstrap \/ Fix \/ ValidateRegression \/ ValidateObserved \/ Immunize
           \/ ReportCommit \/ Rollback \/ PostMortem
  <2>1. UNCHANGED abort_cause /\ pc \in Nodes
    BY <1>4
    DEF Bootstrap, Fix, ValidateRegression, ValidateObserved, Immunize, ReportCommit,
        Rollback, PostMortem, Superstep, Nodes
  <2>2. QED
    BY <1>0, <2>1 DEF CutShort, Nodes
<1>5. QED
  BY <1>1, <1>2, <1>3, <1>4 DEF Next, Over

LEMMA PaceInductive ==
  /\ Init => PaceInv
  /\ PaceInv /\ [Next]_vars => PaceInv'
BY PaceInit, PaceNext, CutShortNext, TypeNext DEF PaceInv

\* A session takes no more supersteps than its two budgets allow: the bootstrap
\* and, for each of ErrorCycleBudget errors, 3 * MaxRetries + 1.
THEOREM StepsAreBounded == Spec => []StepsBounded
<1>1. PaceInv => StepsBounded
  BY PaceBound DEF StepsBounded
<1>2. QED
  BY <1>1, PaceInductive, PTL DEF Spec

\* A recursion limit of at least that size never ends a session.
THEOREM BudgetsEndTheSession == Spec => []EndsByItsBudgets
<1>1. PaceInv => EndsByItsBudgets
  <2> SUFFICES ASSUME PaceInv PROVE EndsByItsBudgets
    OBVIOUS
  <2>1. CutShort /\ ErrorCycleBudget * StepsPerError \in Nat
    BY PaceBound DEF PaceInv
  <2>2. QED
    BY <2>1, BudgetAssumption DEF EndsByItsBudgets, CutShort
<1>2. QED
  BY <1>1, PaceInductive, PTL DEF Spec

-----------------------------------------------------------------------------
(* The ledger of resolved errors is the history of the branch. *)

\* A fix that reached the Tester healed something: the tree shows no failure,
\* or one with another fingerprint than the error at hand.
Validated ==
  pc \in {"immunize", "report_commit"} =>
    /\ current_sandbox_result = "passed" => tree.err = None
    /\ post_fix_signature # None => tree.err = post_fix_signature
    /\ current_sandbox_result = "passed"
         \/ DifferentError(post_fix_signature, current_error_signature)

\* The error being healed, from the second on, is the one the last commit shows.
Chained ==
  resolved_errors # <<>> /\ pc \notin Terminal =>
    /\ pc # "bootstrap"
    /\ current_error_signature # None
    /\ head.err = current_error_signature

LedgerInv == TypeInv /\ LedgerIsTheHistory /\ Validated /\ Chained

LEMMA LedgerInit == ASSUME Init PROVE LedgerInv
<1>1. TypeInv
  BY TypeInit
<1>2. QED
  BY <1>1 DEF Init, LedgerInv, LedgerIsTheHistory, Validated, Chained

\* What a healed error leaves behind is another error.
LEMMA HealedIsGone ==
  ASSUME LedgerInv, pc = "report_commit"
  PROVE  /\ current_error_signature # None => tree.err # current_error_signature
         /\ Residual # None => tree.err = Residual
<1>1. Validated
  BY DEF LedgerInv
<1>2. QED
  BY <1>1 DEF Validated, DifferentError, Matches, Residual

LEMMA ValidatedNext == ASSUME LedgerInv, [Next]_vars PROVE Validated'
<1>0. Validated /\ TypeInv
  BY DEF LedgerInv
<1>1. CASE ValidateRegression
  BY <1>1 DEF ValidateRegression, RouteAfterValidate, Validated
<1>2. CASE ValidateObserved
  <2>1. PICK o \in Observations :
          /\ current_sandbox_result' = o.verdict
          /\ post_fix_signature' =
               IF o.verdict = "passed" THEN None ELSE Fingerprint(o.text)
    BY <1>2 DEF ValidateObserved
  <2>2. UNCHANGED <<tree, current_error_signature>>
    BY <1>2 DEF ValidateObserved, gitVars, errorVars
  <2>3. /\ o.verdict = "passed" => tree.err = None
        /\ o.verdict # "passed" /\ Fingerprint(o.text) # None =>
             tree.err = Fingerprint(o.text)
    BY InputAssumption, SentinelAssumption DEF Observations, Fingerprint
  <2>4. pc' \in {"immunize", "report_commit"} =>
          \/ current_sandbox_result' = "passed"
          \/ DifferentError(post_fix_signature', current_error_signature)
    BY <1>2 DEF ValidateObserved, RouteAfterValidate
  <2>5. QED
    BY <2>1, <2>2, <2>3, <2>4 DEF Validated, DifferentError, Matches
<1>3. CASE Immunize
  <2>1. tree \in Tree
    BY <1>0 DEF TypeInv, TypeOK
  <2>2. PICK session : tree' = [tree EXCEPT !.session = session]
    BY <1>3 DEF Immunize
  <2>3. tree'.err = tree.err
    BY <2>1, <2>2 DEF Tree
  <2>4. pc = "immunize" /\ UNCHANGED <<current_sandbox_result, post_fix_signature,
                                       current_error_signature>>
    BY <1>3 DEF Immunize, Superstep, workVars, errorVars
  <2>5. QED
    BY <1>0, <2>3, <2>4 DEF Validated, DifferentError, Matches
<1>4. CASE UNCHANGED vars
  BY <1>0, <1>4
  DEF vars, workVars, errorVars, gitVars, Validated, DifferentError, Matches
<1>5. CASE ~(ValidateRegression \/ ValidateObserved \/ Immunize \/ UNCHANGED vars)
  <2>1. pc' \notin {"immunize", "report_commit"}
    BY <1>5
    DEF Next, Over, Bootstrap, Fix, ReportCommit, Rollback, PostMortem,
        CorrectorRaises, TesterRaises, CommitRaises, ReporterRaises, OutOfSteps, Raise,
        RouteAfterFix, RouteAfterCommit, RouteAfterRollback
  <2>2. QED
    BY <2>1 DEF Validated
<1>6. QED
  BY <1>1, <1>2, <1>3, <1>4, <1>5

LEMMA LedgerCommit ==
  ASSUME LedgerInv, ReportCommit PROVE (LedgerIsTheHistory /\ Chained)'
<1> DEFINE n == Len(resolved_errors)
           entry == [signature |-> current_error_signature,
                     test      |-> current_regression_test]
<1>0. /\ LedgerIsTheHistory /\ Chained /\ pc = "report_commit"
      /\ git_log \in Seq(Tree) /\ tree \in Tree /\ resolved_errors \in Seq(Resolved)
  BY DEF LedgerInv, TypeInv, TypeOK, ReportCommit, Superstep
<1>1. /\ git_log' = Append(git_log, tree)
      /\ resolved_errors' = Append(resolved_errors, entry)
      /\ entry \in Resolved
  BY DEF ReportCommit, Commit, LedgerInv, TypeInv, TypeOK, Resolved
<1>2. n \in Nat /\ Len(git_log) = n + 1 /\ Len(resolved_errors') = n + 1
      /\ Len(git_log') = n + 2
  BY <1>0, <1>1 DEF LedgerIsTheHistory
<1>3. /\ \A i \in 1..n : resolved_errors'[i] = resolved_errors[i]
      /\ \A i \in 1..(n + 1) : git_log'[i] = git_log[i]
      /\ resolved_errors'[n + 1].signature = current_error_signature
      /\ git_log'[n + 2] = tree
  BY <1>0, <1>1, <1>2
<1>4. current_error_signature # None => git_log'[n + 2].err # current_error_signature
  BY <1>0, <1>3, HealedIsGone
<1>5. n + 1 > 1 => current_error_signature # None
                    /\ git_log'[n + 1].err = current_error_signature
  <2>1. CASE n = 0
    BY <2>1
  <2>2. CASE n > 0
    <3>1. resolved_errors # <<>>
      BY <2>2
    <3>2. current_error_signature # None /\ head.err = current_error_signature
      BY <1>0, <3>1 DEF Chained, Terminal
    <3>3. git_log'[n + 1] = head
      BY <1>2, <1>3 DEF head
    <3>4. QED
      BY <3>2, <3>3
  <2>3. QED
    BY <1>2, <2>1, <2>2
<1>6. LedgerIsTheHistory'
  <2>1. ASSUME NEW i \in 1..(n + 1)
        PROVE  /\ resolved_errors'[i].signature # None =>
                    git_log'[i + 1].err # resolved_errors'[i].signature
               /\ i > 1 => /\ resolved_errors'[i].signature # None
                           /\ git_log'[i].err = resolved_errors'[i].signature
    <3>1. CASE i = n + 1
      BY <1>2, <1>3, <1>4, <1>5, <3>1
    <3>2. CASE i \in 1..n
      <4>1. i + 1 \in 1..(n + 1) /\ i \in 1..(n + 1)
        BY <1>2, <3>2
      <4>2. /\ resolved_errors[i].signature # None =>
                 git_log[i + 1].err # resolved_errors[i].signature
            /\ i > 1 => /\ resolved_errors[i].signature # None
                        /\ git_log[i].err = resolved_errors[i].signature
        BY <1>0, <3>2 DEF LedgerIsTheHistory
      <4>3. QED
        BY <1>3, <3>2, <4>1, <4>2
    <3>3. QED
      BY <1>2, <3>1, <3>2
  <2>2. QED
    BY <1>2, <2>1 DEF LedgerIsTheHistory
<1>7. Chained'
  <2>1. CASE Residual # None /\ error_cycle_index + 1 < ErrorCycleBudget
    <3>1. pc' = "fix" /\ current_error_signature' = Residual
      BY <2>1 DEF ReportCommit, AdvanceChain, RouteAfterCommit
    <3>2. head' = tree
      BY <1>2, <1>3 DEF head
    <3>3. QED
      BY <1>0, <2>1, <3>1, <3>2, HealedIsGone DEF Chained
  <2>2. CASE ~(Residual # None /\ error_cycle_index + 1 < ErrorCycleBudget)
    BY <2>2 DEF ReportCommit, RouteAfterCommit, Chained, Terminal
  <2>3. QED
    BY <2>1, <2>2
<1>8. QED
  BY <1>6, <1>7

LEMMA LedgerNext == ASSUME LedgerInv, [Next]_vars PROVE LedgerInv'
<1>0. LedgerIsTheHistory /\ Chained /\ TypeInv
  BY DEF LedgerInv
<1>1. TypeInv' /\ Validated'
  BY <1>0, TypeNext, ValidatedNext
<1>2. ASSUME UNCHANGED <<git_log, resolved_errors>> PROVE LedgerIsTheHistory'
  BY <1>0, <1>2 DEF LedgerIsTheHistory
<1>3. ASSUME UNCHANGED <<git_log, resolved_errors, current_error_signature>>,
             pc \notin {"bootstrap"} \cup Terminal, pc' # "bootstrap"
      PROVE  Chained'
  BY <1>0, <1>3 DEF Chained, head
<1>4. CASE Bootstrap
  <2>1. UNCHANGED <<git_log, resolved_errors>> /\ pc = "bootstrap"
    BY <1>4 DEF Bootstrap, Superstep
  <2>2. resolved_errors' = <<>>
    BY <1>0, <2>1 DEF Chained, Terminal
  <2>3. QED
    BY <1>1, <1>2, <2>1, <2>2 DEF LedgerInv, Chained
<1>5. CASE ReportCommit
  BY <1>1, <1>5, LedgerCommit DEF LedgerInv
<1>6. CASE Fix \/ ValidateRegression \/ ValidateObserved \/ Immunize
  <2>1. UNCHANGED <<git_log, resolved_errors, current_error_signature>>
    BY <1>6
    DEF Fix, ValidateRegression, ValidateObserved, Immunize, errorVars, histVars, gitVars
  <2>2. pc \notin {"bootstrap"} \cup Terminal /\ pc' # "bootstrap"
    BY <1>6
    DEF Fix, ValidateRegression, ValidateObserved, Immunize, Superstep, Terminal,
        RouteAfterFix, RouteAfterValidate
  <2>3. QED
    BY <1>1, <1>2, <1>3, <2>1, <2>2 DEF LedgerInv
<1>7. CASE Rollback
  <2>1. UNCHANGED <<git_log, resolved_errors, current_error_signature>>
    BY <1>7 DEF Rollback
  <2>2. pc \notin {"bootstrap"} \cup Terminal /\ pc' # "bootstrap"
    BY <1>7 DEF Rollback, Superstep, Terminal, RouteAfterRollback
  <2>3. QED
    BY <1>1, <1>2, <1>3, <2>1, <2>2 DEF LedgerInv
<1>8. CASE PostMortem \/ CorrectorRaises \/ TesterRaises \/ CommitRaises \/ ReporterRaises \/ OutOfSteps
  <2>1. UNCHANGED <<git_log, resolved_errors>> /\ pc' \in Terminal
    BY <1>8
    DEF PostMortem, CorrectorRaises, TesterRaises, CommitRaises, ReporterRaises, OutOfSteps, Raise,
        histVars, gitVars, Terminal
  <2>2. QED
    BY <1>1, <1>2, <2>1 DEF LedgerInv, Chained
<1>9. CASE UNCHANGED vars
  <2>1. UNCHANGED <<git_log, resolved_errors, current_error_signature, pc>>
    BY <1>9 DEF vars, errorVars, histVars, gitVars
  <2>2. Chained'
    BY <1>0, <2>1 DEF Chained, head
  <2>3. QED
    BY <1>1, <1>2, <2>1, <2>2 DEF LedgerInv
<1>10. QED
  BY <1>4, <1>5, <1>6, <1>7, <1>8, <1>9 DEF Next, Over

\* Every commit heals the error its ledger entry names, and from the second on
\* that error is the one the commit before it left.
THEOREM LedgerTellsTheHistory == Spec => []LedgerIsTheHistory
<1>1. Init => LedgerInv
  BY LedgerInit
<1>2. LedgerInv /\ [Next]_vars => LedgerInv'
  BY LedgerNext
<1>3. LedgerInv => LedgerIsTheHistory
  BY DEF LedgerInv
<1>4. QED
  BY <1>1, <1>2, <1>3, PTL DEF Spec

-----------------------------------------------------------------------------
(* The session implements its contract, fairness apart. *)

\* What the refinement mapping reads: the ledger counts the errors of the
\* budget, and a post-mortem ends the session after all the retries.
Counted ==
  /\ pc \notin Terminal => Len(resolved_errors) = error_cycle_index /\ ~post_mortem_path
  /\ pc = "aborted" => ~post_mortem_path
  /\ pc = "post_mortem" => attempt_count = MaxRetries
  /\ pc = "bootstrap" => attempt_count = 0 /\ error_cycle_index = 0

ContractInv == PaceInv /\ LedgerInv /\ Counted

LEMMA CountedNext == ASSUME ContractInv, [Next]_vars PROVE Counted'
<1> USE DEF Counted, Terminal
<1>0. /\ Counted /\ Pace /\ resolved_errors \in Seq(Resolved)
      /\ error_cycle_index \in Nat /\ attempt_count \in Nat
  BY DEF ContractInv, PaceInv, TypeInv, TypeOK
<1>1. CASE Bootstrap
  BY <1>0, <1>1 DEF Bootstrap, Superstep
<1>2. CASE Fix \/ ValidateRegression \/ ValidateObserved \/ Immunize
  <2>1. UNCHANGED <<resolved_errors, error_cycle_index, post_mortem_path>>
    BY <1>2
    DEF Fix, ValidateRegression, ValidateObserved, Immunize, loopVars, histVars
  <2>2. /\ pc \in {"fix", "validate", "immunize"}
        /\ pc' \in {"validate", "rollback", "immunize", "report_commit"}
    BY <1>2
    DEF Fix, ValidateRegression, ValidateObserved, Immunize, Superstep, RouteAfterFix,
        RouteAfterValidate
  <2>3. QED
    BY <1>0, <2>1, <2>2
<1>3. CASE ReportCommit
  <2>1. pc = "report_commit" /\ UNCHANGED post_mortem_path
    BY <1>3 DEF ReportCommit, Superstep
  <2>2. Len(resolved_errors') = Len(resolved_errors) + 1
    BY <1>0, <1>3 DEF ReportCommit
  <2>3. CASE Residual # None /\ error_cycle_index + 1 < ErrorCycleBudget
    <3>1. pc' = "fix" /\ error_cycle_index' = error_cycle_index + 1
      BY <1>3, <2>3 DEF ReportCommit, AdvanceChain, RouteAfterCommit
    <3>2. QED
      BY <1>0, <2>1, <2>2, <3>1
  <2>4. CASE ~(Residual # None /\ error_cycle_index + 1 < ErrorCycleBudget)
    BY <1>3, <2>4 DEF ReportCommit, RouteAfterCommit
  <2>5. QED
    BY <2>3, <2>4
<1>4. CASE Rollback
  <2>1. /\ pc = "rollback" /\ attempt_count' = attempt_count + 1
        /\ UNCHANGED <<resolved_errors, error_cycle_index, post_mortem_path>>
    BY <1>4 DEF Rollback, Superstep
  <2>2. pc' = IF attempt_count' < MaxRetries THEN "fix" ELSE "post_mortem"
    BY <1>4 DEF Rollback, RouteAfterRollback
  <2>3. attempt_count < MaxRetries
    BY <1>0, <2>1 DEF Pace, Nodes
  <2>4. QED
    BY <1>0, <2>1, <2>2, <2>3, BudgetAssumption
<1>5. CASE PostMortem
  BY <1>5 DEF PostMortem
<1>6. CASE CorrectorRaises \/ TesterRaises \/ CommitRaises \/ ReporterRaises \/ OutOfSteps
  <2>1. pc \in Nodes /\ pc' = "aborted" /\ UNCHANGED post_mortem_path
    BY <1>6
    DEF CorrectorRaises, TesterRaises, CommitRaises, ReporterRaises, OutOfSteps, Raise, histVars, Nodes
  <2>2. QED
    BY <1>0, <2>1 DEF Nodes
<1>7. CASE UNCHANGED vars
  BY <1>0, <1>7 DEF vars, loopVars, histVars
<1>8. QED
  BY <1>1, <1>2, <1>3, <1>4, <1>5, <1>6, <1>7 DEF Next, Over

LEMMA ContractInductive ==
  /\ Init => ContractInv
  /\ ContractInv /\ [Next]_vars => ContractInv'
<1>1. ASSUME Init PROVE Counted
  BY <1>1 DEF Init, Counted, Terminal
<1>2. QED
  BY <1>1, PaceInductive, LedgerInit, LedgerNext, CountedNext DEF ContractInv

\* While a node is still to run the session is healing.
LEMMA StatusHealing ==
  ASSUME pc \in Nodes PROVE Status = "healing"
BY DEF Status, Nodes

\* A commit heals an error other than the one healed before it.
LEMMA HealsAnother ==
  ASSUME ContractInv, pc = "report_commit", HealedErrors # <<>>
  PROVE  current_error_signature \notin {None, HealedErrors[Len(HealedErrors)]}
<1> DEFINE n == Len(resolved_errors)
<1>1. /\ resolved_errors \in Seq(Resolved) /\ n \in Nat
      /\ LedgerIsTheHistory /\ Chained
  BY DEF ContractInv, LedgerInv, TypeInv, TypeOK
<1>2. Len(HealedErrors) = n /\ n > 0 /\ resolved_errors # <<>>
  BY <1>1 DEF HealedErrors
<1>3. HealedErrors[n] = resolved_errors[n].signature
  BY <1>1, <1>2 DEF HealedErrors
<1>4. current_error_signature # None /\ head.err = current_error_signature
  BY <1>1, <1>2 DEF Chained, Terminal
<1>5. head = git_log[n + 1]
  BY <1>1 DEF LedgerIsTheHistory, head
<1>6. resolved_errors[n].signature # None =>
        git_log[n + 1].err # resolved_errors[n].signature
  BY <1>1, <1>2 DEF LedgerIsTheHistory
<1>7. QED
  BY <1>2, <1>3, <1>4, <1>5, <1>6

\* The commit of a healed error is the contract's Heal.
LEMMA CommitHeals ==
  ASSUME ContractInv, ReportCommit PROVE Contract!Heal
<1>1. /\ pc = "report_commit" /\ Counted /\ Pace /\ ~post_mortem_path
      /\ resolved_errors \in Seq(Resolved)
      /\ attempt_count < MaxRetries /\ error_cycle_index < ErrorCycleBudget
      /\ Len(resolved_errors) = error_cycle_index
      /\ error_cycle_index \in Nat
      /\ current_error_signature \in Errors \cup {None}
  BY DEF ReportCommit, Superstep, ContractInv, PaceInv, Pace, Counted, TypeInv, TypeOK,
         Nodes, Terminal
<1>2. Status = "healing"
  BY <1>1, StatusHealing DEF Nodes
<1>3. resolved_errors' = Append(resolved_errors,
        [signature |-> current_error_signature, test |-> current_regression_test])
  BY DEF ReportCommit
<1>4. /\ HealedErrors' = Append(HealedErrors, current_error_signature)
      /\ Len(HealedErrors) = error_cycle_index
      /\ Len(HealedErrors') = error_cycle_index + 1
  BY <1>1, <1>3 DEF HealedErrors
<1>5. HealedErrors # <<>> =>
        current_error_signature \notin {None, HealedErrors[Len(HealedErrors)]}
  BY <1>1, HealsAnother
<1>6. \/ Status' = "resolved" /\ UNCHANGED attempt_count
      \/ /\ Len(HealedErrors') < ErrorCycleBudget
         /\ attempt_count' = 0 /\ UNCHANGED Status
  <2>1. CASE Residual # None /\ error_cycle_index + 1 < ErrorCycleBudget
    <3>1. pc' = "fix" /\ attempt_count' = 0
      BY <2>1
      DEF ReportCommit, AdvanceChain, AttemptsAtNextError, RouteAfterCommit
    <3>2. Status' = "healing"
      BY <3>1 DEF Status
    <3>3. QED
      BY <1>2, <1>4, <2>1, <3>1, <3>2
  <2>2. CASE ~(Residual # None /\ error_cycle_index + 1 < ErrorCycleBudget)
    <3>1. pc' = "end" /\ ~post_mortem_path' /\ UNCHANGED attempt_count
      BY <1>1, <2>2 DEF ReportCommit, RouteAfterCommit
    <3>2. Status' = "resolved"
      BY <3>1 DEF Status
    <3>3. QED
      BY <3>1, <3>2
  <2>3. QED
    BY <2>1, <2>2
<1>7. QED
  BY <1>1, <1>2, <1>4, <1>5, <1>6 DEF Contract!Heal

\* Every step of the session is a step of the contract or none.
LEMMA StepKeepsContract ==
  ASSUME ContractInv, [Next]_vars PROVE [Contract!Next]_(Contract!vars)
<1> USE DEF Contract!Next, Contract!vars
<1>0. /\ Counted /\ Pace /\ attempt_count \in Nat
      /\ resolved_errors \in Seq(Resolved) /\ post_mortem_path \in BOOLEAN
  BY DEF ContractInv, PaceInv, TypeInv, TypeOK
<1>1. CASE Bootstrap \/ Fix \/ ValidateRegression \/ ValidateObserved \/ Immunize
  <2>1. /\ pc \in {"bootstrap", "fix", "validate", "immunize"}
        /\ pc' \in {"fix", "validate", "rollback", "immunize", "report_commit"}
    BY <1>1
    DEF Bootstrap, Fix, ValidateRegression, ValidateObserved, Immunize, Superstep,
        RouteAfterFix, RouteAfterValidate
  <2>2. UNCHANGED resolved_errors /\ UNCHANGED attempt_count
    <3>1. CASE Bootstrap
      BY <1>0, <3>1 DEF Bootstrap, Superstep, Counted
    <3>2. CASE Fix \/ ValidateRegression \/ ValidateObserved \/ Immunize
      BY <3>2
      DEF Fix, ValidateRegression, ValidateObserved, Immunize, loopVars, histVars
    <3>3. QED
      BY <1>1, <3>1, <3>2
  <2>3. Status = "healing" /\ Status' = "healing"
    BY <2>1 DEF Status
  <2>4. QED
    BY <2>2, <2>3 DEF HealedErrors
<1>2. CASE ReportCommit
  BY <1>2, CommitHeals
<1>3. CASE Rollback
  <2>1. /\ pc = "rollback" /\ pc' \in {"fix", "post_mortem"}
        /\ attempt_count' = attempt_count + 1 /\ UNCHANGED resolved_errors
    BY <1>3 DEF Rollback, Superstep, RouteAfterRollback
  <2>2. attempt_count < MaxRetries
    BY <1>0, <2>1 DEF Pace, Nodes
  <2>3. Status = "healing" /\ Status' = "healing"
    BY <2>1 DEF Status
  <2>4. QED
    BY <2>1, <2>2, <2>3 DEF HealedErrors, Contract!FailAttempt
<1>4. CASE PostMortem
  <2>1. /\ pc = "post_mortem" /\ pc' = "end" /\ post_mortem_path'
        /\ UNCHANGED <<attempt_count, resolved_errors>>
    BY <1>4 DEF PostMortem, Superstep, loopVars
  <2>2. attempt_count = MaxRetries
    BY <1>0, <2>1 DEF Counted
  <2>3. Status = "healing" /\ Status' = "post_mortem"
    BY <2>1 DEF Status
  <2>4. QED
    BY <2>1, <2>2, <2>3 DEF HealedErrors, Contract!GiveUp
<1>5. CASE CorrectorRaises \/ TesterRaises \/ CommitRaises \/ ReporterRaises \/ OutOfSteps
  <2>1. /\ pc \in Nodes /\ pc' = "aborted"
        /\ UNCHANGED <<attempt_count, resolved_errors>>
    BY <1>5
    DEF CorrectorRaises, TesterRaises, CommitRaises, ReporterRaises, OutOfSteps, Raise, loopVars,
        histVars, Nodes
  <2>2. Status = "healing" /\ Status' = "aborted"
    BY <2>1, StatusHealing DEF Status
  <2>3. QED
    BY <2>1, <2>2 DEF HealedErrors, Contract!Abandon
<1>6. CASE UNCHANGED vars
  BY <1>6 DEF vars, loopVars, histVars, Status, HealedErrors
<1>7. QED
  BY <1>1, <1>2, <1>3, <1>4, <1>5, <1>6 DEF Next, Over

\* The session implements its contract: it heals within both budgets, never
\* two equal errors in a row, and gives up only with the retries used up.
THEOREM ImplementsContract == Spec => Contract!Init /\ [][Contract!Next]_(Contract!vars)
<1>1. Init => Contract!Init
  BY BudgetAssumption DEF Init, Contract!Init, Status, HealedErrors
<1>2. Init => ContractInv
  BY ContractInductive
<1>3. ContractInv /\ [Next]_vars => ContractInv'
  BY ContractInductive
<1>4. ContractInv /\ [Next]_vars => [Contract!Next]_(Contract!vars)
  BY StepKeepsContract
<1>5. QED
  BY <1>1, <1>2, <1>3, <1>4, PTL DEF Spec

-----------------------------------------------------------------------------
(* The attempts.  Each invariant below rests on ContractInv. *)

\* The inductive invariants below hold together with ContractInv.
LEMMA Base ==
  ASSUME ContractInv
  PROVE  /\ TypeOK /\ PostFixAgrees /\ Pace /\ Counted /\ Validated
         /\ LedgerIsTheHistory
BY DEF ContractInv, PaceInv, LedgerInv, TypeInv

\* An exception or the recursion limit ends the session and leaves the rest,
\* but for what the Corrector had edited.
LEMMA RaisingSteps ==
  ASSUME CorrectorRaises \/ TesterRaises \/ CommitRaises \/ ReporterRaises \/ OutOfSteps
  PROVE  /\ pc \in Nodes /\ pc' = "aborted"
         /\ UNCHANGED <<envVars, errorVars, workVars, testVars, loopVars, histVars, git_log>>
BY DEF CorrectorRaises, TesterRaises, CommitRaises, ReporterRaises, OutOfSteps, Raise, Nodes

-----------------------------------------------------------------------------
(* A session that ends resolved. *)

ResolvedInv == ContractInv /\ ResolvedIsGreenOrBudgetSpent

LEMMA ResolvedNext ==
  ASSUME ResolvedInv, [Next]_vars PROVE ResolvedIsGreenOrBudgetSpent'
<1> USE DEF ResolvedIsGreenOrBudgetSpent
<1>0. /\ TypeOK /\ Pace /\ Counted /\ Validated /\ ResolvedIsGreenOrBudgetSpent
      /\ ContractInv
  BY Base DEF ResolvedInv
<1>1. CASE ReportCommit
  <2>1. /\ pc = "report_commit" /\ git_log' = Append(git_log, tree)
        /\ Len(resolved_errors') = Len(resolved_errors) + 1
        /\ git_log \in Seq(Tree) /\ tree \in Tree
        /\ Len(resolved_errors) = error_cycle_index
        /\ error_cycle_index \in Nat /\ error_cycle_index < ErrorCycleBudget
    BY <1>0, <1>1 DEF ReportCommit, Superstep, Commit, TypeOK, Counted, Pace, Terminal
  <2>2. head' = tree
    BY <2>1 DEF head
  <2>3. CASE Residual # None /\ error_cycle_index + 1 < ErrorCycleBudget
    BY <1>1, <2>3 DEF ReportCommit, AdvanceChain, RouteAfterCommit
  <2>4. CASE Residual # None /\ ~(error_cycle_index + 1 < ErrorCycleBudget)
    <3>1. Len(resolved_errors') = ErrorCycleBudget
      BY <2>1, <2>4, BudgetAssumption
    <3>2. QED
      BY <3>1
  <2>5. CASE Residual = None
    <3>1. current_sandbox_result = "passed"
      BY <1>0, <2>1, <2>5 DEF Validated, Residual, DifferentError
    <3>2. QED
      BY <1>0, <2>1, <2>2, <3>1 DEF Validated
  <2>6. QED
    BY <2>3, <2>4, <2>5
<1>2. CASE PostMortem
  BY <1>2 DEF PostMortem
<1>3. CASE UNCHANGED vars
  BY <1>0, <1>3 DEF vars, histVars, gitVars, head
<1>4. CASE ~(ReportCommit \/ PostMortem \/ UNCHANGED vars)
  <2>1. pc' # "end"
    BY <1>4
    DEF Next, Over, Bootstrap, Fix, ValidateRegression, ValidateObserved, Immunize, Rollback,
        CorrectorRaises, TesterRaises, CommitRaises, ReporterRaises, OutOfSteps, Raise,
        RouteAfterFix, RouteAfterValidate, RouteAfterRollback
  <2>2. QED
    BY <2>1
<1>5. QED
  BY <1>1, <1>2, <1>3, <1>4

\* A session that ends resolved leaves a green branch, or its last commit spent
\* the error-cycle budget.
THEOREM ResolvedIsGreen == Spec => []ResolvedIsGreenOrBudgetSpent
<1>1. Init => ResolvedInv
  BY ContractInductive DEF ResolvedInv, ResolvedIsGreenOrBudgetSpent, Init
<1>2. ResolvedInv /\ [Next]_vars => ResolvedInv'
  BY ContractInductive, ResolvedNext DEF ResolvedInv
<1>3. ResolvedInv => ResolvedIsGreenOrBudgetSpent
  BY DEF ResolvedInv
<1>4. QED
  BY <1>1, <1>2, <1>3, PTL DEF Spec

-----------------------------------------------------------------------------
(* The failure output the Corrector is shown. *)

\* The output at hand is of the error at hand from the bootstrap on; the output
\* of a fix is kept for the next attempt only if the fix did not change the
\* error, and no output of an earlier fix is left when a new one starts.
Feedback ==
  /\ pc \in {"bootstrap", "fix"} => post_fix_output = None
  /\ pc \in Nodes \ {"bootstrap"} =>
       Fingerprint(current_failure_output) \in {current_error_signature, None}
  /\ pc = "rollback" => Fingerprint(post_fix_output) \in {current_error_signature, None}

FeedbackInv == ContractInv /\ Feedback

LEMMA FeedbackNext == ASSUME FeedbackInv, [Next]_vars PROVE Feedback'
<1> USE DEF Feedback, Nodes
<1>0. TypeOK /\ PostFixAgrees /\ Feedback /\ ContractInv
  BY Base DEF FeedbackInv
<1>1. Fingerprint(None) = None
  BY SentinelAssumption DEF Fingerprint
<1>2. CASE Bootstrap
  BY <1>0, <1>2 DEF Bootstrap, Superstep, workVars, Fingerprint
<1>3. CASE Fix
  BY <1>0, <1>1, <1>3 DEF Fix, Superstep, errorVars, RouteAfterFix, Fingerprint
<1>4. CASE ValidateRegression
  BY <1>0, <1>1, <1>4
  DEF ValidateRegression, Superstep, errorVars, RouteAfterValidate, Fingerprint
<1>5. CASE ValidateObserved
  <2>1. PICK o \in Observations :
          /\ current_sandbox_result' = o.verdict
          /\ post_fix_signature' =
               IF o.verdict = "passed" THEN None ELSE Fingerprint(o.text)
          /\ post_fix_output' = o.text
    BY <1>5 DEF ValidateObserved
  <2>2. /\ pc = "validate" /\ UNCHANGED <<current_error_signature, current_failure_output>>
        /\ pc' = RouteAfterValidate(FALSE, current_sandbox_result', post_fix_signature',
                                    current_error_signature)
    BY <1>5 DEF ValidateObserved, Superstep, errorVars
  <2>3. pc' = "rollback" => Fingerprint(o.text) \in {current_error_signature, None}
    BY <2>1, <2>2 DEF RouteAfterValidate, DifferentError, Matches
  <2>4. pc' \in {"immunize", "rollback"}
    BY <2>2 DEF RouteAfterValidate
  <2>5. QED
    BY <1>0, <2>1, <2>2, <2>3, <2>4 DEF Fingerprint
<1>6. CASE Immunize
  BY <1>0, <1>6 DEF Immunize, Superstep, errorVars, Fingerprint
<1>7. CASE ReportCommit
  <2>1. CASE Residual # None /\ error_cycle_index + 1 < ErrorCycleBudget
    <3>1. /\ pc' = "fix" /\ current_error_signature' = Residual
          /\ current_failure_output' = post_fix_output /\ post_fix_output' = None
      BY <1>7, <2>1
      DEF ReportCommit, AdvanceChain, RouteAfterCommit, OutputOfNextError
    <3>2. Residual = post_fix_signature /\ post_fix_output = post_fix_signature
      BY <1>0, <2>1 DEF Residual, PostFixAgrees
    <3>3. QED
      BY <3>1, <3>2 DEF Fingerprint
  <2>2. CASE ~(Residual # None /\ error_cycle_index + 1 < ErrorCycleBudget)
    BY <1>7, <2>2 DEF ReportCommit, RouteAfterCommit
  <2>3. QED
    BY <2>1, <2>2
<1>8. CASE Rollback
  <2>1. /\ pc = "rollback" /\ pc' \in {"fix", "post_mortem"}
        /\ current_failure_output' =
             IF post_fix_output # None THEN post_fix_output ELSE current_failure_output
        /\ post_fix_output' = None /\ UNCHANGED current_error_signature
    BY <1>8 DEF Rollback, Superstep, RouteAfterRollback
  <2>2. QED
    BY <1>0, <2>1 DEF Fingerprint
<1>9. CASE PostMortem
  BY <1>9 DEF PostMortem
<1>10. CASE CorrectorRaises \/ TesterRaises \/ CommitRaises \/ ReporterRaises \/ OutOfSteps
  BY <1>10, RaisingSteps
<1>11. CASE UNCHANGED vars
  BY <1>0, <1>11 DEF vars, errorVars, workVars, Fingerprint
<1>12. QED
  BY <1>2, <1>3, <1>4, <1>5, <1>6, <1>7, <1>8, <1>9, <1>10, <1>11 DEF Next, Over

\* The Corrector is never shown the output of an error already left behind.
THEOREM FeedbackIsCurrent == Spec => []FeedbackIsOfTheCurrentError
<1>1. Init => FeedbackInv
  BY ContractInductive DEF FeedbackInv, Feedback, Init, Nodes
<1>2. FeedbackInv /\ [Next]_vars => FeedbackInv'
  BY ContractInductive, FeedbackNext DEF FeedbackInv
<1>3. FeedbackInv => FeedbackIsOfTheCurrentError
  BY DEF FeedbackInv, Feedback, FeedbackIsOfTheCurrentError, Nodes
<1>4. QED
  BY <1>1, <1>2, <1>3, PTL DEF Spec

-----------------------------------------------------------------------------
(* The failed attempts, of this error and of earlier ones. *)

\* The failed attempts before those of the error at hand.
Earlier == Len(failed_attempts) - attempt_count

\* The attempts of the error at hand are the last attempt_count, numbered from
\* 0; the ones before them are of earlier errors.
CycleTracked ==
  /\ attempt_count <= Len(failed_attempts)
  /\ \A i \in 1..Len(failed_attempts) :
       /\ failed_attempts[i].cycle_index <= error_cycle_index
       /\ failed_attempts[i].cycle_index = error_cycle_index <=> i > Earlier
       /\ i > Earlier => failed_attempts[i].attempt_index = i - Earlier - 1

CycleInv == ContractInv /\ CycleTracked

LEMMA CycleInit == ASSUME Init PROVE CycleTracked
BY DEF Init, CycleTracked, Earlier

\* A step of neither rollback nor chain leaves the attempts as they are.
LEMMA CycleKept ==
  ASSUME CycleTracked, UNCHANGED <<failed_attempts, attempt_count, error_cycle_index>>
  PROVE  CycleTracked'
BY DEF CycleTracked, Earlier

LEMMA CycleRollback ==
  ASSUME ContractInv, CycleTracked, Rollback PROVE CycleTracked'
<1> DEFINE n == Len(failed_attempts)
           last == [attempt_index |-> attempt_count, cycle_index |-> error_cycle_index,
                    error_summary |-> FailureSummary]
<1>1. /\ failed_attempts \in Seq(Attempt) /\ n \in Nat
      /\ attempt_count \in Nat /\ error_cycle_index \in Nat
  BY Base DEF TypeOK
<1>2. /\ failed_attempts' = Append(failed_attempts, last)
      /\ attempt_count' = attempt_count + 1 /\ UNCHANGED error_cycle_index
  BY DEF Rollback
<1>3. /\ Len(failed_attempts') = n + 1 /\ Earlier' = Earlier /\ Earlier \in Int
      /\ failed_attempts'[n + 1] = last
      /\ \A i \in 1..n : failed_attempts'[i] = failed_attempts[i]
      /\ Earlier = n - attempt_count
  BY <1>1, <1>2 DEF Earlier
<1>4. ASSUME NEW i \in 1..(n + 1)
      PROVE  /\ failed_attempts'[i].cycle_index <= error_cycle_index
             /\ failed_attempts'[i].cycle_index = error_cycle_index <=> i > Earlier
             /\ i > Earlier => failed_attempts'[i].attempt_index = i - Earlier - 1
  <2>1. CASE i \in 1..n
    BY <1>3, <2>1 DEF CycleTracked
  <2>2. CASE i = n + 1
    <3>1. last.cycle_index = error_cycle_index /\ last.attempt_index = attempt_count
      OBVIOUS
    <3>2. i > Earlier /\ attempt_count = i - Earlier - 1
      BY <1>1, <1>3, <2>2 DEF CycleTracked
    <3> HIDE DEF last
    <3>3. QED
      BY <1>1, <1>3, <2>2, <3>1, <3>2
  <2>3. QED
    BY <1>1, <2>1, <2>2
<1>5. attempt_count' <= Len(failed_attempts')
  BY <1>1, <1>2, <1>3 DEF CycleTracked
<1> HIDE DEF last
<1>6. QED
  BY <1>2, <1>3, <1>4, <1>5 DEF CycleTracked

\* When the chain advances, all attempts are of earlier errors.
LEMMA CycleAdvance ==
  ASSUME ContractInv, CycleTracked, AdvanceChain, UNCHANGED failed_attempts
  PROVE  CycleTracked'
<1>1. /\ failed_attempts \in Seq(Attempt) /\ error_cycle_index \in Nat
      /\ \A i \in 1..Len(failed_attempts) : failed_attempts[i].cycle_index \in Nat
  <2>1. failed_attempts \in Seq(Attempt) /\ error_cycle_index \in Nat
    BY Base DEF TypeOK
  <2>2. \A a \in Attempt : a.cycle_index \in Nat
    BY DEF Attempt
  <2>3. \A i \in 1..Len(failed_attempts) : failed_attempts[i] \in Attempt
    BY <2>1
  <2>4. QED
    BY <2>1, <2>2, <2>3
<1>2. attempt_count' = 0 /\ error_cycle_index' = error_cycle_index + 1
  BY DEF AdvanceChain, AttemptsAtNextError
<1>3. Earlier' = Len(failed_attempts)
  BY <1>1, <1>2 DEF Earlier
<1>4. QED
  BY <1>1, <1>2, <1>3 DEF CycleTracked

LEMMA CycleNext == ASSUME CycleInv, [Next]_vars PROVE CycleTracked'
<1>0. CycleTracked /\ Counted /\ ContractInv
  BY Base DEF CycleInv
<1>1. CASE Bootstrap
  <2>1. pc = "bootstrap" /\ attempt_count' = 0 /\ error_cycle_index' = 0
    BY <1>1 DEF Bootstrap, Superstep
  <2>2. attempt_count = 0 /\ error_cycle_index = 0
    BY <1>0, <2>1 DEF Counted
  <2>3. UNCHANGED failed_attempts
    BY <1>1 DEF Bootstrap
  <2>4. QED
    BY <1>0, <2>1, <2>2, <2>3, CycleKept
<1>2. CASE ReportCommit
  <2>1. UNCHANGED failed_attempts
    BY <1>2 DEF ReportCommit
  <2>2. CASE Residual # None /\ error_cycle_index + 1 < ErrorCycleBudget
    BY <1>0, <1>2, <2>1, <2>2, CycleAdvance DEF ReportCommit
  <2>3. CASE ~(Residual # None /\ error_cycle_index + 1 < ErrorCycleBudget)
    BY <1>0, <1>2, <2>1, <2>3, CycleKept DEF ReportCommit
  <2>4. QED
    BY <2>2, <2>3
<1>3. CASE Rollback
  BY <1>0, <1>3, CycleRollback
<1>4. CASE ~(Bootstrap \/ ReportCommit \/ Rollback)
  <2>1. UNCHANGED <<failed_attempts, attempt_count, error_cycle_index>>
    BY <1>4, RaisingSteps
    DEF Next, Over, Fix, ValidateRegression, ValidateObserved, Immunize, PostMortem,
        loopVars, histVars, vars
  <2>2. QED
    BY <1>0, <2>1, CycleKept
<1>5. QED
  BY <1>1, <1>2, <1>3, <1>4

LEMMA CycleInductive ==
  /\ Init => CycleInv
  /\ CycleInv /\ [Next]_vars => CycleInv'
BY ContractInductive, CycleInit, CycleNext DEF CycleInv

LEMMA CurrentCycleIsTheTail ==
  ASSUME CycleInv
  PROVE  /\ Earlier \in Nat /\ Earlier = Len(failed_attempts) - attempt_count
         /\ CurrentCycle = (Earlier + 1)..Len(failed_attempts)
<1>1. /\ failed_attempts \in Seq(Attempt) /\ attempt_count \in Nat /\ CycleTracked
  BY Base DEF CycleInv, TypeOK
<1>2. Earlier \in Nat /\ Earlier = Len(failed_attempts) - attempt_count
  BY <1>1 DEF CycleTracked, Earlier
<1>3. ASSUME NEW i
      PROVE  i \in CurrentCycle <=> i \in (Earlier + 1)..Len(failed_attempts)
  <2>1. i \in CurrentCycle <=> i \in 1..Len(failed_attempts) /\ i > Earlier
    BY <1>1 DEF CurrentCycle, CycleTracked
  <2>2. QED
    BY <1>1, <1>2, <2>1
<1>4. QED
  BY <1>2, <1>3

\* The Corrector is shown the failed attempts of the error it is healing: all
\* of them, in their order, and of no other error.
THEOREM CorrectorSeesItsAttempts == Spec => []CorrectorSeesItsCycle
<1>1. CycleInv => CorrectorSeesItsCycle
  <2> SUFFICES ASSUME CycleInv PROVE CorrectorSeesItsCycle
    OBVIOUS
  <2>1. /\ Earlier \in Nat /\ Earlier = Len(failed_attempts) - attempt_count
        /\ CurrentCycle = (Earlier + 1)..Len(failed_attempts)
    BY CurrentCycleIsTheTail
  <2>2. ASSUME NEW i \in CurrentCycle
        PROVE  failed_attempts[i].attempt_index = i - Earlier - 1
    BY <2>1, <2>2 DEF CycleInv, CycleTracked, CurrentCycle
  <2>3. QED
    BY <2>1, <2>2 DEF CorrectorSeesItsCycle
<1>2. QED
  BY <1>1, CycleInductive, PTL DEF Spec

-----------------------------------------------------------------------------
(* What a post-mortem stands for. *)

\* A rollback has a reason: no patch, a failed gate, a failed sandbox run.
RollbackHasReason ==
  pc = "rollback" =>
    \/ current_patch = None \/ regression_detected
    \/ current_sandbox_result \notin {None, "passed"}

\* So has every attempt on record.
AttemptsHaveReasons ==
  \A i \in 1..Len(failed_attempts) : failed_attempts[i].error_summary # "unknown"

\* A post-mortem ends the session with all retries used.
EndedByPostMortem ==
  /\ post_mortem_path => pc = "end" /\ attempt_count = MaxRetries /\ ~is_resolved
  /\ abort_cause # None => pc = "aborted"

PostMortemInv == CycleInv /\ RollbackHasReason /\ AttemptsHaveReasons /\ EndedByPostMortem

LEMMA RollbackHasReasonNext ==
  ASSUME PostMortemInv, [Next]_vars PROVE RollbackHasReason'
<1> USE DEF RollbackHasReason
<1>1. CASE Fix
  BY <1>1 DEF Fix, RouteAfterFix
<1>2. CASE ValidateRegression
  BY <1>2 DEF ValidateRegression
<1>3. CASE ValidateObserved
  <2>1. PICK o \in Observations : current_sandbox_result' = o.verdict
    BY <1>3 DEF ValidateObserved
  <2>2. o.verdict # None
    BY InputAssumption, SentinelAssumption DEF Observations
  <2>3. pc' = "rollback" => current_sandbox_result' # "passed"
    BY <1>3 DEF ValidateObserved, RouteAfterValidate
  <2>4. QED
    BY <2>1, <2>2, <2>3
<1>4. CASE UNCHANGED vars
  BY <1>4 DEF vars, workVars, PostMortemInv
<1>5. CASE ~(Fix \/ ValidateRegression \/ ValidateObserved \/ UNCHANGED vars)
  <2>1. pc' # "rollback"
    BY <1>5
    DEF Next, Over, Bootstrap, Immunize, ReportCommit, Rollback, PostMortem, CorrectorRaises,
        TesterRaises, CommitRaises, ReporterRaises, OutOfSteps, Raise, RouteAfterCommit,
        RouteAfterRollback
  <2>2. QED
    BY <2>1
<1>6. QED
  BY <1>1, <1>2, <1>3, <1>4, <1>5

LEMMA AttemptsHaveReasonsNext ==
  ASSUME PostMortemInv, [Next]_vars PROVE AttemptsHaveReasons'
<1> USE DEF AttemptsHaveReasons
<1>0. /\ AttemptsHaveReasons /\ RollbackHasReason /\ failed_attempts \in Seq(Attempt)
  BY Base DEF PostMortemInv, CycleInv, TypeOK
<1>1. CASE Rollback
  <2>1. PICK last : /\ failed_attempts' = Append(failed_attempts, last)
                    /\ last.error_summary = FailureSummary
    BY <1>1 DEF Rollback
  <2>2. FailureSummary # "unknown"
    BY <1>0, <1>1 DEF Rollback, Superstep, RollbackHasReason, FailureSummary
  <2>3. QED
    BY <1>0, <2>1, <2>2
<1>2. CASE ~Rollback
  <2>1. UNCHANGED failed_attempts
    BY <1>2, RaisingSteps
    DEF Next, Over, Bootstrap, Fix, ValidateRegression, ValidateObserved, Immunize,
        ReportCommit, PostMortem, histVars, vars
  <2>2. QED
    BY <1>0, <2>1
<1>3. QED
  BY <1>1, <1>2

LEMMA EndedByPostMortemNext ==
  ASSUME PostMortemInv, [Next]_vars PROVE EndedByPostMortem'
<1> USE DEF EndedByPostMortem
<1>0. EndedByPostMortem /\ Counted
  BY Base DEF PostMortemInv, CycleInv
<1>1. CASE PostMortem
  <2>1. attempt_count = MaxRetries
    BY <1>0, <1>1 DEF PostMortem, Superstep, Counted
  <2>2. QED
    BY <1>0, <1>1, <2>1 DEF PostMortem, Superstep, loopVars
<1>2. CASE CorrectorRaises \/ TesterRaises \/ CommitRaises \/ ReporterRaises \/ OutOfSteps
  BY <1>0, <1>2, RaisingSteps DEF histVars, Nodes
<1>3. CASE UNCHANGED vars
  BY <1>0, <1>3 DEF vars, loopVars, histVars
<1>4. CASE Bootstrap \/ Fix \/ ValidateRegression \/ ValidateObserved \/ Immunize
           \/ ReportCommit \/ Rollback
  <2>1. pc \in Nodes /\ UNCHANGED <<abort_cause, post_mortem_path>>
    BY <1>4
    DEF Bootstrap, Fix, ValidateRegression, ValidateObserved, Immunize, ReportCommit, Rollback,
        Superstep, histVars, Nodes
  <2>2. QED
    BY <1>0, <2>1 DEF Nodes
<1>5. QED
  BY <1>1, <1>2, <1>3, <1>4 DEF Next, Over

LEMMA PostMortemInductive ==
  /\ Init => PostMortemInv
  /\ PostMortemInv /\ [Next]_vars => PostMortemInv'
<1>1. ASSUME Init PROVE RollbackHasReason /\ AttemptsHaveReasons /\ EndedByPostMortem
  BY <1>1 DEF Init, RollbackHasReason, AttemptsHaveReasons, EndedByPostMortem
<1>2. QED
  BY <1>1, CycleInductive, RollbackHasReasonNext, AttemptsHaveReasonsNext,
     EndedByPostMortemNext
  DEF PostMortemInv

\* A post-mortem is written only once the current error has used up its retries,
\* each of them with a known reason.
THEOREM PostMortemIsEarned == Spec => []PostMortemAfterTheRetries
<1>1. PostMortemInv => PostMortemAfterTheRetries
  <2> SUFFICES ASSUME PostMortemInv, post_mortem_path
               PROVE  /\ ~is_resolved /\ abort_cause = None
                      /\ Cardinality(CurrentCycle) = MaxRetries
                      /\ \A i \in CurrentCycle : failed_attempts[i].error_summary # "unknown"
    BY DEF PostMortemAfterTheRetries
  <2>1. ~is_resolved /\ abort_cause = None /\ attempt_count = MaxRetries
    BY DEF PostMortemInv, EndedByPostMortem
  <2>2. /\ failed_attempts \in Seq(Attempt) /\ Earlier \in Nat
        /\ Earlier = Len(failed_attempts) - attempt_count
        /\ CurrentCycle = (Earlier + 1)..Len(failed_attempts)
    BY Base, CurrentCycleIsTheTail DEF PostMortemInv, CycleInv, TypeOK
  <2>3. Cardinality(CurrentCycle) = MaxRetries
    BY <2>1, <2>2, FS_Interval, BudgetAssumption
  <2>4. \A i \in CurrentCycle : failed_attempts[i].error_summary # "unknown"
    BY DEF PostMortemInv, AttemptsHaveReasons, CurrentCycle
  <2>5. QED
    BY <2>1, <2>3, <2>4
<1>2. QED
  BY <1>1, PostMortemInductive, PTL DEF Spec

-----------------------------------------------------------------------------
(* The gate. *)

\* Green, and no protected test broken: those of the caller, or those related to
\* the files that differ from the commit before.
Protects(t) ==
  t.err = None =>
    t.broken \cap (IF regression_cmd THEN HasTests ELSE t.touched \cap HasTests) = {}

\* What the gate saw is what is committed: the patch is what differs from HEAD
\* when it runs, and the Tester changes neither the files nor the failure.
Gated ==
  /\ pc \in {"validate", "immunize", "report_commit"} => current_patch = tree.touched
  /\ pc \in {"immunize", "report_commit"} => Protects(tree)

GateInv == ContractInv /\ Gated /\ GreenCommitsPassTheGate

\* A green tree that passes validation has passed the gate.
LEMMA GateProtects ==
  ASSUME TypeOK, Gated, ValidateObserved, pc' = "immunize" PROVE Protects(tree)
<1>1. PICK o \in Observations :
        /\ o.verdict = "passed" =>
             \E own \in IF SessionSelectable THEN BOOLEAN ELSE {FALSE} :
               ~GateMayFail(GateFiles, own)
        /\ current_sandbox_result' = o.verdict
        /\ post_fix_signature' =
             IF o.verdict = "passed" THEN None ELSE Fingerprint(o.text)
  BY DEF ValidateObserved
<1>2. CASE tree.err # None
  BY <1>2 DEF Protects
<1>3. CASE tree.err = None
  <2>1. o.verdict = "passed"
    <3>1. o.verdict = "passed" \/ Fingerprint(o.text) # None
      BY <1>1 DEF ValidateObserved, RouteAfterValidate, DifferentError
    <3>2. o.verdict # "passed" => o.text = Noise
      BY <1>3, SentinelAssumption DEF Observations
    <3>3. QED
      BY <3>1, <3>2, SentinelAssumption DEF Fingerprint
  <2>2. PICK own : ~GateMayFail(GateFiles, own)
    BY <1>1, <2>1
  <2>3. regression_cmd \/ GateFiles # {} => tree.broken \cap GateFiles \cap HasTests = {}
    BY <2>2 DEF GateMayFail
  <2>4. pc = "validate" /\ current_patch = tree.touched
    BY DEF ValidateObserved, Superstep, Gated
  <2>5. HasTests \subseteq HasTestFile
    BY InputAssumption
  <2>6. CASE regression_cmd
    BY <2>3, <2>5, <2>6 DEF Protects, GateFiles
  <2>7. CASE ~regression_cmd
    BY <2>3, <2>4, <2>5, <2>7 DEF Protects, GateFiles
  <2>8. QED
    BY <2>6, <2>7
<1>4. QED
  BY <1>2, <1>3

LEMMA GatedNext == ASSUME GateInv, [Next]_vars PROVE Gated'
<1>0. TypeOK /\ Gated
  BY Base DEF GateInv
<1>1. CASE Fix
  BY <1>1 DEF Fix, RouteAfterFix, CapturedPatch, Gated
<1>2. CASE ValidateRegression
  BY <1>2 DEF ValidateRegression, RouteAfterValidate, Gated
<1>3. CASE ValidateObserved
  <2>1. /\ UNCHANGED <<tree, regression_cmd, current_patch>>
        /\ pc = "validate" /\ pc' \in {"immunize", "rollback"}
    BY <1>3 DEF ValidateObserved, Superstep, gitVars, envVars, RouteAfterValidate
  <2>2. QED
    BY <1>0, <1>3, <2>1, GateProtects DEF Gated, Protects
<1>4. CASE Immunize
  <2>1. PICK session : tree' = [tree EXCEPT !.session = session]
    BY <1>4 DEF Immunize
  <2>2. /\ tree'.err = tree.err /\ tree'.broken = tree.broken
        /\ tree'.touched = tree.touched
    BY <1>0, <2>1 DEF TypeOK, Tree
  <2>3. /\ pc = "immunize" /\ pc' = "report_commit"
        /\ UNCHANGED <<regression_cmd, current_patch>>
    BY <1>4 DEF Immunize, Superstep, envVars, workVars
  <2>4. QED
    BY <1>0, <2>2, <2>3 DEF Gated, Protects
<1>5. CASE UNCHANGED vars
  BY <1>0, <1>5 DEF vars, workVars, envVars, gitVars, Gated, Protects
<1>6. CASE ~(Fix \/ ValidateRegression \/ ValidateObserved \/ Immunize \/ UNCHANGED vars)
  <2>1. pc' \notin {"validate", "immunize", "report_commit"}
    BY <1>6
    DEF Next, Over, Bootstrap, ReportCommit, Rollback, PostMortem, CorrectorRaises,
        TesterRaises, CommitRaises, ReporterRaises, OutOfSteps, Raise, RouteAfterCommit,
        RouteAfterRollback
  <2>2. QED
    BY <2>1 DEF Gated
<1>7. QED
  BY <1>1, <1>2, <1>3, <1>4, <1>5, <1>6

LEMMA GreenCommitsNext == ASSUME GateInv, [Next]_vars PROVE GreenCommitsPassTheGate'
<1>0. /\ git_log \in Seq(Tree) /\ git_log # <<>> /\ tree \in Tree
      /\ Gated /\ GreenCommitsPassTheGate
  BY Base DEF GateInv, TypeOK
<1>1. CASE ReportCommit
  <2>1. /\ git_log' = Append(git_log, tree) /\ UNCHANGED regression_cmd
        /\ Protects(tree)
    BY <1>0, <1>1 DEF ReportCommit, Superstep, Commit, envVars, Gated
  <2>2. /\ Len(git_log') = Len(git_log) + 1 /\ git_log'[Len(git_log) + 1] = tree
        /\ \A i \in 1..Len(git_log) : git_log'[i] = git_log[i]
    BY <1>0, <2>1
  <2>3. ASSUME NEW i \in 2..(Len(git_log) + 1) PROVE Protects(git_log'[i])
    <3>1. CASE i = Len(git_log) + 1
      BY <2>1, <2>2, <3>1
    <3>2. CASE i \in 2..Len(git_log)
      BY <1>0, <2>2, <3>2 DEF GreenCommitsPassTheGate, Protects
    <3>3. QED
      BY <1>0, <3>1, <3>2
  <2>4. QED
    BY <2>1, <2>2, <2>3 DEF GreenCommitsPassTheGate, Protects
<1>2. CASE ~ReportCommit
  <2>1. UNCHANGED <<git_log, regression_cmd>>
    BY <1>2, RaisingSteps
    DEF Next, Over, Bootstrap, Fix, ValidateRegression, ValidateObserved, Immunize,
        Rollback, PostMortem, gitVars, envVars, vars
  <2>2. QED
    BY <1>0, <2>1 DEF GreenCommitsPassTheGate
<1>3. QED
  BY <1>1, <1>2

\* No commit that makes the reproduction command green breaks a protected test.
THEOREM GreenCommitsAreGated == Spec => []GreenCommitsPassTheGate
<1>1. Init => GateInv
  BY ContractInductive DEF GateInv, Gated, GreenCommitsPassTheGate, Init
<1>2. GateInv /\ [Next]_vars => GateInv'
  BY ContractInductive, GatedNext, GreenCommitsNext DEF GateInv
<1>3. GateInv => GreenCommitsPassTheGate
  BY DEF GateInv
<1>4. QED
  BY <1>1, <1>2, <1>3, PTL DEF Spec

\* What a commit changes, the session file aside, is the patch that was validated
\* and gated, whatever failing resets left of earlier attempts.
THEOREM CommitsMatchTheirPatch == Spec => CommitsAreTheirPatch
<1>1. Init => GateInv
  BY ContractInductive DEF GateInv, Gated, GreenCommitsPassTheGate, Init
<1>2. GateInv /\ [Next]_vars => GateInv'
  BY ContractInductive, GatedNext, GreenCommitsNext DEF GateInv
<1>3. ASSUME GateInv, [Next]_vars, Len(git_log') > Len(git_log)
      PROVE  git_log'[Len(git_log')].touched = current_patch
  <2>0. git_log \in Seq(Tree) /\ tree \in Tree /\ Gated
    BY <1>3, Base DEF GateInv, TypeOK
  <2>1. CASE ReportCommit
    <3>1. pc = "report_commit" /\ git_log' = Append(git_log, tree)
      BY <2>1 DEF ReportCommit, Superstep, Commit
    <3>2. git_log'[Len(git_log')] = tree
      BY <2>0, <3>1
    <3>3. QED
      BY <2>0, <3>1, <3>2 DEF Gated
  <2>2. CASE ~ReportCommit
    <3>1. UNCHANGED git_log
      BY <1>3, <2>2, RaisingSteps
      DEF Next, Over, Bootstrap, Fix, ValidateRegression, ValidateObserved, Immunize,
          Rollback, PostMortem, gitVars, vars
    <3>2. QED
      BY <1>3, <2>0, <3>1
  <2>3. QED
    BY <2>1, <2>2
<1>4. GateInv /\ [Next]_vars
        => [Len(git_log') > Len(git_log) =>
              git_log'[Len(git_log')].touched = current_patch]_vars
  BY <1>3
<1>5. QED
  BY <1>1, <1>2, <1>4, PTL DEF Spec, CommitsAreTheirPatch
=============================================================================

---------------------------- MODULE SessionSuite ----------------------------
(***************************************************************************)
(* The regression suite a crash session writes, one test per healed error, *)
(* and the gate that runs it: validate_node, immunize_node and their       *)
(* helpers in orchestrator/nodes.py, the selection of related tests in     *)
(* orchestrator/regression.py.  HealingGraph has the session around them   *)
(* and takes the suite for a sequence of verdicts; here a test has a name  *)
(* and a module it imports, so that one may shadow another, the gate may   *)
(* overlook one, and file errors may lose one.                             *)
(*                                                                         *)
(* The Corrector edits source files only, as its prompt tells it to.       *)
(***************************************************************************)
EXTENDS Naturals, Sequences, FiniteSets, SequencesExt

CONSTANTS
  Modules,          \* the source files of the program
  PackageInits,     \* those named __init__.py, imported by their directory
  Names,            \* the names drafted tests may have
  Errors,           \* the fingerprints of the failures of the program
  ErrorCycleBudget, \* Settings.error_cycle_budget
  IoFaults,         \* the operations on the session file that may raise OSError
  SandboxFails,     \* may a sandbox run fail whatever it runs?
  MaxTests,         \* bound of the model: the test functions of one draft
  Followers,        \* bound of the model: the qualities of those after the first
  MaxFaults,        \* bound of the model: what fails while one test is gated
  None

ASSUME SuiteAssumption ==
  /\ PackageInits \subseteq Modules /\ None \notin Modules
  /\ "smoke" \notin Names /\ None \notin Names
  /\ None \notin Errors /\ ErrorCycleBudget \in Nat \ {0}
  /\ IoFaults \subseteq {"snapshot", "append", "restore"}
  /\ SandboxFails \in BOOLEAN /\ MaxFaults \in Nat /\ MaxTests \in Nat \ {0}
  /\ Followers \subseteq {"sound", "wrong", "breaks_import"}

Faults ==
  {fs \in SUBSET (IoFaults \cup IF SandboxFails THEN {"sandbox"} ELSE {}) :
     Cardinality(fs) <= MaxFaults}

VARIABLES
  pc,                   \* the node about to run, "end" after the last commit
  current,              \* the error in progress
  err,                  \* what the reproduction command shows, None: exit 0
  broken,               \* the modules a test of which fails
  changed,              \* the source files that differ from HEAD
  session,              \* the tests of the session file, None: no file
  green,                \* did validation find the tree green?
  recorded,             \* current_regression_test, the draft it holds
  faults,               \* history: what failed since the attempt began
  cycle,                \* error_cycle_index
  head,                 \* the last commit
  prev                  \* history: the session file of the commit before it

codeVars == <<err, broken, changed>>
vars == <<pc, current, codeVars, session, green, recorded,
          faults, cycle, head, prev>>

(***************************************************************************)
(* A drafted test is sound (it passes once its module works), wrong (it    *)
(* fails even then), unparsable (a SyntaxError), or, followed by junk,     *)
(* breaks the import of the file that holds it.  A draft is all that the   *)
(* answer of the model holds from its first test function on: several      *)
(* tests, of which the gate runs the first one's name.                     *)
(***************************************************************************)
Test(name, module, quality) == [name |-> name, module |-> module, quality |-> quality]

Written ==
  {Test(n, m, q) : n \in Names, m \in Modules, q \in {"sound", "wrong", "breaks_import"}}

\* _first_test_func falls back to test_regression where nothing parses.
Unparsable == Test("test_regression", None, "unparsable")

\* _extract_test_source.
Drafts ==
  {<<Unparsable>>} \cup
  {d \in SeqOf(Written, MaxTests) :
     d # <<>> /\ \A k \in 2..Len(d) : d[k].quality \in Followers}

\* _build_smoke_test_source: it runs the reproduction command and imports
\* nothing of the program.
SmokeTest == Test("smoke", None, "sound")

Tests == Written \cup {Unparsable, SmokeTest}

\* Neither a draft nor a session file is None.
ASSUME SentinelAssumption == None \notin Seq(Tests)

-----------------------------------------------------------------------------
(* pytest on the session file of a program whose modules bs are broken. *)

Importable(file) ==
  \A i \in 1..Len(file) : file[i].quality \notin {"unparsable", "breaks_import"}

\* Of several tests of one name Python keeps the last.
Collected(file) ==
  {i \in 1..Len(file) : Importable(file) /\ \A j \in i + 1..Len(file) :
                                              file[j].name # file[i].name}

Passes(test, bs) == test.quality = "sound" /\ test.module \notin bs

FilePasses(file, bs) ==
  Importable(file) /\ \A i \in Collected(file) : Passes(file[i], bs)

\* pytest file::name.
NodePasses(file, name, bs) ==
  \E i \in Collected(file) : file[i].name = name /\ Passes(file[i], bs)

Suite(file) == IF file = None THEN <<>> ELSE file

-----------------------------------------------------------------------------
(* regression.py. *)

\* changed_source_files and their stems.
Stems(files) == {IF f \in PackageInits THEN "__init__" ELSE f : f \in files}

\* Goes by the name of the file.
BugImportedBasenames(file) == {}

\* _imported_basenames: nothing is known of a file that does not parse.
ImportedBasenames(file) ==
  IF \E i \in 1..Len(file) : file[i].quality = "unparsable" THEN {}
  ELSE {file[i].module : i \in 1..Len(file)} \ {None}

\* select_related_tests, for the session file: its name matches no source file.
Related(file, files) == ImportedBasenames(file) \cap Stems(files) # {}

-----------------------------------------------------------------------------
(* The session file. *)

\* _append_regression_test writes all of the draft.
AppendTest(file, draft) == Suite(file) \o draft

\* Goes by the last function.
BugLastTest(draft) == draft[Len(draft)].name

\* _first_test_func: what the node id that the gate runs goes by.
FirstTest(draft) == draft[1].name

\* Empties the file.
BugRestored(before) == <<>>

\* _restore_session_text: a snapshot of None means there was no file.
Restored(before) == before

\* An ungated test is always kept.
Kept(gate, passes) == ~gate \/ passes

\* _gate_and_keep, each of whose steps may fail: the snapshot, then None; the
\* append and the restore, then logged only.  What it may leave: the file, the
\* draft it returns and what failed.
GateAndKeep(file, draft, gate) ==
  { LET before   == IF "snapshot" \in fs THEN None ELSE file
        appended == IF "append" \in fs THEN file ELSE AppendTest(file, draft)
        kept     == Kept(gate, "sandbox" \notin fs /\
                               NodePasses(Suite(appended), FirstTest(draft), broken))
    IN  [file   |-> IF kept \/ "restore" \in fs THEN appended ELSE Restored(before),
         kept   |-> IF kept THEN draft ELSE None,
         faults |-> fs]
    : fs \in Faults }

-----------------------------------------------------------------------------
(* The nodes. *)

Commit(e, bs, files, suite, test, fs, g) ==
  [err |-> e, broken |-> bs, changed |-> files, session |-> suite, test |-> test,
   faults |-> fs, green |-> g]

\* After bootstrap: a header without tests, not committed yet.
Init ==
  /\ pc = "fix" /\ current \in Errors /\ err = current
  /\ broken \in SUBSET Modules /\ changed = {}
  /\ session = <<>> /\ green = FALSE
  /\ recorded = None /\ faults = {} /\ cycle = 0
  /\ head = Commit(err, broken, {}, None, None, {}, FALSE) /\ prev = None

\* fix_node: any module may work or not afterwards, those that use the edited
\* ones included.
Fix ==
  /\ pc = "fix" /\ pc' = "validate" /\ faults' = {}
  /\ changed' \in (SUBSET Modules) \ {{}}
  /\ broken' \in SUBSET Modules /\ err' \in Errors \cup {None}
  /\ UNCHANGED <<current, session, green, recorded, cycle, head, prev>>

\* The gate over the tests related to this fix lets it pass.
GatePasses ==
  Related(Suite(session), changed) => FilePasses(Suite(session), broken)

\* validate_node and its router: a green tree the gate accepts, or another error
\* than before; everything else is a failed attempt.
Validate ==
  /\ pc = "validate" /\ green' = (err = None)
  /\ \/ pc' = "immunize" /\ (IF err = None THEN GatePasses ELSE err # current)
     \/ pc' = "rollback" /\ (SandboxFails \/ err = current \/ (err = None /\ ~GatePasses))
  /\ UNCHANGED <<current, codeVars, session, recorded, faults, cycle, head, prev>>

\* Without the smoke test.
BugFallback(outcome) == {outcome}

\* The smoke test where no drafted one was kept of a green tree.
Fallback(outcome) ==
  IF green /\ outcome.kept = None
    THEN {[o EXCEPT !.faults = @ \cup outcome.faults] :
            o \in GateAndKeep(outcome.file, <<SmokeTest>>, TRUE)}
    ELSE {outcome}

\* immunize_node: the Tester's draft, or TestGenerationError; gated when green.
Immunize ==
  /\ pc = "immunize" /\ pc' = "commit"
  /\ \E drafted \in {[file |-> session, kept |-> None, faults |-> {}]} \cup
                    UNION {GateAndKeep(session, draft, green) : draft \in Drafts} :
       \E outcome \in Fallback(drafted) :
         /\ session' = outcome.file /\ recorded' = outcome.kept
         /\ faults' = outcome.faults
  /\ UNCHANGED <<current, codeVars, green, cycle, head, prev>>

\* report_commit_node: git adds the session file with the fix.
ReportCommit ==
  /\ pc = "commit"
  /\ head' = Commit(err, broken, changed, session, recorded, faults, green) /\ prev' = head.session
  /\ changed' = {} /\ recorded' = None /\ faults' = {}
  /\ IF ~green /\ cycle + 1 < ErrorCycleBudget
       THEN pc' = "fix" /\ current' = err /\ cycle' = cycle + 1
       ELSE pc' = "end" /\ UNCHANGED <<current, cycle>>
  /\ UNCHANGED <<err, broken, session, green>>

\* rollback_node: reset --hard and clean -fd; a stub not committed yet goes too.
Rollback ==
  /\ pc = "rollback" /\ pc' = "fix"
  /\ err' = head.err /\ broken' = head.broken /\ session' = head.session /\ changed' = {}
  /\ UNCHANGED <<current, green, recorded, faults, cycle, head, prev>>

\* The session is over.
Over == pc = "end" /\ UNCHANGED vars

Next == Fix \/ Validate \/ Immunize \/ ReportCommit \/ Rollback \/ Over

Spec == Init /\ [][Next]_vars

-----------------------------------------------------------------------------
(* Correctness. *)

\* A commit that makes the program green keeps the suite: an earlier test that
\* could run, of a module the fix changed, passes now, as does the new test if
\* it is one that took its name.  Not protected are the tests of a package's
\* __init__.py, which the selection never finds, those whose name another
\* function of the draft kept now takes, because the gate runs the first one
\* only, and, when the session file could not be read or restored, all of them.
GreenCommitsKeepTheSuite ==
  head.green /\ head.faults \cap {"snapshot", "restore"} = {} =>
    \A i \in Collected(Suite(prev)) :
      LET test == Suite(prev)[i] IN
      test.module \in head.changed \ PackageInits =>
        \/ NodePasses(Suite(head.session), test.name, head.broken)
        \/ head.test # None /\ \E k \in 2..Len(head.test) : head.test[k].name = test.name

\* A draft recorded for a green commit is in its session file under the name of
\* its first function, and that test passes, though each write of the file may
\* have failed unnoticed.
RecordedTestPasses ==
  head.green /\ head.test # None =>
    NodePasses(Suite(head.session), head.test[1].name, head.broken)

\* The suite grows by the recorded draft, all its functions, and by nothing
\* else: a rejected draft leaves no trace, and no earlier test goes, unless a
\* file operation failed.
SuiteGrowsByTheRecorded ==
  /\ head.faults \subseteq {"sandbox"} =>
       Suite(head.session) = Suite(prev) \o Suite(head.test)
  /\ "snapshot" \notin head.faults => IsPrefix(Suite(prev), Suite(head.session))

\* Every green commit of a session is immunized, at the least by the smoke
\* test, unless the sandbox or the file system failed or a draft that was kept
\* without a gate made the session file unimportable.
OnlyABrokenSuiteIsNotImmunized ==
  head.green /\ head.test = None => head.faults # {} \/ ~Importable(Suite(prev))
=============================================================================

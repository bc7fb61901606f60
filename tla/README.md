# Self-healing CDD: a TLA+ model of the pipeline

This directory models the self-healing system in `src/`: a LangGraph pipeline
that takes a failing program (a crash or a failing test), lets an LLM agent
(the Corrector, mini-swe-agent) edit the repository until the failure is gone,
adds a regression test, commits, goes on with the next error, and hands the
branch to a GitHub delivery script or to one of two benchmark harnesses.  TLC
model-checks the modules on small instances, TLAPS proves the main theorems for
every value of the constants.

`PROJECT.json` maps every definition to the lines it models and lists runs,
mutants, hazards, findings and theorems.

## The system

| component (source under `src/`) | state | operations | hard behaviour |
|---|---|---|---|
| Orchestrator (`src/orchestrator/{graph,nodes,routers}.py`, `core/domain/state.py`) | `HealingState`: current error, patch, verdict, test, attempts, ledger of healed errors | seven nodes, four routers | two nested loops with budgets; gate; exceptions that leave the graph; state that must be reset when the chain advances |
| No-regression gate and session suite (`orchestrator/{regression,nodes}.py`) | the session's regression file | select related tests, gate, keep or drop a draft, smoke test | which tests protect a file; names that shadow; file errors that are only logged |
| Error fingerprints (`core/domain/signature.py`) | none | parse a traceback or pytest output, compare | paths, line numbers, cut lines, chatter; host against sandbox |
| Corrector (`agents/swe_agent_dev.py`) | threads, containers | run the agent, capture the diff, clean up | the timeout cancels the await, not the thread; snapshots of containers |
| Tester (`agents/llm_tester.py`) | none | draft a test | raises, answers nothing, drafts tests that do not hold |
| Reporter agent (`agents/llm_reporter.py`) | none | commit message, narrative | never raises |
| Docker sandbox (`infrastructure/docker_sandbox`) | containers | run a command on the mounted tree | timeout, removal, late writes |
| Git adapter (`infrastructure/git_ops`) | index, tree, HEAD | commit, reset --hard + clean | failures; skip-worktree files |
| Post-mortem files (`infrastructure/persistence`) | report files | write | raises |
| GitHub delivery (`scripts/heal_and_pr.py`, `infrastructure/github`) | clone, shielded files, branch, pull request, exit code | probe, shield, heal, push, open PR | artefacts of the probe; partial failure |
| Benchmark (`scripts/run_benchmark.py`) | one clone, rows, report, containers | checkout, probe, heal, publish, record | branches that share a clone; Ctrl+C; stragglers |
| SWE-bench (`scripts/run_swebench.py`) | one directory, predictions, rows | wipe, prepare, reproduce, heal, extract, sanity | failing wipe; earlier predictions |
| Observability (`observability/`) | spans of a run, sink and agent of a context, registered callback | decorators, sinks, `aggregate` | the LLM callback comes late, from tasks and from threads that outlive their run |
| Settings, models, ports, demo, workflows | - | - | - |

How they interact.  `heal_and_pr`, `run_benchmark`, `run_swebench` and the demo
`main.py` build a trigger and call the graph; each node calls one or two ports
(Corrector, sandbox, Tester, git, reporter) and returns an update of the state;
the router behind it reads the state and names the next node.  The graph is one
coroutine.  Corrector and sandbox run in worker threads behind
`asyncio.wait_for(asyncio.to_thread(...))`, and start containers that mount the
working tree, so that after a timeout other writers of the tree exist beside
the coroutine.  The repository (tree, index, commits) is the state all of them
share.

What makes each part correct, and where it is stated:

* orchestrator: every commit heals the error the ledger says; nothing green is
  committed that breaks a protected test; what is committed is the patch that
  was validated, whatever a failing reset left; a retry sees the feedback of its
  own error and attempts; the session ends by its budgets (`HealingGraph`);
* session suite: a green commit breaks no earlier test of what it changed,
  records only drafts whose first test passes, and is immunized (`SessionSuite`);
* workers: what is committed is what the reproduction command judged and belongs
  to one attempt, but for what the code itself adds or cannot stop; cleanup stops
  its own containers and no others; only an agent that never ends hangs the
  process (`WorkspaceWorkers`);
* fingerprints: the same failure matches itself, another one does not, and what
  is not a failure has none (`ErrorSignature`);
* delivery: the probe's artefacts stay out of the branch, and exit code and
  pull request say what happened (`Delivery`);
* harnesses: branches and instances do not leak into each other, and report and
  predictions are those of the sessions (`Benchmark`, `SweBench`);
* observability: every completion is charged once, to the run and the agent
  that made it, and the reported path is the one taken (`Telemetry`).

## The modules

| module | models | composed with |
|---|---|---|
| `HealingContract` | what a session promises its caller (abstract) | - |
| `HealingGraph` | nodes, routers, gate, session file (as verdicts), git tree | refines `HealingContract` |
| `HealingGraphProofs` | its theorems: types, budgets, ledger, refinement; attempts, gate, end of the session | extends `HealingGraph` |
| `SessionSuite` | the tests of the session file, selection of related tests, gate, file errors | - |
| `WorkspaceWorkers` | coroutine, executor threads, containers on one tree | - |
| `ErrorSignature` | the two parsers over the texts Python and pytest print | - |
| `Delivery` | `heal_and_pr` and the GitHub adapter | instantiates `HealingContract` as its session |
| `Benchmark` | `run_benchmark` | instantiates `HealingContract` |
| `SweBench` | `run_swebench` | instantiates `HealingContract` |
| `Telemetry` | decorators, contexts, callbacks, sinks, roll-up over several runs | - |
| `SessionSuiteProofs`, `WorkspaceWorkersProofs`, `ErrorSignatureProofs`, `TelemetryProofs`, `DeliveryProofs`, `BenchmarkProofs`, `SweBenchProofs` | their theorems | extend the module of their name |
| `MC*` | constants for TLC | extend the module of their name |

The composition rests on the refinement: `HealingGraph` is shown to implement
`HealingContract`, and the three scripts use the contract as their session, so
what they show holds of every session the graph can run.

**HealingGraph.**  The variables have the names of the fields of `HealingState`.
One action is one superstep: the node with all it calls, then its router.
`Bootstrap`, `Fix*`, `Validate*`, `Immunize`, `ReportCommit`, `Rollback` and
`PostMortem` are `nodes.py`; `Corrector/Tester/Commit/ReporterRaises` are the
exceptions no node catches; `OutOfSteps` is LangGraph's recursion limit.  A
failure text is represented by the fingerprint it carries (an element of
`Errors`, or `Noise`); the working tree by the error the reproduction command
shows, the files whose tests are broken, the files that differ from HEAD and
the session file, a sequence of tests that are sound, wrong or poison.  A reset
(`ResetHard`) may fail and be swallowed; one that works empties what git sees of
the tree, and where the repository has ignored or skip-worktree files (`Hides`)
these may keep or change the failure and the tests (`HeadWith`).

**SessionSuite.**  The same session reduced to what the suite depends on, and
the suite in detail: a test has a name and the module it imports, and is sound,
wrong, breaks the import of its file or does not parse.  A draft is all that the
Tester's answer holds from its first test function on (`Drafts`), of which the
gate runs the first one's name (`FirstTest`).  `Fix` may break or mend
any module; `Validate` is `validate_node` with `select_related_tests`
(`ImportedBasenames`, `Stems`, `Related`); `Immunize` is `immunize_node` with
`_gate_and_keep` for the draft and, where none was kept, for the smoke test.
Snapshot, append and restore of the file may each fail and be logged only, and
the sandbox may fail whatever it runs (`GateAndKeep` ranges over these).
`Collected` and `NodePasses` are pytest's: of two tests of one name the later
counts, and a file that cannot be imported has no tests.

**WorkspaceWorkers.**  `Session` is the coroutine: the fix, the runs of an attempt
(reproduction command, regression gate, the Tester's test, the smoke test; `After`
says where each verdict leads), commit or rollback.  `Thread(c)` is the executor
thread of call `c`, `Program(c)` what the agent or the program in its container
does.  The tree is the set of calls that wrote it since HEAD, 0 standing for the
session's own writes of the session file, so that one can tell whose edits a
commit holds; `observed` is the tree at the exit of a run's command, `unreset`
what a failing reset left (`Rollback`), and the session goes on all the same.

**ErrorSignature.**  Texts are sequences of classified lines; the parsers pick
lines as the regular expressions do, by the first or last position of a sort
(`At`).  A step runs the same program again, on the
host or in the sandbox, or an edited one with another failure.

**Delivery, Benchmark, SweBench.**  One action per stage of the script, with the
failure of each command.  A file is represented by its sort (tracked, excluded,
untracked) and by who wrote it; a commit by what `git add -A` swept into it.

**Telemetry.**  The runs of one process, one after the other.  A run enters the
nodes along the edges of the graph, a node calls its ports (`PortsOf`), and
nodes and ports record a span when they end (`EndNode`, `EndPort`, `CallInfra`,
`NodeRaises`).  `context` holds the two context variables of the main task; a
Corrector thread and a pending callback carry the copy taken when they started.
`Callback` is `_record`, once for each registration, for a task while the
coroutine awaits and for a thread at any time.  `RollUp`, `TakePath` and
`TakeCount` are the three snapshots `aggregate` takes of the spans.

Definitions named `Bug...` are plausible mistakes in the definition that
follows them.  Each property of a passing run is violated once the definition
is replaced by one of them; no action uses them.

## The runs

| run | module | states | shows |
|---|---|---|---|
| `healing_test_entry` | `MCHealingGraph` | 409k | test entry, all faults: ledger, gate, committed patch, feedback, post-mortem |
| `healing_contract` | `MCHealingGraph` | 263k | both entries: budgets bound the supersteps, refinement of the contract with liveness |
| `session_suite` | `MCSessionSuite` | 2.8M | the suite over two chained errors, drafts of one or two functions: earlier tests kept, the gated test passes, green commits immunized |
| `workers` | `MCWorkspaceWorkers` | 1.67M | four safety and two liveness properties of the tree's writers, with docker and git that fail |
| `error_signature` | `MCErrorSignature` | 5.6k | the fingerprints over all modelled texts |
| `delivery` | `MCDelivery` | 877k | `heal_and_pr` in its three modes |
| `benchmark` | `MCBenchmark` | 2.42M | two branches in one clone, Ctrl+C twice |
| `swebench` | `MCSweBench` | 392k | two instances, healing and sanity |
| `telemetry` | `Telemetry` | 985k | two runs with late callbacks and a Corrector left behind: attribution, counts, path |

Three more runs are expected to find a violation; see *Findings*.

Bounds, and why they are enough.  Two errors and two cycles are the least at
which the chain advances, an error returns to an earlier one, and state of the
first error can be stale in the second; two retries the least at which one
attempt follows another of the same error.  One file with and one without tests
separate "gate passed" from "gate found nothing to run".  Both budgets are
constants of the theorems, which hold for all of them.  `MaxCalls = 3` gives
an agent and two of its attempt's sandbox runs, or two agents (the second after a
commit or a rollback, which may have failed) and a run, the shortest histories
in which a gate run comes between verdict and commit and in which a straggler
meets a later attempt.  A smoke test after a rejected draft of the Tester would
be the fourth call: its place is in the theorems, which hold for any number.
`PoolSize = 2` lets stragglers fill the executor.  Two branches or instances
are the least that can leak into each other; three sorts of files are all that
git treats differently; Ctrl+C twice, because asyncio treats the second one
differently and any later one like the second.  `RecursionLimit` is 12 in
`healing_test_entry` (below the need, so that it strikes) and 16 in
`healing_contract` (one above the need of 15, so that only a session that is too
long can meet it).  In `Benchmark` and `SweBench` a step writes one of the sets
of `Writes` instead of any set of files: all three sorts at once are enough to
leak, the empty set (the tests alone in SWE-bench) to leave nothing to publish.

In `session_suite` two cycles are one draft kept without a gate and one kept with
it, each of up to two functions (`MaxTests`), so that a test may shadow or break
another one kept before or beside it; the second function is sound or wrong
(`Followers`), since junk after it is junk after the first as well; of two
modules one is a package's `__init__.py`; two names are enough to collide or not;
at most one thing fails while one draft is gated (`MaxFaults`), but in every
cycle.  In `telemetry` two runs enter six nodes in all (`MaxNodes`): the first
may be aborted at any node, give up after four or commit after five, while its
Corrector's thread goes on into the second; two completions
(`MaxCalls`) are the least that can be confused with one another.

In `error_signature` stacks of up to three calls (`MaxDepth`) put library code
below and between calls of the repository; one file name in two directories,
two exceptions and two functions are enough to differ in one of them alone.

Symmetry is used on `Errors` and `Names` in runs of safety properties only.
`session_suite` also has a view (`NodeView`): the histories of a commit are told
apart in the states `ReportCommit` makes, where the invariants are checked of
them, and not in the nodes that follow, which read HEAD's error, its broken
modules and its session file only.

Fairness.  `HealingGraph` has weak fairness of its next step: one coroutine,
whose awaits of agent, LLM and sandbox are bounded by their timeouts; it never
assumes that an attempt succeeds.  It takes for granted that the cleanup, the
commit and the reset, which wait for a free thread without a timeout, get one;
agents that never end may hold them all, which is the subject of
`WorkspaceWorkers`.  That has weak fairness of the coroutine and of each thread
(the operating system runs them, and `container.wait` has its own timeout), none
of the program in a container, which may hang for ever, and none of the agent:
its step limit is 0 by default, which means none (`settings.py:128-135`).
`SessionSuite`, `Telemetry`, `Delivery`, `ErrorSignature`, `Benchmark` and
`SweBench` check safety only and assume none.  `CHECK_DEADLOCK` is on
everywhere: final states stutter explicitly.

What some properties leave out, by their own text: `CommitIsWhatPassed`,
`CommitHoldsOneAttempt`, `ForeignEditsStayOut`, `CheckoutStartsClean` and
`PatchIsTheHealing` allow the writes of calls that timed out, which the code
does not stop; the first two also name what the code adds after the verdict (the
session file, the artefacts of the gate runs) and what a failing reset leaves;
`CleanupStopsTheAgent` and `AgentContainersGone` leave out containers that come
up after the listing or after the last cleanup; `ProcessExits` an agent that
never ends; `SameBugMatches` and `ProgressIsSeen` leave out programs that
print a dotted word after their traceback, bare asserts and collection errors,
for which they are false.  `GreenCommitsKeepTheSuite` leaves out tests of an
`__init__.py`, tests whose name an ungated function of the draft takes, and
sessions whose file could not be read or restored, `OnlyABrokenSuiteIsNotImmunized` a suite that an ungated draft made
unimportable; `ReportCountsWhatArrived` the completions reported after the
roll-up.  All of this is listed as hazards or among the findings below.

## What is proved

For every value of the constants, from the assumptions named in the modules and
nothing else.  A theorem states a property of a run, `Spec => []Property`; the
invariant it needs was checked by TLC first, then proved by one lemma per part
and one case per action.

**The session** (`HealingGraphProofs`), for all budgets, limits, errors, files
and faults:

* `TypeCorrect`: `TypeOK`.  It is not inductive alone (rollback takes over the
  output seen after the fix); `TypeInv` adds `PostFixAgrees`: a post-fix
  fingerprint is that of the post-fix output.
* `StepsAreBounded`: at most `1 + error_cycle_budget * (3 * max_retries + 1)`
  supersteps.  `PaceInv` relates `steps` to the cycle, the attempts and the
  node: what a pass over one error may have used when each node is entered.
* `BudgetsEndTheSession`: a recursion limit of that size never ends a session
  (`EndsByItsBudgets`, which no run checks, since `StepsBounded` implies it);
  from `PaceInv` and `CutShort` (the limit strikes only when reached).
* `LedgerTellsTheHistory`: entry *i* of the ledger is commit *i*, which no
  longer shows the error entry *i* names, and that error is the one commit
  *i - 1* was left with.  `LedgerInv` adds `Validated` (what the tree shows
  while a validated fix is immunized and committed) and `Chained` (which error
  the last commit was left with).
* `ImplementsContract`: `Init` implies the contract's initial condition and
  every step is a step of the contract or a stutter.  `ContractInv` adds
  `Counted`: cycles and ledger have the same length while the session runs.

**Its attempts** (the second half of `HealingGraphProofs`, on top of `ContractInv`):

* `GreenCommitsAreGated`: between the gate and the commit lie the Tester, the
  immunization with its own sandbox runs and possible file errors.  `Gated` says
  that the patch validated is what differs from HEAD, and that a tree that got
  past validation still protects what the gate looked at (`Protects`).
* `CorrectorSeesItsAttempts`: `failed_attempts` is never emptied; what the
  Corrector is shown is filtered from it by cycle.  `CycleTracked` says that the
  attempts of the current error are its last `attempt_count` entries, numbered
  from 0, and everything before them is of an error already left.
* `PostMortemIsEarned`: needs the above and `RollbackHasReason`,
  `AttemptsHaveReasons`, `EndedByPostMortem`: every way into rollback leaves a
  reason, although it is cleared when the chain advances.
* `CommitsMatchTheirPatch`, also from `Gated`: leftovers of a failing reset are in
  the diff of the next attempt, so that they are validated, gated and described
  to the Reporter with it.
* `FeedbackIsCurrent` (`Feedback`: the
  output kept at each node shows the current error or none), `ResolvedIsGreen` (`ResolvedInv`).

**The suite** (`SessionSuiteProofs`), for any modules, names, errors, budget and
drafts of any length:
`SuiteIsKept`, `RecordsAreHonest`, `SuiteGrows`, `GreenIsImmunized`.  The four
properties speak of the last commit and the one before it, so that none is
inductive.  `SuiteInv` adds that until the immunization the session file is that
of the last commit up to the stub (`SuiteIsCommitted`), that what is immunized
as green passed the gate (`GateHeld`), and that the commit being prepared
already has all four (`Upheld(Staged, ...)`).

**The workers** (`WorkspaceWorkersProofs`), for any number of calls, any pool and
any other containers: `WorkersTypeCorrect`, `WhatPassedIsCommitted`,
`CommitsHoldTheirAttempt` from `OwnInv` (a call begun has ended, is awaited or
was given up; the tree holds writes of the session, of those of one attempt and
of what a reset left; what the reproduction command did not see was written by
the session, by later runs of the attempt or by calls given up), then `CleanupSparesOtherSessions` and
`CleanupIsEffective` from `WorkersInv`, which follows the snapshot and the list
of containers through the cleanup (`Listing`) and says which agents may still
write (`Stopped`).

**The fingerprints** (`ErrorSignatureProofs`), for stacks of any depth and any
exceptions, directories, files and functions: `CrashesAreIdentified`,
`FailuresAreFingerprinted`, `FailuresMatchThemselves`, `ProgressIsRecognised`.
The invariant `Printed` only says that the text is one the failure can print
and the fingerprint the one of that text; the work is in what the parsers
find in such texts.  `CrashLines` says where a traceback has its frames and
its last line, `CrashException` and `CrashLocation` what is picked from them
in either environment, `RaisingTest`, `AssertingTest` and `UnimportableTest` the
same for pytest, and `Parsed` puts the fingerprints of all failures
together.  That a set of positions has a last one (`LastPosition`) is proved by
a minimal counterexample, from the library's `WFMin`.

**Observability** (`TelemetryProofs`), for any number of runs, nodes, completions
and threads left behind: `AttributionIsRight`: main task, threads and pending
callbacks each carry the sink and the agent they were started under, and the
span of a completion has those of the call; `CountingIsRight` adds that a
completion is pending or recorded and not both, which holds because the logger
is registered once, with the first run (`PendingOnce`, `Registered`).

* `PathIsReported`: a position among the spans of a sink has a rank among those
  of nodes, and the k-th node span is that of the k-th node the run has left
  (`PathRecorded`); completions and ports take positions in between, never
  ranks.  A run that was rolled up has left the graph (`ReportsAfterwards`), so
  that later completions leave the reported path the walk.
* `CountsAreReported`: a completion is pending or recorded in the sink of its run
  (`NothingLost`), hence at the roll-up the recorded completions of an agent are
  in bijection with those it made less the pending ones; from then on whatever is
  pending for the run or recorded in its sink is late (`RestIsLate`), so that the
  counts stay true and the spans recorded between two snapshots of `aggregate`
  map one to one into the late completions.

**The delivery** (`DeliveryProofs`), for any artefacts and any budgets:
`ProbeIsShielded`, `ExitZeroIsEarned`, `PushIsEarned`.
`DeliveryInv` says that what is dirty before the session is the probe's
(`Untouched`), that its tracked part is marked while the session commits
(`Shielded`), and what is known at each exit of what was found, healed and
pushed (`NothingFound`, `HealedIsCommitted`, `Published`).

**The harnesses** (`BenchmarkProofs`, `SweBenchProofs`), for any list of branches
or instances, any budgets and any number of Ctrl+C:

* `CheckoutIsClean`, `CommitsStayApart`, `DbIsHidden` from `TreeInv`: whoever
  wrote a file of the clone is the branch under way or a call on record, and the
  database's mark is that of the branch checked out, which the checkout has to
  restore after any branch before; `ReportedIsCleanedUp`, with the thread of a
  call left behind that may still bring a container up; `ReportIsTrue` from
  `ReportInv`: rows, remaining branches and the row under way make up the list.
* `PatchesAreHealings`, `PredictionsAreFresh`, `SummaryIsWhole` from `SweInv`:
  what the first commit of an instance holds beside the test patch was leaked;
  predictions are of instances done in this run, in the order of the slice; a row that says resolved comes
  with its prediction.

The assumptions on constants say that budgets are positive, that sets of inputs
are sets of the right kind (those of `Benchmark`'s branches finite), and that
sentinels such as `None` are none of the values they stand beside (`None` is
Python's, which equals no string, number or test; in `ErrorSignature` also the
empty string of a missing field, which is no class name or location; in
`Telemetry` a report or path not made yet, which is no report or path).  One says more:
`SweBenchAssumption` takes a slice of instances without repetition, which is a
precondition on what the user passes, not something the code ensures
(`load_instances`, `run_swebench.py:349`, keeps repeated ids); with an id given
twice the instance would be predicted twice.

Only model-checked is liveness (`SandboxContainersAreRemoved`, `ProcessExits`, the
fairness part of `KeepsTheContract`): proofs with ENABLED are out of the prover's
reach.  Every other property of a passing run is stated by a theorem.

## Findings

Each of these runs checks one statement of the repository's own text and
finds the code violating it.

* `default_recursion_limit`: `heal_and_pr` and `run_benchmark` keep LangGraph's
  limit of 25 supersteps, while the default budgets allow 51.
* `mount_point`: the same crash has one fingerprint on the host and another in
  the sandbox when its deepest frame is library code or its file is in a
  subdirectory, since the sandbox's paths are compared with the host's workspace; the unchanged error then counts
  as progress and is committed.
* `resolved_not_pushed`: `run_benchmark` never pushes a resolved branch: the
  session has committed everything, and `push_and_pr` gives up when its own
  commit finds nothing staged.

Noticed without a run of their own:

* a session whose error-cycle budget ends on a chained error reports itself
  resolved (`nodes.py:432`, against `README.md:118`; `ResolvedIsGreenOrBudgetSpent`
  states what does hold); the gate does not run for a fix that changes the error
  (`nodes.py:196`, against `README.md:136`);
* a sandbox timeout leaves the container running (`docker_sandbox.py:81`, against
  `core/ports/infrastructure.py:28`);
* the wall-clock timeout cancels the await of the agent, not its thread, and its
  work is not discarded: in local mode it goes on writing the tree, and the commit
  of a later attempt sweeps that up (`swe_agent_dev.py:484`, against 209-210);
* the draft of a test is not "the first `def test_*` block" (`llm_tester.py:153`)
  but everything from there on, and the gate runs the first function only: a test
  that fails can be committed with a green fix, although "it must PASS on the
  fixed tree or it is rolled back" (`nodes.py:264-265`);
* the container of a thread left behind may come up after the last cleanup and
  outlive the process (`swe_agent_dev.py:484-499`);
* agents that timed out but never end can hold every thread of the executor: the
  cleanup, awaited without a timeout, then never begins (`swe_agent_dev.py:497`);
* the gate has no baseline: a related test that failed before the fix, or a
  wrong test kept without a gate, rejects every later green fix of its module,
  although the gate is to make sure "the fix did not break tests that were
  already passing" (`nodes.py:191-193`);
* a draft that does not parse, kept in a chained cycle, hides the whole session
  file from the gate (`regression.py:53-56`), and no test is related to a changed
  `__init__.py`; `_SKIP_DIRS` is compared with all parts of the absolute path, so
  that a workspace below a directory named `build` or `venv` has no gate;
* a snapshot that cannot be read makes the restore delete the session file
  (`nodes.py:616-635`);
* the smoke test does not "always pass on green" (`nodes.py:266`) once a draft of
  a chained cycle has made the session file unimportable;
* the spend of a run that raises, and of a Corrector that outlives its run, is
  in the spans and in no report;
* `detect_any_failure` says "everything is green" of a suite that fails only as a
  whole (`heal_and_pr.py:163-193`);
* `run_swebench.py:15` says the model patch is T..HEAD, the code takes
  base_commit..HEAD (line 161), so that files which survived a wipe end in it.

## Not modelled

* Texts: prompts, commit messages, narratives, reports and logs.  The Tester's
  and Corrector's answers are inputs.
* Which files are tests and which directories are skipped in `regression.py`
  (constants of the repository under repair), and an agent that edits the
  session file against its instructions.
* The index after a failing `git add`; a failing `git update-index`, which the
  code takes for "not tracked".
* Tokens, prices and durations of spans; `JsonlTelemetry` and `MultiTelemetry`,
  which nothing wires; a litellm that is missing or of another version.
* Settings and their validation, models and ports: they hold no state, and
  appear as constants and records.
* The demo entry point with its in-memory adapters: it runs the same graph with
  scripted answers, each of which the other modules allow.
* The SWE-bench selector, which prepares the slice once and offline.
* The GitHub Actions workflows: configuration around `heal_and_pr` whose meaning
  is GitHub's.
* Two processes on one host, except for the foreign containers of
  `WorkspaceWorkers`.

## Plan

Done, in this order: `HealingContract`, `HealingGraph` with its proofs,
`WorkspaceWorkers`, `Delivery`, `ErrorSignature`, `Benchmark`, `SweBench`,
`SessionSuite`, `Telemetry`; then the proofs of the attempts, the suite, the
workers, the telemetry, the delivery, the harnesses and the fingerprints.

Every safety property a passing run checks is proved.  What is left needs a prover
with ENABLED (the liveness properties), or code modelled in more depth: the
Corrector's agent loop and the settings are covered only as far as they decide
something above.

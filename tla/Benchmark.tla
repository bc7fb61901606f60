------------------------------ MODULE Benchmark ------------------------------
(***************************************************************************)
(* scripts/run_benchmark.py: one clone, healed branch after branch.  Each  *)
(* branch is checked out over what the one before left behind, probed by   *)
(* running main.py, healed, published and recorded; between two branches   *)
(* the agents' containers are removed.  Ctrl+C may come at any time, and a *)
(* call that timed out may go on writing the tree of a later branch.       *)
(*                                                                         *)
(* The session is HealingContract, as in Delivery.  A file is represented  *)
(* by the branch during whose run it was written.                          *)
(***************************************************************************)
EXTENDS Naturals, SequencesExt

CONSTANTS
  MaxRetries, ErrorCycleBudget, Errors, None,   \* as in HealingContract
  Branches,      \* the remote branches, as `git branch -r` lists them
  Scenarios,     \* those under the prefixes of the scenarios
  TracksDb,      \* those whose seed tracks the database the program writes
  Writes,        \* the sets of files that a run of the program or an agent writes
  CommandsFail,  \* may a git, docker or gh command fail?
  MaxSigint      \* how often Ctrl+C is pressed

Db    == "db"
Files == {"src", "stray", Db}   \* tracked everywhere, untracked, the database

ASSUME BenchmarkAssumption ==
  /\ IsFiniteSet(Branches)
  /\ Scenarios \subseteq Branches /\ TracksDb \subseteq Branches
  /\ None \notin Branches /\ Writes \subseteq SUBSET Files
  /\ CommandsFail \in BOOLEAN /\ MaxSigint \in Nat /\ None # "resolved"

VARIABLES
  pc,           \* the step about to run, "exited" at the end
  todo,         \* branches not started yet
  branch,       \* the branch checked out, None: the clone's default branch
  dirty,        \* for each file the branch whose run wrote it, None: as in HEAD
  skip,         \* is the database marked skip-worktree?
  excluded,     \* did clone_repo get the database into info/exclude?
  commits,      \* the commits made on each branch: the files with their writers
  remote,       \* what was pushed of each branch, None: nothing
  result,       \* the row of the branch under way
  rows,         \* the rows of the branches done
  report,       \* the rows written to the report, None: no report
  status, healed, attempts,   \* the session, see HealingContract
  verdict,      \* history: how the session of each branch ended
  agent,        \* an agent's container, "late" if it came up after the last cleanup
  docker_down,  \* did docker fail the last cleanup?
  straggler,    \* the branch whose timed-out call still runs, None: no call
  straggled,    \* history: the branches that left such a call behind
  starting,     \* is that call an agent whose container is not up yet?
  sigint,       \* how often Ctrl+C was pressed
  pending       \* is the cancellation it asked for still to be delivered?

treeVars    == <<branch, dirty, skip, excluded, commits>>
rowVars     == <<result, rows, report, verdict>>
sessionVars == <<status, healed, attempts>>
dockerVars  == <<agent, docker_down>>
callVars    == <<straggler, straggled, starting>>
sigVars     == <<sigint, pending>>
vars == <<pc, todo, treeVars, remote, rowVars, sessionVars, dockerVars, callVars, sigVars>>

Session == INSTANCE HealingContract

Row(name, resolved, error, pr) ==
  [branch |-> name, resolved |-> resolved, error |-> error, pr |-> pr]

\* list_remote_branches: the scenarios only, each once, in some order.
BranchList == SetToSeq(Branches \cap Scenarios)

-----------------------------------------------------------------------------
(* The working tree. *)

Tracked == {"src"} \cup IF branch \in TracksDb THEN {Db} ELSE {}

\* What git add, reset and clean -fd pass over: the marked or excluded database.
Hidden == IF (IF Db \in Tracked THEN skip ELSE excluded) THEN {Db} ELSE {}

Wrote(tree, files, who) == [f \in Files |-> IF f \in files THEN who ELSE tree[f]]

Swept(tree) == {<<f, tree[f]>> : f \in {g \in Files \ Hidden : tree[g] # None}}

\* The program runs for the branch under way.
ProgramRuns == \E files \in Writes : dirty' = Wrote(dirty, files, branch)

\* Leaves the mark; leaves untracked files.
BugKeepMark(tree) == Wrote(tree, Tracked \ Hidden, None)

\* git reset --hard, after the mark is taken off.
ResetTracked(tree) == Wrote(tree, Tracked, None)

BugNoClean(tree) == tree

\* git clean -fdx, ignored files included.
CleanUntracked(tree) == Wrote(tree, Files \ Tracked, None)

BugNeverMark(name) == FALSE

\* Marks the database of a branch that tracks it.
Mark(name) == name \in TracksDb

-----------------------------------------------------------------------------

Init ==
  /\ pc = "clone" /\ todo = <<>> /\ branch = None
  /\ dirty = [f \in Files |-> None] /\ skip = FALSE /\ excluded = FALSE
  /\ commits = [b \in Branches |-> <<>>] /\ remote = [b \in Branches |-> None]
  /\ result = None /\ rows = <<>> /\ report = None
  /\ verdict = [b \in Branches |-> None]
  /\ Session!Init
  /\ agent \in {"none", "running", "exited"} /\ docker_down = FALSE
  /\ straggler = None /\ straggled = {} /\ starting = FALSE /\ sigint = 0 /\ pending = FALSE

\* Only what `docker ps` lists, which the exited ones are not.
BugRunningOnly == agent' = IF agent = "running" THEN "none" ELSE agent

\* cleanup_all_containers: the running ones, then whatever `ps -a` still lists.
RemoveAll == agent' = "none"

CleanupAllContainers ==
  \/ RemoveAll /\ docker_down' = FALSE
  \/ CommandsFail /\ UNCHANGED agent /\ docker_down' = TRUE

\* async_main up to the loop: wipe, clone_repo, list_remote_branches, cleanup.
\* A failing write of info/exclude is only logged.
Clone ==
  /\ pc = "clone"
  /\ \/ /\ BranchList # <<>>
        /\ excluded' \in IF CommandsFail THEN BOOLEAN ELSE {TRUE}
        /\ todo' = BranchList /\ pc' = "loop"
        /\ CleanupAllContainers
     \/ /\ CommandsFail \/ BranchList = <<>>
        /\ pc' = "exited" /\ UNCHANGED <<todo, excluded, dockerVars>>
  /\ UNCHANGED <<branch, dirty, skip, commits, remote, rowVars, sessionVars,
                 callVars, sigVars>>

\* The row of the branch before serves again.
BugReuseResult(name) ==
  IF result = None THEN Row(name, FALSE, FALSE, FALSE) ELSE [result EXCEPT !.branch = name]

FreshResult(name) == Row(name, FALSE, FALSE, FALSE)

\* The loop takes the next branch, or is done.
NextBranch ==
  /\ pc = "loop"
  /\ IF todo # <<>>
       THEN /\ result' = FreshResult(Head(todo)) /\ todo' = Tail(todo)
            /\ pc' = "checkout"
       ELSE pc' = "final" /\ UNCHANGED <<result, todo>>
  /\ UNCHANGED <<treeVars, remote, rows, report, verdict, sessionVars, dockerVars,
                 callVars, sigVars>>

\* run_branch's handler: whatever raised becomes the error of the row.
Failed == pc' = "record" /\ result' = [result EXCEPT !.error = TRUE]

\* checkout_branch, any of whose last three commands may fail.
CheckoutBranch ==
  /\ pc = "checkout"
  /\ \/ /\ dirty' = CleanUntracked(ResetTracked(dirty))
        /\ branch' = result.branch /\ skip' = Mark(result.branch)
        /\ pc' = "probe" /\ UNCHANGED result
     \/ /\ CommandsFail /\ Failed /\ skip' = FALSE /\ UNCHANGED branch
        /\ dirty' \in {dirty, ResetTracked(dirty), CleanUntracked(ResetTracked(dirty))}
  /\ UNCHANGED <<todo, excluded, commits, remote, rows, report, verdict, sessionVars,
                 dockerVars, callVars, sigVars>>

\* detect_crash on the host; a main.py that is missing, hangs or exits cleanly
\* raises.  A crash starts a session.
DetectCrash ==
  /\ pc = "probe" /\ ProgramRuns
  /\ \/ /\ pc' = "session" /\ UNCHANGED result
        /\ status' = "healing" /\ healed' = <<>> /\ attempts' = 0
     \/ Failed /\ UNCHANGED sessionVars
  /\ UNCHANGED <<todo, branch, skip, excluded, commits, remote, rows, report, verdict,
                 dockerVars, callVars, sigVars>>

-----------------------------------------------------------------------------
(* The session, and what it leaves behind. *)

\* An agent's container may outlive its attempt, and a call that timed out or
\* was cancelled its await, with a container that is up or still to come.
AgentRuns ==
  /\ agent' \in {agent, "running", "exited"}
  /\ \/ UNCHANGED callVars
     \/ /\ straggler = None /\ straggler' = branch /\ straggled' = straggled \cup {branch}
        /\ starting' \in BOOLEAN

FailAttempt ==
  /\ pc = "session" /\ Session!FailAttempt /\ AgentRuns
  /\ \E files \in Writes :
       LET tree == Wrote(dirty, files, branch) IN
       \/ dirty' = Wrote(tree, Files \ Hidden, None)
       \/ CommandsFail /\ dirty' = tree
  /\ UNCHANGED <<pc, todo, branch, skip, excluded, commits, remote, rowVars,
                 docker_down, sigVars>>

Heal ==
  /\ pc = "session" /\ Session!Heal /\ AgentRuns
  /\ \E files \in Writes :
       LET tree == Wrote(dirty, files, branch) IN
       /\ commits' = [commits EXCEPT ![branch] = Append(@, Swept(tree))]
       /\ dirty' = Wrote(tree, Files \ Hidden, None)
  /\ UNCHANGED <<pc, todo, branch, skip, excluded, remote, rowVars, docker_down, sigVars>>

EndUnresolved ==
  /\ pc = "session" /\ (Session!GiveUp \/ Session!Abandon)
  /\ UNCHANGED <<pc, todo, treeVars, remote, rowVars, dockerVars, callVars, sigVars>>

\* run_branch once ainvoke has returned or raised; the pause for the last
\* telemetry is a point where a pending cancellation is delivered.
SessionOver ==
  /\ pc = "session" /\ status # "healing"
  /\ verdict' = [verdict EXCEPT ![branch] = status]
  /\ \/ status = "aborted" /\ Failed
     \/ status = "post_mortem" /\ ~pending /\ pc' = "record" /\ UNCHANGED result
     \/ status = "resolved" /\ ~pending
        /\ pc' = "publish" /\ result' = [result EXCEPT !.resolved = TRUE]
  /\ UNCHANGED <<todo, treeVars, remote, rows, report, sessionVars, dockerVars,
                 callVars, sigVars>>

\* push_and_pr up to the commit, on a branch of its own: git refuses to commit
\* when nothing is staged, and that ends it.
Publish ==
  /\ pc = "publish"
  /\ \/ /\ Swept(dirty) # {} /\ pc' = "push" /\ UNCHANGED result
        /\ commits' = [commits EXCEPT ![branch] = Append(@, Swept(dirty))]
        /\ dirty' = Wrote(dirty, Files \ Hidden, None)
     \/ /\ Swept(dirty) = {} \/ CommandsFail
        /\ pc' = "record" /\ UNCHANGED <<commits, dirty, result>>
     \/ CommandsFail /\ Failed /\ UNCHANGED <<commits, dirty>>
  /\ UNCHANGED <<todo, branch, skip, excluded, remote, rows, report, verdict,
                 sessionVars, dockerVars, callVars, sigVars>>

\* Push by force, then `gh pr create`, whose failure is only logged.
Push ==
  /\ pc = "push"
  /\ \/ /\ remote' = [remote EXCEPT ![branch] = commits[branch]] /\ pc' = "record"
        /\ \E opened \in IF CommandsFail THEN BOOLEAN ELSE {TRUE} :
             result' = [result EXCEPT !.pr = opened]
     \/ CommandsFail /\ Failed /\ UNCHANGED remote
  /\ UNCHANGED <<todo, treeVars, rows, report, verdict, sessionVars, dockerVars,
                 callVars, sigVars>>

Record ==
  /\ pc = "record" /\ pc' = "loop"
  /\ rows' = Append(rows, result) /\ CleanupAllContainers
  /\ UNCHANGED <<todo, treeVars, remote, result, report, verdict, sessionVars, callVars,
                 sigVars>>

FinalCleanup ==
  /\ pc = "final" /\ pc' = "report" /\ CleanupAllContainers
  /\ UNCHANGED <<todo, treeVars, remote, rowVars, sessionVars, callVars, sigVars>>

WriteReport ==
  /\ pc = "report" /\ pc' = "exited" /\ report' = rows
  /\ UNCHANGED <<todo, treeVars, remote, result, rows, verdict, sessionVars,
                 dockerVars, callVars, sigVars>>

-----------------------------------------------------------------------------
(* Interrupts and stragglers. *)

\* The first Ctrl+C only asks asyncio to cancel the main task.
CtrlC ==
  /\ pc # "exited" /\ sigint = 0 /\ MaxSigint > 0
  /\ sigint' = 1 /\ pending' = TRUE
  /\ UNCHANGED <<pc, todo, treeVars, remote, rowVars, sessionVars, dockerVars, callVars>>

\* The loop gives the branch up, with a row of its own, and stops.
BreakLoop ==
  /\ rows' = Append(rows, Row(result.branch, FALSE, TRUE, FALSE)) /\ pc' = "final"

\* The cancellation is delivered where run_branch awaits, inside the session.
Cancelled ==
  /\ pc = "session" /\ pending /\ pending' = FALSE /\ BreakLoop /\ AgentRuns
  /\ UNCHANGED <<todo, treeVars, remote, result, report, verdict, sessionVars,
                 docker_down, sigint>>

\* Another Ctrl+C raises KeyboardInterrupt at once: in run_branch the loop takes
\* it, anywhere else main does, which cleans up and exits without a report.
CtrlCAgain ==
  /\ sigint \in 1..MaxSigint - 1 /\ sigint' = sigint + 1
  /\ \/ pc = "session" /\ BreakLoop /\ AgentRuns /\ UNCHANGED docker_down
     \/ /\ pc \in {"checkout", "probe", "publish", "push"} /\ BreakLoop
        /\ UNCHANGED <<dockerVars, callVars>>
     \/ /\ pc \in {"clone", "loop", "record", "final", "report"}
        /\ pc' = "exited" /\ CleanupAllContainers /\ UNCHANGED <<rows, callVars>>
  /\ UNCHANGED <<todo, treeVars, remote, result, report, verdict, sessionVars, pending>>

\* A call that timed out writes the tree, whatever is checked out by then.
Straggle ==
  /\ straggler # None /\ pc # "exited"
  /\ \E files \in Writes : dirty' = Wrote(dirty, files, straggler)
  /\ UNCHANGED <<pc, todo, branch, skip, excluded, commits, remote, rowVars,
                 sessionVars, dockerVars, callVars, sigVars>>

\* The thread of a call left behind brings its container up, before the last
\* cleanup or after it.
ContainerComesUp ==
  /\ starting /\ starting' = FALSE
  /\ agent' = IF pc \in {"report", "exited"} /\ agent \in {"none", "late"}
                THEN "late" ELSE "running"
  /\ UNCHANGED <<pc, todo, treeVars, remote, rowVars, sessionVars, docker_down,
                 straggler, straggled, sigVars>>

StragglerEnds ==
  /\ straggler # None /\ straggler' = None /\ starting' = FALSE
  /\ UNCHANGED <<pc, todo, treeVars, remote, rowVars, sessionVars, dockerVars,
                 straggled, sigVars>>

Exited == pc = "exited" /\ UNCHANGED vars

Next ==
  \/ Clone \/ NextBranch \/ CheckoutBranch \/ DetectCrash
  \/ FailAttempt \/ Heal \/ EndUnresolved \/ SessionOver
  \/ Publish \/ Push \/ Record \/ FinalCleanup \/ WriteReport
  \/ CtrlC \/ Cancelled \/ CtrlCAgain
  \/ Straggle \/ ContainerComesUp \/ StragglerEnds
  \/ Exited

Spec == Init /\ [][Next]_vars

-----------------------------------------------------------------------------
(* Correctness. *)

\* checkout_branch gives every branch a clean slate: after it no file carries a
\* trace of another branch, except by a call of that branch that timed out and
\* still runs.
CheckoutStartsClean ==
  pc = "probe" => \A f \in Files : dirty[f] \in {None} \cup straggled

\* A branch's commits hold its own run's edits only, whatever was left in the
\* clone by failed resets, failed checkouts and interrupted sessions; only a
\* timed-out call carries edits of one branch into another.
ForeignEditsStayOut ==
  \A b \in Branches : \A i \in 1..Len(commits[b]) :
    \A edit \in commits[b][i] : edit[2] \in {b} \cup straggled

\* The database the program writes is in no commit, whether the branch tracks
\* it or the clone excludes it.
RuntimeDbStaysOut ==
  \A b \in Branches : \A i \in 1..Len(commits[b]) :
    \A edit \in commits[b][i] : edit[1] = Db => b \notin TracksDb /\ ~excluded

\* The report tells what happened: one row per branch in order, all of them
\* unless Ctrl+C stopped the loop; a row says resolved only if the session of its
\* branch ended so, and the row of such a branch says otherwise only if a second
\* Ctrl+C stopped the loop while the branch was published.
ReportIsTheRun ==
  report # None =>
    /\ \A i \in 1..Len(report) :
         /\ report[i].branch = BranchList[i]
         /\ report[i].resolved => verdict[report[i].branch] = "resolved"
         /\ verdict[report[i].branch] = "resolved" =>
              report[i].resolved \/ (sigint > 1 /\ i = Len(report))
    /\ Len(report) = Len(BranchList) \/ sigint > 0

\* When the report is written no agent's container is left, neither of an
\* interrupted branch nor of an earlier run, unless docker failed or a call left
\* behind brought its container up after the last cleanup.
AgentContainersGone == report # None => agent \in {"none", "late"} \/ docker_down

\* A resolved branch without an error was pushed.
ResolvedIsPushed ==
  \A i \in 1..Len(rows) :
    rows[i].resolved /\ ~rows[i].error => remote[rows[i].branch] # None
=============================================================================

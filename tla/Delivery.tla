------------------------------ MODULE Delivery ------------------------------
(***************************************************************************)
(* scripts/heal_and_pr.py: clone a repository, probe it for a failure,     *)
(* shield the files the probe rewrote, run a healing session, push the     *)
(* heal branch and open a pull request.  The process of one CI job.        *)
(*                                                                         *)
(* The session is HealingContract, which HealingGraph implements; here its *)
(* steps also run the target's program, which rewrites runtime artefacts,  *)
(* and commit or revert the working tree.  A commit is represented by the  *)
(* artefacts `git add -A` swept into it beside the fix.                    *)
(***************************************************************************)
EXTENDS Naturals, Sequences, FiniteSets

CONSTANTS
  MaxRetries, ErrorCycleBudget, Errors, None,   \* as in HealingContract
  Tracked,    \* runtime artefacts the repository tracks
  Excluded,   \* runtime artefacts the clone's info/exclude names
  Stray,      \* untracked artefacts nothing excludes
  GitMayFail  \* may a git command or the GitHub API fail?

ASSUME ArtefactAssumption ==
  /\ Tracked \cap Excluded = {} /\ Tracked \cap Stray = {} /\ Excluded \cap Stray = {}
  /\ GitMayFail \in BOOLEAN /\ None \notin 0..2

VARIABLES
  pc,         \* the step about to run, "exited" at the end
  mode,       \* "auto" (on push), "test" (--test) or "crash" (neither)
  open_pr,    \* FALSE: --no-pr
  token,      \* TRUE: GITHUB_TOKEN is set
  suite,      \* what the whole test suite does: "green", "none", "red", "hangs"
  node,       \* what the test to heal does alone, "unlisted" when none is named
  main_py,    \* what `python main.py` does
  trigger,    \* what the session is to heal, None until the probe found it
  dirty,      \* artefacts that differ from HEAD (untracked: that exist)
  probed,     \* artefacts the probe rewrote
  shielded,   \* artefacts marked skip-worktree
  commits,    \* the artefacts in each commit of the heal branch
  status, healed, attempts,    \* the session, see HealingContract
  remote,     \* the commits of the pushed heal branch, None: not pushed
  pr,         \* TRUE: the pull request is open
  exit_code   \* exit code of the process, 1 for a traceback

inputVars   == <<mode, open_pr, token, suite, node, main_py>>
sessionVars == <<status, healed, attempts>>
remoteVars  == <<remote, pr>>
vars == <<pc, inputVars, trigger, dirty, probed, shielded, commits, sessionVars,
          remoteVars, exit_code>>

Artefacts == Tracked \cup Excluded \cup Stray

Session == INSTANCE HealingContract

-----------------------------------------------------------------------------

Init ==
  /\ pc = "start"
  /\ mode \in {"auto", "test", "crash"} /\ open_pr \in BOOLEAN /\ token \in BOOLEAN
  /\ suite \in {"green", "none", "red", "hangs"}
  /\ node \in {"unlisted", "missing", "red", "green", "hangs"}
  /\ mode = "test" => node # "unlisted"
  /\ mode = "auto" /\ suite # "red" => node = "unlisted"
  /\ main_py \in {"crashes", "clean", "missing", "hangs"}
  /\ trigger = None /\ dirty = {} /\ probed = {} /\ shielded = {} /\ commits = <<>>
  /\ Session!Init
  /\ remote = None /\ pr = FALSE /\ exit_code = None

Exit(code) == pc' = "exited" /\ exit_code' = code

\* An exception nothing catches: a traceback and exit code 1.
Raise == Exit(1)

Goto(next) == pc' = next /\ UNCHANGED exit_code

\* Without a token nothing is cloned; a failing clone or checkout raises.
Start ==
  /\ pc = "start"
  /\ \/ ~token /\ Exit(1)
     \/ token /\ Goto(IF mode = "auto" THEN "probe_suite"
                      ELSE IF mode = "test" THEN "probe_node" ELSE "probe_main")
     \/ token /\ GitMayFail /\ Raise
  /\ UNCHANGED <<inputVars, trigger, dirty, probed, shielded, commits, sessionVars,
                 remoteVars>>

\* The target's own code runs on the host and may rewrite its artefacts.
HostRun ==
  \E written \in SUBSET Artefacts :
    dirty' = dirty \cup written /\ probed' = probed \cup written

\* detect_any_failure, first probe: the whole suite.  The first test it lists as
\* failing is run alone; without one main.py is tried.
ProbeSuite ==
  /\ pc = "probe_suite"
  /\ HostRun
  /\ \/ suite = "hangs" /\ Raise
     \/ suite = "red" /\ node # "unlisted" /\ Goto("probe_node")
     \/ (suite \in {"green", "none"} \/ (suite = "red" /\ node = "unlisted"))
        /\ Goto("probe_main")
  /\ UNCHANGED <<inputVars, trigger, shielded, commits, sessionVars, remoteVars>>

\* detect_failing_test: a test that passes alone is given up in auto mode, and
\* an error when it was asked for.
ProbeNode ==
  /\ pc = "probe_node"
  /\ IF node = "missing" THEN UNCHANGED <<dirty, probed>> ELSE HostRun
  /\ \/ node = "red" /\ Goto("shield") /\ trigger' = "test"
     \/ node = "green" /\ mode = "auto" /\ Goto("probe_main") /\ UNCHANGED trigger
     \/ (node \in {"missing", "hangs"} \/ (node = "green" /\ mode = "test"))
        /\ Raise /\ UNCHANGED trigger
  /\ UNCHANGED <<inputVars, shielded, commits, sessionVars, remoteVars>>

\* detect_crash, and what its caller makes of a main.py that exits cleanly.
ProbeMain ==
  /\ pc = "probe_main"
  /\ IF main_py = "missing" THEN UNCHANGED <<dirty, probed>> ELSE HostRun
  /\ \/ main_py = "crashes" /\ Goto("shield") /\ trigger' = "crash"
     \/ main_py \in {"clean", "missing"} /\ mode = "auto" /\ Exit(0) /\ UNCHANGED trigger
     \/ (main_py = "hangs" \/ (main_py \in {"clean", "missing"} /\ mode = "crash"))
        /\ Raise /\ UNCHANGED trigger
  /\ UNCHANGED <<inputVars, shielded, commits, sessionVars, remoteVars>>

\* Restores the files without marking them.
BugRestoreOnly == dirty' = dirty \ Tracked /\ shielded' = {}

RestoreAndMark ==
  dirty' = dirty \ Tracked /\ shielded' = dirty \cap Tracked

\* shield_runtime_artifacts: a git command that fails on one of the paths leaves
\* the session unstarted.
Shield ==
  /\ pc = "shield"
  /\ \/ RestoreAndMark /\ Goto("session")
     \/ GitMayFail /\ UNCHANGED <<dirty, shielded>> /\ Raise
  /\ UNCHANGED <<inputVars, trigger, probed, commits, sessionVars, remoteVars>>

-----------------------------------------------------------------------------
(* The session's steps and what they do to the working tree. *)

\* git add -A sees neither the marked nor the excluded files.
Swept(files) == files \ (shielded \cup Excluded)

\* git reset --hard and git clean -fd see the same files; a reset that failed
\* is swallowed by the session and reverts nothing.
Revert(files) ==
  \/ dirty' = files \ Swept(files)
  \/ GitMayFail /\ dirty' = files

\* An attempt runs the program, in the Corrector's container and the sandbox.
FailAttempt ==
  /\ pc = "session" /\ Session!FailAttempt
  /\ \E written \in SUBSET Artefacts : Revert(dirty \cup written)
  /\ UNCHANGED <<pc, inputVars, trigger, probed, shielded, commits, remoteVars,
                 exit_code>>

Heal ==
  /\ pc = "session" /\ Session!Heal
  /\ \E written \in SUBSET Artefacts :
       /\ commits' = Append(commits, Swept(dirty \cup written))
       /\ dirty' = (dirty \cup written) \ Swept(dirty \cup written)
  /\ UNCHANGED <<pc, inputVars, trigger, probed, shielded, remoteVars, exit_code>>

EndUnresolved ==
  /\ pc = "session" /\ (Session!GiveUp \/ Session!Abandon)
  /\ UNCHANGED <<pc, inputVars, trigger, dirty, probed, shielded, commits,
                 remoteVars, exit_code>>

\* Pushes whatever the session committed.
BugPushUnresolved == IF open_pr THEN Goto("push") ELSE Exit(0)

\* What becomes of a session that wrote a post-mortem.
OnPostMortem == Exit(2)

\* heal_and_pr once ainvoke has returned or raised.
SessionOver ==
  /\ pc = "session"
  /\ \/ status = "aborted" /\ Raise
     \/ status = "post_mortem" /\ OnPostMortem
     \/ status = "resolved" /\ IF open_pr THEN Goto("push") ELSE Exit(0)
  /\ UNCHANGED <<inputVars, trigger, dirty, probed, shielded, commits, sessionVars,
                 remoteVars>>

\* GitHubAdapter.push_branch: HEAD, by force.
Push ==
  /\ pc = "push"
  /\ \/ remote' = commits /\ Goto("open_pr")
     \/ GitMayFail /\ UNCHANGED remote /\ Raise
  /\ UNCHANGED <<inputVars, trigger, dirty, probed, shielded, commits, sessionVars, pr>>

\* Takes any answer of the API for success.
BugIgnoreStatus(status201) == Exit(0)

\* open_pull_request raises on any status but 201.
OnResponse(status201) == IF status201 THEN Exit(0) ELSE Raise

OpenPullRequest ==
  /\ pc = "open_pr"
  /\ \E created \in IF GitMayFail THEN BOOLEAN ELSE {TRUE} :
       pr' = created /\ OnResponse(created)
  /\ UNCHANGED <<inputVars, trigger, dirty, probed, shielded, commits, sessionVars,
                 remote>>

Exited == pc = "exited" /\ UNCHANGED vars

Next ==
  \/ Start
  \/ ProbeSuite
  \/ ProbeNode
  \/ ProbeMain
  \/ Shield
  \/ FailAttempt
  \/ Heal
  \/ EndUnresolved
  \/ SessionOver
  \/ Push
  \/ OpenPullRequest
  \/ Exited

Spec == Init /\ [][Next]_vars

-----------------------------------------------------------------------------
(* Correctness. *)

\* No file the probe rewrote on the host ends in a commit of the heal branch,
\* however often the later runs rewrite it: tracked ones are shielded, the
\* excluded ones invisible.  What nothing excludes is swept.
ProbeArtefactsStayOut ==
  \A i \in 1..Len(commits) : commits[i] \cap probed \subseteq Stray

\* What exit code 0 tells CI: main.py does not crash and no test fails on its
\* own (a suite that fails only as a whole is passed over), or the session
\* resolved it and the pull request asked for is open with all of its commits.
ExitZeroKeepsItsWord ==
  exit_code = 0 =>
    \/ /\ trigger = None /\ mode = "auto" /\ main_py \in {"clean", "missing"}
       /\ suite = "red" => node \in {"unlisted", "green"}
    \/ /\ status = "resolved" /\ Len(commits) = Len(healed) /\ commits # <<>>
       /\ open_pr => pr /\ remote = commits

\* Nothing leaves the machine unless the session resolved what it was given.
OnlyResolvedIsPushed == remote # None \/ pr => status = "resolved" /\ open_pr
=============================================================================

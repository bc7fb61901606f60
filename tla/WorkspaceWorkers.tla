-------------------------- MODULE WorkspaceWorkers --------------------------
(***************************************************************************)
(* Who writes the working tree, and when: the session's coroutine, the     *)
(* worker threads behind MiniSWEFixer._run_agent and DockerSandbox         *)
(* .run_tests (both asyncio.wait_for around asyncio.to_thread), and the    *)
(* Docker containers these start, which mount the tree read-write.         *)
(*                                                                         *)
(* A timeout cancels the await, not the thread: a call that timed out goes *)
(* on beside the rest of the session.                                      *)
(*                                                                         *)
(* The session is its calls, its own writes and its git operations; how    *)
(* the nodes decide is in HealingGraph and chosen here.  The tree is the   *)
(* set of those who wrote it since HEAD, so that whose edits a commit      *)
(* holds can be told: a writer is a call, or 0 for the session's own       *)
(* coroutine, which appends to the session file.                           *)
(***************************************************************************)
EXTENDS Naturals, Sequences, FiniteSets

CONSTANTS
  MaxCalls,       \* bound: fixer and sandbox calls of one session
  PoolSize,       \* threads of the event loop's default executor
  DockerMayFail,  \* may the docker daemon or command line fail?
  GitMayFail,     \* may git raise GitOperationError, or git diff fail?
  Foreign,        \* agent containers of other sessions on the same host
  None

ASSUME CallsAssumption ==
  /\ MaxCalls \in Nat \ {0} /\ PoolSize \in Nat \ {0}
  /\ DockerMayFail \in BOOLEAN /\ GitMayFail \in BOOLEAN
  /\ Foreign \cap (1..MaxCalls) = {}
  /\ None \notin {"answer", "error", "passed", "failed"}

Calls   == 1..MaxCalls
Writers == 0..MaxCalls

VARIABLES
  pc,             \* where the session's coroutine is
  call,           \* the latest call, 0 before the first
  attempt,        \* the agent call of the latest attempt, 0 before the first
  kind,           \* "agent" or "sandbox", per call
  stage,          \* the thread of the call
  container,      \* the container of the call
  outcome,        \* what the thread returned or raised, None before
  timed_out,      \* the calls whose await was cancelled by its timeout
  observed,       \* the writers of the tree a sandbox command finished on
  foreign,        \* the containers of the other sessions: running or killed
  existing_ids,   \* _run_agent's snapshot of the containers that are not its own
  new_ids,        \* _kill_new_containers' list of the ones to stop
  late,           \* calls whose container started after the listing of their attempt
  tree,           \* the writers of the working tree
  unreset,        \* those that a failing reset left in it
  commits,        \* [attempt, call, tree, observed, unreset] of every commit
  use_docker,     \* Settings.sweagent_use_docker
  docker_failed   \* some docker command has failed

threadVars == <<kind, stage, container, outcome, observed, late>>
dockerVars == <<foreign, existing_ids, new_ids>>
sessionVars == <<pc, call, attempt, timed_out, commits, unreset>>
vars == <<threadVars, dockerVars, sessionVars, tree, use_docker, docker_failed>>

\* Where the session awaits a sandbox run: of the reproduction command, of the
\* no-regression gate, of the Tester's test and of the smoke test.
Runs == {"repro", "gate", "targeted", "smoke"}

Live == {"queued", "starting", "running", "removing"}

\* The calls the session no longer waits for.
Stragglers == {c \in Calls : stage[c] \in Live /\ c \in timed_out}

\* A docker command works, or fails and is remembered to have failed.
DockerWorks == UNCHANGED docker_failed
DockerFails == DockerMayFail /\ docker_failed' = TRUE

-----------------------------------------------------------------------------
(* The session. *)

Init ==
  /\ pc = "fix" /\ call = 0 /\ attempt = 0
  /\ kind = [c \in Calls |-> "agent"]
  /\ stage = [c \in Calls |-> "none"] /\ container = [c \in Calls |-> "none"]
  /\ outcome = [c \in Calls |-> None] /\ observed = [c \in Calls |-> {}]
  /\ timed_out = {} /\ late = {}
  /\ foreign = [f \in Foreign |-> "running"]
  /\ existing_ids = {} /\ new_ids = {}
  /\ tree \in {{}, {0}}      \* the header of the session file, on crash entry
  /\ unreset = {} /\ commits = <<>>
  /\ use_docker \in BOOLEAN /\ docker_failed = FALSE

\* The agent containers `docker ps` shows.
RunningAgents ==
  {c \in Calls : kind[c] = "agent" /\ container[c] = "running"}
    \cup {f \in Foreign : foreign[f] = "running"}

\* Takes no snapshot.
BugNoSnapshot == {}

Snapshot == IF use_docker THEN RunningAgents ELSE {}

\* A call begins: its thread waits for a place in the executor.
Begin(k) ==
  /\ call < MaxCalls
  /\ call' = call + 1
  /\ kind' = [kind EXCEPT ![call'] = k]
  /\ stage' = [stage EXCEPT ![call'] = "queued"]
  /\ UNCHANGED <<container, outcome, observed, late, timed_out, commits, unreset>>

\* MiniSWEFixer._run_agent up to the await: the snapshot, then the thread.  A
\* failing `docker ps` counts as no container at all.
StartFix ==
  /\ pc = "fix"
  /\ \/ DockerWorks /\ existing_ids' = Snapshot
     \/ use_docker /\ DockerFails /\ existing_ids' = {}
  /\ Begin("agent")
  /\ pc' = "agent" /\ attempt' = call'
  /\ UNCHANGED <<foreign, new_ids, tree, use_docker>>

\* Returns before the thread is done.
BugNotAwaited(c) == stage[c] \in {"running", "done"}

Returned(c) == stage[c] = "done"

\* What the session keeps while it awaits, lists and decides.
KeepsWork == UNCHANGED <<call, attempt, commits, unreset, use_docker>>

\* No cleanup on the way out.
BugSkipCleanup == "diff"

AfterAgent == IF use_docker THEN "list" ELSE "diff"

\* A timeout drops a call still queued; a thread that has begun goes on.
Cancelled(c) ==
  stage' = [stage EXCEPT ![c] = IF @ = "queued" THEN "done" ELSE @]

\* The await of the agent ends, by the thread's answer or by the timeout.
AgentReturns ==
  /\ pc = "agent" /\ Returned(call)
  /\ pc' = AfterAgent
  /\ KeepsWork /\ UNCHANGED <<threadVars, dockerVars, timed_out, tree, docker_failed>>

GivesUp ==
  /\ ~Returned(call)
  /\ timed_out' = timed_out \cup {call}
  /\ Cancelled(call)
  /\ UNCHANGED <<kind, container, outcome, observed, late>>

AgentTimesOut ==
  /\ pc = "agent" /\ GivesUp
  /\ pc' = AfterAgent
  /\ KeepsWork /\ UNCHANGED <<dockerVars, tree, docker_failed>>

ThreadsBusy == Cardinality({c \in Calls : stage[c] \in Live \ {"queued"}})

\* What the session itself hands to the executor waits for a free thread too.
ThreadFree == ThreadsBusy < PoolSize

\* _kill_new_containers lists the containers, then stops each of the new ones.
ListNewContainers ==
  /\ pc = "list" /\ ThreadFree
  /\ \/ DockerWorks /\ new_ids' = RunningAgents \ existing_ids
     \/ DockerFails /\ new_ids' = {}
  /\ pc' = "kill"
  /\ KeepsWork /\ UNCHANGED <<threadVars, foreign, existing_ids, timed_out, tree>>

Stop(ids) ==
  /\ container' = [c \in Calls |-> IF c \in ids THEN "removed" ELSE container[c]]
  /\ foreign' = [f \in Foreign |-> IF f \in ids THEN "killed" ELSE foreign[f]]

KillNewContainers ==
  /\ pc = "kill"
  /\ \/ DockerWorks /\ Stop(new_ids)
     \/ DockerFails /\ \E stopped \in SUBSET new_ids : Stop(stopped)
  /\ existing_ids' = {} /\ new_ids' = {}
  /\ pc' = "diff"
  /\ KeepsWork /\ UNCHANGED <<kind, stage, outcome, observed, late, timed_out, tree>>

\* MiniSWEFixer.fix after _run_agent: no patch without an answer and a diff.  What
\* is no FixGenerationError (the library's own exceptions) leaves the session.
CaptureDiff ==
  /\ pc = "diff"
  /\ \/ pc' = "validate" /\ outcome[call] = "answer" /\ tree # {}
     \/ pc' = "rollback" /\ (outcome[call] # "answer" \/ tree = {} \/ GitMayFail)
     \/ pc' = "end" /\ outcome[call] = "error"
  /\ KeepsWork /\ UNCHANGED <<threadVars, dockerVars, timed_out, tree, docker_failed>>

\* validate_node runs the reproduction command and, once it passed, the gate.
Validate ==
  /\ \/ pc = "validate" /\ pc' = "repro"
     \/ pc = "regression" /\ pc' = "gate"
  /\ Begin("sandbox")
  /\ UNCHANGED <<attempt, dockerVars, tree, use_docker, docker_failed>>

\* The reproduction command of the attempt passed.
Green == outcome[attempt + 1] = "passed"

\* immunize_node without a sandbox run: no test at all (test entry, or the Tester
\* fails on a red tree), or one appended ungated to a red tree; what the Tester
\* raises besides TestGenerationError leaves the session.
ImmunizeUngated ==
  /\ pc = "immunize"
  /\ \/ pc' = "commit" /\ tree' = tree
     \/ pc' = "commit" /\ ~Green /\ tree' = tree \cup {0}
     \/ pc' = "end" /\ tree' = tree
  /\ KeepsWork /\ UNCHANGED <<threadVars, dockerVars, timed_out, docker_failed>>

\* _gate_and_keep up to its run: the Tester's test is appended, or the smoke test
\* when there is none; a failing write is only logged.
ImmunizeGated ==
  /\ pc \in {"immunize", "fallback"} /\ Green
  /\ pc' \in IF pc = "immunize" THEN {"targeted", "smoke"} ELSE {"smoke"}
  /\ tree' \in {tree, tree \cup {0}}
  /\ Begin("sandbox")
  /\ UNCHANGED <<attempt, dockerVars, use_docker, docker_failed>>

\* Where a verdict takes the session.  A failed reproduction command may show
\* another error, which is progress; a failed gate may have collected no test.
After(run, verdict) ==
  CASE run = "repro" /\ verdict = "passed" -> {"regression", "immunize"}
    [] run = "gate"  /\ verdict = "passed" -> {"immunize"}
    [] run \in {"repro", "gate"} /\ verdict = "failed" -> {"immunize", "rollback"}
    [] run \in {"repro", "gate"} /\ verdict \notin {"passed", "failed"} -> {"rollback"}
    [] run = "targeted" /\ verdict # "passed" -> {"fallback"}
    [] OTHER -> {"commit"}

\* The await of a run ends: a test that did not pass leaves the session file,
\* unless restoring it fails.
RunEnds(verdict) ==
  /\ pc \in Runs
  /\ pc' \in After(pc, verdict)
  /\ tree' \in IF pc \in {"targeted", "smoke"} /\ verdict # "passed"
                 THEN {tree, tree \ {0}} ELSE {tree}
  /\ KeepsWork /\ UNCHANGED <<dockerVars, docker_failed>>

SandboxReturns ==
  /\ RunEnds(outcome[call]) /\ Returned(call)
  /\ UNCHANGED <<threadVars, timed_out>>

SandboxTimesOut == RunEnds("error") /\ GivesUp

\* After a commit the session may heal a chained error or be over; a commit that
\* raises ends it.
Commit ==
  /\ pc = "commit" /\ ThreadFree
  /\ \/ /\ commits' = Append(commits,
              [attempt |-> attempt, call |-> call, tree |-> tree,
               observed |-> observed[attempt + 1], unreset |-> unreset])
        /\ tree' = {} /\ unreset' = {}
        /\ pc' \in {"fix", "end"}
     \/ GitMayFail /\ pc' = "end" /\ UNCHANGED <<commits, tree, unreset>>
  /\ UNCHANGED <<threadVars, dockerVars, call, attempt, timed_out, use_docker,
                 docker_failed>>

\* Forgets the reset.
BugKeepEdits == tree

ResetTree == {}

\* After a rollback the session retries or gives up, and it does so even when
\* the reset failed, half done or not done at all.
Rollback ==
  /\ pc = "rollback" /\ ThreadFree
  /\ \/ tree' = ResetTree /\ unreset' = {}
     \/ GitMayFail /\ tree' \in SUBSET tree /\ unreset' = tree'
  /\ pc' \in {"fix", "end"}
  /\ UNCHANGED <<threadVars, dockerVars, call, attempt, timed_out, commits,
                 use_docker, docker_failed>>

\* MaxCalls stands for the budgets of the session.
OutOfCalls ==
  /\ pc \in {"fix", "validate", "regression", "immunize", "fallback"}
  /\ call = MaxCalls
  /\ pc' = "end"
  /\ KeepsWork /\ UNCHANGED <<threadVars, dockerVars, timed_out, tree, docker_failed>>

\* The process waits for the threads of the executor before it exits.
Exit ==
  /\ pc = "end" /\ \A c \in Calls : stage[c] \notin Live
  /\ pc' = "exited"
  /\ KeepsWork /\ UNCHANGED <<threadVars, dockerVars, timed_out, tree, docker_failed>>

Session ==
  \/ StartFix \/ AgentReturns \/ AgentTimesOut
  \/ ListNewContainers \/ KillNewContainers \/ CaptureDiff
  \/ Validate \/ ImmunizeUngated \/ ImmunizeGated
  \/ SandboxReturns \/ SandboxTimesOut
  \/ Commit \/ Rollback \/ OutOfCalls \/ Exit

-----------------------------------------------------------------------------
(* The threads and what runs in their containers. *)

\* The executor gives its next free thread to the oldest queued call.
Pick(c) ==
  /\ stage[c] = "queued" /\ ThreadFree
  /\ \A d \in 1..(c - 1) : stage[d] # "queued"
  /\ stage' = [stage EXCEPT ![c] = "starting"]
  /\ UNCHANGED <<kind, container, outcome, observed, late, dockerVars,
                 sessionVars, tree, use_docker, docker_failed>>

\* A cancelled future drops the result of its thread.
Answer(c, result) ==
  outcome' = [outcome EXCEPT ![c] = IF c \in timed_out THEN @ ELSE result]

End(c, result) == Answer(c, result) /\ stage' = [stage EXCEPT ![c] = "done"]

\* The container comes up; images may have to be pulled first, so it may do so
\* after the call has timed out and its attempt has listed the containers.
ContainerStarts(c) ==
  /\ stage[c] = "starting"
  /\ stage' = [stage EXCEPT ![c] = "running"]
  /\ container' = [container EXCEPT ![c] =
       IF kind[c] = "sandbox" \/ use_docker THEN "running" ELSE "none"]
  /\ late' = IF kind[c] = "agent" /\ (call # c \/ pc \notin {"agent", "list"})
               THEN late \cup {c} ELSE late
  /\ UNCHANGED <<kind, outcome, observed, dockerVars, sessionVars, tree,
                 use_docker, docker_failed>>

\* No client, no image, no daemon: the thread raises.
ContainerFails(c) ==
  /\ stage[c] = "starting" /\ (kind[c] = "sandbox" \/ use_docker)
  /\ DockerFails
  /\ End(c, "error")
  /\ UNCHANGED <<kind, container, observed, late, dockerVars, sessionVars, tree,
                 use_docker>>

\* What runs in the thread's environment can write the mounted tree.
CanWrite(c) ==
  /\ stage[c] = "running"
  /\ container[c] = "running" \/ (kind[c] = "agent" /\ ~use_docker)

\* The agent edits the sources; the sandboxed program leaves its artefacts (as far
\* as git tracks them: what it ignores is neither committed nor reset).
Write(c) ==
  /\ CanWrite(c) /\ c \notin tree
  /\ tree' = tree \cup {c}
  /\ UNCHANGED <<threadVars, dockerVars, sessionVars, use_docker, docker_failed>>

\* _blocking of the fixer ends, if ever: by default the agent loop has no step
\* limit.  The environment's own cleanup works or (on Windows) silently does not.
AgentEnds(c) ==
  /\ stage[c] = "running" /\ kind[c] = "agent"
  /\ \E result \in {"answer", "error"} : End(c, result)
  /\ container' = [container EXCEPT ![c] =
       IF @ = "running" THEN "removed" ELSE @]
  /\ UNCHANGED <<kind, observed, late, dockerVars, sessionVars, tree, use_docker,
                 docker_failed>>

AgentEndsUnclean(c) ==
  /\ stage[c] = "running" /\ kind[c] = "agent" /\ container[c] = "running"
  /\ \E result \in {"answer", "error"} : End(c, result)
  /\ UNCHANGED <<kind, container, observed, late, dockerVars, sessionVars, tree,
                 use_docker, docker_failed>>

\* The sandboxed command exits: container.wait returns its exit code.
CommandExits(c) ==
  /\ stage[c] = "running" /\ kind[c] = "sandbox"
  /\ stage' = [stage EXCEPT ![c] = "removing"]
  /\ container' = [container EXCEPT ![c] = "exited"]
  /\ observed' = [observed EXCEPT ![c] = IF c \in timed_out THEN @ ELSE tree]
  /\ \E verdict \in {"passed", "failed"} : Answer(c, verdict)
  /\ UNCHANGED <<kind, late, dockerVars, sessionVars, tree, use_docker,
                 docker_failed>>

\* container.wait without its timeout.
BugWaitForever == FALSE

WaitHasTimeout == TRUE

\* container.wait gives up after its own timeout; the command still runs.
WaitTimesOut(c) ==
  /\ WaitHasTimeout
  /\ stage[c] = "running" /\ kind[c] = "sandbox"
  /\ stage' = [stage EXCEPT ![c] = "removing"]
  /\ Answer(c, "error")
  /\ UNCHANGED <<kind, container, observed, late, dockerVars, sessionVars, tree,
                 use_docker, docker_failed>>

\* Removes a container only after its command exited.
BugRemoveExited(c) == IF container[c] = "exited" THEN "removed" ELSE container[c]

\* container.remove(force=True) stops a running command as well.
Removed(c) == "removed"

\* The finally of _run_blocking; a failing removal is only logged.
RemoveContainer(c) ==
  /\ stage[c] = "removing"
  /\ \/ DockerWorks /\ container' = [container EXCEPT ![c] = Removed(c)]
     \/ DockerFails /\ UNCHANGED container
  /\ stage' = [stage EXCEPT ![c] = "done"]
  /\ UNCHANGED <<kind, outcome, observed, late, dockerVars, sessionVars, tree,
                 use_docker>>

Thread(c) ==
  \/ Pick(c) \/ ContainerStarts(c) \/ ContainerFails(c)
  \/ WaitTimesOut(c) \/ RemoveContainer(c)

\* What the agent and the sandboxed program do, of themselves.
Program(c) == Write(c) \/ CommandExits(c) \/ AgentEnds(c) \/ AgentEndsUnclean(c)

Exited == pc = "exited" /\ UNCHANGED vars

Next ==
  \/ Session
  \/ \E c \in Calls : Thread(c)
  \/ \E c \in Calls : Program(c)
  \/ Exited

\* The event loop and the operating system schedule the coroutine and every
\* thread, and container.wait is bounded by its timeout.  Nothing makes an agent
\* or the program in a sandbox ever end.
Spec ==
  /\ Init /\ [][Next]_vars
  /\ WF_vars(Session)
  /\ \A c \in Calls : WF_vars(Thread(c))

-----------------------------------------------------------------------------
(* Correctness. *)

Commits == [attempt : Writers, call : Writers, tree : SUBSET Writers,
            observed : SUBSET Writers, unreset : SUBSET Writers]

\* Every variable has its type.
TypeOK ==
  /\ pc \in {"fix", "agent", "list", "kill", "diff", "validate", "regression",
             "immunize", "fallback", "commit", "rollback", "end", "exited"} \cup Runs
  /\ call \in 0..MaxCalls /\ attempt \in 0..MaxCalls
  /\ kind \in [Calls -> {"agent", "sandbox"}]
  /\ stage \in [Calls -> Live \cup {"none", "done"}]
  /\ container \in [Calls -> {"none", "running", "exited", "removed"}]
  /\ outcome \in [Calls -> {"answer", "error", "passed", "failed", None}]
  /\ observed \in [Calls -> SUBSET Writers]
  /\ timed_out \subseteq Calls /\ late \subseteq Calls
  /\ tree \subseteq Writers /\ unreset \subseteq Writers
  /\ foreign \in [Foreign -> {"running", "killed"}]
  /\ existing_ids \subseteq Calls \cup Foreign /\ new_ids \subseteq Calls \cup Foreign
  /\ commits \in Seq(Commits)
  /\ use_docker \in BOOLEAN /\ docker_failed \in BOOLEAN

\* What is committed is what the reproduction command judged: all of it, and
\* nothing that came after its exit but the session file, the artefacts of the
\* gate runs of the same attempt, and the writes of calls that had timed out.
CommitIsWhatPassed ==
  \A i \in 1..Len(commits) :
    LET c == commits[i]
    IN  /\ c.observed \ {0} \subseteq c.tree
        /\ c.tree \ c.observed \subseteq {0} \cup (c.attempt + 2)..c.call \cup timed_out

\* A commit holds the writes of the session and of the calls of one attempt; any
\* other is of a call that outlived its timeout, or survived a failing reset.
CommitHoldsOneAttempt ==
  \A i \in 1..Len(commits) :
    LET c == commits[i]
    IN  c.tree \subseteq {0} \cup c.attempt..c.call \cup timed_out \cup c.unreset

\* In Docker mode an agent that timed out writes no more once its attempt has
\* cleaned up, unless its container came up after the attempt listed them.
CleanupStopsTheAgent ==
  use_docker /\ ~docker_failed =>
    \A c \in Stragglers \ late :
      kind[c] = "agent" /\ (call # c \/ pc \notin {"agent", "list", "kill"})
        => ~CanWrite(c)

\* While docker answers, the cleanup of an attempt never stops the container of
\* another session that was there before.
OtherSessionsSurvive ==
  ~docker_failed => \A f \in Foreign : foreign[f] = "running"

\* Every sandbox container is removed in the end, by a late thread if need be,
\* even when its command hangs.
SandboxContainersAreRemoved ==
  <>[](docker_failed \/ \A c \in Calls :
         kind[c] = "sandbox" => container[c] \in {"none", "removed"})

\* The process ends, unless the thread of some agent runs for ever: nothing else,
\* not even a hanging command or a lost docker daemon, keeps it from exiting.
ProcessExits ==
  \/ <>(pc = "exited")
  \/ <>[](\E c \in Calls : kind[c] = "agent" /\ stage[c] = "running")
=============================================================================

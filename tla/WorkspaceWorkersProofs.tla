------------------------ MODULE WorkspaceWorkersProofs ------------------------
(***************************************************************************)
(* Whose edits a commit holds and whose containers a cleanup stops, for    *)
(* any number of calls, any executor and any other sessions on the host.   *)
(***************************************************************************)
EXTENDS WorkspaceWorkers, TLAPS

\* Where the session waits for a thread.
Awaiting == {"agent"} \cup Runs

\* Where the reproduction command of the attempt has been judged.
Judged == {"regression", "gate", "immunize", "targeted", "fallback", "smoke", "commit"}

\* Where an attempt is under way.
Trying == {"agent", "list", "kill", "diff", "validate", "repro", "rollback"} \cup Judged

\* A call that was begun has ended, unless it is awaited or was given up.
CallsEnd ==
  /\ pc \in Awaiting => call \notin timed_out
  /\ timed_out \subseteq 1..call
  /\ \A c \in Calls :
       /\ c > call => stage[c] = "none"
       /\ stage[c] \in Live => c \in timed_out \/ (c = call /\ pc \in Awaiting)

\* The calls of an attempt: the agent, the reproduction command, the gate runs.
CallOrder ==
  /\ attempt <= call
  /\ pc \in {"agent", "list", "kill", "diff", "validate"} => attempt >= 1 /\ call = attempt
  /\ pc = "repro" => attempt >= 1 /\ call = attempt + 1
  /\ pc \in Judged => attempt >= 1 /\ call >= attempt + 1

\* A thread answers when it ends.
AnsweredAtEnd ==
  \A c \in Calls :
    stage[c] \in {"none", "queued", "starting", "running"} => outcome[c] = None

\* Calls given up and what survived a failing reset aside, only the session and
\* the calls of the attempt under way wrote the tree.
TreeOwned ==
  /\ pc = "fix" => tree \subseteq {0} \cup timed_out \cup unreset
  /\ pc \in Trying => tree \subseteq {0} \cup attempt..call \cup timed_out \cup unreset

\* Once the reproduction command has exited, what it saw stays in the tree, and
\* only the session, the gate runs and calls given up add to it.
ObservedAtExit ==
  (pc = "repro" /\ outcome[call] \in {"passed", "failed"}) \/ pc \in Judged =>
    /\ stage[attempt + 1] \in {"removing", "done"}
    /\ observed[attempt + 1] \ {0} \subseteq tree
    /\ tree \ observed[attempt + 1] \subseteq {0} \cup (attempt + 2)..call \cup timed_out

OwnEdits ==
  /\ CallsEnd /\ CallOrder /\ AnsweredAtEnd /\ TreeOwned /\ ObservedAtExit
  /\ CommitIsWhatPassed /\ CommitHoldsOneAttempt

\* While docker answers: the snapshot holds the foreign containers and not the
\* one of the call, and so the list of the ones to stop holds no foreign one,
\* and the one of the call if it was up in time.
Listing ==
  /\ \A f \in Foreign : foreign[f] = "running"
  /\ pc \in {"agent", "list"} /\ use_docker =>
       Foreign \subseteq existing_ids /\ \A c \in Calls : c >= call => c \notin existing_ids
  /\ pc = "kill" =>
       /\ new_ids \cap Foreign = {}
       /\ kind[call] = "agent" /\ stage[call] = "running" /\ container[call] = "running"
            => call \in late \cup new_ids

Listed == ~docker_failed => Listing

\* Only an agent whose attempt has not cleaned up yet runs in a container, or
\* one whose container came up too late.
Stopped ==
  use_docker /\ ~docker_failed =>
    \A c \in Calls \ late :
      kind[c] = "agent" /\ stage[c] = "running" /\ container[c] = "running"
        => c = call /\ pc \in {"agent", "list", "kill"}

\* A call that has not started has no running container.
NotStarted ==
  \A c \in Calls : stage[c] \in {"none", "queued", "starting"} => container[c] # "running"

OwnContainers ==
  /\ pc \in {"list", "kill"} => use_docker
  /\ NotStarted /\ Listed /\ Stopped

WorkersInv == TypeOK /\ OwnEdits /\ OwnContainers

LEMMA Constants == /\ MaxCalls \in Nat \ {0} /\ Calls = 1..MaxCalls
                   /\ Writers = 0..MaxCalls
                   /\ \A f \in Foreign : f \notin Calls
BY CallsAssumption DEF Calls, Writers

\* A step of the session or of a thread, the final stutter aside.
SessionStep == Session
WorkStep(c) == Thread(c) \/ Program(c)

LEMMA StepCases ==
  ASSUME [Next]_vars
  PROVE  SessionStep \/ (\E c \in Calls : WorkStep(c)) \/ UNCHANGED vars
BY DEF Next, Exited, SessionStep, WorkStep

-----------------------------------------------------------------------------
(* Type correctness. *)

\* A commit and a timeout name the call, of which CallOrder says that there is one.
LEMMA SessionTypes == ASSUME TypeOK, CallsEnd, CallOrder, SessionStep PROVE TypeOK'
<1> USE DEF TypeOK, threadVars, dockerVars, DockerWorks, DockerFails, KeepsWork
<1>0. /\ MaxCalls \in Nat \ {0} /\ Calls = 1..MaxCalls /\ Writers = 0..MaxCalls
  BY Constants
<1>1. RunningAgents \subseteq Calls \cup Foreign
  BY DEF RunningAgents
<1>2. ASSUME NEW k \in {"agent", "sandbox"}, Begin(k)
      PROVE  /\ call' \in 0..MaxCalls /\ kind' \in [Calls -> {"agent", "sandbox"}]
             /\ stage' \in [Calls -> Live \cup {"none", "done"}]
             /\ UNCHANGED <<container, outcome, observed, late, timed_out, commits, unreset>>
  BY <1>0, <1>2 DEF Begin, Live
<1>3. CASE StartFix
  BY <1>1, <1>2, <1>3 DEF StartFix, Snapshot
<1>4. CASE Validate
  BY <1>2, <1>4 DEF Validate, Runs
<1>5. CASE AgentReturns
  BY <1>5 DEF AgentReturns, AfterAgent
<1>6. ASSUME GivesUp, pc \in {"agent"} \cup Runs
      PROVE  /\ stage' \in [Calls -> Live \cup {"none", "done"}] /\ timed_out' \subseteq Calls
             /\ UNCHANGED <<kind, container, outcome, observed, late>>
  <2>1. call \in Calls
    BY <1>0, <1>6 DEF CallOrder, Runs, Judged
  <2>2. stage' \in [Calls -> Live \cup {"none", "done"}]
    BY <1>6 DEF GivesUp, Cancelled, Live
  <2>3. QED
    BY <1>6, <2>1, <2>2 DEF GivesUp
<1>7. ASSUME NEW v, RunEnds(v)
      PROVE  /\ pc \in Runs /\ pc' \in {"regression", "immunize", "rollback", "fallback", "commit"}
             /\ tree' \subseteq Writers /\ KeepsWork /\ UNCHANGED <<dockerVars, docker_failed>>
  BY <1>7 DEF RunEnds, After, Runs
<1>8. CASE AgentTimesOut
  BY <1>6, <1>8 DEF AgentTimesOut, AfterAgent
<1>9. CASE SandboxReturns \/ SandboxTimesOut
  BY <1>6, <1>7, <1>9 DEF SandboxReturns, SandboxTimesOut
<1>10. CASE ListNewContainers
  BY <1>1, <1>10 DEF ListNewContainers
<1>11. CASE KillNewContainers
  <2>1. PICK ids : Stop(ids)
    BY <1>11 DEF KillNewContainers
  <2>2. /\ container' \in [Calls -> {"none", "running", "exited", "removed"}]
        /\ foreign' \in [Foreign -> {"running", "killed"}]
    BY <2>1 DEF Stop
  <2>3. QED
    BY <1>11, <2>2 DEF KillNewContainers
<1>12. CASE CaptureDiff
  BY <1>12 DEF CaptureDiff
<1>13. CASE ImmunizeUngated
  <2>0. tree \subseteq Writers /\ 0 \in Writers
    BY <1>0
  <2>1. tree' \subseteq Writers
    BY <2>0, <1>13, Zenon DEF ImmunizeUngated
  <2>2. QED
    BY <1>13, <2>1 DEF ImmunizeUngated
<1>14. CASE ImmunizeGated
  <2>1. tree' \subseteq Writers
    BY <1>0, <1>14 DEF ImmunizeGated
  <2>2. QED
    BY <1>2, <1>14, <2>1 DEF ImmunizeGated, Runs
<1>15. CASE Commit
  <2> DEFINE c == [attempt |-> attempt, call |-> call, tree |-> tree,
                   observed |-> observed[attempt + 1], unreset |-> unreset]
  <2>1. c \in Commits
    <3>1. attempt + 1 \in Calls
      BY <1>0, <1>15 DEF Commit, CallOrder, Judged
    <3>2. observed[attempt + 1] \subseteq Writers
      BY <3>1
    <3>3. QED
      BY <1>0, <3>2 DEF Commits
  <2>2. commits' \in Seq(Commits)
    <3> HIDE DEF c
    <3>1. commits \in Seq(Commits) /\ (commits' = Append(commits, c) \/ commits' = commits)
      BY <1>15 DEF Commit, c
    <3>2. QED
      BY <2>1, <3>1
  <2>3. QED
    BY <1>15, <2>2 DEF Commit
<1>16. CASE Rollback
  BY <1>16 DEF Rollback, ResetTree
<1>17. CASE OutOfCalls \/ Exit
  BY <1>17 DEF OutOfCalls, Exit
<1>18. QED
  BY <1>3, <1>4, <1>5, <1>8, <1>9, <1>10, <1>11, <1>12, <1>13, <1>14, <1>15, <1>16, <1>17
  DEF SessionStep, Session

\* What a thread or its program may change.
LEMMA WorkTypes == ASSUME TypeOK, NEW c \in Calls, WorkStep(c) PROVE TypeOK'
<1> USE DEF TypeOK, dockerVars, sessionVars, DockerWorks, DockerFails
<1>1. ASSUME NEW r \in {"answer", "error", "passed", "failed"}, Answer(c, r)
      PROVE  outcome' \in [Calls -> {"answer", "error", "passed", "failed", None}]
  BY <1>1 DEF Answer
<1>2. ASSUME NEW s \in Live \cup {"done"}, stage' = [stage EXCEPT ![c] = s]
      PROVE  stage' \in [Calls -> Live \cup {"none", "done"}]
  BY <1>2
<1>3. CASE Pick(c)
  BY <1>2, <1>3 DEF Pick, Live
<1>4. CASE ContainerStarts(c)
  BY <1>2, <1>4 DEF ContainerStarts, Live
<1>5. CASE ContainerFails(c)
  BY <1>1, <1>2, <1>5 DEF ContainerFails, End
<1>6. CASE AgentEnds(c)
  <2>1. /\ stage' \in [Calls -> Live \cup {"none", "done"}]
        /\ outcome' \in [Calls -> {"answer", "error", "passed", "failed", None}]
    BY <1>1, <1>2, <1>6 DEF AgentEnds, End
  <2>2. container' \in [Calls -> {"none", "running", "exited", "removed"}]
    BY <1>6 DEF AgentEnds
  <2>3. QED
    BY <1>6, <2>1, <2>2 DEF AgentEnds
<1>7. CASE AgentEndsUnclean(c)
  <2>1. /\ stage' \in [Calls -> Live \cup {"none", "done"}]
        /\ outcome' \in [Calls -> {"answer", "error", "passed", "failed", None}]
    BY <1>1, <1>2, <1>7 DEF AgentEndsUnclean, End
  <2>2. QED
    BY <1>7, <2>1 DEF AgentEndsUnclean
<1>8. CASE WaitTimesOut(c)
  BY <1>1, <1>2, <1>8 DEF WaitTimesOut, Live
<1>9. CASE RemoveContainer(c)
  BY <1>2, <1>9 DEF RemoveContainer, Removed
<1>10. CASE Write(c)
  BY <1>10, Constants DEF Write, threadVars
<1>11. CASE CommandExits(c)
  <2>1. /\ stage' \in [Calls -> Live \cup {"none", "done"}]
        /\ outcome' \in [Calls -> {"answer", "error", "passed", "failed", None}]
    BY <1>1, <1>2, <1>11 DEF CommandExits, Live
  <2>2. /\ container' \in [Calls -> {"none", "running", "exited", "removed"}]
        /\ observed' \in [Calls -> SUBSET Writers]
    BY <1>11 DEF CommandExits
  <2>3. QED
    BY <1>11, <2>1, <2>2 DEF CommandExits
<1>12. QED
  BY <1>3, <1>4, <1>5, <1>6, <1>7, <1>8, <1>9, <1>10, <1>11 DEF WorkStep, Thread, Program

-----------------------------------------------------------------------------
(* Whose edits a commit holds. *)

OwnInv == TypeOK /\ OwnEdits

\* What a thread does to its own call, and to no other.
LEMMA WorkEffect ==
  ASSUME TypeOK, NEW c \in Calls, WorkStep(c)
  PROVE  /\ UNCHANGED <<pc, call, attempt, timed_out, commits, unreset, kind, foreign, existing_ids, new_ids,
                        use_docker>>
         /\ stage[c] \in Live /\ stage'[c] \in Live \cup {"done"}
         /\ \A d \in Calls \ {c} :
              /\ stage'[d] = stage[d] /\ outcome'[d] = outcome[d]
              /\ observed'[d] = observed[d] /\ container'[d] = container[d]
         /\ stage[c] \in {"removing", "done"} => stage'[c] \in {"removing", "done"}
         /\ stage'[c] \in {"queued", "starting", "running"} => outcome'[c] = outcome[c]
         /\ tree' # tree => tree' = tree \cup {c} /\ stage[c] = "running"
                            /\ UNCHANGED stage
         /\ CommandExits(c) \/ (/\ UNCHANGED observed
                                /\ outcome'[c] \in {"passed", "failed"} =>
                                     outcome'[c] = outcome[c])
         /\ docker_failed => docker_failed'
<1> USE DEF TypeOK, dockerVars, sessionVars, threadVars, DockerWorks, DockerFails, Live
<1>1. CASE Pick(c)
  BY <1>1 DEF Pick
<1>2. CASE ContainerStarts(c)
  BY <1>2 DEF ContainerStarts
<1>3. CASE ContainerFails(c)
  BY <1>3 DEF ContainerFails, End, Answer
<1>4. CASE AgentEnds(c)
  BY <1>4 DEF AgentEnds, End, Answer
<1>5. CASE AgentEndsUnclean(c)
  BY <1>5 DEF AgentEndsUnclean, End, Answer
<1>6. CASE WaitTimesOut(c)
  BY <1>6 DEF WaitTimesOut, Answer
<1>7. CASE RemoveContainer(c)
  BY <1>7 DEF RemoveContainer
<1>8. CASE Write(c)
  BY <1>8 DEF Write, CanWrite
<1>9. CASE CommandExits(c)
  BY <1>9 DEF CommandExits, Answer
<1>10. QED
  BY <1>1, <1>2, <1>3, <1>4, <1>5, <1>6, <1>7, <1>8, <1>9 DEF WorkStep, Thread, Program

LEMMA OwnWork ==
  ASSUME OwnInv, NEW c \in Calls, WorkStep(c)
  PROVE  (CallsEnd /\ CallOrder /\ AnsweredAtEnd /\ TreeOwned)'
<1>0. /\ TypeOK /\ CallsEnd /\ CallOrder /\ AnsweredAtEnd /\ TreeOwned
      /\ call \in Nat /\ attempt \in Nat /\ Calls = 1..MaxCalls /\ MaxCalls \in Nat
  BY Constants DEF OwnInv, OwnEdits, TypeOK
<1>1. /\ UNCHANGED <<pc, call, attempt, timed_out, unreset>>
      /\ stage[c] \in Live /\ stage'[c] \in Live \cup {"done"}
      /\ \A d \in Calls \ {c} : stage'[d] = stage[d] /\ outcome'[d] = outcome[d]
      /\ stage[c] \in {"removing", "done"} => stage'[c] \in {"removing", "done"}
      /\ stage'[c] \in {"queued", "starting", "running"} => outcome'[c] = outcome[c]
      /\ tree' # tree => tree' = tree \cup {c} /\ stage[c] = "running"
  BY <1>0, WorkEffect
<1>2. CallsEnd'
  BY <1>0, <1>1 DEF CallsEnd, Live
<1>3. CallOrder'
  BY <1>0, <1>1 DEF CallOrder
<1>4. AnsweredAtEnd'
  BY <1>0, <1>1 DEF AnsweredAtEnd, Live
<1>5. TreeOwned'
  <2>1. c \in timed_out \/ (c = call /\ pc \in Awaiting)
    BY <1>0, <1>1 DEF CallsEnd
  <2>2. c = call => c \in attempt..call
    BY <1>0 DEF CallOrder
  <2>3. pc = "fix" => pc \notin Awaiting
    BY DEF Awaiting, Runs
  <2>4. QED
    BY <1>0, <1>1, <2>1, <2>2, <2>3 DEF TreeOwned
<1>6. QED
  BY <1>2, <1>3, <1>4, <1>5

LEMMA ObservedWork ==
  ASSUME OwnInv, NEW c \in Calls, WorkStep(c) PROVE ObservedAtExit'
<1> DEFINE r == attempt + 1
<1>0. /\ TypeOK /\ CallsEnd /\ CallOrder /\ AnsweredAtEnd /\ ObservedAtExit
      /\ call \in Nat /\ attempt \in Nat /\ Calls = 1..MaxCalls /\ MaxCalls \in Nat
      /\ call <= MaxCalls /\ tree \subseteq Writers
  BY Constants DEF OwnInv, OwnEdits, TypeOK
<1>1. /\ UNCHANGED <<pc, call, attempt, timed_out>>
      /\ stage[c] \in Live /\ stage'[c] \in Live \cup {"done"}
      /\ \A d \in Calls \ {c} :
           /\ stage'[d] = stage[d] /\ outcome'[d] = outcome[d]
           /\ observed'[d] = observed[d]
      /\ stage[c] \in {"removing", "done"} => stage'[c] \in {"removing", "done"}
      /\ tree' # tree => tree' = tree \cup {c} /\ stage[c] = "running" /\ UNCHANGED stage
  BY <1>0, WorkEffect
<1>2. ASSUME (pc = "repro" /\ outcome'[call] \in {"passed", "failed"}) \/ pc \in Judged
      PROVE  /\ stage'[r] \in {"removing", "done"} /\ observed'[r] \ {0} \subseteq tree'
             /\ tree' \ observed'[r] \subseteq {0} \cup (attempt + 2)..call \cup timed_out
  <2>1. /\ r \in Calls /\ call >= r /\ r \in Nat
        /\ pc = "repro" => call = r
    BY <1>0, <1>2 DEF CallOrder
  <2>2. CASE CommandExits(c) /\ c = r /\ pc = "repro"
    <3>1. /\ stage[r] = "running" /\ stage'[r] = "removing" /\ tree' = tree
          /\ observed'[r] = IF r \in timed_out THEN observed[r] ELSE tree
      BY <1>0, <2>1, <2>2 DEF CommandExits, TypeOK
    <3>2. r \notin timed_out
      BY <1>0, <2>1, <2>2 DEF CallsEnd, Awaiting, Runs
    <3>3. QED
      BY <3>1, <3>2
  <2>3. CASE ~(CommandExits(c) /\ c = r /\ pc = "repro")
    <3>1. (pc = "repro" /\ outcome[call] \in {"passed", "failed"}) \/ pc \in Judged
      BY <1>0, <1>1, <1>2, <2>1, <2>3, WorkEffect
    <3>2. /\ stage[r] \in {"removing", "done"} /\ observed[r] \ {0} \subseteq tree
          /\ tree \ observed[r] \subseteq {0} \cup (attempt + 2)..call \cup timed_out
      BY <1>0, <3>1 DEF ObservedAtExit
    <3>3. observed'[r] = observed[r]
      <4>1. c = r => ~CommandExits(c)
        BY <3>2 DEF CommandExits
      <4>2. QED
        BY <1>0, <1>1, <2>1, <4>1, WorkEffect
    <3>4. stage'[r] \in {"removing", "done"}
      BY <1>1, <2>1, <3>2
    <3>5. tree' # tree => c \in (attempt + 2)..call \cup timed_out
      <4>1. c \in timed_out \/ c = call
        BY <1>0, <1>1 DEF CallsEnd
      <4>2. tree' # tree => c # r
        BY <1>1, <3>2
      <4>3. QED
        BY <1>0, <2>1, <4>1, <4>2
    <3>6. QED
      BY <1>1, <3>2, <3>3, <3>4, <3>5
  <2>4. QED
    BY <2>2, <2>3
<1>3. QED
  BY <1>1, <1>2 DEF ObservedAtExit

\* A call begins, and nothing else happens to the calls.
LEMMA BeginEffect ==
  ASSUME TypeOK, NEW k \in {"agent", "sandbox"}, Begin(k)
  PROVE  /\ call \in Nat /\ call' = call + 1 /\ call' \in Calls
         /\ stage'[call'] = "queued"
         /\ \A d \in Calls \ {call'} : stage'[d] = stage[d] /\ kind'[d] = kind[d]
         /\ UNCHANGED <<container, outcome, observed, late, timed_out, commits, unreset>>
BY CallsAssumption DEF Begin, TypeOK, Calls

\* The await of a call ends by its timeout.
LEMMA TimeoutEffect ==
  ASSUME TypeOK, CallOrder, GivesUp, pc \in Awaiting
  PROVE  /\ call \in Calls /\ timed_out' = timed_out \cup {call}
         /\ stage'[call] = (IF stage[call] = "queued" THEN "done" ELSE stage[call])
         /\ \A d \in Calls \ {call} : stage'[d] = stage[d]
         /\ UNCHANGED <<kind, container, outcome, observed, late>>
<1>1. call \in Calls
  BY Constants DEF TypeOK, CallOrder, Awaiting, Runs, Judged
<1>2. QED
  BY <1>1 DEF GivesUp, Cancelled, TypeOK

\* Where a run takes the session and what it leaves in the tree.
LEMMA RunEffect ==
  ASSUME TypeOK, NEW v, RunEnds(v)
  PROVE  /\ pc \in Runs /\ UNCHANGED <<call, attempt, commits, unreset, use_docker>>
         /\ UNCHANGED <<dockerVars, docker_failed>>
         /\ pc = "repro" => pc' \in {"regression", "immunize", "rollback"}
         /\ pc = "repro" /\ pc' # "rollback" => v \in {"passed", "failed"}
         /\ pc \in {"gate", "targeted", "smoke"} =>
              pc' \in {"immunize", "rollback", "fallback", "commit"}
         /\ tree' = tree \/ (pc # "repro" /\ tree' = tree \ {0})
BY DEF RunEnds, After, Runs, KeepsWork

LEMMA OwnSession ==
  ASSUME OwnInv, SessionStep
  PROVE  (CallsEnd /\ CallOrder /\ AnsweredAtEnd /\ TreeOwned /\ ObservedAtExit)'
<1>0. /\ TypeOK /\ CallsEnd /\ CallOrder /\ AnsweredAtEnd /\ TreeOwned /\ ObservedAtExit
      /\ call \in Nat /\ attempt \in Nat /\ Calls = 1..MaxCalls /\ MaxCalls \in Nat
      /\ call <= MaxCalls
  BY Constants DEF OwnInv, OwnEdits, TypeOK
<1> USE DEF Awaiting, Runs, Judged, Trying
<1>1. ASSUME NEW k \in {"agent", "sandbox"}, Begin(k), pc' \in Awaiting, pc \notin Awaiting
      PROVE  /\ call' = call + 1 /\ call' \in Calls /\ stage'[call'] = "queued"
             /\ \A d \in Calls \ {call'} : stage'[d] = stage[d]
             /\ UNCHANGED <<outcome, observed, timed_out, unreset>>
             /\ CallsEnd' /\ AnsweredAtEnd' /\ outcome[call'] = None
  <2>1. /\ call' = call + 1 /\ call' \in Calls /\ stage'[call'] = "queued"
        /\ \A d \in Calls \ {call'} : stage'[d] = stage[d]
        /\ UNCHANGED <<outcome, observed, timed_out, unreset>>
    BY <1>0, <1>1, BeginEffect
  <2>2. CallsEnd'
    BY <1>0, <1>1, <2>1 DEF CallsEnd, Live
  <2>3. stage[call'] = "none" /\ outcome[call'] = None
    BY <1>0, <2>1 DEF CallsEnd, AnsweredAtEnd
  <2>4. AnsweredAtEnd'
    BY <1>0, <2>1, <2>3 DEF AnsweredAtEnd
  <2>5. QED
    BY <2>1, <2>2, <2>3, <2>4
<1>2. CASE StartFix
  <2>1. /\ Begin("agent") /\ pc = "fix" /\ pc' = "agent" /\ attempt' = call' /\ UNCHANGED tree
    BY <1>2 DEF StartFix
  <2>2. CallOrder'
    BY <1>0, <1>1, <2>1 DEF CallOrder
  <2>3. TreeOwned'
    BY <1>0, <1>1, <2>1 DEF TreeOwned
  <2>4. QED
    BY <1>1, <2>1, <2>2, <2>3 DEF ObservedAtExit
<1>3. CASE Validate \/ ImmunizeGated
  <2>1. /\ Begin("sandbox") /\ UNCHANGED attempt
        /\ \/ pc = "validate" /\ pc' = "repro" /\ tree' = tree
           \/ pc \in {"regression", "immunize", "fallback"} /\ pc' \in {"gate", "targeted", "smoke"}
        /\ tree' \in {tree, tree \cup {0}}
    BY <1>3 DEF Validate, ImmunizeGated
  <2>2. CallOrder'
    BY <1>0, <1>1, <2>1 DEF CallOrder
  <2>3. TreeOwned'
    BY <1>0, <1>1, <2>1 DEF TreeOwned
  <2>4. ObservedAtExit'
    <3>1. CASE pc = "validate"
      <4>1. call' \in Calls /\ outcome'[call'] \notin {"passed", "failed"}
        BY <1>1, <2>1, CallsAssumption
      <4>2. QED
        BY <2>1, <3>1, <4>1 DEF ObservedAtExit
    <3>2. CASE pc \in {"regression", "immunize", "fallback"}
      <4>1. /\ stage[attempt + 1] \in {"removing", "done"}
            /\ observed[attempt + 1] \ {0} \subseteq tree
            /\ tree \ observed[attempt + 1] \subseteq {0} \cup (attempt + 2)..call \cup timed_out
            /\ attempt + 1 \in Calls /\ attempt + 1 # call'
        BY <1>0, <1>1, <2>1, <3>2 DEF ObservedAtExit, CallOrder
      <4>2. (attempt + 2)..call \subseteq (attempt + 2)..call'
        BY <1>0, <1>1, <2>1
      <4>3. QED
        BY <1>1, <2>1, <3>2, <4>1, <4>2 DEF ObservedAtExit
    <3>3. QED
      BY <2>1, <3>1, <3>2
  <2>5. QED
    BY <1>1, <2>1, <2>2, <2>3, <2>4
<1>4. CASE AgentTimesOut
  <2>1. /\ pc = "agent" /\ GivesUp /\ pc' \in {"list", "diff"}
        /\ UNCHANGED <<tree, call, attempt, unreset>>
    BY <1>4 DEF AgentTimesOut, AfterAgent, KeepsWork
  <2>2. /\ call \in Calls /\ timed_out' = timed_out \cup {call}
        /\ stage'[call] = (IF stage[call] = "queued" THEN "done" ELSE stage[call])
        /\ \A d \in Calls \ {call} : stage'[d] = stage[d]
        /\ UNCHANGED <<outcome, observed>>
    BY <1>0, <2>1, TimeoutEffect
  <2>3. CallsEnd'
    BY <1>0, <2>1, <2>2 DEF CallsEnd, Live
  <2>4. AnsweredAtEnd'
    BY <1>0, <2>2 DEF AnsweredAtEnd
  <2>5. CallOrder' /\ TreeOwned' /\ ObservedAtExit'
    BY <1>0, <2>1, <2>2 DEF CallOrder, TreeOwned, ObservedAtExit
  <2>6. QED
    BY <2>3, <2>4, <2>5
<1>5. CASE SandboxTimesOut
  <2>1. /\ pc \in Runs /\ GivesUp /\ UNCHANGED <<call, attempt, unreset>>
        /\ pc = "repro" => pc' = "rollback"
        /\ pc \in {"gate", "targeted", "smoke"} =>
             pc' \in {"immunize", "rollback", "fallback", "commit"}
        /\ tree' = tree \/ (pc # "repro" /\ tree' = tree \ {0})
    BY <1>0, <1>5, RunEffect DEF SandboxTimesOut
  <2>2. /\ call \in Calls /\ timed_out' = timed_out \cup {call}
        /\ stage'[call] = (IF stage[call] = "queued" THEN "done" ELSE stage[call])
        /\ \A d \in Calls \ {call} : stage'[d] = stage[d]
        /\ UNCHANGED <<outcome, observed>>
    BY <1>0, <2>1, TimeoutEffect
  <2>3. CallsEnd'
    BY <1>0, <2>1, <2>2 DEF CallsEnd, Live
  <2>4. AnsweredAtEnd'
    BY <1>0, <2>2 DEF AnsweredAtEnd
  <2>5. CallOrder'
    BY <1>0, <2>1 DEF CallOrder
  <2>6. TreeOwned'
    BY <1>0, <2>1, <2>2 DEF TreeOwned
  <2>7. ObservedAtExit'
    <3>1. pc \in Judged \/ pc' \notin Judged \cup {"repro"}
      BY <2>1
    <3>2. pc \in Judged => attempt + 1 \in Calls
      BY <1>0 DEF CallOrder
    <3>3. QED
      BY <1>0, <2>1, <2>2, <3>1, <3>2 DEF ObservedAtExit
  <2>8. QED
    BY <2>3, <2>4, <2>5, <2>6, <2>7
<1>6. CASE AgentReturns
  <2>1. /\ pc = "agent" /\ pc' \in {"list", "diff"} /\ stage[call] = "done"
        /\ UNCHANGED <<stage, outcome, observed, call, attempt, timed_out, unreset, tree>>
    BY <1>6 DEF AgentReturns, AfterAgent, Returned, threadVars, KeepsWork
  <2>2. CallsEnd' /\ AnsweredAtEnd'
    BY <1>0, <2>1 DEF CallsEnd, AnsweredAtEnd, Live
  <2>3. CallOrder' /\ TreeOwned' /\ ObservedAtExit'
    BY <1>0, <2>1 DEF CallOrder, TreeOwned, ObservedAtExit
  <2>4. QED
    BY <2>2, <2>3
<1>7. CASE SandboxReturns
  <2>1. /\ pc \in Runs /\ stage[call] = "done"
        /\ UNCHANGED <<stage, outcome, observed, call, attempt, timed_out, unreset>>
        /\ pc = "repro" => pc' \in {"regression", "immunize", "rollback"}
        /\ pc = "repro" /\ pc' # "rollback" => outcome[call] \in {"passed", "failed"}
        /\ pc \in {"gate", "targeted", "smoke"} =>
             pc' \in {"immunize", "rollback", "fallback", "commit"}
        /\ tree' = tree \/ (pc # "repro" /\ tree' = tree \ {0})
    BY <1>0, <1>7, RunEffect DEF SandboxReturns, Returned, threadVars
  <2>2. CallsEnd' /\ AnsweredAtEnd'
    BY <1>0, <2>1 DEF CallsEnd, AnsweredAtEnd, Live
  <2>3. CallOrder' /\ TreeOwned'
    BY <1>0, <2>1 DEF CallOrder, TreeOwned
  <2>4. ObservedAtExit'
    BY <1>0, <2>1 DEF ObservedAtExit
  <2>5. QED
    BY <2>2, <2>3, <2>4
<1>8. CASE ListNewContainers \/ KillNewContainers \/ CaptureDiff
  <2>1. /\ UNCHANGED <<stage, outcome, observed, call, attempt, timed_out, unreset, tree>>
        /\ pc \in {"list", "kill", "diff"}
        /\ pc' \in {"kill", "diff", "validate", "rollback", "end"}
    BY <1>8 DEF ListNewContainers, KillNewContainers, CaptureDiff, threadVars, KeepsWork
  <2>2. CallsEnd' /\ AnsweredAtEnd'
    BY <1>0, <2>1 DEF CallsEnd, AnsweredAtEnd
  <2>3. CallOrder' /\ TreeOwned' /\ ObservedAtExit'
    BY <1>0, <2>1 DEF CallOrder, TreeOwned, ObservedAtExit
  <2>4. QED
    BY <2>2, <2>3
<1>9. CASE ImmunizeUngated
  <2>1. /\ UNCHANGED <<stage, outcome, observed, call, attempt, timed_out, unreset>>
        /\ pc = "immunize" /\ pc' \in {"commit", "end"} /\ tree' \in {tree, tree \cup {0}}
    BY <1>9 DEF ImmunizeUngated, threadVars, KeepsWork
  <2>2. CallsEnd' /\ AnsweredAtEnd'
    BY <1>0, <2>1 DEF CallsEnd, AnsweredAtEnd
  <2>3. CallOrder' /\ TreeOwned' /\ ObservedAtExit'
    BY <1>0, <2>1 DEF CallOrder, TreeOwned, ObservedAtExit
  <2>4. QED
    BY <2>2, <2>3
<1>10. CASE Commit \/ Rollback \/ OutOfCalls \/ Exit
  <2>1. /\ UNCHANGED <<stage, outcome, observed, call, attempt, timed_out>>
        /\ pc \notin Awaiting /\ pc' \in {"fix", "end", "exited"}
        /\ pc' = "fix" => tree' \subseteq unreset'
    BY <1>10 DEF Commit, Rollback, ResetTree, OutOfCalls, Exit, threadVars, KeepsWork
  <2>2. CallsEnd' /\ AnsweredAtEnd'
    BY <1>0, <2>1 DEF CallsEnd, AnsweredAtEnd
  <2>3. CallOrder' /\ TreeOwned' /\ ObservedAtExit'
    BY <1>0, <2>1 DEF CallOrder, TreeOwned, ObservedAtExit
  <2>4. QED
    BY <2>2, <2>3
<1>11. QED
  BY <1>2, <1>3, <1>4, <1>5, <1>6, <1>7, <1>8, <1>9, <1>10 DEF SessionStep, Session

\* What the two properties say of one commit.
JudgedCommit(c, given_up) ==
  /\ c.observed \ {0} \subseteq c.tree
  /\ c.tree \ c.observed \subseteq {0} \cup (c.attempt + 2)..c.call \cup given_up
OwnCommit(c, given_up) == c.tree \subseteq {0} \cup c.attempt..c.call \cup given_up \cup c.unreset

LEMMA CommitsNext ==
  ASSUME OwnInv, [Next]_vars PROVE (CommitIsWhatPassed /\ CommitHoldsOneAttempt)'
<1>0. /\ TypeOK /\ CallsEnd /\ CallOrder /\ TreeOwned /\ ObservedAtExit
      /\ \A i \in 1..Len(commits) :
           JudgedCommit(commits[i], timed_out) /\ OwnCommit(commits[i], timed_out)
  BY DEF OwnInv, OwnEdits, CommitIsWhatPassed, CommitHoldsOneAttempt, JudgedCommit, OwnCommit
<1>1. SUFFICES \A i \in 1..Len(commits') :
             JudgedCommit(commits'[i], timed_out') /\ OwnCommit(commits'[i], timed_out')
  BY DEF CommitIsWhatPassed, CommitHoldsOneAttempt, JudgedCommit, OwnCommit
<1>2. CASE Commit /\ commits' # commits
  <2> DEFINE new == [attempt |-> attempt, call |-> call, tree |-> tree,
                     observed |-> observed[attempt + 1], unreset |-> unreset]
  <2>1. /\ commits' = Append(commits, new) /\ UNCHANGED timed_out /\ pc = "commit"
    BY <1>2 DEF Commit
  <2>2. JudgedCommit(new, timed_out') /\ OwnCommit(new, timed_out')
    BY <1>0, <2>1 DEF TreeOwned, ObservedAtExit, JudgedCommit, OwnCommit, Trying, Judged
  <2> HIDE DEF new
  <2>3. /\ Len(commits') = Len(commits) + 1 /\ Len(commits) \in Nat
        /\ commits'[Len(commits) + 1] = new
        /\ \A i \in 1..Len(commits) : commits'[i] = commits[i]
    BY <1>0, <2>1 DEF TypeOK
  <2>4. QED
    BY <1>0, <2>1, <2>2, <2>3 DEF JudgedCommit, OwnCommit
<1>3. CASE UNCHANGED commits
  <2>1. timed_out \subseteq timed_out'
    <3>1. CASE SessionStep
      BY <1>0, <3>1
      DEF SessionStep, Session, StartFix, Validate, Begin, AgentReturns, AgentTimesOut,
          SandboxReturns, SandboxTimesOut, GivesUp, ListNewContainers, KillNewContainers,
          CaptureDiff, ImmunizeUngated, ImmunizeGated, Commit, Rollback, OutOfCalls, Exit
    <3>2. CASE \E c \in Calls : WorkStep(c)
      BY <1>0, <3>2, WorkEffect
    <3>3. CASE UNCHANGED vars
      BY <3>3 DEF vars, sessionVars
    <3>4. QED
      BY <3>1, <3>2, <3>3, StepCases
  <2>2. QED
    BY <1>0, <1>3, <2>1 DEF JudgedCommit, OwnCommit
<1>4. Commit \/ UNCHANGED commits
  <2>1. CASE SessionStep
    BY <2>1
    DEF SessionStep, Session, StartFix, Validate, Begin, AgentReturns, AgentTimesOut, KeepsWork,
        SandboxReturns, SandboxTimesOut, RunEnds, ListNewContainers, KillNewContainers,
        CaptureDiff, ImmunizeUngated, ImmunizeGated, Rollback, OutOfCalls, Exit
  <2>2. CASE \E c \in Calls : WorkStep(c)
    BY <1>0, <2>2, WorkEffect
  <2>3. CASE UNCHANGED vars
    BY <2>3 DEF vars, sessionVars
  <2>4. QED
    BY <2>1, <2>2, <2>3, StepCases
<1>5. QED
  BY <1>2, <1>3, <1>4

LEMMA OwnInductive ==
  /\ Init => OwnInv
  /\ OwnInv /\ [Next]_vars => OwnInv'
<1>1. ASSUME Init PROVE OwnInv
  <2>1. TypeOK
    <3>1. commits \in Seq(Commits)
      BY <1>1 DEF Init
    <3>2. 0 \in 0..MaxCalls /\ Writers = 0..MaxCalls
      BY Constants
    <3>3. QED
      BY <1>1, <3>1, <3>2 DEF Init, TypeOK, Live
  <2>2. CallsEnd /\ CallOrder /\ AnsweredAtEnd
    BY <1>1 DEF Init, CallsEnd, CallOrder, AnsweredAtEnd, Awaiting, Judged, Runs, Live, Calls
  <2>3. TreeOwned /\ ObservedAtExit /\ CommitIsWhatPassed /\ CommitHoldsOneAttempt
    BY <1>1
    DEF Init, TreeOwned, Trying, Judged, ObservedAtExit, CommitIsWhatPassed, CommitHoldsOneAttempt
  <2>4. QED
    BY <2>1, <2>2, <2>3 DEF OwnInv, OwnEdits
<1>2. ASSUME OwnInv, [Next]_vars PROVE OwnInv'
  <2>1. TypeOK /\ CallsEnd /\ CallOrder
    BY <1>2 DEF OwnInv, OwnEdits
  <2>2. CASE SessionStep
    BY <1>2, <2>1, <2>2, SessionTypes, OwnSession, CommitsNext DEF OwnInv, OwnEdits
  <2>3. CASE \E c \in Calls : WorkStep(c)
    BY <1>2, <2>1, <2>3, WorkTypes, OwnWork, ObservedWork, CommitsNext DEF OwnInv, OwnEdits
  <2>4. CASE UNCHANGED vars
    BY <1>2, <2>4
    DEF OwnInv, TypeOK, OwnEdits, CallsEnd, CallOrder, AnsweredAtEnd, TreeOwned, ObservedAtExit,
        CommitIsWhatPassed, CommitHoldsOneAttempt, vars, threadVars, dockerVars, sessionVars
  <2>5. QED
    BY <1>2, <2>2, <2>3, <2>4, StepCases
<1>3. QED
  BY <1>1, <1>2

\* Every variable of the session, its threads and containers keeps its type.
THEOREM WorkersTypeCorrect == Spec => []TypeOK
<1>1. OwnInv => TypeOK
  BY DEF OwnInv
<1>2. QED
  BY <1>1, OwnInductive, PTL DEF Spec

\* A commit is what the reproduction command judged: all of it, and beyond it only
\* the session file, the gate runs of the attempt and the calls given up.
THEOREM WhatPassedIsCommitted == Spec => []CommitIsWhatPassed
<1>1. OwnInv => CommitIsWhatPassed
  BY DEF OwnInv, OwnEdits
<1>2. QED
  BY <1>1, OwnInductive, PTL DEF Spec

\* A commit holds the writes of the session and of the calls of one attempt; any
\* other is of a call given up, or survived a failing reset.
THEOREM CommitsHoldTheirAttempt == Spec => []CommitHoldsOneAttempt
<1>1. OwnInv => CommitHoldsOneAttempt
  BY DEF OwnInv, OwnEdits
<1>2. QED
  BY <1>1, OwnInductive, PTL DEF Spec

-----------------------------------------------------------------------------
(* Whose containers a cleanup stops. *)

LEMMA RunningAgentsFacts ==
  ASSUME TypeOK
  PROVE  /\ \A f \in Foreign : foreign[f] = "running" => f \in RunningAgents
         /\ \A c \in Calls :
              c \in RunningAgents <=> kind[c] = "agent" /\ container[c] = "running"
BY Constants DEF RunningAgents

LEMMA StopEffect ==
  ASSUME TypeOK, NEW ids, Stop(ids)
  PROVE  /\ \A c \in Calls : container'[c] = (IF c \in ids THEN "removed" ELSE container[c])
         /\ \A f \in Foreign : f \notin ids => foreign'[f] = foreign[f]
BY DEF Stop

\* A step that touches neither the containers nor the lists.
LEMMA ContainersKept ==
  ASSUME WorkersInv, docker_failed => docker_failed',
         UNCHANGED <<kind, container, late, foreign, use_docker, call>>,
         \A c \in Calls : stage'[c] = stage[c] \/ stage'[c] = "done",
         pc' \in {"agent", "list", "kill"} =>
           pc \in {"agent", "list", "kill"} /\ use_docker,
         pc \in {"agent", "list", "kill"} /\ use_docker => pc' \in {"agent", "list", "kill"},
         pc' \in {"agent", "list"} => pc \in {"agent", "list"} /\ UNCHANGED existing_ids,
         pc' = "kill" => pc = "kill" /\ UNCHANGED new_ids
  PROVE  OwnContainers'
<1>0. /\ TypeOK /\ (pc \in {"list", "kill"} => use_docker) /\ NotStarted /\ Listed /\ Stopped
  BY DEF WorkersInv, OwnContainers
<1>1. NotStarted'
  BY <1>0 DEF NotStarted
<1>2. Listed'
  <2>1. SUFFICES ASSUME ~docker_failed' PROVE Listing'
    BY DEF Listed
  <2>2. ~docker_failed /\ Listing
    BY <1>0, <2>1 DEF Listed
  <2>3. ASSUME pc' = "kill", kind[call] = "agent", stage'[call] = "running",
               container[call] = "running"
        PROVE  call \in late \cup new_ids
    <3>1. call \in Calls
      BY <1>0, <2>3, Constants DEF TypeOK, WorkersInv, OwnEdits, CallOrder
    <3>2. QED
      BY <2>2, <2>3, <3>1 DEF Listing
  <2>4. QED
    BY <2>2, <2>3 DEF Listing
<1>3. Stopped'
  BY <1>0 DEF Stopped
<1>4. QED
  BY <1>0, <1>1, <1>2, <1>3 DEF OwnContainers

LEMMA ContainersSession ==
  ASSUME WorkersInv, SessionStep PROVE OwnContainers'
<1>0. /\ TypeOK /\ CallsEnd /\ CallOrder /\ NotStarted /\ Listed /\ Stopped
      /\ (pc \in {"list", "kill"} => use_docker) /\ call \in Nat /\ Calls = 1..MaxCalls
  BY DEF WorkersInv, OwnEdits, OwnContainers, TypeOK, Calls
<1> USE DEF KeepsWork
<1>1. CASE StartFix \/ Validate \/ ImmunizeGated
  <2>1. PICK k \in {"agent", "sandbox"} :
          /\ Begin(k) /\ UNCHANGED <<foreign, use_docker>>
          /\ pc \notin {"agent", "list", "kill"} /\ pc' \in {"agent"} \cup Runs
          /\ docker_failed => docker_failed'
          /\ pc' = "agent" /\ ~docker_failed' /\ use_docker => existing_ids' = RunningAgents
    BY <1>1 DEF StartFix, Validate, ImmunizeGated, DockerWorks, DockerFails, Snapshot, dockerVars, Runs
  <2>2. /\ call' = call + 1 /\ call' \in Calls /\ stage'[call'] = "queued"
        /\ \A d \in Calls \ {call'} : stage'[d] = stage[d] /\ kind'[d] = kind[d]
        /\ UNCHANGED <<container, late>>
    BY <1>0, <2>1, BeginEffect
  <2>3. \A c \in Calls : c >= call' => container[c] # "running"
    BY <1>0, <2>2 DEF CallsEnd, NotStarted
  <2>4. NotStarted'
    BY <1>0, <2>2, <2>3 DEF NotStarted
  <2>5. Listed'
    BY <1>0, <2>1, <2>2, <2>3, RunningAgentsFacts DEF Listed, Listing, Runs
  <2>6. Stopped'
    BY <1>0, <2>1, <2>2 DEF Stopped
  <2>7. QED
    BY <2>1, <2>4, <2>5, <2>6 DEF OwnContainers, Runs
<1>2. CASE AgentTimesOut \/ AgentReturns
  <2>1. /\ pc = "agent" /\ pc' = IF use_docker THEN "list" ELSE "diff"
        /\ UNCHANGED <<dockerVars, call, use_docker, docker_failed>>
        /\ GivesUp \/ UNCHANGED threadVars
    BY <1>2 DEF AgentTimesOut, AgentReturns, AfterAgent
  <2>2. /\ UNCHANGED <<kind, container, late>>
        /\ \A c \in Calls : stage'[c] = stage[c] \/ stage'[c] = "done"
    BY <1>0, <2>1, TimeoutEffect DEF threadVars, Awaiting
  <2>3. QED
    BY <2>1, <2>2, ContainersKept DEF dockerVars
<1>3. CASE SandboxReturns \/ SandboxTimesOut
  <2>1. PICK v : RunEnds(v) /\ (GivesUp \/ UNCHANGED threadVars)
    BY <1>3 DEF SandboxReturns, SandboxTimesOut
  <2>2. /\ pc \in Runs /\ UNCHANGED <<dockerVars, call, use_docker, docker_failed>>
        /\ pc' \in {"regression", "immunize", "rollback", "fallback", "commit"}
    BY <1>0, <2>1, RunEffect DEF Runs
  <2>3. /\ UNCHANGED <<kind, container, late>>
        /\ \A c \in Calls : stage'[c] = stage[c] \/ stage'[c] = "done"
    BY <1>0, <2>1, <2>2, TimeoutEffect DEF threadVars, Awaiting
  <2>4. QED
    BY <2>2, <2>3, ContainersKept DEF dockerVars, Runs
<1>4. CASE ListNewContainers
  <2>1. /\ pc = "list" /\ pc' = "kill" /\ UNCHANGED <<threadVars, foreign, call, use_docker>>
        /\ docker_failed => docker_failed'
        /\ ~docker_failed' => new_ids' = RunningAgents \ existing_ids
    BY <1>4 DEF ListNewContainers, DockerWorks, DockerFails
  <2>2. call \in Calls
    BY <1>0, <2>1 DEF CallOrder, TypeOK
  <2>3. Listed'
    BY <1>0, <2>1, <2>2, RunningAgentsFacts DEF Listed, Listing, threadVars
  <2>4. Stopped' /\ NotStarted'
    BY <1>0, <2>1 DEF Stopped, NotStarted, threadVars
  <2>5. QED
    BY <1>0, <2>1, <2>3, <2>4 DEF OwnContainers
<1>5. CASE KillNewContainers
  <2>1. /\ pc = "kill" /\ pc' = "diff" /\ UNCHANGED <<kind, stage, late, call, use_docker>>
        /\ docker_failed => docker_failed'
    BY <1>5 DEF KillNewContainers, DockerWorks, DockerFails
  <2>2. PICK ids \in SUBSET new_ids : Stop(ids) /\ (~docker_failed' => ids = new_ids)
    BY <1>5 DEF KillNewContainers, DockerWorks, DockerFails
  <2>3. /\ \A c \in Calls : container'[c] = (IF c \in ids THEN "removed" ELSE container[c])
        /\ \A f \in Foreign : f \notin ids => foreign'[f] = foreign[f]
    BY <1>0, <2>2, StopEffect
  <2>4. NotStarted'
    BY <1>0, <2>1, <2>3 DEF NotStarted
  <2>5. Listed'
    BY <1>0, <2>1, <2>2, <2>3 DEF Listed, Listing
  <2>6. Stopped'
    BY <1>0, <2>1, <2>2, <2>3 DEF Stopped, Listed, Listing
  <2>7. QED
    BY <2>1, <2>4, <2>5, <2>6 DEF OwnContainers
<1>6. CASE CaptureDiff \/ ImmunizeUngated \/ Commit \/ Rollback \/ OutOfCalls \/ Exit
  <2>1. /\ pc \notin {"agent", "list", "kill"} /\ pc' \notin {"agent", "list", "kill"}
        /\ UNCHANGED <<threadVars, dockerVars, call, use_docker, docker_failed>>
    BY <1>6 DEF CaptureDiff, ImmunizeUngated, Commit, Rollback, OutOfCalls, Exit
  <2>2. QED
    BY <2>1, ContainersKept DEF threadVars, dockerVars
<1>7. QED
  BY <1>1, <1>2, <1>3, <1>4, <1>5, <1>6 DEF SessionStep, Session

\* How a thread's step bears on the containers: only ContainerStarts makes one run.
LEMMA RunningEffect ==
  ASSUME TypeOK, NEW c \in Calls, WorkStep(c)
  PROVE  /\ late \subseteq late'
         /\ stage'[c] = "running" /\ container'[c] = "running" =>
              \/ stage[c] = "running" /\ container[c] = "running"
              \/ kind[c] = "agent" /\ (call # c \/ pc \notin {"agent", "list"}) => c \in late'
         /\ stage'[c] = "starting" => container'[c] = container[c] /\ stage[c] \in {"queued", "starting"}
         /\ stage'[c] \notin {"none", "queued"}  \/ UNCHANGED <<stage, container>>
<1> USE DEF TypeOK, dockerVars, sessionVars, threadVars, Live
<1>1. CASE Pick(c)
  BY <1>1 DEF Pick
<1>2. CASE ContainerStarts(c)
  BY <1>2 DEF ContainerStarts
<1>3. CASE ContainerFails(c)
  BY <1>3 DEF ContainerFails, End
<1>4. CASE AgentEnds(c)
  BY <1>4 DEF AgentEnds, End
<1>5. CASE AgentEndsUnclean(c)
  BY <1>5 DEF AgentEndsUnclean, End
<1>6. CASE WaitTimesOut(c)
  BY <1>6 DEF WaitTimesOut
<1>7. CASE RemoveContainer(c)
  BY <1>7 DEF RemoveContainer
<1>8. CASE Write(c)
  BY <1>8 DEF Write, CanWrite
<1>9. CASE CommandExits(c)
  BY <1>9 DEF CommandExits
<1>10. QED
  BY <1>1, <1>2, <1>3, <1>4, <1>5, <1>6, <1>7, <1>8, <1>9 DEF WorkStep, Thread, Program

LEMMA ContainersWork ==
  ASSUME WorkersInv, NEW c \in Calls, WorkStep(c) PROVE OwnContainers'
<1>0. /\ TypeOK /\ CallsEnd /\ CallOrder /\ NotStarted /\ Listed /\ Stopped
      /\ (pc \in {"list", "kill"} => use_docker) /\ call \in Nat /\ Calls = 1..MaxCalls
  BY DEF WorkersInv, OwnEdits, OwnContainers, TypeOK, Calls
<1>1. /\ UNCHANGED <<pc, call, kind, foreign, existing_ids, new_ids, use_docker>>
      /\ docker_failed => docker_failed'
      /\ \A d \in Calls \ {c} : stage'[d] = stage[d] /\ container'[d] = container[d]
  BY <1>0, WorkEffect
<1>2. /\ late \subseteq late'
      /\ stage'[c] = "running" /\ container'[c] = "running" =>
           \/ stage[c] = "running" /\ container[c] = "running"
           \/ kind[c] = "agent" /\ (call # c \/ pc \notin {"agent", "list"}) => c \in late'
      /\ stage'[c] = "starting" => container'[c] = container[c] /\ stage[c] \in {"queued", "starting"}
      /\ stage'[c] \notin {"none", "queued"}  \/ UNCHANGED <<stage, container>>
  BY <1>0, RunningEffect
<1>3. NotStarted'
  BY <1>0, <1>1, <1>2 DEF NotStarted
<1>4. Listed'
  <2>1. SUFFICES ASSUME ~docker_failed' PROVE Listing'
    BY DEF Listed
  <2>2. Listing
    BY <1>0, <1>1, <2>1 DEF Listed
  <2>3. ASSUME pc = "kill" PROVE call \in Calls
    BY <1>0, <2>3 DEF CallOrder, TypeOK
  <2>4. QED
    BY <1>1, <1>2, <2>2, <2>3 DEF Listing
<1>5. Stopped'
  BY <1>0, <1>1, <1>2 DEF Stopped
<1>6. QED
  BY <1>0, <1>1, <1>3, <1>4, <1>5 DEF OwnContainers

LEMMA ContainersInductive ==
  /\ Init => WorkersInv
  /\ WorkersInv /\ [Next]_vars => WorkersInv'
<1>1. ASSUME Init PROVE WorkersInv
  <2>1. TypeOK /\ OwnEdits
    BY <1>1, OwnInductive DEF OwnInv
  <2>2. OwnContainers
    BY <1>1 DEF Init, OwnContainers, NotStarted, Listed, Listing, Stopped
  <2>3. QED
    BY <2>1, <2>2 DEF WorkersInv
<1>2. ASSUME WorkersInv, [Next]_vars PROVE WorkersInv'
  <2>1. TypeOK' /\ OwnEdits'
    BY <1>2, OwnInductive DEF OwnInv, WorkersInv
  <2>2. OwnContainers'
    <3>1. CASE UNCHANGED vars
      BY <1>2, <3>1
      DEF WorkersInv, OwnContainers, NotStarted, Listed, Listing, Stopped, vars, threadVars,
          dockerVars, sessionVars
    <3>2. QED
      BY <1>2, <3>1, StepCases, ContainersSession, ContainersWork
  <2>3. QED
    BY <2>1, <2>2 DEF WorkersInv
<1>3. QED
  BY <1>1, <1>2

\* While docker answers, the cleanup of an attempt never stops the container of
\* another session that was there before.
THEOREM CleanupSparesOtherSessions == Spec => []OtherSessionsSurvive
<1>1. WorkersInv => OtherSessionsSurvive
  BY DEF WorkersInv, OwnContainers, Listed, Listing, OtherSessionsSurvive
<1>2. QED
  BY <1>1, ContainersInductive, PTL DEF Spec

\* In Docker mode an agent that timed out writes no more once its attempt has
\* cleaned up, unless its container came up after the attempt listed them.
THEOREM CleanupIsEffective == Spec => []CleanupStopsTheAgent
<1>1. WorkersInv => CleanupStopsTheAgent
  BY DEF WorkersInv, OwnContainers, Stopped, CleanupStopsTheAgent, Stragglers, CanWrite
<1>2. QED
  BY <1>1, ContainersInductive, PTL DEF Spec
=============================================================================

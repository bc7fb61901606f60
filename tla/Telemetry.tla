------------------------------ MODULE Telemetry ------------------------------
(***************************************************************************)
(* The observability layer over consecutive runs of one process, as        *)
(* scripts/run_benchmark.py makes them: the ports and the graph nodes each *)
(* record a span in the sink of their run; a callback registered once with *)
(* litellm records every completion in the sink, and under the agent, of   *)
(* the context it carries; at the end of a run the spans are rolled up.    *)
(*                                                                         *)
(* litellm reports a completion some time after it returned: from a thread *)
(* for the Corrector, whose agent works in one and may outlive the call    *)
(* that started it, from a task of the event loop for the other agents.    *)
(* Durations, tokens and prices are left out, a completion is a number.    *)
(***************************************************************************)
EXTENDS Naturals, Sequences, FiniteSets, Functions

CONSTANTS
  MaxRuns,         \* runs of the process
  MaxNodes,        \* bound of the model: nodes entered in all
  MaxCalls,        \* bound of the model: completions in all
  None

ASSUME TelemetryAssumption ==
  /\ MaxRuns \in Nat /\ MaxNodes \in Nat /\ MaxCalls \in Nat
  /\ None \notin Nat

Runs   == 1..MaxRuns
Agents == {"corrector", "tester", "reporter", "unknown"}

VARIABLES
  pc,        \* where the run is, "idle" between two runs
  run,       \* the run under way, or the last one
  node,      \* the node about to run or running, "end" after the last one
  todo,      \* the ports the node has yet to call
  port,      \* the agent's port the node is waiting for, None: none
  context,   \* _current_sink and _current_agent of the main task
  threads,   \* Corrector threads at work: their run, the context they copied
  callbacks, \* how often the logger is in litellm.callbacks
  pending,   \* completions not reported yet, with the context they carry
  spans,     \* the sink of each run
  report,    \* what was rolled up of each run, None: nothing (yet)
  calls,     \* history: run and agent of each completion
  walk,      \* history: the nodes each run entered
  late       \* history: the calls of each run reported or made after its roll-up

graphVars == <<pc, run, node, todo, port>>
llmVars   == <<threads, callbacks, pending, calls>>
vars == <<graphVars, context, llmVars, spans, report, walk, late>>

NoContext == [sink |-> None, agent |-> "unknown"]

\* The nodes entered so far.
Entered == FoldFunction(LAMBDA path, n : n + Len(path), 0, walk)

\* The edges of build_graph.
Successors ==
  [bootstrap     |-> {"fix"},
   fix           |-> {"validate", "rollback"},
   validate      |-> {"immunize", "rollback"},
   immunize      |-> {"report_commit"},
   report_commit |-> {"fix", "end"},
   rollback      |-> {"fix", "post_mortem"},
   post_mortem   |-> {"end"}]

Nodes == DOMAIN Successors

\* The ports a node calls: validate the sandbox once more for a gate, immunize
\* nothing on test entry, and the sandbox for the tests it gates.
PortsOf ==
  LET sandbox == "sandbox.run_tests"
      tester  == "tester.write_regression_test"
  IN  [bootstrap     |-> {<<>>},
       fix           |-> {<<"fixer.fix">>},
       validate      |-> {<<sandbox>>, <<sandbox, sandbox>>},
       immunize      |-> {<<>>, <<tester>>, <<tester, sandbox>>, <<tester, sandbox, sandbox>>},
       report_commit |-> {<<"reporter.compose_commit_message", "git.commit">>},
       rollback      |-> {<<"git.reset_hard">>},
       post_mortem   |-> {<<"reporter.compose_post_mortem">>}]

InfraPorts == {"sandbox.run_tests", "git.commit", "git.reset_hard"}

\* The agent whose name the decorator of a port puts into the context.
AgentOf ==
  [p \in {"fixer.fix", "tester.write_regression_test",
          "reporter.compose_commit_message", "reporter.compose_post_mortem"} |->
     CASE p = "fixer.fix" -> "corrector"
       [] p = "tester.write_regression_test" -> "tester"
       [] OTHER -> "reporter"]

AgentPorts == DOMAIN AgentOf

\* A span: the name, and for a completion its agent and number.
Span(name) == [name |-> name, agent |-> None, call |-> None]
CompletionSpan(agent, call) ==
  [name |-> "llm.completion", agent |-> agent, call |-> call]

\* The sink of the run under way gets one more span.
Record(span) == spans' = [spans EXCEPT ![run] = Append(@, span)]

\* What aggregate reports; node_path and span_count are filled in later.
Reports ==
  [by_agent : [Agents -> Nat], counted : Nat,
   node_path : Seq(Nodes) \cup {None}, span_count : Nat \cup {None}]

\* None stands for what is not there (yet).
ASSUME SentinelAssumption == None \notin Seq(Nodes) /\ None \notin Reports

-----------------------------------------------------------------------------
(* A run. *)

Init ==
  /\ pc = "idle" /\ run = 0 /\ node = "bootstrap" /\ todo = <<>> /\ port = None
  /\ context = NoContext
  /\ threads = {} /\ callbacks = 0 /\ pending = {} /\ calls = <<>>
  /\ spans = [r \in Runs |-> <<>>] /\ report = [r \in Runs |-> None]
  /\ walk = [r \in Runs |-> <<>>] /\ late = [r \in Runs |-> {}]

\* A new logger for every run.
BugRegisterAgain(n) == n + 1

\* ensure_registered: the number of registrations after it.
EnsureRegistered(n) == IF n = 0 THEN 1 ELSE n

\* build_real_deps wires a new sink, using_llm_sink routes to it, ainvoke starts.
StartRun ==
  /\ pc = "idle" /\ run < MaxRuns /\ run' = run + 1
  /\ callbacks' = EnsureRegistered(callbacks)
  /\ context' = [sink |-> run + 1, agent |-> "unknown"]
  /\ pc' = "graph" /\ node' = "bootstrap"
  /\ UNCHANGED <<todo, port, threads, pending, calls, spans, report, walk, late>>

StartNode ==
  /\ pc = "graph" /\ node # "end" /\ Entered < MaxNodes
  /\ walk' = [walk EXCEPT ![run] = Append(@, node)]
  /\ todo' \in PortsOf[node] /\ pc' = "node"
  /\ UNCHANGED <<run, node, port, context, llmVars, spans, report, late>>

\* A sandbox or git call; its span is recorded whether it returns or raises.
CallInfra ==
  /\ pc = "node" /\ todo # <<>> /\ Head(todo) \in InfraPorts
  /\ todo' = Tail(todo) /\ Record(Span(Head(todo)))
  /\ UNCHANGED <<pc, run, node, port, context, llmVars, report, walk, late>>

\* A decorated agent is called; the Corrector's agent gets a thread, and with
\* it a copy of the context.
CallAgent ==
  /\ pc = "node" /\ todo # <<>> /\ Head(todo) \in AgentPorts
  /\ pc' = "port" /\ port' = Head(todo) /\ todo' = Tail(todo)
  /\ context' = [context EXCEPT !.agent = AgentOf[port']]
  /\ threads' = IF port' = "fixer.fix"
                  THEN threads \cup {[run |-> run, context |-> context']} ELSE threads
  /\ UNCHANGED <<run, node, callbacks, pending, calls, spans, report, walk, late>>

\* The agent returns or raises: its span is recorded, the context restored.  A
\* Corrector that timed out leaves its thread behind.
EndPort ==
  /\ pc = "port" /\ pc' = "node" /\ port' = None
  /\ Record(Span(port))
  /\ context' = [context EXCEPT !.agent = "unknown"]
  /\ \/ UNCHANGED threads
     \/ port = "fixer.fix" /\ threads' = threads \ {[run |-> run, context |-> context]}
  /\ UNCHANGED <<run, node, todo, callbacks, pending, calls, report, walk, late>>

EndNode ==
  /\ pc = "node" /\ todo = <<>> /\ pc' = "graph" /\ UNCHANGED todo
  /\ Record(Span(node))
  /\ node' \in Successors[node]
  /\ UNCHANGED <<run, port, context, llmVars, report, walk, late>>

\* Control leaves using_llm_sink by an exception: the run is never rolled up.
Abort ==
  /\ pc' = "idle" /\ context' = NoContext /\ todo' = <<>>
  /\ UNCHANGED <<run, node, port, llmVars, report, walk, late>>

NodeRaises == pc = "node" /\ Record(Span(node)) /\ Abort

\* GraphRecursionError, or a cancellation during the pause.
RunRaises ==
  /\ \/ pc = "graph" /\ node # "end" /\ Entered = MaxNodes
     \/ pc = "flush"
  /\ Abort /\ UNCHANGED spans

GraphReturns ==
  /\ pc = "graph" /\ node = "end" /\ pc' = "flush"
  /\ UNCHANGED <<run, node, todo, port, context, llmVars, spans, report, walk, late>>

\* The pause is over.  heal_and_pr rolls up the sessions it delivers only.
Flushed ==
  /\ pc = "flush" /\ context' = NoContext /\ pc' \in {"rollup", "idle"}
  /\ UNCHANGED <<run, node, todo, port, llmVars, spans, report, walk, late>>

-----------------------------------------------------------------------------
(* aggregate, which takes the spans three times. *)

\* Counts what cannot be attributed with the Corrector's.
BugCallsBy(taken, agent) ==
  Cardinality({i \in 1..Len(taken) : /\ taken[i].name = "llm.completion"
                                     /\ taken[i].agent = agent \/ agent = "corrector"})

\* llm.by_agent.
CallsBy(taken, agent) ==
  Cardinality({i \in 1..Len(taken) : taken[i].name = "llm.completion" /\ taken[i].agent = agent})

\* How many of the positions `at` come no later than i.
Rank(at, i) == Cardinality({j \in at : j <= i})

\* The names of the spans at these positions, in order.
NamesAt(taken, at) ==
  [k \in 1..Cardinality(at) |-> taken[CHOOSE i \in at : Rank(at, i) = k].name]

\* With the ports.
BugNodePath(taken) ==
  NamesAt(taken, {i \in 1..Len(taken) : taken[i].name # "llm.completion"})

NodePath(taken) == NamesAt(taken, {i \in 1..Len(taken) : taken[i].name \in Nodes})

RollUp ==
  /\ pc = "rollup" /\ pc' = "path"
  /\ report' = [report EXCEPT ![run] =
       [by_agent   |-> [a \in Agents |-> CallsBy(spans[run], a)],
        counted    |-> Len(spans[run]),    \* the sum of the counts of by_name
        node_path  |-> None,
        span_count |-> None]]
  /\ late' = [late EXCEPT ![run] = {p.call : p \in {q \in pending : q.sink = run}}]
  /\ UNCHANGED <<run, node, todo, port, context, llmVars, spans, walk>>

TakePath ==
  /\ pc = "path" /\ pc' = "count"
  /\ report' = [report EXCEPT ![run].node_path = NodePath(spans[run])]
  /\ UNCHANGED <<run, node, todo, port, context, llmVars, spans, walk, late>>

TakeCount ==
  /\ pc = "count" /\ pc' = "idle"
  /\ report' = [report EXCEPT ![run].span_count = Len(spans[run])]
  /\ UNCHANGED <<run, node, todo, port, context, llmVars, spans, walk, late>>

-----------------------------------------------------------------------------
(* Completions, and their callbacks. *)

\* litellm takes a copy of the context the completion is made in.
Completion(r, agent, kind, ctx) ==
  /\ Len(calls) < MaxCalls
  /\ calls' = Append(calls, [run |-> r, agent |-> agent])
  /\ pending' = pending \cup
       {[call |-> Len(calls) + 1, kind |-> kind, sink |-> ctx.sink, agent |-> ctx.agent]}
  /\ late' = IF report[r] = None THEN late
             ELSE [late EXCEPT ![r] = @ \cup {Len(calls) + 1}]
  /\ UNCHANGED <<graphVars, context, threads, callbacks, spans, report, walk>>

\* The Tester or the Reporter.
AgentCompletes ==
  /\ pc = "port" /\ port # "fixer.fix"
  /\ Completion(run, AgentOf[port], "task", context)

\* The agent of a Corrector, awaited or not.
ThreadCompletes ==
  \E t \in threads : Completion(t.run, "corrector", "thread", t.context)

\* A thread that was left behind ends.
ThreadEnds ==
  /\ \E t \in threads :
       /\ pc = "port" /\ port = "fixer.fix" => t.run # run
       /\ threads' = threads \ {t}
  /\ UNCHANGED <<graphVars, context, callbacks, pending, calls, spans, report, walk, late>>

\* Read when the callback runs.
BugLiveContext(p) == context

\* The sink and the agent a callback sees.
ContextOf(p) == [sink |-> p.sink, agent |-> p.agent]

\* _record, once for each registration: a task runs only while the coroutine
\* awaits something, a thread at any time.  Without a sink nothing is recorded.
Callback ==
  /\ \E p \in pending :
       /\ p.kind = "task" => pc \in {"graph", "node", "port", "flush"}
       /\ pending' = pending \ {p}
       /\ LET ctx == ContextOf(p) IN
            spans' = IF ctx.sink = None THEN spans
                     ELSE [spans EXCEPT ![ctx.sink] =
                             @ \o [i \in 1..callbacks |-> CompletionSpan(ctx.agent, p.call)]]
  /\ UNCHANGED <<graphVars, context, threads, callbacks, calls, report, walk, late>>

\* The process has made its runs.
Over == pc = "idle" /\ run = MaxRuns /\ UNCHANGED vars

Next ==
  \/ StartRun \/ StartNode \/ CallInfra \/ CallAgent \/ EndPort \/ EndNode
  \/ NodeRaises \/ RunRaises \/ GraphReturns \/ Flushed
  \/ RollUp \/ TakePath \/ TakeCount
  \/ AgentCompletes \/ ThreadCompletes \/ ThreadEnds \/ Callback
  \/ Over

Spec == Init /\ [][Next]_vars

-----------------------------------------------------------------------------
(* Correctness. *)

\* A completion is recorded in the sink of the run that paid for it and under
\* the agent that made it, whatever run and agent are under way when litellm
\* reports it: a Corrector thread of an earlier run never pollutes a later one.
SpansStayInTheirRun ==
  \A r \in Runs : \A i \in 1..Len(spans[r]) :
    spans[r][i].call # None =>
      calls[spans[r][i].call] = [run |-> r, agent |-> spans[r][i].agent]

\* No completion is recorded twice, though every run registers the callback.
CallsAreCountedOnce ==
  \A r, q \in Runs : \A i \in 1..Len(spans[r]), j \in 1..Len(spans[q]) :
    spans[r][i].call # None /\ spans[r][i].call = spans[q][j].call => r = q /\ i = j

\* The path that is reported is the one the run took, a node for every visit,
\* though its spans are recorded when the nodes end and other threads record
\* between them.
NodePathIsTheWalk ==
  \A r \in Runs :
    report[r] # None /\ report[r].node_path # None => report[r].node_path = walk[r]

CallsMade(r, a) == {c \in 1..Len(calls) : calls[c] = [run |-> r, agent |-> a]}

\* The report charges each agent every completion it made in the run, except
\* those litellm had not reported yet or a thread left behind made afterwards;
\* no others make the number of spans differ from what the names add up to.
ReportCountsWhatArrived ==
  \A r \in Runs : report[r] # None =>
    /\ \A a \in Agents : report[r].by_agent[a] = Cardinality(CallsMade(r, a) \ late[r])
    /\ report[r].span_count # None =>
         report[r].span_count - report[r].counted \in 0..Cardinality(late[r])
=============================================================================

--------------------------- MODULE TelemetryProofs ---------------------------
(***************************************************************************)
(* Attribution and counting of the completions, the path and the counts    *)
(* that are reported, for any number of runs, nodes and completions.       *)
(***************************************************************************)
EXTENDS Telemetry, FiniteSetTheorems, SequenceTheorems, TLAPS

PlainSpans  == [name : Nodes \cup InfraPorts \cup AgentPorts, agent : {None}, call : {None}]
Completions == [name : {"llm.completion"}, agent : Agents, call : Nat]
SpanType    == PlainSpans \cup Completions
Pending  == [call : Nat, kind : {"task", "thread"}, sink : Runs, agent : Agents]

\* Where using_llm_sink is open.
Routed == {"graph", "node", "port", "flush"}

\* The types the attribution rests on.
Types ==
  /\ pc \in Routed \cup {"idle", "rollup", "path", "count"}
  /\ run \in Nat /\ run <= MaxRuns /\ (pc # "idle" => run \in Runs)
  /\ node \in Nodes \cup {"end"} /\ (pc \in {"node", "port"} => node \in Nodes)
  /\ todo \in Seq(InfraPorts \cup AgentPorts)
  /\ pc = "port" => port \in AgentPorts
  /\ calls \in Seq([run : Runs, agent : Agents])
  /\ spans \in [Runs -> Seq(SpanType)]

\* The logger is registered once, and before anything can be completed.
Registered ==
  /\ callbacks = IF run = 0 THEN 0 ELSE 1
  /\ run = 0 => pc = "idle" /\ threads = {} /\ pending = {}

\* While a run is routed the main task carries its sink, and the agent of the
\* port it waits for.
MainContext ==
  pc \in Routed =>
    context = [sink |-> run, agent |-> IF pc = "port" THEN AgentOf[port] ELSE "unknown"]

\* A Corrector thread carries the run that started it, whatever run is under way.
ThreadContext ==
  \A t \in threads :
    t.run \in Runs /\ t.context = [sink |-> t.run, agent |-> "corrector"]

\* What litellm has yet to report carries the run and the agent that made it.
PendingContext ==
  \A p \in pending :
    /\ p.sink \in Runs /\ p.agent \in Agents /\ p.call \in 1..Len(calls)
    /\ calls[p.call] = [run |-> p.sink, agent |-> p.agent]

\* What is recorded was made, in this run by this agent.
RecordedContext ==
  \A r \in Runs : \A i \in 1..Len(spans[r]) :
    spans[r][i].call # None =>
      /\ spans[r][i].call \in 1..Len(calls)
      /\ calls[spans[r][i].call] = [run |-> r, agent |-> spans[r][i].agent]

Attributed ==
  /\ Types /\ Registered /\ MainContext /\ ThreadContext /\ PendingContext /\ RecordedContext

-----------------------------------------------------------------------------
(* What a step does to the sinks and to the completions. *)

\* The names of nodes, of ports and of completions are different.
LEMMA NamesDiffer ==
  /\ Nodes \cap (InfraPorts \cup AgentPorts) = {}
  /\ "llm.completion" \notin Nodes \cup InfraPorts \cup AgentPorts
BY DEF Nodes, Successors, InfraPorts, AgentPorts, AgentOf

LEMMA SpanKinds ==
  ASSUME NEW s \in SpanType
  PROVE  /\ s.call # None <=> s.name = "llm.completion"
         /\ s.call # None => s.call \in Nat /\ s.agent \in Agents
         /\ s.name \in Nodes \cup InfraPorts \cup AgentPorts \cup {"llm.completion"}
<1>1. CASE s \in PlainSpans
  BY <1>1, NamesDiffer DEF PlainSpans
<1>2. CASE s \in Completions
  BY <1>2, TelemetryAssumption DEF Completions
<1>3. QED
  BY <1>1, <1>2 DEF SpanType

LEMMA PlainSpan ==
  ASSUME NEW name \in Nodes \cup InfraPorts \cup AgentPorts
  PROVE  /\ Span(name) \in PlainSpans /\ Span(name) \in SpanType
         /\ Span(name).call = None /\ Span(name).name = name
BY DEF Span, PlainSpans, SpanType

LEMMA PortNames ==
  /\ \A p \in AgentPorts : AgentOf[p] \in Agents
  /\ AgentOf["fixer.fix"] = "corrector" /\ "fixer.fix" \in AgentPorts
<1>1. AgentPorts = {"fixer.fix", "tester.write_regression_test",
                    "reporter.compose_commit_message", "reporter.compose_post_mortem"}
  BY DEF AgentPorts, AgentOf
<1>2. \A p \in AgentPorts : AgentOf[p] =
        CASE p = "fixer.fix" -> "corrector"
          [] p = "tester.write_regression_test" -> "tester"
          [] OTHER -> "reporter"
  BY <1>1 DEF AgentOf
<1>3. QED
  BY <1>1, <1>2 DEF Agents

LEMMA CompletionSpanType ==
  ASSUME Attributed, NEW p \in pending
  PROVE  /\ CompletionSpan(p.agent, p.call) \in Completions
         /\ CompletionSpan(p.agent, p.call) \in SpanType
         /\ p.sink \in Runs /\ p.call # None
<1>1. p.agent \in Agents /\ p.call \in 1..Len(calls) /\ p.sink \in Runs
  BY DEF Attributed, PendingContext
<1>2. Len(calls) \in Nat
  BY DEF Attributed, Types
<1>3. p.call \in Nat
  BY <1>1, <1>2
<1>4. QED
  BY <1>1, <1>3, TelemetryAssumption DEF CompletionSpan, Completions, SpanType

\* A callback adds its completion to the sink it carries, and is no longer
\* pending.
LEMMA CallbackAppends ==
  ASSUME Attributed, Callback
  PROVE  \E p \in pending :
           /\ pending' = pending \ {p}
           /\ spans' = [spans EXCEPT ![p.sink] =
                          Append(@, CompletionSpan(p.agent, p.call))]
<1>1. PICK p \in pending :
        /\ pending' = pending \ {p}
        /\ spans' = IF p.sink = None THEN spans
                    ELSE [spans EXCEPT ![p.sink] =
                            @ \o [i \in 1..callbacks |-> CompletionSpan(p.agent, p.call)]]
  BY DEF Callback, ContextOf
<1>2. callbacks = 1 /\ spans \in [Runs -> Seq(SpanType)]
  BY <1>1 DEF Attributed, Types, Registered
<1>3. p.sink \in Runs
  BY DEF Attributed, PendingContext
<1>4. p.sink # None
  BY <1>3, TelemetryAssumption DEF Runs
<1>5. spans[p.sink] \in Seq(SpanType)
  BY <1>2, <1>3
<1> DEFINE s == CompletionSpan(p.agent, p.call)
           new == [i \in 1..callbacks |-> s]
<1>6. spans' = [spans EXCEPT ![p.sink] = @ \o new]
  BY <1>1, <1>4
<1>7. new = <<s>>
  BY <1>2
<1>8. spans[p.sink] \o new = Append(spans[p.sink], s)
  <2>1. s \in SpanType
    BY CompletionSpanType
  <2> HIDE DEF new, s
  <2>2. QED
    BY <1>5, <1>7, <2>1, AppendIsConcat
<1>9. spans' = [spans EXCEPT ![p.sink] = Append(@, s)]
  BY <1>2, <1>3, <1>6, <1>8
<1>10. QED
  BY <1>1, <1>9

\* Of the sinks a step changes at most one, by one span: that of a node or a
\* port, in the run under way, or that of a completion, which is then no
\* longer pending.
SpanStep ==
  \/ spans' = spans /\ pending \subseteq pending'
  \/ \E r \in Runs, s \in SpanType :
       /\ spans' = [spans EXCEPT ![r] = Append(@, s)]
       /\ UNCHANGED calls
       /\ \/ /\ s.call = None /\ UNCHANGED pending
             /\ r = run /\ pc \in {"node", "port"}
          \/ \E p \in pending :
               /\ pending' = pending \ {p}
               /\ r = p.sink /\ s.agent = p.agent /\ s.call = p.call /\ s.call # None

\* A step makes no completion, or one that is pending at once, and late if its
\* run has been rolled up.
CallStep ==
  \/ UNCHANGED calls /\ pending' \subseteq pending /\ (RollUp \/ UNCHANGED late)
  \/ \E r \in Runs, agent \in Agents, kind \in {"task", "thread"} :
       /\ calls' = Append(calls, [run |-> r, agent |-> agent])
       /\ pending' = pending \cup
            {[call |-> Len(calls) + 1, kind |-> kind, sink |-> r, agent |-> agent]}
       /\ late' = IF report[r] = None THEN late
                  ELSE [late EXCEPT ![r] = @ \cup {Len(calls) + 1}]
       /\ UNCHANGED <<spans, report>>

LEMMA SpanNext == ASSUME Attributed, [Next]_vars PROVE SpanStep
<1> USE DEF SpanStep
<1>0. Types
  BY DEF Attributed
<1>1. CASE CallInfra
  <2>1. Head(todo) \in InfraPorts
    BY <1>1 DEF CallInfra
  <2>2. QED
    BY <1>0, <1>1, <2>1, PlainSpan DEF CallInfra, Record, llmVars, Types
<1>2. CASE EndPort
  BY <1>0, <1>2, PlainSpan DEF EndPort, Record, Types
<1>3. CASE EndNode \/ NodeRaises
  <2>1. pc = "node" /\ Record(Span(node)) /\ UNCHANGED llmVars
    BY <1>3 DEF EndNode, NodeRaises, Abort
  <2>2. node \in Nodes
    BY <1>0, <2>1 DEF Types
  <2>3. QED
    BY <1>0, <2>1, <2>2, PlainSpan DEF Record, llmVars, Types
<1>4. CASE Callback
  <2>1. PICK p \in pending :
          /\ pending' = pending \ {p}
          /\ spans' = [spans EXCEPT ![p.sink] =
                         Append(@, CompletionSpan(p.agent, p.call))]
    BY <1>4, CallbackAppends
  <2>2. /\ CompletionSpan(p.agent, p.call) \in SpanType /\ p.sink \in Runs
        /\ CompletionSpan(p.agent, p.call).agent = p.agent
        /\ CompletionSpan(p.agent, p.call).call = p.call /\ p.call # None
    BY CompletionSpanType DEF CompletionSpan
  <2>3. UNCHANGED calls
    BY <1>4 DEF Callback
  <2>4. QED
    BY <2>1, <2>2, <2>3
<1>5. CASE ~(CallInfra \/ EndPort \/ EndNode \/ NodeRaises \/ Callback)
  BY <1>5
  DEF Next, Over, StartRun, StartNode, CallAgent, RunRaises, Abort, GraphReturns, Flushed,
      RollUp, TakePath, TakeCount, AgentCompletes, ThreadCompletes, ThreadEnds, Completion,
      llmVars, vars
<1>6. QED
  BY <1>1, <1>2, <1>3, <1>4, <1>5

LEMMA CallNext == ASSUME Attributed, [Next]_vars PROVE CallStep
<1> USE DEF CallStep
<1>1. CASE AgentCompletes
  <2>1. context = [sink |-> run, agent |-> AgentOf[port]] /\ run \in Runs
        /\ port \in AgentPorts
    BY <1>1 DEF AgentCompletes, Attributed, MainContext, Routed, Types
  <2>2. AgentOf[port] \in Agents
    BY <2>1, PortNames
  <2>3. QED
    BY <1>1, <2>1, <2>2 DEF AgentCompletes, Completion
<1>2. CASE ThreadCompletes
  <2>1. PICK t \in threads : Completion(t.run, "corrector", "thread", t.context)
    BY <1>2 DEF ThreadCompletes
  <2>2. t.run \in Runs /\ t.context = [sink |-> t.run, agent |-> "corrector"]
    BY DEF Attributed, ThreadContext
  <2>3. "corrector" \in Agents
    BY DEF Agents
  <2>4. /\ calls' = Append(calls, [run |-> t.run, agent |-> "corrector"])
        /\ pending' = pending \cup
             {[call |-> Len(calls) + 1, kind |-> "thread", sink |-> t.run,
               agent |-> "corrector"]}
        /\ late' = IF report[t.run] = None THEN late
                   ELSE [late EXCEPT ![t.run] = @ \cup {Len(calls) + 1}]
        /\ UNCHANGED <<spans, report>>
    BY <2>1, <2>2 DEF Completion
  <2>5. QED
    BY <2>2, <2>3, <2>4
<1>3. CASE ~(AgentCompletes \/ ThreadCompletes)
  BY <1>3
  DEF Next, Over, StartRun, StartNode, CallAgent, RunRaises, GraphReturns, Flushed, RollUp,
      TakePath, TakeCount, Callback, ThreadEnds, CallInfra, EndPort, EndNode, NodeRaises,
      Abort, llmVars, vars
<1>4. QED
  BY <1>1, <1>2, <1>3

-----------------------------------------------------------------------------
(* Attribution. *)

LEMMA AppendedSinks ==
  ASSUME NEW sinks \in [Runs -> Seq(SpanType)], NEW r \in Runs, NEW s \in SpanType,
         NEW new, new = [sinks EXCEPT ![r] = Append(@, s)]
  PROVE  /\ new \in [Runs -> Seq(SpanType)]
         /\ Len(new[r]) = Len(sinks[r]) + 1 /\ new[r][Len(sinks[r]) + 1] = s
         /\ \A i \in 1..Len(sinks[r]) : new[r][i] = sinks[r][i]
         /\ \A q \in Runs \ {r} : new[q] = sinks[q]
<1>1. sinks[r] \in Seq(SpanType) /\ new[r] = Append(sinks[r], s)
  OBVIOUS
<1>2. QED
  BY <1>1, AppendProperties

LEMMA CallsKept ==
  ASSUME Types, CallStep
  PROVE  \A c \in 1..Len(calls) : c \in 1..Len(calls') /\ calls'[c] = calls[c]
<1>1. calls \in Seq([run : Runs, agent : Agents])
  BY DEF Types
<1>2. CASE UNCHANGED calls
  BY <1>2
<1>3. ASSUME NEW made \in [run : Runs, agent : Agents], calls' = Append(calls, made)
      PROVE  \A c \in 1..Len(calls) : c \in 1..Len(calls') /\ calls'[c] = calls[c]
  BY <1>1, <1>3, AppendProperties
<1>4. QED
  BY <1>2, <1>3 DEF CallStep

LEMMA RecordedNext ==
  ASSUME Attributed, [Next]_vars PROVE spans' \in [Runs -> Seq(SpanType)] /\ RecordedContext'
<1> USE DEF RecordedContext
<1>0. Types /\ RecordedContext /\ spans \in [Runs -> Seq(SpanType)] /\ SpanStep /\ CallStep
  BY SpanNext, CallNext DEF Attributed, Types
<1>1. CASE spans' = spans
  <2>1. \A c \in 1..Len(calls) : c \in 1..Len(calls') /\ calls'[c] = calls[c]
    BY <1>0, CallsKept
  <2>2. QED
    BY <1>0, <1>1, <2>1
<1>2. CASE spans' # spans
  <2>1. PICK r \in Runs, s \in SpanType :
          /\ spans' = [spans EXCEPT ![r] = Append(@, s)]
          /\ UNCHANGED calls
          /\ \/ s.call = None /\ UNCHANGED pending
             \/ \E p \in pending :
                  /\ pending' = pending \ {p}
                  /\ r = p.sink /\ s.agent = p.agent /\ s.call = p.call
    BY <1>0, <1>2 DEF SpanStep
  <2>2. /\ spans' \in [Runs -> Seq(SpanType)]
        /\ Len(spans'[r]) = Len(spans[r]) + 1 /\ spans'[r][Len(spans[r]) + 1] = s
        /\ \A i \in 1..Len(spans[r]) : spans'[r][i] = spans[r][i]
        /\ \A q \in Runs \ {r} : spans'[q] = spans[q]
    BY <1>0, <2>1, AppendedSinks
  <2>3. s.call # None =>
          s.call \in 1..Len(calls) /\ calls[s.call] = [run |-> r, agent |-> s.agent]
    BY <2>1 DEF Attributed, PendingContext
  <2>4. ASSUME NEW q \in Runs, NEW i \in 1..Len(spans'[q]), spans'[q][i].call # None
        PROVE  /\ spans'[q][i].call \in 1..Len(calls')
               /\ calls'[spans'[q][i].call] = [run |-> q, agent |-> spans'[q][i].agent]
    <3>1. CASE q # r
      BY <1>0, <2>1, <2>2, <2>4, <3>1
    <3>2. CASE q = r /\ i = Len(spans[r]) + 1
      BY <2>1, <2>2, <2>3, <2>4, <3>2
    <3>3. CASE q = r /\ i \in 1..Len(spans[r])
      BY <1>0, <2>1, <2>2, <2>4, <3>3
    <3>4. Len(spans[r]) \in Nat
      BY <1>0
    <3>5. QED
      BY <2>2, <3>1, <3>2, <3>3, <3>4
  <2>5. QED
    BY <2>2, <2>4
<1>3. QED
  BY <1>1, <1>2

LEMMA PendingNext ==
  ASSUME Attributed, [Next]_vars
  PROVE  /\ calls' \in Seq([run : Runs, agent : Agents]) /\ PendingContext'
<1>0. CallStep /\ Types /\ PendingContext
  BY CallNext DEF Attributed
<1>1. CASE UNCHANGED calls /\ pending' \subseteq pending
  BY <1>0, <1>1 DEF Types, PendingContext
<1>2. CASE ~(UNCHANGED calls /\ pending' \subseteq pending)
  <2>1. PICK r \in Runs, agent \in Agents, kind \in {"task", "thread"} :
       /\ calls' = Append(calls, [run |-> r, agent |-> agent])
       /\ pending' = pending \cup
            {[call |-> Len(calls) + 1, kind |-> kind, sink |-> r, agent |-> agent]}
    BY <1>0, <1>2 DEF CallStep
  <2>2. calls \in Seq([run : Runs, agent : Agents]) /\ Len(calls) \in Nat
    BY <1>0 DEF Types
  <2> DEFINE made == [run |-> r, agent |-> agent]
             p0   == [call |-> Len(calls) + 1, kind |-> kind, sink |-> r, agent |-> agent]
  <2>3. /\ made \in [run : Runs, agent : Agents]
        /\ p0.call = Len(calls) + 1 /\ p0.sink = r /\ p0.agent = agent
    OBVIOUS
  <2>4. calls' = Append(calls, made) /\ pending' = pending \cup {p0}
    BY <2>1
  <2> HIDE DEF p0
  <2>5. /\ calls' \in Seq([run : Runs, agent : Agents]) /\ Len(calls') = Len(calls) + 1
        /\ calls'[Len(calls) + 1] = made
        /\ \A c \in 1..Len(calls) : calls'[c] = calls[c]
    BY <2>2, <2>3, <2>4
  <2>6. ASSUME NEW p \in pending
        PROVE  /\ p.sink \in Runs /\ p.agent \in Agents /\ p.call \in 1..Len(calls')
               /\ calls'[p.call] = [run |-> p.sink, agent |-> p.agent]
    BY <1>0, <2>2, <2>5 DEF PendingContext
  <2>7. /\ p0.sink \in Runs /\ p0.agent \in Agents /\ p0.call \in 1..Len(calls')
        /\ calls'[p0.call] = [run |-> p0.sink, agent |-> p0.agent]
    BY <2>2, <2>3, <2>5
  <2>8. QED
    BY <2>4, <2>5, <2>6, <2>7 DEF PendingContext
<1>3. QED
  BY <1>1, <1>2

\* The tables of the graph name nodes and ports.
LEMMA GraphNames ==
  ASSUME NEW n \in Nodes
  PROVE  /\ PortsOf[n] \subseteq Seq(InfraPorts \cup AgentPorts)
         /\ Successors[n] \subseteq Nodes \cup {"end"}
<1>1. Nodes = {"bootstrap", "fix", "validate", "immunize", "report_commit", "rollback",
               "post_mortem"}
  BY DEF Nodes, Successors
<1>2. Successors[n] \subseteq Nodes \cup {"end"}
  BY <1>1 DEF Successors
<1>3. InfraPorts \cup AgentPorts =
        {"sandbox.run_tests", "git.commit", "git.reset_hard", "fixer.fix",
         "tester.write_regression_test", "reporter.compose_commit_message",
         "reporter.compose_post_mortem"}
  BY DEF InfraPorts, AgentPorts, AgentOf
<1>4. PortsOf[n] \subseteq Seq(InfraPorts \cup AgentPorts)
  <2> DEFINE P == InfraPorts \cup AgentPorts
             sandbox == "sandbox.run_tests"
             tester  == "tester.write_regression_test"
  <2>1. PortsOf[n] \in
          { {<<>>}, {<<"fixer.fix">>}, {<<sandbox>>, <<sandbox, sandbox>>},
            {<<>>, <<tester>>, <<tester, sandbox>>, <<tester, sandbox, sandbox>>},
            {<<"reporter.compose_commit_message", "git.commit">>}, {<<"git.reset_hard">>},
            {<<"reporter.compose_post_mortem">>} }
    BY <1>1 DEF PortsOf
  <2>2. /\ <<>> \in Seq(P) /\ <<"fixer.fix">> \in Seq(P)
        /\ <<sandbox>> \in Seq(P) /\ <<sandbox, sandbox>> \in Seq(P)
        /\ <<tester>> \in Seq(P) /\ <<tester, sandbox>> \in Seq(P)
        /\ <<tester, sandbox, sandbox>> \in Seq(P)
        /\ <<"reporter.compose_commit_message", "git.commit">> \in Seq(P)
        /\ <<"git.reset_hard">> \in Seq(P) /\ <<"reporter.compose_post_mortem">> \in Seq(P)
    BY <1>3
  <2> HIDE DEF P
  <2>3. PortsOf[n] \subseteq Seq(P)
    BY <2>1, <2>2
  <2>4. QED
    BY <2>3 DEF P
<1>5. QED
  BY <1>2, <1>4

LEMMA ControlNext ==
  ASSUME Attributed, [Next]_vars
  PROVE  /\ pc' \in Routed \cup {"idle", "rollup", "path", "count"}
         /\ run' \in Nat /\ run' <= MaxRuns /\ (pc' # "idle" => run' \in Runs)
         /\ node' \in Nodes \cup {"end"} /\ (pc' \in {"node", "port"} => node' \in Nodes)
         /\ todo' \in Seq(InfraPorts \cup AgentPorts)
         /\ pc' = "port" => port' \in AgentPorts
<1> USE DEF Routed
<1>0. Types
  BY DEF Attributed
<1>1. CASE StartRun
  BY <1>0, <1>1, TelemetryAssumption
  DEF StartRun, Types, Runs, Nodes, Successors
<1>2. CASE StartNode
  <2>1. PortsOf[node] \subseteq Seq(InfraPorts \cup AgentPorts)
    BY <1>2, <1>0, GraphNames DEF StartNode, Types
  <2>2. QED
    BY <1>0, <1>2, <2>1 DEF StartNode, Types, llmVars
<1>3. CASE CallInfra
  BY <1>0, <1>3 DEF CallInfra, Types, llmVars
<1>4. CASE CallAgent
  BY <1>0, <1>4 DEF CallAgent, Types
<1>5. CASE EndNode
  <2>1. Successors[node] \subseteq Nodes \cup {"end"}
    BY <1>5, <1>0, GraphNames DEF EndNode, Types
  <2>2. QED
    BY <1>0, <1>5, <2>1 DEF EndNode, Types, llmVars
<1>6. CASE NodeRaises \/ RunRaises
  <2>1. pc' = "idle" /\ todo' = <<>> /\ UNCHANGED <<run, node, port>>
    BY <1>6 DEF NodeRaises, RunRaises, Abort
  <2>2. QED
    BY <1>0, <2>1 DEF Types
<1>7. CASE ~(StartRun \/ StartNode \/ CallInfra \/ CallAgent \/ EndNode
            \/ NodeRaises \/ RunRaises)
  BY <1>0, <1>7
  DEF Next, Over, EndPort, GraphReturns, Flushed, RollUp, TakePath, TakeCount,
      AgentCompletes, ThreadCompletes, Completion, ThreadEnds, Callback, Types, graphVars,
      llmVars, vars
<1>8. QED
  BY <1>1, <1>2, <1>3, <1>4, <1>5, <1>6, <1>7

LEMMA RegisteredNext == ASSUME Attributed, [Next]_vars PROVE Registered'
<1> USE DEF Registered
<1>0. Types /\ Registered
  BY DEF Attributed
<1>1. CASE StartRun
  BY <1>0, <1>1 DEF StartRun, EnsureRegistered, Types
<1>2. CASE run # 0 /\ ~StartRun
  <2>1. run' = run /\ callbacks' = callbacks
    BY <1>2
    DEF Next, Over, StartNode, CallInfra, CallAgent, EndPort, EndNode, NodeRaises, RunRaises,
        Abort, GraphReturns, Flushed, RollUp, TakePath, TakeCount, AgentCompletes,
        ThreadCompletes, Completion, ThreadEnds, Callback, graphVars, llmVars, vars
  <2>2. QED
    BY <1>0, <1>2, <2>1
<1>3. CASE run = 0 /\ ~StartRun
  <2>1. pc = "idle" /\ threads = {} /\ pending = {}
    BY <1>0, <1>3
  <2>2. UNCHANGED vars
    BY <1>3, <2>1
    DEF Next, Over, StartNode, CallInfra, CallAgent, EndPort, EndNode, NodeRaises, RunRaises,
        GraphReturns, Flushed, RollUp, TakePath, TakeCount, AgentCompletes,
        ThreadCompletes, ThreadEnds, Callback
  <2>3. QED
    BY <1>0, <2>2 DEF vars, graphVars, llmVars
<1>4. QED
  BY <1>1, <1>2, <1>3

LEMMA MainContextNext == ASSUME Attributed, [Next]_vars PROVE MainContext'
<1> USE DEF MainContext, Routed
<1>0. Types /\ MainContext
  BY DEF Attributed
<1>1. CASE StartRun
  BY <1>1 DEF StartRun
<1>2. CASE CallAgent
  BY <1>0, <1>2 DEF CallAgent
<1>3. CASE EndPort
  BY <1>0, <1>3 DEF EndPort
<1>4. CASE ~(StartRun \/ CallAgent \/ EndPort)
  BY <1>0, <1>4
  DEF Next, Over, StartNode, CallInfra, EndNode, NodeRaises, RunRaises, Abort, GraphReturns,
      Flushed, RollUp, TakePath, TakeCount, AgentCompletes, ThreadCompletes, Completion,
      ThreadEnds, Callback, graphVars, vars
<1>5. QED
  BY <1>1, <1>2, <1>3, <1>4

LEMMA ThreadContextNext == ASSUME Attributed, [Next]_vars PROVE ThreadContext'
<1> USE DEF ThreadContext
<1>0. Types /\ MainContext /\ ThreadContext
  BY DEF Attributed
<1>1. CASE CallAgent
  <2>1. /\ pc = "node" /\ run \in Runs /\ port' = Head(todo)
        /\ context' = [context EXCEPT !.agent = AgentOf[port']]
        /\ threads' = IF port' = "fixer.fix"
                        THEN threads \cup {[run |-> run, context |-> context']} ELSE threads
    BY <1>0, <1>1 DEF CallAgent, Types
  <2>2. context = [sink |-> run, agent |-> "unknown"]
    BY <1>0, <2>1 DEF MainContext, Routed
  <2>3. port' = "fixer.fix" => context' = [sink |-> run, agent |-> "corrector"]
    BY <2>1, <2>2, PortNames
  <2> DEFINE started == [run |-> run, context |-> context']
  <2>4. started.run = run /\ started.context = context'
    OBVIOUS
  <2>5. threads' \subseteq threads \/ (port' = "fixer.fix" /\ threads' = threads \cup {started})
    BY <2>1
  <2> HIDE DEF started
  <2>6. QED
    BY <1>0, <2>1, <2>3, <2>4, <2>5
<1>2. CASE ~CallAgent
  <2>1. threads' \subseteq threads
    BY <1>2
    DEF Next, Over, StartRun, StartNode, CallInfra, EndPort, EndNode, NodeRaises, RunRaises,
        Abort, GraphReturns, Flushed, RollUp, TakePath, TakeCount, AgentCompletes,
        ThreadCompletes, Completion, ThreadEnds, Callback, llmVars, vars
  <2>2. QED
    BY <1>0, <2>1
<1>3. QED
  BY <1>1, <1>2

LEMMA AttributedInductive ==
  /\ Init => Attributed
  /\ Attributed /\ [Next]_vars => Attributed'
<1>1. ASSUME Init PROVE Attributed
  BY <1>1, TelemetryAssumption
  DEF Init, Attributed, Types, Registered, MainContext, ThreadContext, PendingContext, RecordedContext,
      Nodes, Successors, Routed
<1>2. ASSUME Attributed, [Next]_vars PROVE Types'
  BY <1>2, ControlNext, PendingNext, RecordedNext DEF Types, Routed
<1>3. QED
  BY <1>1, <1>2, RegisteredNext, MainContextNext, ThreadContextNext, PendingNext, RecordedNext
  DEF Attributed

\* A completion is recorded in the sink of the run that paid for it and under
\* the agent that made it, for any number of runs, completions and threads left
\* behind.
THEOREM AttributionIsRight == Spec => []SpansStayInTheirRun
<1>1. Attributed => SpansStayInTheirRun
  BY DEF Attributed, RecordedContext, SpansStayInTheirRun
<1>2. QED
  BY <1>1, AttributedInductive, PTL DEF Spec

-----------------------------------------------------------------------------
(* Counting. *)

\* A completion is pending once, or recorded and no longer pending.
PendingOnce ==
  /\ \A p, q \in pending : p.call = q.call => p = q
  /\ \A r \in Runs : \A i \in 1..Len(spans[r]), p \in pending : spans[r][i].call # p.call

CountedInv == Attributed /\ PendingOnce /\ CallsAreCountedOnce

LEMMA PendingOnceNext == ASSUME CountedInv, [Next]_vars PROVE PendingOnce'
<1> USE DEF PendingOnce
<1>0. Attributed /\ PendingOnce /\ SpanStep /\ CallStep /\ Types
  BY SpanNext, CallNext DEF CountedInv, Attributed
<1>1. CASE spans' = spans /\ pending' \subseteq pending
  BY <1>0, <1>1
<1>2. CASE spans' # spans
  <2>1. PICK r \in Runs, s \in SpanType :
          /\ spans' = [spans EXCEPT ![r] = Append(@, s)]
          /\ \/ s.call = None /\ UNCHANGED pending
             \/ \E p \in pending : pending' = pending \ {p} /\ s.call = p.call
    BY <1>0, <1>2 DEF SpanStep
  <2>2. /\ spans \in [Runs -> Seq(SpanType)]
        /\ Len(spans'[r]) = Len(spans[r]) + 1 /\ spans'[r][Len(spans[r]) + 1] = s
        /\ \A i \in 1..Len(spans[r]) : spans'[r][i] = spans[r][i]
        /\ \A q \in Runs \ {r} : spans'[q] = spans[q]
    BY <1>0, <2>1, AppendedSinks DEF Types
  <2>3. \A p \in pending' : p \in pending /\ p.call # s.call
    BY <1>0, <2>1, CompletionSpanType
  <2>4. ASSUME NEW q \in Runs, NEW i \in 1..Len(spans'[q]), NEW p \in pending'
        PROVE  spans'[q][i].call # p.call
    <3>1. CASE q # r
      BY <1>0, <2>2, <2>3, <3>1
    <3>2. CASE q = r /\ i = Len(spans[r]) + 1
      BY <2>2, <2>3, <3>2
    <3>3. CASE q = r /\ i \in 1..Len(spans[r])
      BY <1>0, <2>2, <2>3, <3>3
    <3>4. Len(spans[r]) \in Nat
      BY <2>2
    <3>5. QED
      BY <2>2, <3>1, <3>2, <3>3, <3>4
  <2>5. QED
    BY <1>0, <2>3, <2>4
<1>3. CASE spans' = spans /\ ~(pending' \subseteq pending)
  <2>1. PICK p0 : pending' = pending \cup {p0} /\ p0.call = Len(calls) + 1
    <3>1. PICK r \in Runs, agent \in Agents, kind \in {"task", "thread"} :
            pending' = pending \cup
              {[call |-> Len(calls) + 1, kind |-> kind, sink |-> r, agent |-> agent]}
      BY <1>0, <1>3 DEF CallStep
    <3>2. [call |-> Len(calls) + 1, kind |-> kind, sink |-> r, agent |-> agent].call
            = Len(calls) + 1
      OBVIOUS
    <3>3. QED
      BY <3>1, <3>2
  <2>2. Len(calls) \in Nat
    BY <1>0 DEF Types
  <2>3. \A p \in pending : p.call \in 1..Len(calls)
    BY <1>0 DEF Attributed, PendingContext
  <2>4. \A r \in Runs : \A i \in 1..Len(spans[r]) :
          spans[r][i].call = None \/ spans[r][i].call \in 1..Len(calls)
    BY <1>0 DEF Attributed, RecordedContext
  <2>5. p0.call \notin 1..Len(calls) /\ p0.call # None
    BY <2>1, <2>2, TelemetryAssumption
  <2>6. QED
    BY <1>0, <1>3, <2>1, <2>3, <2>4, <2>5
<1>4. QED
  BY <1>1, <1>2, <1>3

LEMMA CountedOnceNext == ASSUME CountedInv, [Next]_vars PROVE CallsAreCountedOnce'
<1> USE DEF CallsAreCountedOnce
<1>0. Attributed /\ PendingOnce /\ CallsAreCountedOnce /\ SpanStep /\ Types
  BY SpanNext DEF CountedInv, Attributed
<1>1. CASE spans' = spans
  BY <1>0, <1>1
<1>2. CASE spans' # spans
  <2>1. PICK r \in Runs, s \in SpanType :
          /\ spans' = [spans EXCEPT ![r] = Append(@, s)]
          /\ s.call = None \/ \E p \in pending : s.call = p.call
    BY <1>0, <1>2 DEF SpanStep
  <2>2. /\ spans \in [Runs -> Seq(SpanType)]
        /\ Len(spans'[r]) = Len(spans[r]) + 1 /\ spans'[r][Len(spans[r]) + 1] = s
        /\ \A i \in 1..Len(spans[r]) : spans'[r][i] = spans[r][i]
        /\ \A q \in Runs \ {r} : spans'[q] = spans[q]
    BY <1>0, <2>1, AppendedSinks DEF Types
  <2>3. \A q \in Runs : \A i \in 1..Len(spans[q]) :
          spans[q][i].call # None => spans[q][i].call # s.call
    BY <1>0, <2>1 DEF PendingOnce
  \* Every span but the new one was there before, at the same place.
  <2>4. ASSUME NEW q \in Runs, NEW i \in 1..Len(spans'[q])
        PROVE  \/ q = r /\ i = Len(spans[r]) + 1 /\ spans'[q][i] = s
               \/ i \in 1..Len(spans[q]) /\ spans'[q][i] = spans[q][i]
    <3>1. Len(spans[r]) \in Nat
      BY <2>2
    <3>2. QED
      BY <2>2, <3>1
  <2>5. ASSUME NEW q \in Runs, NEW t \in Runs,
               NEW i \in 1..Len(spans'[q]), NEW j \in 1..Len(spans'[t]),
               spans'[q][i].call # None, spans'[q][i].call = spans'[t][j].call
        PROVE  q = t /\ i = j
    <3>1. CASE i \in 1..Len(spans[q]) /\ spans'[q][i] = spans[q][i]
      <4>1. spans[q][i].call # None /\ spans[q][i].call # s.call
        BY <2>3, <2>5, <3>1
      <4>2. spans'[t][j].call = spans[q][i].call
        BY <2>5, <3>1
      <4>3. j \in 1..Len(spans[t]) /\ spans'[t][j] = spans[t][j]
        BY <2>4, <4>1, <4>2
      <4>4. QED
        BY <1>0, <3>1, <4>1, <4>2, <4>3
    <3>2. CASE q = r /\ i = Len(spans[r]) + 1 /\ spans'[q][i] = s
      <4>1. \/ t = r /\ j = Len(spans[r]) + 1
            \/ j \in 1..Len(spans[t]) /\ spans'[t][j] = spans[t][j]
        BY <2>4
      <4>2. s.call # None /\ spans'[t][j].call = s.call
        BY <2>5, <3>2
      <4>3. ~(j \in 1..Len(spans[t]) /\ spans'[t][j] = spans[t][j])
        BY <2>3, <2>5, <4>2
      <4>4. QED
        BY <3>2, <4>1, <4>3
    <3>3. QED
      BY <2>4, <3>1, <3>2
  <2>6. QED
    BY <2>5
<1>3. QED
  BY <1>1, <1>2

\* No completion is recorded twice, however many runs register the callback.
THEOREM CountingIsRight == Spec => []CallsAreCountedOnce
<1>1. Init => CountedInv
  BY AttributedInductive DEF Init, CountedInv, PendingOnce, CallsAreCountedOnce
<1>2. CountedInv /\ [Next]_vars => CountedInv'
  BY AttributedInductive, PendingOnceNext, CountedOnceNext DEF CountedInv
<1>3. CountedInv => CallsAreCountedOnce
  BY DEF CountedInv
<1>4. QED
  BY <1>1, <1>2, <1>3, PTL DEF Spec

-----------------------------------------------------------------------------
(* The path. *)

\* Where a run has recorded the nodes it left.
NodeSpans(r) == {i \in 1..Len(spans[r]) : spans[r][i].name \in Nodes}

\* Run r is in a node, whose span is not recorded yet.
Open(r) == r = run /\ pc \in {"node", "port"}

\* How many nodes it has left.
Closed(r) == Len(walk[r]) - IF Open(r) THEN 1 ELSE 0

\* The k-th of the spans at these positions is that of the k-th of n nodes.
Matched(at, taken, nodes, n) ==
  /\ Cardinality(at) = n
  /\ \A i \in at : nodes[Rank(at, i)] = taken[i].name
  /\ \A k \in 1..n : \E i \in at : Rank(at, i) = k

\* The nodes a run has left have spans in their order, the one it is in has
\* none.
PathRecorded ==
  /\ walk \in [Runs -> Seq(Nodes)]
  /\ \A r \in Runs :
       /\ Open(r) => Len(walk[r]) > 0 /\ walk[r][Len(walk[r])] = node
       /\ Matched(NodeSpans(r), spans[r], walk[r], Closed(r))

\* A report is of a run that has left the graph.
ReportsAfterwards ==
  /\ report \in [Runs -> Reports \cup {None}]
  /\ \A r \in Runs : report[r] # None => r < run \/ (r = run /\ pc \in {"path", "count", "idle"})
  /\ pc \in {"path", "count"} => report[run] # None

PathInv == Attributed /\ PathRecorded /\ ReportsAfterwards /\ NodePathIsTheWalk

LEMMA RankBounds ==
  ASSUME NEW n \in Nat, NEW at \in SUBSET (1..n)
  PROVE  /\ IsFiniteSet(at) /\ Cardinality(at) \in Nat
         /\ \A i \in at : Rank(at, i) \in 1..Cardinality(at)
<1>1. IsFiniteSet(1..n)
  BY FS_Interval
<1>2. IsFiniteSet(at) /\ Cardinality(at) \in Nat
  BY <1>1, FS_Subset, FS_CardinalityType
<1>3. ASSUME NEW i \in at PROVE Rank(at, i) \in 1..Cardinality(at)
  <2> DEFINE upto == {j \in at : j <= i}
  <2>1. upto \in SUBSET at /\ i \in upto
    OBVIOUS
  <2>2. /\ IsFiniteSet(upto) /\ Cardinality(upto) \in Nat
        /\ Cardinality(upto) <= Cardinality(at) /\ Cardinality(upto) # 0
    BY <1>2, <2>1, FS_Subset, FS_CardinalityType, FS_EmptySet
  <2>3. Rank(at, i) = Cardinality(upto)
    BY DEF Rank
  <2> HIDE DEF upto
  <2>4. QED
    BY <1>2, <2>2, <2>3
<1>4. QED
  BY <1>2, <1>3

\* A new last position gets the next rank and changes no other.
LEMMA RankGrows ==
  ASSUME NEW n \in Nat, NEW at \in SUBSET (1..n)
  PROVE  /\ Cardinality(at \cup {n + 1}) = Cardinality(at) + 1
         /\ \A i \in at : Rank(at \cup {n + 1}, i) = Rank(at, i)
         /\ Rank(at \cup {n + 1}, n + 1) = Cardinality(at) + 1
<1>1. IsFiniteSet(at) /\ n + 1 \notin at
  BY RankBounds
<1>2. Cardinality(at \cup {n + 1}) = Cardinality(at) + 1
  BY <1>1, FS_AddElement
<1>3. ASSUME NEW i \in at PROVE {j \in at \cup {n + 1} : j <= i} = {j \in at : j <= i}
  OBVIOUS
<1>4. {j \in at \cup {n + 1} : j <= n + 1} = at \cup {n + 1}
  <2>1. \A j \in at \cup {n + 1} : j <= n + 1
    OBVIOUS
  <2>2. QED
    BY <2>1, Zenon
<1>5. QED
  BY <1>2, <1>3, <1>4 DEF Rank

\* What is reported of a run that is in no node is its walk.
LEMMA PathOfWalk ==
  ASSUME Types, PathRecorded, NEW r \in Runs, ~Open(r)
  PROVE  NodePath(spans[r]) = walk[r]
<1> DEFINE at == NodeSpans(r)
           nth(k) == CHOOSE i \in at : Rank(at, i) = k
<1>1. /\ walk[r] \in Seq(Nodes) /\ Cardinality(at) = Len(walk[r])
      /\ \A i \in at : walk[r][Rank(at, i)] = spans[r][i].name
      /\ \A k \in 1..Len(walk[r]) : \E i \in at : Rank(at, i) = k
  BY DEF PathRecorded, Closed, Matched
<1>2. ASSUME NEW k \in 1..Len(walk[r]) PROVE spans[r][nth(k)].name = walk[r][k]
  <2>1. nth(k) \in at /\ Rank(at, nth(k)) = k
    BY <1>1
  <2>2. QED
    BY <1>1, <2>1
<1>3. NodePath(spans[r]) = [k \in 1..Cardinality(at) |-> spans[r][nth(k)].name]
  BY DEF NodePath, NamesAt, NodeSpans
<1> HIDE DEF at, nth
<1>4. NodePath(spans[r]) = [k \in 1..Len(walk[r]) |-> walk[r][k]]
  BY <1>1, <1>2, <1>3
<1>5. walk[r] = [k \in 1..Len(walk[r]) |-> walk[r][k]]
  BY <1>1
<1>6. QED
  BY <1>4, <1>5

\* The run under way enters a node; or leaves the one it is in and records it;
\* or what is recorded, if anything, is no node.
Enter ==
  /\ pc = "graph" /\ pc' = "node" /\ node \in Nodes /\ UNCHANGED <<run, node, spans>>
  /\ walk' = [walk EXCEPT ![run] = Append(@, node)]

Leave ==
  /\ pc = "node" /\ pc' \in {"graph", "idle"} /\ UNCHANGED <<run, walk>>
  /\ spans' = [spans EXCEPT ![run] = Append(@, Span(node))]

Stay ==
  /\ UNCHANGED walk
  /\ pc \in {"node", "port"} <=> pc' \in {"node", "port"}
  /\ pc \in {"node", "port"} => UNCHANGED <<run, node>>
  /\ \/ spans' = spans
     \/ \E r \in Runs, s \in SpanType :
          s.name \notin Nodes /\ spans' = [spans EXCEPT ![r] = Append(@, s)]

LEMMA PathStep == ASSUME Attributed, [Next]_vars PROVE Enter \/ Leave \/ Stay
<1>0. Types
  BY DEF Attributed
<1>1. CASE StartNode
  BY <1>0, <1>1 DEF StartNode, Enter, Types
<1>2. CASE EndNode \/ NodeRaises
  BY <1>2 DEF EndNode, NodeRaises, Abort, Record, Leave
<1>3. CASE CallInfra
  <2>1. Head(todo) \in InfraPorts /\ run \in Runs
    BY <1>0, <1>3 DEF CallInfra, Types
  <2>2. Span(Head(todo)) \in SpanType /\ Span(Head(todo)).name \notin Nodes
    BY <2>1, PlainSpan, NamesDiffer
  <2>3. QED
    BY <1>3, <2>1, <2>2 DEF CallInfra, Record, Stay
<1>4. CASE EndPort
  <2>1. port \in AgentPorts /\ run \in Runs
    BY <1>0, <1>4 DEF EndPort, Types
  <2>2. Span(port) \in SpanType /\ Span(port).name \notin Nodes
    BY <2>1, PlainSpan, NamesDiffer
  <2>3. QED
    BY <1>4, <2>1, <2>2 DEF EndPort, Record, Stay
<1>5. CASE Callback
  <2>1. PICK p \in pending :
          spans' = [spans EXCEPT ![p.sink] = Append(@, CompletionSpan(p.agent, p.call))]
    BY <1>5, CallbackAppends
  <2>2. /\ CompletionSpan(p.agent, p.call) \in SpanType /\ p.sink \in Runs
        /\ CompletionSpan(p.agent, p.call).name = "llm.completion"
    BY CompletionSpanType DEF CompletionSpan
  <2>3. QED
    BY <1>5, <2>1, <2>2, NamesDiffer DEF Callback, graphVars, Stay
<1>6. CASE ~(StartNode \/ EndNode \/ NodeRaises \/ CallInfra \/ EndPort \/ Callback)
  BY <1>6
  DEF Next, Over, StartRun, CallAgent, RunRaises, Abort, GraphReturns, Flushed, RollUp,
      TakePath, TakeCount, AgentCompletes, ThreadCompletes, Completion, ThreadEnds, graphVars,
      vars, Stay
<1>7. QED
  BY <1>1, <1>2, <1>3, <1>4, <1>5, <1>6

LEMMA MatchedKept ==
  ASSUME NEW m \in Nat, NEW at \in SUBSET (1..m), NEW taken, NEW taken2,
         NEW nodes, NEW nodes2, NEW n \in Nat, Matched(at, taken, nodes, n),
         \A i \in at : taken2[i] = taken[i],
         \A k \in 1..n : nodes2[k] = nodes[k]
  PROVE  Matched(at, taken2, nodes2, n)
<1>1. \A i \in at : Rank(at, i) \in 1..n
  BY RankBounds DEF Matched
<1>2. QED
  BY <1>1 DEF Matched

LEMMA MatchedGrows ==
  ASSUME NEW m \in Nat, NEW at \in SUBSET (1..m), NEW taken, NEW nodes,
         NEW n \in Nat, Matched(at, taken, nodes, n),
         taken[m + 1].name = nodes[n + 1]
  PROVE  Matched(at \cup {m + 1}, taken, nodes, n + 1)
<1> DEFINE more == at \cup {m + 1}
<1>1. Cardinality(at) = n
  BY DEF Matched
<1>2. /\ Cardinality(more) = n + 1
      /\ \A i \in at : Rank(more, i) = Rank(at, i)
      /\ Rank(more, m + 1) = n + 1
  BY <1>1, RankGrows
<1>3. ASSUME NEW i \in more PROVE nodes[Rank(more, i)] = taken[i].name
  BY <1>2 DEF Matched
<1>4. ASSUME NEW k \in 1..n + 1 PROVE \E i \in more : Rank(more, i) = k
  <2>1. CASE k = n + 1
    BY <1>2, <2>1
  <2>2. CASE k \in 1..n
    <3>1. PICK i \in at : Rank(at, i) = k
      BY <2>2 DEF Matched
    <3>2. QED
      BY <1>2, <3>1
  <2>3. QED
    BY <2>1, <2>2
<1> HIDE DEF more
<1>5. Matched(more, taken, nodes, n + 1)
  BY <1>2, <1>3, <1>4 DEF Matched
<1>6. QED
  BY <1>5 DEF more

LEMMA NodeSpansNext ==
  ASSUME Types, NEW q \in Runs, NEW s \in SpanType,
         spans' = [spans EXCEPT ![q] = Append(@, s)],
         NEW r \in Runs
  PROVE  /\ NodeSpans(r)' = IF r = q /\ s.name \in Nodes
                              THEN NodeSpans(r) \cup {Len(spans[r]) + 1}
                              ELSE NodeSpans(r)
         /\ \A i \in NodeSpans(r) : spans'[r][i] = spans[r][i]
         /\ spans'[q][Len(spans[q]) + 1] = s
<1>1. /\ Len(spans'[q]) = Len(spans[q]) + 1 /\ spans'[q][Len(spans[q]) + 1] = s
      /\ \A i \in 1..Len(spans[q]) : spans'[q][i] = spans[q][i]
      /\ \A t \in Runs \ {q} : spans'[t] = spans[t]
      /\ Len(spans[q]) \in Nat
  BY AppendedSinks DEF Types
<1>2. QED
  BY <1>1 DEF NodeSpans

LEMMA PathTypes ==
  ASSUME Types, PathRecorded, NEW r \in Runs
  PROVE  /\ Len(spans[r]) \in Nat /\ NodeSpans(r) \in SUBSET (1..Len(spans[r]))
         /\ walk[r] \in Seq(Nodes) /\ Len(walk[r]) \in Nat /\ Closed(r) \in Nat
         /\ ~Open(r) => Closed(r) = Len(walk[r])
         /\ Open(r) => Closed(r) = Len(walk[r]) - 1
<1>1. /\ spans[r] \in Seq(SpanType) /\ walk[r] \in Seq(Nodes)
      /\ Open(r) => Len(walk[r]) > 0
  BY DEF Types, PathRecorded
<1>2. Len(spans[r]) \in Nat /\ Len(walk[r]) \in Nat
  BY <1>1
<1>3. NodeSpans(r) \in SUBSET (1..Len(spans[r]))
  BY DEF NodeSpans
<1>4. CASE Open(r)
  BY <1>1, <1>2, <1>3, <1>4 DEF Closed
<1>5. CASE ~Open(r)
  BY <1>1, <1>2, <1>3, <1>5 DEF Closed
<1>6. QED
  BY <1>4, <1>5

LEMMA EnterNext ==
  ASSUME Types, PathRecorded, Enter PROVE PathRecorded'
<1>1. run \in Runs /\ walk \in [Runs -> Seq(Nodes)] /\ node \in Nodes
  BY DEF Types, PathRecorded, Enter
<1>2. /\ walk' \in [Runs -> Seq(Nodes)]
      /\ Len(walk'[run]) = Len(walk[run]) + 1 /\ walk'[run][Len(walk[run]) + 1] = node
      /\ \A k \in 1..Len(walk[run]) : walk'[run][k] = walk[run][k]
      /\ \A r \in Runs \ {run} : walk'[r] = walk[r]
  <2>1. walk[run] \in Seq(Nodes) /\ walk'[run] = Append(walk[run], node)
    BY <1>1 DEF Enter
  <2>2. QED
    BY <1>1, <2>1, AppendProperties DEF Enter
<1>3. ASSUME NEW r \in Runs
      PROVE  /\ Open(r)' => Len(walk'[r]) > 0 /\ walk'[r][Len(walk'[r])] = node'
             /\ Matched(NodeSpans(r)', spans'[r], walk'[r], Closed(r)')
  <2>1. ~Open(r) /\ (Open(r)' <=> r = run) /\ NodeSpans(r)' = NodeSpans(r)
    BY DEF Enter, Open, NodeSpans
  <2>2. /\ Closed(r) = Len(walk[r]) /\ Len(walk[r]) \in Nat
        /\ Len(spans[r]) \in Nat /\ NodeSpans(r) \in SUBSET (1..Len(spans[r]))
    BY <2>1, PathTypes
  <2>3. Closed(r)' = Closed(r)
    <3>1. CASE r = run
      BY <1>2, <2>1, <2>2, <3>1 DEF Closed
    <3>2. CASE r # run
      BY <1>2, <2>1, <2>2, <3>2 DEF Closed
    <3>3. QED
      BY <3>1, <3>2
  <2>4. Matched(NodeSpans(r), spans[r], walk[r], Closed(r))
    BY DEF PathRecorded
  <2>5. \A k \in 1..Closed(r) : walk'[r][k] = walk[r][k]
    BY <1>2, <2>2
  <2>6. Matched(NodeSpans(r), spans[r], walk'[r], Closed(r))
    BY <2>2, <2>4, <2>5, MatchedKept
  <2>7. Open(r)' => Len(walk'[r]) > 0 /\ walk'[r][Len(walk'[r])] = node'
    BY <1>2, <2>1, <2>2 DEF Enter
  <2>8. QED
    BY <2>1, <2>3, <2>6, <2>7 DEF Enter
<1>4. QED
  BY <1>2, <1>3 DEF PathRecorded

LEMMA LeaveNext ==
  ASSUME Types, PathRecorded, Leave PROVE PathRecorded'
<1>1. run \in Runs /\ node \in Nodes /\ walk' = walk /\ walk \in [Runs -> Seq(Nodes)]
  BY DEF Types, PathRecorded, Leave
<1>2. Span(node) \in SpanType /\ Span(node).name = node
  BY <1>1, PlainSpan
<1>3. ASSUME NEW r \in Runs
      PROVE  /\ ~Open(r)'
             /\ Matched(NodeSpans(r)', spans'[r], walk[r], Closed(r)')
  <2>1. ~Open(r)' /\ (Open(r) <=> r = run)
    BY DEF Leave, Open
  <2>2. Closed(r)' = Len(walk[r])
    BY <2>1, <1>1, PathTypes DEF Closed
  <2>3. /\ Len(spans[r]) \in Nat /\ NodeSpans(r) \in SUBSET (1..Len(spans[r]))
        /\ Len(walk[r]) \in Nat /\ Closed(r) \in Nat
        /\ Closed(r) = IF r = run THEN Len(walk[r]) - 1 ELSE Len(walk[r])
    BY <2>1, PathTypes
  <2>4. Matched(NodeSpans(r), spans[r], walk[r], Closed(r))
    BY DEF PathRecorded
  <2>5. /\ NodeSpans(r)' = IF r = run THEN NodeSpans(r) \cup {Len(spans[r]) + 1}
                                      ELSE NodeSpans(r)
        /\ \A i \in NodeSpans(r) : spans'[r][i] = spans[r][i]
        /\ spans'[run][Len(spans[run]) + 1] = Span(node)
    <3>1. spans' = [spans EXCEPT ![run] = Append(@, Span(node))]
      BY DEF Leave
    <3>2. /\ NodeSpans(r)' = IF r = run /\ Span(node).name \in Nodes
                                THEN NodeSpans(r) \cup {Len(spans[r]) + 1}
                                ELSE NodeSpans(r)
          /\ \A i \in NodeSpans(r) : spans'[r][i] = spans[r][i]
          /\ spans'[run][Len(spans[run]) + 1] = Span(node)
      BY <1>1, <1>2, <3>1, NodeSpansNext
    <3>3. QED
      BY <1>1, <1>2, <3>2
  <2>6. Matched(NodeSpans(r), spans'[r], walk[r], Closed(r))
    BY <2>3, <2>4, <2>5, MatchedKept
  <2>7. CASE r # run
    BY <2>1, <2>2, <2>3, <2>5, <2>6, <2>7
  <2>8. CASE r = run
    <3>1. walk[r][Closed(r) + 1] = node
      BY <2>1, <2>3, <2>8 DEF PathRecorded
    <3>2. Matched(NodeSpans(r) \cup {Len(spans[r]) + 1}, spans'[r], walk[r], Closed(r) + 1)
      BY <1>2, <2>3, <2>5, <2>6, <2>8, <3>1, MatchedGrows
    <3>3. Closed(r)' = Closed(r) + 1
      BY <2>2, <2>3, <2>8
    <3>4. QED
      BY <2>1, <2>5, <2>8, <3>2, <3>3
  <2>9. QED
    BY <2>7, <2>8
<1>4. QED
  BY <1>1, <1>3 DEF PathRecorded

LEMMA StayNext ==
  ASSUME Types, PathRecorded, Stay PROVE PathRecorded'
<1>1. ASSUME NEW r \in Runs
      PROVE  /\ NodeSpans(r)' = NodeSpans(r)
             /\ \A i \in NodeSpans(r) : spans'[r][i] = spans[r][i]
  <2>1. CASE spans' = spans
    BY <2>1 DEF NodeSpans
  <2>2. CASE spans' # spans
    <3>1. PICK q \in Runs, s \in SpanType :
            s.name \notin Nodes /\ spans' = [spans EXCEPT ![q] = Append(@, s)]
      BY <2>2 DEF Stay
    <3>2. QED
      BY <3>1, NodeSpansNext
  <2>3. QED
    BY <2>1, <2>2
<1>2. ASSUME NEW r \in Runs
      PROVE  /\ Open(r)' => Len(walk'[r]) > 0 /\ walk'[r][Len(walk'[r])] = node'
             /\ Matched(NodeSpans(r)', spans'[r], walk'[r], Closed(r)')
  <2>1. (Open(r)' <=> Open(r)) /\ walk' = walk
    BY DEF Stay, Open
  <2>2. Closed(r)' = Closed(r)
    BY <2>1 DEF Closed
  <2>3. /\ Len(spans[r]) \in Nat /\ NodeSpans(r) \in SUBSET (1..Len(spans[r]))
        /\ Closed(r) \in Nat
    BY PathTypes
  <2>4. Matched(NodeSpans(r), spans[r], walk[r], Closed(r))
    BY DEF PathRecorded
  <2>5. Matched(NodeSpans(r), spans'[r], walk[r], Closed(r))
    BY <1>1, <2>3, <2>4, MatchedKept
  <2>6. Open(r)' => node' = node
    BY <2>1 DEF Open, Stay
  <2>7. QED
    BY <1>1, <2>1, <2>2, <2>5, <2>6 DEF PathRecorded
<1>3. walk' \in [Runs -> Seq(Nodes)]
  BY DEF Stay, PathRecorded
<1>4. QED
  BY <1>2, <1>3 DEF PathRecorded

LEMMA PathRecordedInductive ==
  /\ Init => PathRecorded
  /\ Attributed /\ PathRecorded /\ [Next]_vars => PathRecorded'
<1>1. ASSUME Init PROVE PathRecorded
  <2>1. walk \in [Runs -> Seq(Nodes)]
    BY <1>1 DEF Init
  <2>2. ASSUME NEW r \in Runs
        PROVE  ~Open(r) /\ Matched(NodeSpans(r), spans[r], walk[r], Closed(r))
    <3>1. ~Open(r) /\ NodeSpans(r) = {} /\ Closed(r) = 0
      BY <1>1 DEF Init, Open, NodeSpans, Closed
    <3>2. QED
      BY <3>1, FS_EmptySet DEF Matched
  <2>3. QED
    BY <2>1, <2>2 DEF PathRecorded
<1>2. QED
  BY <1>1, PathStep, EnterNext, LeaveNext, StayNext DEF Attributed

\* No other step changes a report or begins a roll-up; a run that is over stays
\* over, and what it walked is final.
LEMMA ReportStep ==
  ASSUME Attributed, [Next]_vars, ~RollUp, ~TakePath, ~TakeCount
  PROVE  /\ UNCHANGED report
         /\ pc' \in {"path", "count"} => pc' = pc
         /\ pc \in {"path", "count", "idle"} => StartRun \/ pc' = pc
         /\ StartRun \/ run' = run
         /\ StartNode \/ walk' = walk
BY DEF Next, Over, StartRun, StartNode, CallInfra, CallAgent, EndPort, EndNode, NodeRaises,
       RunRaises, Abort, GraphReturns, Flushed, AgentCompletes, ThreadCompletes, Completion,
       ThreadEnds, Callback, graphVars, vars

LEMMA CallsByType ==
  ASSUME Types, NEW r \in Runs, NEW a \in Agents
  PROVE  CallsBy(spans[r], a) \in Nat
<1> DEFINE at == {i \in 1..Len(spans[r]) :
                    spans[r][i].name = "llm.completion" /\ spans[r][i].agent = a}
<1>1. Len(spans[r]) \in Nat
  BY DEF Types
<1>2. IsFiniteSet(1..Len(spans[r])) /\ at \in SUBSET (1..Len(spans[r]))
  BY <1>1, FS_Interval
<1>3. Cardinality(at) \in Nat
  BY <1>2, FS_Subset, FS_CardinalityType
<1>4. QED
  BY <1>3 DEF CallsBy

LEMMA ReportsNext ==
  ASSUME PathInv, [Next]_vars PROVE ReportsAfterwards' /\ NodePathIsTheWalk'
<1> USE DEF ReportsAfterwards, NodePathIsTheWalk
<1>0. /\ Attributed /\ Types /\ PathRecorded /\ ReportsAfterwards /\ NodePathIsTheWalk
      /\ spans \in [Runs -> Seq(SpanType)] /\ walk \in [Runs -> Seq(Nodes)]
  BY DEF PathInv, Attributed, Types, PathRecorded
<1>1. CASE RollUp
  <2>1. /\ pc = "rollup" /\ pc' = "path" /\ run' = run /\ walk' = walk /\ run \in Runs
    BY <1>0, <1>1 DEF RollUp, Types
  <2> DEFINE new == [by_agent   |-> [a \in Agents |-> CallsBy(spans[run], a)],
                     counted    |-> Len(spans[run]),
                     node_path  |-> None,
                     span_count |-> None]
  <2>2. report' = [report EXCEPT ![run] = new]
    BY <1>1 DEF RollUp
  <2>3. new \in Reports /\ new.node_path = None
    <3>1. [a \in Agents |-> CallsBy(spans[run], a)] \in [Agents -> Nat]
      BY <1>0, <2>1, CallsByType
    <3>2. Len(spans[run]) \in Nat
      BY <1>0, <2>1
    <3>3. QED
      BY <3>1, <3>2 DEF Reports
  <2> HIDE DEF new
  <2>4. report' \in [Runs -> Reports \cup {None}] /\ report'[run] = new
        /\ \A r \in Runs \ {run} : report'[r] = report[r]
    BY <1>0, <2>1, <2>2, <2>3
  <2>5. new # None
    BY <2>3, SentinelAssumption
  <2>6. QED
    BY <1>0, <2>1, <2>3, <2>4, <2>5
<1>2. CASE TakePath
  <2>1. /\ pc = "path" /\ pc' = "count" /\ run' = run /\ walk' = walk /\ run \in Runs
        /\ report' = [report EXCEPT ![run].node_path = NodePath(spans[run])]
    BY <1>0, <1>2 DEF TakePath, Types
  <2>2. NodePath(spans[run]) = walk[run] /\ walk[run] \in Seq(Nodes)
    <3>1. ~Open(run)
      BY <2>1 DEF Open
    <3>2. QED
      BY <1>0, <2>1, <3>1, PathOfWalk
  <2>3. report[run] \in Reports
    BY <1>0, <2>1
  <2>4. /\ report'[run] \in Reports /\ report'[run].node_path = walk[run]
        /\ report' \in [Runs -> Reports \cup {None}]
        /\ \A r \in Runs \ {run} : report'[r] = report[r]
    BY <1>0, <2>1, <2>2, <2>3 DEF Reports
  <2>5. report'[run] # None
    BY <2>4, SentinelAssumption
  <2>6. QED
    BY <1>0, <2>1, <2>4, <2>5
<1>3. CASE TakeCount
  <2>1. /\ pc = "count" /\ pc' = "idle" /\ run' = run /\ walk' = walk /\ run \in Runs
        /\ report' = [report EXCEPT ![run].span_count = Len(spans[run])]
    BY <1>0, <1>3 DEF TakeCount, Types
  <2>2. Len(spans[run]) \in Nat /\ report[run] \in Reports /\ report[run] # None
    BY <1>0, <2>1
  <2>3. /\ report'[run] \in Reports /\ report'[run].node_path = report[run].node_path
        /\ report' \in [Runs -> Reports \cup {None}]
        /\ \A r \in Runs \ {run} : report'[r] = report[r]
    BY <1>0, <2>1, <2>2 DEF Reports
  <2>4. QED
    BY <1>0, <2>1, <2>2, <2>3
<1>4. CASE ~RollUp /\ ~TakePath /\ ~TakeCount
  <2>1. /\ report' = report
        /\ pc' \in {"path", "count"} => pc' = pc
        /\ pc \in {"path", "count", "idle"} => StartRun \/ pc' = pc
        /\ StartRun \/ run' = run
        /\ StartNode \/ walk' = walk
    BY <1>0, <1>4, ReportStep
  <2>2. StartRun => pc = "idle" /\ run' = run + 1 /\ pc' = "graph"
    BY DEF StartRun
  <2>3. ASSUME NEW r \in Runs, report[r] # None PROVE walk'[r] = walk[r]
    <3>1. CASE StartNode
      <4>1. pc = "graph" /\ walk' = [walk EXCEPT ![run] = Append(@, node)]
        BY <3>1 DEF StartNode
      <4>2. r # run
        BY <1>0, <2>3, <4>1 DEF Types, Runs
      <4>3. QED
        BY <1>0, <4>1, <4>2
    <3>2. QED
      BY <2>1, <3>1
  <2>4. ReportsAfterwards'
    <3>1. CASE StartRun
      <4>1. \A r \in Runs : report[r] # None => r < run + 1
        BY <1>0, <2>2, <3>1, TelemetryAssumption DEF Types, Runs
      <4>2. QED
        BY <1>0, <2>1, <2>2, <3>1, <4>1
    <3>2. CASE ~StartRun
      BY <1>0, <2>1, <3>2
    <3>3. QED
      BY <3>1, <3>2
  <2>5. QED
    BY <1>0, <2>1, <2>3, <2>4
<1>5. QED
  BY <1>1, <1>2, <1>3, <1>4

LEMMA PathInductive ==
  /\ Init => PathInv
  /\ PathInv /\ [Next]_vars => PathInv'
<1>1. ASSUME Init PROVE PathInv
  BY <1>1, AttributedInductive, PathRecordedInductive
  DEF Init, PathInv, ReportsAfterwards, NodePathIsTheWalk
<1>2. QED
  BY <1>1, AttributedInductive, PathRecordedInductive, ReportsNext DEF PathInv

\* The path that is reported is the walk of the run, for any number of runs and
\* nodes and whatever is recorded between two nodes.
THEOREM PathIsReported == Spec => []NodePathIsTheWalk
<1>1. PathInv => NodePathIsTheWalk
  BY DEF PathInv
<1>2. QED
  BY <1>1, PathInductive, PTL DEF Spec

-----------------------------------------------------------------------------
(* The counts. *)

\* A completion is pending or recorded in the sink of its run.
NothingLost ==
  \A c \in 1..Len(calls) :
    \/ \E p \in pending : p.call = c
    \/ \E i \in 1..Len(spans[calls[c].run]) : spans[calls[c].run][i].call = c

\* What a run pays for once its names are counted is late, whether it is
\* recorded by now or not.
RestIsLate ==
  \A r \in Runs :
    /\ late[r] \subseteq 1..Len(calls)
    /\ report[r] # None =>
         /\ report[r].counted <= Len(spans[r])
         /\ \A i \in report[r].counted + 1..Len(spans[r]) : spans[r][i].call \in late[r]
         /\ \A p \in pending : p.sink = r => p.call \in late[r]

ReportInv ==
  /\ PathInv /\ CountedInv /\ NothingLost
  /\ late \in [Runs -> SUBSET Nat] /\ RestIsLate /\ ReportCountsWhatArrived

LEMMA ReportInvParts ==
  ASSUME ReportInv
  PROVE  /\ Attributed /\ Types /\ PendingContext /\ RecordedContext
         /\ PendingOnce /\ CallsAreCountedOnce
         /\ ReportsAfterwards /\ NothingLost /\ RestIsLate /\ ReportCountsWhatArrived
         /\ late \in [Runs -> SUBSET Nat] /\ spans \in [Runs -> Seq(SpanType)]
         /\ calls \in Seq([run : Runs, agent : Agents]) /\ Len(calls) \in Nat
         /\ report \in [Runs -> Reports \cup {None}]
         /\ run \in Nat /\ Runs \subseteq Nat
BY DEF ReportInv, PathInv, CountedInv, Attributed, Types, ReportsAfterwards, Runs

LEMMA NothingLostNext == ASSUME ReportInv, [Next]_vars PROVE NothingLost'
<1>0. /\ Attributed /\ NothingLost /\ PendingContext /\ SpanStep /\ CallStep
      /\ spans \in [Runs -> Seq(SpanType)] /\ Len(calls) \in Nat
      /\ calls \in Seq([run : Runs, agent : Agents])
  BY ReportInvParts, SpanNext, CallNext
<1>1. CASE spans' = spans /\ UNCHANGED calls /\ pending \subseteq pending'
  BY <1>0, <1>1 DEF NothingLost
<1>2. CASE spans' # spans
  <2>1. PICK r \in Runs, s \in SpanType :
          /\ spans' = [spans EXCEPT ![r] = Append(@, s)]
          /\ UNCHANGED calls
          /\ \/ UNCHANGED pending
             \/ \E p \in pending :
                  pending' = pending \ {p} /\ r = p.sink /\ s.call = p.call
    BY <1>0, <1>2 DEF SpanStep
  <2>2. /\ Len(spans'[r]) = Len(spans[r]) + 1 /\ spans'[r][Len(spans[r]) + 1] = s
        /\ \A i \in 1..Len(spans[r]) : spans'[r][i] = spans[r][i]
        /\ \A q \in Runs \ {r} : spans'[q] = spans[q]
        /\ Len(spans[r]) \in Nat
    BY <1>0, <2>1, AppendedSinks
  <2>3. ASSUME NEW c \in 1..Len(calls)
        PROVE  \/ \E p \in pending' : p.call = c
               \/ \E i \in 1..Len(spans'[calls[c].run]) : spans'[calls[c].run][i].call = c
    <3>1. CASE \E i \in 1..Len(spans[calls[c].run]) : spans[calls[c].run][i].call = c
      <4>1. PICK i \in 1..Len(spans[calls[c].run]) : spans[calls[c].run][i].call = c
        BY <3>1
      <4>2. calls[c].run \in Runs
        <5>1. calls[c] \in [run : Runs, agent : Agents]
          BY <1>0, <2>3, ElementOfSeq
        <5>2. QED
          BY <5>1
      <4>3. i \in 1..Len(spans'[calls[c].run]) /\ spans'[calls[c].run][i].call = c
        <5>1. CASE calls[c].run = r
          BY <2>2, <4>1, <5>1
        <5>2. CASE calls[c].run # r
          BY <2>2, <4>1, <4>2, <5>2
        <5>3. QED
          BY <5>1, <5>2
      <4>4. QED
        BY <4>3
    <3>2. CASE \E p \in pending : p.call = c
      <4>1. PICK p \in pending : p.call = c
        BY <3>2
      <4>2. CASE p \in pending'
        BY <4>1, <4>2
      <4>3. CASE p \notin pending'
        <5>1. r = p.sink /\ s.call = c
          BY <2>1, <4>1, <4>3
        <5>2. calls[c].run = r
          <6>1. calls[c] = [run |-> r, agent |-> p.agent]
            BY <1>0, <4>1, <5>1 DEF PendingContext
          <6>2. QED
            BY <6>1
        <5>3. Len(spans[r]) + 1 \in 1..Len(spans'[r])
          BY <2>2
        <5>4. QED
          BY <2>2, <5>1, <5>2, <5>3
      <4>4. QED
        BY <4>2, <4>3
    <3>3. QED
      BY <1>0, <3>1, <3>2 DEF NothingLost
  <2>4. QED
    BY <2>1, <2>3 DEF NothingLost
<1>3. CASE spans' = spans /\ ~(UNCHANGED calls /\ pending \subseteq pending')
  <2>1. PICK r \in Runs, agent \in Agents, kind \in {"task", "thread"} :
          /\ calls' = Append(calls, [run |-> r, agent |-> agent])
          /\ pending' = pending \cup
               {[call |-> Len(calls) + 1, kind |-> kind, sink |-> r, agent |-> agent]}
    <3>1. \/ UNCHANGED calls /\ pending' \subseteq pending
          \/ \E r \in Runs, agent \in Agents, kind \in {"task", "thread"} :
               /\ calls' = Append(calls, [run |-> r, agent |-> agent])
               /\ pending' = pending \cup
                    {[call |-> Len(calls) + 1, kind |-> kind, sink |-> r, agent |-> agent]}
      BY <1>0 DEF CallStep
    <3>2. UNCHANGED calls => pending \subseteq pending'
      <4>1. CASE pending \subseteq pending'
        BY <4>1
      <4>2. CASE ~(pending \subseteq pending')
        <5>1. PICK q \in Runs, s \in SpanType : spans' = [spans EXCEPT ![q] = Append(@, s)]
          BY <1>0, <4>2 DEF SpanStep
        <5>2. Len(spans'[q]) = Len(spans[q]) + 1 /\ Len(spans[q]) \in Nat
          BY <1>0, <5>1, AppendedSinks
        <5>3. QED
          BY <1>3, <5>2
      <4>3. QED
        BY <4>1, <4>2
    <3>3. QED
      BY <1>3, <3>1, <3>2
  <2> DEFINE made == [run |-> r, agent |-> agent]
             p0   == [call |-> Len(calls) + 1, kind |-> kind, sink |-> r, agent |-> agent]
  <2>2. made \in [run : Runs, agent : Agents] /\ p0.call = Len(calls) + 1
    OBVIOUS
  <2>3. calls' = Append(calls, made) /\ pending' = pending \cup {p0}
    BY <2>1
  <2> HIDE DEF made, p0
  <2>4. Len(calls') = Len(calls) + 1 /\ \A c \in 1..Len(calls) : calls'[c] = calls[c]
    BY <1>0, <2>2, <2>3
  <2>5. QED
    <3>1. ASSUME NEW c \in 1..Len(calls')
          PROVE  \/ \E p \in pending' : p.call = c
                 \/ \E i \in 1..Len(spans'[calls'[c].run]) :
                      spans'[calls'[c].run][i].call = c
      <4>1. CASE c = Len(calls) + 1
        BY <2>2, <2>3, <4>1
      <4>2. CASE c \in 1..Len(calls)
        <5>1. calls'[c] = calls[c] /\ pending \subseteq pending'
          BY <2>3, <2>4, <4>2
        <5>2. \/ \E p \in pending : p.call = c
              \/ \E i \in 1..Len(spans[calls[c].run]) : spans[calls[c].run][i].call = c
          BY <1>0, <4>2 DEF NothingLost
        <5>3. QED
          BY <1>3, <5>1, <5>2
      <4>3. QED
        BY <1>0, <2>4, <4>1, <4>2
    <3>2. QED
      BY <3>1 DEF NothingLost
<1>4. QED
  BY <1>1, <1>2, <1>3

\* Reports are made by roll-ups only, which leave the counts of earlier ones.
LEMMA ReportKept ==
  ASSUME PathInv, [Next]_vars, NEW r \in Runs, ~RollUp \/ r # run
  PROVE  /\ report'[r] # None => report[r] # None
         /\ report[r] # None => /\ report'[r].by_agent = report[r].by_agent
                                /\ report'[r].counted = report[r].counted
<1>1. /\ Attributed /\ Types /\ report \in [Runs -> Reports \cup {None}]
      /\ pc \in {"path", "count"} => run \in Runs /\ report[run] # None
  BY DEF PathInv, ReportsAfterwards, Attributed, Types
<1>2. CASE RollUp
  BY <1>1, <1>2 DEF RollUp
<1>3. CASE TakePath
  <2>1. report' = [report EXCEPT ![run].node_path = NodePath(spans[run])] /\ pc = "path"
    BY <1>3 DEF TakePath
  <2>2. report[run] \in Reports /\ run \in Runs /\ report[run] # None
    BY <1>1, <2>1
  <2>3. QED
    BY <1>1, <2>1, <2>2 DEF Reports
<1>4. CASE TakeCount
  <2>1. report' = [report EXCEPT ![run].span_count = Len(spans[run])] /\ pc = "count"
    BY <1>4 DEF TakeCount
  <2>2. report[run] \in Reports /\ run \in Runs /\ report[run] # None
    BY <1>1, <2>1
  <2>3. QED
    BY <1>1, <2>1, <2>2 DEF Reports
<1>5. CASE ~RollUp /\ ~TakePath /\ ~TakeCount
  BY <1>1, <1>5, ReportStep
<1>6. QED
  BY <1>2, <1>3, <1>4, <1>5

LEMMA SpanCountKept ==
  ASSUME PathInv, [Next]_vars, NEW r \in Runs, report[r] # None,
         ~RollUp \/ r # run, ~(TakeCount /\ r = run)
  PROVE  report'[r].span_count = report[r].span_count
<1>1. Attributed /\ Types /\ report \in [Runs -> Reports \cup {None}] /\ report[r] \in Reports
  BY DEF PathInv, ReportsAfterwards, Attributed, Types
<1>2. CASE RollUp
  BY <1>1, <1>2 DEF RollUp
<1>3. CASE TakePath
  <2>1. report' = [report EXCEPT ![run].node_path = NodePath(spans[run])]
    BY <1>3 DEF TakePath
  <2>2. QED
    BY <1>1, <2>1 DEF Reports
<1>4. CASE TakeCount
  BY <1>1, <1>4 DEF TakeCount
<1>5. CASE ~RollUp /\ ~TakePath /\ ~TakeCount
  BY <1>1, <1>5, ReportStep
<1>6. QED
  BY <1>2, <1>3, <1>4, <1>5

\* The calls of a run only get later.
LEMMA LateNext ==
  ASSUME ReportInv, [Next]_vars
  PROVE  /\ late' \in [Runs -> SUBSET Nat]
         /\ \A r \in Runs : late'[r] \subseteq 1..Len(calls')
         /\ \A r \in Runs : ~RollUp \/ r # run => late[r] \subseteq late'[r]
<1>0. /\ CallStep /\ Types /\ PendingContext /\ RestIsLate
      /\ late \in [Runs -> SUBSET Nat] /\ Len(calls) \in Nat
      /\ calls \in Seq([run : Runs, agent : Agents])
  BY ReportInvParts, CallNext
<1>1. CASE RollUp
  <2> DEFINE ls == {p.call : p \in {q \in pending : q.sink = run}}
  <2>1. run \in Runs /\ calls' = calls /\ late' = [late EXCEPT ![run] = ls]
    BY <1>0, <1>1 DEF RollUp, llmVars, Types
  <2>2. ls \subseteq 1..Len(calls) /\ ls \subseteq Nat
    <3>1. \A p \in pending : p.call \in 1..Len(calls)
      BY <1>0 DEF PendingContext
    <3>2. ls \subseteq 1..Len(calls)
      BY <3>1
    <3> HIDE DEF ls
    <3>3. QED
      BY <1>0, <3>2
  <2> HIDE DEF ls
  <2>3. QED
    BY <1>0, <1>1, <2>1, <2>2 DEF RestIsLate
<1>2. CASE UNCHANGED <<calls, late>>
  BY <1>0, <1>2 DEF RestIsLate
<1>3. CASE ~RollUp /\ ~UNCHANGED <<calls, late>>
  <2>1. PICK r \in Runs, made \in [run : Runs, agent : Agents] :
          /\ calls' = Append(calls, made)
          /\ late' = IF report[r] = None THEN late
                     ELSE [late EXCEPT ![r] = @ \cup {Len(calls) + 1}]
    <3>1. PICK r \in Runs, agent \in Agents :
            /\ calls' = Append(calls, [run |-> r, agent |-> agent])
            /\ late' = IF report[r] = None THEN late
                       ELSE [late EXCEPT ![r] = @ \cup {Len(calls) + 1}]
      BY <1>0, <1>3 DEF CallStep
    <3>2. [run |-> r, agent |-> agent] \in [run : Runs, agent : Agents]
      OBVIOUS
    <3>3. QED
      BY <3>1, <3>2
  <2>2. Len(calls') = Len(calls) + 1
    BY <1>0, <2>1
  <2>3. QED
    BY <1>0, <2>1, <2>2 DEF RestIsLate
<1>4. QED
  BY <1>1, <1>2, <1>3

\* What is charged to a run that was rolled up: no node or port of it records
\* anything any more.
LEMMA SinkAfterReport ==
  ASSUME ReportInv, [Next]_vars, NEW r \in Runs, report[r] # None
  PROVE  \/ spans'[r] = spans[r]
         \/ /\ Len(spans'[r]) = Len(spans[r]) + 1
            /\ \A i \in 1..Len(spans[r]) : spans'[r][i] = spans[r][i]
            /\ spans'[r][Len(spans[r]) + 1].call \in late[r]
<1>0. /\ SpanStep /\ Types /\ RestIsLate /\ ReportsAfterwards
      /\ spans \in [Runs -> Seq(SpanType)] /\ run \in Nat
  BY ReportInvParts, SpanNext
<1>1. CASE spans' = spans
  BY <1>1
<1>2. CASE spans' # spans
  <2>1. PICK q \in Runs, s \in SpanType :
          /\ spans' = [spans EXCEPT ![q] = Append(@, s)]
          /\ \/ q = run /\ pc \in {"node", "port"}
             \/ \E p \in pending : q = p.sink /\ s.call = p.call
    BY <1>0, <1>2 DEF SpanStep
  <2>2. /\ Len(spans'[q]) = Len(spans[q]) + 1 /\ spans'[q][Len(spans[q]) + 1] = s
        /\ \A i \in 1..Len(spans[q]) : spans'[q][i] = spans[q][i]
        /\ \A t \in Runs \ {q} : spans'[t] = spans[t]
    BY <1>0, <2>1, AppendedSinks
  <2>3. CASE q # r
    BY <2>2, <2>3
  <2>4. CASE q = r
    <3>1. ~(q = run /\ pc \in {"node", "port"})
      BY <1>0, <2>4 DEF ReportsAfterwards, Types, Runs
    <3>2. s.call \in late[r]
      BY <1>0, <2>1, <2>4, <3>1 DEF RestIsLate
    <3>3. QED
      BY <2>2, <2>4, <3>2
  <2>5. QED
    BY <2>3, <2>4
<1>3. QED
  BY <1>1, <1>2

LEMMA PendingAfterReport ==
  ASSUME ReportInv, [Next]_vars, ~RollUp, NEW r \in Runs, report[r] # None,
         NEW p \in pending', p.sink = r
  PROVE  p.call \in late'[r]
<1>0. /\ CallStep /\ RestIsLate /\ late \in [Runs -> SUBSET Nat]
      /\ late[r] \subseteq late'[r]
  BY ReportInvParts, CallNext, LateNext
<1>1. CASE p \in pending
  BY <1>0, <1>1 DEF RestIsLate
<1>2. CASE p \notin pending
  <2>1. PICK q \in Runs, agent \in Agents, kind \in {"task", "thread"} :
          /\ p = [call |-> Len(calls) + 1, kind |-> kind, sink |-> q, agent |-> agent]
          /\ late' = IF report[q] = None THEN late
                     ELSE [late EXCEPT ![q] = @ \cup {Len(calls) + 1}]
    <3>1. ~(pending' \subseteq pending)
      BY <1>2
    <3>2. PICK q \in Runs, agent \in Agents, kind \in {"task", "thread"} :
            /\ pending' = pending \cup
                 {[call |-> Len(calls) + 1, kind |-> kind, sink |-> q, agent |-> agent]}
            /\ late' = IF report[q] = None THEN late
                       ELSE [late EXCEPT ![q] = @ \cup {Len(calls) + 1}]
      BY <1>0, <3>1 DEF CallStep
    <3>3. QED
      BY <1>2, <3>2
  <2>2. q = r /\ p.call = Len(calls) + 1
    BY <2>1
  <2>3. late' = [late EXCEPT ![r] = @ \cup {Len(calls) + 1}]
    BY <2>1, <2>2
  <2>4. QED
    BY <1>0, <2>2, <2>3
<1>3. QED
  BY <1>1, <1>2

LEMMA RestIsLateNext == ASSUME ReportInv, [Next]_vars PROVE RestIsLate'
<1>0. /\ Types /\ RestIsLate /\ PathInv /\ ReportsAfterwards
      /\ spans \in [Runs -> Seq(SpanType)] /\ report \in [Runs -> Reports \cup {None}]
      /\ late \in [Runs -> SUBSET Nat]
  BY ReportInvParts DEF ReportInv
<1>1. \A r \in Runs : late'[r] \subseteq 1..Len(calls')
  BY LateNext
<1>2. ASSUME NEW r \in Runs, report'[r] # None
      PROVE  /\ report'[r].counted <= Len(spans'[r])
             /\ \A i \in report'[r].counted + 1..Len(spans'[r]) : spans'[r][i].call \in late'[r]
             /\ \A p \in pending' : p.sink = r => p.call \in late'[r]
  <2>1. CASE RollUp /\ r = run
    <3>1. /\ report'[r].counted = Len(spans[r]) /\ spans' = spans /\ pending' = pending
          /\ late'[r] = {p.call : p \in {q \in pending : q.sink = r}}
      BY <1>0, <2>1 DEF RollUp, llmVars
    <3>2. Len(spans[r]) \in Nat
      BY <1>0
    <3>3. QED
      BY <3>1, <3>2
  <2>2. CASE ~RollUp \/ r # run
    <3>1. /\ report[r] # None /\ report'[r].counted = report[r].counted
          /\ report[r].counted \in Nat
      <4>1. report[r] # None
        BY <1>0, <1>2, <2>2, ReportKept
      <4>2. report[r] \in Reports
        BY <1>0, <4>1
      <4>3. report[r].counted \in Nat
        BY <4>2 DEF Reports
      <4>4. QED
        BY <1>0, <2>2, <4>1, <4>3, ReportKept
    <3>2. late[r] \subseteq late'[r]
      BY <2>2, LateNext
    <3>3. \/ spans'[r] = spans[r]
          \/ /\ Len(spans'[r]) = Len(spans[r]) + 1
             /\ \A i \in 1..Len(spans[r]) : spans'[r][i] = spans[r][i]
             /\ spans'[r][Len(spans[r]) + 1].call \in late[r]
      BY <3>1, SinkAfterReport
    <3>4. /\ report[r].counted <= Len(spans[r]) /\ Len(spans[r]) \in Nat
          /\ \A i \in report[r].counted + 1..Len(spans[r]) : spans[r][i].call \in late[r]
      BY <1>0, <3>1 DEF RestIsLate
    <3>5. ASSUME NEW p \in pending', p.sink = r PROVE p.call \in late'[r]
      <4>1. CASE RollUp
        BY <1>0, <3>1, <3>2, <3>5, <4>1 DEF RollUp, llmVars, RestIsLate
      <4>2. CASE ~RollUp
        BY <3>1, <3>5, <4>2, PendingAfterReport
      <4>3. QED
        BY <4>1, <4>2
    <3>6. ASSUME NEW i \in report[r].counted + 1..Len(spans'[r])
          PROVE  spans'[r][i].call \in late'[r]
      <4>1. CASE spans'[r] = spans[r]
        BY <3>2, <3>4, <4>1
      <4>2. CASE spans'[r] # spans[r] /\ i \in 1..Len(spans[r])
        BY <3>1, <3>2, <3>3, <3>4, <4>2
      <4>3. CASE spans'[r] # spans[r] /\ i \notin 1..Len(spans[r])
        <5>1. i = Len(spans[r]) + 1
          BY <3>1, <3>3, <3>4, <4>3
        <5>2. QED
          BY <3>2, <3>3, <4>3, <5>1
      <4>4. QED
        BY <4>1, <4>2, <4>3
    <3>7. report[r].counted <= Len(spans'[r])
      BY <3>1, <3>3, <3>4
    <3>8. QED
      BY <3>1, <3>5, <3>6, <3>7
  <2>3. QED
    BY <2>1, <2>2
<1>3. QED
  BY <1>1, <1>2 DEF RestIsLate

\* At the roll-up, the completions recorded for an agent are those it made in
\* the run and litellm has reported.
LEMMA CountAtRollUp ==
  ASSUME ReportInv, run \in Runs, NEW a \in Agents
  PROVE  CallsBy(spans[run], a) =
           Cardinality(CallsMade(run, a) \ {p.call : p \in {q \in pending : q.sink = run}})
<1> DEFINE taken == spans[run]
           at    == {i \in 1..Len(taken) : taken[i].name = "llm.completion" /\ taken[i].agent = a}
           open  == {p.call : p \in {q \in pending : q.sink = run}}
           made  == CallsMade(run, a) \ open
           f     == [i \in at |-> taken[i].call]
<1>0. /\ PendingContext /\ RecordedContext /\ PendingOnce /\ CallsAreCountedOnce /\ NothingLost
      /\ taken \in Seq(SpanType) /\ Len(taken) \in Nat
      /\ Len(calls) \in Nat
  BY ReportInvParts
<1>1. ASSUME NEW i \in at PROVE taken[i].call # None /\ taken[i].call \in made
  <2>1. taken[i] \in SpanType /\ taken[i].name = "llm.completion" /\ taken[i].agent = a
    BY <1>0, ElementOfSeq
  <2>2. taken[i].call # None
    BY <2>1, SpanKinds
  <2>3. taken[i].call \in CallsMade(run, a)
    BY <1>0, <2>1, <2>2 DEF RecordedContext, CallsMade
  <2>4. taken[i].call \notin open
    BY <1>0 DEF PendingOnce
  <2>5. QED
    BY <2>2, <2>3, <2>4
<1>2. ASSUME NEW i \in at, NEW j \in at, taken[i].call = taken[j].call PROVE i = j
  BY <1>0, <1>1, <1>2 DEF CallsAreCountedOnce
<1>3. ASSUME NEW c \in made PROVE \E i \in at : taken[i].call = c
  <2>1. c \in 1..Len(calls) /\ calls[c] = [run |-> run, agent |-> a]
    BY DEF CallsMade
  <2>2. calls[c].run = run
    BY <2>1
  <2>3. ~\E p \in pending : p.call = c
    <3>1. SUFFICES ASSUME NEW p \in pending, p.call = c PROVE FALSE
      OBVIOUS
    <3>2. calls[c] = [run |-> p.sink, agent |-> p.agent]
      BY <1>0, <3>1 DEF PendingContext
    <3>3. p.sink = run
      BY <2>1, <3>2
    <3>4. QED
      BY <3>1, <3>3
  <2>4. PICK i \in 1..Len(taken) : taken[i].call = c
    BY <1>0, <2>1, <2>2, <2>3 DEF NothingLost
  <2>5. taken[i].call # None
    BY <2>1, <2>4, TelemetryAssumption, <1>0
  <2>6. calls[c] = [run |-> run, agent |-> taken[i].agent] /\ taken[i] \in SpanType
    BY <1>0, <2>4, <2>5, ElementOfSeq DEF RecordedContext
  <2>7. taken[i].agent = a
    BY <2>1, <2>6
  <2>8. taken[i].name = "llm.completion"
    BY <2>5, <2>6, SpanKinds
  <2>9. QED
    BY <2>4, <2>7, <2>8
<1>4. IsFiniteSet(at)
  <2>1. IsFiniteSet(1..Len(taken))
    BY <1>0, FS_Interval
  <2>2. at \in SUBSET (1..Len(taken))
    OBVIOUS
  <2> HIDE DEF at
  <2>3. QED
    BY <2>1, <2>2, FS_Subset
<1> HIDE DEF taken, at, open, made
<1>5. f \in Bijection(at, made)
  <2>1. f \in Injection(at, made)
    BY <1>1, <1>2 DEF Injection, IsInjective
  <2>2. f \in Surjection(at, made)
    BY <1>1, <1>3 DEF Surjection
  <2>3. QED
    BY <2>1, <2>2 DEF Bijection
<1>6. Cardinality(made) = Cardinality(at)
  BY <1>4, <1>5, FS_Bijection DEF ExistsBijection
<1>7. QED
  BY <1>6 DEF CallsBy, made, at, open, taken

\* The calls a report charges stay the same.
LEMMA ChargedKept ==
  ASSUME ReportInv, [Next]_vars, NEW r \in Runs, NEW a \in Agents,
         report[r] # None, ~RollUp \/ r # run
  PROVE  CallsMade(r, a)' \ late'[r] = CallsMade(r, a) \ late[r]
<1>0. /\ CallStep /\ Types /\ RestIsLate /\ late \in [Runs -> SUBSET Nat]
      /\ Len(calls) \in Nat /\ calls \in Seq([run : Runs, agent : Agents])
  BY ReportInvParts, CallNext
<1>1. CASE calls' = calls /\ late'[r] = late[r]
  BY <1>1 DEF CallsMade
<1>2. CASE ~(calls' = calls /\ late'[r] = late[r])
  <2>1. CASE RollUp
    BY <1>0, <1>2, <2>1 DEF RollUp, llmVars, Types
  <2>2. CASE ~RollUp
    <3>1. PICK q \in Runs, made \in [run : Runs, agent : Agents] :
            /\ made.run = q
            /\ calls' = Append(calls, made)
            /\ late' = IF report[q] = None THEN late
                       ELSE [late EXCEPT ![q] = @ \cup {Len(calls) + 1}]
      <4>1. PICK q \in Runs, agent \in Agents :
              /\ calls' = Append(calls, [run |-> q, agent |-> agent])
              /\ late' = IF report[q] = None THEN late
                         ELSE [late EXCEPT ![q] = @ \cup {Len(calls) + 1}]
        BY <1>0, <1>2, <2>2 DEF CallStep
      <4>2. /\ [run |-> q, agent |-> agent] \in [run : Runs, agent : Agents]
            /\ [run |-> q, agent |-> agent].run = q
        OBVIOUS
      <4>3. QED
        BY <4>1, <4>2
    <3>2. /\ Len(calls') = Len(calls) + 1 /\ calls'[Len(calls) + 1] = made
          /\ \A c \in 1..Len(calls) : calls'[c] = calls[c]
      BY <1>0, <3>1
    <3>3. late[r] \subseteq 1..Len(calls)
      BY <1>0 DEF RestIsLate
    <3>4. CASE q = r
      <4>1. late'[r] = late[r] \cup {Len(calls) + 1}
        BY <1>0, <3>1, <3>4
      <4>2. QED
        BY <1>0, <3>2, <3>3, <4>1 DEF CallsMade
    <3>5. CASE q # r
      <4>1. late'[r] = late[r]
        BY <1>0, <3>1, <3>5
      <4>2. made # [run |-> r, agent |-> a]
        BY <3>1, <3>5
      <4>3. QED
        BY <1>0, <3>2, <4>1, <4>2 DEF CallsMade
    <3>6. QED
      BY <3>4, <3>5
  <2>3. QED
    BY <2>1, <2>2
<1>3. QED
  BY <1>1, <1>2

\* What was recorded since the names were counted are as many completions, all
\* of them late.
LEMMA RestCounted ==
  ASSUME ReportInv, NEW r \in Runs, report[r] # None
  PROVE  Len(spans[r]) - report[r].counted \in 0..Cardinality(late[r])
<1> DEFINE n    == report[r].counted
           rest == n + 1..Len(spans[r])
           f    == [i \in rest |-> spans[r][i].call]
<1>0. /\ RestIsLate /\ CallsAreCountedOnce /\ Len(calls) \in Nat
      /\ late \in [Runs -> SUBSET Nat]
      /\ spans \in [Runs -> Seq(SpanType)] /\ report \in [Runs -> Reports \cup {None}]
  BY ReportInvParts
<1>1. n \in Nat /\ Len(spans[r]) \in Nat /\ n <= Len(spans[r])
  <2>1. report[r] \in Reports
    BY <1>0
  <2>2. n \in Nat
    BY <2>1 DEF Reports
  <2>3. QED
    BY <1>0, <2>2 DEF RestIsLate
<1>2. IsFiniteSet(late[r]) /\ Cardinality(late[r]) \in Nat
  <2>1. IsFiniteSet(1..Len(calls)) /\ late[r] \in SUBSET (1..Len(calls))
    BY <1>0, FS_Interval DEF RestIsLate
  <2>2. QED
    BY <2>1, FS_Subset, FS_CardinalityType
<1>3. ASSUME NEW i \in rest PROVE i \in 1..Len(spans[r]) /\ spans[r][i].call \in late[r]
  BY <1>0, <1>1 DEF RestIsLate
<1>4. ASSUME NEW i \in rest, NEW j \in rest, spans[r][i].call = spans[r][j].call
      PROVE  i = j
  <2>1. spans[r][i].call \in Nat
    BY <1>0, <1>3
  <2>2. spans[r][i].call # None
    BY <2>1, TelemetryAssumption
  <2>3. QED
    BY <1>0, <1>3, <1>4, <2>2 DEF CallsAreCountedOnce
<1>5. Cardinality(rest) = Len(spans[r]) - n
  <2>1. n + 1 \in Int /\ Len(spans[r]) \in Int
    BY <1>1
  <2>2. Cardinality(rest) = IF n + 1 > Len(spans[r]) THEN 0 ELSE Len(spans[r]) - (n + 1) + 1
    BY <2>1, FS_Interval
  <2>3. QED
    BY <1>1, <2>2
<1> HIDE DEF rest, n
<1>6. f \in Injection(rest, late[r])
  BY <1>3, <1>4 DEF Injection, IsInjective
<1>7. Cardinality(rest) <= Cardinality(late[r])
  BY <1>2, <1>6, FS_Injection
<1>8. QED
  BY <1>1, <1>2, <1>5, <1>7 DEF n

LEMMA ReportCountsNext == ASSUME ReportInv, [Next]_vars PROVE ReportCountsWhatArrived'
<1>0. /\ Types /\ PathInv /\ ReportCountsWhatArrived /\ RestIsLate
      /\ report \in [Runs -> Reports \cup {None}] /\ late \in [Runs -> SUBSET Nat]
  BY ReportInvParts DEF ReportInv
<1>1. ASSUME NEW r \in Runs, report'[r] # None
      PROVE  /\ \A a \in Agents :
                  report'[r].by_agent[a] = Cardinality(CallsMade(r, a)' \ late'[r])
             /\ report'[r].span_count # None =>
                  report'[r].span_count - report'[r].counted \in 0..Cardinality(late'[r])
  <2>1. CASE RollUp /\ r = run
    <3>1. /\ report'[r].by_agent = [a \in Agents |-> CallsBy(spans[run], a)]
          /\ report'[r].span_count = None /\ UNCHANGED calls
          /\ late'[r] = {p.call : p \in {q \in pending : q.sink = run}}
      BY <1>0, <2>1 DEF RollUp, llmVars
    <3>2. ASSUME NEW a \in Agents
          PROVE  report'[r].by_agent[a] = Cardinality(CallsMade(r, a)' \ late'[r])
      <4>1. CallsMade(r, a)' = CallsMade(run, a)
        BY <2>1, <3>1 DEF CallsMade
      <4>2. report'[r].by_agent[a] = CallsBy(spans[run], a)
        BY <3>1
      <4>3. run \in Runs
        BY <2>1
      <4>4. CallsBy(spans[run], a) =
              Cardinality(CallsMade(run, a) \ {p.call : p \in {q \in pending : q.sink = run}})
        BY <4>3, CountAtRollUp
      <4>5. QED
        BY <3>1, <4>1, <4>2, <4>4
    <3>3. QED
      BY <3>1, <3>2
  <2>2. CASE ~RollUp \/ r # run
    <3>1. /\ report[r] # None /\ report'[r].by_agent = report[r].by_agent
          /\ report'[r].counted = report[r].counted
      BY <1>0, <1>1, <2>2, ReportKept
    <3>2. ASSUME NEW a \in Agents
          PROVE  report'[r].by_agent[a] = Cardinality(CallsMade(r, a)' \ late'[r])
      <4>1. CallsMade(r, a)' \ late'[r] = CallsMade(r, a) \ late[r]
        BY <2>2, <3>1, ChargedKept
      <4>2. report[r].by_agent[a] = Cardinality(CallsMade(r, a) \ late[r])
        BY <1>0, <3>1 DEF ReportCountsWhatArrived
      <4>3. QED
        BY <3>1, <4>1, <4>2
    <3>3. ASSUME report'[r].span_count # None
          PROVE  report'[r].span_count - report'[r].counted \in 0..Cardinality(late'[r])
      <4>1. CASE TakeCount /\ r = run
        <5>1. report'[r].span_count = Len(spans[r]) /\ UNCHANGED late
          <6>1. report' = [report EXCEPT ![run].span_count = Len(spans[run])] /\ UNCHANGED late
            BY <4>1 DEF TakeCount
          <6>2. report[r] \in Reports
            BY <1>0, <3>1
          <6>3. QED
            BY <1>0, <4>1, <6>1, <6>2 DEF Reports
        <5>2. QED
          BY <3>1, <5>1, RestCounted
      <4>2. CASE ~(TakeCount /\ r = run)
        <5>1. report'[r].span_count = report[r].span_count
          BY <1>0, <2>2, <3>1, <4>2, SpanCountKept
        <5>2. report[r].span_count - report[r].counted \in 0..Cardinality(late[r])
          BY <1>0, <3>1, <3>3, <5>1 DEF ReportCountsWhatArrived
        <5>3. late[r] \subseteq late'[r] /\ late'[r] \subseteq 1..Len(calls') /\ Len(calls') \in Nat
          BY <2>2, LateNext, AttributedInductive DEF ReportInv, CountedInv, Attributed, Types
        <5>4. Cardinality(late[r]) <= Cardinality(late'[r]) /\ Cardinality(late[r]) \in Nat
              /\ Cardinality(late'[r]) \in Nat
          <6>1. IsFiniteSet(1..Len(calls')) /\ late'[r] \in SUBSET (1..Len(calls'))
            BY <5>3, FS_Interval
          <6>2. IsFiniteSet(late'[r]) /\ late[r] \in SUBSET late'[r]
            BY <5>3, <6>1, FS_Subset
          <6>3. QED
            BY <6>2, FS_Subset, FS_CardinalityType
        <5>5. QED
          BY <3>1, <5>1, <5>2, <5>4
      <4>3. QED
        BY <4>1, <4>2
    <3>4. QED
      BY <3>2, <3>3
  <2>3. QED
    BY <2>1, <2>2
<1>2. QED
  BY <1>1 DEF ReportCountsWhatArrived

LEMMA ReportInductive ==
  /\ Init => ReportInv
  /\ ReportInv /\ [Next]_vars => ReportInv'
<1>1. ASSUME Init PROVE ReportInv
  <2>1. PathInv /\ CountedInv
    BY <1>1, PathInductive, AttributedInductive
    DEF Init, CountedInv, PendingOnce, CallsAreCountedOnce
  <2>2. QED
    BY <1>1, <2>1
    DEF Init, ReportInv, NothingLost, RestIsLate, ReportCountsWhatArrived
<1>2. ASSUME ReportInv, [Next]_vars PROVE ReportInv'
  <2>1. PathInv' /\ CountedInv'
    BY <1>2, PathInductive, AttributedInductive, PendingOnceNext, CountedOnceNext
    DEF ReportInv, CountedInv
  <2>2. NothingLost' /\ late' \in [Runs -> SUBSET Nat] /\ RestIsLate' /\ ReportCountsWhatArrived'
    BY <1>2, NothingLostNext, LateNext, RestIsLateNext, ReportCountsNext
  <2>3. QED
    BY <2>1, <2>2 DEF ReportInv
<1>3. QED
  BY <1>1, <1>2

\* A report charges each agent every completion it made in the run but those
\* litellm had not reported by the roll-up or that were made after it, and no
\* others make its number of spans differ from its counts, for any number of
\* runs and completions and whenever a thread left behind records.
THEOREM CountsAreReported == Spec => []ReportCountsWhatArrived
<1>1. ReportInv => ReportCountsWhatArrived
  BY DEF ReportInv
<1>2. QED
  BY <1>1, ReportInductive, PTL DEF Spec
=============================================================================

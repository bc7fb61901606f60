---------------------------- MODULE SweBenchProofs ----------------------------
(***************************************************************************)
(* What a SWE-bench run predicts and sums up, for any slice of instances   *)
(* and any budgets, whatever fails and whenever Ctrl+C comes.              *)
(***************************************************************************)
EXTENDS SweBench, SequenceTheorems, TLAPS

Writers  == Instances \cup {Old}
Edits    == Files \X Writers
Outcomes == {"error", "skipped", "env_error", "ok", "not_ok", "unresolved", "resolved"}

\* An instance is under way, its session if need be.
Work == {"wipe", "prepare", "reproduce", "gold", "gold_anyway", "session"}

Types ==
  /\ pc \in Work \cup {"start", "loop", "summary", "exited"} /\ sanity \in BOOLEAN
  /\ inst \in Instances \cup {None} /\ dirty \in [Files -> Writers \cup {None}]
  /\ commits \in Seq(SUBSET Edits)
  /\ predictions \in Seq([instance : Writers, patch : SUBSET Edits])
  /\ rows \in Seq([instance : Instances, outcome : Outcomes])
  /\ healedBy \in [Instances -> Seq(SUBSET Edits)]
  /\ straggler \in Instances \cup {None} /\ leaked \subseteq Writers

\* What is left to do after the first k instances.
LeftAfter(k) ==
  /\ todo \in Seq(Instances) /\ Len(todo) + k = Len(Order)
  /\ \A j \in 1..Len(todo) : todo[j] = Order[k + j]

\* The rows are those of the first instances, and the next one is under way.
InOrder ==
  /\ \A k \in 1..Len(rows) : rows[k].instance = Order[k]
  /\ pc = "start" => rows = <<>> /\ todo = Order /\ inst = None
  /\ pc = "loop" => LeftAfter(Len(rows))
  /\ pc \in Work => LeftAfter(Len(rows) + 1) /\ inst = Order[Len(rows) + 1]
  /\ pc = "summary" => Len(rows) = Len(Order)

\* Whatever is in the directory when an instance is prepared was leaked, and so
\* was what its first commit holds beside the test patch.
LeakIsKnown ==
  /\ straggler # None => straggler \in leaked
  /\ pc = "prepare" => \A f \in Files : dirty[f] \in {None} \cup leaked
  /\ pc \in {"reproduce", "session"} =>
       Len(commits) >= 1 /\ \A edit \in commits[1] : edit[1] = "test" \/ edit[2] \in leaked

\* Only a healing run has sessions, and one that resolved has a commit on top of T.
SessionHasCommits ==
  pc = "session" => ~sanity /\ (status = "resolved" => Len(commits) >= 2)

Done == {rows[k].instance : k \in 1..Len(rows)}

\* A sanity run leaves the predictions alone; a healing run starts with none and
\* predicts instances that are done, in the order of the slice.
PredictionsAreDone ==
  IF sanity \/ (pc \in {"start", "exited"} /\ inst = None /\ Predicted = {Old})
    THEN Predicted = {Old}
    ELSE /\ \A j, k \in 1..Len(predictions) :
              j < k => Precedes(predictions[j].instance, predictions[k].instance)
         /\ \A i \in Predicted : i \in Done /\ healedBy[i] # <<>>

\* A row that says resolved comes with a prediction, or nothing to predict.
ResolvedIsPredicted ==
  \A k \in 1..Len(rows) :
    rows[k].outcome = "resolved" =>
      \/ rows[k].instance \in Predicted
      \/ SourceEdits(healedBy[rows[k].instance]) = {}

SweInv ==
  /\ Types /\ InOrder /\ LeakIsKnown /\ SessionHasCommits
  /\ PatchIsTheHealing /\ PredictionsAreDone /\ ResolvedIsPredicted
  /\ (summary # None => pc = "exited") /\ SummaryIsComplete

-----------------------------------------------------------------------------
(* Types. *)

LEMMA TreeTypes ==
  ASSUME NEW tree \in [Files -> Writers \cup {None}]
  PROVE  /\ \A files : \A who \in Writers \cup {None} :
              Wrote(tree, files, who) \in [Files -> Writers \cup {None}]
         /\ Swept(tree) \in SUBSET Edits
         /\ Clean \in [Files -> Writers \cup {None}]
BY DEF Wrote, Swept, Edits, Clean

\* An instance under way is the next of the slice, and has no row yet.
LEMMA UnderWay ==
  ASSUME Types, InOrder, pc \in Work
  PROVE  /\ inst \in Instances /\ inst \notin Done
         /\ Len(rows) \in Nat /\ Len(rows) + 1 \in 1..Len(Order)
<1>1. /\ inst = Order[Len(rows) + 1] /\ Len(todo) \in Nat /\ Len(todo) + (Len(rows) + 1) = Len(Order)
      /\ Len(rows) \in Nat /\ Len(Order) \in Nat
  BY SweBenchAssumption, LenProperties DEF Types, InOrder, LeftAfter
<1>2. Len(rows) + 1 \in 1..Len(Order)
  BY <1>1
<1>3. ASSUME NEW k \in 1..Len(rows) PROVE rows[k].instance # inst
  <2>1. rows[k].instance = Order[k] /\ k \in 1..Len(Order) /\ k # Len(rows) + 1
    BY <1>1, <1>2 DEF InOrder
  <2>2. QED
    BY <1>1, <1>2, <2>1, SweBenchAssumption
<1>4. QED
  BY <1>1, <1>2, <1>3 DEF Done, Instances

\* A row for the instance under way.
LEMMA RowAdded ==
  ASSUME Types, InOrder, pc \in Work, NEW outcome \in Outcomes, RowOf(outcome)
  PROVE  /\ rows' \in Seq([instance : Instances, outcome : Outcomes])
         /\ Len(rows') = Len(rows) + 1 /\ Len(rows) \in Nat
         /\ \A k \in 1..Len(rows) : rows'[k] = rows[k]
         /\ rows'[Len(rows) + 1].instance = inst
         /\ rows'[Len(rows) + 1].outcome = outcome
         /\ pc' = "loop"
<1> DEFINE row == [instance |-> inst, outcome |-> outcome]
<1>1. row \in [instance : Instances, outcome : Outcomes] /\ row.instance = inst /\ row.outcome = outcome
  BY UnderWay
<1>2. rows' = Append(rows, row) /\ pc' = "loop"
  BY DEF RowOf
<1> HIDE DEF row
<1>3. QED
  BY <1>1, <1>2, AppendProperties, LenProperties DEF Types

\* What the calls on record do to the types.
LEMMA CallTypes ==
  ASSUME Types, inst \in Instances,
         UNCHANGED callVars \/ (straggler' = inst /\ leaked' = leaked \cup {inst})
  PROVE  straggler' \in Instances \cup {None} /\ leaked' \subseteq Writers
BY DEF Types, callVars, Writers

LEMMA WipeTypes ==
  ASSUME Types, Wipe
  PROVE  /\ dirty' \in [Files -> Writers \cup {None}] /\ leaked \subseteq leaked'
         /\ leaked' \subseteq Writers
         /\ \A f \in Files : dirty'[f] \in {None} \cup leaked'
<1>1. CASE dirty' = Wiped(dirty) /\ UNCHANGED leaked
  BY <1>1 DEF Types, Wiped, Clean
<1>2. ASSUME NEW kept \in SUBSET OnDisk,
             dirty' = [f \in Files |-> IF \E e \in kept : e[1] = f
                                       THEN (CHOOSE e \in kept : e[1] = f)[2] ELSE None],
             leaked' = leaked \cup {e[2] : e \in kept}
      PROVE  /\ dirty' \in [Files -> Writers \cup {None}] /\ leaked \subseteq leaked'
             /\ leaked' \subseteq Writers
             /\ \A f \in Files : dirty'[f] \in {None} \cup leaked'
  <2>1. kept \subseteq Edits
    <3>1. \A i \in 1..Len(commits) : commits[i] \subseteq Edits
      BY ElementOfSeq DEF Types
    <3>2. OnDisk \subseteq Edits
      BY <3>1, TreeTypes DEF OnDisk, Types
    <3>3. QED
      BY <1>2, <3>2
  <2>2. ASSUME NEW f \in Files
        PROVE  dirty'[f] = None \/ \E e \in kept : dirty'[f] = e[2]
    BY <1>2
  <2>3. \A e \in kept : e[2] \in Writers
    BY <2>1 DEF Edits
  <2>4. leaked' \subseteq Writers /\ leaked \subseteq leaked'
    BY <1>2, <2>3 DEF Types
  <2>5. \A e \in kept : e[2] \in leaked'
    BY <1>2
  <2>6. \A f \in Files : dirty'[f] \in {None} \cup leaked'
    BY <2>2, <2>5
  <2>7. QED
    BY <1>2, <2>4, <2>6
<1>3. QED
  BY <1>1, <1>2 DEF Wipe

\* The edits an instance commits have their types.
LEMMA CommitTypes ==
  ASSUME Types, inst \in Instances, NEW files
  PROVE  /\ <<Swept(Wrote(dirty, files, inst))>> \in Seq(SUBSET Edits)
         /\ Append(commits, Swept(Wrote(dirty, files, inst))) \in Seq(SUBSET Edits)
<1>1. Swept(Wrote(dirty, files, inst)) \in SUBSET Edits
  BY TreeTypes DEF Types, Writers
<1>2. QED
  BY <1>1, AppendProperties DEF Types

\* What a session committed, seen as the patch of its instance.
LEMMA PatchOfSession ==
  ASSUME NEW log \in Seq(SUBSET Edits), Len(log) >= 1
  PROVE  LET tail == SubSeq(log, 2, Len(log)) IN
         /\ tail \in Seq(SUBSET Edits) /\ (Len(log) >= 2 => tail # <<>>)
         /\ SourceEdits(tail) \subseteq ModelPatch(log)
         /\ \A edit \in ModelPatch(log) \ SourceEdits(tail) :
              edit[1] # "test" /\ edit \in log[1]
         /\ ModelPatch(log) \in SUBSET Edits
<1> DEFINE tail == SubSeq(log, 2, Len(log))
<1>1. /\ tail \in Seq(SUBSET Edits) /\ Len(tail) = Len(log) - 1 /\ Len(log) \in Nat
      /\ \A i \in 1..Len(tail) : tail[i] = log[i + 1]
  <2>1. log # <<>> /\ Len(log) \in Nat
    BY LenProperties
  <2>2. tail = Tail(log)
    BY <2>1, TailIsSubSeq
  <2>3. QED
    BY <2>1, <2>2, HeadTailProperties
<1>2. \A i \in 1..Len(log) : log[i] \in SUBSET Edits
  BY ElementOfSeq
<1> HIDE DEF tail
<1>3. Len(log) >= 2 => tail # <<>>
  BY <1>1
<1>4. ASSUME NEW i \in 1..Len(log), i # 1
      PROVE  i - 1 \in 1..Len(tail) /\ tail[i - 1] = log[i]
  <2>1. i - 1 \in 1..Len(tail) /\ (i - 1) + 1 = i
    BY <1>1, <1>4
  <2>2. QED
    BY <1>1, <2>1
<1>5. \A i \in 1..Len(tail) : i + 1 \in 1..Len(log)
  BY <1>1
<1>6. SourceEdits(tail) \subseteq ModelPatch(log)
  BY <1>1, <1>5 DEF SourceEdits, ModelPatch
<1>7. ASSUME NEW edit \in ModelPatch(log), edit \notin SourceEdits(tail)
      PROVE  edit[1] # "test" /\ edit \in log[1]
  <2>1. PICK i \in 1..Len(log) : edit \in log[i] /\ edit[1] # "test"
    BY <1>7 DEF ModelPatch
  <2>2. i = 1
    BY <1>4, <1>7, <2>1 DEF SourceEdits
  <2>3. QED
    BY <2>1, <2>2
<1>8. ModelPatch(log) \in SUBSET Edits
  BY <1>2 DEF ModelPatch
<1>9. QED
  BY <1>1, <1>3, <1>6, <1>7, <1>8 DEF tail

\* Steps of a run: types, and what they do to the calls on record.
LEMMA TypesKept ==
  ASSUME SweInv, [Next]_vars
  PROVE  Types' /\ leaked \subseteq leaked' /\ (straggler' # None => straggler' \in leaked')
<1>0. Types /\ InOrder /\ (straggler # None => straggler \in leaked)
  BY DEF SweInv, LeakIsKnown
<1> USE DEF Types, callVars, outVars, sessionVars
<1>1. CASE Start
  <2>1. <<>> \in Seq([instance : Writers, patch : SUBSET Edits])
    OBVIOUS
  <2>2. QED
    BY <1>0, <1>1, <2>1 DEF Start, StartPredictions
<1>2. CASE NextInstance
  <2>1. todo # <<>> => Head(todo) \in Instances
    BY <1>0, <1>2, HeadTailProperties DEF NextInstance, InOrder, LeftAfter
  <2>2. QED
    BY <1>0, <1>2, <2>1 DEF NextInstance, Work
<1>3. CASE Wipe
  BY <1>0, <1>3, WipeTypes DEF Wipe, Work
<1>4. ASSUME pc \in Work PROVE inst \in Instances
  BY <1>0, <1>4, UnderWay
<1>5. ASSUME pc \in Work, NEW outcome \in Outcomes, RowOf(outcome)
      PROVE  rows' \in Seq([instance : Instances, outcome : Outcomes]) /\ pc' = "loop"
  BY <1>0, <1>5, RowAdded
<1>6. CASE PrepareInstance
  BY <1>0, <1>4, <1>5, <1>6, CommitTypes, TreeTypes
  DEF PrepareInstance, Failed, Work, Outcomes
<1>7. ASSUME NEW verdict, TestsRun(verdict), pc \in Work
      PROVE  /\ dirty' \in [Files -> Writers \cup {None}]
             /\ straggler' \in Instances \cup {None} /\ leaked' \subseteq Writers
             /\ leaked \subseteq leaked' /\ (straggler' # None => straggler' \in leaked')
  <2>1. inst \in Writers \cup {None} /\ inst \in Instances
    BY <1>4, <1>7 DEF Writers
  <2>2. dirty' \in [Files -> Writers \cup {None}]
    <3>1. PICK files \in Writes : dirty' = Wrote(dirty, files, inst)
      BY <1>7, Zenon DEF TestsRun
    <3>2. dirty \in [Files -> Writers \cup {None}]
      BY <1>0, Zenon
    <3>3. Wrote(dirty, files, inst) \in [Files -> Writers \cup {None}]
      BY <2>1, <3>2, TreeTypes, Zenon
    <3>4. QED
      BY <3>1, <3>3, Zenon
  <2>3. QED
    BY <1>0, <1>7, <2>1, <2>2, CallTypes DEF TestsRun
<1>8. CASE Reproduce
  BY <1>0, <1>5, <1>7, <1>8 DEF Reproduce, Work, Outcomes
<1>9. CASE SanityBefore
  BY <1>0, <1>5, <1>7, <1>9 DEF SanityBefore, Work, Outcomes
<1>10. CASE SanityAfter
  <2>1. ASSUME NEW verdict, TestsRun(verdict),
               RowOf(IF pc = "gold" /\ verdict = "passed" THEN "ok" ELSE "not_ok"),
               UNCHANGED <<sanity, todo, inst, commits, predictions, summary, sessionVars, healedBy>>
        PROVE  Types' /\ leaked \subseteq leaked' /\ (straggler' # None => straggler' \in leaked')
    BY <1>0, <1>5, <1>7, <1>10, <2>1 DEF SanityAfter, Work, Outcomes
  <2>2. CASE Failed /\ UNCHANGED <<dirty, callVars>>
    BY <1>0, <1>5, <1>10, <2>2 DEF SanityAfter, Failed, Work, Outcomes
  <2>3. QED
    BY <1>10, <2>1, <2>2 DEF SanityAfter
<1>11. CASE FailAttempt \/ Heal
  <2>1. /\ pc = "session" /\ inst \in Instances /\ inst \in Writers \cup {None}
        /\ UNCHANGED <<pc, sanity, todo, inst, outVars, healedBy>>
    BY <1>0, <1>4, <1>11 DEF FailAttempt, Heal, Work, Writers
  <2>2. dirty' \in [Files -> Writers \cup {None}]
    <3>1. /\ \A files : Wrote(dirty, files, inst) \in [Files -> Writers \cup {None}]
          /\ Clean \in [Files -> Writers \cup {None}]
      BY <1>0, <2>1, TreeTypes, Zenon
    <3>2. QED
      BY <1>0, <1>11, <3>1 DEF FailAttempt, Heal
  <2>3. commits' \in Seq(SUBSET Edits)
    BY <1>0, <1>11, <2>1, CommitTypes DEF FailAttempt, Heal
  <2>4. /\ straggler' \in Instances \cup {None} /\ leaked' \subseteq Writers
        /\ leaked \subseteq leaked' /\ (straggler' # None => straggler' \in leaked')
    BY <1>0, <1>11, <2>1, CallTypes DEF FailAttempt, Heal, AgentRuns
  <2>5. QED
    BY <1>0, <2>1, <2>2, <2>3, <2>4
<1>12. CASE EndUnresolved
  BY <1>0, <1>12 DEF EndUnresolved
<1>13. CASE SessionOver
  <2>1. /\ pc = "session" /\ inst \in Instances /\ Len(commits) >= 1
        /\ UNCHANGED <<sanity, todo, inst, dirty, commits, callVars>>
    BY <1>4, <1>13 DEF SessionOver, SweInv, LeakIsKnown, Work
  <2>2. rows' \in Seq([instance : Instances, outcome : Outcomes]) /\ pc' = "loop"
    BY <1>5, <1>13, <2>1 DEF SessionOver, Failed, Work, Outcomes
  <2>3. healedBy' \in [Instances -> Seq(SUBSET Edits)]
    BY <1>0, <1>13, <2>1, PatchOfSession DEF SessionOver
  <2>4. predictions' \in Seq([instance : Writers, patch : SUBSET Edits])
    <3>1. [instance |-> inst, patch |-> ModelPatch(commits)] \in [instance : Writers, patch : SUBSET Edits]
      BY <1>0, <2>1, PatchOfSession DEF Writers
    <3>2. Append(predictions, [instance |-> inst, patch |-> ModelPatch(commits)])
            \in Seq([instance : Writers, patch : SUBSET Edits])
      BY <1>0, <3>1, AppendProperties
    <3>3. QED
      BY <1>0, <1>13, <3>2 DEF SessionOver
  <2>5. QED
    BY <1>0, <2>1, <2>2, <2>3, <2>4
<1>14. CASE WriteSummary \/ CtrlC \/ StragglerEnds \/ UNCHANGED vars
  BY <1>0, <1>14 DEF WriteSummary, CtrlC, StragglerEnds, vars
<1>15. CASE Straggle
  BY <1>0, <1>15, TreeTypes DEF Straggle, Writers
<1>16. QED
  BY <1>1, <1>2, <1>3, <1>6, <1>8, <1>9, <1>10, <1>11, <1>12, <1>13, <1>14, <1>15
  DEF Next, Exited

-----------------------------------------------------------------------------
(* The order of the slice, the directory and the session. *)

\* Within an instance, or at its row.
LEMMA OrderKept ==
  ASSUME Types, InOrder, pc \in Work, UNCHANGED <<todo, inst>>,
         \/ pc' \in Work \cup {"exited"} /\ UNCHANGED rows
         \/ \E outcome \in Outcomes : RowOf(outcome)
  PROVE  InOrder'
<1>1. CASE pc' \in Work \cup {"exited"} /\ UNCHANGED rows
  BY <1>1 DEF InOrder, LeftAfter, Work
<1>2. CASE \E outcome \in Outcomes : RowOf(outcome)
  <2>1. /\ Len(rows') = Len(rows) + 1 /\ Len(rows) \in Nat /\ pc' = "loop"
        /\ \A k \in 1..Len(rows) : rows'[k] = rows[k]
        /\ rows'[Len(rows) + 1].instance = inst
    BY <1>2, RowAdded
  <2>2. \A k \in 1..Len(rows') : k \in 1..Len(rows) \/ k = Len(rows) + 1
    BY <2>1
  <2>3. \A k \in 1..Len(rows') : rows'[k].instance = Order[k]
    BY <2>1, <2>2 DEF InOrder
  <2>4. QED
    BY <2>1, <2>3 DEF InOrder, LeftAfter, Work
<1>3. QED
  BY <1>1, <1>2

LEMMA OrderNext == ASSUME Types, InOrder, NextInstance PROVE InOrder'
<1>1. /\ pc = "loop" /\ UNCHANGED rows /\ LeftAfter(Len(rows)) /\ Len(rows) \in Nat
      /\ Len(todo) \in Nat /\ todo \in Seq(Instances)
  BY LenProperties DEF NextInstance, InOrder, outVars, Types, LeftAfter
<1>2. CASE todo = <<>>
  BY <1>1, <1>2 DEF NextInstance, InOrder, LeftAfter, Work
<1>3. CASE todo # <<>>
  <2>1. pc' = "wipe" /\ inst' = Head(todo) /\ todo' = Tail(todo)
    BY <1>3 DEF NextInstance
  <2>2. /\ Len(todo) >= 1 /\ Head(todo) = todo[1] /\ todo' \in Seq(Instances)
        /\ Len(todo') = Len(todo) - 1
        /\ \A j \in 1..Len(todo') : todo'[j] = todo[j + 1]
    BY <1>1, <1>3, <2>1, HeadTailProperties
  <2>3. inst' = Order[Len(rows) + 1]
    BY <1>1, <2>1, <2>2 DEF LeftAfter
  <2>4. ASSUME NEW j \in 1..Len(todo') PROVE todo'[j] = Order[Len(rows) + 1 + j]
    <3>1. j + 1 \in 1..Len(todo) /\ Len(rows) + 1 + j = Len(rows) + (j + 1)
      BY <1>1, <2>2
    <3>2. QED
      BY <1>1, <2>2, <3>1 DEF LeftAfter
  <2>5. Len(todo') + (Len(rows) + 1) = Len(Order)
    <3>1. Len(todo) + Len(rows) = Len(Order)
      BY <1>1 DEF LeftAfter
    <3>2. Len(todo') = Len(todo) - 1
      BY <2>2
    <3>3. \A m, n \in Nat : (m - 1) + (n + 1) = m + n
      OBVIOUS
    <3>4. Len(todo) \in Nat /\ Len(rows) \in Nat
      BY <1>1
    <3>5. QED
      BY ONLY <3>1, <3>2, <3>3, <3>4
  <2>6. QED
    BY <1>1, <2>1, <2>2, <2>3, <2>4, <2>5 DEF InOrder, LeftAfter, Work
<1>4. QED
  BY <1>2, <1>3

LEMMA OrderInductive == ASSUME SweInv, [Next]_vars PROVE InOrder'
<1>0. Types /\ InOrder
  BY DEF SweInv
<1>1. CASE Start
  <2>1. Len(<<>>) = 0
    OBVIOUS
  <2>2. LeftAfter(0)
    BY <1>0, <1>1, SweBenchAssumption, LenProperties DEF Start, InOrder, LeftAfter
  <2>3. QED
    BY <1>0, <1>1, <2>1, <2>2 DEF Start, InOrder, LeftAfter, Work
<1>2. CASE Wipe \/ PrepareInstance \/ EndUnresolved \/ FailAttempt \/ Heal
  BY <1>0, <1>2, OrderKept
  DEF Wipe, PrepareInstance, EndUnresolved, FailAttempt, Heal, Failed, Work, Outcomes, outVars
<1>3. CASE Reproduce \/ SanityBefore \/ SanityAfter \/ SessionOver
  BY <1>0, <1>3, OrderKept
  DEF Reproduce, SanityBefore, SanityAfter, SessionOver, Failed, Work, Outcomes
<1>4. CASE WriteSummary \/ CtrlC
  BY <1>0, <1>4 DEF WriteSummary, CtrlC, InOrder, Work, outVars
<1>5. CASE Straggle \/ StragglerEnds \/ UNCHANGED vars
  BY <1>0, <1>5 DEF Straggle, StragglerEnds, vars, InOrder, LeftAfter, outVars
<1>6. QED
  BY <1>0, <1>1, <1>2, <1>3, <1>4, <1>5, OrderNext DEF Next, Exited

LEMMA LeakInductive == ASSUME SweInv, [Next]_vars PROVE LeakIsKnown' /\ SessionHasCommits'
<1>0. Types /\ LeakIsKnown /\ SessionHasCommits /\ leaked \subseteq leaked'
      /\ (straggler' # None => straggler' \in leaked')
  BY TypesKept DEF SweInv
<1>1. ASSUME UNCHANGED commits, pc' # "prepare", pc' # "reproduce",
             pc' = "session" => pc \in {"reproduce", "session"} /\ ~sanity',
             pc' = "session" /\ status' = "resolved" => pc = "session" /\ status = "resolved"
      PROVE  LeakIsKnown' /\ SessionHasCommits'
  BY <1>0, <1>1 DEF LeakIsKnown, SessionHasCommits
<1>2. CASE Start \/ NextInstance \/ Reproduce \/ SanityBefore \/ SanityAfter
  BY <1>1, <1>2
  DEF Start, NextInstance, Reproduce, SanityBefore, SanityAfter, RowOf, Failed
<1>3. CASE Wipe
  <2>1. /\ pc' = "prepare" /\ \A f \in Files : dirty'[f] \in {None} \cup leaked'
    BY <1>0, <1>3, WipeTypes DEF Wipe
  <2>2. QED
    BY <1>0, <2>1 DEF LeakIsKnown, SessionHasCommits
<1>4. CASE PrepareInstance
  <2>1. CASE Failed /\ UNCHANGED commits
    BY <1>1, <2>1 DEF Failed, RowOf
  <2>2. CASE commits' = <<Swept(Wrote(dirty, {"test"}, inst))>> /\ pc' = "reproduce"
    <3>1. \A edit \in Swept(Wrote(dirty, {"test"}, inst)) : edit[1] = "test" \/ edit[2] \in leaked
      <4>1. ASSUME NEW edit \in Swept(Wrote(dirty, {"test"}, inst)), edit[1] # "test"
            PROVE  edit[2] \in leaked
        <5>1. PICK f \in Files : /\ edit = <<f, Wrote(dirty, {"test"}, inst)[f]>>
                               /\ Wrote(dirty, {"test"}, inst)[f] # None
          BY <4>1 DEF Swept
        <5>2. f # "test" /\ edit[2] = dirty[f] /\ edit[2] # None
          BY <4>1, <5>1 DEF Wrote
        <5>3. QED
          BY <1>0, <1>4, <5>2 DEF PrepareInstance, LeakIsKnown
      <4>2. QED
        BY <4>1
    <3>2. Len(commits') = 1 /\ commits'[1] = Swept(Wrote(dirty, {"test"}, inst))
      BY <2>2
    <3>3. QED
      BY <1>0, <2>2, <3>1, <3>2 DEF LeakIsKnown, SessionHasCommits
  <2>3. QED
    BY <1>4, <2>1, <2>2 DEF PrepareInstance
<1>5. CASE FailAttempt \/ EndUnresolved
  BY <1>0, <1>1, <1>5
  DEF FailAttempt, EndUnresolved, Session!FailAttempt, Session!GiveUp, Session!Abandon,
      SessionHasCommits
<1>6. CASE Heal
  <2>1. PICK edits \in SUBSET Edits : commits' = Append(commits, edits)
    <3>1. inst \in Instances
      BY <1>6, UnderWay DEF SweInv, Heal, Work
    <3>2. PICK files : commits' = Append(commits, Swept(Wrote(dirty, files, inst)))
      BY <1>6 DEF Heal
    <3>3. Swept(Wrote(dirty, files, inst)) \in SUBSET Edits
      BY <1>0, <3>1, TreeTypes DEF Types, Writers
    <3>4. QED
      BY <3>2, <3>3
  <2>2. /\ pc = "session" /\ pc' = "session" /\ ~sanity' /\ Len(commits) >= 1 /\ Len(commits) \in Nat
    BY <1>0, <1>6, LenProperties DEF Heal, LeakIsKnown, SessionHasCommits, Types
  <2>3. Len(commits') = Len(commits) + 1 /\ commits'[1] = commits[1]
    BY <1>0, <2>1, <2>2, AppendProperties DEF Types
  <2>4. QED
    BY <1>0, <2>2, <2>3 DEF LeakIsKnown, SessionHasCommits
<1>7. CASE SessionOver
  BY <1>1, <1>7 DEF SessionOver, RowOf, Failed
<1>8. CASE WriteSummary \/ CtrlC
  BY <1>1, <1>8 DEF WriteSummary, CtrlC
<1>9. CASE Straggle
  BY <1>0, <1>9 DEF Straggle, LeakIsKnown, SessionHasCommits, Wrote, callVars, sessionVars, Types
<1>10. CASE StragglerEnds \/ UNCHANGED vars
  BY <1>0, <1>10 DEF StragglerEnds, vars, callVars, sessionVars, LeakIsKnown, SessionHasCommits
<1>11. QED
  BY <1>2, <1>3, <1>4, <1>5, <1>6, <1>7, <1>8, <1>9, <1>10 DEF Next, Exited

-----------------------------------------------------------------------------
(* The predictions and the summary. *)

Output == PatchIsTheHealing /\ PredictionsAreDone /\ ResolvedIsPredicted

\* The rows name instances of the slice.
LEMMA RowTypes ==
  ASSUME Types PROVE \A k \in 1..Len(rows) : rows[k].instance \in Instances
<1>1. ASSUME NEW k \in 1..Len(rows)
      PROVE  rows[k] \in [instance : Instances, outcome : Outcomes]
  <2>1. rows \in Seq([instance : Instances, outcome : Outcomes])
    BY DEF Types
  <2>2. QED
    BY <2>1, ElementOfSeq
<1>2. QED
  BY <1>1

\* A step that predicts nothing, and whose row, if it writes one, is not resolved.
LEMMA OutputKept ==
  ASSUME SweInv, UNCHANGED <<predictions, healedBy, sanity>>, leaked \subseteq leaked',
         pc \in {"start", "exited"} => pc' \in {"start", "exited"} /\ UNCHANGED inst,
         \/ UNCHANGED rows
         \/ \E outcome \in Outcomes \ {"resolved"} : pc \in Work /\ RowOf(outcome)
  PROVE  Output'
<1>0. Types /\ InOrder /\ PatchIsTheHealing /\ PredictionsAreDone /\ ResolvedIsPredicted
  BY DEF SweInv
<1>1. \A k \in 1..Len(rows') :
        \/ k \in 1..Len(rows) /\ rows'[k] = rows[k]
        \/ rows'[k].outcome # "resolved"
  <2>1. CASE UNCHANGED rows
    BY <2>1
  <2>2. CASE \E outcome \in Outcomes \ {"resolved"} : pc \in Work /\ RowOf(outcome)
    <3>1. /\ Len(rows') = Len(rows) + 1 /\ Len(rows) \in Nat
          /\ \A k \in 1..Len(rows) : rows'[k] = rows[k]
          /\ rows'[Len(rows) + 1].outcome # "resolved"
      BY <1>0, <2>2, RowAdded
    <3>2. \A k \in 1..Len(rows') : k \in 1..Len(rows) \/ k = Len(rows) + 1
      BY <3>1
    <3>3. QED
      BY <3>1, <3>2
  <2>3. QED
    BY <2>1, <2>2
<1>2. Done \subseteq Done'
  <2>1. CASE UNCHANGED rows
    BY <2>1 DEF Done
  <2>2. CASE \E outcome \in Outcomes \ {"resolved"} : pc \in Work /\ RowOf(outcome)
    <3>1. /\ Len(rows') = Len(rows) + 1 /\ Len(rows) \in Nat
          /\ \A k \in 1..Len(rows) : rows'[k] = rows[k]
      BY <1>0, <2>2, RowAdded
    <3>2. \A k \in 1..Len(rows) : k \in 1..Len(rows')
      BY <3>1
    <3>3. QED
      BY <3>1, <3>2 DEF Done
  <2>3. QED
    BY <2>1, <2>2
<1>3. Predicted' = Predicted
  BY DEF Predicted
<1>4. PatchIsTheHealing'
  BY <1>0 DEF PatchIsTheHealing
<1>5. PredictionsAreDone'
  BY <1>0, <1>2, <1>3 DEF PredictionsAreDone
<1>6. ResolvedIsPredicted'
  BY <1>0, <1>1, <1>3 DEF ResolvedIsPredicted
<1>7. QED
  BY <1>4, <1>5, <1>6 DEF Output

\* The session of the instance under way resolved it.
LEMMA OutputResolved ==
  ASSUME SweInv, pc = "session", status = "resolved", RowOf("resolved"),
         UNCHANGED <<sanity, inst, leaked>>,
         healedBy' = [healedBy EXCEPT ![inst] = SubSeq(commits, 2, Len(commits))],
         predictions' =
           IF ModelPatch(commits) = {} THEN predictions
           ELSE Append(predictions, [instance |-> inst, patch |-> ModelPatch(commits)])
  PROVE  Output'
<1> DEFINE healing == SubSeq(commits, 2, Len(commits))
           patch   == ModelPatch(commits)
           entry   == [instance |-> inst, patch |-> patch]
<1>0. /\ Types /\ InOrder /\ LeakIsKnown /\ SessionHasCommits /\ pc \in Work
      /\ PatchIsTheHealing /\ PredictionsAreDone /\ ResolvedIsPredicted
  BY DEF SweInv, Work
<1>1. /\ inst \in Instances /\ inst \notin Done /\ Len(rows) \in Nat
  BY <1>0, UnderWay
<1>2. /\ Len(commits) >= 2 /\ ~sanity /\ Len(commits) >= 1 /\ commits \in Seq(SUBSET Edits)
      /\ \A edit \in commits[1] : edit[1] = "test" \/ edit[2] \in leaked
  BY <1>0, LenProperties DEF LeakIsKnown, SessionHasCommits, Types
<1>3. /\ healing # <<>> /\ SourceEdits(healing) \subseteq patch
      /\ \A edit \in patch \ SourceEdits(healing) : edit[1] # "test" /\ edit \in commits[1]
  BY <1>2, PatchOfSession
<1>4. \A edit \in patch \ SourceEdits(healing) : edit[1] # "test" /\ edit[2] \in leaked
  BY <1>2, <1>3
<1>5. /\ \A i \in Instances \ {inst} : healedBy'[i] = healedBy[i]
      /\ healedBy'[inst] = healing
  BY <1>0, <1>1 DEF Types
<1>6. /\ Len(rows') = Len(rows) + 1 /\ pc' = "loop"
      /\ \A k \in 1..Len(rows) : rows'[k] = rows[k]
      /\ rows'[Len(rows) + 1].instance = inst
  BY <1>0, RowAdded DEF Outcomes
<1>7. predictions' = IF patch = {} THEN predictions ELSE Append(predictions, entry)
  OBVIOUS
<1>8. entry.instance = inst /\ entry.patch = patch
  OBVIOUS
<1>9. entry \in [instance : Writers, patch : SUBSET Edits]
  BY <1>1, <1>2, PatchOfSession DEF Writers
<1> HIDE DEF healing, entry, patch
<1>10. Done' = Done \cup {inst}
  <2>1. \A k \in 1..Len(rows') : k \in 1..Len(rows) \/ k = Len(rows) + 1
    BY <1>1, <1>6
  <2>2. \A k \in 1..Len(rows) : k \in 1..Len(rows')
    BY <1>1, <1>6
  <2>3. Len(rows) + 1 \in 1..Len(rows')
    BY <1>1, <1>6
  <2>4. Done' \subseteq Done \cup {inst}
    BY <1>6, <2>1 DEF Done
  <2>5. Done \subseteq Done'
    BY <1>6, <2>2 DEF Done
  <2>6. inst \in Done'
    BY <1>6, <2>3 DEF Done
  <2>7. QED
    BY <2>4, <2>5, <2>6
<1>11. /\ \A j, k \in 1..Len(predictions) :
            j < k => Precedes(predictions[j].instance, predictions[k].instance)
       /\ \A i \in Predicted : i \in Done /\ healedBy[i] # <<>>
       /\ inst \notin Predicted
  BY <1>0, <1>1, <1>2 DEF PredictionsAreDone, Work
<1>12. /\ \A k \in 1..Len(predictions) : predictions'[k] = predictions[k]
       /\ Len(predictions) \in Nat /\ Len(predictions') \in Nat
       /\ \A k \in 1..Len(predictions') :
            \/ k \in 1..Len(predictions)
            \/ k = Len(predictions) + 1 /\ predictions'[k] = entry /\ patch # {}
       /\ patch # {} => Len(predictions') = Len(predictions) + 1 /\ predictions'[Len(predictions')] = entry
       /\ Len(predictions') >= Len(predictions)
  <2>1. CASE patch = {}
    BY <1>0, <1>7, <2>1, LenProperties DEF Types
  <2>2. CASE patch # {}
    <3>1. /\ Len(predictions') = Len(predictions) + 1 /\ Len(predictions) \in Nat
          /\ \A k \in 1..Len(predictions) : predictions'[k] = predictions[k]
          /\ predictions'[Len(predictions) + 1] = entry
      BY <1>0, <1>7, <1>9, <2>2, AppendProperties, LenProperties DEF Types
    <3>2. QED
      BY <2>2, <3>1
  <2>3. QED
    BY <2>1, <2>2
<1>13. /\ Predicted \subseteq Predicted' /\ Predicted' \subseteq Predicted \cup {inst}
       /\ patch # {} => inst \in Predicted'
  <2>1. \A k \in 1..Len(predictions) : k \in 1..Len(predictions')
    BY <1>12
  <2>2. Predicted \subseteq Predicted'
    BY <1>12, <2>1 DEF Predicted
  <2>3. Predicted' \subseteq Predicted \cup {inst}
    BY <1>8, <1>12 DEF Predicted
  <2>4. patch # {} => Len(predictions') \in 1..Len(predictions')
    BY <1>12
  <2>5. patch # {} => inst \in Predicted'
    BY <1>8, <1>12, <2>4 DEF Predicted
  <2>6. QED
    BY <2>2, <2>3, <2>5
<1>14. PatchIsTheHealing'
  <2>1. SUFFICES ASSUME NEW k \in 1..Len(predictions'), predictions'[k].instance \in Instances
                 PROVE  /\ SourceEdits(healedBy'[predictions'[k].instance]) \subseteq predictions'[k].patch
                        /\ \A edit \in predictions'[k].patch
                                         \ SourceEdits(healedBy'[predictions'[k].instance]) :
                             edit[1] # "test" /\ edit[2] \in leaked'
    BY DEF PatchIsTheHealing
  <2>2. CASE k \in 1..Len(predictions)
    <3>1. predictions'[k] = predictions[k] /\ predictions[k].instance \in Predicted
      BY <1>12, <2>2 DEF Predicted
    <3>2. healedBy'[predictions'[k].instance] = healedBy[predictions[k].instance]
      BY <1>5, <1>11, <2>1, <3>1
    <3>3. predictions[k].instance \in Instances
      BY <2>1, <3>1
    <3>4. /\ SourceEdits(healedBy[predictions[k].instance]) \subseteq predictions[k].patch
          /\ \A edit \in predictions[k].patch \ SourceEdits(healedBy[predictions[k].instance]) :
               edit[1] # "test" /\ edit[2] \in leaked
      BY <1>0, <2>2, <3>3 DEF PatchIsTheHealing
    <3>5. QED
      BY <3>1, <3>2, <3>4
  <2>3. CASE predictions'[k] = entry
    BY <1>3, <1>4, <1>5, <1>8, <2>3
  <2>4. QED
    BY <1>12, <2>1, <2>2, <2>3
<1>15. PredictionsAreDone'
  <2>1. ASSUME NEW j \in 1..Len(predictions'), NEW k \in 1..Len(predictions'),
               j < k
        PROVE  Precedes(predictions'[j].instance, predictions'[k].instance)
    <3>1. j \in 1..Len(predictions)
      BY <1>12, <2>1
    <3>2. CASE k \in 1..Len(predictions)
      BY <1>11, <1>12, <2>1, <3>1, <3>2
    <3>3. CASE predictions'[k] = entry
      <4>1. PICK m \in 1..Len(rows) : rows[m].instance = predictions[j].instance
        BY <1>11, <3>1 DEF Predicted, Done
      <4>2. /\ Order[m] = predictions'[j].instance /\ Order[Len(rows) + 1] = inst
            /\ m \in 1..Len(Order) /\ Len(rows) + 1 \in 1..Len(Order) /\ m < Len(rows) + 1
        BY <1>0, <1>12, <3>1, <4>1, UnderWay, SweBenchAssumption, LenProperties DEF InOrder
      <4>3. QED
        BY <1>8, <3>3, <4>2 DEF Precedes
    <3>4. QED
      BY <1>12, <3>2, <3>3
  <2>2. ASSUME NEW i \in Predicted' PROVE i \in Done' /\ healedBy'[i] # <<>>
    <3>1. i = inst \/ i \in Predicted
      BY <1>13, <2>2
    <3>2. i \in Predicted => i \in Instances \ {inst}
      <4>1. Done \subseteq Instances
        BY <1>0, RowTypes DEF Done
      <4>2. QED
        BY <1>11, <4>1
    <3>3. QED
      BY <1>3, <1>5, <1>10, <1>11, <3>1, <3>2
  <2>3. QED
    BY <1>2, <1>6, <2>1, <2>2 DEF PredictionsAreDone
<1>16. ResolvedIsPredicted'
  <2>1. SUFFICES ASSUME NEW k \in 1..Len(rows'), rows'[k].outcome = "resolved"
                 PROVE  \/ rows'[k].instance \in Predicted'
                        \/ SourceEdits(healedBy'[rows'[k].instance]) = {}
    BY DEF ResolvedIsPredicted
  <2>2. CASE k \in 1..Len(rows)
    <3>1. rows'[k] = rows[k] /\ rows[k].instance \in Done
      BY <1>6, <2>2 DEF Done
    <3>2. rows[k].instance \in Instances
      BY <1>0, <2>2, RowTypes
    <3>3. healedBy'[rows[k].instance] = healedBy[rows[k].instance]
      BY <1>1, <1>5, <3>1, <3>2
    <3>4. QED
      BY <1>0, <1>13, <2>1, <2>2, <3>1, <3>3 DEF ResolvedIsPredicted
  <2>3. CASE k = Len(rows) + 1
    BY <1>3, <1>5, <1>6, <1>13, <2>3
  <2>4. QED
    BY <1>1, <1>6, <2>2, <2>3
<1>17. QED
  BY <1>14, <1>15, <1>16 DEF Output

LEMMA OutputInductive == ASSUME SweInv, [Next]_vars PROVE Output'
<1>0. /\ Types /\ InOrder /\ leaked \subseteq leaked'
      /\ PatchIsTheHealing /\ PredictionsAreDone /\ ResolvedIsPredicted
  BY TypesKept DEF SweInv
<1>1. CASE Start
  <2>1. /\ pc = "start" /\ pc' = "loop" /\ UNCHANGED <<sanity, rows, healedBy>> /\ rows = <<>>
        /\ predictions' = IF sanity THEN predictions ELSE <<>>
    BY <1>0, <1>1 DEF Start, StartPredictions, InOrder
  <2>2. CASE sanity
    BY <1>0, <2>1, <2>2
    DEF Output, PatchIsTheHealing, PredictionsAreDone, ResolvedIsPredicted, Predicted
  <2>3. CASE ~sanity
    BY <1>0, <2>1, <2>3
    DEF Output, PatchIsTheHealing, PredictionsAreDone, ResolvedIsPredicted, Predicted
  <2>4. QED
    BY <2>2, <2>3
<1>2. CASE NextInstance \/ Wipe \/ FailAttempt \/ Heal \/ EndUnresolved \/ WriteSummary
  BY <1>0, <1>2, OutputKept
  DEF NextInstance, Wipe, FailAttempt, Heal, EndUnresolved, WriteSummary, outVars
<1>3. CASE PrepareInstance \/ Reproduce \/ SanityBefore \/ SanityAfter
  BY <1>0, <1>3, OutputKept
  DEF PrepareInstance, Reproduce, SanityBefore, SanityAfter, Failed, Work, Outcomes
<1>4. CASE SessionOver
  <2>1. CASE RowOf("error") /\ UNCHANGED <<predictions, healedBy>>
    BY <1>0, <1>4, <2>1, OutputKept DEF SessionOver, Work, Outcomes
  <2>2. CASE RowOf("unresolved") /\ UNCHANGED <<predictions, healedBy>>
    BY <1>0, <1>4, <2>2, OutputKept DEF SessionOver, Work, Outcomes
  <2>3. CASE status = "resolved" /\ RowOf("resolved")
              /\ healedBy' = [healedBy EXCEPT ![inst] = SubSeq(commits, 2, Len(commits))]
              /\ predictions' =
                   IF ModelPatch(commits) = {} THEN predictions
                   ELSE Append(predictions, [instance |-> inst, patch |-> ModelPatch(commits)])
    BY <1>4, <2>3, OutputResolved DEF SessionOver, callVars
  <2>4. QED
    BY <1>4, <2>1, <2>2, <2>3 DEF SessionOver, Failed
<1>5. CASE CtrlC \/ Straggle \/ StragglerEnds \/ UNCHANGED vars
  BY <1>0, <1>5, OutputKept DEF CtrlC, Straggle, StragglerEnds, vars, outVars, callVars
<1>6. QED
  BY <1>1, <1>2, <1>3, <1>4, <1>5 DEF Next, Exited

-----------------------------------------------------------------------------

LEMMA SweInit == Init => SweInv
<1> SUFFICES ASSUME Init PROVE SweInv
  OBVIOUS
<1> DEFINE entry == [instance |-> Old, patch |-> {<<"src", Old>>}]
<1>1. entry \in [instance : Writers, patch : SUBSET Edits] /\ entry.instance = Old
  BY DEF Writers, Edits, Files
<1>2. predictions = <<entry>>
  BY DEF Init
<1> HIDE DEF entry
<1>3. predictions \in Seq([instance : Writers, patch : SUBSET Edits])
  BY <1>1, <1>2
<1>4. \A S : <<>> \in Seq(S)
  OBVIOUS
<1>5. Types
  BY <1>3, <1>4 DEF Init, Types, Clean
<1>6. Predicted = {Old}
  BY <1>1, <1>2 DEF Predicted
<1>7. InOrder /\ LeakIsKnown /\ SessionHasCommits
  BY DEF Init, InOrder, LeakIsKnown, SessionHasCommits, Work
<1>8. PatchIsTheHealing
  BY <1>1, <1>2, SweBenchAssumption DEF PatchIsTheHealing
<1>9. PredictionsAreDone /\ ResolvedIsPredicted /\ SummaryIsComplete
  BY <1>6 DEF Init, PredictionsAreDone, ResolvedIsPredicted, SummaryIsComplete
<1>10. QED
  BY <1>5, <1>7, <1>8, <1>9 DEF Init, SweInv

LEMMA SummaryInductive ==
  ASSUME SweInv, [Next]_vars
  PROVE  (summary' # None => pc' = "exited") /\ SummaryIsComplete'
<1>0. /\ Types /\ InOrder /\ ResolvedIsPredicted
      /\ (summary # None => pc = "exited") /\ SummaryIsComplete
  BY DEF SweInv
<1>1. CASE pc # "exited" /\ UNCHANGED summary
  BY <1>0, <1>1 DEF SummaryIsComplete
<1>2. CASE UNCHANGED <<pc, summary, predictions, healedBy>>
  BY <1>0, <1>2 DEF SummaryIsComplete, Predicted
<1>3. CASE WriteSummary
  <2>1. /\ pc = "summary" /\ pc' = "exited" /\ summary' = rows /\ Len(rows) = Len(Order)
        /\ UNCHANGED <<predictions, healedBy>>
    BY <1>0, <1>3 DEF WriteSummary, InOrder
  <2>2. \A k \in 1..Len(rows) : rows[k].instance = Order[k]
    BY <1>0 DEF InOrder
  <2>3. [k \in 1..Len(rows) |-> rows[k].instance] = Order
    <3>1. Order = [k \in 1..Len(Order) |-> Order[k]]
      BY SweBenchAssumption, LenProperties
    <3>2. QED
      BY <2>1, <2>2, <3>1
  <2>4. QED
    BY <1>0, <2>1, <2>2, <2>3 DEF SummaryIsComplete, ResolvedIsPredicted, Predicted
<1>4. QED
  BY <1>1, <1>2, <1>3
  DEF Next, Exited, vars, outVars, Start, NextInstance, Wipe, PrepareInstance, Reproduce,
      SanityBefore, SanityAfter, FailAttempt, Heal, EndUnresolved, SessionOver, CtrlC, Straggle,
      StragglerEnds

LEMMA SweInductive == SweInv /\ [Next]_vars => SweInv'
BY TypesKept, OrderInductive, LeakInductive, OutputInductive, SummaryInductive
DEF SweInv, Output

\* The model patch of a prediction is what its session committed outside the
\* tests, and beyond it only what a call that timed out or a failing wipe leaked.
THEOREM PatchesAreHealings == Spec => []PatchIsTheHealing
<1>1. SweInv => PatchIsTheHealing
  BY DEF SweInv
<1>2. QED
  BY <1>1, SweInit, SweInductive, PTL DEF Spec

\* A healing run predicts in the order of the slice, each instance at most once
\* and only those of this run whose session resolved; a sanity run predicts
\* nothing.
THEOREM PredictionsAreFresh == Spec => []PredictionsAreOfThisRun
<1>1. SweInv => PredictionsAreOfThisRun
  <2>1. ASSUME SweInv PROVE Done \subseteq Instances
    BY <2>1, RowTypes DEF SweInv, Done
  <2>2. QED
    BY <2>1 DEF SweInv, PredictionsAreDone, PredictionsAreOfThisRun
<1>2. QED
  BY <1>1, SweInit, SweInductive, PTL DEF Spec

\* The summary has a row for every instance in order, whatever failed, and one
\* that says resolved comes with its prediction.
THEOREM SummaryIsWhole == Spec => []SummaryIsComplete
<1>1. SweInv => SummaryIsComplete
  BY DEF SweInv
<1>2. QED
  BY <1>1, SweInit, SweInductive, PTL DEF Spec
=============================================================================

---------------------------- MODULE BenchmarkProofs ----------------------------
(***************************************************************************)
(* What the benchmark keeps apart in its one clone and what it reports, for *)
(* any branches, any budgets and any number of interrupts.                 *)
(***************************************************************************)
EXTENDS Benchmark, SequenceTheorems, FiniteSetTheorems, TLAPS

\* The files of a branch that git sees, and who may have written one of them.
Visible(b) == Files \ IF b \in TracksDb \/ excluded THEN {Db} ELSE {}
Own(b)     == {b} \cup straggled

\* Where the tree is the one of the branch under way.
OnBranch == {"probe", "session", "publish"}

\* A call that still runs is on record.
OnRecord == straggler # None => straggler \in straggled

\* On a branch, its own run and the calls on record wrote the tree.
TreeIsOwn ==
  /\ dirty = [f \in Files |-> dirty[f]]
  /\ pc \in OnBranch => \A f \in Files : dirty[f] \in {None} \cup Own(branch)

\* On a branch, the database is marked exactly if the branch tracks it.
MarkIsRight == pc \in OnBranch => skip = (branch \in TracksDb)

\* A commit of a branch holds visible files of its own.
CommitsAreOwn ==
  /\ commits = [b \in Branches |-> commits[b]]
  /\ pc = "clone" => \A b \in Branches : commits[b] = <<>>
  /\ \A b \in Branches : commits[b] \in Seq(SUBSET (Visible(b) \X Own(b)))

TreeInv == OnRecord /\ TreeIsOwn /\ MarkIsRight /\ CommitsAreOwn /\ CheckoutStartsClean

\* The last cleanup before the report removed the containers that were up.
CleanedUp ==
  /\ pc = "report" => agent \in {"none", "late"} \/ docker_down
  /\ report # None => pc = "exited"
  /\ AgentContainersGone

\* A branch is under way.
Work == {"checkout", "probe", "session", "publish", "push", "record"}

RowType == [branch : Branches, resolved : BOOLEAN, error : BOOLEAN, pr : BOOLEAN]

\* What is left to do after the first k branches.
LeftAfter(k) ==
  /\ todo \in Seq(Scenarios) /\ Len(todo) + k = Len(BranchList)
  /\ \A j \in 1..Len(todo) : todo[j] = BranchList[k + j]

\* The rows are those of the first branches, and the next one is under way.
InOrder ==
  /\ rows \in Seq(RowType) /\ verdict = [b \in Branches |-> verdict[b]]
  /\ sigint \in Nat /\ (pending => sigint > 0)
  /\ pc = "clone" => rows = <<>>
  /\ pc = "loop" => LeftAfter(Len(rows))
  /\ pc \in Work =>
       /\ LeftAfter(Len(rows) + 1) /\ result \in RowType
       /\ result.branch = BranchList[Len(rows) + 1]
  /\ pc \in {"probe", "session", "publish", "push"} => branch = result.branch
  /\ pc \in {"final", "report"} =>
       /\ Len(rows) <= Len(BranchList)
       /\ Len(rows) = Len(BranchList) \/ sigint > 0

\* A row and the verdict on its branch agree, the row of a publication that was
\* interrupted aside, which is the last.
RowsAreTrue ==
  \A i \in 1..Len(rows) :
    /\ rows[i].branch = BranchList[i]
    /\ rows[i].resolved => verdict[BranchList[i]] = "resolved"
    /\ verdict[BranchList[i]] = "resolved" =>
         \/ rows[i].resolved
         \/ sigint > 1 /\ i = Len(rows) /\ pc \in {"final", "report", "exited"}

\* A branch without a row is not resolved, unless it is under way; then its row
\* so far says what its verdict is.
NotResolvedYet ==
  /\ \A i \in 1..Len(BranchList) :
       i > Len(rows) + 1 \/ (i > Len(rows) /\ pc \in {"clone", "loop"}) =>
         verdict[BranchList[i]] # "resolved"
  /\ pc \in Work => (result.resolved <=> verdict[result.branch] = "resolved")
  /\ pc \in {"checkout", "probe", "session"} => ~result.resolved

ReportInv ==
  /\ InOrder /\ RowsAreTrue /\ NotResolvedYet
  /\ (report # None => pc = "exited") /\ ReportIsTheRun

-----------------------------------------------------------------------------
(* The branches. *)

\* The harness lists the scenarios, each once.
LEMMA BranchesListed ==
  /\ BranchList \in Seq(Scenarios)
  /\ \A i, j \in 1..Len(BranchList) : BranchList[i] = BranchList[j] => i = j
<1> DEFINE S == Branches \cap Scenarios
           card == Cardinality(S)
<1>1. IsFiniteSet(S)
  BY BenchmarkAssumption, FS_Subset
<1>2. card \in Nat /\ ExistsBijection(1..card, S)
  BY <1>1, FS_CardinalityType
<1>3. PICK f : f \in Bijection(1..card, S)
  BY <1>2 DEF ExistsBijection
<1>4. f \in [1..card -> S] /\ IsInjective(f)
  BY <1>3 DEF Bijection, Injection
<1>5. BranchList \in [1..card -> S] /\ IsInjective(BranchList)
  BY <1>4 DEF BranchList, SetToSeq
<1> HIDE DEF card
<1>6. BranchList \in Seq(S) /\ Len(BranchList) = card
  BY <1>2, <1>5
<1>7. BranchList \in Seq(Scenarios)
  BY <1>6
<1>8. QED
  BY <1>2, <1>5, <1>6, <1>7 DEF IsInjective

-----------------------------------------------------------------------------
(* The working tree and the commits. *)

\* What git adds to a commit.
LEMMA SweptIsOwn ==
  ASSUME NEW tree, NEW W, skip = (branch \in TracksDb),
         \A f \in Files : tree[f] \in {None} \cup W
  PROVE  Swept(tree) \in SUBSET (Visible(branch) \X W)
<1>1. Files \ Hidden = Visible(branch)
  BY DEF Hidden, Tracked, Visible, Files, Db
<1>2. QED
  BY <1>1 DEF Swept, Visible

\* Adding a commit of the branch to the ones that were there.
LEMMA CommitIsOwn ==
  ASSUME CommitsAreOwn, NEW edits \in SUBSET (Visible(branch) \X Own(branch)),
         commits' = [commits EXCEPT ![branch] = Append(@, edits)],
         UNCHANGED excluded, straggled \subseteq straggled', pc' # "clone"
  PROVE  CommitsAreOwn'
<1>1. ASSUME NEW b \in Branches
      PROVE  commits'[b] \in Seq(SUBSET (Visible(b) \X Own(b))')
  <2>1. commits'[b] \in Seq(SUBSET (Visible(b) \X Own(b)))
    BY AppendProperties DEF CommitsAreOwn
  <2>2. SUBSET (Visible(b) \X Own(b)) \subseteq SUBSET (Visible(b) \X Own(b))'
    BY DEF Visible, Own
  <2>3. QED
    BY <2>1, <2>2, SeqMonotonic
<1>2. QED
  BY <1>1 DEF CommitsAreOwn

\* The commits stay while more calls go on record.
LEMMA CommitsStay ==
  ASSUME CommitsAreOwn, UNCHANGED <<commits, excluded>>, straggled \subseteq straggled',
         pc' = "clone" => pc = "clone"
  PROVE  CommitsAreOwn'
<1>1. ASSUME NEW b \in Branches
      PROVE  commits'[b] \in Seq(SUBSET (Visible(b) \X Own(b))')
  <2>1. SUBSET (Visible(b) \X Own(b)) \subseteq SUBSET (Visible(b) \X Own(b))'
    BY DEF Visible, Own
  <2>2. QED
    BY <2>1, SeqMonotonic DEF CommitsAreOwn
<1>2. QED
  BY <1>1 DEF CommitsAreOwn

\* A step that neither writes the tree nor commits.
LEMMA TreeKept ==
  ASSUME TreeInv,
         UNCHANGED <<branch, dirty, skip, excluded, commits>>,
         straggler' \in {straggler, None} \/ straggler' \in straggled',
         straggled \subseteq straggled',
         pc' \in OnBranch => pc \in OnBranch,
         pc' = "probe" => pc = "probe", pc' = "clone" => pc = "clone"
  PROVE  TreeInv'
<1>1. CommitsAreOwn'
  BY CommitsStay DEF TreeInv
<1>2. (OnRecord /\ TreeIsOwn /\ MarkIsRight /\ CheckoutStartsClean)'
  BY DEF TreeInv, OnRecord, TreeIsOwn, MarkIsRight, CheckoutStartsClean, Own
<1>3. QED
  BY <1>1, <1>2 DEF TreeInv

\* What the agents leave behind.
LEMMA AgentEffect ==
  ASSUME TreeInv, AgentRuns
  PROVE  OnRecord' /\ straggled \subseteq straggled'
BY DEF TreeInv, AgentRuns, OnRecord, callVars

LEMMA TreeInductive ==
  /\ Init => TreeInv
  /\ TreeInv /\ [Next]_vars => TreeInv'
<1>1. ASSUME Init PROVE TreeInv
  <2>1. CommitsAreOwn
    <3>1. \A S : <<>> \in Seq(S)
      OBVIOUS
    <3>2. QED
      BY <1>1, <3>1 DEF Init, CommitsAreOwn
  <2>2. OnRecord /\ TreeIsOwn /\ MarkIsRight /\ CheckoutStartsClean
    BY <1>1 DEF Init, OnRecord, TreeIsOwn, MarkIsRight, CheckoutStartsClean, OnBranch
  <2>3. QED
    BY <2>1, <2>2 DEF TreeInv
<1>2. ASSUME TreeInv, [Next]_vars PROVE TreeInv'
  <2>0. OnRecord /\ TreeIsOwn /\ MarkIsRight /\ CommitsAreOwn /\ CheckoutStartsClean
    BY <1>2 DEF TreeInv
  <2>1. CASE Clone
    <3>1. /\ pc = "clone" /\ pc' \in {"loop", "exited"}
          /\ UNCHANGED <<branch, dirty, skip, commits, callVars>>
      BY <2>1 DEF Clone
    <3>2. CommitsAreOwn'
      <4>1. \A S : <<>> \in Seq(S)
        OBVIOUS
      <4>2. QED
        BY <2>0, <3>1, <4>1 DEF CommitsAreOwn
    <3>3. QED
      BY <2>0, <3>1, <3>2
      DEF TreeInv, OnRecord, TreeIsOwn, MarkIsRight, CheckoutStartsClean, OnBranch, callVars
  <2>2. CASE NextBranch
    BY <1>2, <2>2, TreeKept DEF NextBranch, treeVars, callVars, OnBranch
  <2>3. CASE CheckoutBranch
    <3>1. /\ UNCHANGED <<excluded, commits, callVars>> /\ pc' \in {"probe", "record"}
          /\ dirty' \in {dirty, ResetTracked(dirty), CleanUntracked(ResetTracked(dirty))}
      BY <2>3 DEF CheckoutBranch, Failed
    <3>2. CommitsAreOwn'
      BY <2>0, <3>1, CommitsStay DEF callVars
    <3>3. /\ pc' = "probe" => \A f \in Files : dirty'[f] = None
          /\ dirty' = [f \in Files |-> dirty'[f]]
      BY <2>0, <2>3, <3>1
      DEF CheckoutBranch, Failed, CleanUntracked, ResetTracked, Wrote, TreeIsOwn
    <3>4. MarkIsRight'
      BY <2>3, <3>1 DEF CheckoutBranch, Failed, Mark, MarkIsRight, OnBranch
    <3>5. QED
      BY <2>0, <3>1, <3>2, <3>3, <3>4
      DEF TreeInv, OnRecord, TreeIsOwn, CheckoutStartsClean, OnBranch, callVars
  <2>4. CASE DetectCrash
    <3>1. /\ UNCHANGED <<branch, skip, excluded, commits, callVars>>
          /\ pc = "probe" /\ pc' \in {"session", "record"}
      BY <2>4 DEF DetectCrash, Failed
    <3>2. PICK files \in Writes : dirty' = Wrote(dirty, files, branch)
      BY <2>4 DEF DetectCrash, ProgramRuns
    <3>3. TreeIsOwn'
      BY <2>0, <3>1, <3>2 DEF TreeIsOwn, Wrote, Own, OnBranch, callVars
    <3>4. CommitsAreOwn'
      BY <2>0, <3>1, CommitsStay DEF callVars
    <3>5. QED
      BY <2>0, <3>1, <3>3, <3>4
      DEF TreeInv, OnRecord, MarkIsRight, CheckoutStartsClean, OnBranch, callVars
  <2>5. CASE FailAttempt \/ Heal
    <3>1. /\ pc = "session" /\ UNCHANGED <<pc, branch, skip, excluded>>
          /\ OnRecord' /\ straggled \subseteq straggled'
      BY <1>2, <2>5, AgentEffect DEF FailAttempt, Heal
    <3>2. PICK files \in Writes :
            LET tree == Wrote(dirty, files, branch) IN
            /\ dirty' \in {tree, Wrote(tree, Files \ Hidden, None)}
            /\ \/ UNCHANGED commits
               \/ commits' = [commits EXCEPT ![branch] = Append(@, Swept(tree))]
      BY <2>5 DEF FailAttempt, Heal
    <3> DEFINE tree == Wrote(dirty, files, branch)
    <3>3. \A f \in Files : tree[f] \in {None} \cup Own(branch)
      BY <2>0, <3>1 DEF TreeIsOwn, Wrote, Own, OnBranch
    <3>4. Swept(tree) \in SUBSET (Visible(branch) \X Own(branch))
      BY <2>0, <3>1, <3>3, SweptIsOwn DEF MarkIsRight, OnBranch
    <3>5. TreeIsOwn'
      BY <3>1, <3>2, <3>3 DEF TreeIsOwn, Wrote, Own
    <3>6. CommitsAreOwn'
      BY <2>0, <3>1, <3>2, <3>4, CommitsStay, CommitIsOwn
    <3>7. QED
      BY <2>0, <3>1, <3>5, <3>6 DEF TreeInv, MarkIsRight, CheckoutStartsClean
  <2>6. CASE EndUnresolved
    BY <1>2, <2>6, TreeKept DEF EndUnresolved, treeVars, callVars
  <2>7. CASE SessionOver
    BY <1>2, <2>7, TreeKept DEF SessionOver, Failed, treeVars, callVars, OnBranch
  <2>8. CASE Publish
    <3>1. /\ pc = "publish" /\ pc' \in {"push", "record"}
          /\ UNCHANGED <<branch, skip, excluded, callVars>>
          /\ dirty' \in {dirty, Wrote(dirty, Files \ Hidden, None)}
          /\ \/ UNCHANGED commits
             \/ commits' = [commits EXCEPT ![branch] = Append(@, Swept(dirty))]
      BY <2>8 DEF Publish, Failed
    <3>2. Swept(dirty) \in SUBSET (Visible(branch) \X Own(branch))
      BY <2>0, <3>1, SweptIsOwn DEF MarkIsRight, TreeIsOwn, OnBranch
    <3>3. CommitsAreOwn'
      BY <2>0, <3>1, <3>2, CommitsStay, CommitIsOwn DEF callVars
    <3>4. QED
      BY <2>0, <3>1, <3>3
      DEF TreeInv, OnRecord, TreeIsOwn, MarkIsRight, CheckoutStartsClean, OnBranch, Wrote,
          callVars
  <2>9. CASE Push \/ Record \/ FinalCleanup \/ WriteReport
    BY <1>2, <2>9, TreeKept
    DEF Push, Record, FinalCleanup, WriteReport, Failed, treeVars, callVars, OnBranch
  <2>10. CASE CtrlC \/ Cancelled \/ CtrlCAgain \/ ContainerComesUp \/ StragglerEnds
    BY <1>2, <2>10, TreeKept
    DEF CtrlC, Cancelled, CtrlCAgain, ContainerComesUp, StragglerEnds, AgentRuns, BreakLoop,
        treeVars, callVars, OnBranch
  <2>11. CASE Straggle
    <3>1. /\ straggler # None /\ UNCHANGED <<pc, branch, skip, excluded, commits, callVars>>
          /\ \E files \in Writes : dirty' = Wrote(dirty, files, straggler)
      BY <2>11 DEF Straggle
    <3>2. TreeIsOwn' /\ CheckoutStartsClean'
      BY <2>0, <3>1 DEF TreeIsOwn, CheckoutStartsClean, OnRecord, Wrote, Own, callVars
    <3>3. CommitsAreOwn'
      BY <2>0, <3>1, CommitsStay DEF callVars
    <3>4. QED
      BY <2>0, <3>1, <3>2, <3>3 DEF TreeInv, OnRecord, MarkIsRight, callVars
  <2>12. CASE UNCHANGED vars
    BY <1>2, <2>12, TreeKept DEF vars, treeVars, callVars
  <2>13. QED
    BY <1>2, <2>1, <2>2, <2>3, <2>4, <2>5, <2>6, <2>7, <2>8, <2>9, <2>10, <2>11, <2>12
    DEF Next, Exited
<1>3. QED
  BY <1>1, <1>2

\* An edit in a commit is one of a visible file, by the branch or a call on record.
LEMMA EditsAreOwn ==
  ASSUME CommitsAreOwn, NEW b \in Branches, NEW i \in 1..Len(commits[b]),
         NEW edit \in commits[b][i]
  PROVE  edit[1] \in Visible(b) /\ edit[2] \in Own(b)
<1>1. commits[b][i] \in SUBSET (Visible(b) \X Own(b))
  BY ElementOfSeq DEF CommitsAreOwn
<1>2. edit \in Visible(b) \X Own(b)
  BY <1>1
<1>3. QED
  BY <1>2

\* Every branch is probed on a clean slate, whatever was left in the clone, but
\* for calls that outlived their branch.
THEOREM CheckoutIsClean == Spec => []CheckoutStartsClean
<1>1. TreeInv => CheckoutStartsClean
  BY DEF TreeInv
<1>2. QED
  BY <1>1, TreeInductive, PTL DEF Spec

\* A branch's commits hold its own run's edits and those of calls that outlived
\* their branch.
THEOREM CommitsStayApart == Spec => []ForeignEditsStayOut
<1>1. TreeInv => ForeignEditsStayOut
  BY EditsAreOwn DEF TreeInv, ForeignEditsStayOut, Own
<1>2. QED
  BY <1>1, TreeInductive, PTL DEF Spec

\* The database the program writes is in no commit of a branch that tracks it,
\* and in none at all once the clone excludes it.
THEOREM DbIsHidden == Spec => []RuntimeDbStaysOut
<1>1. TreeInv => RuntimeDbStaysOut
  BY EditsAreOwn DEF TreeInv, RuntimeDbStaysOut, Visible
<1>2. QED
  BY <1>1, TreeInductive, PTL DEF Spec

-----------------------------------------------------------------------------
(* The containers of the agents. *)

LEMMA CleanedUpInductive ==
  /\ Init => CleanedUp
  /\ CleanedUp /\ [Next]_vars => CleanedUp'
<1>1. Init => CleanedUp
  BY DEF Init, CleanedUp, AgentContainersGone
<1>2. ASSUME CleanedUp, [Next]_vars PROVE CleanedUp'
  <2> USE DEF CleanedUp, AgentContainersGone
  <2>1. ASSUME pc # "exited", pc' \notin {"report"}, UNCHANGED report PROVE CleanedUp'
    BY <1>2, <2>1
  <2>2. CASE Clone \/ NextBranch \/ CheckoutBranch \/ DetectCrash
    BY <2>1, <2>2
    DEF Clone, NextBranch, CheckoutBranch, DetectCrash, Failed, rowVars
  <2>3. CASE FailAttempt \/ Heal \/ EndUnresolved \/ SessionOver
    BY <2>1, <2>3 DEF FailAttempt, Heal, EndUnresolved, SessionOver, Failed, rowVars
  <2>4. CASE Publish \/ Push \/ Record \/ Cancelled
    BY <2>1, <2>4 DEF Publish, Push, Record, Cancelled, BreakLoop, Failed
  <2>5. CASE FinalCleanup
    BY <1>2, <2>5 DEF FinalCleanup, CleanupAllContainers, RemoveAll, rowVars
  <2>6. CASE WriteReport
    BY <1>2, <2>6 DEF WriteReport, dockerVars
  <2>7. CASE CtrlC \/ Straggle \/ ContainerComesUp \/ StragglerEnds \/ UNCHANGED vars
    BY <1>2, <2>7
    DEF CtrlC, Straggle, ContainerComesUp, StragglerEnds, vars, rowVars, dockerVars
  <2>8. CASE CtrlCAgain
    BY <2>1, <2>8 DEF CtrlCAgain, BreakLoop
  <2>9. QED
    BY <1>2, <2>2, <2>3, <2>4, <2>5, <2>6, <2>7, <2>8 DEF Next, Exited
<1>3. QED
  BY <1>1, <1>2

\* When the report is written no agent's container is left, unless docker failed
\* or a call left behind brought its container up after the last cleanup.
THEOREM ReportedIsCleanedUp == Spec => []AgentContainersGone
<1>1. CleanedUp => AgentContainersGone
  BY DEF CleanedUp
<1>2. QED
  BY <1>1, CleanedUpInductive, PTL DEF Spec

-----------------------------------------------------------------------------
(* The report. *)

\* A step within a branch: neither the rows nor the interrupts change, and the
\* verdict only when the session is over.
LEMMA WorkKept ==
  ASSUME ReportInv, UNCHANGED <<todo, rows, report, verdict, sigint, pending>>,
         pc \in Work, pc' \in Work, result' \in RowType,
         result'.branch = result.branch, result'.resolved = result.resolved,
         pc' \in {"probe", "session", "publish", "push"} => branch' = result.branch,
         pc' \in {"checkout", "probe", "session"} => pc \in {"checkout", "probe", "session"}
  PROVE  ReportInv'
<1>1. InOrder /\ RowsAreTrue /\ NotResolvedYet /\ report = None
  BY DEF ReportInv, Work
<1>2. InOrder'
  BY <1>1 DEF InOrder, LeftAfter, Work
<1>3. RowsAreTrue' /\ NotResolvedYet'
  BY <1>1 DEF RowsAreTrue, NotResolvedYet, Work
<1>4. QED
  BY <1>1, <1>2, <1>3 DEF ReportInv, ReportIsTheRun

\* A row is written for the branch under way.
LEMMA RowWritten ==
  ASSUME ReportInv, pc \in Work, NEW row \in RowType, rows' = Append(rows, row),
         row.branch = result.branch,
         UNCHANGED <<todo, report, verdict>>, sigint' \in Nat, sigint' >= sigint,
         pending' => sigint' > 0,
         \/ /\ pc' = "loop" /\ row.resolved = result.resolved
         \/ /\ pc' = "final" /\ sigint' > 0 /\ ~row.resolved
            /\ result.resolved => sigint' > 1
  PROVE  ReportInv'
<1>1. InOrder /\ RowsAreTrue /\ NotResolvedYet /\ report = None
  BY DEF ReportInv, Work
<1>2. /\ rows' \in Seq(RowType) /\ Len(rows') = Len(rows) + 1
      /\ \A i \in 1..Len(rows) : rows'[i] = rows[i]
      /\ rows'[Len(rows) + 1] = row /\ Len(rows) \in Nat
  BY <1>1, AppendProperties, LenProperties DEF InOrder
<1>3. /\ Len(BranchList) \in Nat /\ Len(todo) \in Nat
      /\ Len(rows') <= Len(BranchList) /\ row.branch = BranchList[Len(rows) + 1]
      /\ row.resolved \in BOOLEAN /\ result.resolved \in BOOLEAN
  BY <1>1, <1>2, BranchesListed, LenProperties DEF InOrder, LeftAfter, RowType
<1>4. InOrder'
  BY <1>1, <1>2, <1>3 DEF InOrder, LeftAfter, Work
<1>5. RowsAreTrue'
  <2>1. ASSUME NEW i \in 1..Len(rows')
        PROVE  /\ rows'[i].branch = BranchList[i]
               /\ rows'[i].resolved => verdict[BranchList[i]] = "resolved"
               /\ verdict[BranchList[i]] = "resolved" =>
                    rows'[i].resolved \/ (sigint' > 1 /\ i = Len(rows') /\ pc' = "final")
    <3>1. CASE i \in 1..Len(rows)
      BY <1>1, <1>2, <3>1 DEF RowsAreTrue, Work
    <3>2. CASE i = Len(rows) + 1
      BY <1>1, <1>2, <1>3, <3>2 DEF NotResolvedYet
    <3>3. QED
      BY <1>2, <2>1, <3>1, <3>2
  <2>2. QED
    BY <2>1 DEF RowsAreTrue
<1>6. NotResolvedYet'
  BY <1>1, <1>2, <1>3 DEF NotResolvedYet, Work
<1>7. QED
  BY <1>1, <1>4, <1>5, <1>6 DEF ReportInv, ReportIsTheRun

\* A step that changes nothing the report depends on.
LEMMA ReportKept ==
  ASSUME ReportInv, UNCHANGED <<pc, todo, branch, rowVars>>,
         sigint' \in Nat, sigint' >= sigint, pending' => sigint' > 0
  PROVE  ReportInv'
<1>1. InOrder'
  BY DEF ReportInv, InOrder, LeftAfter, rowVars
<1>2. RowsAreTrue' /\ NotResolvedYet'
  BY DEF ReportInv, InOrder, RowsAreTrue, NotResolvedYet, rowVars
<1>3. ReportIsTheRun'
  BY DEF ReportInv, InOrder, ReportIsTheRun, rowVars
<1>4. QED
  BY <1>1, <1>2, <1>3 DEF ReportInv, rowVars

\* The rows under way have a verdict only once their session is over.
LEMMA VerdictGiven ==
  ASSUME ReportInv, SessionOver PROVE ReportInv'
<1>1. InOrder /\ RowsAreTrue /\ NotResolvedYet /\ report = None
  BY DEF ReportInv, SessionOver
<1>2. /\ pc = "session" /\ pc' \in {"record", "publish"} /\ branch = result.branch
      /\ verdict' = [verdict EXCEPT ![result.branch] = status]
      /\ UNCHANGED <<todo, branch, rows, report, sigint, pending>>
      /\ result \in RowType /\ ~result.resolved
  BY <1>1 DEF SessionOver, Failed, InOrder, NotResolvedYet, Work, treeVars, sigVars
<1>3. /\ result' \in RowType /\ result'.branch = result.branch
      /\ result'.resolved <=> status = "resolved"
  <2>1. CASE status = "aborted" /\ Failed
    BY <1>2, <2>1 DEF Failed, RowType
  <2>2. CASE status = "post_mortem" /\ UNCHANGED result
    BY <1>2, <2>2
  <2>3. CASE status = "resolved" /\ result' = [result EXCEPT !.resolved = TRUE]
    BY <1>2, <2>3 DEF RowType
  <2>4. QED
    BY <2>1, <2>2, <2>3 DEF SessionOver
<1>4. DEFINE n == Len(rows) + 1
<1>5. /\ n \in 1..Len(BranchList) /\ result.branch = BranchList[n] /\ n = Len(rows) + 1
      /\ Len(rows) \in Nat
  BY <1>1, <1>2, LenProperties, BranchesListed DEF InOrder, LeftAfter, Work
<1> HIDE DEF n
<1>6. /\ \A i \in 1..Len(BranchList) : i # n => verdict'[BranchList[i]] = verdict[BranchList[i]]
      /\ verdict'[result.branch] = status
      /\ verdict' = [b \in Branches |-> verdict'[b]]
  <2>1. \A i \in 1..Len(BranchList) : i # n => BranchList[i] # result.branch
    BY <1>5, BranchesListed
  <2>2. \A i \in 1..Len(BranchList) : BranchList[i] \in Branches
    BY BranchesListed, BenchmarkAssumption
  <2>3. QED
    BY <1>1, <1>2, <1>5, <2>1, <2>2 DEF InOrder
<1>7. InOrder'
  BY <1>1, <1>2, <1>3, <1>6 DEF InOrder, LeftAfter, Work
<1>8. RowsAreTrue'
  <2>1. \A i \in 1..Len(rows) : i \in 1..Len(BranchList) /\ i # n
    BY <1>5
  <2>2. QED
    BY <1>1, <1>2, <1>6, <2>1 DEF RowsAreTrue
<1>9. NotResolvedYet'
  BY <1>1, <1>2, <1>3, <1>5, <1>6 DEF NotResolvedYet, Work
<1>10. QED
  BY <1>1, <1>2, <1>7, <1>8, <1>9 DEF ReportInv, ReportIsTheRun

\* The loop starts, takes its next branch or is done.
LEMMA LoopStep ==
  ASSUME ReportInv, Clone \/ NextBranch PROVE ReportInv'
<1>1. InOrder /\ RowsAreTrue /\ NotResolvedYet /\ report = None
  BY DEF ReportInv, Clone, NextBranch
<1>2. CASE Clone
  <2>1. /\ pc = "clone" /\ UNCHANGED <<branch, rowVars, sigVars>>
        /\ (pc' = "loop" /\ todo' = BranchList) \/ pc' = "exited"
    BY <1>2 DEF Clone
  <2>2. InOrder'
    BY <1>1, <2>1, BranchesListed DEF InOrder, LeftAfter, Work, rowVars, sigVars
  <2>3. RowsAreTrue' /\ NotResolvedYet'
    BY <1>1, <2>1 DEF RowsAreTrue, NotResolvedYet, InOrder, Work, rowVars, sigVars
  <2>4. QED
    BY <1>1, <2>1, <2>2, <2>3 DEF ReportInv, ReportIsTheRun, rowVars
<1>3. CASE NextBranch
  <2>1. /\ pc = "loop" /\ LeftAfter(Len(rows)) /\ rows \in Seq(RowType)
        /\ UNCHANGED <<branch, rows, report, verdict, sigVars>>
    BY <1>1, <1>3 DEF NextBranch, InOrder, treeVars
  <2>2. CASE todo = <<>>
    <3>1. pc' = "final" /\ UNCHANGED <<result, todo>> /\ Len(rows) = Len(BranchList)
      BY <1>3, <2>1, <2>2, LenProperties DEF NextBranch, LeftAfter
    <3>2. InOrder'
      BY <1>1, <2>1, <3>1, LenProperties DEF InOrder, Work, sigVars
    <3>3. RowsAreTrue' /\ NotResolvedYet'
      BY <1>1, <2>1, <3>1 DEF RowsAreTrue, NotResolvedYet, Work, sigVars
    <3>4. QED
      BY <1>1, <2>1, <3>2, <3>3 DEF ReportInv, ReportIsTheRun
  <2>3. CASE todo # <<>>
    <3>1. pc' = "checkout" /\ result' = Row(Head(todo), FALSE, FALSE, FALSE) /\ todo' = Tail(todo)
      BY <1>3, <2>3 DEF NextBranch, FreshResult
    <3>2. /\ Len(todo) \in Nat \ {0} /\ Len(rows) \in Nat /\ Head(todo) = BranchList[Len(rows) + 1]
          /\ Head(todo) \in Branches
          /\ todo' \in Seq(Scenarios) /\ Len(todo') = Len(todo) - 1
          /\ \A j \in 1..Len(todo') : todo'[j] = todo[j + 1]
      BY <2>1, <2>3, <3>1, HeadTailProperties, LenProperties, BenchmarkAssumption DEF LeftAfter
    <3>3. LeftAfter(Len(rows) + 1)'
      <4>1. ASSUME NEW j \in 1..Len(todo') PROVE todo'[j] = BranchList[Len(rows) + 1 + j]
        <5>1. j + 1 \in 1..Len(todo) /\ Len(rows) + 1 + j = Len(rows) + (j + 1)
          BY <3>2
        <5>2. QED
          BY <2>1, <3>2, <5>1 DEF LeftAfter
      <4>2. Len(todo') + (Len(rows) + 1) = Len(BranchList)
        <5>1. Len(todo) + Len(rows) = Len(BranchList)
          BY <2>1 DEF LeftAfter
        <5>2. Len(todo) \in Nat /\ Len(rows) \in Nat /\ Len(todo') = Len(todo) - 1
          BY <3>2
        <5>3. \A m, n \in Nat : (m - 1) + (n + 1) = m + n
          OBVIOUS
        <5>4. QED
          BY ONLY <5>1, <5>2, <5>3
      <4>3. todo' \in Seq(Scenarios) /\ rows' = rows
        BY <2>1, <3>2
      <4>4. QED
        BY <4>1, <4>2, <4>3 DEF LeftAfter
    <3>4. /\ result' \in RowType /\ result'.branch = BranchList[Len(rows) + 1]
          /\ result'.resolved = FALSE
      BY <3>1, <3>2 DEF Row, RowType
    <3>5. InOrder'
      BY <1>1, <2>1, <3>1, <3>3, <3>4 DEF InOrder, Work, sigVars
    <3>6. Len(rows) + 1 \in 1..Len(BranchList)
      BY <2>1, <3>2 DEF LeftAfter
    <3>7. RowsAreTrue'
      BY <1>1, <2>1, <3>1 DEF RowsAreTrue, Work, sigVars
    <3>8. verdict[result'.branch] # "resolved"
      BY <1>1, <2>1, <3>2, <3>4, <3>6 DEF NotResolvedYet
    <3>9. NotResolvedYet'
      BY <1>1, <2>1, <3>1, <3>4, <3>8 DEF NotResolvedYet, Work
    <3>10. QED
      BY <1>1, <2>1, <3>5, <3>7, <3>9 DEF ReportInv, ReportIsTheRun
  <2>4. QED
    BY <2>2, <2>3
<1>4. QED
  BY <1>2, <1>3

\* The end of the run: the last cleanup and the report.
LEMMA EndStep ==
  ASSUME ReportInv, FinalCleanup \/ WriteReport PROVE ReportInv'
<1>1. InOrder /\ RowsAreTrue /\ NotResolvedYet /\ report = None
  BY DEF ReportInv, FinalCleanup, WriteReport
<1>2. /\ UNCHANGED <<todo, branch, rows, result, verdict, sigVars>>
      /\ pc \in {"final", "report"}
      /\ \/ pc' = "report" /\ UNCHANGED report
         \/ pc' = "exited" /\ report' = rows
  BY DEF FinalCleanup, WriteReport, treeVars, rowVars
<1>3. InOrder'
  BY <1>1, <1>2 DEF InOrder, Work, sigVars
<1>4. RowsAreTrue' /\ NotResolvedYet'
  BY <1>1, <1>2 DEF RowsAreTrue, NotResolvedYet, Work, sigVars
<1>5. ReportIsTheRun'
  BY <1>1, <1>2 DEF InOrder, RowsAreTrue, ReportIsTheRun, sigVars
<1>6. QED
  BY <1>1, <1>2, <1>3, <1>4, <1>5 DEF ReportInv

\* The row of a branch that Ctrl+C stopped.
LEMMA RowOfBreak ==
  ASSUME result \in RowType, BreakLoop
  PROVE  \E row \in RowType :
           row.branch = result.branch /\ ~row.resolved /\ rows' = Append(rows, row)
<1> DEFINE row == Row(result.branch, FALSE, TRUE, FALSE)
<1>1. row \in RowType /\ row.branch = result.branch /\ ~row.resolved
  BY DEF Row, RowType
<1>2. rows' = Append(rows, row)
  BY DEF BreakLoop
<1> HIDE DEF row
<1>3. QED
  BY <1>1, <1>2

LEMMA ReportInductive ==
  /\ Init => ReportInv
  /\ ReportInv /\ [Next]_vars => ReportInv'
<1>1. ASSUME Init PROVE ReportInv
  <2>1. InOrder /\ RowsAreTrue
    BY <1>1 DEF Init, InOrder, RowsAreTrue, Work
  <2>2. \A i \in 1..Len(BranchList) : BranchList[i] \in Branches
    BY BranchesListed, BenchmarkAssumption
  <2>3. NotResolvedYet
    BY <1>1, <2>2, BenchmarkAssumption DEF Init, NotResolvedYet, Work
  <2>4. QED
    BY <1>1, <2>1, <2>3 DEF Init, ReportInv, ReportIsTheRun
<1>2. ASSUME ReportInv, [Next]_vars PROVE ReportInv'
  <2>0. /\ pc \in Work => result \in RowType /\ (result.resolved => pc \notin {"checkout", "probe", "session"})
        /\ pc \in {"probe", "session", "publish", "push"} => branch = result.branch
        /\ sigint \in Nat /\ (pending => sigint > 0)
    BY <1>2 DEF ReportInv, InOrder, NotResolvedYet
  <2>1. ASSUME Failed, result \in RowType
        PROVE  /\ result' \in RowType /\ result'.branch = result.branch
               /\ result'.resolved = result.resolved /\ pc' = "record"
    BY <2>1 DEF Failed, RowType
  <2>2. CASE CheckoutBranch
    BY <1>2, <2>0, <2>1, <2>2, WorkKept DEF CheckoutBranch, Work, sigVars
  <2>3. CASE DetectCrash
    BY <1>2, <2>0, <2>1, <2>3, WorkKept DEF DetectCrash, Work, sigVars
  <2>4. CASE FailAttempt \/ Heal \/ EndUnresolved
    BY <1>2, <2>0, <2>4, WorkKept
    DEF FailAttempt, Heal, EndUnresolved, Work, sigVars, rowVars, treeVars
  <2>5. CASE Publish
    BY <1>2, <2>0, <2>1, <2>5, WorkKept DEF Publish, Work, sigVars
  <2>6. CASE Push
    <3>1. ASSUME NEW opened \in BOOLEAN, result' = [result EXCEPT !.pr = opened], result \in RowType
          PROVE  /\ result' \in RowType /\ result'.branch = result.branch
                 /\ result'.resolved = result.resolved
      BY <3>1 DEF RowType
    <3>2. QED
      BY <1>2, <2>0, <2>1, <2>6, <3>1, WorkKept, BenchmarkAssumption
      DEF Push, Work, sigVars, treeVars
  <2>7. CASE Record
    BY <1>2, <2>0, <2>7, RowWritten DEF Record, Work, sigVars
  <2>8. CASE Cancelled
    <3>1. PICK row \in RowType :
            row.branch = result.branch /\ ~row.resolved /\ rows' = Append(rows, row)
      BY <2>0, <2>8, RowOfBreak DEF Cancelled, BreakLoop, Work
    <3>2. /\ pc = "session" /\ pc' = "final" /\ ~pending' /\ sigint > 0 /\ ~result.resolved
          /\ UNCHANGED <<todo, report, verdict, sigint>>
      BY <2>0, <2>8 DEF Cancelled, BreakLoop, Work
    <3>3. QED
      BY <1>2, <2>0, <3>1, <3>2, RowWritten DEF Work
  <2>9. CASE CtrlCAgain
    <3>1. /\ sigint' = sigint + 1 /\ sigint >= 1 /\ UNCHANGED <<todo, branch, result, report, verdict, pending>>
      BY <2>0, <2>9, BenchmarkAssumption DEF CtrlCAgain, treeVars
    <3>2. CASE pc \in {"checkout", "probe", "session", "publish", "push"} /\ BreakLoop
      <4>1. PICK row \in RowType :
              row.branch = result.branch /\ ~row.resolved /\ rows' = Append(rows, row)
        BY <2>0, <3>2, RowOfBreak DEF Work
      <4>2. pc' = "final" /\ pc \in Work
        BY <3>2 DEF BreakLoop, Work
      <4>3. QED
        BY <1>2, <2>0, <3>1, <4>1, <4>2, RowWritten
    <3>3. CASE pc # "exited" /\ pc' = "exited" /\ UNCHANGED rows
      BY <1>2, <3>1, <3>3
      DEF ReportInv, InOrder, RowsAreTrue, NotResolvedYet, ReportIsTheRun, Work
    <3>4. QED
      BY <2>9, <3>2, <3>3 DEF CtrlCAgain
  <2>10. CASE CtrlC \/ Straggle \/ ContainerComesUp \/ StragglerEnds \/ UNCHANGED vars
    BY <1>2, <2>0, <2>10, ReportKept
    DEF CtrlC, Straggle, ContainerComesUp, StragglerEnds, vars, treeVars, sigVars, rowVars
  <2>11. QED
    BY <1>2, <2>2, <2>3, <2>4, <2>5, <2>6, <2>7, <2>8, <2>9, <2>10, LoopStep, VerdictGiven,
       EndStep
    DEF Next, Exited
<1>3. QED
  BY <1>1, <1>2

\* The report has one true row per branch, in order, all of them unless Ctrl+C
\* stopped the loop; only a publication interrupted by a second one is not told.
THEOREM ReportIsTrue == Spec => []ReportIsTheRun
<1>1. ReportInv => ReportIsTheRun
  BY DEF ReportInv
<1>2. QED
  BY <1>1, ReportInductive, PTL DEF Spec
=============================================================================

---------------------------- MODULE DeliveryProofs ----------------------------
(***************************************************************************)
(* What heal_and_pr delivers, for any artefacts, any budgets and any       *)
(* number of commits, whichever git command or API call fails.             *)
(***************************************************************************)
EXTENDS Delivery, SequenceTheorems, TLAPS

Probing == {"start", "probe_suite", "probe_node", "probe_main"}
Phases  == Probing \cup {"shield", "session", "push", "open_pr", "exited"}

Types ==
  /\ pc \in Phases /\ dirty \subseteq Artefacts /\ probed \subseteq Artefacts
  /\ shielded \subseteq Artefacts /\ commits \in Seq(SUBSET Artefacts)
  /\ healed \in Seq(Errors \cup {None}) /\ attempts \in Nat

\* Until the session nothing is healed, committed or pushed, and what is dirty
\* was written by the probe.
Untouched ==
  pc \in Probing \cup {"shield"} =>
    /\ commits = <<>> /\ status = "healing" /\ healed = <<>> /\ attempts = 0
    /\ probed = dirty

\* While it probes, nothing was found, and main.py is tried automatically only
\* if no test fails alone.
NothingFound ==
  /\ pc \in Probing => trigger = None
  /\ pc = "probe_main" /\ mode = "auto" /\ suite = "red" => node \in {"unlisted", "green"}

\* From the session on the tracked files the probe rewrote are marked.
Shielded == pc = "session" => probed \cap Tracked \subseteq shielded

\* A commit per healed error, and a session that resolved healed one.
HealedIsCommitted ==
  Len(commits) = Len(healed) /\ (status = "resolved" => commits # <<>>)

\* What was resolved is pushed, if a pull request was asked for, and nothing else.
Published ==
  /\ pc \in {"push", "open_pr"} => status = "resolved" /\ open_pr
  /\ pc = "open_pr" => remote = commits
  /\ pc \notin {"open_pr", "exited"} => remote = None
  /\ pc # "exited" => ~pr /\ exit_code = None

DeliveryInv ==
  /\ Types /\ Untouched /\ NothingFound /\ Shielded /\ HealedIsCommitted /\ Published
  /\ ProbeArtefactsStayOut
  /\ ExitZeroKeepsItsWord /\ OnlyResolvedIsPushed

-----------------------------------------------------------------------------

LEMMA DeliveryInit == Init => DeliveryInv
<1> SUFFICES ASSUME Init PROVE DeliveryInv
  OBVIOUS
<1>1. Types
  BY DEF Init, Types, Phases, Probing, Session!Init
<1>2. Untouched /\ NothingFound /\ Shielded /\ HealedIsCommitted /\ Published
  BY DEF Init, Untouched, NothingFound, Shielded, HealedIsCommitted, Published, Session!Init
<1>3. ProbeArtefactsStayOut /\ OnlyResolvedIsPushed
  BY DEF Init, ProbeArtefactsStayOut, OnlyResolvedIsPushed
<1>4. ExitZeroKeepsItsWord
  BY ArtefactAssumption DEF Init, ExitZeroKeepsItsWord
<1>5. QED
  BY <1>1, <1>2, <1>3, <1>4 DEF DeliveryInv

\* The steps before the session: the probe runs and looks, then the shield.
Probe == Start \/ ProbeSuite \/ ProbeNode \/ ProbeMain

LEMMA ProbeStep == ASSUME DeliveryInv, Probe PROVE DeliveryInv'
<1>0. /\ Types /\ Untouched /\ NothingFound /\ Published
      /\ pc \in Probing /\ trigger = None /\ commits = <<>> /\ exit_code = None
      /\ status = "healing" /\ healed = <<>> /\ attempts = 0
      /\ HealedIsCommitted /\ OnlyResolvedIsPushed
  BY DEF DeliveryInv, Probe, Start, ProbeSuite, ProbeNode, ProbeMain, Probing, Untouched,
         NothingFound, Published
<1>1. /\ UNCHANGED <<inputVars, shielded, commits, sessionVars, remoteVars>>
      /\ dirty' \subseteq Artefacts /\ probed' = dirty'
      /\ pc' \in Probing \cup {"shield", "exited"} /\ pc' # "start"
  BY <1>0 DEF Probe, Start, ProbeSuite, ProbeNode, ProbeMain, HostRun, Goto, Exit, Raise,
              Probing, Types, Untouched
<1>2. /\ pc' \in Probing => trigger' = None
      /\ pc' # "exited" => exit_code' = None
      /\ exit_code' = 0 => trigger' = None /\ mode = "auto" /\ main_py \in {"clean", "missing"}
                           /\ (suite = "red" => node \in {"unlisted", "green"})
  BY <1>0, ArtefactAssumption
  DEF Probe, Start, ProbeSuite, ProbeNode, ProbeMain, Goto, Exit, Raise, Probing, NothingFound
<1>3. pc' = "probe_main" /\ mode = "auto" /\ suite = "red" => node \in {"unlisted", "green"}
  BY <1>0 DEF Probe, Start, ProbeSuite, ProbeNode, ProbeMain, Goto, Exit, Raise
<1>4. (Types /\ Untouched /\ NothingFound /\ Shielded)'
  BY <1>0, <1>1, <1>2, <1>3
  DEF Types, Untouched, NothingFound, Shielded, Probing, Phases, sessionVars, inputVars
<1>5. (HealedIsCommitted /\ Published /\ OnlyResolvedIsPushed)'
  BY <1>0, <1>1, <1>2
  DEF HealedIsCommitted, Published, OnlyResolvedIsPushed, sessionVars, remoteVars, inputVars,
      Probing
<1>6. (ProbeArtefactsStayOut /\ ExitZeroKeepsItsWord)'
  BY <1>0, <1>1, <1>2
  DEF ProbeArtefactsStayOut, ExitZeroKeepsItsWord, inputVars, Probing
<1>7. QED
  BY <1>4, <1>5, <1>6 DEF DeliveryInv

LEMMA ShieldStep == ASSUME DeliveryInv, Shield PROVE DeliveryInv'
<1>0. /\ pc = "shield" /\ pc' \in {"session", "exited"} /\ Types /\ commits = <<>>
      /\ probed = dirty /\ HealedIsCommitted /\ OnlyResolvedIsPushed /\ Published
      /\ UNCHANGED <<inputVars, trigger, probed, commits, sessionVars, remoteVars>>
  BY DEF DeliveryInv, Shield, Untouched, RestoreAndMark, Goto, Raise, Exit
<1>1. /\ dirty' \subseteq dirty /\ shielded' \subseteq Artefacts
      /\ pc' = "session" => /\ dirty' \cap Tracked = {} /\ shielded' = dirty \cap Tracked
                            /\ exit_code' = exit_code
      /\ exit_code' # 0
  BY <1>0, ArtefactAssumption
  DEF Shield, RestoreAndMark, Goto, Raise, Exit, Types, Published, Artefacts
<1>2. (Types /\ Untouched /\ NothingFound /\ Shielded)'
  BY <1>0, <1>1 DEF Types, Untouched, NothingFound, Shielded, Phases, Probing, sessionVars
<1>3. (HealedIsCommitted /\ Published /\ OnlyResolvedIsPushed)'
  BY <1>0, <1>1
  DEF HealedIsCommitted, Published, OnlyResolvedIsPushed, sessionVars, remoteVars, inputVars
<1>4. (ProbeArtefactsStayOut /\ ExitZeroKeepsItsWord)'
  BY <1>0, <1>1 DEF ProbeArtefactsStayOut, ExitZeroKeepsItsWord
<1>5. QED
  BY <1>2, <1>3, <1>4 DEF DeliveryInv

-----------------------------------------------------------------------------
(* The session. *)

\* A commit holds nothing that is marked or excluded.
LEMMA SweptIsVisible ==
  ASSUME Shielded, pc = "session", NEW files \in SUBSET Artefacts
  PROVE  Swept(files) \subseteq Artefacts /\ Swept(files) \cap probed \subseteq Stray
BY DEF Swept, Shielded, Artefacts

LEMMA SessionStepInv ==
  ASSUME DeliveryInv, FailAttempt \/ Heal \/ EndUnresolved PROVE DeliveryInv'
<1>0. /\ Types /\ Shielded /\ HealedIsCommitted /\ ProbeArtefactsStayOut
      /\ OnlyResolvedIsPushed /\ Published /\ NothingFound
  BY DEF DeliveryInv
<1>1. /\ pc = "session" /\ status = "healing"
      /\ UNCHANGED <<pc, inputVars, trigger, probed, shielded, remoteVars, exit_code>>
  BY DEF FailAttempt, Heal, EndUnresolved, Session!FailAttempt, Session!Heal, Session!GiveUp,
         Session!Abandon
<1>2. dirty' \subseteq Artefacts /\ attempts' \in Nat
  BY <1>0 DEF FailAttempt, Heal, EndUnresolved, Session!FailAttempt, Session!Heal,
              Session!GiveUp, Session!Abandon, Revert, Swept, Types
<1>3. \/ Heal
      \/ UNCHANGED <<commits, healed>> /\ status' # "resolved"
         /\ (UNCHANGED <<dirty, attempts>> \/ attempts' > 0)
  BY <1>0, <1>1 DEF FailAttempt, EndUnresolved, Session!FailAttempt, Session!GiveUp,
                    Session!Abandon, Types
<1>4. ASSUME Heal
      PROVE  /\ commits' \in Seq(SUBSET Artefacts) /\ healed' \in Seq(Errors \cup {None})
             /\ Len(commits') = Len(commits) + 1 /\ Len(healed') = Len(healed) + 1
             /\ \A i \in 1..Len(commits') : commits'[i] \cap probed \subseteq Stray
  <2>1. PICK c \in SUBSET Artefacts : commits' = Append(commits, c) /\ c \cap probed \subseteq Stray
    <3>1. PICK files \in SUBSET Artefacts : commits' = Append(commits, Swept(dirty \cup files))
      BY <1>4 DEF Heal
    <3>2. QED
      BY <1>0, <1>1, <3>1, SweptIsVisible DEF Types
  <2>2. PICK error \in Errors \cup {None} : healed' = Append(healed, error)
    BY <1>4 DEF Heal, Session!Heal
  <2>3. healed' \in Seq(Errors \cup {None}) /\ Len(healed') = Len(healed) + 1
    BY <1>0, <2>2 DEF Types
  <2>4. commits' \in Seq(SUBSET Artefacts) /\ Len(commits') = Len(commits) + 1
    BY <1>0, <2>1, AppendProperties DEF Types
  <2>5. \A i \in 1..Len(commits') : commits'[i] \cap probed \subseteq Stray
    BY <1>0, <2>1, AppendProperties DEF Types, ProbeArtefactsStayOut
  <2>6. QED
    BY <2>3, <2>4, <2>5
<1>5. Types' /\ HealedIsCommitted' /\ ProbeArtefactsStayOut'
  BY <1>0, <1>1, <1>2, <1>3, <1>4 DEF Types, HealedIsCommitted, ProbeArtefactsStayOut
<1>6. (Untouched /\ NothingFound /\ Shielded /\ Published)'
  BY <1>0, <1>1 DEF Untouched, NothingFound, Shielded, Published, Probing, inputVars, remoteVars
<1>7. (ExitZeroKeepsItsWord /\ OnlyResolvedIsPushed)'
  BY <1>0, <1>1, ArtefactAssumption
  DEF ExitZeroKeepsItsWord, OnlyResolvedIsPushed, Published, inputVars, remoteVars
<1>8. QED
  BY <1>5, <1>6, <1>7 DEF DeliveryInv

\* The steps after the session: the verdict, the push and the pull request.
Deliver == SessionOver \/ Push \/ OpenPullRequest

LEMMA DeliverStep == ASSUME DeliveryInv, Deliver PROVE DeliveryInv'
<1>0. /\ Types /\ HealedIsCommitted /\ ProbeArtefactsStayOut /\ OnlyResolvedIsPushed /\ Published
      /\ pc \in {"session", "push", "open_pr"} /\ pc' \in {"push", "open_pr", "exited"}
      /\ UNCHANGED <<inputVars, trigger, dirty, probed, shielded, commits, sessionVars>>
  BY DEF DeliveryInv, Deliver, SessionOver, Push, OpenPullRequest, OnPostMortem, OnResponse,
         Goto, Exit, Raise
<1>1. (Types /\ Untouched /\ NothingFound /\ Shielded /\ HealedIsCommitted)'
  BY <1>0 DEF Types, Untouched, NothingFound, Shielded, HealedIsCommitted, Phases, Probing,
              sessionVars
<1>2. (ProbeArtefactsStayOut)'
  BY <1>0 DEF ProbeArtefactsStayOut
<1>3. /\ exit_code' = 0 =>
              status = "resolved" /\ (open_pr => pr' /\ remote' = commits /\ pc = "open_pr")
      /\ pc' \in {"push", "open_pr"} => status = "resolved" /\ open_pr /\ ~pr' /\ exit_code' = None
      /\ pc' = "push" => remote' = None
      /\ pc' = "open_pr" => remote' = commits
      /\ remote' # None \/ pr' => status = "resolved" /\ open_pr
  <2>1. CASE SessionOver
    BY <1>0, <2>1, ArtefactAssumption
    DEF SessionOver, OnPostMortem, Goto, Exit, Raise, Published, remoteVars
  <2>2. CASE Push
    BY <1>0, <2>2, ArtefactAssumption DEF Push, Goto, Exit, Raise, Published
  <2>3. CASE OpenPullRequest
    BY <1>0, <2>3, ArtefactAssumption DEF OpenPullRequest, OnResponse, Exit, Raise, Published
  <2>4. QED
    BY <2>1, <2>2, <2>3 DEF Deliver
<1>4. (Published /\ OnlyResolvedIsPushed /\ ExitZeroKeepsItsWord)'
  BY <1>0, <1>3
  DEF Published, OnlyResolvedIsPushed, ExitZeroKeepsItsWord, HealedIsCommitted, inputVars,
      sessionVars
<1>5. QED
  BY <1>1, <1>2, <1>4 DEF DeliveryInv

LEMMA DeliveryInductive ==
  /\ Init => DeliveryInv
  /\ DeliveryInv /\ [Next]_vars => DeliveryInv'
<1>1. ASSUME DeliveryInv, UNCHANGED vars PROVE DeliveryInv'
  BY <1>1
  DEF DeliveryInv, Types, Untouched, NothingFound, Shielded, HealedIsCommitted, Published,
      ProbeArtefactsStayOut, ExitZeroKeepsItsWord, OnlyResolvedIsPushed,
      vars, inputVars, sessionVars, remoteVars
<1>2. QED
  BY <1>1, DeliveryInit, ProbeStep, ShieldStep, SessionStepInv, DeliverStep
  DEF Next, Exited, Probe, Deliver

-----------------------------------------------------------------------------

\* No file the probe rewrote on the host ends in a commit of the heal branch,
\* unless git neither tracks nor excludes it.
THEOREM ProbeIsShielded == Spec => []ProbeArtefactsStayOut
<1>1. DeliveryInv => ProbeArtefactsStayOut
  BY DEF DeliveryInv
<1>2. QED
  BY <1>1, DeliveryInductive, PTL DEF Spec

\* Exit code 0 means that there was nothing to heal, or that it was healed and
\* the pull request asked for is open with all commits of the session.
THEOREM ExitZeroIsEarned == Spec => []ExitZeroKeepsItsWord
<1>1. DeliveryInv => ExitZeroKeepsItsWord
  BY DEF DeliveryInv
<1>2. QED
  BY <1>1, DeliveryInductive, PTL DEF Spec

\* Nothing leaves the machine unless the session resolved what it was given.
THEOREM PushIsEarned == Spec => []OnlyResolvedIsPushed
<1>1. DeliveryInv => OnlyResolvedIsPushed
  BY DEF DeliveryInv
<1>2. QED
  BY <1>1, DeliveryInductive, PTL DEF Spec
=============================================================================

------------------------ MODULE ErrorSignatureProofs ------------------------
(***************************************************************************)
(* What the fingerprints tell apart, for stacks of any depth and any       *)
(* exceptions, directories, files and functions.                           *)
(***************************************************************************)
EXTENDS ErrorSignature, SequenceTheorems, WellFoundedInduction, TLAPS

Environments == {"host", "sandbox"}

\* Where a crash is located in each environment: in the sandbox nothing is in
\* the workspace.
CrashPlace(b, environment) ==
  LET last == b.stack[Len(b.stack)]
  IN  IF environment = "host" THEN Where(b)
      ELSE FrameLabel(<<PathOf(last.file, environment).name>>, last.func)

\* Where a failing test is located; an import error at the import machinery.
TestPlace(b) ==
  IF b.fails = "collection" THEN FrameLabel(<<None>>, "import_module") ELSE Where(b)

\* What was printed last is output of the program, and its fingerprint is known.
Printed ==
  /\ bug \in Bugs /\ env \in Environments /\ text \in Outputs(bug, env)
  /\ sig = ParseError(text, bug.kind)

-----------------------------------------------------------------------------
(* Positions in a text. *)

\* Every set of positions has a last one.
LEMMA LastPosition ==
  ASSUME NEW n \in Nat, NEW S \in SUBSET (1..n), S # {}
  PROVE  Max(S) \in S /\ \A i \in S : i <= Max(S)
<1> DEFINE T == {n - i : i \in S}
<1>1. T \subseteq Nat /\ T # {}
  <2>1. \A i \in S : n - i \in Nat
    OBVIOUS
  <2>2. T \subseteq Nat
    BY <2>1
  <2>3. PICK i \in S : TRUE
    OBVIOUS
  <2>4. n - i \in T
    OBVIOUS
  <2>5. QED
    BY <2>2, <2>4
<1>2. PICK k \in T : \A m \in T : ~ (<<m, k>> \in OpToRel(<, Nat))
  <2> HIDE DEF T
  <2>1. QED
    BY <1>1, NatLessThanWellFounded, WFMin
<1>3. PICK i \in S : k = n - i
  BY <1>2
<1>4. \A j \in S : j <= i
  <2> SUFFICES ASSUME NEW j \in S PROVE j <= i
    OBVIOUS
  <2>1. n - j \in T /\ n - j \in Nat /\ k \in Nat
    BY <1>1, <1>2
  <2>2. ~ (<<n - j, k>> \in OpToRel(<, Nat))
    BY <1>2, <2>1
  <2>3. ~ (n - j < k)
    BY <2>1, <2>2 DEF OpToRel
  <2>4. QED
    BY <1>3, <2>3
<1>5. \E x \in S : \A y \in S : x >= y
  BY <1>3, <1>4
<1>6. Max(S) \in S /\ \A y \in S : Max(S) >= y
  BY <1>5 DEF Max
<1>7. QED
  BY <1>6

\* The positions of a set with one element.
LEMMA OnlyPosition ==
  ASSUME NEW i \in Int PROVE Max({i}) = i /\ Min({i}) = i
BY DEF Max, Min

\* Only on the host is code of the repository inside the workspace.
LEMMA PathsInside ==
  ASSUME NEW file, NEW environment \in Environments
  PROVE  /\ Inside(PathOf(file, environment)) <=> environment = "host" /\ file # None
         /\ environment = "host" /\ file # None =>
              ToRel(PathOf(file, environment)) = RelPath(file)
<1> DEFINE path == PathOf(file, environment)
<1>1. CASE file = None
  <2>1. path.root = "lib"
    BY <1>1 DEF PathOf
  <2>2. QED
    BY <1>1, <2>1 DEF Inside, workspace_root
<1>2. CASE file # None
  <2>1. /\ path.root = Root(environment)
        /\ path.dir = file.dir /\ path.name = file.name
    BY <1>2 DEF PathOf
  <2>2. Inside(path) <=> environment = "host"
    BY <2>1 DEF Inside, Root, workspace_root, Environments
  <2>3. RelPath(path) = RelPath(file)
    BY <2>1 DEF RelPath
  <2>4. QED
    BY <1>2, <2>2, <2>3 DEF ToRel
<1>3. QED
  BY <1>1, <1>2

-----------------------------------------------------------------------------
(* Crashes. *)

LEMMA StackType ==
  ASSUME NEW b \in Crashes
  PROVE  /\ Len(b.stack) \in Nat \ {0} /\ b.stack \in [1..Len(b.stack) -> Call]
         /\ b.stack[1].file # None /\ b.exc \in Exceptions /\ b.kind = "crash"
<1>1. PICK n \in 1..MaxDepth : b.stack \in Stacks(n)
  BY DEF Crashes
<1>2. b.stack \in [1..n -> Call] /\ b.stack[1].file # None
  BY <1>1 DEF Stacks
<1>3. n \in Nat \ {0}
  BY SyntaxAssumption
<1>4. Len(b.stack) = n
  BY <1>2, <1>3
<1>5. QED
  BY <1>2, <1>3, <1>4 DEF Crashes

\* The traceback: the frames of the stack, the exception, perhaps a word.
LEMMA CrashLines ==
  ASSUME NEW b \in Crashes, NEW environment \in Environments,
         NEW lines \in CrashTexts(b, environment)
  PROVE  LET n == Len(b.stack) IN
         /\ Len(lines) \in {n + 1, n + 2}
         /\ \A i \in 1..n : /\ lines[i].t = "frame" /\ lines[i].func = b.stack[i].func
                            /\ lines[i].path = PathOf(b.stack[i].file, environment)
         /\ lines[n + 1].t = "exc" /\ lines[n + 1].exc = b.exc
         /\ Len(lines) = n + 2 =>
              \/ lines[n + 2].t = "word"
              \/ lines[n + 2].t = "dotted" /\ lines[n + 2].exc = "Done."
<1> DEFINE n == Len(b.stack)
           last == [t |-> "exc", exc |-> b.exc]
<1>1. PICK number \in {1, 2}, chatter \in Chatter :
        lines = CrashText(b, environment, number, chatter)
  BY DEF CrashTexts
<1> DEFINE frames == [i \in 1..n |-> Frame(b.stack[i], environment, number)]
           word == [t |-> "word", exc |-> "ready"]
           dotted == [t |-> "dotted", exc |-> "Done."]
           S == {frames[i] : i \in 1..n} \cup {last, word, dotted}
<1>2. n \in Nat \ {0}
  BY StackType
<1>3. frames \in Seq(S) /\ Len(frames) = n
  <2>1. frames \in [1..n -> S]
    OBVIOUS
  <2> HIDE DEF S, frames, n
  <2>2. QED
    BY <1>2, <2>1
<1>4. /\ chatter \in Seq(S) /\ Len(chatter) \in {0, 1}
      /\ Len(chatter) = 1 => chatter[1] \in {word, dotted}
  <2>1. word \in S /\ dotted \in S
    OBVIOUS
  <2>2. chatter \in {<<>>, <<word>>, <<dotted>>}
    BY DEF Chatter
  <2> HIDE DEF word, dotted, S
  <2>4. CASE chatter = <<>>
    BY <2>4
  <2>5. CASE chatter = <<word>>
    BY <2>1, <2>5
  <2>6. CASE chatter = <<dotted>>
    BY <2>1, <2>6
  <2>7. QED
    BY <2>2, <2>4, <2>5, <2>6
<1>5. <<last>> \in Seq(S) /\ Len(<<last>>) = 1 /\ <<last>>[1] = last
  <2>1. last \in S
    OBVIOUS
  <2> HIDE DEF last, S
  <2>2. QED
    BY <2>1
<1>6. \A i \in 1..n : /\ frames[i].t = "frame" /\ frames[i].func = b.stack[i].func
                      /\ frames[i].path = PathOf(b.stack[i].file, environment)
  BY DEF Frame
<1> DEFINE traceback == frames \o <<last>>
<1> HIDE DEF frames, S, last, n, word, dotted
<1>7. /\ traceback \in Seq(S) /\ Len(traceback) = n + 1
      /\ \A i \in 1..n : traceback[i] = frames[i]
      /\ traceback[n + 1] = last
  BY <1>2, <1>3, <1>5, ConcatProperties
<1>8. lines = traceback \o chatter
  BY <1>1 DEF CrashText, frames, last, n
<1> HIDE DEF traceback
<1>9. /\ Len(lines) = n + 1 + Len(chatter)
      /\ \A i \in 1..(n + 1) : lines[i] = traceback[i]
      /\ \A i \in (n + 2)..Len(lines) : lines[i] = chatter[i - (n + 1)]
  <2>1. /\ Len(lines) = Len(traceback) + Len(chatter)
        /\ \A i \in 1..Len(lines) :
             lines[i] = IF i <= Len(traceback) THEN traceback[i] ELSE chatter[i - Len(traceback)]
    <3>1. /\ traceback \in Seq(S) /\ chatter \in Seq(S)
      BY <1>4, <1>7
    <3>2. QED
      BY <1>8, <3>1, ConcatProperties
  <2>2. QED
    BY <1>2, <1>4, <1>7, <2>1
<1>10. Len(lines) \in {n + 1, n + 2}
  BY <1>2, <1>4, <1>9
<1>11. ASSUME NEW i \in 1..n
       PROVE  /\ lines[i].t = "frame" /\ lines[i].func = b.stack[i].func
              /\ lines[i].path = PathOf(b.stack[i].file, environment)
  <2>1. lines[i] = frames[i]
    BY <1>2, <1>7, <1>9
  <2>2. QED
    BY <1>6, <2>1
<1>12. lines[n + 1] = last
  BY <1>2, <1>7, <1>9
<1>13. Len(lines) = n + 2 => lines[n + 2] \in {word, dotted}
  BY <1>2, <1>4, <1>9
<1>14. lines[n + 1].t = "exc" /\ lines[n + 1].exc = b.exc
  BY <1>12 DEF last
<1>15. Len(lines) = n + 2 =>
         \/ lines[n + 2].t = "word"
         \/ lines[n + 2].t = "dotted" /\ lines[n + 2].exc = "Done."
  BY <1>13 DEF word, dotted
<1>16. QED
  BY <1>10, <1>11, <1>14, <1>15 DEF n

\* The exception of the traceback, unless a dotted word follows.
LEMMA CrashException ==
  ASSUME NEW b \in Crashes, NEW environment \in Environments,
         NEW lines \in CrashTexts(b, environment)
  PROVE  /\ ParseExceptionLine(lines) \in Exceptions \cup {"Done."}
         /\ ~Misleading(lines) => ParseExceptionLine(lines) = b.exc
<1> DEFINE n == Len(b.stack)
           found == {i \in 1..Len(lines) : LooksLikeException(lines[i])}
<1>1. n \in Nat \ {0} /\ b.exc \in Exceptions
  BY StackType
<1>2. /\ Len(lines) \in {n + 1, n + 2}
      /\ \A i \in 1..n : lines[i].t = "frame"
      /\ lines[n + 1].t = "exc" /\ lines[n + 1].exc = b.exc
      /\ Len(lines) = n + 2 =>
           \/ lines[n + 2].t = "word"
           \/ lines[n + 2].t = "dotted" /\ lines[n + 2].exc = "Done."
  BY CrashLines
<1> HIDE DEF n
<1>3. n + 1 \in found /\ found \subseteq {n + 1, n + 2}
  BY <1>1, <1>2 DEF LooksLikeException
<1>4. n + 2 \in found => Len(lines) = n + 2 /\ lines[n + 2].t = "dotted"
  BY <1>1, <1>2 DEF LooksLikeException
<1>5. ParseExceptionLine(lines) = lines[Max(found)].exc
  BY <1>3 DEF ParseExceptionLine
<1>6. Max(found) \in found
  <2>1. found \in SUBSET (1..Len(lines)) /\ Len(lines) \in Nat
    BY <1>1, <1>2
  <2>2. QED
    BY <1>3, <2>1, LastPosition
<1>7. ParseExceptionLine(lines) \in Exceptions \cup {"Done."}
  BY <1>1, <1>2, <1>3, <1>4, <1>5, <1>6
<1>8. ASSUME ~Misleading(lines) PROVE Max(found) = n + 1
  <2>1. lines # <<>> => lines[Len(lines)].t # "dotted"
    BY <1>8 DEF Misleading
  <2>2. lines # <<>>
    BY <1>1, <1>2
  <2>3. n + 2 \notin found
    BY <1>4, <2>1, <2>2
  <2>4. QED
    BY <1>3, <1>6, <2>3
<1>9. QED
  BY <1>2, <1>5, <1>7, <1>8

\* The frame of the innermost call in the workspace.
LEMMA CrashLocation ==
  ASSUME NEW b \in Crashes, NEW environment \in Environments,
         NEW lines \in CrashTexts(b, environment)
  PROVE  InnermostWorkspaceFrame(lines) = CrashPlace(b, environment)
<1> DEFINE n == Len(b.stack)
           frames == At(lines, "frame")
           in_ws  == {i \in frames : Inside(lines[i].path)}
           ours   == {i \in 1..n : b.stack[i].file # None}
<1>1. n \in Nat \ {0} /\ b.stack[1].file # None /\ b.stack \in [1..n -> Call]
  BY StackType
<1>2. /\ Len(lines) \in {n + 1, n + 2}
      /\ \A i \in 1..n : /\ lines[i].t = "frame" /\ lines[i].func = b.stack[i].func
                         /\ lines[i].path = PathOf(b.stack[i].file, environment)
      /\ lines[n + 1].t = "exc"
      /\ Len(lines) = n + 2 => lines[n + 2].t = "word" \/ lines[n + 2].t = "dotted"
  BY CrashLines
<1> HIDE DEF n
<1>3. frames = 1..n
  BY <1>1, <1>2 DEF At
<1>4. Max(1..n) = n
  <2>1. 1..n \in SUBSET (1..n) /\ n \in 1..n
    BY <1>1
  <2>2. Max(1..n) \in 1..n /\ n <= Max(1..n)
    BY <1>1, <2>1, LastPosition
  <2>3. QED
    BY <1>1, <2>2
<1>5. CASE environment = "host"
  <2>1. \A i \in 1..n : Inside(lines[i].path) <=> b.stack[i].file # None
    BY <1>2, <1>5, PathsInside
  <2>2. in_ws = ours /\ 1 \in ours
    BY <1>1, <1>3, <2>1
  <2>3. Max(ours) \in ours
    BY <1>1, <2>2, LastPosition
  <2> DEFINE m == Max(ours)
  <2> HIDE DEF m, ours
  <2>4. InnermostWorkspaceFrame(lines) = FrameLabel(ToRel(lines[m].path), lines[m].func)
    BY <1>1, <1>3, <2>2 DEF InnermostWorkspaceFrame, m
  <2>5. m \in 1..n /\ b.stack[m].file # None
    BY <2>3 DEF m, ours
  <2>6. ToRel(lines[m].path) = RelPath(b.stack[m].file)
    BY <1>2, <1>5, <2>5, PathsInside
  <2>7. InnermostCall(b) = b.stack[m]
    BY DEF InnermostCall, m, ours, n
  <2>8. b.kind = "crash"
    BY StackType
  <2>9. Where(b) = FrameLabel(RelPath(b.stack[m].file), b.stack[m].func)
    BY <2>7, <2>8 DEF Where
  <2>10. QED
    BY <1>2, <1>5, <2>4, <2>5, <2>6, <2>9 DEF CrashPlace
<1>6. CASE environment = "sandbox"
  <2>1. \A i \in 1..n : ~Inside(lines[i].path)
    BY <1>2, <1>6, PathsInside
  <2>2. in_ws = {}
    BY <1>3, <2>1
  <2>3. InnermostWorkspaceFrame(lines) = FrameLabel(<<lines[n].path.name>>, lines[n].func)
    BY <1>1, <1>3, <1>4, <2>2 DEF InnermostWorkspaceFrame
  <2>4. n \in 1..n
    BY <1>1
  <2>5. QED
    BY <1>2, <1>6, <2>3, <2>4 DEF CrashPlace, n
<1>7. QED
  BY <1>5, <1>6 DEF Environments

LEMMA CrashIsLabelled ==
  ASSUME NEW b \in Crashes, NEW environment \in Environments
  PROVE  CrashPlace(b, environment) \in Labels
<1> DEFINE n == Len(b.stack)
           ours == {i \in 1..n : b.stack[i].file # None}
<1>1. n \in Nat \ {0} /\ b.stack[1].file # None /\ b.stack \in [1..n -> Call]
  BY StackType
<1> HIDE DEF n
<1>2. Max(ours) \in ours
  <2>1. 1 \in ours /\ ours \in SUBSET (1..n)
    BY <1>1
  <2> HIDE DEF ours
  <2>2. QED
    BY <1>1, <2>1, LastPosition
<1>3. InnermostCall(b) = b.stack[Max(ours)]
  BY DEF InnermostCall, n
<1>4. InnermostCall(b) \in Call /\ InnermostCall(b).file # None
  BY <1>1, <1>2, <1>3
<1>5. InnermostCall(b).file \in File /\ InnermostCall(b).func \in Funcs \cup {None}
  BY <1>4 DEF Call
<1>6. RelPath(InnermostCall(b).file) \in Seq(Parts)
  <2>1. InnermostCall(b).file.dir \in Parts /\ InnermostCall(b).file.name \in Parts
    BY <1>5 DEF File, Parts
  <2>2. QED
    BY <2>1 DEF RelPath
<1>7. Where(b) \in Labels
  <2>1. InnermostCall(b).func \in Parts
    BY <1>5 DEF Parts
  <2>2. b.kind = "crash"
    BY StackType
  <2>3. QED
    BY <1>6, <2>1, <2>2 DEF Where, FrameLabel, Labels
<1>8. FrameLabel(<<PathOf(b.stack[n].file, environment).name>>, b.stack[n].func) \in Labels
  <2>1. b.stack[n] \in Call
    BY <1>1
  <2>2. b.stack[n].file \in File \cup {None} /\ b.stack[n].func \in Parts
    BY <2>1 DEF Call, Parts
  <2>3. PathOf(b.stack[n].file, environment).name \in Parts
    BY <2>2 DEF PathOf, File, Parts
  <2>4. QED
    BY <2>2, <2>3 DEF FrameLabel, Labels
<1>9. QED
  BY <1>7, <1>8 DEF CrashPlace, n

\* A crash is known by its exception and its place, and always has a fingerprint.
LEMMA CrashSignature ==
  ASSUME NEW b \in Crashes, NEW environment \in Environments,
         NEW lines \in CrashTexts(b, environment)
  PROVE  /\ FromCrashText(lines) # None
         /\ ~Misleading(lines) =>
              FromCrashText(lines) = Signature("crash", b.exc, CrashPlace(b, environment))
<1> DEFINE exc == ParseExceptionLine(lines)
           place == CrashPlace(b, environment)
<1>1. exc \in ExcTypes /\ (~Misleading(lines) => exc = b.exc)
  BY CrashException DEF ExcTypes
<1>2. InnermostWorkspaceFrame(lines) = place /\ place \in Labels
  BY CrashLocation, CrashIsLabelled
<1>3. place # None
  BY <1>2, SentinelAssumption
<1> HIDE DEF exc, place
<1>4. FromCrashText(lines) = Signature("crash", exc, place)
  BY <1>2, <1>3 DEF FromCrashText, exc
<1>5. Signature("crash", exc, place) # None
  BY <1>1, <1>2, SentinelAssumption DEF Signature
<1>6. QED
  BY <1>1, <1>4, <1>5 DEF exc, place

-----------------------------------------------------------------------------
(* Failing tests. *)

LEMMA NodeIsLabelled ==
  ASSUME NEW b \in TestFailures PROVE <<<<b.file, "test">>>> \in Labels
<1>1. b.file \in File
  BY DEF TestFailures
<1>2. <<b.file, "test">> \in Parts
  BY <1>1 DEF Parts
<1>3. QED
  BY <1>2 DEF Labels

LEMMA TestIsLabelled ==
  ASSUME NEW b \in TestFailures PROVE TestPlace(b) \in Labels
<1>1. FrameLabel(<<None>>, "import_module") \in Labels
  <2>1. None \in Parts /\ "import_module" \in Parts
    BY DEF Parts
  <2>2. QED
    BY <2>1 DEF FrameLabel, Labels
<1>2. Where(b) = <<<<b.file, "test">>>>
  BY DEF Where, TestFailures
<1>3. QED
  BY <1>1, <1>2, NodeIsLabelled DEF TestPlace

\* The last E line decides the exception, the first summary line the place.
LEMMA RaisingTest ==
  ASSUME NEW b \in TestFailures, b.fails = "raises", NEW environment \in Environments,
         NEW lines \in TestTexts(b, environment)
  PROVE  FromPytestOutput(lines) = Signature("test", <<b.exc>>, TestPlace(b))
<1>1. PICK cut \in BOOLEAN :
        lines = << [t |-> "pyframe", func |-> "test",
                    path |-> [root |-> "relative", dir |-> b.file.dir, name |-> b.file.name]],
                   [t |-> "E", exc |-> <<b.exc>>],
                   [t |-> "summary", node |-> <<b.file, "test">>, exc |-> Shown(b.exc, cut)],
                   [t |-> "failed"] >>
  BY DEF TestTexts
<1>2. /\ Len(lines) = 4 /\ lines[1].t = "pyframe" /\ lines[4].t = "failed"
      /\ lines[2].t = "E" /\ lines[2].exc = <<b.exc>>
      /\ lines[3].t = "summary" /\ lines[3].node = <<b.file, "test">>
  BY <1>1
<1>3. At(lines, "summary") = {3} /\ At(lines, "E") = {2} /\ At(lines, "failed") = {4}
  BY <1>2 DEF At
<1>4. PreferErrorLine(lines, lines[Min({3})].exc) = <<b.exc>>
  BY <1>2, <1>3, OnlyPosition DEF PreferErrorLine
<1>5. PytestLocation(lines) = <<<<b.file, "test">>>>
  <2> DEFINE node == <<b.file, "test">>
  <2>1. Min({3}) = 3 /\ lines[3].node = node
    BY <1>2, OnlyPosition
  <2> HIDE DEF node
  <2>2. PytestLocation(lines) = <<node>>
    BY <1>3, <2>1 DEF PytestLocation
  <2>3. QED
    BY <2>2 DEF node
<1>6. TestPlace(b) = <<<<b.file, "test">>>>
  BY DEF TestPlace, Where, TestFailures
<1>7. <<<<b.file, "test">>>> # None
  BY NodeIsLabelled, SentinelAssumption
<1>8. QED
  BY <1>3, <1>4, <1>5, <1>6, <1>7 DEF FromPytestOutput

\* The import machinery comes first.
LEMMA UnimportableTest ==
  ASSUME NEW b \in TestFailures, b.fails = "collection", NEW environment \in Environments,
         NEW lines \in TestTexts(b, environment)
  PROVE  FromPytestOutput(lines) = Signature("test", <<b.exc>>, TestPlace(b))
<1>1. lines = << [t |-> "pyframe", func |-> "import_module", path |-> PathOf(None, environment)],
                 [t |-> "pyframe", func |-> "<module>",
                  path |-> [root |-> "relative", dir |-> b.file.dir, name |-> b.file.name]],
                 [t |-> "E", exc |-> <<b.exc>>],
                 [t |-> "failed"] >>
  BY DEF TestTexts
<1>2. /\ Len(lines) = 4 /\ lines[1].t = "pyframe" /\ lines[1].func = "import_module"
      /\ lines[1].path = PathOf(None, environment) /\ lines[2].t = "pyframe"
      /\ lines[3].t = "E" /\ lines[3].exc = <<b.exc>> /\ lines[4].t = "failed"
  BY <1>1
<1>3. /\ At(lines, "summary") = {} /\ At(lines, "nodeid") = {} /\ At(lines, "E") = {3}
      /\ At(lines, "failed") = {4} /\ At(lines, "pyframe") = {1, 2}
  BY <1>2 DEF At
<1>4. PreferErrorLine(lines, None) = <<b.exc>>
  BY <1>2, <1>3, OnlyPosition DEF PreferErrorLine
<1>5. Min({1, 2}) = 1
  BY DEF Min
<1>6. ToRel(PathOf(None, environment)) = <<None>>
  <2>1. ~Inside(PathOf(None, environment))
    BY PathsInside
  <2>2. QED
    BY <2>1 DEF ToRel, PathOf
<1> DEFINE place == FrameLabel(<<None>>, "import_module")
<1>7. PytestLocation(lines) = place
  BY <1>2, <1>3, <1>5, <1>6 DEF PytestLocation
<1>8. TestPlace(b) = place /\ place # None
  BY TestIsLabelled, SentinelAssumption DEF TestPlace
<1>9. QED
  BY <1>3, <1>4, <1>7, <1>8 DEF FromPytestOutput

\* A bare assert has the exception of its summary line, cut or not.
LEMMA AssertingTest ==
  ASSUME NEW b \in TestFailures, b.fails = "bare_assert", NEW environment \in Environments,
         NEW lines \in TestTexts(b, environment)
  PROVE  FromPytestOutput(lines) # None
<1>1. PICK cut \in BOOLEAN :
        lines = << [t |-> "pyframe", func |-> "test",
                    path |-> [root |-> "relative", dir |-> b.file.dir, name |-> b.file.name]],
                   [t |-> "summary", node |-> <<b.file, "test">>, exc |-> Shown("assert", cut)],
                   [t |-> "failed"] >>
  BY DEF TestTexts
<1> DEFINE exc == Shown("assert", cut)
           node == <<b.file, "test">>
<1>2. /\ Len(lines) = 3 /\ lines[1].t = "pyframe" /\ lines[3].t = "failed"
      /\ lines[2].t = "summary" /\ lines[2].node = node /\ lines[2].exc = exc
  BY <1>1
<1>3. exc \in ExcTypes /\ <<node>> \in Labels
  <2>1. exc \in Seq(Exceptions \cup {"assert", "..."})
    <3> DEFINE S == Exceptions \cup {"assert", "..."}
    <3>1. "assert" \in S /\ "..." \in S
      OBVIOUS
    <3> HIDE DEF S
    <3>2. <<"assert">> \in Seq(S) /\ <<"assert", "...">> \in Seq(S)
      BY <3>1
    <3>3. QED
      BY <3>2 DEF Shown, S
  <2>2. QED
    BY <2>1, NodeIsLabelled DEF ExcTypes
<1> HIDE DEF exc, node
<1>4. At(lines, "summary") = {2} /\ At(lines, "E") = {} /\ At(lines, "failed") = {3}
  BY <1>2 DEF At
<1>5. Min({2}) = 2
  BY OnlyPosition
<1>6. PreferErrorLine(lines, exc) = exc
  BY <1>4 DEF PreferErrorLine
<1>7. PytestLocation(lines) = <<node>>
  BY <1>2, <1>4, <1>5 DEF PytestLocation
<1>8. FromPytestOutput(lines) = Signature("test", exc, <<node>>)
  BY <1>2, <1>3, <1>4, <1>5, <1>6, <1>7, SentinelAssumption DEF FromPytestOutput
<1>9. QED
  BY <1>3, <1>8, SentinelAssumption DEF Signature

-----------------------------------------------------------------------------
(* Every output. *)

LEMMA SortsOfBugs ==
  ASSUME NEW b \in Bugs
  PROVE  \/ b \in Crashes /\ b.kind = "crash" /\ IsFailure(b)
         \/ b \in TestFailures /\ b.kind = "test" /\ IsFailure(b)
         \/ /\ ~IsFailure(b) /\ b.kind \in {"crash", "test"}
            /\ b.other \in {"infrastructure", "green"} /\ (b.other = "green" => b.kind = "test")
<1>1. CASE b \in Crashes
  BY <1>1 DEF Crashes, IsFailure
<1>2. CASE b \in TestFailures
  BY <1>2 DEF TestFailures, IsFailure
<1>3. CASE b \in [kind : {"crash", "test"}, other : {"infrastructure"}]
  BY <1>3 DEF IsFailure
<1>4. CASE b \in [kind : {"test"}, other : {"green"}]
  BY <1>4 DEF IsFailure
<1>5. QED
  BY <1>1, <1>2, <1>3, <1>4 DEF Bugs

\* Text with a word of the sandbox, a green run or nothing is no failure.
LEMMA NoFailure ==
  ASSUME NEW kind \in {"crash", "test"}, NEW lines,
         \/ lines = <<>>
         \/ lines = <<[t |-> "word", exc |-> "ready"]>>
         \/ lines = <<[t |-> "passed"]>> /\ kind = "test"
  PROVE  ParseError(lines, kind) = None
<1>1. \/ Len(lines) = 0
      \/ Len(lines) = 1 /\ lines[1].t = "word"
      \/ Len(lines) = 1 /\ lines[1].t = "passed" /\ kind = "test"
  OBVIOUS
<1>2. /\ At(lines, "frame") = {} /\ At(lines, "summary") = {} /\ At(lines, "E") = {}
      /\ At(lines, "nodeid") = {} /\ At(lines, "pyframe") = {}
  BY <1>1 DEF At
<1>3. {i \in 1..Len(lines) : LooksLikeException(lines[i])} = {}
  BY <1>1 DEF LooksLikeException
<1>4. FromCrashText(lines) = None
  BY <1>2, <1>3 DEF FromCrashText, ParseExceptionLine, InnermostWorkspaceFrame
<1>5. FromPytestOutput(lines) = None
  BY <1>2 DEF FromPytestOutput, PreferErrorLine, PytestLocation
<1>6. QED
  BY <1>4, <1>5 DEF ParseError

\* What the parsers make of everything a program prints.
LEMMA Parsed ==
  ASSUME NEW b \in Bugs, NEW environment \in Environments,
         NEW lines \in Outputs(b, environment)
  PROVE  LET s == ParseError(lines, b.kind) IN
         /\ s # None <=> IsFailure(b)
         /\ b.kind = "crash" /\ IsFailure(b) /\ ~Misleading(lines) =>
              s = Signature("crash", b.exc, CrashPlace(b, environment))
         /\ b.kind = "test" /\ IsFailure(b) /\ b.fails # "bare_assert" =>
              s = Signature("test", <<b.exc>>, TestPlace(b))
<1>1. CASE b \in Crashes /\ b.kind = "crash" /\ IsFailure(b)
  <2>1. lines \in CrashTexts(b, environment)
    BY <1>1 DEF Outputs, IsFailure
  <2>2. QED
    BY <1>1, <2>1, CrashSignature DEF ParseError
<1>2. CASE b \in TestFailures /\ b.kind = "test" /\ IsFailure(b)
  <2>1. lines \in TestTexts(b, environment)
    BY <1>2 DEF Outputs, IsFailure
  <2>2. ParseError(lines, b.kind) = FromPytestOutput(lines)
    BY <1>2 DEF ParseError
  <2>3. b.fails \in {"raises", "bare_assert", "collection"}
    BY <1>2 DEF TestFailures
  <2>4. CASE b.fails # "bare_assert"
    <3>1. FromPytestOutput(lines) = Signature("test", <<b.exc>>, TestPlace(b))
      BY <1>2, <2>1, <2>3, <2>4, RaisingTest, UnimportableTest
    <3>2. <<b.exc>> \in ExcTypes
      BY <1>2 DEF TestFailures, ExcTypes
    <3>3. TestPlace(b) \in Labels
      BY <1>2, TestIsLabelled
    <3>4. Signature("test", <<b.exc>>, TestPlace(b)) # None
      BY <3>2, <3>3, SentinelAssumption DEF Signature
    <3>5. QED
      BY <1>2, <2>2, <3>1, <3>4
  <2>5. CASE b.fails = "bare_assert"
    BY <1>2, <2>1, <2>2, <2>5, AssertingTest
  <2>6. QED
    BY <2>4, <2>5
<1>3. CASE /\ ~IsFailure(b) /\ b.kind \in {"crash", "test"}
           /\ b.other \in {"infrastructure", "green"} /\ (b.other = "green" => b.kind = "test")
  <2>1. \/ lines = <<>>
        \/ lines = <<[t |-> "word", exc |-> "ready"]>>
        \/ lines = <<[t |-> "passed"]>> /\ b.kind = "test"
    BY <1>3 DEF Outputs, IsFailure
  <2>2. ParseError(lines, b.kind) = None
    BY <1>3, <2>1, NoFailure
  <2>3. QED
    BY <1>3, <2>2
<1>4. QED
  BY <1>1, <1>2, <1>3, SortsOfBugs

-----------------------------------------------------------------------------
(* The program's runs. *)

LEMMA RunPrints ==
  ASSUME NEW b \in Bugs, NEW environment \in Environments, Run(b, environment)
  PROVE  Printed' /\ bug' = b /\ env' = environment
BY DEF Run, Printed

LEMMA PrintedInductive ==
  /\ Init => Printed
  /\ Printed /\ [Next]_vars => Printed'
<1>1. Init => Printed
  BY DEF Init, Printed, Environments
<1>2. ASSUME Printed, RunAgain PROVE Printed'
  BY <1>2, RunPrints DEF RunAgain, Printed, Environments
<1>3. ASSUME Printed, RunEdited PROVE Printed'
  BY <1>3, RunPrints DEF RunEdited, Printed
<1>4. ASSUME Printed, UNCHANGED vars PROVE Printed'
  BY <1>4 DEF Printed, vars
<1>5. QED
  BY <1>1, <1>2, <1>3, <1>4 DEF Next

\* Detected on the host, a crash is identified by its exception and by the
\* innermost call in the repository, however deep the stack.
THEOREM CrashesAreIdentified == Spec => []CrashIsIdentified
<1>1. Printed => CrashIsIdentified
  <2> SUFFICES ASSUME Printed, bug.kind = "crash", IsFailure(bug), env = "host",
                      ~Misleading(text)
               PROVE  sig = Signature("crash", bug.exc, Where(bug))
    BY DEF CrashIsIdentified
  <2>1. CrashPlace(bug, env) = Where(bug)
    BY DEF CrashPlace
  <2>2. QED
    BY <2>1, Parsed DEF Printed
<1>2. QED
  BY <1>1, PrintedInductive, PTL DEF Spec

\* Every real failure has a fingerprint, and nothing else has.
THEOREM FailuresAreFingerprinted == Spec => []OnlyFailuresAreFingerprinted
<1>1. Printed => OnlyFailuresAreFingerprinted
  BY Parsed DEF Printed, OnlyFailuresAreFingerprinted
<1>2. QED
  BY <1>1, PrintedInductive, PTL DEF Spec

\* A step of the program runs the same one or another of the same kind.
LEMMA Stepping ==
  ASSUME Printed, [Next]_vars
  PROVE  Printed' /\ bug'.kind = bug.kind
<1>1. Printed'
  BY PrintedInductive
<1>2. CASE RunAgain
  BY <1>1, <1>2 DEF RunAgain, Run
<1>3. CASE RunEdited
  BY <1>1, <1>3 DEF RunEdited, Run
<1>4. CASE UNCHANGED vars
  BY <1>1, <1>4 DEF vars
<1>5. QED
  BY <1>1, <1>2, <1>3, <1>4 DEF Next

\* The same failure, run again in the same place, matches itself.
THEOREM FailuresMatchThemselves == Spec => SameBugMatches
<1> DEFINE Matching ==
      /\ bug' = bug /\ env' = env /\ IsFailure(bug)
      /\ ~Misleading(text) /\ ~Misleading(text')
      /\ (bug.kind = "test" => bug.fails # "bare_assert")
<1>1. ASSUME Printed, [Next]_vars, Matching PROVE Matches(sig', sig)
  <2>1. Printed' /\ bug' = bug /\ env' = env
    BY <1>1, Stepping
  <2>2. /\ bug \in Bugs /\ env \in Environments
        /\ text \in Outputs(bug, env) /\ sig = ParseError(text, bug.kind)
        /\ text' \in Outputs(bug, env) /\ sig' = ParseError(text', bug.kind)
    BY <1>1, <2>1 DEF Printed
  <2>3. bug.kind \in {"crash", "test"}
    BY <2>2, SortsOfBugs
  <2>4. sig # None
    BY <1>1, <2>2, Parsed
  <2>5. CASE bug.kind = "crash"
    BY <1>1, <2>2, <2>4, <2>5, Parsed DEF Matches
  <2>6. CASE bug.kind = "test"
    BY <1>1, <2>2, <2>4, <2>6, Parsed DEF Matches
  <2>7. QED
    BY <2>3, <2>5, <2>6
<1>2. Printed /\ [Next]_vars => [Matching => Matches(sig', sig)]_vars
  BY <1>1
<1> HIDE DEF Matching
<1>3. Spec => [][Matching => Matches(sig', sig)]_vars
  BY <1>2, PrintedInductive, PTL DEF Spec
<1>4. QED
  BY <1>3 DEF SameBugMatches, Matching

\* A failure with another exception or another innermost place does not match.
THEOREM ProgressIsRecognised == Spec => ProgressIsSeen
<1> DEFINE Changed ==
      /\ bug' # bug /\ env = "host" /\ env' = "host"
      /\ IsFailure(bug) /\ IsFailure(bug')
      /\ ~Misleading(text) /\ ~Misleading(text')
      /\ (bug.kind = "test" => bug.fails = "raises" /\ bug'.fails = "raises")
      /\ (bug.exc # bug'.exc \/ Where(bug) # Where(bug'))
<1>1. ASSUME Printed, [Next]_vars, Changed PROVE ~Matches(sig', sig)
  <2>1. Printed' /\ bug'.kind = bug.kind
    BY <1>1, Stepping
  <2>2. /\ bug \in Bugs /\ text \in Outputs(bug, env) /\ sig = ParseError(text, bug.kind)
        /\ bug' \in Bugs /\ text' \in Outputs(bug', env')
        /\ sig' = ParseError(text', bug'.kind) /\ env \in Environments /\ env' \in Environments
    BY <1>1, <2>1 DEF Printed
  <2>3. bug.kind \in {"crash", "test"}
    BY <2>2, SortsOfBugs
  <2>4. CASE bug.kind = "crash"
    <3>1. sig = Signature("crash", bug.exc, Where(bug))
      BY <1>1, <2>2, <2>4, Parsed DEF CrashPlace
    <3>2. sig' = Signature("crash", bug'.exc, Where(bug'))
      BY <1>1, <2>1, <2>2, <2>4, Parsed DEF CrashPlace
    <3>3. QED
      BY <1>1, <3>1, <3>2 DEF Matches, Signature
  <2>5. CASE bug.kind = "test"
    <3>1. sig = Signature("test", <<bug.exc>>, Where(bug))
      BY <1>1, <2>2, <2>5, Parsed DEF TestPlace
    <3>2. sig' = Signature("test", <<bug'.exc>>, Where(bug'))
      BY <1>1, <2>1, <2>2, <2>5, Parsed DEF TestPlace
    <3>3. QED
      BY <1>1, <3>1, <3>2 DEF Matches, Signature
  <2>6. QED
    BY <2>3, <2>4, <2>5
<1>2. Printed /\ [Next]_vars => [Changed => ~Matches(sig', sig)]_vars
  BY <1>1
<1> HIDE DEF Changed
<1>3. Spec => [][Changed => ~Matches(sig', sig)]_vars
  BY <1>2, PrintedInductive, PTL DEF Spec
<1>4. QED
  BY <1>3 DEF ProgressIsSeen, Changed
=============================================================================

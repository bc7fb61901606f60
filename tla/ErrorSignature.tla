--------------------------- MODULE ErrorSignature ---------------------------
(***************************************************************************)
(* core/domain/signature.py: the fingerprint of a failure, read off the    *)
(* text it printed, and the question every fix attempt is judged by: is    *)
(* this the error I was trying to fix, or a different one?                 *)
(*                                                                         *)
(* A text is a sequence of lines, a line a record of what the parser's     *)
(* regular expressions tell apart.  A path is the root it starts with, the *)
(* directory below the root and the file name.                             *)
(*                                                                         *)
(* The state machine prints one bug after the other: in the host process   *)
(* that detects a failure or in the container that validates a fix.        *)
(***************************************************************************)
EXTENDS Naturals, Sequences, FiniteSetsExt

CONSTANTS
  Exceptions,  \* exception classes, spelled with an Error-like suffix
  Dirs,        \* directories of the repository, Top the repository itself
  Names,       \* file names
  Funcs,       \* function names; None: a frame that names no function
  MaxDepth,    \* bound of the model: calls on the stack of a crash
  Top, None

ASSUME SyntaxAssumption ==
  /\ Top \in Dirs /\ MaxDepth \in Nat
  /\ None \notin Exceptions \cup Dirs \cup Names \cup Funcs

VARIABLES
  bug,   \* the failure of the program, see Bugs
  env,   \* where it was last run: "host" or "sandbox"
  text,  \* the output of that run
  sig    \* parse_error's result for it

vars == <<bug, env, text, sig>>

-----------------------------------------------------------------------------
(* Paths: the workspace is the host's clone, mounted elsewhere in a container; *)
(* "lib" is the interpreter's library, outside of both.                      *)

workspace_root == "clone"

Root(environment) == IF environment = "host" THEN "clone" ELSE "mount"

Inside(path) == path.root = workspace_root

\* The bare file name, whatever directory it is in.
BugBareName(path) == <<path.name>>

RelPath(file) == IF file.dir = Top THEN <<file.name>> ELSE <<file.dir, file.name>>

\* _to_rel: relative to the workspace, else the bare file name.
ToRel(path) == IF Inside(path) THEN RelPath(path) ELSE <<path.name>>

FrameLabel(rel, func) == IF func = None THEN rel ELSE Append(rel, func)

-----------------------------------------------------------------------------
(* from_crash_text. *)

\* Where a text has lines of sort t.
At(lines, t) == {i \in 1..Len(lines) : lines[i].t = t}

\* Any first word counts.
BugAnyWord(line) == line.t \in {"exc", "dotted", "word"}

\* A line whose first word has a dot or an Error-like suffix: an exception,
\* or a dotted word of the program's own that stands before a colon or alone.
LooksLikeException(line) == line.t \in {"exc", "dotted"}

\* _parse_exception_line: the last line that looks like an exception.
ParseExceptionLine(lines) ==
  LET found == {i \in 1..Len(lines) : LooksLikeException(lines[i])}
  IN  IF found = {} THEN None ELSE lines[Max(found)].exc

\* The deepest frame, of whatever file.
BugInnermostFrame(lines) ==
  LET frames == At(lines, "frame")
      last   == lines[Max(frames)]
  IN  IF frames = {} THEN None ELSE FrameLabel(ToRel(last.path), last.func)

\* _innermost_workspace_frame: the deepest frame in the workspace, else the
\* deepest one by its file name.
InnermostWorkspaceFrame(lines) ==
  LET frames == At(lines, "frame")
      in_ws  == {i \in frames : Inside(lines[i].path)}
      last   == lines[Max(IF in_ws # {} THEN in_ws ELSE frames)]
  IN  IF frames = {} THEN None
      ELSE FrameLabel(IF in_ws # {} THEN ToRel(last.path) ELSE <<last.path.name>>, last.func)

Signature(kind, exc, location) == [kind |-> kind, exc_type |-> exc, location |-> location]

\* Text without an exception or a frame is no failure one could recognise.
FromCrashText(lines) ==
  LET exc      == ParseExceptionLine(lines)
      location == InnermostWorkspaceFrame(lines)
  IN  IF exc = None /\ location = None THEN None
      ELSE Signature("crash", exc, location)

-----------------------------------------------------------------------------
(* from_pytest_output. *)

\* Trusts the summary line, which pytest may have truncated.
BugTrustSummary(lines, summary_exc) == summary_exc

\* The last line that starts with E and names a class, if there is one.
PreferErrorLine(lines, summary_exc) ==
  LET found == At(lines, "E")
  IN  IF found = {} THEN summary_exc ELSE lines[Max(found)].exc

\* The node of the first summary line, else any node the text names, else the
\* first frame.
PytestLocation(lines) ==
  LET summary == At(lines, "summary")
      nodes   == At(lines, "nodeid")
      frames  == At(lines, "pyframe")
      frame   == lines[Min(frames)]
  IN  IF summary # {} THEN <<lines[Min(summary)].node>>
      ELSE IF nodes # {} THEN <<lines[Min(nodes)].node>>
      ELSE IF frames # {} THEN FrameLabel(ToRel(frame.path), frame.func)
      ELSE None

FromPytestOutput(lines) ==
  LET summary  == At(lines, "summary")
      exc      == PreferErrorLine(lines, IF summary = {} THEN None ELSE lines[Min(summary)].exc)
      location == PytestLocation(lines)
      green    == At(lines, "passed") # {} /\ At(lines, "failed") = {}
  IN  IF green \/ (exc = None /\ location = None) THEN None
      ELSE Signature("test", exc, location)

ParseError(lines, kind) ==
  IF kind = "crash" THEN FromCrashText(lines) ELSE FromPytestOutput(lines)

Matches(a, b) == b # None /\ a = b

-----------------------------------------------------------------------------
(* The program: its bugs, and what Python and pytest print of them. *)

File == [dir : Dirs, name : Names]
Call == [file : File \cup {None}, func : Funcs \cup {None}]   \* file None: library code

\* The calls on the stack, the outermost in the repository.  A syntax error of
\* a module ends the stack with a frame that names no function.
Stacks(n) ==
  {stack \in [1..n -> Call] :
     /\ stack[1].file # None
     /\ \A i \in 1..n : stack[i].func = None => i = n /\ stack[i].file # None}

Crashes ==
  [kind : {"crash"}, stack : UNION {Stacks(n) : n \in 1..MaxDepth}, exc : Exceptions]

\* A failing test under -x: it raises `exc`, or a bare assert fails; or its
\* file cannot be imported, with the frame of the import machinery first.
TestFailures ==
  [kind : {"test"}, fails : {"raises", "bare_assert", "collection"},
   file : File, exc : Exceptions]

\* A run that fails with nothing but the sandbox's own words, or succeeds.
Bugs == Crashes \cup TestFailures \cup
        [kind : {"crash", "test"}, other : {"infrastructure"}] \cup
        [kind : {"test"}, other : {"green"}]

PathOf(file, environment) ==
  IF file = None THEN [root |-> "lib", dir |-> Top, name |-> None]
  ELSE [root |-> Root(environment), dir |-> file.dir, name |-> file.name]

\* What the program prints after its traceback: nothing, a word, or a word
\* with a dot in it, such as "Done.".
Chatter == {<<>>, <<[t |-> "word", exc |-> "ready"]>>, <<[t |-> "dotted", exc |-> "Done."]>>}

\* CPython's traceback.  Line numbers and messages vary from run to run.
Frame(c, environment, number) ==
  [t |-> "frame", path |-> PathOf(c.file, environment), line |-> number, func |-> c.func]

CrashText(b, environment, number, chatter) ==
  [i \in 1..Len(b.stack) |-> Frame(b.stack[i], environment, number)]
    \o <<[t |-> "exc", exc |-> b.exc]>> \o chatter

CrashTexts(b, environment) ==
  {CrashText(b, environment, number, chatter) : number \in {1, 2}, chatter \in Chatter}

\* The class an untruncated or truncated summary line shows.
Shown(exc, truncated) == IF truncated THEN <<exc, "...">> ELSE <<exc>>

\* pytest -x --tb=short.  Off a terminal the summary is cut to 80 columns.
TestTexts(b, environment) ==
  LET failed       == [t |-> "failed"]
      e_line       == [t |-> "E", exc |-> <<b.exc>>]
      import_frame == [t |-> "pyframe", func |-> "import_module",
                       path |-> PathOf(None, environment)]
      frame(func)  == [t |-> "pyframe", func |-> func,
                       path |-> [root |-> "relative", dir |-> b.file.dir, name |-> b.file.name]]
      summary(exc, cut) == [t |-> "summary", node |-> <<b.file, "test">>, exc |-> Shown(exc, cut)]
  IN  CASE b.fails = "raises" ->
             {<<frame("test"), e_line, summary(b.exc, cut), failed>> : cut \in BOOLEAN}
        [] b.fails = "bare_assert" ->
             {<<frame("test"), summary("assert", cut), failed>> : cut \in BOOLEAN}
        [] b.fails = "collection" ->
             {<<import_frame, frame("<module>"), e_line, failed>>}

Outputs(b, environment) ==
  IF "other" \in DOMAIN b
    THEN {IF b.other = "green" THEN <<[t |-> "passed"]>> ELSE <<[t |-> "word", exc |-> "ready"]>>, <<>>}
  ELSE IF b.kind = "crash" THEN CrashTexts(b, environment)
  ELSE TestTexts(b, environment)

Parts    == Dirs \cup Names \cup Funcs \cup {None, "import_module"} \cup (File \X {"test"})
Labels   == Seq(Parts)
ExcTypes == Exceptions \cup {"Done.", None} \cup Seq(Exceptions \cup {"assert", "..."})

\* None is none of the values a fingerprint is made of, nor one itself.
ASSUME SentinelAssumption ==
  /\ None \notin Labels
  /\ None \notin [kind : {"crash", "test"}, exc_type : ExcTypes, location : Labels \cup {None}]

Run(b, environment) ==
  /\ bug' = b /\ env' = environment
  /\ text' \in Outputs(b, environment)
  /\ sig' = ParseError(text', b.kind)

Init ==
  /\ bug \in Bugs /\ env = "host"
  /\ text \in Outputs(bug, env)
  /\ sig = ParseError(text, bug.kind)

\* The same program again, on the host or in a sandbox.
RunAgain == \E environment \in {"host", "sandbox"} : Run(bug, environment)

\* The program after an edit that leaves it with another failure, if any.
RunEdited == \E b \in Bugs : b # bug /\ b.kind = bug.kind /\ Run(b, env)

Next == RunAgain \/ RunEdited

Spec == Init /\ [][Next]_vars

-----------------------------------------------------------------------------
(* Correctness. *)

IsFailure(b) == "other" \notin DOMAIN b

\* Dotted words of the program itself are taken for its exception.
Misleading(lines) == lines # <<>> /\ lines[Len(lines)].t = "dotted"

\* The deepest call of a crash that is in the repository.
InnermostCall(b) == b.stack[Max({i \in 1..Len(b.stack) : b.stack[i].file # None})]

Where(b) ==
  IF b.kind = "crash"
    THEN FrameLabel(RelPath(InnermostCall(b).file), InnermostCall(b).func)
    ELSE <<<<b.file, "test">>>>

\* Detected on the host, a crash is identified by its exception and by the
\* innermost call in the repository, whatever line numbers and library calls
\* surround them.
CrashIsIdentified ==
  bug.kind = "crash" /\ IsFailure(bug) /\ env = "host" /\ ~Misleading(text) =>
    sig = Signature("crash", bug.exc, Where(bug))

\* Output that names neither an exception nor a place is not fingerprinted, so
\* that it is never taken for progress; every real failure is.
OnlyFailuresAreFingerprinted == (sig # None) <=> IsFailure(bug)

\* The same failure, run again in the same place, matches itself: line numbers,
\* trailing words and a cut summary line do not make it look like another one.
\* A bare assert is known by its summary line only.
SameBugMatches ==
  [][(/\ bug' = bug /\ env' = env /\ IsFailure(bug)
      /\ ~Misleading(text) /\ ~Misleading(text')
      /\ (bug.kind = "test" => bug.fails # "bare_assert"))
       => Matches(sig', sig)]_vars

\* A failure with another exception or another innermost place does not match:
\* the progress of the fix is seen.  Import errors have no place of their own.
ProgressIsSeen ==
  [][(/\ bug' # bug /\ env = "host" /\ env' = "host"
      /\ IsFailure(bug) /\ IsFailure(bug')
      /\ ~Misleading(text) /\ ~Misleading(text')
      /\ (bug.kind = "test" => bug.fails = "raises" /\ bug'.fails = "raises")
      /\ (bug.exc # bug'.exc \/ Where(bug) # Where(bug')))
       => ~Matches(sig', sig)]_vars

\* The same crash matches itself wherever it is run: the path the repository is
\* mounted at is noise.
MountPointIsNoise ==
  [][(/\ bug' = bug /\ bug.kind = "crash" /\ IsFailure(bug)
      /\ ~Misleading(text) /\ ~Misleading(text'))
       => Matches(sig', sig)]_vars
=============================================================================

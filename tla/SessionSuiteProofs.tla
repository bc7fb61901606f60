-------------------------- MODULE SessionSuiteProofs --------------------------
(***************************************************************************)
(* What every commit does to the suite, for any modules, names, errors and *)
(* budget and drafts of any length, whatever part of the gate and of the   *)
(* file handling fails.                                                    *)
(***************************************************************************)
EXTENDS SessionSuite, SequenceTheorems, TLAPS

Files == Seq(Tests) \cup {None}

\* The types the suite rests on.
Types ==
  /\ pc \in {"fix", "validate", "immunize", "commit", "rollback", "end"}
  /\ broken \in SUBSET Modules /\ changed \in SUBSET Modules
  /\ session \in Files /\ green \in BOOLEAN
  /\ head.broken \in SUBSET Modules /\ head.session \in Files

\* Until a fix is immunized the suite is that of the last commit: the first
\* attempt finds the stub in addition, and a rollback takes even that.
SuiteIsCommitted == pc # "commit" => Suite(session) = Suite(head.session)

\* What is immunized as green passed the gate.
GateHeld == pc = "immunize" /\ green => GatePasses

\* The four properties of a commit c whose predecessor had the session file
\* `before`.
KeepsTheSuite(c, before) ==
  c.green /\ c.faults \cap {"snapshot", "restore"} = {} =>
    \A i \in Collected(Suite(before)) :
      Suite(before)[i].module \in c.changed \ PackageInits =>
        \/ NodePasses(Suite(c.session), Suite(before)[i].name, c.broken)
        \/ c.test # None /\ \E k \in 2..Len(c.test) : c.test[k].name = Suite(before)[i].name

RecordsWhatPasses(c) ==
  c.green /\ c.test # None => NodePasses(Suite(c.session), c.test[1].name, c.broken)

GrowsByTheTest(c, before) ==
  /\ c.faults \subseteq {"sandbox"} =>
       Suite(c.session) = Suite(before) \o Suite(c.test)
  /\ "snapshot" \notin c.faults => IsPrefix(Suite(before), Suite(c.session))

IsImmunized(c, before) ==
  c.green /\ c.test = None => c.faults # {} \/ ~Importable(Suite(before))

Upheld(c, before) ==
  /\ KeepsTheSuite(c, before) /\ RecordsWhatPasses(c)
  /\ GrowsByTheTest(c, before) /\ IsImmunized(c, before)

\* What the next commit will hold.
Staged == Commit(err, broken, changed, session, recorded, faults, green)

SuiteInv ==
  /\ Types /\ SuiteIsCommitted /\ GateHeld
  /\ Upheld(head, prev) /\ (pc = "commit" => Upheld(Staged, head.session))

-----------------------------------------------------------------------------
(* Sequences of tests. *)

LEMMA PrefixIsPointwise ==
  ASSUME NEW s \in Seq(Tests), NEW t \in Seq(Tests)
  PROVE  IsPrefix(s, t) <=> Len(s) <= Len(t) /\ \A i \in 1..Len(s) : s[i] = t[i]
<1>1. Len(s) \in Nat /\ Len(t) \in Nat /\ SubSeq(s, 1, Len(s)) = s
  BY SubSeqFull
<1>2. ASSUME Len(s) <= Len(t)
      PROVE  /\ SubSeq(t, 1, Len(s)) \in Seq(Tests) /\ Len(SubSeq(t, 1, Len(s))) = Len(s)
             /\ \A i \in 1..Len(s) : SubSeq(t, 1, Len(s))[i] = t[i]
  <2>1. \A i \in 1..Len(s) : t[i] \in Tests
    BY <1>1, <1>2
  <2>2. QED
    BY <1>1, <2>1, SubSeqProperties
<1>3. ASSUME Len(s) <= Len(t), \A i \in 1..Len(s) : s[i] = t[i]
      PROVE  s = SubSeq(t, 1, Len(s))
  BY <1>1, <1>2, <1>3, SeqEqual
<1>4. QED
  BY <1>1, <1>2, <1>3 DEF IsPrefix

LEMMA PrefixFacts ==
  ASSUME NEW s \in Seq(Tests), NEW t \in Seq(Tests)
  PROVE  /\ IsPrefix(s, s) /\ IsPrefix(s, s \o t)
         /\ s \o <<>> = s /\ s \o t \in Seq(Tests)
<1>1. /\ s \o t \in Seq(Tests) /\ Len(s \o t) = Len(s) + Len(t)
      /\ \A i \in 1..Len(s) + Len(t) :
           (s \o t)[i] = IF i <= Len(s) THEN s[i] ELSE t[i - Len(s)]
  BY ConcatProperties
<1>2. IsPrefix(s, s)
  BY PrefixIsPointwise
<1>3. Len(s) \in Nat /\ Len(t) \in Nat
  OBVIOUS
<1>4. Len(s) <= Len(s \o t) /\ \A i \in 1..Len(s) : s[i] = (s \o t)[i]
  BY <1>1, <1>3
<1>5. IsPrefix(s, s \o t)
  BY <1>1, <1>4, PrefixIsPointwise
<1>6. QED
  BY <1>1, <1>2, <1>5, ConcatEmptySeq

LEMMA PrefixTransitive ==
  ASSUME NEW s \in Seq(Tests), NEW t \in Seq(Tests), NEW u \in Seq(Tests),
         IsPrefix(s, t), IsPrefix(t, u)
  PROVE  IsPrefix(s, u)
<1>1. /\ Len(s) \in Nat /\ Len(t) \in Nat /\ Len(u) \in Nat
      /\ Len(s) <= Len(t) /\ Len(t) <= Len(u)
      /\ \A i \in 1..Len(s) : s[i] = t[i]
      /\ \A i \in 1..Len(t) : t[i] = u[i]
  BY PrefixIsPointwise
<1>2. QED
  BY <1>1, PrefixIsPointwise

LEMMA SuiteType ==
  ASSUME NEW file \in Files
  PROVE  /\ Suite(file) \in Seq(Tests)
         /\ \A d \in Seq(Tests) :
              /\ d # None /\ Suite(d) = d /\ AppendTest(file, d) \in Files
              /\ Suite(AppendTest(file, d)) = Suite(file) \o d
<1>1. Suite(file) \in Seq(Tests)
  BY DEF Files, Suite
<1>2. ASSUME NEW d \in Seq(Tests)
      PROVE  /\ d # None /\ Suite(d) = d /\ AppendTest(file, d) \in Files
             /\ Suite(AppendTest(file, d)) = Suite(file) \o d
  <2>1. d # None /\ Suite(d) = d
    BY <1>2, SentinelAssumption DEF Suite
  <2>2. Suite(file) \o d \in Seq(Tests)
    BY <1>1, ConcatProperties
  <2>3. Suite(file) \o d # None
    BY <2>2, SentinelAssumption
  <2>4. QED
    BY <2>1, <2>2, <2>3 DEF AppendTest, Files, Suite
<1>3. QED
  BY <1>1, <1>2

LEMMA DraftsAreSequences ==
  /\ Drafts \subseteq Seq(Tests)
  /\ <<SmokeTest>> \in Seq(Tests)
<1>1. ASSUME NEW d \in SeqOf(Written, MaxTests)
      PROVE  d \in Seq(Tests)
  <2>1. PICK n \in 0..MaxTests : d \in [1..n -> Written]
    BY <1>1 DEF SeqOf
  <2>2. n \in Nat /\ d \in [1..n -> Tests]
    BY <2>1, SuiteAssumption DEF Tests
  <2>3. QED
    BY <2>2, SeqDef
<1>2. <<Unparsable>> \in Seq(Tests) /\ <<SmokeTest>> \in Seq(Tests)
  BY DEF Tests
<1>3. Drafts \subseteq SeqOf(Written, MaxTests) \cup {<<Unparsable>>}
  BY DEF Drafts
<1>4. QED
  BY <1>1, <1>2, <1>3

\* The smoke test passes at the end of any file that can be imported.
LEMMA SmokeTestPasses ==
  ASSUME NEW file \in Seq(Tests), Importable(file), NEW bs \in SUBSET Modules
  PROVE  NodePasses(file \o <<SmokeTest>>, <<SmokeTest>>[1].name, bs)
<1> DEFINE n   == Len(file)
           all == file \o <<SmokeTest>>
<1>1. /\ SmokeTest.name = "smoke" /\ SmokeTest.quality = "sound" /\ SmokeTest.module = None
      /\ SmokeTest \in Tests /\ <<SmokeTest>>[1] = SmokeTest
  BY DEF SmokeTest, Test, Tests
<1>2. all = Append(file, SmokeTest)
  BY <1>1, AppendIsConcat
<1>3. /\ Len(all) = n + 1 /\ n \in Nat /\ all[n + 1] = SmokeTest
      /\ \A i \in 1..n : all[i] = file[i]
  BY <1>1, <1>2, AppendProperties
<1> HIDE DEF all
<1>4. Importable(all)
  BY <1>1, <1>3 DEF Importable
<1>5. n + 1 \in Collected(all)
  BY <1>3, <1>4 DEF Collected
<1>6. Passes(all[n + 1], bs)
  BY <1>1, <1>3, SuiteAssumption DEF Passes
<1>7. QED
  BY <1>1, <1>3, <1>5, <1>6 DEF NodePasses, all

\* A test that passes in a file passes with a draft appended, unless that breaks
\* the import or one of its functions takes the name.
LEMMA AppendKeepsPassing ==
  ASSUME NEW file \in Seq(Tests), NEW d \in Seq(Tests), NEW bs, NEW i \in Collected(file),
         Passes(file[i], bs), Importable(file \o d),
         \A k \in 1..Len(d) : d[k].name # file[i].name
  PROVE  NodePasses(file \o d, file[i].name, bs)
<1> DEFINE n   == Len(file)
           m   == Len(d)
           all == file \o d
<1>1. /\ Len(all) = n + m /\ n \in Nat /\ m \in Nat
      /\ \A k \in 1..n : all[k] = file[k]
      /\ \A k \in n + 1..(n + m) : all[k] = d[k - n]
  BY ConcatProperties
<1>2. i \in 1..n /\ \A j \in i + 1..n : file[j].name # file[i].name
  BY DEF Collected
<1>3. Importable(all)
  OBVIOUS
<1> HIDE DEF all
<1>4. ASSUME NEW j \in i + 1..(n + m) PROVE all[j].name # all[i].name
  <2>1. CASE j <= n
    BY <1>1, <1>2, <2>1
  <2>2. CASE j > n
    <3>1. j \in n + 1..(n + m) /\ j - n \in 1..m
      BY <1>1, <1>2, <2>2
    <3>2. QED
      BY <1>1, <1>2, <3>1
  <2>3. QED
    BY <1>1, <1>2, <2>1, <2>2
<1>5. i \in Collected(all) /\ all[i] = file[i]
  BY <1>1, <1>2, <1>3, <1>4 DEF Collected
<1>6. QED
  BY <1>5 DEF NodePasses, all

-----------------------------------------------------------------------------
(* What the gate may leave of the session file. *)

\* What immunize_node promises of an outcome o over the suite base: a gated test
\* that is kept passes, the suite grows by its draft alone unless a file operation
\* failed, and of a rejected one nothing is left unless the restore failed.
Outcome(base, gate, o) ==
  /\ o.file \in Files /\ o.kept \in Seq(Tests) \cup {None}
  /\ gate /\ o.kept # None => NodePasses(Suite(o.file), o.kept[1].name, broken)
  /\ o.faults \subseteq {"sandbox"} => Suite(o.file) = base \o Suite(o.kept)
  /\ "snapshot" \notin o.faults => IsPrefix(base, Suite(o.file))
  /\ gate /\ o.faults \cap {"snapshot", "restore"} = {} =>
       \/ Suite(o.file) = base
       \/ o.kept # None /\ Suite(o.file) = base \o o.kept

\* One gated or ungated append.
LEMMA GateAndKeepOutcome ==
  ASSUME NEW file \in Files, NEW draft \in Seq(Tests), NEW gate \in BOOLEAN,
         NEW o \in GateAndKeep(file, draft, gate)
  PROVE  Outcome(Suite(file), gate, o)
<1> DEFINE base        == Suite(file)
           before(fs)   == IF "snapshot" \in fs THEN None ELSE file
           appended(fs) == IF "append" \in fs THEN file ELSE AppendTest(file, draft)
           kept(fs)     == Kept(gate, "sandbox" \notin fs /\
                                  NodePasses(Suite(appended(fs)), FirstTest(draft), broken))
<1>1. PICK fs \in Faults :
        o = [file   |-> IF kept(fs) \/ "restore" \in fs THEN appended(fs)
                        ELSE Restored(before(fs)),
             kept   |-> IF kept(fs) THEN draft ELSE None,
             faults |-> fs]
  BY DEF GateAndKeep
<1>2. /\ o.faults = fs
      /\ kept(fs) => o.kept = draft /\ o.file = appended(fs)
      /\ ~kept(fs) /\ "restore" \in fs => o.kept = None /\ o.file = appended(fs)
      /\ ~kept(fs) /\ "restore" \notin fs => o.kept = None /\ o.file = before(fs)
  BY <1>1 DEF Restored
<1>3. /\ base \in Seq(Tests) /\ draft # None /\ Suite(draft) = draft
      /\ AppendTest(file, draft) \in Files
      /\ Suite(AppendTest(file, draft)) = base \o draft
      /\ Suite(None) = <<>>
  BY SuiteType DEF Suite
<1>4. /\ IsPrefix(base, base) /\ IsPrefix(base, base \o draft)
      /\ base \o <<>> = base
  BY <1>3, PrefixFacts
<1>5. /\ appended(fs) \in Files
      /\ "append" \notin fs => Suite(appended(fs)) = base \o draft
      /\ "append" \in fs => Suite(appended(fs)) = base
  BY <1>3
<1>6. /\ before(fs) \in Files
      /\ "snapshot" \notin fs => Suite(before(fs)) = base
  BY DEF Files
<1>7. gate /\ kept(fs) => NodePasses(Suite(appended(fs)), draft[1].name, broken)
  BY DEF Kept, FirstTest
<1> HIDE DEF base, before, appended, kept
<1>8. CASE kept(fs)
  BY <1>2, <1>3, <1>4, <1>5, <1>7, <1>8 DEF Outcome, base
<1>9. CASE ~kept(fs) /\ "restore" \in fs
  BY <1>2, <1>3, <1>4, <1>5, <1>9 DEF Outcome, base
<1>10. CASE ~kept(fs) /\ "restore" \notin fs
  BY <1>2, <1>3, <1>4, <1>6, <1>10 DEF Outcome, base
<1>11. QED
  BY <1>8, <1>9, <1>10

\* Without a fault the gate keeps the smoke test of an importable suite.
LEMMA SmokeTestIsKept ==
  ASSUME Types, NEW file \in Files, Importable(Suite(file)),
         NEW o \in GateAndKeep(file, <<SmokeTest>>, TRUE), o.faults = {}
  PROVE  o.kept # None
<1> DEFINE smoke == <<SmokeTest>>
<1>1. smoke \in Seq(Tests)
  BY DraftsAreSequences
<1>2. /\ Suite(file) \in Seq(Tests) /\ smoke # None
      /\ Suite(AppendTest(file, smoke)) = Suite(file) \o smoke
  BY <1>1, SuiteType
<1>3. NodePasses(Suite(AppendTest(file, smoke)), FirstTest(smoke), broken)
  BY <1>2, SmokeTestPasses DEF Types, FirstTest
<1> HIDE DEF smoke
<1> DEFINE appended(fs) == IF "append" \in fs THEN file ELSE AppendTest(file, smoke)
           kept(fs)     == Kept(TRUE, "sandbox" \notin fs /\
                                  NodePasses(Suite(appended(fs)), FirstTest(smoke), broken))
<1>4. PICK fs \in Faults :
        o = [file   |-> IF kept(fs) \/ "restore" \in fs THEN appended(fs)
                        ELSE Restored(IF "snapshot" \in fs THEN None ELSE file),
             kept   |-> IF kept(fs) THEN smoke ELSE None,
             faults |-> fs]
  BY DEF GateAndKeep, smoke
<1>5. fs = {} /\ appended(fs) = AppendTest(file, smoke)
  BY <1>4
<1>6. kept(fs)
  BY <1>3, <1>5 DEF Kept
<1>7. o.kept = smoke
  BY <1>4, <1>6
<1>8. QED
  BY <1>2, <1>7

\* The smoke test after a draft that was not kept.
LEMMA FallbackOutcome ==
  ASSUME Types, NEW base \in Seq(Tests), NEW d, Outcome(base, TRUE, d), d.kept = None,
         NEW o, o \in GateAndKeep(d.file, <<SmokeTest>>, TRUE),
         NEW both, both.file = o.file, both.kept = o.kept,
         both.faults = o.faults \cup d.faults
  PROVE  /\ Outcome(base, TRUE, both)
         /\ both.kept = None => both.faults # {} \/ ~Importable(base)
<1>1. /\ d.file \in Files /\ Suite(d.file) \in Seq(Tests) /\ <<SmokeTest>> \in Seq(Tests)
      /\ Suite(d.kept) = <<>>
  BY SuiteType, DraftsAreSequences DEF Outcome, Suite
<1>2. Outcome(Suite(d.file), TRUE, o)
  BY <1>1, GateAndKeepOutcome
<1>3. o.file \in Files /\ Suite(o.file) \in Seq(Tests)
  BY <1>2, SuiteType DEF Outcome
<1>4. d.faults \subseteq {"sandbox"} \/ d.faults \cap {"snapshot", "restore"} = {} =>
        Suite(d.file) = base
  BY <1>1, ConcatEmptySeq DEF Outcome
<1>5. "snapshot" \notin both.faults => IsPrefix(base, Suite(o.file))
  BY <1>1, <1>2, <1>3, PrefixTransitive DEF Outcome
<1>6. Outcome(base, TRUE, both)
  BY <1>2, <1>3, <1>4, <1>5 DEF Outcome
<1>7. ASSUME both.kept = None, both.faults = {}, Importable(base) PROVE FALSE
  <2>1. o.faults = {} /\ Suite(d.file) = base
    BY <1>4, <1>7
  <2>2. QED
    BY <1>1, <1>7, <2>1, SmokeTestIsKept
<1>8. QED
  BY <1>6, <1>7

\* immunize_node leaves an outcome, and on green some test unless something failed.
Immunized(o) ==
  /\ Outcome(Suite(session), green, o)
  /\ green /\ o.kept = None => o.faults # {} \/ ~Importable(Suite(session))

LEMMA ImmunizeOutcome ==
  ASSUME Types, Immunize
  PROVE  \E o : /\ Immunized(o) /\ session' = o.file /\ recorded' = o.kept
               /\ faults' = o.faults
<1> DEFINE base == Suite(session)
           none == [file |-> session, kept |-> None, faults |-> {}]
<1>0. session \in Files /\ green \in BOOLEAN /\ base \in Seq(Tests)
  BY SuiteType DEF Types
<1>1. PICK d \in {none} \cup UNION {GateAndKeep(session, draft, green) : draft \in Drafts} :
        \E outcome \in Fallback(d) :
          /\ session' = outcome.file /\ recorded' = outcome.kept
          /\ faults' = outcome.faults
  BY DEF Immunize
<1>2. PICK o \in Fallback(d) :
        session' = o.file /\ recorded' = o.kept /\ faults' = o.faults
  BY <1>1
<1>3. Outcome(base, green, d)
  <2>1. CASE d = none
    <3>1. none.file = session /\ none.kept = None /\ none.faults = {}
      OBVIOUS
    <3>2. base \o <<>> = base /\ IsPrefix(base, base)
      BY <1>0, PrefixFacts
    <3>3. Suite(None) = <<>>
      BY DEF Suite
    <3> HIDE DEF none
    <3>4. QED
      BY <1>0, <2>1, <3>1, <3>2, <3>3 DEF Outcome
  <2>2. ASSUME NEW draft \in Drafts, d \in GateAndKeep(session, draft, green)
        PROVE  Outcome(base, green, d)
    BY <1>0, <2>2, GateAndKeepOutcome, DraftsAreSequences
  <2>3. QED
    BY <1>1, <2>1, <2>2
<1>4. CASE green /\ d.kept = None
  <2>1. PICK s \in GateAndKeep(d.file, <<SmokeTest>>, TRUE) :
          o = [s EXCEPT !.faults = @ \cup d.faults]
    BY <1>2, <1>4 DEF Fallback
  <2>2. /\ o.file = s.file /\ o.kept = s.kept /\ o.faults = s.faults \cup d.faults
    BY <2>1 DEF GateAndKeep
  <2>3. /\ Outcome(base, TRUE, o)
        /\ o.kept = None => o.faults # {} \/ ~Importable(base)
    BY <1>0, <1>3, <1>4, <2>1, <2>2, FallbackOutcome
  <2>4. QED
    BY <1>2, <1>4, <2>3 DEF Immunized
<1>5. CASE ~(green /\ d.kept = None)
  <2>1. o = d
    BY <1>2, <1>5 DEF Fallback
  <2>2. QED
    BY <1>2, <1>3, <1>5, <2>1 DEF Immunized
<1>6. QED
  BY <1>4, <1>5

\* A gate that passes protects the earlier tests of what the fix changed.
LEMMA GateProtects ==
  ASSUME Types, GatePasses, NEW o, Outcome(Suite(session), TRUE, o),
         o.faults \cap {"snapshot", "restore"} = {},
         NEW i \in Collected(Suite(session)),
         Suite(session)[i].module \in changed \ PackageInits
  PROVE  \/ NodePasses(Suite(o.file), Suite(session)[i].name, broken)
         \/ o.kept # None /\ \E k \in 2..Len(o.kept) : o.kept[k].name = Suite(session)[i].name
<1> DEFINE base == Suite(session)
<1>1. base \in Seq(Tests) /\ i \in 1..Len(base) /\ Importable(base)
  BY SuiteType DEF Types, Collected
<1>2. Related(base, changed)
  <2>1. base[i].module \in ImportedBasenames(base)
    <3>1. base[i].module # None
      BY SuiteAssumption DEF Types
    <3>2. ~\E k \in 1..Len(base) : base[k].quality = "unparsable"
      BY <1>1 DEF Importable
    <3>3. QED
      BY <1>1, <3>1, <3>2 DEF ImportedBasenames
  <2>2. base[i].module \in Stems(changed)
    BY DEF Stems
  <2>3. QED
    BY <2>1, <2>2 DEF Related
<1>3. Passes(base[i], broken)
  BY <1>2 DEF GatePasses, FilePasses
<1>4. CASE Suite(o.file) = base
  BY <1>3, <1>4 DEF NodePasses
<1>5. CASE o.kept # None /\ Suite(o.file) = base \o o.kept
  <2>1. o.kept \in Seq(Tests) /\ NodePasses(base \o o.kept, o.kept[1].name, broken)
    BY <1>5 DEF Outcome
  <2>2. Importable(base \o o.kept)
    BY <2>1 DEF NodePasses, Collected
  <2> HIDE DEF base
  <2>3. CASE \A k \in 1..Len(o.kept) : o.kept[k].name # base[i].name
    BY <1>1, <1>3, <2>1, <2>2, <2>3, <1>5, AppendKeepsPassing DEF base
  <2>4. CASE o.kept[1].name = base[i].name
    BY <1>5, <2>1, <2>4 DEF base
  <2>5. CASE \E k \in 1..Len(o.kept) : k # 1 /\ o.kept[k].name = base[i].name
    <3>1. PICK k \in 1..Len(o.kept) : k # 1 /\ o.kept[k].name = base[i].name
      BY <2>5
    <3>2. Len(o.kept) \in Nat
      BY <2>1
    <3>3. k \in 2..Len(o.kept)
      BY <3>1, <3>2
    <3>4. QED
      BY <1>5, <3>1, <3>3 DEF base
  <2>6. QED
    BY <2>3, <2>4, <2>5
<1>6. QED
  BY <1>4, <1>5 DEF Outcome

-----------------------------------------------------------------------------
(* The invariant. *)

LEMMA StagedIsUpheld ==
  ASSUME SuiteInv, Immunize PROVE Upheld(Staged, head.session)'
<1>0. /\ Types /\ GateHeld /\ pc = "immunize" /\ Suite(head.session) = Suite(session)
      /\ UNCHANGED <<codeVars, green, head>>
  BY DEF SuiteInv, SuiteIsCommitted, Immunize
<1>1. PICK o : /\ Immunized(o) /\ session' = o.file /\ recorded' = o.kept
               /\ faults' = o.faults
  BY <1>0, ImmunizeOutcome
<1>2. /\ Staged'.green = green /\ Staged'.test = o.kept /\ Staged'.session = o.file
      /\ Staged'.faults = o.faults /\ Staged'.broken = broken /\ Staged'.changed = changed
  BY <1>0, <1>1 DEF Staged, Commit, codeVars
<1>3. head' = head
  BY <1>0
<1> DEFINE s == Staged'
<1> HIDE DEF s
<1>4. KeepsTheSuite(s, head.session)
  <2> SUFFICES ASSUME green, o.faults \cap {"snapshot", "restore"} = {},
                      NEW i \in Collected(Suite(session)),
                      Suite(session)[i].module \in changed \ PackageInits
               PROVE  \/ NodePasses(Suite(o.file), Suite(session)[i].name, broken)
                      \/ o.kept # None /\ \E k \in 2..Len(o.kept) :
                                             o.kept[k].name = Suite(session)[i].name
    BY <1>0, <1>2 DEF KeepsTheSuite, s
  <2>1. GatePasses /\ Outcome(Suite(session), TRUE, o)
    BY <1>0, <1>1 DEF GateHeld, Immunized
  <2>2. QED
    BY <1>0, <2>1, GateProtects
<1>5. RecordsWhatPasses(s)
  BY <1>1, <1>2 DEF RecordsWhatPasses, Immunized, Outcome, s
<1>6. GrowsByTheTest(s, head.session)
  BY <1>0, <1>1, <1>2 DEF GrowsByTheTest, Immunized, Outcome, s
<1>7. IsImmunized(s, head.session)
  BY <1>0, <1>1, <1>2 DEF IsImmunized, Immunized, s
<1>8. QED
  BY <1>3, <1>4, <1>5, <1>6, <1>7 DEF Upheld, s

LEMMA TypesNext == ASSUME SuiteInv, [Next]_vars PROVE Types'
<1> USE DEF Types
<1>0. Types
  BY DEF SuiteInv
<1>1. CASE Fix
  BY <1>0, <1>1 DEF Fix
<1>2. CASE Validate
  BY <1>0, <1>2 DEF Validate, codeVars
<1>3. CASE Immunize
  <2>1. session' \in Files
    BY <1>0, <1>3, ImmunizeOutcome DEF Immunized, Outcome
  <2>2. QED
    BY <1>0, <1>3, <2>1 DEF Immunize, codeVars
<1>4. CASE ReportCommit
  <2>1. head'.broken = broken /\ head'.session = session
    BY <1>4 DEF ReportCommit, Commit
  <2>2. changed' = {} /\ pc' \in {"fix", "end"} /\ UNCHANGED <<broken, session, green>>
    BY <1>4 DEF ReportCommit
  <2>3. QED
    BY <1>0, <2>1, <2>2
<1>5. CASE Rollback
  BY <1>0, <1>5 DEF Rollback
<1>6. CASE UNCHANGED vars
  BY <1>0, <1>6 DEF vars, codeVars
<1>7. QED
  BY <1>1, <1>2, <1>3, <1>4, <1>5, <1>6 DEF Next, Over

LEMMA CommittedNext == ASSUME SuiteInv, [Next]_vars PROVE (SuiteIsCommitted /\ GateHeld)'
<1> USE DEF SuiteIsCommitted, GateHeld
<1>0. SuiteIsCommitted /\ GateHeld
  BY DEF SuiteInv
<1>1. CASE Fix
  BY <1>0, <1>1 DEF Fix
<1>2. CASE Validate
  BY <1>0, <1>2 DEF Validate, codeVars, GatePasses
<1>3. CASE Immunize
  BY <1>3 DEF Immunize
<1>4. CASE ReportCommit
  <2>1. head'.session = session /\ session' = session /\ pc' \in {"fix", "end"}
    BY <1>4 DEF ReportCommit, Commit
  <2>2. QED
    BY <2>1
<1>5. CASE Rollback
  BY <1>5 DEF Rollback
<1>6. CASE UNCHANGED vars
  BY <1>0, <1>6 DEF vars, codeVars, GatePasses
<1>7. QED
  BY <1>1, <1>2, <1>3, <1>4, <1>5, <1>6 DEF Next, Over

LEMMA UpheldNext ==
  ASSUME SuiteInv, [Next]_vars
  PROVE  Upheld(head, prev)' /\ (pc = "commit" => Upheld(Staged, head.session))'
<1>0. Upheld(head, prev) /\ (pc = "commit" => Upheld(Staged, head.session))
  BY DEF SuiteInv
<1>1. CASE Immunize
  <2>1. UNCHANGED <<head, prev>>
    BY <1>1 DEF Immunize
  <2>2. Upheld(head', prev')
    BY <1>0, <2>1
  <2>3. QED
    BY <1>1, <2>2, StagedIsUpheld
<1>2. CASE ReportCommit
  <2>1. pc = "commit" /\ head' = Staged /\ prev' = head.session /\ pc' # "commit"
    BY <1>2 DEF ReportCommit, Staged
  <2>2. Upheld(head', prev')
    BY <1>0, <2>1
  <2>3. QED
    BY <2>1, <2>2
<1>3. CASE Fix \/ Validate \/ Rollback
  <2>1. UNCHANGED <<head, prev>> /\ pc' # "commit"
    BY <1>3 DEF Fix, Validate, Rollback
  <2>2. Upheld(head', prev')
    BY <1>0, <2>1
  <2>3. QED
    BY <2>1, <2>2
<1>4. CASE UNCHANGED vars
  <2>1. UNCHANGED <<pc, head, prev>> /\ Staged' = Staged
    BY <1>4 DEF vars, codeVars, Staged
  <2>2. Upheld(head', prev') /\ (pc' = "commit" => Upheld(Staged', head'.session))
    BY <1>0, <2>1
  <2>3. QED
    BY <2>2
<1>5. QED
  BY <1>1, <1>2, <1>3, <1>4 DEF Next, Over

LEMMA SuiteInit == ASSUME Init PROVE SuiteInv
<1>1. /\ pc = "fix" /\ broken \in SUBSET Modules /\ changed = {} /\ session = <<>>
      /\ green = FALSE /\ head = Commit(err, broken, {}, None, None, {}, FALSE) /\ prev = None
  BY DEF Init
<1>2. /\ head.broken = broken /\ head.session = None /\ head.green = FALSE
      /\ head.test = None /\ head.faults = {}
  BY <1>1 DEF Commit
<1>3. Suite(None) = <<>> /\ Suite(<<>>) = <<>> /\ <<>> \in Seq(Tests)
  BY DEF Suite
<1>4. <<>> \o <<>> = <<>> /\ IsPrefix(<<>>, <<>>)
  BY <1>3, ConcatEmptySeq DEF IsPrefix
<1>5. Types /\ SuiteIsCommitted /\ GateHeld
  BY <1>1, <1>2, <1>3 DEF Types, Files, SuiteIsCommitted, GateHeld
<1>6. Upheld(head, prev)
  BY <1>1, <1>2, <1>3, <1>4
  DEF Upheld, KeepsTheSuite, RecordsWhatPasses, GrowsByTheTest, IsImmunized
<1>7. QED
  BY <1>1, <1>5, <1>6 DEF SuiteInv

LEMMA SuiteInductive ==
  /\ Init => SuiteInv
  /\ SuiteInv /\ [Next]_vars => SuiteInv'
BY SuiteInit, TypesNext, CommittedNext, UpheldNext DEF SuiteInv

\* A commit that makes the program green breaks no earlier test of a module it
\* changes, unless a function of its draft that the gate does not run takes the
\* name, or the session file could not be read or restored.
THEOREM SuiteIsKept == Spec => []GreenCommitsKeepTheSuite
<1>1. SuiteInv => GreenCommitsKeepTheSuite
  BY DEF SuiteInv, Upheld, KeepsTheSuite, GreenCommitsKeepTheSuite
<1>2. QED
  BY <1>1, SuiteInductive, PTL DEF Spec

\* The first test of the draft recorded for a green commit is in its session file
\* and passes, whichever write of the file failed unnoticed.
THEOREM RecordsAreHonest == Spec => []RecordedTestPasses
<1>1. SuiteInv => RecordedTestPasses
  BY DEF SuiteInv, Upheld, RecordsWhatPasses, RecordedTestPasses
<1>2. QED
  BY <1>1, SuiteInductive, PTL DEF Spec

\* The suite grows by the recorded draft and by nothing else, and no earlier
\* test goes, unless a file operation failed.
THEOREM SuiteGrows == Spec => []SuiteGrowsByTheRecorded
<1>1. SuiteInv => SuiteGrowsByTheRecorded
  BY DEF SuiteInv, Upheld, GrowsByTheTest, SuiteGrowsByTheRecorded
<1>2. QED
  BY <1>1, SuiteInductive, PTL DEF Spec

\* Every green commit is immunized, unless something failed or the suite before
\* it could not be imported.
THEOREM GreenIsImmunized == Spec => []OnlyABrokenSuiteIsNotImmunized
<1>1. SuiteInv => OnlyABrokenSuiteIsNotImmunized
  BY DEF SuiteInv, Upheld, IsImmunized, OnlyABrokenSuiteIsNotImmunized
<1>2. QED
  BY <1>1, SuiteInductive, PTL DEF Spec
=============================================================================

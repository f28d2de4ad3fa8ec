-------------------------- MODULE ProjectDocProofs --------------------------
(***************************************************************************)
(* The document of a project, for any requests, runs, settings, lines and  *)
(* texts: no save undoes another one, a machine's translation renders the  *)
(* words beside it, and hand work stays.                                   *)
(*                                                                         *)
(* The invariant they rest on is the lock's: whoever is about to save      *)
(* holds the row, and the copy it changes is the document as it is.        *)
(***************************************************************************)
EXTENDS ProjectDoc, TLAPS

CopyIsCurrent ==
    \A a \in Actors : work[a].pc = "save" => lock = a /\ work[a].copy = doc

\* A translation and a suggestion began with a transcript.
ReadATranscript ==
    \A r \in Runs : runs[r].pc = "work" /\ KindOf[r] # "transcribe" =>
        runs[r].read \in Transcript

\* Without force, what is answered had no translation.
AnsweredWasBlank ==
    \A a \in Actors : work[a].pc = "save" /\ work[a].body \in Answer =>
        work[a].body.force \/ \A l \in work[a].body.answered :
                                  work[a].body.read.lines[l].tr = NoTr

Inv == TypeOK /\ CopyIsCurrent /\ ReadATranscript /\ AnsweredWasBlank

Begins(a) == \/ a \in Requests /\ RequestLoad(a)
             \/ a \in Runs /\ RunLoad(a)

Fits(d) ==
    d.transcript # NoTranscript =>
        \A l \in Lines : LET line == d.transcript.lines[l] IN
            line.tr.by \in Runs => line.tr.words = line.text
-----------------------------------------------------------------------------
\* The kinds of bodies are told apart by their op.
LEMMA BodyKinds ==
    ASSUME NEW b \in Body
    PROVE  /\ b.op = "patch" <=> b \in Patch
           /\ b.op = "edit" <=> b \in Edit
           /\ b.op = "select" <=> b \in Select
           /\ b.op = "transcribe" <=> b \in Transcription
           /\ b.op = "translate" <=> b \in Answer
           /\ b.op = "suggest" <=> b \in Suggestion
BY DEF Body, Patch, Edit, Select, Transcription, Answer, Suggestion

LEMMA NoTranscriptHeard ==
    ASSUME NEW t \in Transcript \cup {NoTranscript}, t.heard \in Runs
    PROVE  t \in Transcript
BY DocAssumption DEF NoTranscript

\* What an edit leaves of a line is a line.
LEMMA CorrectedType ==
    ASSUME NEW line \in Line, NEW b \in Edit
    PROVE  Corrected(line, b) \in Line
<1>1. b.tr \in Translation \cup {NoTr}
  BY DEF Edit, Translation, Actors
<1>2. line.text \in Texts /\ line.tr \in Translation \cup {NoTr}
  BY DEF Line
<1>3. Touched(line, b) => b.text \in Texts
  BY DEF Touched, Edit
<1> QED
  BY <1>1, <1>2, <1>3 DEF Corrected, Line

\* Whatever is folded in, the document keeps its type.
LEMMA ChangedType ==
    ASSUME NEW d \in Doc, NEW b \in Body
    PROVE  Changed(d, b) \in Doc
<1>1. CASE b \in Patch
  <2>1. Changed(d, b) = Patched(d, b)
    BY <1>1, BodyKinds DEF Changed
  <2> QED
    BY <1>1, <2>1 DEF Patched, Patch, Doc
<1>2. CASE b \in Edit
  <2>1. Changed(d, b) = Edited(d, b)
    BY <1>2, BodyKinds DEF Changed
  <2>2. CASE b.heard = d.transcript.heard
    <3>1. d.transcript \in Transcript
      BY <1>2, <2>2, NoTranscriptHeard DEF Doc, Edit
    <3>2. b.line \in Lines /\ Corrected(d.transcript.lines[b.line], b) \in Line
      BY <1>2, <3>1, CorrectedType DEF Edit, Transcript
    <3> QED
      BY <2>1, <2>2, <3>1, <3>2 DEF Edited, Doc, Transcript
  <2> QED
    BY <2>1, <2>2 DEF Edited
<1>3. CASE b \in Select
  <2>1. Changed(d, b) = Selected(d, b)
    BY <1>3, BodyKinds DEF Changed
  <2> QED
    BY <1>3, <2>1 DEF Selected, Select, Doc
<1>4. CASE b \in Transcription
  <2>1. Changed(d, b) = Heard(d, b)
    BY <1>4, BodyKinds DEF Changed
  <2>2. b.new \in Transcript
    BY <1>4 DEF Transcription, Transcript, Line
  <2> QED
    BY <2>1, <2>2 DEF Heard, Doc
<1>5. CASE b \in Answer
  <2>1. Changed(d, b) = Translated(d, b)
    BY <1>5, BodyKinds DEF Changed
  <2>2. CASE b.read.heard = d.transcript.heard
    <3>1. d.transcript \in Transcript
      BY <1>5, <2>2, NoTranscriptHeard DEF Doc, Answer, Transcript
    <3>2. \A l \in Lines : b.read.lines[l].text \in Texts /\ b.by \in Actors
      BY <1>5 DEF Answer, Transcript, Line, Actors
    <3>3. \A l \in Lines : /\ d.transcript.lines[l] \in Line
                           /\ Folded(d.transcript.lines[l], b.read.lines[l], b.by) \in Line
      BY <3>1, <3>2 DEF Transcript, Line, Translation, Folded
    <3> DEFINE new == [l \in Lines |->
                         IF l \in b.answered
                         THEN Folded(d.transcript.lines[l], b.read.lines[l], b.by)
                         ELSE d.transcript.lines[l]]
    <3>4. new \in [Lines -> Line]
      BY <3>3
    <3>5. Changed(d, b) = [d EXCEPT !.transcript.lines = new]
      BY <2>1, <2>2 DEF Translated
    <3> HIDE DEF new
    <3> QED
      BY <3>1, <3>4, <3>5 DEF Doc, Transcript
  <2> QED
    BY <2>1, <2>2 DEF Translated
<1>6. CASE b \in Suggestion
  <2>1. Changed(d, b) = Suggested(d, b)
    BY <1>6, BodyKinds DEF Changed
  <2> QED
    BY <1>6, <2>1 DEF Suggested, Suggestion, Doc
<1> QED
  BY <1>1, <1>2, <1>3, <1>4, <1>5, <1>6 DEF Body

\* Whatever is folded in, translations keep fitting.
LEMMA ChangedFits ==
    ASSUME NEW d \in Doc, NEW b \in Body, Fits(d)
    PROVE  Fits(Changed(d, b))
<1> SUFFICES ASSUME Changed(d, b).transcript # NoTranscript, NEW l \in Lines,
                    Changed(d, b).transcript.lines[l].tr.by \in Runs
             PROVE  Changed(d, b).transcript.lines[l].tr.words =
                    Changed(d, b).transcript.lines[l].text
  BY DEF Fits
<1>0. Changed(d, b).transcript = d.transcript =>
        Changed(d, b).transcript.lines[l].tr.words = Changed(d, b).transcript.lines[l].text
  BY DEF Fits
<1>1. CASE b \in Patch \cup Select \cup Suggestion
  <2>1. Changed(d, b).transcript = d.transcript
    BY <1>1, BodyKinds DEF Changed, Patched, Selected, Suggested, Doc
  <2> QED
    BY <1>0, <2>1
<1>2. CASE b \in Edit
  <2>1. Changed(d, b) = Edited(d, b)
    BY <1>2, BodyKinds DEF Changed
  <2>2. CASE b.heard = d.transcript.heard
    <3>1. d.transcript \in Transcript
      BY <1>2, <2>2, NoTranscriptHeard DEF Doc, Edit
    <3>2. CASE b.line = l
      <4>1. Changed(d, b).transcript.lines[l] = Corrected(d.transcript.lines[l], b)
        BY <2>1, <2>2, <3>1, <3>2 DEF Edited, Doc, Transcript
      <4>2. b.tr.by \notin Runs /\ NoTr.by \notin Runs
        BY <1>2, DocAssumption DEF Edit, NoTr
      <4>3. /\ ~b.given /\ ~Touched(d.transcript.lines[l], b)
            /\ Corrected(d.transcript.lines[l], b).tr = d.transcript.lines[l].tr
            /\ Corrected(d.transcript.lines[l], b).text = d.transcript.lines[l].text
        BY <4>1, <4>2 DEF Corrected
      <4>4. d.transcript # NoTranscript
        BY <3>1, DocAssumption DEF Transcript, NoTranscript
      <4> QED
        BY <4>1, <4>3, <4>4 DEF Fits
    <3>3. CASE b.line # l
      <4>1. Changed(d, b).transcript.lines[l] = d.transcript.lines[l]
        BY <2>1, <2>2, <3>1, <3>3 DEF Edited, Doc, Transcript
      <4>2. d.transcript # NoTranscript
        BY <3>1, DocAssumption DEF Transcript, NoTranscript
      <4> QED
        BY <4>1, <4>2 DEF Fits
    <3> QED
      BY <3>2, <3>3
  <2> QED
    BY <1>0, <2>1, <2>2 DEF Edited
<1>3. CASE b \in Transcription
  <2>1. Changed(d, b).transcript = b.new
    BY <1>3, BodyKinds DEF Changed, Heard, Doc
  <2>2. b.new.lines[l].tr = NoTr
    BY <1>3 DEF Transcription
  <2> QED
    BY <2>1, <2>2, DocAssumption DEF NoTr
<1>4. CASE b \in Answer
  <2>1. Changed(d, b) = Translated(d, b)
    BY <1>4, BodyKinds DEF Changed
  <2>2. CASE b.read.heard = d.transcript.heard
    <3>1. d.transcript \in Transcript
      BY <1>4, <2>2, NoTranscriptHeard DEF Doc, Answer, Transcript
    <3>2. d.transcript # NoTranscript
      BY <3>1, DocAssumption DEF Transcript, NoTranscript
    <3>3. Changed(d, b).transcript.lines[l] =
            IF l \in b.answered
            THEN Folded(d.transcript.lines[l], b.read.lines[l], b.by)
            ELSE d.transcript.lines[l]
      BY <2>1, <2>2, <3>1 DEF Translated, Doc, Transcript
    <3>4. CASE l \in b.answered /\ d.transcript.lines[l] = b.read.lines[l]
      <4>1. d.transcript.lines[l] \in Line
        BY <3>1 DEF Transcript
      <4>2. Changed(d, b).transcript.lines[l] =
              [d.transcript.lines[l] EXCEPT !.tr = [words |-> d.transcript.lines[l].text, by |-> b.by]]
        BY <3>3, <3>4 DEF Folded, Moved
      <4> QED
        BY <4>1, <4>2 DEF Line
    <3>5. CASE ~(l \in b.answered /\ d.transcript.lines[l] = b.read.lines[l])
      <4>1. Changed(d, b).transcript.lines[l] = d.transcript.lines[l]
        BY <3>3, <3>5 DEF Folded, Moved
      <4> QED
        BY <3>2, <4>1 DEF Fits
    <3> QED
      BY <3>4, <3>5
  <2> QED
    BY <1>0, <2>1, <2>2 DEF Translated
<1> QED
  BY <1>1, <1>2, <1>3, <1>4 DEF Body
-----------------------------------------------------------------------------
\* Whoever saves folds its body into the document as it is.
LEMMA Saved ==
    ASSUME Inv, NEW a \in Actors, RequestSave(a) \/ RunSave(a)
    PROVE  /\ work[a].pc = "save" /\ lock = a
           /\ work[a].body \in Body /\ doc \in Doc /\ doc' \in Doc
           /\ doc'.settings = Changed(doc, work[a].body).settings
           /\ doc'.transcript = Changed(doc, work[a].body).transcript
           /\ doc'.ideas = Changed(doc, work[a].body).ideas
           /\ doc'.clips = Changed(doc, work[a].body).clips
           /\ Release(a) /\ UNCHANGED runs
<1> DEFINE b == work[a].body
           new == Changed(doc, b)
<1>1. work[a].pc = "save" /\ Release(a) /\ UNCHANGED runs
  BY DEF RequestSave, RunSave
<1>2. b \in Body /\ doc \in Doc
  BY <1>1 DEF Inv, TypeOK, Idle, Over
<1>3. work[a].copy = doc /\ lock = a
  BY <1>1 DEF Inv, CopyIsCurrent
<1>4. new \in Doc
  BY <1>2, ChangedType
<1>5. CASE Save(new)
  <2>1. doc' = [new EXCEPT !.old = FALSE]
    BY <1>5 DEF Save
  <2> HIDE DEF new
  <2>2. doc' \in Doc /\ doc'.settings = new.settings /\ doc'.transcript = new.transcript
        /\ doc'.ideas = new.ideas /\ doc'.clips = new.clips
    BY <1>4, <2>1 DEF Doc
  <2> QED
    BY <1>1, <1>2, <1>3, <2>2 DEF new
<1>6. CASE b.op = "patch" /\ SaveSettings(new)
  <2>1. doc' = [doc EXCEPT !.settings = new.settings]
    BY <1>6 DEF SaveSettings
  <2>2. new.transcript = doc.transcript /\ new.ideas = doc.ideas /\ new.clips = doc.clips
    BY <1>2, <1>6 DEF Changed, Patched, Doc
  <2> HIDE DEF new
  <2>3. doc' \in Doc /\ doc'.settings = new.settings /\ doc'.transcript = doc.transcript
        /\ doc'.ideas = doc.ideas /\ doc'.clips = doc.clips
    BY <1>2, <1>4, <2>1 DEF Doc
  <2> QED
    BY <1>1, <1>2, <1>3, <2>2, <2>3 DEF new
<1> QED
  BY <1>3, <1>5, <1>6 DEF RequestSave, RunSave

\* A step begins a read-modify-write, ends one, or leaves the row alone.
LEMMA Loaded ==
    ASSUME Inv, NEW a \in Actors, Begins(a)
    PROVE  \E b \in Body :
             /\ Load(a, b) /\ UNCHANGED doc
             /\ b \in Answer => b.force \/ \A l \in b.answered : b.read.lines[l].tr = NoTr
<1>1. CASE a \in Requests /\ RequestLoad(a)
  <2>1. CASE \E b \in Patch : Load(a, b) /\ UNCHANGED <<doc, runs>>
    BY <2>1 DEF Body, Patch, Answer
  <2>2. CASE \E b \in EditsOf(a) : Load(a, b) /\ UNCHANGED <<doc, runs>>
    <3>1. EditsOf(a) \subseteq Edit
      BY <1>1 DEF EditsOf, Edit
    <3> QED
      BY <2>2, <3>1 DEF Body, Edit, Answer
  <2>3. CASE Load(a, [op |-> "select", clips |-> a]) /\ UNCHANGED <<doc, runs>>
    <3>1. [op |-> "select", clips |-> a] \in Select
      BY <1>1 DEF Select
    <3> QED
      BY <2>3, <3>1 DEF Body, Select, Answer
  <2> QED
    BY <1>1, <2>1, <2>2, <2>3 DEF RequestLoad
<1>2. CASE a \in Runs /\ RunLoad(a)
  <2>1. PICK b \in Results(a) : Load(a, b)
    BY <1>2 DEF RunLoad
  <2>2. KindOf[a] \in Kinds /\ runs[a].pc = "work" /\ UNCHANGED doc
    BY <1>2, DocAssumption DEF RunLoad
  <2>3. CASE KindOf[a] = "transcribe"
    <3>1. PICK said \in [Lines -> Texts] :
            b = [op |-> "transcribe",
                 new |-> [heard |-> a, lines |-> [l \in Lines |-> [text |-> said[l], tr |-> NoTr]]]]
      BY <2>1, <2>3 DEF Results
    <3>2. b \in Transcription
      BY <1>2, <3>1 DEF Transcription
    <3> QED
      BY <2>1, <2>2, <3>2 DEF Body, Transcription, Answer
  <2>4. CASE KindOf[a] = "translate"
    <3>1. runs[a].read \in Transcript
      BY <1>2, <2>2, <2>4 DEF Inv, ReadATranscript
    <3>2. PICK force \in BOOLEAN : \E lines \in SUBSET Sent(runs[a].read, force) :
            b = [op |-> "translate", by |-> a, read |-> runs[a].read, force |-> force,
                 answered |-> lines]
      BY <2>1, <2>4 DEF Results
    <3>3. b \in Answer
      BY <1>2, <3>1, <3>2 DEF Answer, Sent
    <3>4. b.force \/ \A l \in b.answered : b.read.lines[l].tr = NoTr
      BY <3>2 DEF Sent
    <3> QED
      BY <2>1, <2>2, <3>3, <3>4 DEF Body
  <2>5. CASE KindOf[a] = "suggest"
    <3>1. b = [op |-> "suggest", ideas |-> a]
      BY <2>1, <2>5 DEF Results
    <3>2. b \in Suggestion
      BY <1>2, <3>1 DEF Suggestion
    <3> QED
      BY <2>1, <2>2, <3>2 DEF Body, Suggestion, Answer
  <2> QED
    BY <2>2, <2>3, <2>4, <2>5 DEF Kinds
<1> QED
  BY <1>1, <1>2 DEF Begins
-----------------------------------------------------------------------------
\* What work, lock and the rest of the row may become in one step.

LEMMA BeginKeeps ==
    ASSUME Inv, NEW a \in Actors, NEW b \in Body, Load(a, b), UNCHANGED doc,
           b \in Answer => b.force \/ \A l \in b.answered : b.read.lines[l].tr = NoTr
    PROVE  /\ doc' \in Doc /\ lock' \in Actors \cup {"none"}
           /\ work' \in [Actors -> {Idle, Over} \cup [pc : {"save"}, copy : Doc, body : Body]]
           /\ CopyIsCurrent' /\ AnsweredWasBlank'
<1>1. /\ work \in [Actors -> {Idle, Over} \cup [pc : {"save"}, copy : Doc, body : Body]]
      /\ doc \in Doc
  BY DEF Inv, TypeOK
<1> DEFINE begun == [pc |-> "save", copy |-> doc, body |-> b]
<1>2. work' = [work EXCEPT ![a] = begun] /\ lock = "none" /\ lock' = a /\ doc' = doc
  BY DEF Load
<1>3. begun \in [pc : {"save"}, copy : Doc, body : Body]
  BY <1>1
<1>4. \A x \in Actors : work[x].pc # "save"
  BY <1>2, DocAssumption DEF Inv, CopyIsCurrent, Actors
<1>5. \A x \in Actors : work'[x] = IF x = a THEN begun ELSE work[x]
  BY <1>1, <1>2
<1>6. CopyIsCurrent'
  BY <1>2, <1>4, <1>5 DEF CopyIsCurrent
<1>7. AnsweredWasBlank'
  BY <1>4, <1>5 DEF AnsweredWasBlank
<1> QED
  BY <1>1, <1>2, <1>3, <1>6, <1>7

LEMMA EndKeeps ==
    ASSUME Inv, NEW a \in Actors, work[a].pc = "save", Release(a), doc' \in Doc
    PROVE  /\ lock' \in Actors \cup {"none"}
           /\ work' \in [Actors -> {Idle, Over} \cup [pc : {"save"}, copy : Doc, body : Body]]
           /\ CopyIsCurrent' /\ AnsweredWasBlank'
<1>1. /\ work \in [Actors -> {Idle, Over} \cup [pc : {"save"}, copy : Doc, body : Body]]
      /\ lock = a
  BY DEF Inv, TypeOK, CopyIsCurrent
<1>2. work' = [work EXCEPT ![a] = Over] /\ lock' = "none"
  BY <1>1 DEF Release
<1>3. \A x \in Actors : work'[x] = IF x = a THEN Over ELSE work[x]
  BY <1>1, <1>2
<1>4. \A x \in Actors : work'[x].pc # "save"
  BY <1>1, <1>3 DEF Inv, CopyIsCurrent, Over
<1>5. CopyIsCurrent' /\ AnsweredWasBlank'
  BY <1>4 DEF CopyIsCurrent, AnsweredWasBlank
<1> QED
  BY <1>1, <1>2, <1>5

LEMMA RunsKeep ==
    ASSUME Inv, [Next]_vars
    PROVE  /\ runs' \in [Runs -> [pc : {"new", "work", "end"},
                                   read : Transcript \cup {NoTranscript}]]
           /\ ReadATranscript'
<1>1. /\ runs \in [Runs -> [pc : {"new", "work", "end"},
                             read : Transcript \cup {NoTranscript}]]
      /\ ReadATranscript
  BY DEF Inv, TypeOK
<1>2. CASE UNCHANGED runs
  BY <1>1, <1>2 DEF ReadATranscript
<1>3. ASSUME NEW r \in Runs, RunRead(r)
      PROVE  /\ runs' \in [Runs -> [pc : {"new", "work", "end"},
                                     read : Transcript \cup {NoTranscript}]]
             /\ ReadATranscript'
  <2>1. doc.transcript \in Transcript \cup {NoTranscript}
    BY DEF Inv, TypeOK, Doc
  <2>2. runs' = [runs EXCEPT ![r] = [pc |-> "work", read |-> doc.transcript]]
    BY <1>3 DEF RunRead
  <2>3. KindOf[r] # "transcribe" => doc.transcript \in Transcript
    BY <1>3, <2>1 DEF RunRead
  <2> QED
    BY <1>1, <2>1, <2>2, <2>3 DEF ReadATranscript
<1>4. ASSUME NEW r \in Runs, RunStops(r) \/ RunLoad(r)
      PROVE  /\ runs' \in [Runs -> [pc : {"new", "work", "end"},
                                     read : Transcript \cup {NoTranscript}]]
             /\ ReadATranscript'
  <2>1. runs' = [runs EXCEPT ![r].pc = "end"]
    BY <1>4 DEF RunStops, RunLoad
  <2> QED
    BY <1>1, <2>1 DEF ReadATranscript
<1>5. CASE Next
  BY <1>2, <1>3, <1>4, <1>5
     DEF Next, RequestLoad, RequestSave, Rollback, RunSave
<1> QED
  BY <1>2, <1>5 DEF vars

\* What the steps do to the row and to the actors, one case per kind of step.
LEMMA StepKinds ==
    ASSUME Inv, [Next]_vars
    PROVE  \/ \E a \in Actors : Begins(a)
           \/ \E a \in Actors : RequestSave(a) \/ RunSave(a)
           \/ \E a \in Actors : Rollback(a)
           \/ UNCHANGED <<doc, lock, work>>
BY DEF Next, vars, Actors, Begins, RunRead, RunStops

LEMMA InvHolds == Init => Inv
<1> SUFFICES ASSUME Init PROVE Inv
  OBVIOUS
<1>1. doc \in Doc
  <2>1. (CHOOSE v \in Values : TRUE) \in Values
    BY DocAssumption
  <2> QED
    BY <2>1 DEF Init, Doc
<1>2. work \in [Actors -> {Idle, Over} \cup [pc : {"save"}, copy : Doc, body : Body]]
  BY DEF Init
<1>3. runs \in [Runs -> [pc : {"new", "work", "end"}, read : Transcript \cup {NoTranscript}]]
  BY DEF Init
<1>4. CopyIsCurrent /\ ReadATranscript /\ AnsweredWasBlank
  BY DEF Init, Idle, CopyIsCurrent, ReadATranscript, AnsweredWasBlank
<1>5. lock \in Actors \cup {"none"}
  BY DEF Init
<1> QED
  BY <1>1, <1>2, <1>3, <1>4, <1>5 DEF Inv, TypeOK

LEMMA InvStep == Inv /\ [Next]_vars => Inv'
<1> SUFFICES ASSUME Inv, [Next]_vars PROVE Inv'
  OBVIOUS
<1> DEFINE RowOK == /\ doc' \in Doc /\ lock' \in Actors \cup {"none"}
                    /\ work' \in [Actors -> {Idle, Over} \cup [pc : {"save"}, copy : Doc, body : Body]]
                    /\ CopyIsCurrent' /\ AnsweredWasBlank'
<1>1. ASSUME NEW a \in Actors, Begins(a)
      PROVE  RowOK
  BY <1>1, Loaded, BeginKeeps
<1>2. ASSUME NEW a \in Actors, RequestSave(a) \/ RunSave(a)
      PROVE  RowOK
  BY <1>2, Saved, EndKeeps
<1>3. ASSUME NEW a \in Actors, Rollback(a)
      PROVE  RowOK
  <2>1. doc' \in Doc /\ work[a].pc = "save" /\ Release(a)
    BY <1>3 DEF Rollback, Inv, TypeOK
  <2> QED
    BY <2>1, EndKeeps
<1>4. ASSUME UNCHANGED <<doc, lock, work>>
      PROVE  RowOK
  BY <1>4 DEF Inv, TypeOK, CopyIsCurrent, AnsweredWasBlank
<1> HIDE DEF RowOK
<1>5. RowOK
  BY <1>1, <1>2, <1>3, <1>4, StepKinds
<1>6. TypeOK'
  BY <1>5, RunsKeep DEF RowOK, TypeOK
<1> QED
  BY <1>5, <1>6, RunsKeep DEF RowOK, Inv

\* Every variable of the document's model keeps its type.
THEOREM DocTypeCorrect == Spec => []TypeOK
<1>1. Inv => TypeOK
  BY DEF Inv
<1> QED
  BY <1>1, InvHolds, InvStep, PTL DEF Spec

\* A machine's translation always renders the words beside it.
THEOREM MachineTranslationsFit == Spec => []TranslationsFit
<1>1. Init => TranslationsFit
  BY DEF Init, TranslationsFit
<1>2. Inv /\ TranslationsFit /\ [Next]_vars => TranslationsFit'
  <2> SUFFICES ASSUME Inv, TranslationsFit, [Next]_vars PROVE TranslationsFit'
    OBVIOUS
  <2>1. ASSUME NEW a \in Actors, RequestSave(a) \/ RunSave(a)
        PROVE  TranslationsFit'
    <3>1. Fits(Changed(doc, work[a].body))
      BY <2>1, Saved, ChangedFits DEF Fits, TranslationsFit
    <3> QED
      BY <2>1, <3>1, Saved DEF Fits, TranslationsFit
  <2>2. ASSUME NEW a \in Actors, Begins(a)
        PROVE  UNCHANGED doc
    BY <2>2, Loaded
  <2>3. ASSUME NEW a \in Actors, Rollback(a)
        PROVE  UNCHANGED doc
    BY <2>3 DEF Rollback
  <2>4. CASE UNCHANGED doc
    BY <2>4 DEF TranslationsFit
  <2> QED
    BY <2>1, <2>2, <2>3, <2>4, StepKinds
<1> QED
  BY <1>1, <1>2, InvHolds, InvStep, PTL DEF Spec
-----------------------------------------------------------------------------
\* Whoever's transaction ends in a step is the one that saves or rolls back.
LEMMA WhoEnds ==
    ASSUME Inv, [Next]_vars, NEW a \in Actors, work[a].pc = "save", work'[a] = Over
    PROVE  RequestSave(a) \/ RunSave(a) \/ Rollback(a)
<1>1. /\ work \in [Actors -> {Idle, Over} \cup [pc : {"save"}, copy : Doc, body : Body]]
      /\ work[a] # Over
  BY DEF Inv, TypeOK, Over
<1>2. ASSUME NEW x \in Actors, Begins(x)
      PROVE  FALSE
  <2>1. PICK b \in Body : Load(x, b)
    BY <1>2, Loaded
  <2>2. work' = [work EXCEPT ![x] = [pc |-> "save", copy |-> doc, body |-> b]]
    BY <2>1 DEF Load
  <2> QED
    BY <1>1, <2>2 DEF Over
<1>3. ASSUME NEW x \in Actors, RequestSave(x) \/ RunSave(x) \/ Rollback(x), x # a
      PROVE  FALSE
  <2>1. work' = [work EXCEPT ![x] = Over]
    BY <1>3 DEF RequestSave, RunSave, Rollback, Release
  <2> QED
    BY <1>1, <1>3, <2>1
<1>4. ~UNCHANGED <<doc, lock, work>>
  BY <1>1
<1> QED
  BY <1>2, <1>3, <1>4, StepKinds

\* What a save leaves of the transcript's lines.
LEMMA EditedLines ==
    ASSUME Inv, NEW a \in Actors, RequestSave(a) \/ RunSave(a), work[a].body \in Edit
    PROVE  /\ doc'.transcript.heard = doc.transcript.heard
           /\ \A l \in Lines : l = work[a].body.line
                             \/ doc'.transcript.lines[l] = doc.transcript.lines[l]
<1> DEFINE b == work[a].body
<1>1. doc \in Doc /\ doc'.transcript = Edited(doc, b).transcript
  BY Saved, BodyKinds DEF Changed
<1>2. CASE b.heard = doc.transcript.heard
  <2>1. doc.transcript \in Transcript
    BY <1>1, <1>2, NoTranscriptHeard DEF Doc, Edit
  <2>2. Edited(doc, b) = [doc EXCEPT !.transcript.lines[b.line] = Corrected(@, b)]
    BY <1>2 DEF Edited
  <2> QED
    BY <1>1, <2>1, <2>2 DEF Doc, Transcript
<1>3. CASE b.heard # doc.transcript.heard
  BY <1>1, <1>3 DEF Edited
<1> QED
  BY <1>2, <1>3

LEMMA TranslatedLines ==
    ASSUME Inv, NEW a \in Actors, RequestSave(a) \/ RunSave(a), work[a].body \in Answer
    PROVE  /\ doc'.transcript.heard = doc.transcript.heard
           /\ \A l \in Lines :
                \/ /\ l \in work[a].body.answered
                   /\ doc.transcript.lines[l] = work[a].body.read.lines[l]
                \/ doc'.transcript.lines[l] = doc.transcript.lines[l]
<1> DEFINE b == work[a].body
<1>1. doc \in Doc /\ doc'.transcript = Translated(doc, b).transcript
  BY Saved, BodyKinds DEF Changed
<1>2. CASE b.read.heard = doc.transcript.heard
  <2>1. doc.transcript \in Transcript
    BY <1>1, <1>2, NoTranscriptHeard DEF Doc, Answer, Transcript
  <2>2. Translated(doc, b) =
          [doc EXCEPT !.transcript.lines =
            [l \in Lines |-> IF l \in b.answered
                             THEN Folded(doc.transcript.lines[l], b.read.lines[l], b.by)
                             ELSE doc.transcript.lines[l]]]
    BY <1>2 DEF Translated
  <2>3. /\ doc'.transcript.heard = doc.transcript.heard
        /\ \A l \in Lines : doc'.transcript.lines[l] =
                           IF l \in b.answered
                           THEN Folded(doc.transcript.lines[l], b.read.lines[l], b.by)
                           ELSE doc.transcript.lines[l]
    BY <1>1, <2>1, <2>2 DEF Doc, Transcript
  <2> QED
    BY <2>3 DEF Folded, Moved
<1>3. CASE b.read.heard # doc.transcript.heard
  BY <1>1, <1>3 DEF Translated
<1> QED
  BY <1>2, <1>3

LEMMA SavesItsOwn ==
    ASSUME Inv, NEW a \in Actors, RequestSave(a) \/ RunSave(a)
    PROVE  OnlyItsOwn(work[a].body)
<1> DEFINE b == work[a].body
<1>1. /\ b \in Body /\ doc \in Doc
      /\ doc'.settings = Changed(doc, b).settings
      /\ doc'.transcript = Changed(doc, b).transcript
      /\ doc'.ideas = Changed(doc, b).ideas
      /\ doc'.clips = Changed(doc, b).clips
  BY Saved
<1>2. CASE b \in Patch
  <2>1. b.op = "patch" /\ Changed(doc, b) = Patched(doc, b)
    BY <1>1, <1>2, BodyKinds DEF Changed
  <2>2. \A f \in Fields : b.field = f \/ doc'.settings[f] = doc.settings[f]
    BY <1>1, <2>1 DEF Patched, Doc
  <2>3. doc'.ideas = doc.ideas /\ doc'.clips = doc.clips /\ doc'.transcript = doc.transcript
    BY <1>1, <2>1 DEF Patched, Doc
  <2> QED
    BY <2>1, <2>2, <2>3 DEF OnlyItsOwn
<1>3. CASE b \in Edit
  <2>1. b.op = "edit" /\ Changed(doc, b) = Edited(doc, b)
    BY <1>1, <1>3, BodyKinds DEF Changed
  <2>2. doc'.settings = doc.settings /\ doc'.ideas = doc.ideas /\ doc'.clips = doc.clips
    BY <1>1, <2>1 DEF Edited, Doc
  <2> QED
    BY <1>3, <2>1, <2>2, EditedLines DEF OnlyItsOwn
<1>4. CASE b \in Select
  <2>1. b.op = "select" /\ Changed(doc, b) = Selected(doc, b)
    BY <1>1, <1>4, BodyKinds DEF Changed
  <2>2. doc'.settings = doc.settings /\ doc'.ideas = doc.ideas /\ doc'.transcript = doc.transcript
    BY <1>1, <2>1 DEF Selected, Doc
  <2> QED
    BY <2>1, <2>2 DEF OnlyItsOwn
<1>5. CASE b \in Transcription
  <2>1. b.op = "transcribe" /\ Changed(doc, b) = Heard(doc, b)
    BY <1>1, <1>5, BodyKinds DEF Changed
  <2>2. doc'.settings = doc.settings /\ doc'.ideas = doc.ideas /\ doc'.clips = doc.clips
    BY <1>1, <2>1 DEF Heard, Doc
  <2> QED
    BY <2>1, <2>2 DEF OnlyItsOwn
<1>6. CASE b \in Answer
  <2>1. b.op = "translate" /\ Changed(doc, b) = Translated(doc, b)
    BY <1>1, <1>6, BodyKinds DEF Changed
  <2>2. doc'.settings = doc.settings /\ doc'.ideas = doc.ideas /\ doc'.clips = doc.clips
    BY <1>1, <2>1 DEF Translated, Doc
  <2> QED
    BY <1>6, <2>1, <2>2, TranslatedLines DEF OnlyItsOwn
<1>7. CASE b \in Suggestion
  <2>1. b.op = "suggest" /\ Changed(doc, b) = Suggested(doc, b)
    BY <1>1, <1>7, BodyKinds DEF Changed
  <2>2. doc'.settings = doc.settings /\ doc'.clips = doc.clips /\ doc'.transcript = doc.transcript
    BY <1>1, <2>1 DEF Suggested, Doc
  <2> QED
    BY <2>1, <2>2 DEF OnlyItsOwn
<1> QED
  BY <1>1, <1>2, <1>3, <1>4, <1>5, <1>6, <1>7 DEF Body

\* No request and no run undoes what another one saved.
THEOREM NothingIsUndone == Spec => NothingUndone
<1>1. ASSUME Inv, [Next]_vars, NEW a \in Actors, work[a].pc = "save", work'[a] = Over
      PROVE  OnlyItsOwn(work[a].body)
  <2>1. CASE Rollback(a)
    BY <2>1 DEF Rollback, OnlyItsOwn
  <2> QED
    BY <1>1, <2>1, WhoEnds, SavesItsOwn
<1>2. Inv /\ [Next]_vars =>
        [\A a \in Actors : work[a].pc = "save" /\ work'[a] = Over
                           => OnlyItsOwn(work[a].body)]_vars
  BY <1>1
<1> QED
  BY <1>2, InvHolds, InvStep, PTL DEF Spec, NothingUndone

\* A translation typed by hand is replaced by no run that was not told to
\* translate every line again.
THEOREM HandWorkIsKept == Spec => HandWorkStays
<1>1. ASSUME Inv, [Next]_vars, NEW r \in Runs, work[r].pc = "save", work'[r] = Over,
             work[r].body.op = "translate", ~work[r].body.force, NEW l \in Lines,
             doc.transcript.lines[l].tr.by \in Requests
      PROVE  doc'.transcript.lines[l].tr = doc.transcript.lines[l].tr
  <2>1. CASE Rollback(r)
    BY <2>1 DEF Rollback
  <2>2. CASE RequestSave(r) \/ RunSave(r)
    <3>1. r \in Actors
      BY DEF Actors
    <3>2. work[r].body \in Answer
      BY <1>1, <2>2, <3>1, Saved, BodyKinds
    <3>3. l \in work[r].body.answered => work[r].body.read.lines[l].tr = NoTr
      BY <1>1, <3>1, <3>2 DEF Inv, AnsweredWasBlank
    <3>4. doc.transcript.lines[l].tr # NoTr
      BY <1>1, DocAssumption DEF NoTr
    <3> QED
      BY <1>1, <2>2, <3>1, <3>2, <3>3, <3>4, TranslatedLines
  <2> QED
    BY <1>1, <2>1, <2>2, WhoEnds DEF Actors
<1>2. Inv /\ [Next]_vars =>
        [\A r \in Runs :
           /\ work[r].pc = "save" /\ work'[r] = Over
           /\ work[r].body.op = "translate" /\ ~work[r].body.force
           => \A l \in Lines : LET tr == doc.transcript.lines[l].tr IN
                tr.by \in Requests => doc'.transcript.lines[l].tr = tr]_vars
  BY <1>1
<1> QED
  BY <1>2, InvHolds, InvStep, PTL DEF Spec, HandWorkStays
=============================================================================

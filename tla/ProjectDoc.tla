----------------------------- MODULE ProjectDoc -----------------------------
(***************************************************************************)
(* The document of one imported project (app/store.py): one JSON value,    *)
(* read, changed and written whole, or its settings alone, by the routes   *)
(* of the producer's tabs (app/api/projects/documents.py) and by the       *)
(* handlers of transcription, translation and suggestions, which read it   *)
(* first, work for minutes and fold their result into it as it is then.    *)
(*                                                                         *)
(* Every read-modify-write locks the row (get_row(for_update=True),        *)
(* load_settings) from its read to its commit.                             *)
(***************************************************************************)
EXTENDS Integers, FiniteSets

CONSTANTS
    Requests,  \* requests of the tabs, each made once
    Runs,      \* runs of handlers
    KindOf,    \* KindOf[r]: what run r does
    Fields,    \* settings: of language, export, subtitle_style, transition
    Values,    \* values of a setting
    Lines,     \* lines of a transcript, by position
    Texts      \* what a line may say

Kinds == {"transcribe", "translate", "suggest"}

ASSUME DocAssumption ==
    /\ KindOf \in [Runs -> Kinds]
    /\ Requests \cap Runs = {}
    /\ "none" \notin Requests \cup Runs \cup Texts
    /\ Values # {} /\ Texts # {}

VARIABLES
    doc,   \* the projects row: its document
    lock,  \* who holds the row's lock, or "none"
    work,  \* work[a]: the read-modify-write actor a is at
    runs   \* runs[r]: a run of a handler

vars == <<doc, lock, work, runs>>
-----------------------------------------------------------------------------
Actors == Requests \cup Runs

\* A translation: the words it renders, and the request (by hand) or the run
\* that wrote it.
Translation == [words : Texts, by : Actors]

NoTr == [words |-> "none", by |-> "none"]

Line == [text : Texts, tr : Translation \cup {NoTr}]

\* heard: the run that made it, whose lines have ids of their own (uuid4).
Transcript == [heard : Runs, lines : [Lines -> Line]]

NoTranscript == [heard |-> "none", lines |-> <<>>]

\* old: of an earlier schema, migrated when read whole.
Doc == [old : BOOLEAN, settings : [Fields -> Values],
        transcript : Transcript \cup {NoTranscript},
        ideas : Runs \cup {"none"}, clips : Requests \cup {"none"}]

\* What is to be written: the body of a request, the result of a handler.
Patch == [op : {"patch"}, field : Fields, value : Values]

Edit == [op : {"edit"}, heard : Runs, line : Lines, text : Texts \cup {"none"},
         tr : [words : Texts, by : Requests] \cup {NoTr}, given : BOOLEAN]

Select == [op : {"select"}, clips : Requests]

Transcription ==
    [op : {"transcribe"},
     new : [heard : Runs, lines : [Lines -> [text : Texts, tr : {NoTr}]]]]

Answer == [op : {"translate"}, by : Runs, read : Transcript, force : BOOLEAN,
           answered : SUBSET Lines]

Suggestion == [op : {"suggest"}, ideas : Runs]

Body == Patch \cup Edit \cup Select \cup Transcription \cup Answer \cup Suggestion

Idle == [pc |-> "idle"]

Over == [pc |-> "over"]

TypeOK ==
    /\ doc \in Doc
    /\ lock \in Actors \cup {"none"}
    /\ work \in [Actors -> {Idle, Over} \cup [pc : {"save"}, copy : Doc, body : Body]]
    /\ runs \in [Runs -> [pc : {"new", "work", "end"},
                          read : Transcript \cup {NoTranscript}]]

Init ==
    /\ doc \in [old : BOOLEAN, settings : {[f \in Fields |-> CHOOSE v \in Values : TRUE]},
                transcript : {NoTranscript}, ideas : {"none"}, clips : {"none"}]
    /\ lock = "none"
    /\ work = [a \in Actors |-> Idle]
    /\ runs = [r \in Runs |-> [pc |-> "new", read |-> NoTranscript]]
-----------------------------------------------------------------------------
\* store.py.

\* Mutated: the row is read without FOR UPDATE.
LoadUnlocked(a, body) ==
    /\ work[a] = Idle
    /\ work' = [work EXCEPT ![a] = [pc |-> "save", copy |-> doc, body |-> body]]
    /\ UNCHANGED lock

\* load(for_update), load_settings: the row is locked, and read under the lock.
Load(a, body) ==
    /\ work[a] = Idle /\ lock = "none"
    /\ work' = [work EXCEPT ![a] = [pc |-> "save", copy |-> doc, body |-> body]]
    /\ lock' = a

\* The end of the transaction.
Release(a) ==
    /\ work' = [work EXCEPT ![a] = Over]
    /\ lock' = IF lock = a THEN "none" ELSE lock

\* save: the document goes back whole, in the schema of now.
Save(new) == doc' = [new EXCEPT !.old = FALSE]

\* save_settings: its own sections are merged into the stored document.
SaveSettings(new) == doc' = [doc EXCEPT !.settings = new.settings]
-----------------------------------------------------------------------------
\* documents.py: what the routes change.

\* update_project: one field is sent.
Patched(copy, body) == [copy EXCEPT !.settings[body.field] = body.value]

\* update_transcript.  A correction of the words clears the translation unless
\* the same edit gives the line a new one, or an empty one.
Touched(line, body) == body.text # "none" /\ body.text # line.text

\* Mutated: a correction keeps the translation of the old words.
CorrectedOnly(line, body) ==
    [text |-> IF Touched(line, body) THEN body.text ELSE line.text,
     tr   |-> IF body.given THEN body.tr ELSE line.tr]

Corrected(line, body) ==
    [text |-> IF Touched(line, body) THEN body.text ELSE line.text,
     tr   |-> IF body.given THEN body.tr
              ELSE IF Touched(line, body) THEN NoTr ELSE line.tr]

\* An id of an earlier transcript matches nothing.
Edited(copy, body) ==
    IF body.heard = copy.transcript.heard
    THEN [copy EXCEPT !.transcript.lines[body.line] = Corrected(@, body)]
    ELSE copy

\* select_ranges
Selected(copy, body) == [copy EXCEPT !.clips = body.clips]
-----------------------------------------------------------------------------
\* What the handlers fold in.

\* handle_transcribe: a new transcript in the place of the old one.
Heard(copy, body) == [copy EXCEPT !.transcript = body.new]

\* Mutated: only the words are compared.
TextMoved(line, read) == line.text # read.text

\* handle_translate: a line takes its new translation only if neither its
\* text nor its translation moved since it was read.
Moved(line, read) == line # read

Folded(line, read, by) ==
    IF Moved(line, read) THEN line
    ELSE [line EXCEPT !.tr = [words |-> read.text, by |-> by]]

\* Lines are matched by id: those of another transcript match nothing.
Translated(copy, body) ==
    IF body.read.heard # copy.transcript.heard THEN copy
    ELSE [copy EXCEPT !.transcript.lines =
            [l \in Lines |-> IF l \in body.answered
                             THEN Folded(copy.transcript.lines[l], body.read.lines[l], body.by)
                             ELSE copy.transcript.lines[l]]]

\* handle_suggest
Suggested(copy, body) == [copy EXCEPT !.ideas = body.ideas]

Changed(copy, body) ==
    CASE body.op = "patch"      -> Patched(copy, body)
      [] body.op = "edit"       -> Edited(copy, body)
      [] body.op = "select"     -> Selected(copy, body)
      [] body.op = "transcribe" -> Heard(copy, body)
      [] body.op = "translate"  -> Translated(copy, body)
      [] body.op = "suggest"    -> Suggested(copy, body)
-----------------------------------------------------------------------------
\* A request.  A tab may show any transcript there ever was: it names lines by
\* the ids it knows, and translates the words it sees.
EditsOf(c) ==
    {e \in [op : {"edit"}, heard : Runs, line : Lines, text : Texts \cup {"none"},
            tr : [words : Texts, by : {c}] \cup {NoTr}, given : BOOLEAN] :
        e.given \/ (e.tr = NoTr /\ e.text # "none")}

RequestLoad(c) ==
    \/ \E b \in Patch : Load(c, b) /\ UNCHANGED <<doc, runs>>
    \/ \E b \in EditsOf(c) :
         doc.transcript # NoTranscript /\ Load(c, b) /\ UNCHANGED <<doc, runs>>
    \/ Load(c, [op |-> "select", clips |-> c]) /\ UNCHANGED <<doc, runs>>

\* update_project writes the settings alone, unless the document is old.
RequestSave(c) ==
    /\ work[c].pc = "save"
    /\ LET copy == work[c].copy
           body == work[c].body IN
       IF body.op = "patch" /\ ~copy.old THEN SaveSettings(Changed(copy, body))
                                         ELSE Save(Changed(copy, body))
    /\ Release(c)
    /\ UNCHANGED runs

\* Any transaction may end without its commit.
Rollback(a) ==
    /\ work[a].pc = "save"
    /\ Release(a)
    /\ UNCHANGED <<doc, runs>>
-----------------------------------------------------------------------------
\* A run: it reads the document without a lock, works, and folds.
RunRead(r) ==
    /\ runs[r].pc = "new"
    /\ KindOf[r] # "transcribe" => doc.transcript # NoTranscript
    /\ runs' = [runs EXCEPT ![r] = [pc |-> "work", read |-> doc.transcript]]
    /\ UNCHANGED <<doc, lock, work>>

\* The run fails, or is cancelled: a translation folds what came back first.
RunStops(r) ==
    /\ runs[r].pc = "work"
    /\ runs' = [runs EXCEPT ![r].pc = "end"]
    /\ UNCHANGED <<doc, lock, work>>

\* translate_transcript: without force, only lines with no translation are sent.
Sent(read, force) == {l \in Lines : force \/ read.lines[l].tr = NoTr}

Results(r) ==
    CASE KindOf[r] = "transcribe" ->
           {[op |-> "transcribe",
             new |-> [heard |-> r, lines |-> [l \in Lines |-> [text |-> said[l], tr |-> NoTr]]]]
            : said \in [Lines -> Texts]}
      [] KindOf[r] = "translate" ->
           LET read == runs[r].read IN
           UNION {{[op |-> "translate", by |-> r, read |-> read, force |-> force,
                    answered |-> lines] : lines \in SUBSET Sent(read, force)}
                  : force \in BOOLEAN}
      [] KindOf[r] = "suggest" -> {[op |-> "suggest", ideas |-> r]}

RunLoad(r) ==
    /\ runs[r].pc = "work"
    /\ \E b \in Results(r) : Load(r, b)
    /\ runs' = [runs EXCEPT ![r].pc = "end"]
    /\ UNCHANGED doc

RunSave(r) ==
    /\ work[r].pc = "save"
    /\ Save(Changed(work[r].copy, work[r].body))
    /\ Release(r)
    /\ UNCHANGED runs
-----------------------------------------------------------------------------
Next ==
    \/ \E c \in Requests : RequestLoad(c) \/ RequestSave(c) \/ Rollback(c)
    \/ \E r \in Runs : RunRead(r) \/ RunStops(r) \/ RunLoad(r) \/ RunSave(r) \/ Rollback(r)

Spec == Init /\ [][Next]_vars
-----------------------------------------------------------------------------
\* A machine's translation renders the words beside it, whatever was corrected
\* or heard anew while it was made.
TranslationsFit ==
    doc.transcript # NoTranscript =>
        \A l \in Lines : LET line == doc.transcript.lines[l] IN
            line.tr.by \in Runs => line.tr.words = line.text

\* What the end of a transaction may leave changed in the document.
OnlyItsOwn(b) ==
    /\ \A f \in Fields : (b.op = "patch" /\ b.field = f) \/ doc'.settings[f] = doc.settings[f]
    /\ b.op = "suggest" \/ doc'.ideas = doc.ideas
    /\ b.op = "select" \/ doc'.clips = doc.clips
    /\ b.op \in {"edit", "translate", "transcribe"} \/ doc'.transcript = doc.transcript
    /\ b.op \in {"edit", "translate"} =>
         /\ doc'.transcript.heard = doc.transcript.heard
         /\ \A l \in Lines :
              \/ b.op = "edit" /\ b.line = l
              \/ b.op = "translate" /\ doc.transcript.lines[l] = b.read.lines[l]
              \/ doc'.transcript.lines[l] = doc.transcript.lines[l]

\* No request and no run undoes what another one saved: it changes its own
\* part of the document as that is when it commits, however long ago it began,
\* and a translation only lines that nobody touched since it read them.
NothingUndone ==
    [][\A a \in Actors :
         work[a].pc = "save" /\ work'[a] = Over => OnlyItsOwn(work[a].body)]_vars

\* A translation typed by the producer is never replaced by a run that was not
\* told to translate every line again.
HandWorkStays ==
    [][\A r \in Runs :
         /\ work[r].pc = "save" /\ work'[r] = Over
         /\ work[r].body.op = "translate" /\ ~work[r].body.force
         => \A l \in Lines : LET tr == doc.transcript.lines[l].tr IN
              tr.by \in Requests => doc'.transcript.lines[l].tr = tr]_vars
=============================================================================

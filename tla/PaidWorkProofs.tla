---------------------------- MODULE PaidWorkProofs ----------------------------
(***************************************************************************)
(* What the work on a project costs and what is left of it.                *)
(*                                                                         *)
(* Of the questions to a language model: no request under way asks for a   *)
(* feature that was refused before, so that each is refused once.          *)
(*                                                                         *)
(* Of the outputs: the files of the item at hand and of the listed rows    *)
(* are no key a deletion is about to remove (FilesInv), and what was paid  *)
(* for a clip that is not stored is in the hands of attempts, of which     *)
(* there are no more than jobs, and rows queued again beside a live one    *)
(* (VoiceInv).                                                             *)
(***************************************************************************)
EXTENDS Asking, Outputs, FiniteSetTheorems, TLAPS

\* The next request leaves out what was refused.
Heeds == body \subseteq Features /\ body \cap dropped = {}

\* Only a dropped feature was ever refused, and that once.
Counted ==
    /\ probes \in [Features -> {0, 1}]
    /\ \A f \in Features : f \notin dropped => probes[f] = 0

AskInv == Heeds /\ Counted
-----------------------------------------------------------------------------
LEMMA WantedFeatures == \A what : Wanted(what) \subseteq Features
  BY DEF Wanted, Features

\* The two ways in which a step goes on.
LEMMA SendHeeds ==
  ASSUME NEW what, NEW k, NEW mended, dropped' = dropped, Send(what, k, mended, dropped)
  PROVE  Heeds'
  BY WantedFeatures DEF Send, Heeds

LEMMA EndHeeds ==
  ASSUME NEW how, Heeds, dropped' = dropped, JobEnds(how)
  PROVE  Heeds'
  BY DEF JobEnds, Heeds

LEMMA ChunkHeeds ==
  ASSUME NEW taken, Heeds, dropped' = dropped, NextChunk(taken)
  PROVE  Heeds'
  BY SendHeeds, EndHeeds DEF NextChunk

LEMMA FinishHeeds ==
  ASSUME NEW shorts, Heeds, dropped' = dropped, Finish(shorts)
  PROVE  Heeds'
  BY SendHeeds, EndHeeds DEF Finish

LEMMA GatheredHeeds ==
  ASSUME NEW shorts, Heeds, dropped' = dropped, Gathered(shorts)
  PROVE  Heeds'
  BY SendHeeds, EndHeeds, FinishHeeds DEF Gathered

LEMMA AskInitially == AskInit => AskInv
  BY WantedFeatures DEF AskInit, AskInv, Heeds, Counted

\* A refused feature was not dropped yet, so this is its first refusal.
LEMMA RefusedKeeps ==
  ASSUME AskInv, NEW f \in Features, FeatureRefused(f)
  PROVE  AskInv'
<1>1. f \in body /\ f \notin dropped /\ probes[f] = 0
  BY DEF AskInv, Heeds, Counted, FeatureRefused
<1>2. Heeds'
  BY DEF AskInv, Heeds, FeatureRefused
<1>3. Counted'
  <2>1. probes' = [probes EXCEPT ![f] = 1] /\ dropped' = dropped \cup {f}
    BY <1>1 DEF FeatureRefused, AskInv, Counted
  <2> QED
    BY <1>1, <2>1 DEF AskInv, Counted
<1> QED
  BY <1>2, <1>3 DEF AskInv

LEMMA AskNextKeeps == AskInv /\ [AskNext]_askVars => AskInv'
<1> SUFFICES ASSUME AskInv, [AskNext]_askVars PROVE AskInv'
  OBVIOUS
<1>1. ASSUME NEW f \in Features, FeatureRefused(f) PROVE AskInv'
  BY <1>1, RefusedKeeps
<1>2. ASSUME UNCHANGED <<dropped, probes>>, Heeds' PROVE AskInv'
  BY <1>2 DEF AskInv, Counted
<1>3. Heeds
  BY DEF AskInv
<1>4. CASE TooLong
  <2>1. Heeds'
    BY <1>4, WantedFeatures DEF TooLong, Heeds
  <2> QED
    BY <1>2, <1>4, <2>1 DEF TooLong
<1>5. CASE Lined
  BY <1>2, <1>3, <1>5, ChunkHeeds DEF Lined
<1>6. CASE Validated
  <2>1. UNCHANGED <<dropped, probes>>
    BY <1>6 DEF Validated
  <2>2. \/ \E shorts : Finish(shorts)
        \/ Send("shorts", 1, TRUE, dropped)
        \/ JobEnds("unusable") \/ JobEnds("malformed")
    BY <1>6 DEF Validated
  <2> QED
    BY <1>2, <1>3, <2>1, <2>2, FinishHeeds, SendHeeds, EndHeeds
<1>7. CASE Candidates
  <2>1. UNCHANGED <<dropped, probes>>
    BY <1>7 DEF Candidates
  <2>2. \/ \E shorts : Gathered(shorts)
        \/ Send("shorts", portion, TRUE, dropped)
        \/ JobEnds("malformed")
    BY <1>7 DEF Candidates
  <2> QED
    BY <1>2, <1>3, <2>1, <2>2, GatheredHeeds, SendHeeds, EndHeeds
<1>8. CASE Picked
  <2>1. UNCHANGED <<dropped, probes>>
    BY <1>8 DEF Picked
  <2>2. \/ \E shorts : Finish(shorts)
        \/ Send("pick", 1, TRUE, dropped)
        \/ JobEnds("failed")
    BY <1>8 DEF Picked
  <2> QED
    BY <1>2, <1>3, <2>1, <2>2, FinishHeeds, SendHeeds, EndHeeds
<1>9. CASE Localized
  BY <1>2, <1>3, <1>9, EndHeeds DEF Localized
<1>10. CASE Unanswered
  BY <1>2, <1>3, <1>10, EndHeeds, ChunkHeeds DEF Unanswered
<1>11. CASE Stops
  BY <1>2, <1>3, <1>11, EndHeeds DEF Stops
<1>12. CASE UNCHANGED askVars
  BY <1>2, <1>3, <1>12 DEF askVars, Heeds
<1> QED
  BY <1>1, <1>4, <1>5, <1>6, <1>7, <1>8, <1>9, <1>10, <1>11, <1>12 DEF AskNext

\* A feature the model refuses costs a job one refused request, however many
\* calls, repairs and wider retries it makes.
THEOREM ProbedOnce == AskSpec => []OneProbePerFeature
<1>1. AskInv => OneProbePerFeature
  BY DEF AskInv, Counted, OneProbePerFeature
<1> QED
  BY <1>1, AskInitially, AskNextKeeps, PTL DEF AskSpec
-----------------------------------------------------------------------------

States == {"queued", "running", "done", "failed", "canceled", "dropped"}
OfExport == [state : States, tries : Nat, cancel : BOOLEAN]

\* An attempt, whatever the rows it may have found.
Attempts(rows) ==
    [job : Exports \cup {"none"}, token : Nat,
     pc : {"idle", "fetch", "voice", "buy", "keep", "beds", "separate", "render", "put", "srt", "find", "commit"},
     todo : SUBSET (Spoken \cup Ranges), items : Nat, item : Nat, srt : BOOLEAN, found : rows, told : BOOLEAN]

OutKeys == [of : Exports \cup {"old", "none"}, item : Nat, ext : {"mp4", "srt", "none"}]

\* The files of an output are of one job.
OneJob(row) == row.video \in OutKeys /\ row.srt \in OutKeys /\ (row.srt = NoKeyAtAll \/ row.srt.of = row.video.of)

OutTyped ==
    /\ there \in BOOLEAN
    /\ exports \in [Exports -> OfExport]
    /\ \E rows : runs \in [Runs -> Attempts(rows)]
    /\ deletion \in [pc : {"idle", "ask", "remove"}, keys : SUBSET OutKeys]
    /\ \A row \in listed : there /\ OneJob(row)
    /\ \A r \in Runs : runs[r].pc # "idle" => runs[r].job \in Exports

\* What an attempt has uploaded of the item at hand is stored.
Uploaded(t, stored) ==
    /\ t.pc \in {"srt", "find", "commit"} => Key(t.job, t.item, "mp4") \in stored
    /\ t.pc \in {"find", "commit"} /\ t.srt => Key(t.job, t.item, "srt") \in stored

UploadsAreThere == there => \A r \in Runs : Uploaded(runs[r], files \cup hurried)

\* The job is over for good, and no attempt of it is at work.
Closed(e) == /\ e \in Exports => exports[e].state \notin {"queued", "running"}
             /\ \A r \in Runs : runs[r].pc # "idle" => runs[r].job # e

\* A file that is being removed is of a job that is over, and of no other row.
RemovedIsUnused ==
    \A key \in deletion.keys \ hurried :
        /\ Closed(key.of)
        /\ deletion.pc = "remove" => \A row \in listed : key \notin KeysOf(row)

FilesInv == OutTyped /\ UploadsAreThere /\ RemovedIsUnused /\ ListedIsStored
-----------------------------------------------------------------------------
LEMMA NoRunIsIdle == \A rows : NoRow \in rows => NoRun \in Attempts(rows)
BY DEF NoRun, Attempts

LEMMA MoreRows == \A rows, more : rows \subseteq more => Attempts(rows) \subseteq Attempts(more)
BY DEF Attempts

LEMMA FilesInit == OutInit => FilesInv
<1> SUFFICES ASSUME OutInit PROVE FilesInv
  OBVIOUS
<1>1. runs = [r \in Runs |-> NoRun] /\ runs \in [Runs -> Attempts({NoRow})]
  BY NoRunIsIdle DEF OutInit
<1>2. NoRun.pc = "idle"
  BY DEF NoRun
<1>3. exports \in [Exports -> OfExport]
  BY DEF OutInit, OfExport, States
<1>4. deletion \in [pc : {"idle", "ask", "remove"}, keys : SUBSET OutKeys] /\ deletion.keys = {}
  BY DEF OutInit, NoDeletion
<1>5. Old("mp4") \in OutKeys /\ Old("srt") \in OutKeys /\ NoKeyAtAll \in OutKeys
      /\ Old("srt").of = Old("mp4").of
  BY DEF Old, Key, NoKeyAtAll, OutKeys
<1>6. listed = {Row(1, Old("mp4"), NoKeyAtAll), Row(2, Old("mp4"), Old("srt"))}
      /\ files = {Old("mp4"), Old("srt")}
  BY DEF OutInit
<1>7. \A id, video, srt : Row(id, video, srt).video = video /\ Row(id, video, srt).srt = srt
  BY DEF Row
<1>8. \A row \in listed : row.video \in files /\ row.srt \in files \cup {NoKeyAtAll} /\ OneJob(row)
  BY <1>5, <1>6, <1>7 DEF OneJob
<1>9. OutTyped
  BY <1>1, <1>2, <1>3, <1>4, <1>8 DEF OutTyped, OutInit
<1>10. UploadsAreThere /\ RemovedIsUnused
  BY <1>1, <1>2, <1>4 DEF UploadsAreThere, Uploaded, RemovedIsUnused
<1>11. ListedIsStored
  BY <1>8 DEF ListedIsStored, KeysOf
<1> QED
  BY <1>9, <1>10, <1>11 DEF FilesInv

\* A step of one attempt, which may settle its row, store files and list one.
LEMMA AttemptStep ==
  ASSUME FilesInv, NEW r \in Runs, NEW x, \E rows : x \in Attempts(rows),
         runs' = [runs EXCEPT ![r] = x], UNCHANGED <<there, deletion, hurried>>,
         exports' \in [Exports -> OfExport],
         \A e \in Exports : exports[e].state \notin {"queued", "running"} =>
                                exports'[e].state \notin {"queued", "running"},
         files \subseteq files',
         \/ x.pc = "idle"
         \/ runs[r].pc # "idle" /\ x.job = runs[r].job
         \/ x.job \in Exports /\ exports[x.job].state = "queued",
         there => Uploaded(x, files' \cup hurried),
         \A row \in listed' \ listed :
             /\ there /\ OneJob(row) /\ KeysOf(row) \ hurried \subseteq files'
             /\ runs[r].pc # "idle" /\ row.video.of = runs[r].job
  PROVE  FilesInv'
<1>1. PICK some : runs \in [Runs -> Attempts(some)]
  BY DEF FilesInv, OutTyped
<1>2. PICK rows : x \in Attempts(rows)
  OBVIOUS
<1>3. Attempts(some) \subseteq Attempts(some \cup rows) /\ x \in Attempts(some \cup rows)
  BY <1>2, MoreRows
<1>4. runs' \in [Runs -> Attempts(some \cup rows)]
  BY <1>1, <1>3
<1>5. \A q \in Runs : runs'[q] = IF q = r THEN x ELSE runs[q]
  BY <1>1
<1>6. x.pc # "idle" => x.job \in Exports
  BY DEF FilesInv, OutTyped
<1>7. \A row \in listed' : there /\ OneJob(row)
  BY DEF FilesInv, OutTyped
<1>8. OutTyped'
  BY <1>4, <1>5, <1>6, <1>7 DEF FilesInv, OutTyped, OneJob, OutKeys, NoKeyAtAll, Key
<1>9. UploadsAreThere'
  <2> SUFFICES ASSUME there, NEW q \in Runs PROVE Uploaded(runs'[q], files' \cup hurried)
    BY DEF UploadsAreThere, Uploaded, Key
  <2>1. CASE q = r
    BY <1>5, <2>1
  <2>2. CASE q # r
    <3>1. Uploaded(runs[q], files \cup hurried)
      BY DEF FilesInv, UploadsAreThere
    <3> QED
      BY <1>5, <2>2, <3>1 DEF Uploaded
  <2> QED
    BY <2>1, <2>2
<1>10. ASSUME NEW key \in deletion.keys \ hurried
       PROVE  /\ Closed(key.of)'
              /\ deletion.pc = "remove" => \A row \in listed' : key \notin KeysOf(row)
  <2>1. Closed(key.of)
    BY DEF FilesInv, RemovedIsUnused
  <2>2. x.pc # "idle" => x.job # key.of
    BY <2>1 DEF Closed
  <2>3. Closed(key.of)'
    BY <1>5, <2>1, <2>2 DEF Closed
  <2>4. ASSUME NEW row \in listed' \ listed PROVE key \notin KeysOf(row)
    <3>1. row.video.of # key.of
      BY <2>1 DEF Closed
    <3> QED
      BY <3>1 DEF KeysOf, OneJob
  <2>5. deletion.pc = "remove" => \A row \in listed : key \notin KeysOf(row)
    BY DEF FilesInv, RemovedIsUnused
  <2> QED
    BY <2>3, <2>4, <2>5
<1>11. RemovedIsUnused'
  BY <1>10 DEF RemovedIsUnused, KeysOf, NoKeyAtAll, Key
<1>12. ListedIsStored'
  <2> SUFFICES ASSUME NEW row \in listed' PROVE KeysOf(row) \ hurried \subseteq files'
    BY DEF ListedIsStored, KeysOf, NoKeyAtAll, Key
  <2> QED
    BY DEF FilesInv, ListedIsStored
<1> QED
  BY <1>8, <1>9, <1>11, <1>12 DEF FilesInv

\* A step that leaves the attempts alone.
LEMMA BesideAttempts ==
  ASSUME FilesInv, UNCHANGED <<runs, there, deletion, hurried, listed, files>>,
         exports' \in [Exports -> OfExport],
         \A e \in Exports : exports[e].state \notin {"queued", "running"} =>
                                exports'[e].state \notin {"queued", "running"}
  PROVE  FilesInv'
<1>1. OutTyped'
  BY DEF FilesInv, OutTyped, OneJob, OutKeys, NoKeyAtAll, Key
<1>2. UploadsAreThere' /\ ListedIsStored'
  BY DEF FilesInv, UploadsAreThere, Uploaded, Key, ListedIsStored, KeysOf, NoKeyAtAll
<1>3. RemovedIsUnused'
  BY DEF FilesInv, RemovedIsUnused, Closed, KeysOf, NoKeyAtAll, Key
<1> QED
  BY <1>1, <1>2, <1>3 DEF FilesInv

\* An attempt that is over leaves nothing behind.
LEMMA OverKeeps ==
  ASSUME FilesInv, NEW r \in Runs, NEW states \in SUBSET {"queued", "failed", "canceled", "done"},
         Over(r, states), UNCHANGED <<there, deletion, hurried, files, listed>>
  PROVE  FilesInv'
<1>1. \E rows : NoRun \in Attempts(rows)
  <2>1. NoRun \in Attempts({NoRow})
    BY NoRunIsIdle
  <2> QED
    BY <2>1
<1>2. runs' = [runs EXCEPT ![r] = NoRun] /\ NoRun.pc = "idle"
  BY DEF Over, NoRun
<1>3. /\ exports' \in [Exports -> OfExport]
      /\ \A e \in Exports : exports[e].state \notin {"queued", "running"} =>
                                exports'[e].state \notin {"queued", "running"}
  <2>1. exports \in [Exports -> OfExport]
    BY DEF FilesInv, OutTyped
  <2>2. CASE exports' = exports
    BY <2>1, <2>2
  <2>3. ASSUME Owns(r), NEW state \in states,
               exports' = [exports EXCEPT ![runs[r].job].state = state]
        PROVE  /\ exports' \in [Exports -> OfExport]
               /\ \A e \in Exports : exports[e].state \notin {"queued", "running"} =>
                                         exports'[e].state \notin {"queued", "running"}
    <3>1. runs[r].job \in Exports /\ exports[runs[r].job].state = "running" /\ state \in States
      BY <2>3 DEF Owns, States
    <3>2. exports' \in [Exports -> OfExport]
      BY <2>1, <2>3, <3>1 DEF OfExport
    <3> QED
      BY <2>1, <2>3, <3>1, <3>2
  <2> QED
    BY <2>2, <2>3 DEF Over
<1>4. Uploaded(NoRun, files' \cup hurried)
  BY <1>2 DEF Uploaded
<1> HIDE DEF FilesInv
<1> QED
  BY <1>1, <1>2, <1>3, <1>4, AttemptStep

\* An attempt goes on; what it stores is stored, and nothing else changes.
LEMMA GoesOn ==
  ASSUME FilesInv, NEW r \in Runs, NEW x, \E rows : x \in Attempts(rows), runs[r].pc # "idle",
         runs' = [runs EXCEPT ![r] = x], x.job = runs[r].job, files \subseteq files',
         there => Uploaded(x, files' \cup hurried), UNCHANGED <<there, deletion, hurried, exports, listed>>
  PROVE  FilesInv'
<1>1. exports' \in [Exports -> OfExport]
  BY DEF FilesInv, OutTyped
<1> QED
  BY <1>1, AttemptStep

\* What FilesInv says of one attempt.
LEMMA OfAttempt ==
  ASSUME FilesInv, NEW r \in Runs
  PROVE  /\ \E rows : runs[r] \in Attempts(rows)
         /\ there => Uploaded(runs[r], files \cup hurried)
         /\ runs[r].pc # "idle" => runs[r].job \in Exports
BY DEF FilesInv, OutTyped, UploadsAreThere

\* An attempt at another place, with another todo, for other items.
Moved(t, pc, todo, items, item, srt) ==
    [t EXCEPT !.pc = pc, !.todo = todo, !.items = items, !.item = item, !.srt = srt]

\* An attempt moves to a place where it has uploaded nothing of an item.
LEMMA MovesOn ==
  ASSUME FilesInv, NEW r \in Runs, NEW pc \in {"voice", "buy", "keep", "beds", "separate", "render", "put"},
         NEW todo \in SUBSET (Spoken \cup Ranges), NEW items \in Nat, NEW item \in Nat, NEW srt \in BOOLEAN,
         runs[r].pc # "idle", runs' = [runs EXCEPT ![r] = Moved(runs[r], pc, todo, items, item, srt)],
         files \subseteq files', UNCHANGED <<there, deletion, hurried, exports, listed>>
  PROVE  FilesInv'
<1> DEFINE x == Moved(runs[r], pc, todo, items, item, srt)
<1>1. PICK rows : runs[r] \in Attempts(rows)
  BY OfAttempt
<1>2. x \in Attempts(rows) /\ x.pc = pc /\ x.job = runs[r].job
  BY <1>1 DEF Attempts, Moved
<1>3. Uploaded(x, files' \cup hurried)
  BY <1>2 DEF Uploaded
<1> HIDE DEF x
<1> QED
  BY <1>2, <1>3, GoesOn DEF x

\* To, and Made, in that form.
LEMMA StepForm ==
  ASSUME FilesInv, NEW r \in Runs
  PROVE  LET t == runs[r] IN
         /\ \A pc : To(r, pc) => runs' = [runs EXCEPT ![r] = Moved(t, pc, t.todo, t.items, t.item, t.srt)]
         /\ \A x : Made(r, x) =>
               runs' = [runs EXCEPT ![r] = Moved(t, AfterVoice(t.todo \ {x}), t.todo \ {x},
                                                 t.items, t.item, t.srt)]
         /\ t.todo \in SUBSET (Spoken \cup Ranges) /\ t.items \in Nat /\ t.item \in Nat /\ t.srt \in BOOLEAN
         /\ \A todo : AfterVoice(todo) \in {"voice", "beds", "render"}
<1> DEFINE t == runs[r]
<1>1. PICK rows : runs \in [Runs -> Attempts(rows)]
  BY DEF FilesInv, OutTyped
<1>2. t \in Attempts(rows)
  BY <1>1
<1>3. \A pc : [t EXCEPT !.pc = pc] = Moved(t, pc, t.todo, t.items, t.item, t.srt)
  BY <1>2 DEF Attempts, Moved
<1>4. \A pc, todo : [t EXCEPT !.todo = todo, !.pc = pc] = Moved(t, pc, todo, t.items, t.item, t.srt)
  BY <1>2 DEF Attempts, Moved
<1>5. ASSUME NEW pc, To(r, pc)
      PROVE  runs' = [runs EXCEPT ![r] = Moved(t, pc, t.todo, t.items, t.item, t.srt)]
  <2>1. runs' = [runs EXCEPT ![r] = [t EXCEPT !.pc = pc]]
    BY <1>1, <1>2, <1>5 DEF To, Attempts
  <2> QED
    BY <1>3, <2>1
<1>6. ASSUME NEW x, Made(r, x)
      PROVE  runs' = [runs EXCEPT ![r] = Moved(t, AfterVoice(t.todo \ {x}), t.todo \ {x}, t.items, t.item, t.srt)]
  <2>1. runs' = [runs EXCEPT ![r] = [t EXCEPT !.todo = t.todo \ {x}, !.pc = AfterVoice(t.todo \ {x})]]
    BY <1>1, <1>2, <1>6 DEF Made, Attempts
  <2> QED
    BY <1>4, <2>1
<1>7. t.todo \in SUBSET (Spoken \cup Ranges) /\ t.items \in Nat /\ t.item \in Nat /\ t.srt \in BOOLEAN
  BY <1>2 DEF Attempts
<1>8. \A todo : AfterVoice(todo) \in {"voice", "beds", "render"}
  BY DEF AfterVoice
<1> QED
  BY <1>5, <1>6, <1>7, <1>8

LEMMA BeginKeeps ==
  ASSUME FilesInv, NEW r \in Runs, NEW e \in Exports, BeginExport(r, e)
  PROVE  FilesInv'
<1> DEFINE x == [NoRun EXCEPT !.job = e, !.token = exports[e].tries + 1, !.pc = "fetch"]
<1>1. exports \in [Exports -> OfExport] /\ exports[e].state = "queued"
  BY DEF FilesInv, OutTyped, BeginExport
<1>2. /\ runs' = [runs EXCEPT ![r] = x] /\ UNCHANGED <<there, deletion, hurried, files, listed>>
      /\ exports' = [exports EXCEPT ![e].state = "running", ![e].tries = @ + 1]
  BY DEF BeginExport
<1>3. NoRun \in Attempts({NoRow})
  BY NoRunIsIdle
<1>4. exports[e].tries + 1 \in Nat
  BY <1>1 DEF OfExport
<1>5. x \in Attempts({NoRow}) /\ x.pc = "fetch" /\ x.job = e
  BY <1>3, <1>4 DEF Attempts
<1>6. exports' \in [Exports -> OfExport] /\ \A d \in Exports : d # e => exports'[d] = exports[d]
  BY <1>1, <1>2, <1>4 DEF OfExport, States
<1>7. Uploaded(x, files' \cup hurried)
  BY <1>5 DEF Uploaded
<1> HIDE DEF x, FilesInv
<1> QED
  BY <1>1, <1>2, <1>5, <1>6, <1>7, AttemptStep

LEMMA FetchKeeps == ASSUME FilesInv, NEW r \in Runs, Fetch(r) PROVE FilesInv'
<1>1. runs[r].pc = "fetch" /\ UNCHANGED <<there, deletion, hurried, files, listed>>
  BY DEF Fetch
<1>2. CASE there
  <2>1. PICK items \in 1 .. most_items, srt \in BOOLEAN, voiced \in BOOLEAN, removes \in BOOLEAN :
               LET todo == IF voiced THEN Spoken \cup (IF removes THEN Ranges ELSE {}) ELSE {}
               IN  /\ runs' = [runs EXCEPT ![r].items = items, ![r].item = 1, ![r].srt = srt,
                                           ![r].todo = todo, ![r].pc = AfterVoice(todo)]
                   /\ exports' = exports
    BY <1>2 DEF Fetch
  <2> DEFINE todo == IF voiced THEN Spoken \cup (IF removes THEN Ranges ELSE {}) ELSE {}
  <2>2. todo \in SUBSET (Spoken \cup Ranges)
    OBVIOUS
  <2>3. /\ runs' = [runs EXCEPT ![r].items = items, ![r].item = 1, ![r].srt = srt,
                                ![r].todo = todo, ![r].pc = AfterVoice(todo)]
        /\ exports' = exports
    BY <2>1
  <2> HIDE DEF todo
  <2>4. PICK rows : runs \in [Runs -> Attempts(rows)]
    BY DEF FilesInv, OutTyped
  <2>5. runs' = [runs EXCEPT ![r] = Moved(runs[r], AfterVoice(todo), todo, items, 1, srt)]
    BY <2>3, <2>4 DEF Moved, Attempts
  <2>6. items \in Nat /\ 1 \in Nat /\ AfterVoice(todo) \in {"voice", "beds", "render"}
    BY StepForm
  <2>7. exports' = exports /\ runs[r].pc # "idle" /\ files \subseteq files'
    BY <1>1, <2>3
  <2> QED
    BY <1>1, <2>2, <2>5, <2>6, <2>7, MovesOn
<1>3. CASE ~there
  BY <1>1, <1>3, OverKeeps DEF Fetch
<1> QED
  BY <1>2, <1>3

\* Clips and beds are looked for, bought or made, and stored.
LEMMA MakingKeeps ==
  ASSUME FilesInv, NEW r \in Runs,
         \/ LookForVoice(r) \/ BuyVoice(r) \/ KeepVoice(r) \/ LookForBed(r) \/ Separate(r) \/ RenderItems(r)
  PROVE  FilesInv'
<1>1. runs[r].pc # "idle" /\ UNCHANGED <<there, deletion, hurried, listed>> /\ files \subseteq files'
  BY DEF LookForVoice, BuyVoice, KeepVoice, LookForBed, Separate, RenderItems
<1>2. ASSUME NEW pc \in {"buy", "keep", "separate", "put"}, To(r, pc), exports' = exports PROVE FilesInv'
  <2>1. runs' = [runs EXCEPT ![r] = Moved(runs[r], pc, runs[r].todo, runs[r].items, runs[r].item, runs[r].srt)]
    BY <1>2, StepForm
  <2>2. runs[r].todo \in SUBSET (Spoken \cup Ranges)
    BY StepForm
  <2>3. runs[r].items \in Nat /\ runs[r].item \in Nat /\ runs[r].srt \in BOOLEAN
    BY StepForm
  <2>4. pc \in {"voice", "buy", "keep", "beds", "separate", "render", "put"}
    OBVIOUS
  <2> QED
    BY <1>1, <1>2, <2>1, <2>2, <2>3, <2>4, MovesOn
<1>3. ASSUME NEW x, Made(r, x), exports' = exports PROVE FilesInv'
  <2>1. runs[r].todo \ {x} \in SUBSET (Spoken \cup Ranges)
    BY StepForm
  <2>2. AfterVoice(runs[r].todo \ {x}) \in {"voice", "beds", "render"}
    BY StepForm
  <2>3. runs' = [runs EXCEPT ![r] = Moved(runs[r], AfterVoice(runs[r].todo \ {x}), runs[r].todo \ {x},
                                          runs[r].items, runs[r].item, runs[r].srt)]
    BY <1>3, StepForm
  <2>4. runs[r].items \in Nat /\ runs[r].item \in Nat /\ runs[r].srt \in BOOLEAN
    BY StepForm
  <2> QED
    BY <1>1, <1>3, <2>1, <2>2, <2>3, <2>4, MovesOn
<1>4. ASSUME Over(r, {"canceled"}), files' = files PROVE FilesInv'
  BY <1>1, <1>4, OverKeeps
<1> QED
  BY <1>2, <1>3, <1>4 DEF LookForVoice, BuyVoice, KeepVoice, LookForBed, Separate, RenderItems

LEMMA EndKeeps ==
  ASSUME FilesInv, NEW r \in Runs, VoiceIsLost(r) \/ FinishExport(r) \/ Fails(r)
  PROVE  FilesInv'
<1>1. UNCHANGED <<there, deletion, hurried, files, listed>>
  BY DEF VoiceIsLost, FinishExport, Fails
<1>2. Over(r, {"queued", "failed"}) \/ Over(r, {"canceled"}) \/ Over(r, {"done"})
  BY DEF VoiceIsLost, FinishExport, Fails
<1> QED
  BY <1>1, <1>2, OverKeeps

\* The files of an item are stored, and the row of an earlier attempt looked up.
LEMMA UploadKeeps ==
  ASSUME FilesInv, NEW r \in Runs, Put(r) \/ PutSrt(r) \/ Find(r) \/ HearOf(r)
  PROVE  FilesInv'
<1> DEFINE t == runs[r]
<1>1. PICK rows : runs \in [Runs -> Attempts(rows)]
  BY DEF FilesInv, OutTyped
<1>2. t \in Attempts(rows) /\ t.srt \in BOOLEAN
  BY <1>1 DEF Attempts
<1>3. there => Uploaded(t, files \cup hurried)
  BY OfAttempt
<1>4. UNCHANGED <<there, deletion, hurried, exports, listed>> /\ t.pc # "idle"
  BY DEF Put, PutSrt, Find, HearOf
<1>5. CASE Put(r)
  <2> DEFINE x == [t EXCEPT !.pc = IF t.srt THEN "srt" ELSE "find"]
  <2>1. runs' = [runs EXCEPT ![r] = x] /\ files' = files \cup {VideoKey(r)}
    BY <1>1, <1>2, <1>5 DEF Put, To, Attempts
  <2>2. x \in Attempts(rows) /\ x.job = t.job /\ x.item = t.item /\ x.srt = t.srt
        /\ x.pc = IF t.srt THEN "srt" ELSE "find"
    BY <1>2 DEF Attempts
  <2>3. Uploaded(x, files' \cup hurried)
    BY <2>1, <2>2 DEF Uploaded, VideoKey
  <2> HIDE DEF x, FilesInv
  <2> QED
    BY <1>4, <2>1, <2>2, <2>3, GoesOn
<1>6. CASE PutSrt(r)
  <2> DEFINE x == [t EXCEPT !.pc = "find"]
  <2>1. runs' = [runs EXCEPT ![r] = x] /\ files' = files \cup {SrtKey(r)} /\ t.pc = "srt"
    BY <1>1, <1>2, <1>6 DEF PutSrt, To, Attempts
  <2>2. x \in Attempts(rows) /\ x.job = t.job /\ x.item = t.item /\ x.srt = t.srt /\ x.pc = "find"
    BY <1>2 DEF Attempts
  <2>3. there => Uploaded(x, files' \cup hurried)
    BY <1>3, <2>1, <2>2 DEF Uploaded, SrtKey
  <2> HIDE DEF x, FilesInv
  <2> QED
    BY <1>4, <2>1, <2>2, <2>3, GoesOn
<1>7. CASE Find(r)
  <2>1. PICK row \in {y \in listed : y.video = VideoKey(r)} \cup {NoRow} :
            runs' = [runs EXCEPT ![r].found = row, ![r].pc = "commit"]
    BY <1>7 DEF Find
  <2> DEFINE x == [t EXCEPT !.found = row, !.pc = "commit"]
  <2>2. runs' = [runs EXCEPT ![r] = x] /\ files' = files /\ t.pc = "find"
    BY <1>1, <1>2, <1>7, <2>1 DEF Find, Attempts
  <2>3. x \in Attempts(rows \cup {row}) /\ x.job = t.job /\ x.item = t.item /\ x.srt = t.srt
        /\ x.pc = "commit"
    BY <1>2 DEF Attempts
  <2>4. there => Uploaded(x, files' \cup hurried)
    BY <1>3, <2>2, <2>3 DEF Uploaded
  <2> HIDE DEF x, FilesInv
  <2> QED
    BY <1>4, <2>2, <2>3, <2>4, GoesOn
<1>8. CASE HearOf(r)
  <2> DEFINE x == [t EXCEPT !.told = TRUE]
  <2>1. runs' = [runs EXCEPT ![r] = x] /\ files' = files
    BY <1>1, <1>2, <1>8 DEF HearOf, Attempts
  <2>2. x \in Attempts(rows) /\ x.job = t.job /\ x.item = t.item /\ x.srt = t.srt /\ x.pc = t.pc
    BY <1>2 DEF Attempts
  <2>3. there => Uploaded(x, files' \cup hurried)
    BY <1>3, <2>1, <2>2 DEF Uploaded
  <2> HIDE DEF x, FilesInv
  <2> QED
    BY <1>4, <2>1, <2>2, <2>3, GoesOn
<1> QED
  BY <1>5, <1>6, <1>7, <1>8

\* What is listed was uploaded before, unless somebody deleted it meanwhile.
LEMMA ListKeeps == ASSUME FilesInv, NEW r \in Runs, List(r) PROVE FilesInv'
<1> DEFINE t == runs[r]
           id == IF t.found = NoRow THEN NewId ELSE t.found.id
           row == Row(id, VideoKey(r), SrtKey(r))
           x == [t EXCEPT !.item = @ + 1, !.pc = "put", !.found = NoRow]
<1>1. t.pc = "commit" /\ UNCHANGED <<there, files, deletion, hurried>>
  BY DEF List
<1>2. CASE Over(r, {"queued", "failed"}) /\ listed' = listed
  BY <1>1, <1>2, OverKeeps
<1>3. CASE /\ there
           /\ listed' = {y \in listed : y.id # row.id} \cup {row}
           /\ runs' = [runs EXCEPT ![r] = x]
           /\ exports' = exports
  <2>1. row.video = VideoKey(r) /\ row.srt = SrtKey(r)
    BY DEF Row
  <2>2. t.job \in Exports /\ Uploaded(t, files \cup hurried)
    BY <1>1, <1>3, OfAttempt
  <2>3. PICK rows : t \in Attempts(rows)
    BY OfAttempt
  <2>4. t.item \in Nat /\ t.srt \in BOOLEAN
    BY <2>3 DEF Attempts
  <2>5. OneJob(row) /\ row.video.of = t.job
    BY <2>1, <2>2, <2>4 DEF OneJob, VideoKey, SrtKey, Key, OutKeys, NoKeyAtAll
  <2>6. KeysOf(row) \ hurried \subseteq files'
    BY <1>1, <2>1, <2>2 DEF KeysOf, Uploaded, VideoKey, SrtKey
  <2>7. x \in Attempts(rows \cup {NoRow}) /\ x.job = t.job /\ x.pc = "put"
    <3>1. t \in Attempts(rows \cup {NoRow}) /\ t.item + 1 \in Nat
      BY <2>3, <2>4 DEF Attempts
    <3>2. NoRow \in rows \cup {NoRow}
      OBVIOUS
    <3> HIDE DEF row
    <3> QED
      BY <3>1, <3>2 DEF Attempts
  <2>8. Uploaded(x, files' \cup hurried)
    BY <2>7 DEF Uploaded
  <2>9. exports' \in [Exports -> OfExport]
    BY <1>3 DEF FilesInv, OutTyped
  <2>10. \A y \in listed' \ listed : y = row
    BY <1>3
  <2> HIDE DEF x, row, FilesInv
  <2> QED
    BY <1>1, <1>3, <2>5, <2>6, <2>7, <2>8, <2>9, <2>10, AttemptStep
<1> QED
  BY <1>2, <1>3 DEF List

LEMMA JobKeeps ==
  ASSUME FilesInv, (\E r \in Runs : ReapStalled(r)) \/ \E e \in Exports : CancelExport(e)
  PROVE  FilesInv'
<1>1. UNCHANGED <<runs, there, deletion, hurried, listed, files>>
  BY DEF ReapStalled, CancelExport
<1>2. exports \in [Exports -> OfExport]
  BY DEF FilesInv, OutTyped
<1>3. ASSUME NEW r \in Runs, ReapStalled(r) PROVE FilesInv'
  <2> DEFINE e == runs[r].job
  <2>1. e \in Exports /\ exports[e].state = "running"
    BY <1>3 DEF ReapStalled, Owns
  <2>2. PICK state \in {"queued", "failed"} : exports' = [exports EXCEPT ![e].state = state]
    BY <1>3 DEF ReapStalled
  <2> HIDE DEF e
  <2>3. exports' \in [Exports -> OfExport] /\ \A d \in Exports : d # e => exports'[d] = exports[d]
    BY <1>2, <2>1, <2>2 DEF OfExport, States
  <2> QED
    BY <1>1, <2>1, <2>3, BesideAttempts
<1>4. ASSUME NEW e \in Exports, CancelExport(e) PROVE FilesInv'
  <2>1. exports[e].state \in {"queued", "running"}
    BY <1>4 DEF CancelExport
  <2>2. exports' = [exports EXCEPT ![e].cancel = TRUE, ![e].state = IF @ = "queued" THEN "canceled" ELSE @]
    BY <1>4 DEF CancelExport
  <2>3. exports' \in [Exports -> OfExport] /\ \A d \in Exports : d # e => exports'[d] = exports[d]
    BY <1>2, <2>1, <2>2 DEF OfExport, States
  <2> QED
    BY <1>1, <2>1, <2>3, BesideAttempts
<1> QED
  BY <1>3, <1>4

LEMMA DeleteRowKeeps ==
  ASSUME FilesInv, NEW row \in listed, DeleteRow(row)
  PROVE  FilesInv'
<1> DEFINE e == row.video.of
           atWork == e \in Exports /\ (exports[e].state \in {"queued", "running"} \/ Working(e) # {})
<1>1. /\ listed' = listed \ {row} /\ deletion' = [pc |-> "ask", keys |-> KeysOf(row)]
      /\ hurried' = IF atWork THEN hurried \cup KeysOf(row) ELSE hurried
      /\ UNCHANGED <<there, exports, runs, files>>
  BY DEF DeleteRow
<1>2. OneJob(row) /\ KeysOf(row) \subseteq OutKeys /\ \A key \in KeysOf(row) : key.of = e
  BY DEF FilesInv, OutTyped, OneJob, KeysOf
<1>3. hurried \subseteq hurried'
  BY <1>1
<1>4. OutTyped'
  <2>1. \A y \in listed' : OneJob(y)'
    BY <1>1 DEF FilesInv, OutTyped, OneJob, OutKeys, NoKeyAtAll, Key
  <2>2. deletion' \in [pc : {"idle", "ask", "remove"}, keys : SUBSET OutKeys]
    BY <1>1, <1>2
  <2> QED
    BY <1>1, <2>1, <2>2 DEF FilesInv, OutTyped, OfExport, OutKeys, Attempts, NoRow, NoKeyAtAll, Key, States
<1>5. UploadsAreThere'
  <2> SUFFICES ASSUME there, NEW r \in Runs PROVE Uploaded(runs[r], files \cup hurried')
    BY <1>1 DEF UploadsAreThere, Uploaded, Key
  <2>1. Uploaded(runs[r], files \cup hurried)
    BY DEF FilesInv, UploadsAreThere
  <2> QED
    BY <1>3, <2>1 DEF Uploaded
<1>6. RemovedIsUnused'
  <2> SUFFICES ASSUME NEW key \in KeysOf(row), key \notin hurried' PROVE Closed(key.of)
    BY <1>1 DEF RemovedIsUnused, Closed, KeysOf, NoKeyAtAll, Key
  <2>1. key.of = e /\ ~atWork
    BY <1>1, <1>2
  <2>2. CASE e \in Exports
    BY <2>1, <2>2 DEF Closed, Working
  <2>3. CASE e \notin Exports
    BY <2>1, <2>3 DEF Closed, FilesInv, OutTyped
  <2> QED
    BY <2>2, <2>3
<1>7. ListedIsStored'
  BY <1>1, <1>3 DEF FilesInv, ListedIsStored, KeysOf, NoKeyAtAll, Key
<1> QED
  BY <1>4, <1>5, <1>6, <1>7 DEF FilesInv

\* What is being removed of the job may be uploaded again from now on.
LEMMA RetryKeeps == ASSUME FilesInv, NEW e \in Exports, RetryExport(e) PROVE FilesInv'
<1>1. /\ UNCHANGED <<there, runs, files, listed, deletion>>
      /\ hurried' = hurried \cup {key \in deletion.keys : key.of = e}
      /\ exports' = [exports EXCEPT ![e] = [state |-> "queued", tries |-> 0, cancel |-> FALSE]]
  BY DEF RetryExport
<1>2. exports \in [Exports -> OfExport]
  BY DEF FilesInv, OutTyped
<1>3. exports' \in [Exports -> OfExport] /\ \A d \in Exports : d # e => exports'[d] = exports[d]
  BY <1>1, <1>2 DEF OfExport, States
<1>4. OutTyped'
  BY <1>1, <1>3 DEF FilesInv, OutTyped, OneJob, OutKeys, NoKeyAtAll, Key
<1>5. UploadsAreThere'
  <2> SUFFICES ASSUME there, NEW r \in Runs PROVE Uploaded(runs[r], files \cup hurried')
    BY <1>1 DEF UploadsAreThere, Uploaded, Key
  <2>1. Uploaded(runs[r], files \cup hurried)
    BY DEF FilesInv, UploadsAreThere
  <2> QED
    BY <1>1, <2>1 DEF Uploaded
<1>6. RemovedIsUnused'
  <2> SUFFICES ASSUME NEW key \in deletion.keys \ hurried'
               PROVE  /\ Closed(key.of)'
                      /\ deletion.pc = "remove" => \A row \in listed : key \notin KeysOf(row)
    BY <1>1 DEF RemovedIsUnused, Closed, KeysOf, NoKeyAtAll, Key
  <2>1. key \notin hurried /\ key.of # e
    BY <1>1
  <2>2. Closed(key.of) /\ (deletion.pc = "remove" => \A row \in listed : key \notin KeysOf(row))
    BY <2>1 DEF FilesInv, RemovedIsUnused
  <2>3. Closed(key.of)'
    BY <1>1, <1>3, <2>1, <2>2 DEF Closed
  <2> QED
    BY <2>2, <2>3
<1>7. ListedIsStored'
  BY <1>1 DEF FilesInv, ListedIsStored, KeysOf, NoKeyAtAll, Key
<1> QED
  BY <1>4, <1>5, <1>6, <1>7 DEF FilesInv

LEMMA RemovalKeeps == ASSUME FilesInv, AskUsed \/ RemoveFile PROVE FilesInv'
<1>1. /\ UNCHANGED <<there, exports, runs, listed, hurried>> /\ files' \subseteq files
      /\ deletion \in [pc : {"idle", "ask", "remove"}, keys : SUBSET OutKeys]
  BY DEF AskUsed, RemoveFile, FilesInv, OutTyped
<1>2. deletion' \in [pc : {"idle", "ask", "remove"}, keys : SUBSET OutKeys] /\ deletion'.keys \subseteq deletion.keys
  BY <1>1 DEF AskUsed, RemoveFile, NoDeletion
<1>3. OutTyped'
  BY <1>1, <1>2 DEF FilesInv, OutTyped, OneJob, OutKeys, NoKeyAtAll, Key, OfExport, States, Attempts
\* The file of no attempt at work and of no listed row is removed.
<1>4. ASSUME NEW key \in files \ files' PROVE key \in deletion.keys /\ deletion.pc = "remove"
  BY DEF AskUsed, RemoveFile
<1>5. UploadsAreThere'
  <2> SUFFICES ASSUME there, NEW r \in Runs PROVE Uploaded(runs[r], files' \cup hurried)
    BY <1>1 DEF UploadsAreThere, Uploaded, Key
  <2>1. Uploaded(runs[r], files \cup hurried)
    BY DEF FilesInv, UploadsAreThere
  <2>2. ASSUME NEW ext, Key(runs[r].job, runs[r].item, ext) \in files \ files', runs[r].pc # "idle"
        PROVE  Key(runs[r].job, runs[r].item, ext) \in hurried
    <3>1. Key(runs[r].job, runs[r].item, ext).of = runs[r].job
      BY DEF Key
    <3> QED
      BY <1>4, <2>2, <3>1 DEF FilesInv, RemovedIsUnused, Closed
  <2> QED
    BY <2>1, <2>2 DEF Uploaded
<1>6. RemovedIsUnused'
  <2> SUFFICES ASSUME NEW key \in deletion'.keys \ hurried
               PROVE  /\ Closed(key.of)
                      /\ deletion'.pc = "remove" => \A row \in listed : key \notin KeysOf(row)
    BY <1>1 DEF RemovedIsUnused, Closed, KeysOf, NoKeyAtAll, Key
  <2>1. Closed(key.of) /\ (deletion.pc = "remove" => \A row \in listed : key \notin KeysOf(row))
    BY <1>2 DEF FilesInv, RemovedIsUnused
  <2>2. CASE AskUsed
    <3>1. key \notin UNION {KeysOf(row) : row \in listed}
      BY <2>2 DEF AskUsed
    <3> QED
      BY <2>1, <3>1
  <2>3. CASE RemoveFile
    BY <2>1, <2>3 DEF RemoveFile
  <2> QED
    BY <2>2, <2>3
<1>7. ListedIsStored'
  <2> SUFFICES ASSUME NEW row \in listed, NEW key \in KeysOf(row) \ hurried PROVE key \in files'
    BY <1>1 DEF ListedIsStored, KeysOf, NoKeyAtAll, Key
  <2>1. key \in files
    BY DEF FilesInv, ListedIsStored
  <2>2. ~(key \in deletion.keys /\ deletion.pc = "remove")
    BY DEF FilesInv, RemovedIsUnused
  <2> QED
    BY <1>4, <2>1, <2>2
<1> QED
  BY <1>3, <1>5, <1>6, <1>7 DEF FilesInv

LEMMA ProjectGoes == ASSUME FilesInv, DeleteProject \/ Sweep PROVE FilesInv'
<1>1. UNCHANGED <<runs, deletion, hurried>> /\ ~there' /\ listed' = {}
  BY DEF DeleteProject, Sweep, FilesInv, OutTyped
<1>2. exports \in [Exports -> OfExport]
  BY DEF FilesInv, OutTyped
<1>3. /\ exports' \in [Exports -> OfExport]
      /\ \A e \in Exports : exports[e].state \notin {"queued", "running"} =>
                                exports'[e].state \notin {"queued", "running"}
  BY <1>2 DEF DeleteProject, Sweep, OfExport, States
<1>4. OutTyped'
  <2>1. \E rows : runs' \in [Runs -> Attempts(rows)]
    BY <1>1 DEF FilesInv, OutTyped
  <2>2. there' \in BOOLEAN
    BY DEF DeleteProject, Sweep, FilesInv, OutTyped
  <2>3. /\ deletion' \in [pc : {"idle", "ask", "remove"}, keys : SUBSET OutKeys]
        /\ \A r \in Runs : runs'[r].pc # "idle" => runs'[r].job \in Exports
    BY <1>1 DEF FilesInv, OutTyped
  <2> QED
    BY <1>1, <1>3, <2>1, <2>2, <2>3 DEF OutTyped
<1>5. UploadsAreThere' /\ ListedIsStored'
  BY <1>1 DEF UploadsAreThere, ListedIsStored
<1>6. RemovedIsUnused'
  BY <1>1, <1>3 DEF FilesInv, RemovedIsUnused, Closed, Key, KeysOf, NoKeyAtAll
<1> QED
  BY <1>4, <1>5, <1>6 DEF FilesInv

LEMMA FilesNext == FilesInv /\ [OutNext]_outVars => FilesInv'
<1> SUFFICES ASSUME FilesInv, [OutNext]_outVars PROVE FilesInv'
  OBVIOUS
<1>1. CASE UNCHANGED outVars
  BY <1>1, BesideAttempts DEF outVars, FilesInv, OutTyped
<1>2. ASSUME NEW r \in Runs,
             \/ Fetch(r) \/ LookForVoice(r) \/ BuyVoice(r) \/ KeepVoice(r) \/ VoiceIsLost(r)
             \/ LookForBed(r) \/ Separate(r) \/ RenderItems(r)
             \/ Put(r) \/ PutSrt(r) \/ Find(r) \/ List(r) \/ FinishExport(r)
             \/ Fails(r) \/ ReapStalled(r) \/ HearOf(r)
             \/ \E e \in Exports : BeginExport(r, e)
      PROVE  FilesInv'
  BY <1>2, BeginKeeps, FetchKeeps, MakingKeeps, EndKeeps, UploadKeeps, ListKeeps, JobKeeps
<1> QED
  BY <1>1, <1>2, JobKeeps, RetryKeeps, DeleteRowKeeps, RemovalKeeps, ProjectGoes DEF OutNext

\* Every listed output can be played (routes of outputs, handlers/export.py):
\* whatever attempts, deletions and reaped rows overlap, no file of a listed row
\* is missing, but for an output deleted while its own job was at work, or whose
\* job was retried (routes_admin.py, retry_job) before its file was removed.
THEOREM ListedOutputsAreStored == OutSpec => []ListedIsStored
<1>1. FilesInv => ListedIsStored
  BY DEF FilesInv
<1> QED
  BY <1>1, FilesInit, FilesNext, PTL DEF OutSpec
-----------------------------------------------------------------------------
\* What the voice is paid for.

ClipOf(todo) == CHOOSE c \in todo \cap Spoken : TRUE

Alive == {r \in Runs : runs[r].pc # "idle"}
\* Jobs that may have an attempt beside those at work, or before any.
Waiting == {e \in Exports : exports[e].state = "queued" \/ \A r \in Alive : runs[r].job # e}

\* The attempts about to buy clip c, and those that have it and not stored it.
Buying(at, c) == {r \in Runs : at[r].pc = "buy" /\ ClipOf(at[r].todo) = c}
Keeping(at, c) == {r \in Runs : at[r].pc = "keep" /\ ClipOf(at[r].todo) = c}

VoiceTyped ==
    /\ bought \in [Spoken -> Nat] /\ unsaved \in [Spoken -> Nat] /\ twofold \in Nat
    /\ \A r \in Runs : runs[r].pc \in {"voice", "buy", "keep"} => runs[r].todo \cap Spoken # {}

\* An attempt at work, or one that the job may have yet, for each job: one more
\* each time a job is queued again under a live attempt.
AttemptsAreFew == Cardinality(Alive) + Cardinality(Waiting) <= Cardinality(Exports) + twofold

\* Until a clip is stored, what was paid for it is in the hands of attempts.
\* Afterwards only those that had looked before may pay again.
PaidOnce ==
    there => \A c \in Spoken :
        IF VoiceKey(c) \in files
        THEN bought[c] - unsaved[c] + Cardinality(Buying(runs, c)) <= Cardinality(Exports) + twofold
        ELSE bought[c] - unsaved[c] = Cardinality(Keeping(runs, c))

VoiceInv == FilesInv /\ VoiceTyped /\ AttemptsAreFew /\ PaidOnce
-----------------------------------------------------------------------------
LEMMA PartsAreFinite ==
  /\ IsFiniteSet(Alive) /\ Cardinality(Alive) \in Nat
  /\ IsFiniteSet(Waiting) /\ Cardinality(Waiting) \in Nat /\ Cardinality(Exports) \in Nat
  /\ \A c : /\ IsFiniteSet(Buying(runs, c)) /\ Cardinality(Buying(runs, c)) \in Nat
            /\ IsFiniteSet(Keeping(runs, c)) /\ Cardinality(Keeping(runs, c)) \in Nat
<1>1. Alive \subseteq Runs /\ Waiting \subseteq Exports
  BY DEF Alive, Waiting
<1>2. \A c : Buying(runs, c) \subseteq Runs /\ Keeping(runs, c) \subseteq Runs
  BY DEF Buying, Keeping
<1> QED
  BY <1>1, <1>2, FS_Subset, FS_CardinalityType, OutputsAssumption

\* Two sets that differ in one element.
LEMMA OneMore ==
  ASSUME NEW S, IsFiniteSet(S), NEW x
  PROVE  /\ IsFiniteSet(S \cup {x}) /\ IsFiniteSet(S \ {x})
         /\ x \notin S => Cardinality(S \cup {x}) = Cardinality(S) + 1
         /\ x \in S => Cardinality(S \ {x}) = Cardinality(S) - 1
         /\ Cardinality(S) \in Nat
BY FS_AddElement, FS_RemoveElement, FS_CardinalityType

LEMMA VoiceInit == OutInit => VoiceInv
<1> SUFFICES ASSUME OutInit PROVE VoiceInv
  OBVIOUS
<1>1. FilesInv
  BY FilesInit
<1>2. \A r \in Runs : runs[r].pc = "idle"
  BY DEF OutInit, NoRun
<1>3. Alive = {} /\ Waiting = Exports /\ \A c : Keeping(runs, c) = {}
  BY <1>2 DEF Alive, Waiting, Keeping, OutInit
<1>4. Cardinality({}) = 0
  BY FS_EmptySet
<1>5. VoiceTyped
  BY <1>2 DEF VoiceTyped, OutInit
<1>6. AttemptsAreFew
  BY <1>3, <1>4, PartsAreFinite DEF AttemptsAreFew, OutInit
<1>7. \A c : VoiceKey(c) \notin files
  BY DEF VoiceKey, Key, Old, OutInit
<1>8. PaidOnce
  BY <1>3, <1>4, <1>7 DEF PaidOnce, OutInit
<1> QED
  BY <1>1, <1>5, <1>6, <1>8 DEF VoiceInv

\* An attempt that neither begins nor ends.
LEMMA SameAttempts ==
  ASSUME VoiceInv, NEW r \in Runs, NEW x, runs' = [runs EXCEPT ![r] = x],
         runs[r].pc # "idle", x.pc # "idle", x.job = runs[r].job, UNCHANGED <<exports, twofold>>
  PROVE  AttemptsAreFew'
<1>1. \A q \in Runs : runs'[q] = IF q = r THEN x ELSE runs[q]
  BY DEF VoiceInv, FilesInv, OutTyped
<1>2. Alive' = Alive /\ Waiting' = Waiting
  BY <1>1 DEF Alive, Waiting
<1> QED
  BY <1>2 DEF VoiceInv, AttemptsAreFew

\* At most one job more.
LEMMA WaitingGrows ==
  ASSUME NEW x, Waiting' \subseteq Waiting \cup {x}
  PROVE  Cardinality(Waiting') \in Nat /\ Cardinality(Waiting') <= Cardinality(Waiting) + 1
<1>1. IsFiniteSet(Waiting) /\ Cardinality(Waiting) \in Nat
  BY PartsAreFinite
<1>2. /\ IsFiniteSet(Waiting \cup {x})
      /\ Cardinality(Waiting \cup {x}) <= Cardinality(Waiting) + 1
  <2>1. CASE x \in Waiting
    <3>1. Waiting \cup {x} = Waiting
      BY <2>1
    <3>2. Cardinality(Waiting \cup {x}) = Cardinality(Waiting) /\ IsFiniteSet(Waiting \cup {x})
      BY <1>1, <3>1, Zenon
    <3> HIDE DEF Waiting
    <3> QED
      BY <1>1, <3>2
  <2>2. CASE x \notin Waiting
    BY <1>1, <2>2, OneMore
  <2> QED
    BY <2>1, <2>2
<1>3. Cardinality(Waiting \cup {x}) \in Nat
  BY <1>2, FS_CardinalityType
<1>4. /\ IsFiniteSet(Waiting') /\ Cardinality(Waiting') <= Cardinality(Waiting \cup {x})
  BY <1>2, FS_Subset
<1>5. Cardinality(Waiting') \in Nat
  BY <1>4, FS_CardinalityType
<1> QED
  BY <1>1, <1>2, <1>3, <1>4, <1>5

\* None more.
LEMMA WaitingStays ==
  ASSUME Waiting' \subseteq Waiting
  PROVE  Cardinality(Waiting') \in Nat /\ Cardinality(Waiting') <= Cardinality(Waiting)
BY PartsAreFinite, FS_Subset, FS_CardinalityType

LEMMA OverAttempt ==
  ASSUME VoiceInv, NEW r \in Runs, runs[r].pc # "idle", NEW states, Over(r, states), twofold' = twofold
  PROVE  AttemptsAreFew'
<1>1. \A q \in Runs : runs'[q] = IF q = r THEN NoRun ELSE runs[q]
  BY DEF VoiceInv, FilesInv, OutTyped, Over
<1>2. Alive' = Alive \ {r} /\ r \in Alive
  BY <1>1 DEF Alive, NoRun
<1>3. exports \in [Exports -> OfExport]
  BY DEF VoiceInv, FilesInv, OutTyped
<1>4. Waiting' \subseteq Waiting \cup {runs[r].job}
  <2>1. ASSUME NEW e \in Exports, e # runs[r].job PROVE exports'[e] = exports[e]
    BY <1>3, <2>1 DEF Over
  <2>2. \A q \in Alive' : q # r /\ runs'[q] = runs[q]
    BY <1>1, <1>2 DEF Alive
  <2>3. ASSUME NEW e \in Exports, e # runs[r].job, \A q \in Alive' : runs'[q].job # e
        PROVE  \A q \in Alive : runs[q].job # e
    BY <1>2, <2>2, <2>3
  <2> QED
    BY <2>1, <2>3 DEF Waiting
<1>5. Cardinality(Alive') = Cardinality(Alive) - 1
  BY <1>2, PartsAreFinite, OneMore
<1>6. Cardinality(Waiting') \in Nat /\ Cardinality(Waiting') <= Cardinality(Waiting) + 1
  BY <1>4, PartsAreFinite, WaitingGrows
<1> QED
  BY <1>5, <1>6, PartsAreFinite DEF VoiceInv, VoiceTyped, AttemptsAreFew

LEMMA BeginAttempt ==
  ASSUME VoiceInv, NEW r \in Runs, NEW e \in Exports, BeginExport(r, e)
  PROVE  AttemptsAreFew'
<1> DEFINE x == [NoRun EXCEPT !.job = e, !.token = exports[e].tries + 1, !.pc = "fetch"]
<1>1. /\ runs' = [runs EXCEPT ![r] = x] /\ runs[r].pc = "idle" /\ exports[e].state = "queued" /\ twofold' = twofold
      /\ exports' = [exports EXCEPT ![e].state = "running", ![e].tries = @ + 1]
  BY DEF BeginExport
<1>2. x.pc = "fetch" /\ x.job = e
  BY DEF NoRun
<1> HIDE DEF x
<1>3. \A q \in Runs : runs'[q] = IF q = r THEN x ELSE runs[q]
  BY <1>1 DEF VoiceInv, FilesInv, OutTyped
<1>4. Alive' = Alive \cup {r} /\ r \notin Alive
  BY <1>1, <1>2, <1>3 DEF Alive
<1>5. exports'[e].state = "running" /\ \A d \in Exports : d # e => exports'[d] = exports[d]
  BY <1>1 DEF VoiceInv, FilesInv, OutTyped, OfExport
<1>6. Waiting' = Waiting \ {e} /\ e \in Waiting
  <2>1. e \in Waiting
    BY <1>1 DEF Waiting
  <2>2. e \notin Waiting'
    BY <1>2, <1>3, <1>4, <1>5 DEF Waiting
  <2>3. ASSUME NEW d \in Exports, d # e PROVE d \in Waiting' <=> d \in Waiting
    <3>0. \A q \in Alive : runs'[q] = runs[q]
      BY <1>3, <1>4 DEF Alive
    <3>1. (\A q \in Alive' : runs'[q].job # d) <=> (\A q \in Alive : runs[q].job # d)
      BY <1>2, <1>3, <1>4, <2>3, <3>0
    <3> QED
      BY <1>5, <2>3, <3>1 DEF Waiting
  <2> QED
    BY <2>1, <2>2, <2>3 DEF Waiting
<1>7. Cardinality(Alive') = Cardinality(Alive) + 1 /\ Cardinality(Waiting') = Cardinality(Waiting) - 1
  BY <1>4, <1>6, PartsAreFinite, OneMore
<1> QED
  BY <1>1, <1>7, PartsAreFinite DEF VoiceInv, VoiceTyped, AttemptsAreFew

\* A step that leaves the attempts and what was paid alone.
LEMMA BesideVoice ==
  ASSUME VoiceInv, FilesInv', UNCHANGED <<runs, bought, unsaved>>, twofold' \in Nat, twofold' >= twofold,
         Cardinality(Waiting') \in Nat, Cardinality(Waiting') <= Cardinality(Waiting) + (twofold' - twofold),
         there' => there, there' => \A c \in Spoken : VoiceKey(c) \in files' <=> VoiceKey(c) \in files
  PROVE  VoiceInv'
<1>1. VoiceTyped'
  BY DEF VoiceInv, VoiceTyped
<1>2. Alive' = Alive /\ \A c : Buying(runs', c) = Buying(runs, c) /\ Keeping(runs', c) = Keeping(runs, c)
  BY DEF Alive, Buying, Keeping
<1>3. twofold \in Nat /\ AttemptsAreFew
  BY DEF VoiceInv, VoiceTyped
<1>4. AttemptsAreFew'
  BY <1>2, <1>3, PartsAreFinite DEF AttemptsAreFew
<1>5. ASSUME there', NEW c \in Spoken
      PROVE  IF VoiceKey(c) \in files'
             THEN bought[c] - unsaved[c] + Cardinality(Buying(runs, c)) <= Cardinality(Exports) + twofold'
             ELSE bought[c] - unsaved[c] = Cardinality(Keeping(runs, c))
  <2>1. IF VoiceKey(c) \in files
        THEN bought[c] - unsaved[c] + Cardinality(Buying(runs, c)) <= Cardinality(Exports) + twofold
        ELSE bought[c] - unsaved[c] = Cardinality(Keeping(runs, c))
    BY <1>5 DEF VoiceInv, PaidOnce
  <2>2. bought[c] \in Nat /\ unsaved[c] \in Nat
    BY DEF VoiceInv, VoiceTyped
  <2> QED
    BY <1>3, <1>5, <2>1, <2>2, PartsAreFinite
<1>6. PaidOnce'
  BY <1>2, <1>5 DEF PaidOnce
<1> QED
  BY <1>1, <1>4, <1>6 DEF VoiceInv

\* A step of one attempt that buys nothing and stores no clip.
LEMMA QuietVoice ==
  ASSUME VoiceInv, FilesInv', AttemptsAreFew', NEW r \in Runs, NEW x, runs' = [runs EXCEPT ![r] = x],
         UNCHANGED <<there, bought, unsaved, twofold>>,
         \A c \in Spoken : VoiceKey(c) \in files' <=> VoiceKey(c) \in files,
         x.pc = "keep" <=> runs[r].pc = "keep", x.pc = "keep" => x.todo = runs[r].todo,
         x.pc = "buy" => \/ runs[r].pc = "buy" /\ x.todo = runs[r].todo
                         \/ VoiceKey(ClipOf(x.todo)) \notin files,
         x.pc \in {"voice", "buy", "keep"} => x.todo \cap Spoken # {}
  PROVE  VoiceInv'
<1>1. \A q \in Runs : runs'[q] = IF q = r THEN x ELSE runs[q]
  BY DEF VoiceInv, FilesInv, OutTyped
<1>2. VoiceTyped'
  BY <1>1 DEF VoiceInv, VoiceTyped
<1>3. ASSUME there, NEW c \in Spoken
      PROVE  IF VoiceKey(c) \in files'
             THEN bought[c] - unsaved[c] + Cardinality(Buying(runs', c)) <= Cardinality(Exports) + twofold
             ELSE bought[c] - unsaved[c] = Cardinality(Keeping(runs', c))
  <2>1. IF VoiceKey(c) \in files
        THEN bought[c] - unsaved[c] + Cardinality(Buying(runs, c)) <= Cardinality(Exports) + twofold
        ELSE bought[c] - unsaved[c] = Cardinality(Keeping(runs, c))
    BY <1>3 DEF VoiceInv, PaidOnce
  <2>2. Keeping(runs', c) = Keeping(runs, c)
    BY <1>1 DEF Keeping
  <2>3. ASSUME VoiceKey(c) \in files PROVE Cardinality(Buying(runs', c)) <= Cardinality(Buying(runs, c))
                                           /\ Cardinality(Buying(runs', c)) \in Nat
    <3>1. Buying(runs', c) \subseteq Buying(runs, c)
      BY <1>1, <2>3 DEF Buying
    <3> QED
      BY <3>1, PartsAreFinite, FS_Subset, FS_CardinalityType
  <2>4. bought[c] \in Nat /\ unsaved[c] \in Nat /\ twofold \in Nat
    BY DEF VoiceInv, VoiceTyped
  <2> QED
    BY <2>1, <2>2, <2>3, <2>4, PartsAreFinite
<1>4. PaidOnce'
  BY <1>3 DEF PaidOnce
<1> QED
  BY <1>2, <1>4 DEF VoiceInv

\* The clip at hand of an attempt that asks for one.
LEMMA ClipAtHand ==
  ASSUME VoiceInv, NEW r \in Runs, runs[r].pc \in {"voice", "buy", "keep"}
  PROVE  NextClip(r) \in Spoken /\ NextClip(r) = ClipOf(runs[r].todo)
<1>1. runs[r].todo \cap Spoken # {}
  BY DEF VoiceInv, VoiceTyped
<1> QED
  BY <1>1 DEF NextClip, ClipOf

LEMMA VoiceKeysDiffer == \A c, d : VoiceKey(c) = VoiceKey(d) => c = d
  BY DEF VoiceKey, Key

LEMMA BuyKeepsVoice ==
  ASSUME VoiceInv, FilesInv', NEW r \in Runs, BuyVoice(r), ~runs[r].told
  PROVE  VoiceInv'
<1> DEFINE b == NextClip(r)
           x == [runs[r] EXCEPT !.pc = "keep"]
<1>1. /\ runs[r].pc = "buy" /\ bought' = [bought EXCEPT ![b] = @ + 1]
      /\ UNCHANGED <<there, exports, files, unsaved, twofold>>
      /\ runs' = [runs EXCEPT ![r].pc = "keep"]
  BY DEF BuyVoice, To
<1>2. PICK rows : runs \in [Runs -> Attempts(rows)]
  BY DEF VoiceInv, FilesInv, OutTyped
<1>3. runs' = [runs EXCEPT ![r] = x] /\ x.pc = "keep" /\ x.todo = runs[r].todo /\ x.job = runs[r].job
  BY <1>1, <1>2 DEF Attempts
<1> HIDE DEF x
<1>4. \A q \in Runs : runs'[q] = IF q = r THEN x ELSE runs[q]
  BY <1>2, <1>3
<1>5. b \in Spoken /\ b = ClipOf(runs[r].todo)
  BY <1>1, ClipAtHand
<1> HIDE DEF b
<1>6. VoiceTyped'
  BY <1>1, <1>3, <1>4, <1>5 DEF VoiceInv, VoiceTyped
<1>7. AttemptsAreFew'
  BY <1>1, <1>3, SameAttempts
<1>8. /\ Buying(runs', b) = Buying(runs, b) \ {r} /\ r \in Buying(runs, b)
      /\ Keeping(runs', b) = Keeping(runs, b) \cup {r} /\ r \notin Keeping(runs, b)
  BY <1>1, <1>3, <1>4, <1>5 DEF Buying, Keeping
<1>9. \A c : c # b => Buying(runs', c) = Buying(runs, c) /\ Keeping(runs', c) = Keeping(runs, c)
  BY <1>1, <1>3, <1>4, <1>5 DEF Buying, Keeping
<1>10. Cardinality(Buying(runs', b)) = Cardinality(Buying(runs, b)) - 1 /\ Cardinality(Keeping(runs', b)) = Cardinality(Keeping(runs, b)) + 1
  BY <1>8, PartsAreFinite, OneMore
<1>11. bought \in [Spoken -> Nat] /\ unsaved \in [Spoken -> Nat] /\ twofold \in Nat
  BY DEF VoiceInv, VoiceTyped
<1>12. bought'[b] = bought[b] + 1 /\ \A c \in Spoken : c # b => bought'[c] = bought[c]
  BY <1>1, <1>5, <1>11
<1>13. ASSUME there, NEW c \in Spoken
       PROVE  IF VoiceKey(c) \in files
              THEN bought'[c] - unsaved[c] + Cardinality(Buying(runs', c)) <= Cardinality(Exports) + twofold
              ELSE bought'[c] - unsaved[c] = Cardinality(Keeping(runs', c))
  <2>1. IF VoiceKey(c) \in files
        THEN bought[c] - unsaved[c] + Cardinality(Buying(runs, c)) <= Cardinality(Exports) + twofold
        ELSE bought[c] - unsaved[c] = Cardinality(Keeping(runs, c))
    BY <1>13 DEF VoiceInv, PaidOnce
  <2>2. bought[c] \in Nat /\ unsaved[c] \in Nat
    BY <1>11
  <2>3. CASE c = b
    BY <1>10, <1>11, <1>12, <2>1, <2>2, <2>3, PartsAreFinite
  <2>4. CASE c # b
    BY <1>9, <1>12, <2>1, <2>4
  <2> QED
    BY <2>3, <2>4
<1>14. PaidOnce'
  BY <1>1, <1>13 DEF PaidOnce
<1> QED
  BY <1>6, <1>7, <1>14 DEF VoiceInv

\* Whoever stores the clip first stands for all that was paid for it.
LEMMA KeepKeepsVoice == ASSUME VoiceInv, FilesInv', NEW r \in Runs, KeepVoice(r) PROVE VoiceInv'
<1> DEFINE b == NextClip(r)
           todo == runs[r].todo \ {b}
           x == [runs[r] EXCEPT !.todo = todo, !.pc = AfterVoice(todo)]
<1>1. /\ runs[r].pc = "keep" /\ files' = files \cup {VoiceKey(b)}
      /\ UNCHANGED <<there, exports, bought, unsaved, twofold>>
      /\ runs' = [runs EXCEPT ![r].todo = @ \ {b}, ![r].pc = AfterVoice(todo)]
  BY DEF KeepVoice, Made
<1>2. PICK rows : runs \in [Runs -> Attempts(rows)]
  BY DEF VoiceInv, FilesInv, OutTyped
<1>3. runs' = [runs EXCEPT ![r] = x] /\ x.pc = AfterVoice(todo) /\ x.todo = todo /\ x.job = runs[r].job
  BY <1>1, <1>2 DEF Attempts
<1>4. /\ AfterVoice(todo) \in {"voice", "beds", "render"}
      /\ AfterVoice(todo) = "voice" => todo \cap Spoken # {}
  BY DEF AfterVoice
<1>5. b \in Spoken /\ b = ClipOf(runs[r].todo)
  BY <1>1, ClipAtHand
<1> HIDE DEF x, b, todo
<1>6. \A q \in Runs : runs'[q] = IF q = r THEN x ELSE runs[q]
  BY <1>2, <1>3
<1>7. VoiceTyped'
  BY <1>1, <1>3, <1>4, <1>6 DEF VoiceInv, VoiceTyped
<1>8. AttemptsAreFew'
  BY <1>1, <1>3, <1>4, SameAttempts
<1>9. \A c : Buying(runs', c) = Buying(runs, c) /\ (c # b => Keeping(runs', c) = Keeping(runs, c))
  BY <1>1, <1>3, <1>4, <1>5, <1>6 DEF Buying, Keeping
<1>10. \A c \in Spoken : c # b => (VoiceKey(c) \in files' <=> VoiceKey(c) \in files)
  BY <1>1, VoiceKeysDiffer
<1>11. Cardinality(Keeping(runs, b)) + Cardinality(Buying(runs, b)) <= Cardinality(Alive)
  <2>1. Keeping(runs, b) \cap Buying(runs, b) = {} /\ Keeping(runs, b) \cup Buying(runs, b) \subseteq Alive
    BY DEF Keeping, Buying, Alive
  <2>2. /\ IsFiniteSet(Keeping(runs, b)) /\ Cardinality(Keeping(runs, b)) \in Nat
        /\ IsFiniteSet(Buying(runs, b)) /\ Cardinality(Buying(runs, b)) \in Nat
    BY PartsAreFinite
  <2>3. Cardinality(Keeping(runs, b) \cap Buying(runs, b)) = 0
    BY <2>1, FS_EmptySet
  <2>4. Cardinality(Keeping(runs, b) \cup Buying(runs, b)) = Cardinality(Keeping(runs, b)) + Cardinality(Buying(runs, b))
    <3> HIDE DEF Keeping, Buying
    <3>1. Cardinality(Keeping(runs, b) \cup Buying(runs, b)) =
             Cardinality(Keeping(runs, b)) + Cardinality(Buying(runs, b)) - Cardinality(Keeping(runs, b) \cap Buying(runs, b))
      BY <2>2, FS_Union, Zenon
    <3> QED
      BY <2>2, <2>3, <3>1
  <2> QED
    BY <2>1, <2>4, PartsAreFinite, FS_Subset
<1>12. bought \in [Spoken -> Nat] /\ unsaved \in [Spoken -> Nat] /\ twofold \in Nat
  BY DEF VoiceInv, VoiceTyped
<1>13. ASSUME there, NEW c \in Spoken
       PROVE  IF VoiceKey(c) \in files'
              THEN bought[c] - unsaved[c] + Cardinality(Buying(runs, c)) <= Cardinality(Exports) + twofold
              ELSE bought[c] - unsaved[c] = Cardinality(Keeping(runs', c))
  <2>1. IF VoiceKey(c) \in files
        THEN bought[c] - unsaved[c] + Cardinality(Buying(runs, c)) <= Cardinality(Exports) + twofold
        ELSE bought[c] - unsaved[c] = Cardinality(Keeping(runs, c))
    BY <1>13 DEF VoiceInv, PaidOnce
  <2>2. bought[c] \in Nat /\ unsaved[c] \in Nat
    BY <1>12
  <2>3. CASE c = b
    <3>1. VoiceKey(c) \in files'
      BY <1>1, <2>3
    <3>2. Cardinality(Alive) <= Cardinality(Exports) + twofold
      BY <1>12, PartsAreFinite DEF VoiceInv, AttemptsAreFew
    <3> QED
      BY <1>11, <1>12, <2>1, <2>2, <2>3, <3>1, <3>2, PartsAreFinite
  <2>4. CASE c # b
    BY <1>9, <1>10, <2>1, <2>4
  <2> QED
    BY <2>3, <2>4
<1>14. PaidOnce'
  BY <1>1, <1>9, <1>13 DEF PaidOnce
<1> QED
  BY <1>7, <1>8, <1>14 DEF VoiceInv

LEMMA LossKeepsVoice == ASSUME VoiceInv, FilesInv', NEW r \in Runs, VoiceIsLost(r) PROVE VoiceInv'
<1> DEFINE b == NextClip(r)
<1>1. /\ runs[r].pc = "keep" /\ unsaved' = [unsaved EXCEPT ![b] = @ + 1] /\ Over(r, {"queued", "failed"})
      /\ UNCHANGED <<there, bought, files, twofold>> /\ runs' = [runs EXCEPT ![r] = NoRun]
  BY DEF VoiceIsLost, Over
<1>2. \A q \in Runs : runs'[q] = IF q = r THEN NoRun ELSE runs[q]
  BY <1>1 DEF VoiceInv, FilesInv, OutTyped
<1>3. b \in Spoken /\ b = ClipOf(runs[r].todo) /\ NoRun.pc = "idle"
  BY <1>1, ClipAtHand DEF NoRun
<1> HIDE DEF b
<1>4. bought \in [Spoken -> Nat] /\ unsaved \in [Spoken -> Nat] /\ twofold \in Nat
  BY DEF VoiceInv, VoiceTyped
<1>5. unsaved'[b] = unsaved[b] + 1 /\ \A c \in Spoken : c # b => unsaved'[c] = unsaved[c]
  BY <1>1, <1>3, <1>4
<1>6. VoiceTyped'
  BY <1>1, <1>2, <1>3, <1>4 DEF VoiceInv, VoiceTyped
<1>7. AttemptsAreFew'
  BY <1>1, OverAttempt
<1>8. /\ \A c : Buying(runs', c) = Buying(runs, c) /\ (c # b => Keeping(runs', c) = Keeping(runs, c))
      /\ Keeping(runs', b) = Keeping(runs, b) \ {r} /\ r \in Keeping(runs, b)
  BY <1>1, <1>2, <1>3 DEF Buying, Keeping
<1>9. Cardinality(Keeping(runs', b)) = Cardinality(Keeping(runs, b)) - 1
  BY <1>8, PartsAreFinite, OneMore
<1>10. ASSUME there, NEW c \in Spoken
       PROVE  IF VoiceKey(c) \in files
              THEN bought[c] - unsaved'[c] + Cardinality(Buying(runs, c)) <= Cardinality(Exports) + twofold
              ELSE bought[c] - unsaved'[c] = Cardinality(Keeping(runs', c))
  <2>1. IF VoiceKey(c) \in files
        THEN bought[c] - unsaved[c] + Cardinality(Buying(runs, c)) <= Cardinality(Exports) + twofold
        ELSE bought[c] - unsaved[c] = Cardinality(Keeping(runs, c))
    BY <1>10 DEF VoiceInv, PaidOnce
  <2>2. bought[c] \in Nat /\ unsaved[c] \in Nat
    BY <1>4
  <2>3. CASE c = b
    BY <1>4, <1>5, <1>9, <2>1, <2>2, <2>3, PartsAreFinite
  <2>4. CASE c # b
    BY <1>5, <1>8, <2>1, <2>4
  <2> QED
    BY <2>3, <2>4
<1>11. PaidOnce'
  BY <1>1, <1>8, <1>10 DEF PaidOnce
<1> QED
  BY <1>6, <1>7, <1>11 DEF VoiceInv

\* An attempt that holds no clip is over.
LEMMA QuietOver ==
  ASSUME VoiceInv, FilesInv', NEW r \in Runs, runs[r].pc \notin {"idle", "keep"}, NEW states, Over(r, states),
         UNCHANGED <<there, files, bought, unsaved, twofold>>
  PROVE  VoiceInv'
<1>1. AttemptsAreFew'
  BY OverAttempt
<1>2. runs' = [runs EXCEPT ![r] = NoRun] /\ NoRun.pc = "idle"
  BY DEF Over, NoRun
<1> QED
  BY <1>1, <1>2, QuietVoice

ClipsStay == \A c \in Spoken : VoiceKey(c) \in files' <=> VoiceKey(c) \in files

LEMMA NoClipIsStored ==
  /\ files' = files => ClipsStay
  /\ \A key : key.ext # "mp3" /\ files' = files \cup {key} => ClipsStay
BY DEF ClipsStay, VoiceKey, Key

\* An attempt that holds no clip goes on, and stores no clip.
LEMMA QuietMove ==
  ASSUME VoiceInv, FilesInv', NEW r \in Runs, runs[r].pc \notin {"idle", "keep"}, NEW x,
         runs' = [runs EXCEPT ![r] = x], x.pc \notin {"idle", "keep"}, x.job = runs[r].job,
         UNCHANGED <<there, exports, bought, unsaved, twofold>>, ClipsStay,
         x.pc = "buy" => VoiceKey(ClipOf(x.todo)) \notin files,
         x.pc \in {"voice", "buy"} => x.todo \cap Spoken # {}
  PROVE  VoiceInv'
<1>1. AttemptsAreFew'
  BY SameAttempts
<1>2. \A c \in Spoken : VoiceKey(c) \in files' <=> VoiceKey(c) \in files
  BY DEF ClipsStay
<1>3. x.pc # "keep" /\ runs[r].pc # "keep"
  OBVIOUS
<1>4. x.pc \in {"voice", "buy", "keep"} => x.todo \cap Spoken # {}
  BY <1>3
<1> QED
  BY <1>1, <1>2, <1>3, <1>4, QuietVoice

\* How Made and To change an attempt.
LEMMA AttemptForm ==
  ASSUME VoiceInv, NEW r \in Runs
  PROVE  LET t == runs[r] IN
         /\ \A pc : To(r, pc) => \E x : /\ runs' = [runs EXCEPT ![r] = x] /\ x.job = t.job
                                        /\ x.pc = pc /\ x.todo = t.todo
         /\ \A y : Made(r, y) => \E x : /\ runs' = [runs EXCEPT ![r] = x] /\ x.job = t.job
                                        /\ x.todo = t.todo \ {y}
                                        /\ x.pc \in {"voice", "beds", "render"}
                                        /\ x.pc = "voice" => x.todo \cap Spoken # {}
<1> DEFINE t == runs[r]
<1>1. PICK rows : runs \in [Runs -> Attempts(rows)]
  BY DEF VoiceInv, FilesInv, OutTyped
<1>2. t \in Attempts(rows)
  BY <1>1
<1>3. FilesInv
  BY DEF VoiceInv
<1>4. \A pc, todo, items, item, srt :
          /\ Moved(t, pc, todo, items, item, srt).pc = pc /\ Moved(t, pc, todo, items, item, srt).todo = todo
          /\ Moved(t, pc, todo, items, item, srt).job = t.job
  BY <1>2 DEF Moved, Attempts
<1>5. \A todo : AfterVoice(todo) \in {"voice", "beds", "render"} /\ (AfterVoice(todo) = "voice" => todo \cap Spoken # {})
  BY DEF AfterVoice
<1>6. ASSUME NEW pc, To(r, pc)
      PROVE  \E x : runs' = [runs EXCEPT ![r] = x] /\ x.job = t.job /\ x.pc = pc /\ x.todo = t.todo
  <2> DEFINE x == Moved(t, pc, t.todo, t.items, t.item, t.srt)
  <2>1. runs' = [runs EXCEPT ![r] = x]
    BY <1>3, <1>6, StepForm
  <2>2. x.job = t.job /\ x.pc = pc /\ x.todo = t.todo
    BY <1>4
  <2> HIDE DEF x
  <2> QED
    BY <2>1, <2>2
<1>7. ASSUME NEW y, Made(r, y)
      PROVE  \E x : /\ runs' = [runs EXCEPT ![r] = x] /\ x.job = t.job /\ x.todo = t.todo \ {y}
                    /\ x.pc \in {"voice", "beds", "render"}
                    /\ x.pc = "voice" => x.todo \cap Spoken # {}
  <2> DEFINE x == Moved(t, AfterVoice(t.todo \ {y}), t.todo \ {y}, t.items, t.item, t.srt)
  <2>1. runs' = [runs EXCEPT ![r] = x]
    BY <1>3, <1>7, StepForm
  <2>2. x.job = t.job /\ x.pc = AfterVoice(t.todo \ {y}) /\ x.todo = t.todo \ {y}
    BY <1>4
  <2> HIDE DEF x
  <2> QED
    BY <1>5, <2>1, <2>2
<1> QED
  BY <1>6, <1>7

LEMMA MakingKeepsVoice ==
  ASSUME VoiceInv, FilesInv', NEW r \in Runs, NEW y, Made(r, y), runs[r].pc \notin {"idle", "keep"},
         UNCHANGED <<there, exports, bought, unsaved, twofold>>, ClipsStay
  PROVE  VoiceInv'
<1>1. PICK x : /\ runs' = [runs EXCEPT ![r] = x] /\ x.job = runs[r].job
               /\ x.pc \in {"voice", "beds", "render"}
               /\ x.pc = "voice" => x.todo \cap Spoken # {}
  BY AttemptForm
<1>2. x.pc \notin {"idle", "keep", "buy"}
  BY <1>1
<1> QED
  BY <1>1, <1>2, QuietMove

LEMMA GoingKeepsVoice ==
  ASSUME VoiceInv, FilesInv', NEW r \in Runs, NEW pc \in {"separate", "put", "srt", "find"}, To(r, pc),
         runs[r].pc \notin {"idle", "keep"}, UNCHANGED <<there, exports, bought, unsaved, twofold>>, ClipsStay
  PROVE  VoiceInv'
<1>1. PICK x : runs' = [runs EXCEPT ![r] = x] /\ x.job = runs[r].job /\ x.pc = pc
  BY AttemptForm
<1>2. x.pc \notin {"idle", "keep", "buy", "voice"}
  BY <1>1
<1> QED
  BY <1>1, <1>2, QuietMove

LEMMA LookKeepsVoice ==
  ASSUME VoiceInv, FilesInv', NEW r \in Runs,
         LookForVoice(r) \/ LookForBed(r) \/ Separate(r) \/ RenderItems(r) \/ (BuyVoice(r) /\ runs[r].told)
  PROVE  VoiceInv'
<1>1. runs[r].pc \notin {"idle", "keep"} /\ UNCHANGED <<there, bought, unsaved, twofold>>
  BY DEF LookForVoice, LookForBed, Separate, RenderItems, BuyVoice
<1>2. CASE Over(r, {"canceled"}) /\ files' = files
  BY <1>1, <1>2, QuietOver
<1>3. CASE LookForVoice(r)
  <2>1. runs[r].pc = "voice" /\ exports' = exports /\ ClipsStay
    BY <1>3, NoClipIsStored DEF LookForVoice
  <2>2. NextClip(r) = ClipOf(runs[r].todo) /\ runs[r].todo \cap Spoken # {}
    BY <2>1, ClipAtHand DEF VoiceInv, VoiceTyped
  <2>3. CASE VoiceKey(NextClip(r)) \in files
    <3>1. Made(r, NextClip(r))
      BY <1>3, <2>3 DEF LookForVoice
    <3> QED
      BY <1>1, <2>1, <3>1, MakingKeepsVoice
  <2>4. CASE VoiceKey(NextClip(r)) \notin files
    <3>1. To(r, "buy")
      BY <1>3, <2>4 DEF LookForVoice
    <3>2. PICK x : /\ runs' = [runs EXCEPT ![r] = x] /\ x.job = runs[r].job
                   /\ x.pc = "buy" /\ x.todo = runs[r].todo
      BY <3>1, AttemptForm
    <3>3. VoiceKey(ClipOf(x.todo)) \notin files /\ x.todo \cap Spoken # {}
      BY <2>2, <2>4, <3>2
    <3>4. x.pc \notin {"idle", "keep"}
      BY <3>2
    <3> QED
      BY <1>1, <2>1, <3>2, <3>3, <3>4, QuietMove
  <2> QED
    BY <2>3, <2>4
<1>4. CASE LookForBed(r)
  <2>1. files' = files /\ ClipsStay
    BY <1>4, NoClipIsStored DEF LookForBed
  <2>2. \/ Over(r, {"canceled"})
        \/ exports' = exports /\ (Made(r, NextRange(r)) \/ To(r, "separate"))
    BY <1>4 DEF LookForBed
  <2> QED
    BY <1>1, <1>2, <2>1, <2>2, MakingKeepsVoice, GoingKeepsVoice
<1>5. CASE Separate(r)
  <2>1. /\ files' = files \cup {BedKey(NextRange(r))} /\ Made(r, NextRange(r)) /\ exports' = exports
    BY <1>5 DEF Separate
  <2>2. BedKey(NextRange(r)).ext = "flac"
    BY DEF BedKey, Key
  <2>3. ClipsStay
    BY <2>1, <2>2, NoClipIsStored
  <2> QED
    BY <1>1, <2>1, <2>3, MakingKeepsVoice
<1>6. CASE RenderItems(r)
  <2>1. files' = files /\ ClipsStay
    BY <1>6, NoClipIsStored DEF RenderItems
  <2>2. Over(r, {"canceled"}) \/ (To(r, "put") /\ exports' = exports)
    BY <1>6 DEF RenderItems
  <2> QED
    BY <1>1, <1>2, <2>1, <2>2, GoingKeepsVoice
<1>7. CASE BuyVoice(r) /\ runs[r].told
  BY <1>2, <1>7 DEF BuyVoice
<1> QED
  BY <1>3, <1>4, <1>5, <1>6, <1>7

LEMMA UploadKeepsVoice ==
  ASSUME VoiceInv, FilesInv', NEW r \in Runs,
         Fetch(r) \/ Put(r) \/ PutSrt(r) \/ Find(r) \/ List(r) \/ FinishExport(r) \/ Fails(r)
  PROVE  VoiceInv'
<1>1. runs[r].pc \notin {"idle", "keep"} /\ UNCHANGED <<there, bought, unsaved, twofold>>
  <2>1. UNCHANGED <<there, bought, unsaved, twofold>>
    BY Zenon DEF Fetch, Put, PutSrt, Find, List, FinishExport, Fails
  <2>2. Fails(r) => runs[r].pc \notin {"idle", "keep"}
    BY DEF Fails
  <2>3. ~Fails(r) => runs[r].pc \in {"fetch", "put", "srt", "find", "commit"}
    <3>1. ~Fails(r) => \/ Fetch(r) \/ Put(r) \/ PutSrt(r) \/ Find(r) \/ List(r) \/ FinishExport(r)
      OBVIOUS
    <3>2. /\ Fetch(r) => runs[r].pc = "fetch"
          /\ Find(r) => runs[r].pc = "find"
          /\ Put(r) \/ FinishExport(r) => runs[r].pc = "put"
          /\ PutSrt(r) => runs[r].pc = "srt"
          /\ List(r) => runs[r].pc = "commit"
      BY Zenon DEF Fetch, Put, PutSrt, Find, List, FinishExport
    <3> QED
      BY <3>1, <3>2
  <2> QED
    BY <2>1, <2>2, <2>3
<1>2. ASSUME NEW states, Over(r, states), files' = files PROVE VoiceInv'
  BY <1>1, <1>2, QuietOver
<1>3. PICK rows : runs \in [Runs -> Attempts(rows)]
  BY DEF VoiceInv, FilesInv, OutTyped
<1>4. runs[r] \in Attempts(rows)
  BY <1>3
<1>5. CASE Fetch(r) /\ there
  <2>1. PICK items \in 1 .. most_items, srt \in BOOLEAN, voiced \in BOOLEAN, removes \in BOOLEAN :
               LET todo == IF voiced THEN Spoken \cup (IF removes THEN Ranges ELSE {}) ELSE {}
               IN  /\ runs' = [runs EXCEPT ![r].items = items, ![r].item = 1, ![r].srt = srt,
                                           ![r].todo = todo, ![r].pc = AfterVoice(todo)]
                   /\ exports' = exports
    BY <1>5, Zenon DEF Fetch
  <2> DEFINE todo == IF voiced THEN Spoken \cup (IF removes THEN Ranges ELSE {}) ELSE {}
             x == Moved(runs[r], AfterVoice(todo), todo, items, 1, srt)
  <2>2. runs' = [runs EXCEPT ![r].items = items, ![r].item = 1, ![r].srt = srt,
                             ![r].todo = todo, ![r].pc = AfterVoice(todo)]
    BY <2>1
  <2> HIDE DEF todo
  <2>3. runs' = [runs EXCEPT ![r] = x]
    BY <1>3, <1>4, <2>2 DEF Moved, Attempts
  <2>4. x.pc = AfterVoice(todo) /\ x.todo = todo /\ x.job = runs[r].job
    BY <1>4 DEF Moved, Attempts
  <2>5. /\ AfterVoice(todo) \in {"voice", "beds", "render"}
        /\ AfterVoice(todo) = "voice" => todo \cap Spoken # {}
    BY DEF AfterVoice
  <2>6. ClipsStay /\ exports' = exports
    <3>1. files' = files
      BY <1>5, Zenon DEF Fetch
    <3> QED
      BY <2>1, <3>1, NoClipIsStored
  <2> HIDE DEF x
  <2>7. x.pc \notin {"idle", "keep", "buy"} /\ (x.pc = "voice" => x.todo \cap Spoken # {})
    BY <2>4, <2>5
  <2> QED
    BY <1>1, <2>3, <2>4, <2>6, <2>7, QuietMove
<1>6. CASE Fetch(r) /\ ~there
  BY <1>2, <1>6 DEF Fetch
<1>7. CASE Put(r)
  <2>1. files' = files \cup {VideoKey(r)} /\ exports' = exports
    BY <1>7 DEF Put
  <2>2. VideoKey(r).ext = "mp4"
    BY DEF VideoKey, Key
  <2>3. ClipsStay
    BY <2>1, <2>2, NoClipIsStored
  <2>4. To(r, "srt") \/ To(r, "find")
    BY <1>7 DEF Put
  <2> QED
    BY <1>1, <2>1, <2>3, <2>4, GoingKeepsVoice
<1>8. CASE PutSrt(r)
  <2>1. files' = files \cup {SrtKey(r)} /\ exports' = exports /\ To(r, "find")
    BY <1>8 DEF PutSrt
  <2>2. SrtKey(r).ext \in {"srt", "none"}
    BY DEF SrtKey, Key, NoKeyAtAll
  <2>3. ClipsStay
    BY <2>1, <2>2, NoClipIsStored
  <2> QED
    BY <1>1, <2>1, <2>3, GoingKeepsVoice
<1>9. CASE Find(r)
  <2>1. PICK row : runs' = [runs EXCEPT ![r].found = row, ![r].pc = "commit"]
    BY <1>9, Zenon DEF Find
  <2> DEFINE x == [runs[r] EXCEPT !.found = row, !.pc = "commit"]
  <2>2. runs' = [runs EXCEPT ![r] = x]
    BY <1>3, <1>4, <2>1 DEF Attempts
  <2>3. x.pc = "commit" /\ x.job = runs[r].job
    BY <1>4 DEF Attempts
  <2>4. ClipsStay /\ exports' = exports
    BY <1>9, NoClipIsStored DEF Find
  <2> HIDE DEF x
  <2>5. x.pc \notin {"idle", "keep", "buy", "voice"}
    BY <2>3
  <2> QED
    BY <1>1, <2>2, <2>3, <2>4, <2>5, QuietMove
<1>10. CASE List(r)
  <2>1. files' = files /\ ClipsStay
    BY <1>10, NoClipIsStored DEF List
  <2> DEFINE x == [runs[r] EXCEPT !.item = @ + 1, !.pc = "put", !.found = NoRow]
  <2>2. x.pc = "put" /\ x.job = runs[r].job
    BY <1>4 DEF Attempts
  <2>3. \/ Over(r, {"queued", "failed"})
        \/ runs' = [runs EXCEPT ![r] = x] /\ exports' = exports
    BY <1>10 DEF List
  <2> HIDE DEF x
  <2>4. x.pc \notin {"idle", "keep", "buy", "voice"}
    BY <2>2
  <2>5. CASE Over(r, {"queued", "failed"})
    BY <1>2, <2>1, <2>5
  <2>6. CASE runs' = [runs EXCEPT ![r] = x] /\ exports' = exports
    BY <1>1, <2>1, <2>2, <2>4, <2>6, QuietMove
  <2> QED
    BY <2>3, <2>5, <2>6
<1>11. CASE FinishExport(r) \/ Fails(r)
  BY <1>2, <1>11 DEF FinishExport, Fails
<1> QED
  BY <1>5, <1>6, <1>7, <1>8, <1>9, <1>10, <1>11

LEMMA BeginKeepsVoice ==
  ASSUME VoiceInv, FilesInv', NEW r \in Runs, NEW e \in Exports, BeginExport(r, e)
  PROVE  VoiceInv'
<1> DEFINE x == [NoRun EXCEPT !.job = e, !.token = exports[e].tries + 1, !.pc = "fetch"]
<1>1. /\ runs' = [runs EXCEPT ![r] = x] /\ runs[r].pc = "idle" /\ x.pc = "fetch"
      /\ UNCHANGED <<there, files, bought, unsaved, twofold>>
  BY DEF BeginExport, NoRun
<1>2. AttemptsAreFew'
  BY BeginAttempt
<1> HIDE DEF x
<1> QED
  BY <1>1, <1>2, QuietVoice

LEMMA HearKeepsVoice == ASSUME VoiceInv, FilesInv', NEW r \in Runs, HearOf(r) PROVE VoiceInv'
<1> DEFINE x == [runs[r] EXCEPT !.told = TRUE]
<1>1. PICK rows : runs \in [Runs -> Attempts(rows)]
  BY DEF VoiceInv, FilesInv, OutTyped
<1>2. /\ runs' = [runs EXCEPT ![r] = x] /\ runs[r].pc # "idle" /\ x.pc = runs[r].pc /\ x.todo = runs[r].todo
      /\ x.job = runs[r].job /\ UNCHANGED <<there, files, exports, bought, unsaved, twofold>>
  BY <1>1 DEF HearOf, Attempts
<1> HIDE DEF x
<1>3. AttemptsAreFew'
  BY <1>2, SameAttempts
<1>4. x.pc \in {"voice", "buy", "keep"} => x.todo \cap Spoken # {}
  BY <1>2 DEF VoiceInv, VoiceTyped
<1> QED
  BY <1>2, <1>3, <1>4, QuietVoice

\* The row of a live attempt is queued again: one more attempt may join it.
LEMMA ReapKeepsVoice == ASSUME VoiceInv, FilesInv', NEW r \in Runs, ReapStalled(r) PROVE VoiceInv'
<1>1. PICK state \in {"queued", "failed"} :
          /\ exports' = [exports EXCEPT ![runs[r].job].state = state]
          /\ twofold' = twofold + (IF state = "queued" THEN 1 ELSE 0)
  BY DEF ReapStalled
<1> DEFINE e == runs[r].job
<1>2. e \in Exports /\ exports[e].state = "running" /\ UNCHANGED <<there, runs, files, bought, unsaved>>
  BY DEF ReapStalled, Owns
<1>3. exports \in [Exports -> OfExport] /\ twofold \in Nat
  BY DEF VoiceInv, FilesInv, OutTyped, VoiceTyped
<1> HIDE DEF e
<1>4. exports' = [exports EXCEPT ![e].state = state]
  BY <1>1 DEF e
<1>5. exports'[e].state = state /\ \A d \in Exports : d # e => exports'[d] = exports[d]
  BY <1>2, <1>3, <1>4 DEF OfExport
<1>6. /\ Waiting' \subseteq Waiting \cup {e}
      /\ state # "queued" => Waiting' \subseteq Waiting
  BY <1>2, <1>5 DEF Waiting, Alive
<1>7. /\ Cardinality(Waiting') \in Nat
      /\ Cardinality(Waiting') <= Cardinality(Waiting) + (IF state = "queued" THEN 1 ELSE 0)
  BY <1>6, PartsAreFinite, WaitingGrows, WaitingStays
<1>8. twofold' \in Nat /\ twofold' - twofold = IF state = "queued" THEN 1 ELSE 0
  BY <1>1, <1>3
<1>9. Cardinality(Waiting') \in Nat /\ Cardinality(Waiting') <= Cardinality(Waiting) + (twofold' - twofold)
  BY <1>7, <1>8, PartsAreFinite
<1>10. twofold' >= twofold
  BY <1>1, <1>3
<1> QED
  BY <1>2, <1>8, <1>9, <1>10, BesideVoice

LEMMA CancelKeepsVoice == ASSUME VoiceInv, FilesInv', NEW e \in Exports, CancelExport(e) PROVE VoiceInv'
<1>1. exports \in [Exports -> OfExport] /\ twofold \in Nat
  BY DEF VoiceInv, FilesInv, OutTyped, VoiceTyped
<1>2. \A d \in Exports : exports'[d].state = "queued" => exports[d].state = "queued"
  BY <1>1 DEF CancelExport, OfExport
<1>3. Waiting' \subseteq Waiting
  <2>1. runs' = runs
    BY DEF CancelExport
  <2> QED
    BY <1>2, <2>1 DEF Waiting, Alive
<1>4. Cardinality(Waiting') \in Nat /\ Cardinality(Waiting') <= Cardinality(Waiting)
  BY <1>3, WaitingStays
<1>5. UNCHANGED <<there, runs, files, bought, unsaved, twofold>>
  BY DEF CancelExport
<1> QED
  BY <1>1, <1>4, <1>5, PartsAreFinite, BesideVoice

\* A job queued again: another attempt of it only where one is at work still.
LEMMA RetryKeepsVoice == ASSUME VoiceInv, FilesInv', NEW e \in Exports, RetryExport(e) PROVE VoiceInv'
<1>1. exports \in [Exports -> OfExport] /\ twofold \in Nat
  BY DEF VoiceInv, FilesInv, OutTyped, VoiceTyped
<1>2. /\ UNCHANGED <<there, runs, files, bought, unsaved>>
      /\ twofold' = twofold + (IF Working(e) # {} THEN 1 ELSE 0)
  BY DEF RetryExport
<1>3. \A d \in Exports : d # e => exports'[d] = exports[d]
  BY <1>1 DEF RetryExport
<1>4. Waiting' \subseteq Waiting \cup {e}
  BY <1>2, <1>3 DEF Waiting, Alive
<1>5. Working(e) = {} => Waiting' \subseteq Waiting
  <2>1. ASSUME Working(e) = {} PROVE e \in Waiting
    BY <2>1 DEF Waiting, Alive, Working
  <2> QED
    BY <1>4, <2>1
<1>6. /\ twofold' \in Nat /\ twofold' >= twofold
      /\ Cardinality(Waiting') \in Nat /\ Cardinality(Waiting') <= Cardinality(Waiting) + (twofold' - twofold)
  <2>1. CASE Working(e) = {}
    <3>1. twofold' = twofold
      BY <1>1, <1>2, <2>1
    <3>2. Cardinality(Waiting') \in Nat /\ Cardinality(Waiting') <= Cardinality(Waiting)
      BY <1>5, <2>1, WaitingStays
    <3> QED
      BY <1>1, <3>1, <3>2, PartsAreFinite
  <2>2. CASE Working(e) # {}
    <3>1. twofold' = twofold + 1
      BY <1>2, <2>2
    <3>2. Cardinality(Waiting') \in Nat /\ Cardinality(Waiting') <= Cardinality(Waiting) + 1
      BY <1>4, WaitingGrows
    <3> QED
      BY <1>1, <3>1, <3>2, PartsAreFinite
  <2> QED
    BY <2>1, <2>2
<1> QED
  BY <1>2, <1>6, BesideVoice

\* Deletions: the keys of an output are never those of a clip.
LEMMA DeletionKeepsVoice ==
  ASSUME VoiceInv, FilesInv', (\E row \in listed : DeleteRow(row)) \/ AskUsed \/ RemoveFile PROVE VoiceInv'
<1>1. UNCHANGED <<there, runs, exports, bought, unsaved, twofold>>
  BY DEF DeleteRow, AskUsed, RemoveFile
<1>2. Waiting' = Waiting /\ twofold \in Nat
  BY <1>1 DEF Waiting, Alive, VoiceInv, VoiceTyped
<1>3. deletion.keys \subseteq OutKeys
  BY DEF VoiceInv, FilesInv, OutTyped
<1>4. files \ deletion.keys \subseteq files' /\ files' \subseteq files
  BY DEF DeleteRow, AskUsed, RemoveFile
<1>5. \A c \in Spoken : VoiceKey(c) \notin OutKeys
  BY DEF VoiceKey, Key, OutKeys
<1>6. \A c \in Spoken : VoiceKey(c) \in files' <=> VoiceKey(c) \in files
  BY <1>3, <1>4, <1>5
<1>7. Cardinality(Waiting') \in Nat /\ Cardinality(Waiting') <= Cardinality(Waiting) + (twofold' - twofold)
  BY <1>1, <1>2, PartsAreFinite
<1> QED
  BY <1>1, <1>2, <1>6, <1>7, BesideVoice

LEMMA ProjectGoesVoice == ASSUME VoiceInv, FilesInv', DeleteProject \/ Sweep PROVE VoiceInv'
<1>1. UNCHANGED <<runs, bought, unsaved, twofold>> /\ ~there'
  BY DEF DeleteProject, Sweep, VoiceInv, FilesInv, OutTyped
<1>2. exports \in [Exports -> OfExport] /\ twofold \in Nat
  BY DEF VoiceInv, FilesInv, OutTyped, VoiceTyped
<1>3. Waiting' \subseteq Waiting
  <2>1. \A e \in Exports : exports'[e].state = "queued" => exports[e].state = "queued"
    BY <1>2 DEF DeleteProject, Sweep, OfExport
  <2> QED
    BY <1>1, <2>1 DEF Waiting, Alive
<1>4. Cardinality(Waiting') \in Nat /\ Cardinality(Waiting') <= Cardinality(Waiting)
  BY <1>3, WaitingStays
<1>5. Cardinality(Waiting') <= Cardinality(Waiting) + (twofold' - twofold) /\ twofold' >= twofold
  BY <1>1, <1>2, <1>4, PartsAreFinite
<1> QED
  BY <1>1, <1>2, <1>4, <1>5, BesideVoice

LEMMA VoiceNext == VoiceInv /\ [OutNext]_outVars => VoiceInv'
<1> SUFFICES ASSUME VoiceInv, [OutNext]_outVars PROVE VoiceInv'
  OBVIOUS
<1>1. FilesInv'
  BY FilesNext DEF VoiceInv
<1>2. CASE UNCHANGED outVars
  <2>1. /\ UNCHANGED <<there, runs, exports, files, bought, unsaved, twofold>>
        /\ Waiting' = Waiting /\ twofold \in Nat
    BY <1>2 DEF outVars, Waiting, Alive, VoiceInv, VoiceTyped
  <2>2. Cardinality(Waiting') \in Nat /\ Cardinality(Waiting') <= Cardinality(Waiting) + (twofold' - twofold)
    BY <2>1, PartsAreFinite
  <2> QED
    BY <1>1, <2>1, <2>2, BesideVoice
<1>3. ASSUME NEW r \in Runs,
             \/ Fetch(r) \/ LookForVoice(r) \/ BuyVoice(r) \/ KeepVoice(r) \/ VoiceIsLost(r)
             \/ LookForBed(r) \/ Separate(r) \/ RenderItems(r)
             \/ Put(r) \/ PutSrt(r) \/ Find(r) \/ List(r) \/ FinishExport(r)
             \/ Fails(r) \/ ReapStalled(r) \/ HearOf(r)
             \/ \E e \in Exports : BeginExport(r, e)
      PROVE  VoiceInv'
  BY <1>1, <1>3, LookKeepsVoice, BuyKeepsVoice, KeepKeepsVoice, LossKeepsVoice, UploadKeepsVoice,
     ReapKeepsVoice, HearKeepsVoice, BeginKeepsVoice
<1> QED
  BY <1>1, <1>2, <1>3, CancelKeepsVoice, RetryKeepsVoice, DeletionKeepsVoice, ProjectGoesVoice DEF OutNext

\* The voice is paid once for the same words (voice.py: look, buy, put): more
\* often only by attempts that are at work at once, those of several jobs or of
\* one that was reaped or retried beside a live attempt.
THEOREM VoiceIsPaidOnce == OutSpec => []VoiceIsBoughtOnce
<1>1. VoiceInv => VoiceIsBoughtOnce
  <2> SUFFICES ASSUME VoiceInv, there, NEW c \in Spoken
               PROVE  bought[c] - unsaved[c] <= Cardinality(Exports) + twofold
    BY DEF VoiceIsBoughtOnce
  <2>1. IF VoiceKey(c) \in files
        THEN bought[c] - unsaved[c] + Cardinality(Buying(runs, c)) <= Cardinality(Exports) + twofold
        ELSE bought[c] - unsaved[c] = Cardinality(Keeping(runs, c))
    BY DEF VoiceInv, PaidOnce
  <2>2. bought[c] \in Nat /\ unsaved[c] \in Nat /\ twofold \in Nat
    BY DEF VoiceInv, VoiceTyped
  <2>3. Keeping(runs, c) \subseteq Alive
    BY DEF Keeping, Alive
  <2>4. Cardinality(Keeping(runs, c)) <= Cardinality(Alive)
    BY <2>3, PartsAreFinite, FS_Subset
  <2>5. Cardinality(Alive) <= Cardinality(Exports) + twofold
    BY <2>2, PartsAreFinite DEF VoiceInv, AttemptsAreFew
  <2> QED
    BY <2>1, <2>2, <2>4, <2>5, PartsAreFinite
<1> QED
  BY <1>1, VoiceInit, VoiceNext, PTL DEF OutSpec

\* An attempt goes one item beyond the last and uploads none of it.
ItemFits(t) ==
    /\ t.item \in Nat /\ t.items \in 0 .. most_items /\ t.item <= t.items + 1
    /\ t.pc \in {"srt", "find", "commit"} => t.item <= t.items

TriesFit(row) == row.tries <= export_attempts /\ (row.state = "queued" => row.tries < export_attempts)

IdsGiven == IsFiniteSet(listed) /\ \A row \in listed : row.id \in Nat \ {0}

TroublesCount == troubles \in 0 .. ExportMishaps /\ twofold \in 0 .. troubles

OutBounded ==
    /\ \A r \in Runs : ItemFits(runs[r])
    /\ \A e \in Exports : TriesFit(exports[e])
    /\ IdsGiven /\ TroublesCount

\* There is a number left: the numbers known are fewer than those to choose from.
LEMMA NewIdIsGiven == ASSUME IsFiniteSet(listed) PROVE NewId \in Nat \ {0}
<1> DEFINE ids == {row.id : row \in listed}
           held == {runs[r].found.id : r \in Runs}
           known == ids \cup held
           n == Cardinality(known) + 1
<1>1. IsFiniteSet(ids)
  <2> DEFINE f == [row \in listed |-> row.id]
  <2>1. f \in Surjection(listed, ids)
    BY DEF Surjection
  <2> QED
    BY <2>1, FS_Surjection
<1>2. IsFiniteSet(held)
  <2> DEFINE f == [r \in Runs |-> runs[r].found.id]
  <2>1. f \in Surjection(Runs, held)
    BY DEF Surjection
  <2> QED
    BY <2>1, FS_Surjection, OutputsAssumption
<1>3. IsFiniteSet(known) /\ Cardinality(known) \in Nat
  <2>1. IsFiniteSet(known)
    BY <1>1, <1>2, FS_Union
  <2> QED
    BY <2>1, FS_CardinalityType
<1> HIDE DEF known
<1>4. IsFiniteSet(1 .. n) /\ Cardinality(1 .. n) = n
  <2>1. 1 \in Int /\ n \in Int /\ ~(1 > n) /\ n - 1 + 1 = n
    BY <1>3
  <2> HIDE DEF n
  <2> QED
    BY <2>1, FS_Interval
<1>5. ~(1 .. n \subseteq known)
  <2> SUFFICES ASSUME 1 .. n \subseteq known PROVE FALSE
    OBVIOUS
  <2>1. Cardinality(1 .. n) <= Cardinality(known)
    BY <1>3, FS_Subset
  <2> QED
    BY <1>3, <1>4, <2>1
<1>6. \E k \in 1 .. n : k \notin known
  BY <1>5
<1>7. NewId = CHOOSE k \in 1 .. n : k \notin known
  BY DEF NewId, known
<1>8. NewId \in 1 .. n
  BY <1>6, <1>7
<1> QED
  BY <1>3, <1>8

LEMMA ItemsStep ==
  ASSUME OutTyped, OutBounded, NEW r \in Runs, NEW x, ItemFits(x), runs' = [runs EXCEPT ![r] = x]
  PROVE  \A s \in Runs : ItemFits(runs'[s])
<1>1. \A s \in Runs : runs'[s] = IF s = r THEN x ELSE runs[s]
  BY DEF OutTyped
<1> QED
  BY <1>1 DEF OutBounded

\* A step that changes at most where an attempt is, before the uploads.
LEMMA ItemsMove ==
  ASSUME OutTyped, OutBounded, NEW r \in Runs, NEW pc, pc \notin {"srt", "find", "commit"}, NEW todo,
         runs' = [runs EXCEPT ![r].pc = pc] \/ runs' = [runs EXCEPT ![r].todo = todo, ![r].pc = pc]
  PROVE  \A s \in Runs : ItemFits(runs'[s])
<1>1. PICK rows : runs \in [Runs -> Attempts(rows)]
  BY DEF OutTyped
<1>2. runs[r] \in Attempts(rows) /\ ItemFits(runs[r])
  BY <1>1 DEF OutBounded
<1>3. CASE runs' = [runs EXCEPT ![r].pc = pc]
  <2> DEFINE x == [runs[r] EXCEPT !.pc = pc]
  <2>1. x.item = runs[r].item /\ x.items = runs[r].items /\ x.pc = pc
    BY <1>2 DEF Attempts
  <2>2. runs' = [runs EXCEPT ![r] = x]
    BY <1>3
  <2> HIDE DEF x
  <2>3. ItemFits(x)
    BY <1>2, <2>1 DEF ItemFits
  <2> QED
    BY <2>2, <2>3, ItemsStep
<1>4. CASE runs' = [runs EXCEPT ![r].todo = todo, ![r].pc = pc]
  <2> DEFINE x == [runs[r] EXCEPT !.todo = todo, !.pc = pc]
  <2>1. x.item = runs[r].item /\ x.items = runs[r].items /\ x.pc = pc
    BY <1>2 DEF Attempts
  <2>2. runs' = [runs EXCEPT ![r] = x]
    BY <1>4
  <2> HIDE DEF x
  <2>3. ItemFits(x)
    BY <1>2, <2>1 DEF ItemFits
  <2> QED
    BY <2>2, <2>3, ItemsStep
<1> QED
  BY <1>3, <1>4

LEMMA NoRunFits == ItemFits(NoRun)
BY OutputsAssumption DEF NoRun, ItemFits

LEMMA OverFits ==
  ASSUME OutTyped, OutBounded, NEW r \in Runs, NEW states, Over(r, states)
  PROVE  (\A s \in Runs : ItemFits(runs'[s])) /\ \A e \in Exports : TriesFit(exports'[e])
<1>1. \A s \in Runs : ItemFits(runs'[s])
  BY NoRunFits, ItemsStep DEF Over
<1>2. CASE exports' = exports
  BY <1>1, <1>2 DEF OutBounded
<1>3. CASE exports' # exports
  <2> DEFINE f == runs[r].job
  <2>1. PICK state \in states : /\ state = "queued" => runs[r].token < export_attempts
                                /\ exports' = [exports EXCEPT ![f].state = state]
    BY <1>3 DEF Over
  <2>2. f \in Exports /\ exports[f].tries = runs[r].token
    BY <1>3 DEF Over, Owns
  <2> HIDE DEF f
  <2>3. exports[f] \in OfExport /\ TriesFit(exports[f])
    BY <2>2 DEF OutTyped, OutBounded
  <2>4. \A e \in Exports : exports'[e] = IF e = f THEN [exports[f] EXCEPT !.state = state] ELSE exports[e]
    BY <2>1, <2>2 DEF OutTyped
  <2>5. TriesFit([exports[f] EXCEPT !.state = state])
    BY <2>1, <2>2, <2>3 DEF TriesFit, OfExport
  <2> QED
    BY <1>1, <2>4, <2>5 DEF OutBounded
<1> QED
  BY <1>1, <1>2, <1>3

LEMMA Troubled == TroublesCount /\ Trouble => troubles' \in 0 .. ExportMishaps /\ twofold \in 0 .. troubles'
                                             /\ twofold + 1 \in 0 .. troubles'
BY OutputsAssumption DEF TroublesCount, Trouble

\* The attempts: how far each is, and how often its job was tried.
LEMMA AttemptsFit ==
  ASSUME OutTyped, OutBounded, [OutNext]_outVars
  PROVE  \A r \in Runs : ItemFits(runs'[r])
<1> DEFINE Fit == \A s \in Runs : ItemFits(runs'[s])
<1>1. CASE runs' = runs
  BY <1>1 DEF OutBounded
<1>2. ASSUME NEW r \in Runs, NEW states, Over(r, states) PROVE Fit
  BY <1>2, OverFits
<1>3. ASSUME NEW r \in Runs, NEW x, Made(r, x) PROVE Fit
  BY <1>3, ItemsMove DEF Made, AfterVoice
<1>4. ASSUME NEW r \in Runs, NEW pc, To(r, pc), pc \notin {"srt", "find", "commit"} PROVE Fit
  BY <1>4, ItemsMove DEF To
<1>5. PICK rows : runs \in [Runs -> Attempts(rows)]
  BY DEF OutTyped
<1>6. ASSUME NEW r \in Runs, Fetch(r) PROVE Fit
  <2>1. CASE there
    <3>8. PICK items \in 1 .. most_items, srt \in BOOLEAN, voiced \in BOOLEAN, removes \in BOOLEAN :
               LET todo == IF voiced THEN Spoken \cup (IF removes THEN Ranges ELSE {}) ELSE {}
               IN  /\ runs' = [runs EXCEPT ![r].items = items, ![r].item = 1, ![r].srt = srt,
                                           ![r].todo = todo, ![r].pc = AfterVoice(todo)]
                   /\ exports' = exports
      BY <1>6, <2>1, Zenon DEF Fetch
    <3> DEFINE todo == IF voiced THEN Spoken \cup (IF removes THEN Ranges ELSE {}) ELSE {}
    <3>0. runs' = [runs EXCEPT ![r].items = items, ![r].item = 1, ![r].srt = srt,
                               ![r].todo = todo, ![r].pc = AfterVoice(todo)]
      BY <3>8
    <3> HIDE DEF todo
    <3>1. PICK pc \in {"voice", "beds", "render"} :
             runs' = [runs EXCEPT ![r].items = items, ![r].item = 1, ![r].srt = srt,
                                  ![r].todo = todo, ![r].pc = pc]
      BY <3>0 DEF AfterVoice
    <3> DEFINE x == [runs[r] EXCEPT !.items = items, !.item = 1, !.srt = srt, !.todo = todo, !.pc = pc]
    <3>2. runs[r] \in Attempts(rows) /\ runs' = [runs EXCEPT ![r] = x]
      BY <1>5, <3>1
    <3>3. x.items = items /\ x.item = 1 /\ x.pc = pc
      BY <3>2 DEF Attempts
    <3> HIDE DEF x
    <3>4. ItemFits(x)
      BY <3>3, OutputsAssumption DEF ItemFits
    <3> QED
      BY <3>2, <3>4, ItemsStep
  <2>2. CASE ~there
    BY <1>2, <1>6, <2>2 DEF Fetch
  <2> QED
    BY <2>1, <2>2
<1>7. ASSUME NEW r \in Runs, BuyVoice(r) \/ VoiceIsLost(r) \/ RenderItems(r) \/ FinishExport(r) \/ Fails(r)
      PROVE  Fit
  BY <1>2, <1>4, <1>7 DEF BuyVoice, VoiceIsLost, RenderItems, FinishExport, Fails
<1>8. ASSUME NEW r \in Runs, LookForVoice(r) \/ KeepVoice(r) \/ LookForBed(r) \/ Separate(r) PROVE Fit
  BY <1>2, <1>3, <1>4, <1>8 DEF LookForVoice, KeepVoice, LookForBed, Separate
<1>9. ASSUME NEW r \in Runs, NEW pc, To(r, pc), runs[r].item <= runs[r].items PROVE Fit
  <2> DEFINE x == [runs[r] EXCEPT !.pc = pc]
  <2>1. runs[r] \in Attempts(rows) /\ runs' = [runs EXCEPT ![r] = x] /\ ItemFits(runs[r])
    BY <1>5, <1>9 DEF To, OutBounded
  <2>2. x.items = runs[r].items /\ x.item = runs[r].item
    BY <2>1 DEF Attempts
  <2> HIDE DEF x
  <2>3. ItemFits(x)
    BY <1>9, <2>1, <2>2 DEF ItemFits
  <2> QED
    BY <2>1, <2>3, ItemsStep
<1>10. ASSUME NEW r \in Runs, Put(r) \/ PutSrt(r) PROVE Fit
  <2>1. runs[r].item <= runs[r].items
    BY <1>10 DEF Put, PutSrt, OutBounded, ItemFits
  <2>2. \E pc \in {"srt", "find"} : To(r, pc)
    BY <1>10 DEF Put, PutSrt
  <2> QED
    BY <1>9, <2>1, <2>2
<1>11. ASSUME NEW r \in Runs, Find(r) PROVE Fit
  <2>1. PICK row : runs' = [runs EXCEPT ![r].found = row, ![r].pc = "commit"]
    BY <1>11 DEF Find
  <2> DEFINE x == [runs[r] EXCEPT !.found = row, !.pc = "commit"]
  <2>2. runs[r] \in Attempts(rows) /\ runs' = [runs EXCEPT ![r] = x] /\ ItemFits(runs[r]) /\ runs[r].pc = "find"
    BY <1>5, <1>11, <2>1 DEF Find, OutBounded
  <2>3. x.items = runs[r].items /\ x.item = runs[r].item
    BY <2>2 DEF Attempts
  <2> HIDE DEF x
  <2>4. ItemFits(x)
    BY <2>2, <2>3 DEF ItemFits
  <2> QED
    BY <2>2, <2>4, ItemsStep
<1>12. ASSUME NEW r \in Runs, List(r) PROVE Fit
  <2> DEFINE x == [runs[r] EXCEPT !.item = @ + 1, !.pc = "put", !.found = NoRow]
  <2>1. Over(r, {"queued", "failed"}) \/ runs' = [runs EXCEPT ![r] = x]
    BY <1>12 DEF List
  <2>2. runs[r] \in Attempts(rows) /\ ItemFits(runs[r]) /\ runs[r].pc = "commit"
    BY <1>5, <1>12 DEF List, OutBounded
  <2>3. x.items = runs[r].items /\ x.item = runs[r].item + 1 /\ x.pc = "put"
    BY <2>2 DEF Attempts
  <2> HIDE DEF x
  <2>4. ItemFits(x)
    BY <2>2, <2>3 DEF ItemFits
  <2> QED
    BY <1>2, <2>1, <2>4, ItemsStep
<1>13. ASSUME NEW r \in Runs, HearOf(r) PROVE Fit
  <2> DEFINE x == [runs[r] EXCEPT !.told = TRUE]
  <2>1. runs[r] \in Attempts(rows) /\ runs' = [runs EXCEPT ![r] = x] /\ ItemFits(runs[r])
    BY <1>5, <1>13 DEF HearOf, OutBounded
  <2>2. x.items = runs[r].items /\ x.item = runs[r].item /\ x.pc = runs[r].pc
    BY <2>1 DEF Attempts
  <2> HIDE DEF x
  <2>3. ItemFits(x)
    BY <2>1, <2>2 DEF ItemFits
  <2> QED
    BY <2>1, <2>3, ItemsStep
<1>14. ASSUME NEW r \in Runs, NEW e \in Exports, BeginExport(r, e) PROVE Fit
  <2> DEFINE x == [NoRun EXCEPT !.job = e, !.token = exports[e].tries + 1, !.pc = "fetch"]
  <2>1. runs' = [runs EXCEPT ![r] = x]
    BY <1>14 DEF BeginExport
  <2>2. x.items = 0 /\ x.item = 0 /\ x.pc = "fetch"
    BY DEF NoRun
  <2> HIDE DEF x
  <2>3. ItemFits(x)
    BY <2>2, OutputsAssumption DEF ItemFits
  <2> QED
    BY <2>1, <2>3, ItemsStep
<1>15. ASSUME \/ \E r \in Runs : ReapStalled(r)
              \/ \E e \in Exports : CancelExport(e) \/ RetryExport(e)
              \/ \E row \in listed : DeleteRow(row)
              \/ AskUsed \/ RemoveFile \/ DeleteProject \/ Sweep \/ UNCHANGED outVars
       PROVE  Fit
  BY <1>1, <1>15 DEF ReapStalled, CancelExport, RetryExport, DeleteRow, AskUsed, RemoveFile, DeleteProject, Sweep, outVars
<1> QED
  BY <1>6, <1>7, <1>8, <1>10, <1>11, <1>12, <1>13, <1>14, <1>15 DEF OutNext

LEMMA ExportsFit ==
  ASSUME OutTyped, OutBounded, [OutNext]_outVars
  PROVE  \A e \in Exports : TriesFit(exports'[e])
<1> DEFINE Fit == \A e \in Exports : TriesFit(exports'[e])
<1>1. CASE exports' = exports
  BY <1>1 DEF OutBounded
<1>2. ASSUME NEW r \in Runs, NEW states, Over(r, states) PROVE Fit
  BY <1>2, OverFits
<1>3. ASSUME NEW f \in Exports, NEW x, TriesFit(x), exports' = [exports EXCEPT ![f] = x] PROVE Fit
  <2>1. \A e \in Exports : exports'[e] = IF e = f THEN x ELSE exports[e]
    BY <1>3 DEF OutTyped
  <2> QED
    BY <1>3, <2>1 DEF OutBounded
<1>4. \A e \in Exports : exports[e] \in OfExport /\ TriesFit(exports[e])
  BY DEF OutTyped, OutBounded
<1>5. ASSUME NEW r \in Runs, NEW e \in Exports, BeginExport(r, e) PROVE Fit
  <2> DEFINE x == [exports[e] EXCEPT !.state = "running", !.tries = @ + 1]
  <2>1. exports' = [exports EXCEPT ![e] = x] /\ exports[e].state = "queued"
    BY <1>5 DEF BeginExport
  <2>2. x.state = "running" /\ x.tries = exports[e].tries + 1
    BY <1>4 DEF OfExport
  <2>3. exports[e].tries \in Nat
    BY <1>4 DEF OfExport
  <2> HIDE DEF x
  <2>4. TriesFit(x)
    BY <1>4, <2>1, <2>2, <2>3, OutputsAssumption DEF TriesFit
  <2> QED
    BY <1>3, <2>1, <2>4
<1>6. ASSUME NEW r \in Runs, ReapStalled(r) PROVE Fit
  <2> DEFINE f == runs[r].job
  <2>1. PICK state \in {"queued", "failed"} :
           /\ state = "queued" => runs[r].token < export_attempts
           /\ exports' = [exports EXCEPT ![f].state = state]
    BY <1>6 DEF ReapStalled
  <2>2. f \in Exports /\ exports[f].tries = runs[r].token
    BY <1>6 DEF ReapStalled, Owns
  <2> HIDE DEF f
  <2> DEFINE x == [exports[f] EXCEPT !.state = state]
  <2>3. x.state = state /\ x.tries = exports[f].tries /\ exports' = [exports EXCEPT ![f] = x]
    BY <1>4, <2>1, <2>2 DEF OfExport
  <2> HIDE DEF x
  <2>4. TriesFit(x)
    BY <1>4, <2>1, <2>2, <2>3 DEF TriesFit
  <2> QED
    BY <1>3, <2>2, <2>3, <2>4
<1>7. ASSUME NEW e \in Exports, CancelExport(e) PROVE Fit
  <2>1. PICK state : /\ exports' = [exports EXCEPT ![e].cancel = TRUE, ![e].state = state]
                     /\ state = "queued" => exports[e].state = "queued"
    BY <1>4, <1>7 DEF CancelExport
  <2> DEFINE x == [exports[e] EXCEPT !.cancel = TRUE, !.state = state]
  <2>2. x.state = state /\ x.tries = exports[e].tries /\ exports' = [exports EXCEPT ![e] = x]
    BY <1>4, <2>1 DEF OfExport
  <2> HIDE DEF x
  <2>3. TriesFit(x)
    BY <1>4, <2>1, <2>2 DEF TriesFit
  <2> QED
    BY <1>3, <2>2, <2>3
<1>8. CASE DeleteProject
  <2>1. \A e \in Exports : exports'[e] = [exports[e] EXCEPT !.state = "dropped"]
    BY <1>8 DEF DeleteProject
  <2>2. \A e \in Exports : exports'[e].state = "dropped" /\ exports'[e].tries = exports[e].tries
    BY <1>4, <2>1 DEF OfExport
  <2> QED
    BY <1>4, <2>2 DEF TriesFit
<1>9. ASSUME NEW r \in Runs,
             \/ Fetch(r) \/ BuyVoice(r) \/ VoiceIsLost(r) \/ LookForBed(r) \/ RenderItems(r)
             \/ List(r) \/ FinishExport(r) \/ Fails(r)
      PROVE  Fit
  <2>1. UNCHANGED exports \/ \E states : Over(r, states)
    BY <1>9 DEF Fetch, BuyVoice, VoiceIsLost, LookForBed, RenderItems, List, FinishExport, Fails
  <2> QED
    BY <1>1, <1>2, <2>1
<1>10. ASSUME \/ \E r \in Runs : LookForVoice(r) \/ KeepVoice(r) \/ Separate(r) \/ Put(r) \/ PutSrt(r)
                                 \/ Find(r) \/ HearOf(r)
              \/ \E row \in listed : DeleteRow(row)
              \/ AskUsed \/ RemoveFile \/ Sweep \/ UNCHANGED outVars
       PROVE  Fit
  BY <1>1, <1>10 DEF LookForVoice, KeepVoice, Separate, Put, PutSrt, Find, HearOf, DeleteRow, AskUsed,
                     RemoveFile, Sweep, outVars
<1>11. ASSUME NEW e \in Exports, RetryExport(e) PROVE Fit
  <2> DEFINE x == [state |-> "queued", tries |-> 0, cancel |-> FALSE]
  <2>1. exports' = [exports EXCEPT ![e] = x]
    BY <1>11 DEF RetryExport
  <2>2. TriesFit(x)
    BY OutputsAssumption DEF TriesFit
  <2> QED
    BY <1>3, <2>1, <2>2
<1> QED
  BY <1>5, <1>6, <1>7, <1>8, <1>9, <1>10, <1>11 DEF OutNext

LEMMA RowsFit == ASSUME OutBounded, [OutNext]_outVars PROVE IdsGiven'
<1>0. IdsGiven
  BY DEF OutBounded
<1>1. ASSUME NEW S, S \subseteq listed, listed' = S PROVE IdsGiven'
  BY <1>0, <1>1, FS_Subset DEF IdsGiven
<1>2. ASSUME NEW r \in Runs, List(r) PROVE IdsGiven'
  <2> DEFINE id == IF runs[r].found = NoRow THEN NewId ELSE runs[r].found.id
             row == Row(id, VideoKey(r), SrtKey(r))
             kept == {x \in listed : x.id # row.id}
  <2>1. CASE listed' = listed
    BY <1>1, <2>1
  <2>2. CASE listed' # listed
    <3>1. listed' = kept \cup {row} /\ (runs[r].found = NoRow \/ \E x \in listed : x.id = runs[r].found.id)
      BY <1>2, <2>2 DEF List
    <3>2. id \in Nat \ {0}
      BY <1>0, <3>1, NewIdIsGiven DEF IdsGiven
    <3>3. row.id = id
      BY DEF Row
    <3>4. IsFiniteSet(kept) /\ kept \subseteq listed
      BY <1>0, FS_Subset DEF IdsGiven
    <3> HIDE DEF id, kept, row
    <3>5. IsFiniteSet(kept \cup {row})
      BY <3>4, FS_AddElement
    <3> QED
      BY <1>0, <3>1, <3>2, <3>3, <3>4, <3>5 DEF IdsGiven
  <2> QED
    BY <2>1, <2>2
<1>3. ASSUME NEW row \in listed, DeleteRow(row) PROVE IdsGiven'
  BY <1>1, <1>3 DEF DeleteRow
<1>4. CASE DeleteProject
  BY <1>1, <1>4 DEF DeleteProject
<1>5. ASSUME NEW r \in Runs,
             \/ Fetch(r) \/ LookForVoice(r) \/ BuyVoice(r) \/ KeepVoice(r) \/ VoiceIsLost(r)
             \/ LookForBed(r) \/ Separate(r) \/ RenderItems(r)
             \/ Put(r) \/ PutSrt(r) \/ Find(r) \/ FinishExport(r)
             \/ Fails(r) \/ ReapStalled(r) \/ HearOf(r)
             \/ \E e \in Exports : BeginExport(r, e)
      PROVE  listed' = listed
  BY <1>5 DEF Fetch, LookForVoice, BuyVoice, KeepVoice, VoiceIsLost, LookForBed, Separate, RenderItems, Put,
              PutSrt, Find, FinishExport, Fails, ReapStalled, HearOf, BeginExport
<1>6. ASSUME NEW e \in Exports, CancelExport(e) \/ RetryExport(e) PROVE IdsGiven'
  BY <1>1, <1>6 DEF CancelExport, RetryExport
<1>7. CASE AskUsed \/ RemoveFile \/ Sweep \/ UNCHANGED outVars
  BY <1>1, <1>7 DEF AskUsed, RemoveFile, Sweep, outVars
<1> QED
  BY <1>1, <1>2, <1>3, <1>4, <1>5, <1>6, <1>7 DEF OutNext

LEMMA TroublesFit == ASSUME OutBounded, [OutNext]_outVars PROVE TroublesCount'
<1>0. TroublesCount
  BY DEF OutBounded
<1>1. CASE UNCHANGED <<troubles, twofold>>
  BY <1>0, <1>1 DEF TroublesCount
<1>2. CASE Trouble /\ twofold' \in {twofold, twofold + 1}
  BY <1>0, <1>2, Troubled DEF TroublesCount
<1>3. ASSUME \/ \E r \in Runs : VoiceIsLost(r) \/ Fails(r) \/ ReapStalled(r)
             \/ \E e \in Exports : RetryExport(e)
      PROVE  Trouble /\ twofold' \in {twofold, twofold + 1}
  <2>1. twofold \in Nat
    BY <1>0, OutputsAssumption DEF TroublesCount
  <2> QED
    <3>1. ASSUME NEW r \in Runs, VoiceIsLost(r) \/ Fails(r) \/ ReapStalled(r)
          PROVE  Trouble /\ twofold' \in {twofold, twofold + 1}
      BY <2>1, <3>1 DEF VoiceIsLost, Fails, ReapStalled
    <3>2. ASSUME NEW e \in Exports, RetryExport(e)
          PROVE  Trouble /\ twofold' \in {twofold, twofold + 1}
      BY <2>1, <3>2 DEF RetryExport
    <3> QED
      BY <1>3, <3>1, <3>2
<1>4. ASSUME \/ \E e \in Exports : CancelExport(e)
             \/ \E row \in listed : DeleteRow(row)
             \/ DeleteProject
      PROVE  Trouble /\ twofold' \in {twofold, twofold + 1}
  BY <1>4 DEF CancelExport, DeleteRow, DeleteProject
<1>5. CASE RemoveFile
  BY <1>1, <1>2, <1>5 DEF RemoveFile
<1>6. ASSUME NEW r \in Runs,
             \/ Fetch(r) \/ LookForVoice(r) \/ BuyVoice(r) \/ KeepVoice(r)
             \/ LookForBed(r) \/ Separate(r) \/ RenderItems(r)
             \/ Put(r) \/ PutSrt(r) \/ Find(r) \/ List(r) \/ FinishExport(r) \/ HearOf(r)
             \/ \E e \in Exports : BeginExport(r, e)
      PROVE  UNCHANGED <<troubles, twofold>>
  BY <1>6 DEF Fetch, LookForVoice, BuyVoice, KeepVoice, LookForBed, Separate, RenderItems, Put, PutSrt, Find,
              List, FinishExport, HearOf, BeginExport
<1>7. ASSUME AskUsed \/ Sweep \/ UNCHANGED outVars PROVE UNCHANGED <<troubles, twofold>>
  BY <1>7 DEF AskUsed, Sweep, outVars
<1> QED
  BY <1>1, <1>2, <1>3, <1>4, <1>5, <1>6, <1>7 DEF OutNext

\* The variables of Outputs hold values of their types: no export is tried more
\* often than it may be, no attempt goes beyond what it renders, and a row that
\* is listed has a number (_render, _run_job, reap_stale).
THEOREM OutTypeCorrect == OutSpec => []OutTypeOK
<1>1. OutInit => OutBounded
  <2> SUFFICES ASSUME OutInit PROVE OutBounded
    OBVIOUS
  <2>1. \A r \in Runs : ItemFits(runs[r])
    BY NoRunFits DEF OutInit
  <2>2. \A e \in Exports : TriesFit(exports[e])
    BY OutputsAssumption DEF OutInit, TriesFit
  <2>3. IsFiniteSet(listed)
    <3> DEFINE a == Row(1, Old("mp4"), NoKeyAtAll)
               b == Row(2, Old("mp4"), Old("srt"))
    <3>1. listed = {} \cup {a} \cup {b}
      BY DEF OutInit
    <3> HIDE DEF a, b
    <3>2. IsFiniteSet({} \cup {a})
      BY FS_EmptySet, FS_AddElement
    <3> QED
      BY <3>1, <3>2, FS_AddElement
  <2>4. IdsGiven
    BY <2>3 DEF OutInit, IdsGiven, Row
  <2>5. TroublesCount
    BY OutputsAssumption DEF OutInit, TroublesCount
  <2> QED
    BY <2>1, <2>2, <2>4, <2>5 DEF OutBounded
<1>2. FilesInv /\ OutBounded /\ [OutNext]_outVars => OutBounded'
  BY AttemptsFit, ExportsFit, RowsFit, TroublesFit DEF FilesInv, OutBounded
<1>3. FilesInv /\ OutBounded => OutTypeOK
  <2> SUFFICES ASSUME FilesInv, OutBounded PROVE OutTypeOK
    OBVIOUS
  <2>1. \A e \in Exports : exports[e].tries \in 0 .. export_attempts
    BY OutputsAssumption DEF FilesInv, OutTyped, OfExport, OutBounded, TriesFit
  <2>2. PICK rows : runs \in [Runs -> Attempts(rows)]
    BY DEF FilesInv, OutTyped
  <2>3. \A r \in Runs : ItemFits(runs[r]) /\ runs[r] \in Attempts(rows)
    BY <2>2 DEF OutBounded
  <2>4. \A r \in Runs : runs[r].item \in 0 .. most_items + 1
    BY <2>3, OutputsAssumption DEF ItemFits
  <2>5. \A r \in Runs : /\ runs[r].todo \subseteq Spoken \cup Ranges
                        /\ runs[r].pc \in {"idle", "fetch", "voice", "buy", "keep", "beds", "separate",
                                           "render", "put", "srt", "find", "commit"}
    BY <2>3 DEF Attempts
  <2>6. {twofold, troubles} \subseteq 0 .. ExportMishaps
    BY OutputsAssumption DEF OutBounded, TroublesCount
  <2> QED
    BY <2>1, <2>4, <2>5, <2>6 DEF OutBounded, IdsGiven, OutTypeOK
<1> QED
  BY <1>1, <1>2, <1>3, FilesInit, FilesNext, PTL DEF OutSpec

=============================================================================

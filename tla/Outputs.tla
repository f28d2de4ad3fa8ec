------------------------------- MODULE Outputs -------------------------------
(***************************************************************************)
(* The exports of one project: the voice clips and the speech-free beds an  *)
(* attempt makes or finds, the files it uploads, the rows it lists, and the *)
(* requests that delete an output or the project meanwhile.                 *)
(*                                                                         *)
(* A step is what happens between two awaits, a call to R2 or a commit.     *)
(***************************************************************************)
EXTENDS Integers, FiniteSets

CONSTANTS
    Exports,        \* jobs of the project that export
    KindOf,         \* KindOf[e]: export or export_all
    Runs,           \* places where attempts run; a stalled one keeps its place
    Spoken,         \* distinct (voice, words) of the lines that are rendered
    Ranges,         \* the distinct ranges whose speech is to be removed
    most_items,     \* files an attempt renders, at most
    export_attempts,
    ExportMishaps   \* kills, stalls, refused calls, cancels, retries, deletions

ASSUME OutputsAssumption ==
    /\ IsFiniteSet(Exports) /\ IsFiniteSet(Runs)
    /\ most_items \in Nat \ {0} /\ export_attempts \in Nat \ {0} /\ ExportMishaps \in Nat

VARIABLES
    there,      \* the project's row exists
    exports,    \* exports[e]: the row of the job
    runs,       \* runs[r]: the attempt at work there
    files,      \* the keys that are stored
    listed,     \* the rows of outputs
    deletion,   \* the request that deletes an output
    bought,     \* bought[c]: how often the voice was paid to say c
    unsaved,    \* unsaved[c]: of those, how often storing it failed
    hurried,    \* keys removed while their job may still upload: deleted before
                \* it was over, or it was retried during the removal
    twofold,    \* how often a job was queued again beside a live attempt of it
    troubles

outVars == <<there, exports, runs, files, listed, deletion, bought, unsaved, hurried, twofold, troubles>>

\* output_key carries the job, so its attempts write the same keys.  Rows from
\* before that share the keys of "old".
Key(e, item, ext) == [of |-> e, item |-> item, ext |-> ext]
VoiceKey(c) == Key(c, 0, "mp3")
BedKey(range) == Key(range, 0, "flac")
NoKeyAtAll == Key("none", 0, "none")
Old(ext) == Key("old", 1, ext)

Row(id, video, srt) == [id |-> id, video |-> video, srt |-> srt]
NoRow == Row(0, NoKeyAtAll, NoKeyAtAll)
NoRun == [job |-> "none", token |-> 0, pc |-> "idle", todo |-> {}, items |-> 0, item |-> 0,
          srt |-> FALSE, found |-> NoRow, told |-> FALSE]
NoDeletion == [pc |-> "idle", keys |-> {}]

OutTypeOK ==
    /\ \A e \in Exports : exports[e].tries \in 0 .. export_attempts
    /\ \A r \in Runs : /\ runs[r].item \in 0 .. most_items + 1
                       /\ runs[r].todo \subseteq Spoken \cup Ranges
                       /\ runs[r].pc \in {"idle", "fetch", "voice", "buy", "keep", "beds", "separate",
                                          "render", "put", "srt", "find", "commit"}
    /\ \A row \in listed : row.id \in Nat \ {0}
    /\ {twofold, troubles} \subseteq 0 .. ExportMishaps

OutInit ==
    /\ there = TRUE
    /\ exports = [e \in Exports |-> [state |-> "queued", tries |-> 0, cancel |-> FALSE]]
    /\ runs = [r \in Runs |-> NoRun]
    /\ files = {Old("mp4"), Old("srt")}
    /\ listed = {Row(1, Old("mp4"), NoKeyAtAll), Row(2, Old("mp4"), Old("srt"))}
    /\ deletion = NoDeletion
    /\ bought = [c \in Spoken |-> 0] /\ unsaved = [c \in Spoken |-> 0]
    /\ hurried = {} /\ twofold = 0 /\ troubles = 0
-----------------------------------------------------------------------------
Trouble == troubles < ExportMishaps /\ troubles' = troubles + 1

Owns(r) == LET e == runs[r].job
           IN  e \in Exports /\ exports[e].state = "running" /\ exports[e].tries = runs[r].token

Working(e) == {r \in Runs : runs[r].job = e}

\* Where a run goes when it has nothing left to buy, or to separate.
AfterVoice(todo) == IF todo \cap Spoken # {} THEN "voice" ELSE IF todo # {} THEN "beds" ELSE "render"

\* Clips are asked for in one order, beds in another.
NextClip(r) == CHOOSE c \in runs[r].todo \cap Spoken : TRUE
NextRange(r) == CHOOSE range \in runs[r].todo : TRUE

To(r, pc) == runs' = [runs EXCEPT ![r].pc = pc]

Made(r, x) == runs' = [runs EXCEPT ![r].todo = @ \ {x}, ![r].pc = AfterVoice(runs[r].todo \ {x})]

\* The attempt is over: a row that is still this run's is settled, or queued
\* again while attempts are left.
Over(r, states) ==
    /\ \/ /\ Owns(r)
          /\ \E state \in states :
                /\ state = "queued" => runs[r].token < export_attempts
                /\ exports' = [exports EXCEPT ![runs[r].job].state = state]
       \/ ~Owns(r) /\ UNCHANGED exports
    /\ runs' = [runs EXCEPT ![r] = NoRun]

\* A worker claims the job: its row says so, and the video is fetched.
BeginExport(r, e) ==
    /\ runs[r].pc = "idle" /\ exports[e].state = "queued" /\ there
    /\ exports' = [exports EXCEPT ![e].state = "running", ![e].tries = @ + 1]
    /\ runs' = [runs EXCEPT ![r] = [NoRun EXCEPT !.job = e, !.token = exports[e].tries + 1, !.pc = "fetch"]]
    /\ UNCHANGED <<there, files, listed, deletion, bought, unsaved, hurried, twofold, troubles>>

\* The document as it is now says what is rendered, and whether with subtitles:
\* an attempt may render less than the one before it.
Fetch(r) ==
    /\ runs[r].pc = "fetch"
    /\ IF there
       THEN \E items \in 1 .. most_items, srt \in BOOLEAN, voiced \in BOOLEAN, removes \in BOOLEAN :
               LET todo == IF voiced THEN Spoken \cup (IF removes THEN Ranges ELSE {}) ELSE {}
               IN  /\ runs' = [runs EXCEPT ![r].items = items, ![r].item = 1, ![r].srt = srt,
                                           ![r].todo = todo, ![r].pc = AfterVoice(todo)]
                   /\ UNCHANGED exports
       ELSE Over(r, {"failed"})
    /\ UNCHANGED <<there, files, listed, deletion, bought, unsaved, hurried, twofold, troubles>>

\* Mutant of LookForVoice: storage is not asked.
LookForVoiceBlind(r) ==
    /\ runs[r].pc = "voice"
    /\ To(r, "buy")
    /\ UNCHANGED <<there, exports, files, listed, deletion, bought, unsaved, hurried, twofold, troubles>>

\* prepare, for one clip: in storage already, or to be bought.
LookForVoice(r) ==
    /\ runs[r].pc = "voice"
    /\ IF VoiceKey(NextClip(r)) \in files THEN Made(r, NextClip(r)) ELSE To(r, "buy")
    /\ UNCHANGED <<there, exports, files, listed, deletion, bought, unsaved, hurried, twofold, troubles>>

\* synthesize: the gate, then the request.
BuyVoice(r) ==
    /\ runs[r].pc = "buy"
    /\ IF runs[r].told
       THEN Over(r, {"canceled"}) /\ UNCHANGED bought
       ELSE To(r, "keep") /\ bought' = [bought EXCEPT ![NextClip(r)] = @ + 1] /\ UNCHANGED exports
    /\ UNCHANGED <<there, files, listed, deletion, unsaved, hurried, twofold, troubles>>

\* Stored the moment it arrives.
KeepVoice(r) ==
    /\ runs[r].pc = "keep"
    /\ files' = files \cup {VoiceKey(NextClip(r))}
    /\ Made(r, NextClip(r))
    /\ UNCHANGED <<there, exports, listed, deletion, bought, unsaved, hurried, twofold, troubles>>

\* The file cannot be stored, or the process dies with it.
VoiceIsLost(r) ==
    /\ runs[r].pc = "keep" /\ Trouble
    /\ unsaved' = [unsaved EXCEPT ![NextClip(r)] = @ + 1]
    /\ Over(r, {"queued", "failed"})
    /\ UNCHANGED <<there, files, listed, deletion, bought, hurried, twofold>>

\* prepare of dub_bed, for one range: the check, then the look into storage.
LookForBed(r) ==
    /\ runs[r].pc = "beds"
    /\ IF runs[r].told
       THEN Over(r, {"canceled"})
       ELSE /\ IF BedKey(NextRange(r)) \in files THEN Made(r, NextRange(r)) ELSE To(r, "separate")
            /\ UNCHANGED exports
    /\ UNCHANGED <<there, files, listed, deletion, bought, unsaved, hurried, twofold, troubles>>

\* Minutes of work on one range, then its bed is stored.
Separate(r) ==
    /\ runs[r].pc = "separate"
    /\ files' = files \cup {BedKey(NextRange(r))}
    /\ Made(r, NextRange(r))
    /\ UNCHANGED <<there, exports, listed, deletion, bought, unsaved, hurried, twofold, troubles>>

\* The render checks between clips and after the last; the uploads do not.
RenderItems(r) ==
    /\ runs[r].pc = "render"
    /\ IF runs[r].told THEN Over(r, {"canceled"}) ELSE To(r, "put") /\ UNCHANGED exports
    /\ UNCHANGED <<there, files, listed, deletion, bought, unsaved, hurried, twofold, troubles>>
-----------------------------------------------------------------------------
VideoKey(r) == Key(runs[r].job, runs[r].item, "mp4")
SrtKey(r) == IF runs[r].srt THEN Key(runs[r].job, runs[r].item, "srt") ELSE NoKeyAtAll

Put(r) ==
    /\ runs[r].pc = "put" /\ runs[r].item <= runs[r].items
    /\ files' = files \cup {VideoKey(r)}
    /\ To(r, IF runs[r].srt THEN "srt" ELSE "find")
    /\ UNCHANGED <<there, exports, listed, deletion, bought, unsaved, hurried, twofold, troubles>>

PutSrt(r) ==
    /\ runs[r].pc = "srt"
    /\ files' = files \cup {SrtKey(r)}
    /\ To(r, "find")
    /\ UNCHANGED <<there, exports, listed, deletion, bought, unsaved, hurried, twofold, troubles>>

\* The row an earlier attempt listed under this key, if any.
Find(r) ==
    /\ runs[r].pc = "find"
    /\ \E row \in {x \in listed : x.video = VideoKey(r)} \cup {NoRow} :
          /\ row = NoRow => ~\E x \in listed : x.video = VideoKey(r)
          /\ runs' = [runs EXCEPT ![r].found = row, ![r].pc = "commit"]
    /\ UNCHANGED <<there, exports, files, listed, deletion, bought, unsaved, hurried, twofold, troubles>>

\* A number no row has, and none that a run has found.
NewId ==
    LET known == {row.id : row \in listed} \cup {runs[r].found.id : r \in Runs}
    IN  CHOOSE n \in 1 .. Cardinality(known) + 1 : n \notin known

\* The commit inserts or updates.  A row deleted since it was found, or a
\* project that is gone, fails the attempt.
List(r) ==
    /\ runs[r].pc = "commit"
    /\ LET row == Row(IF runs[r].found = NoRow THEN NewId ELSE runs[r].found.id, VideoKey(r), SrtKey(r))
           lasts == \E x \in listed : x.id = runs[r].found.id
           done == [runs[r] EXCEPT !.item = @ + 1, !.pc = "put", !.found = NoRow]
       IN  IF there /\ (runs[r].found = NoRow \/ lasts)
           THEN /\ listed' = {x \in listed : x.id # row.id} \cup {row}
                /\ runs' = [runs EXCEPT ![r] = done]
                /\ UNCHANGED exports
           ELSE Over(r, {"queued", "failed"}) /\ UNCHANGED listed
    /\ UNCHANGED <<there, files, deletion, bought, unsaved, hurried, twofold, troubles>>

FinishExport(r) ==
    /\ runs[r].pc = "put" /\ runs[r].item > runs[r].items
    /\ Over(r, IF runs[r].told THEN {"canceled"} ELSE {"done"})
    /\ UNCHANGED <<there, files, listed, deletion, bought, unsaved, hurried, twofold, troubles>>
-----------------------------------------------------------------------------
\* A download, a render, an upload or a query fails, or the process is killed
\* and its row is reaped.
Fails(r) ==
    /\ runs[r].pc \notin {"idle", "keep"} /\ Trouble
    /\ Over(r, {"queued", "failed"})
    /\ UNCHANGED <<there, files, listed, deletion, bought, unsaved, hurried, twofold>>

\* The row of a run that only stalled is reaped; the run goes on.
ReapStalled(r) ==
    /\ Owns(r) /\ Trouble
    /\ \E state \in {"queued", "failed"} :
          /\ state = "queued" => runs[r].token < export_attempts
          /\ exports' = [exports EXCEPT ![runs[r].job].state = state]
          /\ twofold' = twofold + (IF state = "queued" THEN 1 ELSE 0)
    /\ UNCHANGED <<there, runs, files, listed, deletion, bought, unsaved, hurried>>

CancelExport(e) ==
    /\ exports[e].state \in {"queued", "running"} /\ ~exports[e].cancel /\ Trouble
    /\ exports' = [exports EXCEPT ![e].cancel = TRUE,
                                  ![e].state = IF @ = "queued" THEN "canceled" ELSE @]
    /\ UNCHANGED <<there, runs, files, listed, deletion, bought, unsaved, hurried, twofold>>

\* retry_job: an admin queues a failed or canceled job again, unless one of its
\* kind is at work.  Nobody asks for a stalled attempt of it, nor for an output
\* of it that is being deleted.
RetryExport(e) ==
    /\ exports[e].state \in {"failed", "canceled"} /\ Trouble
    /\ \A d \in Exports : KindOf[d] = KindOf[e] => exports[d].state \notin {"queued", "running"}
    /\ exports' = [exports EXCEPT ![e] = [state |-> "queued", tries |-> 0, cancel |-> FALSE]]
    /\ twofold' = twofold + (IF Working(e) # {} THEN 1 ELSE 0)
    /\ hurried' = hurried \cup {key \in deletion.keys : key.of = e}
    /\ UNCHANGED <<there, runs, files, listed, deletion, bought, unsaved>>

\* The heartbeat sees the cancel, or that the row is no longer this run's.
HearOf(r) ==
    /\ runs[r].pc # "idle" /\ ~runs[r].told
    /\ ~Owns(r) \/ exports[runs[r].job].cancel
    /\ runs' = [runs EXCEPT ![r].told = TRUE]
    /\ UNCHANGED <<there, exports, files, listed, deletion, bought, unsaved, hurried, twofold, troubles>>
-----------------------------------------------------------------------------
KeysOf(row) == {row.video} \cup ({row.srt} \ {NoKeyAtAll})

\* delete_output: the row goes first, with a commit of its own.
DeleteRow(row) ==
    /\ deletion.pc = "idle" /\ there /\ row \in listed /\ Trouble
    /\ listed' = listed \ {row}
    /\ deletion' = [pc |-> "ask", keys |-> KeysOf(row)]
    /\ hurried' = IF row.video.of \in Exports
                     /\ (exports[row.video.of].state \in {"queued", "running"} \/ Working(row.video.of) # {})
                  THEN hurried \cup KeysOf(row) ELSE hurried
    /\ UNCHANGED <<there, exports, runs, files, bought, unsaved, twofold>>

\* Mutant of AskUsed: every key of the deleted row is removed.
AskUsedNot ==
    /\ deletion.pc = "ask"
    /\ deletion' = [deletion EXCEPT !.pc = "remove"]
    /\ UNCHANGED <<there, exports, runs, files, listed, bought, unsaved, hurried, twofold, troubles>>

\* Which of its keys another row lists still.
AskUsed ==
    /\ deletion.pc = "ask"
    /\ deletion' = [pc |-> "remove", keys |-> deletion.keys \ UNION {KeysOf(row) : row \in listed}]
    /\ UNCHANGED <<there, exports, runs, files, listed, bought, unsaved, hurried, twofold, troubles>>

\* One file after the other; a file that cannot be removed stays.
RemoveFile ==
    /\ deletion.pc = "remove"
    /\ IF deletion.keys = {}
       THEN deletion' = NoDeletion /\ UNCHANGED <<files, troubles>>
       ELSE \E key \in deletion.keys :
               /\ deletion' = [deletion EXCEPT !.keys = @ \ {key}]
               /\ \/ files' = files \ {key} /\ UNCHANGED troubles
                  \/ UNCHANGED files /\ Trouble
    /\ UNCHANGED <<there, exports, runs, listed, bought, unsaved, hurried, twofold>>

\* delete_project: jobs and rows go in one transaction, the files after it.
DeleteProject ==
    /\ there /\ Trouble
    /\ there' = FALSE
    /\ exports' = [e \in Exports |-> [exports[e] EXCEPT !.state = "dropped"]]
    /\ listed' = {}
    /\ UNCHANGED <<runs, files, deletion, bought, unsaved, hurried, twofold>>

\* What a run uploads after it stays for good.
Sweep ==
    /\ ~there /\ files # {}
    /\ files' = {}
    /\ UNCHANGED <<there, exports, runs, listed, deletion, bought, unsaved, hurried, twofold, troubles>>

OutNext ==
    \/ \E r \in Runs :
          \/ Fetch(r) \/ LookForVoice(r) \/ BuyVoice(r) \/ KeepVoice(r) \/ VoiceIsLost(r)
          \/ LookForBed(r) \/ Separate(r) \/ RenderItems(r)
          \/ Put(r) \/ PutSrt(r) \/ Find(r) \/ List(r) \/ FinishExport(r)
          \/ Fails(r) \/ ReapStalled(r) \/ HearOf(r)
          \/ \E e \in Exports : BeginExport(r, e)
    \/ \E e \in Exports : CancelExport(e) \/ RetryExport(e)
    \/ \E row \in listed : DeleteRow(row)
    \/ AskUsed \/ RemoveFile \/ DeleteProject \/ Sweep

OutSpec == OutInit /\ [][OutNext]_outVars
-----------------------------------------------------------------------------
\* Every listed output can be played: deleting one never takes the file of
\* another, and none is listed before it is stored.  Not so for an output that
\* was deleted while its own job was still at work, or whose job an admin
\* retried before its file was removed: the removal may come after an attempt
\* stored and listed the file again.
ListedIsStored ==
    \A row \in listed : KeysOf(row) \ hurried \subseteq files

\* The voice is paid once for the same words: whatever ends an attempt, those
\* that follow it find what it bought.  More often only by attempts at work at
\* once, of several jobs or of one that was reaped or retried under a stalled
\* attempt, or where it could not be stored.
VoiceIsBoughtOnce ==
    there => \A c \in Spoken : bought[c] - unsaved[c] <= Cardinality(Exports) + twofold
=============================================================================

------------------------------- MODULE Uploads -------------------------------
(***************************************************************************)
(* The video of one project: the browser tabs that upload it straight to   *)
(* R2 (frontend lib/upload.ts), the API routes around that upload          *)
(* (app/api/projects/uploads.py), R2 itself (app/r2.py), and the import    *)
(* that reads the stored object (app/handlers/import_video.py).            *)
(*                                                                         *)
(* Routes that change the row lock it (SELECT ... FOR UPDATE) until they   *)
(* commit, and talk to R2 meanwhile; the routes of a multipart upload read *)
(* it without a lock.  R2 and the tabs know nothing of the lock.           *)
(***************************************************************************)
EXTENDS Integers, FiniteSets

CONSTANTS
    Files,          \* files a producer may choose
    Keys,           \* source keys of the project, one per suffix
    KeyOf,          \* KeyOf[f]: the key a file is stored under
    SizeOf,         \* SizeOf[f]: its length, which its upload declares
    MULTIPART_MIN,  \* r2.MULTIPART_MIN_BYTES
    Parts,          \* part numbers of a multipart upload
    Uids,           \* multipart uploads R2 may open
    Imports,        \* import jobs
    Tabs,           \* browser tabs (of one browser: they share localStorage)
    first,          \* the file the project was created for
    Budget          \* how often each rare event happens

Rare == {"pick", "late", "r2fail", "die", "unkey", "delete"}

ASSUME UploadsAssumption ==
    /\ first \in Files /\ "none" \notin Files \cup Keys \cup Uids \cup Tabs
    /\ KeyOf \in [Files -> Keys]
    /\ SizeOf \in [Files -> Nat \ {0}] /\ MULTIPART_MIN \in Nat
    /\ Budget \in [Rare -> Nat]

VARIABLES
    row,      \* the projects row
    lock,     \* the tab whose request holds the row's lock, or "none"
    objects,  \* objects[k]: the files the object under k is made of; {} is no object
    uploads,  \* uploads[u]: a multipart upload of R2
    saved,    \* localStorage: the upload a page can resume
    tabs,     \* tabs[c]: the upload a tab is at, and its request in flight
    imports,  \* imports[i]: an import job and its run
    sweep,    \* the clean-up of a deleted project
    used      \* used[r]: how often rare event r has happened

vars == <<row, lock, objects, uploads, saved, tabs, imports, sweep, used>>
-----------------------------------------------------------------------------
NoVideo == [key |-> "none", file |-> {}]

\* projects.video_key, and of the document: upload_key, upload_size_bytes, video.
Row == [exists : BOOLEAN, videoKey : Keys \cup {"none"}, uploadKey : Keys \cup {"none"},
        declared : Nat, video : [key : Keys \cup {"none"}, file : SUBSET Files]]

Upload == [state : {"new", "open", "gone"}, key : Keys \cup {"none"},
           parts : [Parts -> Files \cup {"none"}]]

Saved == [uid : Uids \cup {"none"}, file : Files \cup {"none"}]

NoSave == [uid |-> "none", file |-> "none"]

\* ask .. swap: upload again; plan .. create: start_multipart; put, parts: the
\* bytes; assemble: complete_multipart; done .. queue: upload-complete.
Tab == [pc : {"idle", "ask", "discard", "clear", "swap", "plan", "abort", "create",
              "put", "parts", "assemble", "done", "refuse", "queue"},
        file : Files \cup {"none"}, key : Keys \cup {"none"}, uid : Uids \cup {"none"}]

IdleTab == [pc |-> "idle", file |-> "none", key |-> "none", uid |-> "none"]

\* A job as the queue shows it (see JobQueue), and its handler.
Import == [state : {"new", "queued", "running", "done", "failed", "gone"}, keyed : BOOLEAN,
           pc : {"no", "fetch", "save", "end"}, key : Keys \cup {"none"}, got : SUBSET Files]

TypeOK ==
    /\ row \in Row
    /\ lock \in Tabs \cup {"none"}
    /\ objects \in [Keys -> SUBSET Files]
    /\ uploads \in [Uids -> Upload]
    /\ saved \in Saved
    /\ tabs \in [Tabs -> Tab]
    /\ imports \in [Imports -> Import]
    /\ sweep \in {"no", "parts", "objects", "done"}
    /\ used \in [Rare -> Nat]

Happens(r) == /\ used[r] < Budget[r]
              /\ used' = [used EXCEPT ![r] = @ + 1]

\* create_project: the pending key and the declared size are saved, and one
\* tab holds the presigned PUT.
Init ==
    /\ row = [exists |-> TRUE, videoKey |-> "none", uploadKey |-> KeyOf[first],
              declared |-> SizeOf[first], video |-> NoVideo]
    /\ lock = "none"
    /\ objects = [k \in Keys |-> {}]
    /\ uploads = [u \in Uids |-> [state |-> "new", key |-> "none",
                                  parts |-> [n \in Parts |-> "none"]]]
    /\ saved = NoSave
    /\ \E c \in Tabs : tabs = [t \in Tabs |->
           IF t = c THEN [IdleTab EXCEPT !.pc = "plan", !.file = first, !.key = KeyOf[first]]
                    ELSE IdleTab]
    /\ imports = [i \in Imports |-> [state |-> "new", keyed |-> FALSE, pc |-> "no",
                                     key |-> "none", got |-> {}]]
    /\ sweep = "no"
    /\ used = [r \in Rare |-> 0]
-----------------------------------------------------------------------------
\* R2 (app/r2.py).

Open(u) == u # "none" /\ uploads[u].state = "open"

\* abort_uploads_under, abort_stale_uploads
AbortAll == uploads' = [u \in Uids |-> IF Open(u) THEN [uploads[u] EXCEPT !.state = "gone"]
                                                  ELSE uploads[u]]

\* A step of a best-effort clean-up: R2 does it, or fails and is ignored.
BestEffort(step, unchanged) == \/ step /\ UNCHANGED used
                               \/ Happens("r2fail") /\ unchanged

\* r2.object_size.  The length of an object is that of its one file: see
\* NeverStitched, and the part sizes below for two files of one length.
Size(object) == SizeOf[CHOOSE f \in object : TRUE]

\* part_plan, expected_part_size: all parts of a file but the last are of one
\* size.  (The files are of as many parts as one another.)
PartBytes(size, n) == IF \A m \in Parts : m <= n THEN size ELSE 0

\* complete_multipart's check of R2's own list of parts against part_plan:
\* every part is there, with the size the declared size gives it.
EveryPartThere(u) == \A n \in Parts : uploads[u].parts[n] # "none"

WholeAsDeclared(u) ==
    \A n \in Parts : /\ uploads[u].parts[n] # "none"
                     /\ PartBytes(SizeOf[uploads[u].parts[n]], n) = PartBytes(row.declared, n)

\* An object is stored.  It is a rare one that comes late, when the key is no
\* longer pending or its object is measured already.
Late(k) == ~row.exists \/ row.uploadKey # k \/ \E c \in Tabs : tabs[c].pc = "queue"

Lands(k) == IF Late(k) THEN Happens("late") ELSE UNCHANGED used

\* abort_stale_uploads: a multipart upload gets older than R2_MPU_ABORT_H.
AgeOut(u) ==
    /\ Open(u)
    /\ uploads' = [uploads EXCEPT ![u].state = "gone"]
    /\ UNCHANGED <<row, lock, objects, saved, tabs, imports, sweep, used>>
-----------------------------------------------------------------------------
\* The browser (lib/upload.ts, SourceUpload.tsx).

Go(c, pc) == tabs' = [tabs EXCEPT ![c].pc = pc]

Leave(c) == tabs' = [tabs EXCEPT ![c] = IdleTab]

\* Mutated: neither the length nor the time of change is compared.
SameName(s, f) == s.file # "none" /\ KeyOf[s.file] = KeyOf[f]

SameFile(s, f) == s.file = f

\* A file is chosen: the one of an interrupted upload is carried on with, any
\* other is a new source.
Choose(c, f) ==
    /\ tabs[c].pc = "idle"
    /\ Happens("pick")
    /\ tabs' = [tabs EXCEPT ![c] = [IdleTab EXCEPT !.file = f,
                                    !.pc = IF SameFile(saved, f) THEN "plan" ELSE "ask"]]
    /\ UNCHANGED <<row, lock, objects, uploads, saved, imports, sweep>>

\* multipart_status
Resume(c) ==
    /\ tabs[c].pc = "plan" /\ SameFile(saved, tabs[c].file)
    /\ IF row.exists /\ Open(saved.uid) /\ uploads[saved.uid].key = row.uploadKey
       THEN /\ tabs' = [tabs EXCEPT ![c].pc = "parts", ![c].uid = saved.uid]
            /\ UNCHANGED saved
       ELSE /\ saved' = NoSave
            /\ UNCHANGED tabs
    /\ UNCHANGED <<row, lock, objects, uploads, imports, sweep, used>>

\* A part of the file's size is there already, and is not sent again.
Held(u, n, f) ==
    LET g == uploads[u].parts[n] IN
    g # "none" /\ PartBytes(SizeOf[g], n) = PartBytes(SizeOf[f], n)

\* A part reaches R2: its URL was signed in a batch when the parts began
\* (sign_parts), and lives for an hour whatever happens to the row.
PutPart(c, n) ==
    LET t == tabs[c] IN
    /\ t.pc = "parts" /\ Open(t.uid)
    /\ ~Held(t.uid, n, t.file)
    /\ uploads' = [uploads EXCEPT ![t.uid].parts[n] = t.file]
    /\ UNCHANGED <<row, lock, objects, saved, tabs, imports, sweep, used>>

\* The whole file in one PUT.  Its URL lives for an hour, whatever happens to
\* the row, and the object is replaced when the last byte is in, whether or
\* not the tab is there to hear of it.
PutLands(c) ==
    LET t == tabs[c] IN
    /\ t.pc = "put"
    /\ Lands(t.key)
    /\ objects' = [objects EXCEPT ![t.key] = {t.file}]
    /\ Go(c, "done") \/ Leave(c)
    /\ UNCHANGED <<row, lock, uploads, saved, imports, sweep>>

\* The network gives up, the tab is closed, the upload is paused, R2 or the
\* API refuses.
GiveUp(c) ==
    /\ tabs[c].pc \in {"ask", "plan", "put", "parts", "done"}
    /\ Leave(c)
    /\ UNCHANGED <<row, lock, objects, uploads, saved, imports, sweep, used>>

\* abort_multipart: the parts of a cancelled upload are thrown away.
CancelUpload(c) ==
    LET t == tabs[c] IN
    /\ t.pc = "parts"
    /\ saved' = NoSave
    /\ uploads' = IF Open(t.uid) /\ row.exists /\ uploads[t.uid].key = row.uploadKey
                  THEN [uploads EXCEPT ![t.uid].state = "gone"] ELSE uploads
    /\ Leave(c)
    /\ UNCHANGED <<row, lock, objects, imports, sweep, used>>
-----------------------------------------------------------------------------
\* reupload: under the row's lock, unless the video is in or its import is
\* live; what is stored goes first, the new pending key is committed last.
ActiveWithKey == \E i \in Imports : imports[i].keyed

\* Mutated: a live import is not asked about.
Unguarded == row.video = NoVideo

Reuploadable == row.video = NoVideo /\ ~ActiveWithKey

ReuploadBegin(c) ==
    /\ tabs[c].pc = "ask" /\ lock = "none"
    /\ IF row.exists /\ Reuploadable
       THEN Go(c, "discard") /\ lock' = c
       ELSE Leave(c) /\ UNCHANGED lock
    /\ UNCHANGED <<row, objects, uploads, saved, imports, sweep, used>>

DiscardParts(c) ==
    /\ tabs[c].pc = "discard"
    /\ BestEffort(AbortAll, UNCHANGED uploads)
    /\ Go(c, "clear")
    /\ UNCHANGED <<row, lock, objects, saved, imports, sweep>>

DiscardObjects(c) ==
    /\ tabs[c].pc = "clear"
    /\ BestEffort(objects' = [k \in Keys |-> {}], UNCHANGED objects)
    /\ Go(c, "swap")
    /\ UNCHANGED <<row, lock, uploads, saved, imports, sweep>>

\* The size is the page's word; nothing binds the PUT to it.
Pending(f) ==
    row' = [row EXCEPT !.videoKey = "none", !.uploadKey = KeyOf[f], !.declared = SizeOf[f]]

ReuploadCommit(c) ==
    /\ tabs[c].pc = "swap"
    /\ Pending(tabs[c].file)
    /\ lock' = "none"
    /\ tabs' = [tabs EXCEPT ![c].pc = IF tabs[c].key = "none" THEN "plan" ELSE "put",
                            ![c].key = KeyOf[tabs[c].file]]
    /\ UNCHANGED <<objects, uploads, saved, imports, sweep, used>>
-----------------------------------------------------------------------------
\* start_multipart: without a lock, in three steps.  A small file is told to
\* go in one PUT, for which a tab without a URL asks by uploading again: it
\* has its plan then, and goes on to the PUT.
StartRead(c) ==
    LET t == tabs[c] IN
    /\ t.pc = "plan" /\ ~SameFile(saved, t.file)
    /\ tabs' = [tabs EXCEPT ![c] =
         CASE ~row.exists \/ row.uploadKey = "none" -> IdleTab
           [] row.exists /\ row.uploadKey # "none" /\ row.declared < MULTIPART_MIN ->
                [t EXCEPT !.pc = IF t.key = "none" THEN "ask" ELSE "put",
                          !.key = IF @ = "none" THEN row.uploadKey ELSE @]
           [] OTHER -> [t EXCEPT !.pc = "abort", !.key = row.uploadKey]]
    /\ UNCHANGED <<row, lock, objects, uploads, saved, imports, sweep, used>>

StartAbort(c) ==
    /\ tabs[c].pc = "abort"
    /\ BestEffort(AbortAll, UNCHANGED uploads)
    /\ Go(c, "create")
    /\ UNCHANGED <<row, lock, objects, saved, imports, sweep>>

StartCreate(c) ==
    /\ tabs[c].pc = "create"
    /\ \E u \in Uids :
         /\ uploads[u].state = "new"
         /\ uploads' = [uploads EXCEPT ![u].state = "open", ![u].key = tabs[c].key]
         /\ tabs' = [tabs EXCEPT ![c].pc = "parts", ![c].uid = u]
         /\ saved' = [uid |-> u, file |-> tabs[c].file]
    /\ UNCHANGED <<row, lock, objects, imports, sweep, used>>

\* complete_multipart, once the tab has sent every part: R2's own list is
\* checked, then the object assembled from it.
CompleteList(c) ==
    LET t == tabs[c] IN
    /\ t.pc = "parts" /\ EveryPartThere(t.uid)
    /\ tabs' = [tabs EXCEPT ![c] =
         IF /\ row.exists /\ Open(t.uid) /\ uploads[t.uid].key = row.uploadKey
            /\ WholeAsDeclared(t.uid)
         THEN [t EXCEPT !.pc = "assemble", !.key = row.uploadKey]
         ELSE IdleTab]
    /\ UNCHANGED <<row, lock, objects, uploads, saved, imports, sweep, used>>

Assemble(c) ==
    LET t == tabs[c] IN
    /\ t.pc = "assemble"
    /\ IF Open(t.uid)
       THEN /\ objects' = [objects EXCEPT ![t.key] =
                             {uploads[t.uid].parts[n] : n \in Parts}]
            /\ Lands(t.key)
            /\ uploads' = [uploads EXCEPT ![t.uid].state = "gone"]
            /\ \/ saved' = NoSave /\ Go(c, "done")
               \/ UNCHANGED saved /\ Leave(c)      \* the answer is lost
       ELSE Leave(c) /\ UNCHANGED <<objects, uploads, saved, used>>
    /\ UNCHANGED <<row, lock, imports, sweep>>
-----------------------------------------------------------------------------
\* upload_complete: under the row's lock the stored object is measured; one
\* that is not what was declared is deleted, else its import is queued.
KeyToImport == IF row.uploadKey # "none" THEN row.uploadKey ELSE row.videoKey

\* Mutated: nothing is measured.
AnyObjectWillDo(object) == FALSE

UploadRefusal(object) == Size(object) # row.declared

Measure(c) ==
    LET k == KeyToImport IN
    /\ tabs[c].pc = "done" /\ lock = "none"
    /\ IF row.exists /\ k # "none" /\ objects[k] # {}
       THEN /\ tabs' = [tabs EXCEPT ![c].pc = IF UploadRefusal(objects[k]) THEN "refuse"
                                                                            ELSE "queue",
                                    ![c].key = k]
            /\ lock' = c
       ELSE Leave(c) /\ UNCHANGED lock
    /\ UNCHANGED <<row, objects, uploads, saved, imports, sweep, used>>

Refuse(c) ==
    /\ tabs[c].pc = "refuse"
    /\ BestEffort(objects' = [objects EXCEPT ![tabs[c].key] = {}], UNCHANGED objects)
    /\ lock' = "none"
    /\ Leave(c)
    /\ UNCHANGED <<row, uploads, saved, imports, sweep>>

QueueImport(c) ==
    /\ tabs[c].pc = "queue"
    /\ row' = [row EXCEPT !.videoKey = tabs[c].key, !.uploadKey = "none"]
    /\ IF ActiveWithKey
       THEN UNCHANGED imports
       ELSE \E i \in Imports :
              /\ imports[i].state = "new"
              /\ imports' = [imports EXCEPT ![i].state = "queued", ![i].keyed = TRUE]
    /\ lock' = "none"
    /\ Leave(c)
    /\ UNCHANGED <<objects, uploads, saved, sweep, used>>

\* The API process dies, or its database does: the transaction rolls back,
\* what was done to R2 stays done.
RequestDies(c) ==
    /\ tabs[c].pc \in {"discard", "clear", "swap", "abort", "create", "assemble",
                       "refuse", "queue"}
    /\ Happens("die")
    /\ lock' = IF lock = c THEN "none" ELSE lock
    /\ Leave(c)
    /\ UNCHANGED <<row, objects, uploads, saved, imports, sweep>>
-----------------------------------------------------------------------------
\* handle_import_video, run by a worker.

ImportStart(i) ==
    /\ imports[i].state = "queued" /\ imports[i].pc = "no" /\ row.exists
    /\ imports' = [imports EXCEPT ![i].state = "running", ![i].pc = "fetch",
                                  ![i].key = row.videoKey]
    /\ UNCHANGED <<row, lock, objects, uploads, saved, tabs, sweep, used>>

ImportFetch(i) ==
    LET k == imports[i].key IN
    /\ imports[i].pc = "fetch" /\ k # "none" /\ objects[k] # {}
    /\ imports' = [imports EXCEPT ![i].pc = "save", ![i].got = objects[k]]
    /\ UNCHANGED <<row, lock, objects, uploads, saved, tabs, sweep, used>>

ImportSave(i) ==
    /\ imports[i].pc = "save" /\ lock = "none" /\ row.exists
    /\ row' = [row EXCEPT !.video = [key |-> imports[i].key, file |-> imports[i].got]]
    /\ imports' = [imports EXCEPT ![i].pc = "end"]
    /\ UNCHANGED <<lock, objects, uploads, saved, tabs, sweep, used>>

\* The verdict lands only while the job is still this run's (see JobQueue).
Verdict(i, state) ==
    imports' = [imports EXCEPT ![i].pc = "no",
                ![i].state = IF @ = "running" THEN state ELSE @,
                ![i].keyed = @ /\ (imports[i].state = "running" => state = "queued"),
                ![i].key = "none", ![i].got = {}]

ImportEnds(i) ==
    /\ imports[i].pc = "end"
    /\ Verdict(i, "done")
    /\ UNCHANGED <<row, lock, objects, uploads, saved, tabs, sweep, used>>

\* Nothing to import, a broken file, a dead worker: tried again, or failed.
ImportFails(i) ==
    /\ imports[i].pc \in {"fetch", "save"}
    /\ \E state \in {"queued", "failed"} : Verdict(i, state)
    /\ UNCHANGED <<row, lock, objects, uploads, saved, tabs, sweep, used>>

\* The job is settled behind a run that goes on: the reaper gives up on a
\* stalled worker, or a cancel of a queued job meets its claim.
Disown(i) ==
    /\ imports[i].state = "running"
    /\ Happens("unkey")
    /\ imports' = [imports EXCEPT ![i].state = "failed", ![i].keyed = FALSE]
    /\ UNCHANGED <<row, lock, objects, uploads, saved, tabs, sweep>>

\* retry_job of the admin: back in the queue, without its dedupe key.
RetryImport(i) ==
    /\ imports[i].state = "failed" /\ imports[i].pc = "no"
    /\ \A j \in Imports : imports[j].state \notin {"queued", "running"}   \* no twin
    /\ Happens("unkey")
    /\ imports' = [imports EXCEPT ![i].state = "queued"]
    /\ UNCHANGED <<row, lock, objects, uploads, saved, tabs, sweep>>
-----------------------------------------------------------------------------
\* delete_project: the row and its jobs, then the parts, then the objects.
\* (The jobs are dropped just before the row; one queued in between finds no
\* project and fails.)

DeleteProject ==
    /\ row.exists /\ lock = "none"
    /\ Happens("delete")
    /\ row' = [row EXCEPT !.exists = FALSE]
    /\ imports' = [i \in Imports |-> IF imports[i].state = "new" THEN imports[i]
                     ELSE [imports[i] EXCEPT !.state = "gone", !.keyed = FALSE]]
    /\ sweep' = "parts"
    /\ UNCHANGED <<lock, objects, uploads, saved, tabs>>

SweepParts ==
    /\ sweep = "parts"
    /\ BestEffort(AbortAll, UNCHANGED uploads)
    /\ sweep' = "objects"
    /\ UNCHANGED <<row, lock, objects, saved, tabs, imports>>

SweepObjects ==
    /\ sweep = "objects"
    /\ BestEffort(objects' = [k \in Keys |-> {}], UNCHANGED objects)
    /\ sweep' = "done"
    /\ UNCHANGED <<row, lock, uploads, saved, tabs, imports>>
-----------------------------------------------------------------------------
Browser(c) ==
    \/ \E f \in Files : Choose(c, f)
    \/ Resume(c) \/ PutLands(c) \/ GiveUp(c) \/ CancelUpload(c)
    \/ \E n \in Parts : PutPart(c, n)

Request(c) ==
    \/ ReuploadBegin(c) \/ DiscardParts(c) \/ DiscardObjects(c) \/ ReuploadCommit(c)
    \/ StartRead(c) \/ StartAbort(c) \/ StartCreate(c)
    \/ CompleteList(c) \/ Assemble(c)
    \/ Measure(c) \/ Refuse(c) \/ QueueImport(c)
    \/ RequestDies(c)

ImportStep(i) ==
    \/ ImportStart(i) \/ ImportFetch(i) \/ ImportSave(i) \/ ImportEnds(i)
    \/ ImportFails(i) \/ Disown(i) \/ RetryImport(i)

Next ==
    \/ \E c \in Tabs : Browser(c) \/ Request(c)
    \/ \E i \in Imports : ImportStep(i)
    \/ \E u \in Uids : AgeOut(u)
    \/ DeleteProject \/ SweepParts \/ SweepObjects

Spec == Init /\ [][Next]_vars
-----------------------------------------------------------------------------
\* An import that runs without its dedupe key, after an admin's retry or a
\* verdict given behind its back, is not seen by an upload again: README says
\* what comes of it.  The rest is promised while no import lost its key.
KeysKept == used["unkey"] = 0

\* What was imported has the size that was declared, although several tabs may
\* upload several files to one key and nothing binds the length of a part.
ImportedAsDeclared ==
    KeysKept /\ row.video # NoVideo => Size(row.video.file) = row.declared

\* An imported project keeps its video: a transcript and ideas belong to the
\* video they were made from.
VideoIsKept ==
    [][KeysKept /\ row.video # NoVideo => row'.video = row.video]_vars

\* The source of an imported project stays stored: every transcription and
\* every export downloads it again.
SourceIsStored ==
    KeysKept /\ row.exists /\ row.video # NoVideo
        => objects[row.video.key] = row.video.file

\* No object is stitched together from the parts of two files, whoever
\* resumes whose upload and whatever a failed clean-up leaves.
NeverStitched == \A k \in Keys : Cardinality(objects[k]) <= 1
=============================================================================

---------------------------- MODULE UploadsProofs ----------------------------
(***************************************************************************)
(* No object of a project is made of the parts of two files, for any       *)
(* number of tabs, files, parts and multipart uploads, whatever fails.     *)
(* The invariant names the files an upload of R2 may still get a part of:  *)
(* those of the tabs at work on it, the one localStorage would resume it   *)
(* with, and those of the parts it has.  There is never more than one      *)
(* (IInv).                                                                 *)
(*                                                                         *)
(* And an imported project keeps its video, its length and its source, as  *)
(* long as no object lands late and no import loses its dedupe key: what   *)
(* a request decided under the row's lock still holds when it acts, and a  *)
(* live import reads the object that the row names (SourceInv).            *)
(***************************************************************************)
EXTENDS Uploads, TLAPS, FiniteSetTheorems

FilesOf(u) ==
    {tabs[c].file : c \in {d \in Tabs : tabs[d].uid = u}}
    \cup ({uploads[u].parts[n] : n \in Parts} \ {"none"})
    \cup (IF saved.uid = u THEN {saved.file} ELSE {})

OneSource ==
    \A u \in Uids : /\ \A f, g \in FilesOf(u) : f = g
                    /\ uploads[u].state = "new" => FilesOf(u) = {}

\* A tab that is at work has a file.
Chosen == \A c \in Tabs : tabs[c].pc # "idle" => tabs[c].file \in Files

\* What is about to be assembled is all there.
Complete ==
    \A c \in Tabs : tabs[c].pc = "assemble" =>
        tabs[c].uid \in Uids /\ EveryPartThere(tabs[c].uid)

Single == \A k \in Keys : objects[k] = {} \/ \E f \in Files : objects[k] = {f}

IInv == TypeOK /\ Chosen /\ Complete /\ OneSource /\ Single
-----------------------------------------------------------------------------
LEMMA NoneIsNothing ==
  /\ "none" \notin Files /\ "none" \notin Keys /\ "none" \notin Uids /\ "none" \notin Tabs
  /\ first \in Files /\ KeyOf \in [Files -> Keys] /\ SizeOf \in [Files -> Nat]
  BY UploadsAssumption

LEMMA IdleTyped == IdleTab \in Tab /\ IdleTab.pc = "idle" /\ IdleTab.uid = "none" /\ NoSave \in Saved
                   /\ NoSave.uid = "none"
  BY DEF IdleTab, Tab, NoSave, Saved

LEMMA RareCounts ==
  ASSUME TypeOK, NEW r \in Rare, Happens(r)
  PROVE  used' \in [Rare -> Nat]
  BY DEF TypeOK, Happens

\* A step of one tab that adds no part: the tab keeps its upload, leaves it,
\* or takes up one that is already its file's.
LEMMA TabStep ==
  ASSUME IInv, NEW c \in Tabs, NEW t \in Tab, tabs' = [tabs EXCEPT ![c] = t],
         t.pc # "idle" => t.file \in Files,
         t.uid # "none" => t.file \in FilesOf(t.uid),
         t.pc = "assemble" => t.uid \in Uids /\ EveryPartThere(t.uid),
         saved' = saved \/ saved' = NoSave,
         uploads' \in [Uids -> Upload],
         \A u \in Uids : /\ uploads'[u].parts = uploads[u].parts
                         /\ uploads'[u].state = "new" => uploads[u].state = "new",
         row' \in Row, lock' \in Tabs \cup {"none"}, objects' \in [Keys -> SUBSET Files],
         imports' \in [Imports -> Import], sweep' = sweep, used' \in [Rare -> Nat],
         Single'
  PROVE  IInv'
<1>1. tabs'[c] = t /\ \A d \in Tabs : d # c => tabs'[d] = tabs[d]
  BY DEF IInv, TypeOK
<1>2. TypeOK'
  BY IdleTyped DEF IInv, TypeOK
<1>3. Chosen'
  BY <1>1 DEF IInv, Chosen
<1>4. Complete'
  BY <1>1 DEF IInv, Complete, EveryPartThere
<1>5. OneSource'
  <2>1. ASSUME NEW u \in Uids, NEW f \in FilesOf(u)' PROVE f \in FilesOf(u)
    <3>1. u # "none"
      BY NoneIsNothing
    <3>2. CASE f \in {tabs'[d].file : d \in {e \in Tabs : tabs'[e].uid = u}}
      <4>1. PICK d \in Tabs : tabs'[d].uid = u /\ f = tabs'[d].file
        BY <3>2
      <4>2. CASE d = c
        BY <1>1, <3>1, <4>1, <4>2
      <4>3. CASE d # c
        BY <1>1, <4>1, <4>3 DEF FilesOf
      <4> QED
        BY <4>2, <4>3
    <3>3. CASE f \in {uploads'[u].parts[n] : n \in Parts} \ {"none"}
      BY <3>3 DEF FilesOf
    <3>4. CASE saved'.uid = u /\ f = saved'.file
      BY <3>1, <3>4, IdleTyped DEF FilesOf
    <3> QED
      BY <2>1, <3>2, <3>3, <3>4 DEF FilesOf
  <2> HIDE DEF FilesOf
  <2>2. \A u \in Uids : FilesOf(u)' \subseteq FilesOf(u)
    BY <2>1
  <2> QED
    BY <2>2 DEF IInv, OneSource
<1> QED
  BY <1>2, <1>3, <1>4, <1>5 DEF IInv

\* A step that leaves the tabs and their uploads' parts alone.
LEMMA BesideTabs ==
  ASSUME IInv, UNCHANGED <<tabs, saved>>,
         uploads' \in [Uids -> Upload],
         \A u \in Uids : /\ uploads'[u].parts = uploads[u].parts
                         /\ uploads'[u].state = "new" => uploads[u].state = "new",
         row' \in Row, lock' \in Tabs \cup {"none"}, objects' \in [Keys -> SUBSET Files],
         imports' \in [Imports -> Import], sweep' \in {"no", "parts", "objects", "done"},
         used' \in [Rare -> Nat], Single'
  PROVE  IInv'
<1>1. TypeOK'
  BY DEF IInv, TypeOK
<1>2. Chosen' /\ Complete'
  BY DEF IInv, Chosen, Complete, EveryPartThere
<1>3. \A u \in Uids : FilesOf(u)' = FilesOf(u)
  BY DEF FilesOf
<1>4. OneSource'
  BY <1>3 DEF IInv, OneSource
<1> QED
  BY <1>1, <1>2, <1>4 DEF IInv

LEMMA Aborted ==
  ASSUME TypeOK, AbortAll
  PROVE  /\ uploads' \in [Uids -> Upload]
         /\ \A u \in Uids : /\ uploads'[u].parts = uploads[u].parts
                            /\ uploads'[u].state = "new" => uploads[u].state = "new"
<1>1. \A u \in Uids : uploads[u] \in Upload /\ [uploads[u] EXCEPT !.state = "gone"] \in Upload
  BY DEF TypeOK, Upload
<1> QED
  BY <1>1 DEF AbortAll, Upload

LEMMA Closed ==
  ASSUME TypeOK, NEW v \in Uids, uploads' = [uploads EXCEPT ![v].state = "gone"]
  PROVE  /\ uploads' \in [Uids -> Upload]
         /\ \A u \in Uids : /\ uploads'[u].parts = uploads[u].parts
                            /\ uploads'[u].state = "new" => uploads[u].state = "new"
<1>1. uploads[v] \in Upload
  BY DEF TypeOK
<1> QED
  BY <1>1 DEF TypeOK, Upload

\* The tab that steps on with its upload, or leaves.
LEMMA SameUpload ==
  ASSUME IInv, NEW c \in Tabs, tabs[c].uid # "none"
  PROVE  tabs[c].uid \in Uids /\ tabs[c].file \in FilesOf(tabs[c].uid)
<1>1. tabs[c] \in Tab
  BY DEF IInv, TypeOK
<1> QED
  BY <1>1 DEF FilesOf, Tab

LEMMA Initially == Init => IInv
<1> SUFFICES ASSUME Init PROVE IInv
  OBVIOUS
<1>1. PICK c \in Tabs : tabs = [t \in Tabs |->
           IF t = c THEN [IdleTab EXCEPT !.pc = "plan", !.file = first, !.key = KeyOf[first]]
                    ELSE IdleTab]
  BY DEF Init
<1> DEFINE begun == [IdleTab EXCEPT !.pc = "plan", !.file = first, !.key = KeyOf[first]]
<1>2. begun \in Tab /\ begun.pc = "plan" /\ begun.file \in Files /\ begun.uid = "none"
  BY NoneIsNothing DEF IdleTab, Tab
<1> HIDE DEF begun
<1>3. tabs \in [Tabs -> Tab] /\ \A t \in Tabs : /\ tabs[t].uid = "none" /\ tabs[t].pc \in {"idle", "plan"}
                                                /\ tabs[t].pc = "plan" => tabs[t].file \in Files
  BY <1>1, <1>2, IdleTyped DEF begun
<1>4. TypeOK
  <2>1. row \in Row
    BY NoneIsNothing DEF Init, Row, NoVideo
  <2>2. uploads \in [Uids -> Upload]
    BY DEF Init, Upload
  <2>3. imports \in [Imports -> Import]
    BY DEF Init, Import
  <2>4. /\ lock \in Tabs \cup {"none"} /\ objects \in [Keys -> SUBSET Files] /\ saved \in Saved
        /\ sweep \in {"no", "parts", "objects", "done"} /\ used \in [Rare -> Nat]
    BY IdleTyped DEF Init
  <2> QED
    BY <1>3, <2>1, <2>2, <2>3, <2>4 DEF TypeOK
<1>5. Chosen /\ Complete
  BY <1>3 DEF Chosen, Complete
<1>6. OneSource
  <2>1. \A u \in Uids : FilesOf(u) = {}
    <3> SUFFICES ASSUME NEW u \in Uids, NEW f \in FilesOf(u) PROVE FALSE
      OBVIOUS
    <3>1. u # "none" /\ saved.uid = "none" /\ \A n \in Parts : uploads[u].parts[n] = "none"
      BY NoneIsNothing, IdleTyped DEF Init
    <3> QED
      BY <1>3, <3>1 DEF FilesOf
  <2> HIDE DEF FilesOf
  <2> QED
    BY <2>1 DEF OneSource
<1>7. Single
  BY DEF Init, Single
<1> QED
  BY <1>4, <1>5, <1>6, <1>7 DEF IInv

-----------------------------------------------------------------------------
\* Where the tab is after a step that gives it no new upload.
Moves(c) ==
    \E t \in Tab : /\ tabs' = [tabs EXCEPT ![c] = t]
                   /\ t.pc # "idle" => t.file \in Files
                   /\ t.uid # "none" => t.file \in FilesOf(t.uid)
                   /\ t.pc = "assemble" => t.uid \in Uids /\ EveryPartThere(t.uid)

\* What the rest of such a step does.
PartsStay ==
    /\ uploads' \in [Uids -> Upload]
    /\ \A u \in Uids : /\ uploads'[u].parts = uploads[u].parts
                       /\ uploads'[u].state = "new" => uploads[u].state = "new"

RestTyped ==
    /\ row' \in Row /\ lock' \in Tabs \cup {"none"} /\ objects' \in [Keys -> SUBSET Files]
    /\ imports' \in [Imports -> Import] /\ used' \in [Rare -> Nat]

LEMMA MoveKeeps ==
  ASSUME IInv, NEW c \in Tabs, Moves(c), PartsStay, RestTyped, Single',
         saved' = saved \/ saved' = NoSave, UNCHANGED sweep
  PROVE  IInv'
<1>1. PICK t \in Tab : /\ tabs' = [tabs EXCEPT ![c] = t]
                       /\ t.pc # "idle" => t.file \in Files
                       /\ t.uid # "none" => t.file \in FilesOf(t.uid)
                       /\ t.pc = "assemble" => t.uid \in Uids /\ EveryPartThere(t.uid)
  BY DEF Moves
<1> QED
  BY <1>1, TabStep DEF PartsStay, RestTyped

LEMMA LeaveMoves ==
  ASSUME NEW c \in Tabs, Leave(c)
  PROVE  Moves(c)
  BY IdleTyped DEF Leave, Moves

LEMMA GoMoves ==
  ASSUME IInv, NEW c \in Tabs, tabs[c].pc # "idle",
         NEW p \in {"ask", "discard", "clear", "swap", "plan", "abort", "create",
                    "put", "parts", "done", "refuse", "queue"},
         Go(c, p)
  PROVE  Moves(c)
<1> DEFINE t == [tabs[c] EXCEPT !.pc = p]
<1>1. tabs[c] \in Tab
  BY DEF IInv, TypeOK
<1>2. t \in Tab /\ t.file = tabs[c].file /\ t.uid = tabs[c].uid /\ t.pc = p
  BY <1>1 DEF Tab
<1>3. tabs' = [tabs EXCEPT ![c] = t]
  BY DEF Go
<1>4. t.file \in Files
  BY <1>2 DEF IInv, Chosen
<1>5. t.uid # "none" => t.file \in FilesOf(t.uid)
  BY <1>2, SameUpload
<1> HIDE DEF t
<1> QED
  BY <1>2, <1>3, <1>4, <1>5 DEF Moves

LEMMA NothingElse ==
  ASSUME IInv
  PROVE  /\ UNCHANGED uploads => PartsStay
         /\ UNCHANGED objects => Single'
         /\ row \in Row /\ lock \in Tabs \cup {"none"} /\ objects \in [Keys -> SUBSET Files]
         /\ imports \in [Imports -> Import] /\ used \in [Rare -> Nat]
  BY DEF IInv, TypeOK, PartsStay, Single

LEMMA Empties ==
  ASSUME objects' = [k \in Keys |-> {}]
  PROVE  objects' \in [Keys -> SUBSET Files] /\ Single'
  BY DEF Single

LEMMA Stores ==
  ASSUME IInv, NEW k, NEW o, o = {} \/ \E f \in Files : o = {f},
         objects' = [objects EXCEPT ![k] = o]
  PROVE  objects' \in [Keys -> SUBSET Files] /\ Single'
<1>1. objects \in [Keys -> SUBSET Files] /\ o \in SUBSET Files
  BY DEF IInv, TypeOK
<1>2. objects' \in [Keys -> SUBSET Files]
  BY <1>1
<1>3. \A l \in Keys : objects'[l] = objects[l] \/ objects'[l] = o
  BY <1>1
<1> QED
  BY <1>2, <1>3 DEF Single, IInv
-----------------------------------------------------------------------------
LEMMA ChooseKeeps ==
  ASSUME IInv, NEW c \in Tabs, NEW f \in Files, Choose(c, f)
  PROVE  IInv'
<1> DEFINE t == [IdleTab EXCEPT !.file = f, !.pc = IF SameFile(saved, f) THEN "plan" ELSE "ask"]
<1>1. t \in Tab /\ t.file = f /\ t.uid = "none" /\ t.pc # "assemble"
  BY DEF Tab, IdleTab
<1>2. tabs' = [tabs EXCEPT ![c] = t]
  BY DEF Choose
<1> HIDE DEF t
<1>3. Moves(c)
  BY <1>1, <1>2 DEF Moves
<1>4. used' \in [Rare -> Nat]
  BY RareCounts DEF IInv, Choose, Rare
<1> QED
  BY <1>3, <1>4, NothingElse, MoveKeeps DEF RestTyped, Choose

LEMMA ResumeKeeps ==
  ASSUME IInv, NEW c \in Tabs, Resume(c)
  PROVE  IInv'
<1>1. /\ tabs[c] \in Tab /\ tabs[c].pc = "plan" /\ tabs[c].file \in Files
      /\ saved \in Saved /\ saved.file = tabs[c].file
  BY DEF IInv, TypeOK, Chosen, Resume, SameFile
<1>2. CASE row.exists /\ Open(saved.uid) /\ uploads[saved.uid].key = row.uploadKey
  <2> DEFINE t == [tabs[c] EXCEPT !.pc = "parts", !.uid = saved.uid]
  <2>1. saved.uid \in Uids
    BY <1>1, <1>2 DEF Open, Saved
  <2>2. t \in Tab /\ t.file = tabs[c].file /\ t.uid = saved.uid /\ t.pc = "parts"
    BY <1>1, <2>1 DEF Tab
  <2>3. t.file \in FilesOf(t.uid)
    BY <1>1, <2>2 DEF FilesOf
  <2>4. tabs' = [tabs EXCEPT ![c] = t] /\ UNCHANGED saved
    BY <1>2 DEF Resume
  <2> HIDE DEF t
  <2>5. Moves(c)
    BY <1>1, <2>2, <2>3, <2>4 DEF Moves
  <2> QED
    BY <2>4, <2>5, NothingElse, MoveKeeps DEF RestTyped, Resume
<1>3. CASE ~(row.exists /\ Open(saved.uid) /\ uploads[saved.uid].key = row.uploadKey)
  <2>1. UNCHANGED tabs /\ saved' = NoSave
    BY <1>3 DEF Resume
  <2>2. tabs' = [tabs EXCEPT ![c] = tabs[c]]
    BY <2>1 DEF IInv, TypeOK
  <2>3. Moves(c)
    BY <1>1, <2>2, SameUpload DEF Moves
  <2> QED
    BY <2>1, <2>3, NothingElse, MoveKeeps DEF RestTyped, Resume
<1> QED
  BY <1>2, <1>3

LEMMA PutPartKeeps ==
  ASSUME IInv, NEW c \in Tabs, NEW n \in Parts, PutPart(c, n)
  PROVE  IInv'
<1> DEFINE v == tabs[c].uid
           f == tabs[c].file
<1>1. /\ v \in Uids /\ f \in Files /\ f \in FilesOf(v)
      /\ uploads' = [uploads EXCEPT ![v].parts[n] = f]
      /\ UNCHANGED <<row, lock, objects, saved, tabs, imports, sweep, used>>
  BY SameUpload DEF PutPart, Open, IInv, Chosen
<1> HIDE DEF v, f
<1>2. uploads[v] \in Upload /\ uploads \in [Uids -> Upload]
  BY <1>1 DEF IInv, TypeOK
<1>3. /\ uploads' \in [Uids -> Upload]
      /\ \A u \in Uids : uploads'[u].state = uploads[u].state
      /\ \A u \in Uids : \A m \in Parts :
           uploads'[u].parts[m] = IF u = v /\ m = n THEN f ELSE uploads[u].parts[m]
  <2>1. uploads[v].parts \in [Parts -> Files \cup {"none"}]
    BY <1>2 DEF Upload
  <2>2. [uploads[v] EXCEPT !.parts = [@ EXCEPT ![n] = f]] \in Upload
    BY <1>1, <1>2, <2>1 DEF Upload
  <2>3. /\ uploads' = [uploads EXCEPT ![v] = [uploads[v] EXCEPT !.parts = [@ EXCEPT ![n] = f]]]
    BY <1>1
  <2>4. uploads' \in [Uids -> Upload]
    BY <1>2, <2>2, <2>3
  <2>5. uploads'[v] = [uploads[v] EXCEPT !.parts = [@ EXCEPT ![n] = f]]
        /\ \A u \in Uids : u # v => uploads'[u] = uploads[u]
    BY <1>1, <1>2, <2>3
  <2>6. uploads'[v].state = uploads[v].state
        /\ uploads'[v].parts = [uploads[v].parts EXCEPT ![n] = f]
    BY <1>2, <2>5 DEF Upload
  <2> QED
    BY <2>1, <2>4, <2>5, <2>6
<1>4. TypeOK'
  BY <1>1, <1>3 DEF IInv, TypeOK
<1>5. Chosen' /\ Single'
  BY <1>1 DEF IInv, Chosen, Single
<1>6. Complete'
  BY <1>1, <1>3, NoneIsNothing DEF IInv, Complete, EveryPartThere
<1>7. OneSource'
  <2>1. \A u \in Uids : FilesOf(u)' \subseteq FilesOf(u)
    <3> SUFFICES ASSUME NEW u \in Uids, NEW g \in FilesOf(u)' PROVE g \in FilesOf(u)
      OBVIOUS
    <3>1. CASE g \in {uploads'[u].parts[m] : m \in Parts} \ {"none"}
      BY <1>1, <1>3, <3>1 DEF FilesOf
    <3>2. CASE g \notin {uploads'[u].parts[m] : m \in Parts} \ {"none"}
      BY <1>1, <3>2 DEF FilesOf
    <3> QED
      BY <3>1, <3>2
  <2> HIDE DEF FilesOf
  <2> QED
    BY <1>3, <2>1 DEF IInv, OneSource
<1> QED
  BY <1>4, <1>5, <1>6, <1>7 DEF IInv

LEMMA PutLandsKeeps ==
  ASSUME IInv, NEW c \in Tabs, PutLands(c)
  PROVE  IInv'
<1>1. /\ tabs[c].pc = "put" /\ tabs[c].file \in Files
      /\ objects' = [objects EXCEPT ![tabs[c].key] = {tabs[c].file}]
  BY DEF PutLands, IInv, Chosen
<1>2. objects' \in [Keys -> SUBSET Files] /\ Single'
  BY <1>1, Stores
<1>3. used' \in [Rare -> Nat]
  BY RareCounts, NothingElse DEF PutLands, Lands, IInv, Rare
<1>4. Moves(c)
  BY <1>1, GoMoves, LeaveMoves DEF PutLands
<1> QED
  BY <1>2, <1>3, <1>4, NothingElse, MoveKeeps DEF RestTyped, PutLands

LEMMA GiveUpKeeps ==
  ASSUME IInv, NEW c \in Tabs, GiveUp(c)
  PROVE  IInv'
  BY LeaveMoves, NothingElse, MoveKeeps DEF RestTyped, GiveUp

LEMMA CancelUploadKeeps ==
  ASSUME IInv, NEW c \in Tabs, CancelUpload(c)
  PROVE  IInv'
<1>1. PartsStay
  <2>1. CASE Open(tabs[c].uid) /\ row.exists /\ uploads[tabs[c].uid].key = row.uploadKey
    <3>1. tabs[c].uid \in Uids
      BY <2>1, SameUpload DEF Open
    <3>2. uploads' = [uploads EXCEPT ![tabs[c].uid].state = "gone"]
      BY <2>1 DEF CancelUpload
    <3> QED
      BY <3>1, <3>2, Closed DEF PartsStay, IInv
  <2>2. CASE ~(Open(tabs[c].uid) /\ row.exists /\ uploads[tabs[c].uid].key = row.uploadKey)
    BY <2>2, NothingElse DEF CancelUpload
  <2> QED
    BY <2>1, <2>2
<1> QED
  BY <1>1, LeaveMoves, NothingElse, MoveKeeps DEF RestTyped, CancelUpload
-----------------------------------------------------------------------------
LEMMA ReuploadBeginKeeps ==
  ASSUME IInv, NEW c \in Tabs, ReuploadBegin(c)
  PROVE  IInv'
  BY LeaveMoves, GoMoves, NothingElse, MoveKeeps DEF RestTyped, ReuploadBegin

LEMMA DiscardPartsKeeps ==
  ASSUME IInv, NEW c \in Tabs, DiscardParts(c)
  PROVE  IInv'
<1>1. PartsStay /\ used' \in [Rare -> Nat]
  BY Aborted, RareCounts, NothingElse DEF DiscardParts, BestEffort, PartsStay, IInv, Rare
<1>2. Moves(c)
  BY GoMoves DEF DiscardParts
<1> QED
  BY <1>1, <1>2, NothingElse, MoveKeeps DEF RestTyped, DiscardParts

LEMMA DiscardObjectsKeeps ==
  ASSUME IInv, NEW c \in Tabs, DiscardObjects(c)
  PROVE  IInv'
<1>1. objects' \in [Keys -> SUBSET Files] /\ Single' /\ used' \in [Rare -> Nat]
  BY Empties, RareCounts, NothingElse DEF DiscardObjects, BestEffort, IInv, Rare
<1>2. Moves(c)
  BY GoMoves DEF DiscardObjects
<1> QED
  BY <1>1, <1>2, NothingElse, MoveKeeps DEF RestTyped, DiscardObjects

LEMMA ReuploadCommitKeeps ==
  ASSUME IInv, NEW c \in Tabs, ReuploadCommit(c)
  PROVE  IInv'
<1> DEFINE f == tabs[c].file
           t == [tabs[c] EXCEPT !.pc = IF tabs[c].key = "none" THEN "plan" ELSE "put",
                                !.key = KeyOf[f]]
<1>1. f \in Files /\ tabs[c] \in Tab
  BY DEF ReuploadCommit, IInv, Chosen, TypeOK
<1>2. KeyOf[f] \in Keys /\ SizeOf[f] \in Nat
  BY <1>1, NoneIsNothing
<1>3. t \in Tab /\ t.file = f /\ t.uid = tabs[c].uid /\ t.pc # "assemble"
  BY <1>1, <1>2 DEF Tab
<1>4. tabs' = [tabs EXCEPT ![c] = t]
  BY DEF ReuploadCommit
<1>5. row' \in Row
  BY <1>2, NothingElse DEF ReuploadCommit, Pending, Row
<1>6. t.uid # "none" => t.file \in FilesOf(t.uid)
  BY <1>3, SameUpload
<1> HIDE DEF f, t
<1>7. Moves(c)
  BY <1>1, <1>3, <1>4, <1>6 DEF Moves
<1> QED
  BY <1>5, <1>7, NothingElse, MoveKeeps DEF RestTyped, ReuploadCommit

LEMMA StartReadKeeps ==
  ASSUME IInv, NEW c \in Tabs, StartRead(c)
  PROVE  IInv'
<1>1. tabs[c] \in Tab /\ tabs[c].file \in Files /\ row.uploadKey \in Keys \cup {"none"}
  BY DEF StartRead, IInv, Chosen, TypeOK, Row
<1>2. ASSUME tabs' = [tabs EXCEPT ![c] = IdleTab] PROVE Moves(c)
  BY <1>2, IdleTyped DEF Moves
<1>3. ASSUME tabs' = [tabs EXCEPT ![c] =
                [tabs[c] EXCEPT !.pc = IF tabs[c].key = "none" THEN "ask" ELSE "put",
                                !.key = IF @ = "none" THEN row.uploadKey ELSE @]]
      PROVE Moves(c)
  <2> DEFINE t == [tabs[c] EXCEPT !.pc = IF tabs[c].key = "none" THEN "ask" ELSE "put",
                                  !.key = IF @ = "none" THEN row.uploadKey ELSE @]
  <2>1. t \in Tab /\ t.file = tabs[c].file /\ t.uid = tabs[c].uid /\ t.pc # "assemble"
    BY <1>1 DEF Tab
  <2>2. t.uid # "none" => t.file \in FilesOf(t.uid)
    BY <2>1, SameUpload
  <2>3. tabs' = [tabs EXCEPT ![c] = t]
    BY <1>3
  <2> HIDE DEF t
  <2> QED
    BY <1>1, <2>1, <2>2, <2>3 DEF Moves
<1>4. ASSUME tabs' = [tabs EXCEPT ![c] = [tabs[c] EXCEPT !.pc = "abort", !.key = row.uploadKey]]
      PROVE  Moves(c)
  <2> DEFINE t == [tabs[c] EXCEPT !.pc = "abort", !.key = row.uploadKey]
  <2>1. t \in Tab /\ t.file = tabs[c].file /\ t.uid = tabs[c].uid /\ t.pc # "assemble"
    BY <1>1 DEF Tab
  <2>2. t.uid # "none" => t.file \in FilesOf(t.uid)
    BY <2>1, SameUpload
  <2>3. tabs' = [tabs EXCEPT ![c] = t]
    BY <1>4
  <2> HIDE DEF t
  <2> QED
    BY <1>1, <2>1, <2>2, <2>3 DEF Moves
<1>5. Moves(c)
  <2>1. CASE ~row.exists \/ row.uploadKey = "none"
    BY <2>1, <1>2 DEF StartRead
  <2>2. CASE row.exists /\ row.uploadKey # "none" /\ row.declared < MULTIPART_MIN
    BY <2>2, <1>3 DEF StartRead
  <2>3. CASE row.exists /\ row.uploadKey # "none" /\ ~(row.declared < MULTIPART_MIN)
    BY <2>3, <1>4 DEF StartRead
  <2> QED
    BY <2>1, <2>2, <2>3
<1> QED
  BY <1>5, NothingElse, MoveKeeps DEF RestTyped, StartRead

LEMMA StartAbortKeeps ==
  ASSUME IInv, NEW c \in Tabs, StartAbort(c)
  PROVE  IInv'
<1>1. PartsStay /\ used' \in [Rare -> Nat]
  BY Aborted, RareCounts, NothingElse DEF StartAbort, BestEffort, PartsStay, IInv, Rare
<1>2. Moves(c)
  BY GoMoves DEF StartAbort
<1> QED
  BY <1>1, <1>2, NothingElse, MoveKeeps DEF RestTyped, StartAbort

LEMMA StartCreateKeeps ==
  ASSUME IInv, NEW c \in Tabs, StartCreate(c)
  PROVE  IInv'
<1> DEFINE f == tabs[c].file
<1>1. PICK v \in Uids : /\ uploads[v].state = "new"
                        /\ uploads' = [uploads EXCEPT ![v].state = "open", ![v].key = tabs[c].key]
                        /\ tabs' = [tabs EXCEPT ![c].pc = "parts", ![c].uid = v]
                        /\ saved' = [uid |-> v, file |-> f]
  BY DEF StartCreate
<1>2. f \in Files /\ tabs[c] \in Tab /\ tabs \in [Tabs -> Tab] /\ uploads[v] \in Upload
      /\ uploads \in [Uids -> Upload]
  BY DEF StartCreate, IInv, Chosen, TypeOK
<1>3. tabs[c].key \in Keys \cup {"none"}
  BY <1>2 DEF Tab
<1>4. /\ tabs' \in [Tabs -> Tab]
      /\ tabs'[c].file = f /\ tabs'[c].uid = v /\ tabs'[c].pc = "parts"
      /\ \A d \in Tabs : d # c => tabs'[d] = tabs[d]
  <2>1. [tabs[c] EXCEPT !.pc = "parts", !.uid = v] \in Tab
    BY <1>2 DEF Tab
  <2>2. tabs' = [tabs EXCEPT ![c] = [tabs[c] EXCEPT !.pc = "parts", !.uid = v]]
    BY <1>1
  <2>3. tabs' \in [Tabs -> Tab] /\ tabs'[c] = [tabs[c] EXCEPT !.pc = "parts", !.uid = v]
        /\ \A d \in Tabs : d # c => tabs'[d] = tabs[d]
    BY <1>2, <2>1, <2>2
  <2>4. [tabs[c] EXCEPT !.pc = "parts", !.uid = v].file = f
        /\ [tabs[c] EXCEPT !.pc = "parts", !.uid = v].uid = v
        /\ [tabs[c] EXCEPT !.pc = "parts", !.uid = v].pc = "parts"
    BY <1>2 DEF Tab
  <2> QED
    BY <2>3, <2>4
<1>5. /\ uploads' \in [Uids -> Upload]
      /\ \A u \in Uids : uploads'[u].parts = uploads[u].parts
      /\ \A u \in Uids : uploads'[u].state = IF u = v THEN "open" ELSE uploads[u].state
  <2>1. [uploads[v] EXCEPT !.state = "open", !.key = tabs[c].key] \in Upload
    BY <1>2, <1>3 DEF Upload
  <2>2. uploads' = [uploads EXCEPT ![v] = [uploads[v] EXCEPT !.state = "open", !.key = tabs[c].key]]
    BY <1>1
  <2>3. uploads' \in [Uids -> Upload]
        /\ uploads'[v] = [uploads[v] EXCEPT !.state = "open", !.key = tabs[c].key]
        /\ \A u \in Uids : u # v => uploads'[u] = uploads[u]
    BY <1>2, <2>1, <2>2
  <2>4. [uploads[v] EXCEPT !.state = "open", !.key = tabs[c].key].parts = uploads[v].parts
        /\ [uploads[v] EXCEPT !.state = "open", !.key = tabs[c].key].state = "open"
    BY <1>2 DEF Upload
  <2> QED
    BY <2>3, <2>4
<1>6. UNCHANGED <<row, lock, objects, imports, sweep, used>>
  BY DEF StartCreate
<1>7. TypeOK'
  BY <1>1, <1>2, <1>4, <1>5, <1>6 DEF IInv, TypeOK, Saved
<1>8. Chosen' /\ Single'
  BY <1>2, <1>4, <1>6 DEF IInv, Chosen, Single
<1>9. Complete'
  BY <1>4, <1>5 DEF IInv, Complete, EveryPartThere
<1>10. OneSource'
  <2>1. FilesOf(v) = {}
    BY <1>1 DEF IInv, OneSource
  <2>2. \A u \in Uids : \A g \in FilesOf(u)' : g \in FilesOf(u) \/ (u = v /\ g = f)
    <3> SUFFICES ASSUME NEW u \in Uids, NEW g \in FilesOf(u)'
                 PROVE  g \in FilesOf(u) \/ (u = v /\ g = f)
      OBVIOUS
    <3>1. CASE g \in {tabs'[d].file : d \in {e \in Tabs : tabs'[e].uid = u}}
      <4>1. PICK d \in Tabs : tabs'[d].uid = u /\ g = tabs'[d].file
        BY <3>1
      <4>2. CASE d = c
        BY <1>4, <4>1, <4>2
      <4>3. CASE d # c
        BY <1>4, <4>1, <4>3 DEF FilesOf
      <4> QED
        BY <4>2, <4>3
    <3>2. CASE g \in {uploads'[u].parts[n] : n \in Parts} \ {"none"}
      BY <1>5, <3>2 DEF FilesOf
    <3>3. CASE saved'.uid = u /\ g = saved'.file
      BY <1>1, <3>3
    <3> QED
      BY <3>1, <3>2, <3>3 DEF FilesOf
  <2> HIDE DEF FilesOf, f
  <2>3. ASSUME NEW u \in Uids PROVE \A g, h \in FilesOf(u)' : g = h
    BY <2>1, <2>2 DEF IInv, OneSource
  <2>4. ASSUME NEW u \in Uids, uploads'[u].state = "new" PROVE FilesOf(u)' = {}
    BY <1>5, <2>2, <2>4 DEF IInv, OneSource
  <2> QED
    BY <2>3, <2>4 DEF OneSource
<1> QED
  BY <1>7, <1>8, <1>9, <1>10 DEF IInv
-----------------------------------------------------------------------------
LEMMA CompleteListKeeps ==
  ASSUME IInv, NEW c \in Tabs, CompleteList(c)
  PROVE  IInv'
<1> DEFINE t == [tabs[c] EXCEPT !.pc = "assemble", !.key = row.uploadKey]
<1>1. tabs[c] \in Tab /\ tabs[c].file \in Files /\ row.uploadKey \in Keys \cup {"none"}
  BY DEF CompleteList, IInv, Chosen, TypeOK, Row
<1>2. ASSUME tabs' = [tabs EXCEPT ![c] = IdleTab] PROVE Moves(c)
  BY <1>2, IdleTyped DEF Moves
<1>3. ASSUME Open(tabs[c].uid) /\ tabs' = [tabs EXCEPT ![c] = t] PROVE Moves(c)
  <2>1. t \in Tab /\ t.file = tabs[c].file /\ t.uid = tabs[c].uid
    BY <1>1 DEF Tab
  <2>2. t.uid \in Uids /\ t.file \in FilesOf(t.uid)
    BY <1>3, <2>1, SameUpload DEF Open
  <2>3. EveryPartThere(t.uid)
    BY <2>1 DEF CompleteList
  <2>4. tabs' = [tabs EXCEPT ![c] = t]
    BY <1>3
  <2> HIDE DEF t
  <2> QED
    BY <1>1, <2>1, <2>2, <2>3, <2>4 DEF Moves
<1>4. Moves(c)
  BY <1>2, <1>3 DEF CompleteList
<1> QED
  BY <1>4, NothingElse, MoveKeeps DEF RestTyped, CompleteList

\* The one step that makes an object of several parts.
LEMMA AssembleKeeps ==
  ASSUME IInv, NEW c \in Tabs, Assemble(c)
  PROVE  IInv'
<1> DEFINE u == tabs[c].uid
           o == {uploads[u].parts[n] : n \in Parts}
<1>1. tabs[c].pc = "assemble" /\ u \in Uids /\ \A n \in Parts : uploads[u].parts[n] # "none"
  BY DEF Assemble, IInv, Complete, EveryPartThere
<1>2. CASE Open(u)
  <2>1. uploads[u].parts \in [Parts -> Files \cup {"none"}]
    BY <1>1 DEF IInv, TypeOK, Upload
  <2>2. \A f \in o : f \in Files /\ f \in FilesOf(u)
    BY <1>1, <2>1 DEF FilesOf
  <2>3. \A f, g \in FilesOf(u) : f = g
    BY <1>1 DEF IInv, OneSource
  <2>4. /\ objects' = [objects EXCEPT ![tabs[c].key] = o]
        /\ uploads' = [uploads EXCEPT ![u].state = "gone"]
        /\ Lands(tabs[c].key)
        /\ (saved' = NoSave /\ Go(c, "done")) \/ (UNCHANGED saved /\ Leave(c))
        /\ UNCHANGED <<row, lock, imports, sweep>>
    BY <1>2 DEF Assemble
  <2> HIDE DEF o
  <2>5. o = {} \/ \E f \in Files : o = {f}
    BY <2>2, <2>3
  <2>6. objects' \in [Keys -> SUBSET Files] /\ Single'
    BY <2>4, <2>5, Stores
  <2>7. PartsStay
    BY <1>1, <2>4, Closed DEF PartsStay, IInv
  <2>8. used' \in [Rare -> Nat]
    BY <2>4, RareCounts, NothingElse DEF Lands, IInv, Rare
  <2>9. Moves(c)
    BY <1>1, <2>4, GoMoves, LeaveMoves
  <2> QED
    BY <2>4, <2>6, <2>7, <2>8, <2>9, NothingElse, MoveKeeps DEF RestTyped
<1>3. CASE ~Open(u)
  BY <1>3, LeaveMoves, NothingElse, MoveKeeps DEF RestTyped, Assemble
<1> QED
  BY <1>2, <1>3
-----------------------------------------------------------------------------
LEMMA MeasureKeeps ==
  ASSUME IInv, NEW c \in Tabs, Measure(c)
  PROVE  IInv'
<1>1. CASE Leave(c) /\ UNCHANGED lock
  BY <1>1, LeaveMoves, NothingElse, MoveKeeps DEF RestTyped, Measure
<1>2. CASE /\ row.exists /\ KeyToImport # "none" /\ objects[KeyToImport] # {}
  <2> DEFINE p == IF UploadRefusal(objects[KeyToImport]) THEN "refuse" ELSE "queue"
             t == [tabs[c] EXCEPT !.pc = p, !.key = KeyToImport]
  <2>1. tabs[c] \in Tab /\ tabs[c].file \in Files /\ KeyToImport \in Keys
    BY <1>2 DEF Measure, IInv, Chosen, TypeOK, Row, KeyToImport
  <2>2. p \in {"refuse", "queue"}
    OBVIOUS
  <2>3. tabs' = [tabs EXCEPT ![c] = t] /\ lock' = c
    BY <1>2 DEF Measure
  <2> HIDE DEF p
  <2>4. t \in Tab /\ t.file = tabs[c].file /\ t.uid = tabs[c].uid /\ t.pc = p
    BY <2>1, <2>2 DEF Tab
  <2>5. t.uid # "none" => t.file \in FilesOf(t.uid)
    BY <2>4, SameUpload
  <2> HIDE DEF t
  <2>6. Moves(c)
    BY <2>1, <2>2, <2>3, <2>4, <2>5 DEF Moves
  <2> QED
    BY <2>3, <2>6, NothingElse, MoveKeeps DEF RestTyped, Measure
<1> QED
  BY <1>1, <1>2 DEF Measure

LEMMA RefuseKeeps ==
  ASSUME IInv, NEW c \in Tabs, Refuse(c)
  PROVE  IInv'
<1>1. objects' \in [Keys -> SUBSET Files] /\ Single'
  BY Stores, NothingElse DEF Refuse, BestEffort
<1>2. used' \in [Rare -> Nat]
  BY RareCounts, NothingElse DEF Refuse, BestEffort, IInv, Rare
<1> QED
  BY <1>1, <1>2, LeaveMoves, NothingElse, MoveKeeps DEF RestTyped, Refuse

LEMMA QueueImportKeeps ==
  ASSUME IInv, NEW c \in Tabs, QueueImport(c)
  PROVE  IInv'
<1>1. row' \in Row
  <2>1. row \in Row /\ tabs[c].key \in Keys \cup {"none"}
    BY DEF IInv, TypeOK, Tab
  <2> QED
    BY <2>1 DEF QueueImport, Row
<1>2. imports' \in [Imports -> Import]
  <2>1. CASE UNCHANGED imports
    BY <2>1, NothingElse
  <2>2. CASE \E i \in Imports :
               imports' = [imports EXCEPT ![i].state = "queued", ![i].keyed = TRUE]
    <3>1. PICK i \in Imports :
            imports' = [imports EXCEPT ![i].state = "queued", ![i].keyed = TRUE]
      BY <2>2
    <3>2. imports[i] \in Import /\ imports \in [Imports -> Import]
      BY NothingElse
    <3>3. [imports[i] EXCEPT !.state = "queued", !.keyed = TRUE] \in Import
      BY <3>2 DEF Import
    <3> QED
      BY <3>1, <3>2, <3>3
  <2> QED
    BY <2>1, <2>2 DEF QueueImport
<1> QED
  BY <1>1, <1>2, LeaveMoves, NothingElse, MoveKeeps DEF RestTyped, QueueImport

LEMMA RequestDiesKeeps ==
  ASSUME IInv, NEW c \in Tabs, RequestDies(c)
  PROVE  IInv'
<1>1. used' \in [Rare -> Nat] /\ lock' \in Tabs \cup {"none"}
  BY RareCounts, NothingElse DEF RequestDies, IInv, Rare
<1> QED
  BY <1>1, LeaveMoves, NothingElse, MoveKeeps DEF RestTyped, RequestDies
-----------------------------------------------------------------------------
\* The steps of imports, of R2 and of the clean-up leave the tabs alone.
LEMMA QuietKeeps ==
  ASSUME IInv, UNCHANGED <<tabs, saved>>, PartsStay, RestTyped, Single',
         sweep' \in {"no", "parts", "objects", "done"}
  PROVE  IInv'
  BY BesideTabs DEF PartsStay, RestTyped

LEMMA VerdictTyped ==
  ASSUME IInv, NEW i \in Imports, NEW state \in {"queued", "done", "failed"}, Verdict(i, state)
  PROVE  imports' \in [Imports -> Import]
<1>1. imports \in [Imports -> Import] /\ imports[i] \in Import
  BY NothingElse
<1> DEFINE j == [imports[i] EXCEPT !.pc = "no",
                   !.state = IF @ = "running" THEN state ELSE @,
                   !.keyed = @ /\ (imports[i].state = "running" => state = "queued"),
                   !.key = "none", !.got = {}]
<1>2. j \in Import
  <2>1. imports[i].keyed \in BOOLEAN
    BY <1>1 DEF Import
  <2>2. (imports[i].keyed /\ (imports[i].state = "running" => state = "queued")) \in BOOLEAN
    OBVIOUS
  <2>3. (IF imports[i].state = "running" THEN state ELSE imports[i].state)
          \in {"new", "queued", "running", "done", "failed", "gone"}
    BY <1>1 DEF Import
  <2> QED
    BY <1>1, <2>2, <2>3 DEF Import
<1>3. imports' = [imports EXCEPT ![i] = j]
  BY DEF Verdict
<1> HIDE DEF j
<1> QED
  BY <1>1, <1>2, <1>3

LEMMA ImportKeeps ==
  ASSUME IInv, NEW i \in Imports, ImportStep(i)
  PROVE  IInv'
<1>1. /\ imports \in [Imports -> Import] /\ imports[i] \in Import
      /\ row \in Row /\ objects \in [Keys -> SUBSET Files]
  BY NothingElse
<1>2. sweep \in {"no", "parts", "objects", "done"}
  BY DEF IInv, TypeOK
<1>3. CASE ImportStart(i)
  <2>1. row.videoKey \in Keys \cup {"none"}
    BY <1>1 DEF Row
  <2>2. [imports[i] EXCEPT !.state = "running", !.pc = "fetch", !.key = row.videoKey] \in Import
    BY <1>1, <2>1 DEF Import
  <2>3. imports' \in [Imports -> Import]
    BY <1>1, <1>3, <2>2 DEF ImportStart
  <2> QED
    BY <1>2, <1>3, <2>3, NothingElse, QuietKeeps DEF ImportStart, RestTyped
<1>4. CASE ImportFetch(i)
  <2>1. objects[imports[i].key] \in SUBSET Files
    BY <1>1, <1>4 DEF ImportFetch, Import
  <2>2. [imports[i] EXCEPT !.pc = "save", !.got = objects[imports[i].key]] \in Import
    BY <1>1, <2>1 DEF Import
  <2>3. imports' \in [Imports -> Import]
    BY <1>1, <1>4, <2>2 DEF ImportFetch
  <2> QED
    BY <1>2, <1>4, <2>3, NothingElse, QuietKeeps DEF ImportFetch, RestTyped
<1>5. CASE ImportSave(i)
  <2>1. [imports[i] EXCEPT !.pc = "end"] \in Import
        /\ imports[i].key \in Keys \cup {"none"} /\ imports[i].got \in SUBSET Files
    BY <1>1 DEF Import
  <2>2. imports' \in [Imports -> Import]
    BY <1>1, <1>5, <2>1 DEF ImportSave
  <2>3. row' \in Row
    BY <1>1, <1>5, <2>1 DEF ImportSave, Row
  <2> QED
    BY <1>2, <1>5, <2>2, <2>3, NothingElse, QuietKeeps DEF ImportSave, RestTyped
<1>6. CASE ImportEnds(i)
  <2>1. imports' \in [Imports -> Import]
    BY <1>6, VerdictTyped DEF ImportEnds
  <2> QED
    BY <1>2, <1>6, <2>1, NothingElse, QuietKeeps DEF ImportEnds, RestTyped
<1>7. CASE ImportFails(i)
  <2>1. imports' \in [Imports -> Import]
    BY <1>7, VerdictTyped DEF ImportFails
  <2> QED
    BY <1>2, <1>7, <2>1, NothingElse, QuietKeeps DEF ImportFails, RestTyped
<1>8. CASE Disown(i)
  <2>1. [imports[i] EXCEPT !.state = "failed", !.keyed = FALSE] \in Import
    BY <1>1 DEF Import
  <2>2. imports' \in [Imports -> Import]
    BY <1>1, <1>8, <2>1 DEF Disown
  <2>3. used' \in [Rare -> Nat]
    BY <1>8, RareCounts DEF Disown, IInv, Rare
  <2> QED
    BY <1>2, <1>8, <2>2, <2>3, NothingElse, QuietKeeps DEF Disown, RestTyped
<1>9. CASE RetryImport(i)
  <2>1. [imports[i] EXCEPT !.state = "queued"] \in Import
    BY <1>1 DEF Import
  <2>2. imports' \in [Imports -> Import]
    BY <1>1, <1>9, <2>1 DEF RetryImport
  <2>3. used' \in [Rare -> Nat]
    BY <1>9, RareCounts DEF RetryImport, IInv, Rare
  <2> QED
    BY <1>2, <1>9, <2>2, <2>3, NothingElse, QuietKeeps DEF RetryImport, RestTyped
<1> QED
  BY <1>3, <1>4, <1>5, <1>6, <1>7, <1>8, <1>9 DEF ImportStep

LEMMA AgeOutKeeps ==
  ASSUME IInv, NEW u \in Uids, AgeOut(u)
  PROVE  IInv'
<1>1. PartsStay
  BY Closed DEF AgeOut, PartsStay, IInv
<1>2. sweep \in {"no", "parts", "objects", "done"}
  BY DEF IInv, TypeOK
<1> QED
  BY <1>1, <1>2, NothingElse, QuietKeeps DEF AgeOut, RestTyped

LEMMA DeletionKeeps ==
  ASSUME IInv, DeleteProject \/ SweepParts \/ SweepObjects
  PROVE  IInv'
<1>1. CASE DeleteProject
  <2>1. row' \in Row
    BY <1>1, NothingElse DEF DeleteProject, Row
  <2>2. imports' \in [Imports -> Import]
    <3>1. \A i \in Imports : /\ imports[i] \in Import
                             /\ [imports[i] EXCEPT !.state = "gone", !.keyed = FALSE] \in Import
      BY NothingElse DEF Import
    <3> QED
      BY <1>1, <3>1 DEF DeleteProject
  <2>3. used' \in [Rare -> Nat]
    BY <1>1, RareCounts DEF DeleteProject, IInv, Rare
  <2> QED
    BY <1>1, <2>1, <2>2, <2>3, NothingElse, QuietKeeps DEF DeleteProject, RestTyped
<1>2. CASE SweepParts
  <2>1. PartsStay /\ used' \in [Rare -> Nat]
    BY <1>2, Aborted, RareCounts, NothingElse DEF SweepParts, BestEffort, PartsStay, IInv, Rare
  <2> QED
    BY <1>2, <2>1, NothingElse, QuietKeeps DEF SweepParts, RestTyped
<1>3. CASE SweepObjects
  <2>1. objects' \in [Keys -> SUBSET Files] /\ Single' /\ used' \in [Rare -> Nat]
    BY <1>3, Empties, RareCounts, NothingElse DEF SweepObjects, BestEffort, IInv, Rare
  <2> QED
    BY <1>3, <2>1, NothingElse, QuietKeeps DEF SweepObjects, RestTyped
<1> QED
  BY <1>1, <1>2, <1>3

LEMMA NextKeeps == IInv /\ [Next]_vars => IInv'
<1> SUFFICES ASSUME IInv, [Next]_vars PROVE IInv'
  OBVIOUS
<1>1. CASE \E c \in Tabs : Browser(c)
  BY <1>1, ChooseKeeps, ResumeKeeps, PutPartKeeps, PutLandsKeeps, GiveUpKeeps, CancelUploadKeeps
     DEF Browser
<1>2. CASE \E c \in Tabs : Request(c)
  BY <1>2, ReuploadBeginKeeps, DiscardPartsKeeps, DiscardObjectsKeeps, ReuploadCommitKeeps,
     StartReadKeeps, StartAbortKeeps, StartCreateKeeps, CompleteListKeeps, AssembleKeeps,
     MeasureKeeps, RefuseKeeps, QueueImportKeeps, RequestDiesKeeps DEF Request
<1>3. CASE \E i \in Imports : ImportStep(i)
  BY <1>3, ImportKeeps
<1>4. CASE \E u \in Uids : AgeOut(u)
  BY <1>4, AgeOutKeeps
<1>5. CASE DeleteProject \/ SweepParts \/ SweepObjects
  BY <1>5, DeletionKeeps
<1>6. CASE UNCHANGED vars
  <2>1. sweep \in {"no", "parts", "objects", "done"}
    BY DEF IInv, TypeOK
  <2> QED
    BY <1>6, <2>1, NothingElse, QuietKeeps DEF vars, RestTyped
<1> QED
  BY <1>1, <1>2, <1>3, <1>4, <1>5, <1>6 DEF Next

\* Every variable keeps its type: row, R2, localStorage, tabs and imports.
THEOREM UploadsTypeCorrect == Spec => []TypeOK
<1>1. Init => IInv
  BY Initially
<1>2. IInv /\ [Next]_vars => IInv'
  BY NextKeeps
<1>3. IInv => TypeOK
  BY DEF IInv
<1> QED
  BY <1>1, <1>2, <1>3, PTL DEF Spec

\* Whoever resumes whose upload, whatever clean-up fails and whichever request
\* dies halfway, an object in R2 is made of the parts of one file
\* (r2.complete_multipart, uploads.start_multipart, lib/upload.ts).
THEOREM ObjectsAreOfOneFile == Spec => []NeverStitched
<1>1. Init => IInv
  BY Initially
<1>2. IInv /\ [Next]_vars => IInv'
  BY NextKeeps
<1>3. IInv => NeverStitched
  <2>1. Cardinality({}) = 0 /\ \A f \in Files : Cardinality({f}) = 1
    BY FS_EmptySet, FS_Singleton
  <2>2. IInv => \A k \in Keys : Cardinality(objects[k]) \in {0, 1}
    BY <2>1 DEF IInv, Single
  <2> QED
    BY <2>2 DEF NeverStitched
<1> QED
  BY <1>1, <1>2, <1>3, PTL DEF Spec
-----------------------------------------------------------------------------
\* The video of an imported project.

\* The requests that hold the row's lock while they talk to R2.
Locking == {"discard", "clear", "swap", "refuse", "queue"}

LockKept ==
    /\ \A c \in Tabs : tabs[c].pc \in Locking => lock = c /\ row.exists
    /\ sweep # "no" => ~row.exists

\* No object landed late, no import lost its dedupe key.
NothingLate == used["late"] = 0

Orderly == KeysKept /\ NothingLate

\* A stored object that an import is about to read, or that was imported.
Needed == ActiveWithKey \/ row.video # NoVideo

Intact(k) == objects[k] # {} /\ Size(objects[k]) = row.declared

\* A live import has its dedupe key, and reads the object the row names.
Follows(j) ==
    /\ j.state \in {"queued", "running"} => j.keyed
    /\ j.pc # "no" => j.state = "running" /\ j.key = row.videoKey
    /\ j.pc = "save" => j.got = objects[j.key]

\* What a request has decided under the lock still holds when it acts.
Decides(t) ==
    /\ t.pc = "queue" => t.key # "none" /\ t.key = KeyToImport /\ Intact(t.key)
    /\ t.pc \in Locking \ {"queue"} => ~Needed

SourceHeld ==
    /\ row.videoKey = "none" <=> row.uploadKey # "none"
    /\ row.exists => /\ \A i \in Imports : Follows(imports[i])
                     /\ Needed => row.videoKey # "none" /\ Intact(row.videoKey)
                     /\ row.video # NoVideo => /\ row.video.key = row.videoKey
                                               /\ objects[row.videoKey] = row.video.file
    /\ row.video # NoVideo => Size(row.video.file) = row.declared
    /\ \A c \in Tabs : Decides(tabs[c])

SourceInv == IInv /\ LockKept /\ (Orderly => SourceHeld)
-----------------------------------------------------------------------------
LEMMA StaysOrderly ==
  ASSUME IInv
  PROVE  /\ UNCHANGED used /\ Orderly' => Orderly
         /\ \A r \in Rare : Happens(r) /\ Orderly' => Orderly /\ r \notin {"late", "unkey"}
         /\ \A k : Lands(k) /\ Orderly' => Orderly /\ ~Late(k)
<1>1. used \in [Rare -> Nat] /\ "late" \in Rare /\ "unkey" \in Rare
  BY DEF IInv, TypeOK, Rare
<1>2. ASSUME NEW r \in Rare, Happens(r), Orderly' PROVE Orderly /\ r \notin {"late", "unkey"}
  <2>1. used' = [used EXCEPT ![r] = used[r] + 1] /\ used[r] \in Nat
    BY <1>1, <1>2 DEF Happens
  <2>2. used'["late"] = 0 /\ used'["unkey"] = 0
    BY <1>2 DEF Orderly, NothingLate, KeysKept
  <2> QED
    BY <1>1, <2>1, <2>2 DEF Orderly, NothingLate, KeysKept
<1>3. UNCHANGED used /\ Orderly' => Orderly
  BY DEF Orderly, NothingLate, KeysKept
<1> QED
  BY <1>1, <1>2, <1>3 DEF Lands

\* A step of one tab beside the row, the objects and the imports.
LEMMA QuietTab ==
  ASSUME SourceInv, NEW c \in Tabs, NEW t, tabs' = [tabs EXCEPT ![c] = t],
         UNCHANGED <<row, objects, imports, sweep>>, Orderly' => Orderly,
         t.pc \in Locking => lock' = c /\ row.exists, Orderly => Decides(t),
         \A d \in Tabs : d # c /\ lock = d => lock' = d
  PROVE  LockKept' /\ (Orderly' => SourceHeld')
<1>1. tabs'[c] = t /\ \A d \in Tabs : d # c => tabs'[d] = tabs[d]
  BY DEF SourceInv, IInv, TypeOK
<1>2. LockKept'
  BY <1>1 DEF SourceInv, LockKept
<1>3. ASSUME Orderly' PROVE SourceHeld'
  <2>1. Orderly /\ SourceHeld
    BY <1>3 DEF SourceInv
  <2>2. \A u : Decides(u)' <=> Decides(u)
    BY DEF Decides, KeyToImport, Intact, Needed, ActiveWithKey
  <2>3. \A j : Follows(j)' <=> Follows(j)
    BY DEF Follows
  <2>4. \A d \in Tabs : Decides(tabs'[d])
    BY <1>1, <2>1 DEF SourceHeld
  <2> QED
    BY <2>1, <2>2, <2>3, <2>4 DEF SourceHeld, Needed, ActiveWithKey, Intact
<1> QED
  BY <1>2, <1>3

\* A step that concerns no tab and no import.
LEMMA QuietElsewhere ==
  ASSUME SourceInv, UNCHANGED <<row, lock, objects, tabs, imports>>, Orderly' => Orderly,
         sweep' = sweep \/ ~row.exists
  PROVE  LockKept' /\ (Orderly' => SourceHeld')
<1>1. LockKept'
  BY DEF SourceInv, LockKept
<1>2. ASSUME Orderly' PROVE SourceHeld'
  <2>1. Orderly /\ SourceHeld
    BY <1>2 DEF SourceInv
  <2>2. \A u : Decides(u)' <=> Decides(u)
    BY DEF Decides, KeyToImport, Intact, Needed, ActiveWithKey
  <2>3. \A j : Follows(j)' <=> Follows(j)
    BY DEF Follows
  <2> QED
    BY <2>1, <2>2, <2>3 DEF SourceHeld, Needed, ActiveWithKey, Intact
<1> QED
  BY <1>1, <1>2

\* A tab that holds no lock, and takes none.
LEMMA LooseTab ==
  ASSUME SourceInv, NEW c \in Tabs, NEW t, tabs' = [tabs EXCEPT ![c] = t],
         UNCHANGED <<row, objects, imports, sweep>>, Orderly' => Orderly,
         t.pc \notin Locking, lock' = lock \/ lock = c
  PROVE  LockKept' /\ (Orderly' => SourceHeld')
<1>1. Decides(t)
  BY DEF Decides, Locking
<1> QED
  BY <1>1, QuietTab

LEMMA LeavesQuietly ==
  ASSUME SourceInv, NEW c \in Tabs, Leave(c),
         UNCHANGED <<row, objects, imports, sweep>>, Orderly' => Orderly, lock' = lock \/ lock = c
  PROVE  LockKept' /\ (Orderly' => SourceHeld')
<1>1. IdleTab.pc \notin Locking
  BY DEF IdleTab, Locking
<1> QED
  BY <1>1, LooseTab DEF Leave

LEMMA GoesQuietly ==
  ASSUME SourceInv, NEW c \in Tabs, NEW p, Go(c, p), p \notin Locking,
         UNCHANGED <<row, objects, imports, sweep, lock>>, Orderly' => Orderly
  PROVE  LockKept' /\ (Orderly' => SourceHeld')
<1> DEFINE t == [tabs[c] EXCEPT !.pc = p]
<1>1. tabs[c] \in Tab
  BY DEF SourceInv, IInv, TypeOK
<1>2. t.pc = p /\ tabs' = [tabs EXCEPT ![c] = t]
  BY <1>1 DEF Tab, Go
<1> HIDE DEF t
<1> QED
  BY <1>2, LooseTab
-----------------------------------------------------------------------------
LEMMA ChooseSource ==
  ASSUME SourceInv, NEW c \in Tabs, NEW f \in Files, Choose(c, f)
  PROVE  LockKept' /\ (Orderly' => SourceHeld')
<1> DEFINE t == [IdleTab EXCEPT !.file = f, !.pc = IF SameFile(saved, f) THEN "plan" ELSE "ask"]
<1>1. t.pc \notin Locking
  BY DEF IdleTab, Locking
<1>2. tabs' = [tabs EXCEPT ![c] = t] /\ Happens("pick") /\ UNCHANGED <<row, lock, objects, imports, sweep>>
  BY DEF Choose
<1> HIDE DEF t
<1>3. Orderly' => Orderly
  BY <1>2, StaysOrderly DEF SourceInv, Rare
<1> QED
  BY <1>1, <1>2, <1>3, LooseTab

LEMMA BrowserSource ==
  ASSUME SourceInv, NEW c \in Tabs,
         (\E f \in Files : Choose(c, f)) \/ Resume(c) \/ GiveUp(c) \/ CancelUpload(c)
         \/ \E n \in Parts : PutPart(c, n)
  PROVE  LockKept' /\ (Orderly' => SourceHeld')
<1>0. tabs \in [Tabs -> Tab] /\ tabs = [tabs EXCEPT ![c] = tabs[c]] /\ tabs[c] \in Tab
  BY DEF SourceInv, IInv, TypeOK
<1>1. CASE \E f \in Files : Choose(c, f)
  BY <1>1, ChooseSource
<1>2. CASE Resume(c)
  <2>1. PICK t : tabs' = [tabs EXCEPT ![c] = t] /\ t.pc \notin Locking
    <3> DEFINE t == [tabs[c] EXCEPT !.pc = "parts", !.uid = saved.uid]
    <3>1. CASE row.exists /\ Open(saved.uid) /\ uploads[saved.uid].key = row.uploadKey
      <4>1. tabs' = [tabs EXCEPT ![c] = t] /\ t.pc = "parts"
        BY <1>0, <1>2, <3>1 DEF Resume, Tab
      <4> QED
        BY <4>1 DEF Locking
    <3>2. CASE tabs' = tabs
      BY <1>0, <1>2, <3>2 DEF Resume, Locking
    <3> QED
      BY <1>2, <3>1, <3>2 DEF Resume
  <2>2. Orderly' => Orderly
    BY <1>2, StaysOrderly DEF Resume, SourceInv
  <2> QED
    BY <1>2, <2>1, <2>2, LooseTab DEF Resume
<1>3. CASE GiveUp(c)
  <2>1. Orderly' => Orderly
    BY <1>3, StaysOrderly DEF GiveUp, SourceInv
  <2> QED
    BY <1>3, <2>1, LeavesQuietly DEF GiveUp
<1>4. CASE CancelUpload(c)
  <2>1. Orderly' => Orderly
    BY <1>4, StaysOrderly DEF CancelUpload, SourceInv
  <2> QED
    BY <1>4, <2>1, LeavesQuietly DEF CancelUpload
<1>5. CASE \E n \in Parts : PutPart(c, n)
  <2>1. UNCHANGED <<row, lock, objects, tabs, imports, sweep, used>>
    BY <1>5 DEF PutPart
  <2>2. Orderly' => Orderly
    BY <2>1, StaysOrderly DEF SourceInv
  <2> QED
    BY <2>1, <2>2, QuietElsewhere
<1> QED
  BY <1>1, <1>2, <1>3, <1>4, <1>5

\* The steps of start_multipart, and the check of R2's list.
LEMMA StartSource ==
  ASSUME SourceInv, NEW c \in Tabs,
         StartRead(c) \/ StartAbort(c) \/ StartCreate(c) \/ CompleteList(c)
  PROVE  LockKept' /\ (Orderly' => SourceHeld')
<1>0. tabs \in [Tabs -> Tab] /\ tabs[c] \in Tab /\ IdleTab.pc \notin Locking
  BY DEF SourceInv, IInv, TypeOK, IdleTab, Locking
<1>1. CASE StartRead(c)
  <2> DEFINE a == [tabs[c] EXCEPT !.pc = IF tabs[c].key = "none" THEN "ask" ELSE "put",
                                  !.key = IF @ = "none" THEN row.uploadKey ELSE @]
             b == [tabs[c] EXCEPT !.pc = "abort", !.key = row.uploadKey]
  <2>1. a.pc \notin Locking /\ b.pc \notin Locking
    BY <1>0 DEF Tab, Locking
  <2> HIDE DEF a, b
  <2>2. PICK t \in {IdleTab, a, b} : tabs' = [tabs EXCEPT ![c] = t]
    BY <1>1, Zenon DEF StartRead, a, b
  <2>3. Orderly' => Orderly
    BY <1>1, StaysOrderly DEF StartRead, SourceInv
  <2>4. t.pc \notin Locking
    BY <1>0, <2>1, <2>2
  <2> QED
    BY <1>1, <2>2, <2>3, <2>4, LooseTab DEF StartRead
<1>2. CASE StartAbort(c)
  <2>1. Orderly' => Orderly
    BY <1>2, StaysOrderly DEF StartAbort, BestEffort, SourceInv, Rare
  <2> QED
    BY <1>2, <2>1, GoesQuietly DEF StartAbort, Locking
<1>3. CASE StartCreate(c)
  <2>1. PICK u \in Uids : tabs' = [tabs EXCEPT ![c].pc = "parts", ![c].uid = u]
    BY <1>3 DEF StartCreate
  <2> DEFINE t == [tabs[c] EXCEPT !.pc = "parts", !.uid = u]
  <2>2. t.pc \notin Locking /\ tabs' = [tabs EXCEPT ![c] = t]
    BY <1>0, <2>1 DEF Tab, Locking
  <2> HIDE DEF t
  <2>3. Orderly' => Orderly
    BY <1>3, StaysOrderly DEF StartCreate, SourceInv
  <2> QED
    BY <1>3, <2>2, <2>3, LooseTab DEF StartCreate
<1>4. CASE CompleteList(c)
  <2> DEFINE a == [tabs[c] EXCEPT !.pc = "assemble", !.key = row.uploadKey]
  <2>1. a.pc \notin Locking
    BY <1>0 DEF Tab, Locking
  <2> HIDE DEF a
  <2>2. PICK t \in {IdleTab, a} : tabs' = [tabs EXCEPT ![c] = t]
    BY <1>4, Zenon DEF CompleteList, a
  <2>3. Orderly' => Orderly
    BY <1>4, StaysOrderly DEF CompleteList, SourceInv
  <2> QED
    BY <1>0, <1>4, <2>1, <2>2, <2>3, LooseTab DEF CompleteList
<1> QED
  BY <1>1, <1>2, <1>3, <1>4

\* Upload again: the lock is taken, and R2's parts go.
LEMMA ReuploadSource ==
  ASSUME SourceInv, NEW c \in Tabs, ReuploadBegin(c) \/ DiscardParts(c) \/ RequestDies(c)
  PROVE  LockKept' /\ (Orderly' => SourceHeld')
<1>0. tabs \in [Tabs -> Tab] /\ tabs[c] \in Tab
  BY DEF SourceInv, IInv, TypeOK
<1>1. CASE ReuploadBegin(c) /\ row.exists /\ Reuploadable
  <2> DEFINE t == [tabs[c] EXCEPT !.pc = "discard"]
  <2>1. t.pc = "discard" /\ tabs' = [tabs EXCEPT ![c] = t] /\ lock = "none" /\ lock' = c
    BY <1>0, <1>1 DEF ReuploadBegin, Go, Tab
  <2> HIDE DEF t
  <2>2. Decides(t)
    BY <1>1, <2>1 DEF Decides, Reuploadable, Needed
  <2>3. Orderly' => Orderly
    BY <1>1, StaysOrderly DEF ReuploadBegin, SourceInv
  <2> QED
    BY <1>1, <2>1, <2>2, <2>3, QuietTab, NoneIsNothing DEF ReuploadBegin
<1>2. CASE ReuploadBegin(c) /\ ~(row.exists /\ Reuploadable)
  <2>1. Orderly' => Orderly
    BY <1>2, StaysOrderly DEF ReuploadBegin, SourceInv
  <2> QED
    BY <1>2, <2>1, LeavesQuietly DEF ReuploadBegin
<1>3. CASE DiscardParts(c)
  <2> DEFINE t == [tabs[c] EXCEPT !.pc = "clear"]
  <2>1. t.pc = "clear" /\ tabs' = [tabs EXCEPT ![c] = t] /\ lock = c /\ row.exists
    BY <1>0, <1>3 DEF DiscardParts, Go, Tab, SourceInv, LockKept, Locking
  <2> HIDE DEF t
  <2>2. Orderly => Decides(tabs[c])
    BY DEF SourceInv, SourceHeld
  <2>3. Orderly => Decides(t)
    BY <1>3, <2>1, <2>2 DEF Decides, Locking, DiscardParts
  <2>4. Orderly' => Orderly
    BY <1>3, StaysOrderly DEF DiscardParts, BestEffort, SourceInv, Rare
  <2> QED
    BY <1>3, <2>1, <2>3, <2>4, QuietTab DEF DiscardParts
<1>4. CASE RequestDies(c)
  <2>1. Orderly' => Orderly
    BY <1>4, StaysOrderly DEF RequestDies, SourceInv, Rare
  <2> QED
    BY <1>4, <2>1, LeavesQuietly DEF RequestDies
<1> QED
  BY <1>1, <1>2, <1>3, <1>4

\* What is measured under the lock is what the row asks for.
LEMMA MeasureSource ==
  ASSUME SourceInv, NEW c \in Tabs, Measure(c)
  PROVE  LockKept' /\ (Orderly' => SourceHeld')
<1>0. tabs \in [Tabs -> Tab] /\ tabs[c] \in Tab
  BY DEF SourceInv, IInv, TypeOK
<1>1. Orderly' => Orderly
  BY StaysOrderly DEF Measure, SourceInv
<1>2. CASE row.exists /\ KeyToImport # "none" /\ objects[KeyToImport] # {}
  <2> DEFINE p == IF UploadRefusal(objects[KeyToImport]) THEN "refuse" ELSE "queue"
             t == [tabs[c] EXCEPT !.pc = p, !.key = KeyToImport]
  <2>1. /\ tabs' = [tabs EXCEPT ![c] = t] /\ lock = "none" /\ lock' = c
        /\ UNCHANGED <<row, objects, imports, sweep>>
    BY <1>2 DEF Measure
  <2>2. t.pc = p /\ t.key = KeyToImport
    BY <1>0 DEF Tab
  <2> HIDE DEF t
  <2>3. Orderly => Decides(t)
    <3>1. CASE UploadRefusal(objects[KeyToImport])
      <4>1. ~Intact(KeyToImport)
        BY <3>1 DEF UploadRefusal, Intact
      <4>2. Orderly => ~Needed
        BY <1>2, <4>1 DEF SourceInv, SourceHeld, KeyToImport
      <4> QED
        BY <2>2, <3>1, <4>2 DEF Decides
    <3>2. CASE ~UploadRefusal(objects[KeyToImport])
      BY <1>2, <2>2, <3>2 DEF Decides, UploadRefusal, Intact, Locking
    <3> QED
      BY <3>1, <3>2
  <2> QED
    BY <1>1, <1>2, <2>1, <2>3, QuietTab, NoneIsNothing
<1>3. CASE Leave(c) /\ UNCHANGED lock
  BY <1>1, <1>3, LeavesQuietly DEF Measure
<1> QED
  BY <1>2, <1>3 DEF Measure
-----------------------------------------------------------------------------
\* The objects change only while none of them is needed, but for late ones.
LEMMA ObjectStep ==
  ASSUME SourceInv, NEW c \in Tabs, NEW t, tabs' = [tabs EXCEPT ![c] = t],
         UNCHANGED <<row, imports, sweep>>, Orderly' => Orderly,
         t.pc \in Locking => lock' = c /\ row.exists, t.pc # "queue",
         \A d \in Tabs : d # c /\ lock = d => lock' = d,
         Orderly' => ~Needed /\ \A d \in Tabs : d # c => tabs[d].pc # "queue"
  PROVE  LockKept' /\ (Orderly' => SourceHeld')
<1>1. tabs'[c] = t /\ \A d \in Tabs : d # c => tabs'[d] = tabs[d]
  BY DEF SourceInv, IInv, TypeOK
<1>2. LockKept'
  BY <1>1 DEF SourceInv, LockKept
<1>3. ASSUME Orderly' PROVE SourceHeld'
  <2>1. Orderly /\ SourceHeld /\ ~Needed /\ ~Needed'
    BY <1>3 DEF SourceInv, Needed, ActiveWithKey
  <2>2. \A d \in Tabs : Decides(tabs[d])'
    BY <1>1, <1>3, <2>1 DEF Decides
  <2>3. row.exists => \A i \in Imports : /\ imports[i].state \in {"queued", "running"} => imports[i].keyed
                                         /\ imports[i].pc = "no"
    BY <2>1 DEF SourceHeld, Follows, Needed, ActiveWithKey
  <2>4. row.exists => \A i \in Imports : Follows(imports[i])'
    BY <2>3 DEF Follows
  <2> QED
    BY <2>1, <2>2, <2>4 DEF SourceHeld, Needed
<1> QED
  BY <1>2, <1>3

\* An object lands that is not late: the project waits for it.
LEMMA LandingSource ==
  ASSUME SourceInv, NEW c \in Tabs, NEW o, Lands(tabs[c].key),
         objects' = [objects EXCEPT ![tabs[c].key] = o],
         tabs[c].pc \in {"put", "assemble"}, Go(c, "done") \/ Leave(c),
         UNCHANGED <<row, lock, imports, sweep>>
  PROVE  LockKept' /\ (Orderly' => SourceHeld')
<1> DEFINE k == tabs[c].key
<1>1. tabs \in [Tabs -> Tab] /\ tabs[c] \in Tab /\ k \in Keys \cup {"none"} /\ objects \in [Keys -> SUBSET Files]
  BY DEF SourceInv, IInv, TypeOK, Tab
<1>2. PICK t : tabs' = [tabs EXCEPT ![c] = t] /\ t.pc \in {"done", "idle"}
  <2> DEFINE t == [tabs[c] EXCEPT !.pc = "done"]
  <2>1. t.pc = "done"
    BY <1>1 DEF Tab
  <2>2. CASE Go(c, "done")
    <3>1. tabs' = [tabs EXCEPT ![c] = t]
      BY <2>2 DEF Go
    <3> HIDE DEF t
    <3> QED
      BY <2>1, <3>1
  <2>3. CASE Leave(c)
    BY <2>3, IdleTyped DEF Leave
  <2> QED
    BY <2>2, <2>3
<1>3. t.pc \notin Locking /\ t.pc # "queue"
  BY <1>2 DEF Locking
<1>4. Orderly' => Orderly /\ ~Late(k)
  BY StaysOrderly DEF SourceInv
<1>5. CASE k = "none"
  <2>1. UNCHANGED objects
    BY <1>1, <1>5, NoneIsNothing
  <2> QED
    BY <1>2, <1>3, <1>4, <2>1, LooseTab
<1>6. CASE k \in Keys
  <2>1. Orderly' => /\ row.exists /\ row.uploadKey = k
                    /\ \A d \in Tabs : tabs[d].pc # "queue"
    BY <1>4 DEF Late
  <2>2. Orderly' => ~Needed
    BY <1>4, <1>6, <2>1, NoneIsNothing DEF SourceInv, SourceHeld
  <2> QED
    BY <1>2, <1>3, <1>4, <2>1, <2>2, ObjectStep
<1> QED
  BY <1>1, <1>5, <1>6

LEMMA UploadedSource ==
  ASSUME SourceInv, NEW c \in Tabs, PutLands(c) \/ Assemble(c)
  PROVE  LockKept' /\ (Orderly' => SourceHeld')
<1>1. CASE PutLands(c)
  BY <1>1, LandingSource DEF PutLands
<1>2. CASE Assemble(c) /\ Open(tabs[c].uid)
  <2> DEFINE o == {uploads[tabs[c].uid].parts[n] : n \in Parts}
  <2>1. /\ tabs[c].pc = "assemble" /\ Lands(tabs[c].key)
        /\ objects' = [objects EXCEPT ![tabs[c].key] = o] /\ UNCHANGED <<row, lock, imports, sweep>>
    BY <1>2 DEF Assemble
  <2> HIDE DEF o
  <2>2. Go(c, "done") \/ Leave(c)
    BY <1>2 DEF Assemble
  <2> QED
    BY <2>1, <2>2, LandingSource
<1>3. CASE Assemble(c) /\ ~Open(tabs[c].uid)
  <2>1. Orderly' => Orderly
    BY <1>3, StaysOrderly DEF Assemble, SourceInv
  <2> QED
    BY <1>3, <2>1, LeavesQuietly DEF Assemble
<1> QED
  BY <1>1, <1>2, <1>3

LEMMA ThrownSource ==
  ASSUME SourceInv, NEW c \in Tabs, DiscardObjects(c) \/ Refuse(c)
  PROVE  LockKept' /\ (Orderly' => SourceHeld')
<1>0. tabs \in [Tabs -> Tab] /\ tabs[c] \in Tab
  BY DEF SourceInv, IInv, TypeOK
<1>1. lock = c /\ row.exists /\ \A d \in Tabs : d # c => tabs[d].pc # "queue"
  BY DEF SourceInv, LockKept, Locking, DiscardObjects, Refuse
<1>2. Orderly' => Orderly
  BY StaysOrderly DEF DiscardObjects, Refuse, BestEffort, SourceInv, Rare
<1>3. Orderly => ~Needed
  BY DEF SourceInv, SourceHeld, Decides, Locking, DiscardObjects, Refuse
<1>4. UNCHANGED <<row, imports, sweep>> /\ \A d \in Tabs : d # c => lock # d
  BY <1>1 DEF DiscardObjects, Refuse
<1>5. CASE DiscardObjects(c)
  <2> DEFINE t == [tabs[c] EXCEPT !.pc = "swap"]
  <2>1. t.pc = "swap" /\ tabs' = [tabs EXCEPT ![c] = t] /\ lock' = lock
    BY <1>0, <1>5 DEF DiscardObjects, Go, Tab
  <2> HIDE DEF t
  <2> QED
    BY <1>1, <1>2, <1>3, <1>4, <2>1, ObjectStep
<1>6. CASE Refuse(c)
  <2>1. tabs' = [tabs EXCEPT ![c] = IdleTab] /\ IdleTab.pc \notin Locking /\ IdleTab.pc # "queue"
    BY <1>6 DEF Refuse, Leave, IdleTab, Locking
  <2> QED
    BY <1>1, <1>2, <1>3, <1>4, <2>1, ObjectStep
<1> QED
  BY <1>5, <1>6

LEMMA SweepSource ==
  ASSUME SourceInv, SweepParts \/ SweepObjects
  PROVE  LockKept' /\ (Orderly' => SourceHeld')
<1>1. UNCHANGED <<row, lock, tabs, imports>> /\ sweep \in {"parts", "objects"} /\ sweep' # "no"
  BY DEF SweepParts, SweepObjects
<1>2. Orderly' => Orderly
  BY StaysOrderly DEF SweepParts, SweepObjects, BestEffort, SourceInv, Rare
<1>3. ~row.exists /\ \A d \in Tabs : tabs[d].pc \notin Locking
  BY <1>1 DEF SourceInv, LockKept
<1>4. LockKept'
  BY <1>1, <1>3 DEF LockKept
<1>5. \A d \in Tabs : Decides(tabs[d])'
  BY <1>1, <1>3 DEF Decides, Locking
<1> QED
  BY <1>1, <1>2, <1>3, <1>4, <1>5 DEF SourceInv, SourceHeld
-----------------------------------------------------------------------------
\* The steps that change the row or an import.
LEMMA CommitSource ==
  ASSUME SourceInv, NEW c \in Tabs, ReuploadCommit(c)
  PROVE  LockKept' /\ (Orderly' => SourceHeld')
<1> DEFINE f == tabs[c].file
           t == [tabs[c] EXCEPT !.pc = IF tabs[c].key = "none" THEN "plan" ELSE "put", !.key = KeyOf[f]]
<1>1. /\ tabs[c] \in Tab /\ f \in Files /\ KeyOf[f] \in Keys /\ row \in Row /\ tabs \in [Tabs -> Tab]
      /\ lock = c /\ row.exists /\ \A d \in Tabs : d # c => tabs[d].pc \notin Locking
  BY NoneIsNothing DEF SourceInv, IInv, TypeOK, Chosen, LockKept, Locking, ReuploadCommit
<1>2. /\ UNCHANGED <<objects, imports, sweep, used>> /\ tabs' = [tabs EXCEPT ![c] = t]
      /\ row' = [row EXCEPT !.videoKey = "none", !.uploadKey = KeyOf[f], !.declared = SizeOf[f]]
  BY DEF ReuploadCommit, Pending
<1>3. t.pc \notin Locking
  BY <1>1 DEF Tab, Locking
<1> HIDE DEF t, f
<1>4. row'.exists = row.exists /\ row'.video = row.video /\ row'.videoKey = "none" /\ row'.uploadKey # "none"
  BY <1>1, <1>2, NoneIsNothing DEF Row
<1>5. \A d \in Tabs : tabs'[d].pc \notin Locking
  BY <1>1, <1>2, <1>3
<1>6. LockKept'
  BY <1>2, <1>4, <1>5 DEF SourceInv, LockKept
<1>7. ASSUME Orderly' PROVE SourceHeld'
  <2>1. Orderly /\ SourceHeld
    BY <1>2, <1>7, StaysOrderly DEF SourceInv
  <2>2. ~Needed
    BY <2>1 DEF SourceHeld, Decides, Locking, ReuploadCommit
  <2>3. ~Needed' /\ ~(row'.video # NoVideo)
    BY <1>2, <1>4, <2>2 DEF Needed, ActiveWithKey
  <2>4. \A d \in Tabs : Decides(tabs[d])'
    BY <1>5 DEF Decides, Locking
  <2>5. \A i \in Imports : Follows(imports[i])'
    BY <1>1, <1>2, <2>1, <2>2 DEF SourceHeld, Follows, Needed, ActiveWithKey
  <2> QED
    BY <1>4, <2>3, <2>4, <2>5 DEF SourceHeld
<1> QED
  BY <1>6, <1>7

\* The import that is queued reads what was measured.
LEMMA QueueSource ==
  ASSUME SourceInv, NEW c \in Tabs, QueueImport(c)
  PROVE  LockKept' /\ (Orderly' => SourceHeld')
<1> DEFINE k == tabs[c].key
<1>1. /\ tabs[c] \in Tab /\ row \in Row /\ tabs \in [Tabs -> Tab] /\ imports \in [Imports -> Import]
      /\ lock = c /\ row.exists /\ \A d \in Tabs : d # c => tabs[d].pc \notin Locking
  BY DEF SourceInv, IInv, TypeOK, LockKept, Locking, QueueImport
<1>2. /\ UNCHANGED <<objects, sweep, used>> /\ tabs' = [tabs EXCEPT ![c] = IdleTab]
      /\ row' = [row EXCEPT !.videoKey = k, !.uploadKey = "none"]
  BY DEF QueueImport, Leave
<1>3. /\ row'.exists = row.exists /\ row'.video = row.video /\ row'.declared = row.declared
      /\ row'.videoKey = k /\ row'.uploadKey = "none"
  BY <1>1, <1>2 DEF Row
<1>4. \A d \in Tabs : tabs'[d].pc \notin Locking
  BY <1>1, <1>2 DEF IdleTab, Locking
<1>5. LockKept'
  BY <1>2, <1>3, <1>4 DEF SourceInv, LockKept
<1>6. ASSUME Orderly' PROVE SourceHeld'
  <2>1. Orderly /\ SourceHeld
    BY <1>2, <1>6, StaysOrderly DEF SourceInv
  <2>2. k # "none" /\ k = KeyToImport /\ Intact(k)
    BY <2>1 DEF SourceHeld, Decides, QueueImport
  <2>3. Needed => k = row.videoKey
    BY <1>1, <2>1, <2>2 DEF SourceHeld, KeyToImport
  <2>4. Intact(row.videoKey)'
    BY <1>2, <1>3, <2>2 DEF Intact
  <2>5. \A d \in Tabs : Decides(tabs[d])'
    BY <1>4 DEF Decides, Locking
  <2>6. \A i \in Imports : imports'[i] = imports[i]
                           \/ (imports[i].pc = "no" /\ imports'[i].pc = "no" /\ imports'[i].keyed)
    <3>1. CASE ActiveWithKey
      BY <3>1 DEF QueueImport
    <3>2. CASE ~ActiveWithKey
      <4>1. PICK i \in Imports : /\ imports[i].state = "new"
                                 /\ imports' = [imports EXCEPT ![i].state = "queued", ![i].keyed = TRUE]
        BY <3>2 DEF QueueImport
      <4> DEFINE j == [imports[i] EXCEPT !.state = "queued", !.keyed = TRUE]
      <4>2. imports' = [imports EXCEPT ![i] = j] /\ j.keyed /\ j.pc = imports[i].pc
        BY <1>1, <4>1 DEF Import
      <4>3. imports[i].pc = "no"
        BY <1>1, <2>1, <4>1 DEF SourceHeld, Follows
      <4> HIDE DEF j
      <4> QED
        BY <1>1, <4>2, <4>3
    <3> QED
      BY <3>1, <3>2
  <2>7. \A i \in Imports : imports[i].pc # "no" => Needed
    BY <1>1, <2>1 DEF SourceHeld, Follows, Needed, ActiveWithKey
  <2>8. \A i \in Imports : Follows(imports[i])'
    BY <1>1, <1>2, <1>3, <2>1, <2>3, <2>6, <2>7 DEF SourceHeld, Follows
  <2>9. row'.video # NoVideo => row'.video.key = k /\ objects'[k] = row'.video.file
                                /\ Size(row'.video.file) = row'.declared
    BY <1>1, <1>2, <1>3, <2>1, <2>3 DEF SourceHeld, Needed
  <2> QED
    BY <1>3, <2>2, <2>4, <2>5, <2>8, <2>9 DEF SourceHeld, Needed
<1> QED
  BY <1>5, <1>6

\* An import step beside the row: it takes no dedupe key, and ends in order.
LEMMA ImportStepSource ==
  ASSUME SourceInv, NEW i \in Imports, NEW j, imports' = [imports EXCEPT ![i] = j],
         UNCHANGED <<row, lock, objects, tabs, sweep, used>>,
         j.keyed => imports[i].keyed, Orderly /\ row.exists => Follows(j)
  PROVE  LockKept' /\ (Orderly' => SourceHeld')
<1>1. imports'[i] = j /\ \A n \in Imports : n # i => imports'[n] = imports[n]
  BY DEF SourceInv, IInv, TypeOK
<1>2. LockKept'
  BY DEF SourceInv, LockKept
<1>3. ASSUME Orderly' PROVE SourceHeld'
  <2>1. Orderly /\ SourceHeld
    BY <1>3, StaysOrderly DEF SourceInv
  <2>2. Needed' => Needed
    BY <1>1 DEF Needed, ActiveWithKey
  <2>3. \A d \in Tabs : Decides(tabs[d])'
    BY <2>1, <2>2 DEF SourceHeld, Decides, KeyToImport, Intact
  <2>4. \A n : Follows(n)' <=> Follows(n)
    BY DEF Follows
  <2>5. row.exists => \A n \in Imports : Follows(imports'[n])
    BY <1>1, <2>1 DEF SourceHeld
  <2>6. row.exists => \A n \in Imports : Follows(imports[n])'
    BY <2>5 DEF Follows
  <2> QED
    BY <2>1, <2>2, <2>3, <2>6 DEF SourceHeld, Intact
<1> QED
  BY <1>2, <1>3

LEMMA VerdictSource ==
  ASSUME SourceInv, NEW i \in Imports, NEW state \in {"queued", "done", "failed"}, Verdict(i, state),
         imports[i].pc # "no", UNCHANGED <<row, lock, objects, tabs, sweep, used>>
  PROVE  LockKept' /\ (Orderly' => SourceHeld')
<1> DEFINE j == [imports[i] EXCEPT !.pc = "no",
                   !.state = IF @ = "running" THEN state ELSE @,
                   !.keyed = @ /\ (imports[i].state = "running" => state = "queued"),
                   !.key = "none", !.got = {}]
<1>1. imports[i] \in Import /\ imports' = [imports EXCEPT ![i] = j]
  BY DEF Verdict, SourceInv, IInv, TypeOK
<1>2. /\ j.pc = "no" /\ j.state = (IF imports[i].state = "running" THEN state ELSE imports[i].state)
      /\ j.keyed <=> (imports[i].keyed /\ (imports[i].state = "running" => state = "queued"))
  BY <1>1 DEF Import
<1>3. Orderly /\ row.exists => Follows(imports[i])
  BY DEF SourceInv, SourceHeld
<1> HIDE DEF j
<1>4. Orderly /\ row.exists => Follows(j)
  BY <1>2, <1>3 DEF Follows
<1> QED
  BY <1>1, <1>2, <1>4, ImportStepSource
LEMMA ImportSource ==
  ASSUME SourceInv, NEW i \in Imports, ImportStart(i) \/ ImportFetch(i) \/ ImportEnds(i) \/ ImportFails(i)
  PROVE  LockKept' /\ (Orderly' => SourceHeld')
<1>1. imports[i] \in Import
  BY DEF SourceInv, IInv, TypeOK
<1>2. Orderly /\ row.exists => Follows(imports[i])
  BY DEF SourceInv, SourceHeld
<1>3. CASE ImportStart(i)
  <2> DEFINE j == [imports[i] EXCEPT !.state = "running", !.pc = "fetch", !.key = row.videoKey]
  <2>1. imports' = [imports EXCEPT ![i] = j] /\ UNCHANGED <<row, lock, objects, tabs, sweep, used>>
    BY <1>3 DEF ImportStart
  <2>2. /\ j.state = "running" /\ j.pc = "fetch" /\ j.key = row.videoKey /\ j.keyed = imports[i].keyed
        /\ imports[i].state = "queued"
    BY <1>1, <1>3 DEF ImportStart, Import
  <2> HIDE DEF j
  <2>3. Orderly /\ row.exists => Follows(j)
    BY <1>2, <2>2 DEF Follows
  <2> QED
    BY <2>1, <2>2, <2>3, ImportStepSource
<1>4. CASE ImportFetch(i)
  <2> DEFINE j == [imports[i] EXCEPT !.pc = "save", !.got = objects[imports[i].key]]
  <2>1. imports' = [imports EXCEPT ![i] = j] /\ UNCHANGED <<row, lock, objects, tabs, sweep, used>>
    BY <1>4 DEF ImportFetch
  <2>2. /\ j.state = imports[i].state /\ j.pc = "save" /\ j.key = imports[i].key /\ j.keyed = imports[i].keyed
        /\ j.got = objects[j.key] /\ imports[i].pc = "fetch"
    BY <1>1, <1>4 DEF ImportFetch, Import
  <2> HIDE DEF j
  <2>3. Orderly /\ row.exists => Follows(j)
    BY <1>2, <2>2 DEF Follows
  <2> QED
    BY <2>1, <2>2, <2>3, ImportStepSource
<1>5. CASE ImportEnds(i)
  BY <1>5, VerdictSource DEF ImportEnds
<1>6. CASE ImportFails(i)
  BY <1>6, VerdictSource DEF ImportFails
<1> QED
  BY <1>3, <1>4, <1>5, <1>6

\* What is imported is what is stored, and what the video is already.
LEMMA SaveSource ==
  ASSUME SourceInv, NEW i \in Imports, ImportSave(i)
  PROVE  /\ LockKept' /\ (Orderly' => SourceHeld')
         /\ Orderly /\ row.video # NoVideo => row'.video = row.video
<1> DEFINE v == [key |-> imports[i].key, file |-> imports[i].got]
           j == [imports[i] EXCEPT !.pc = "end"]
<1>1. /\ imports \in [Imports -> Import] /\ row \in Row /\ imports[i] \in Import
      /\ \A c \in Tabs : tabs[c].pc \notin Locking
  BY NoneIsNothing DEF SourceInv, IInv, TypeOK, LockKept, ImportSave
<1>2. /\ row' = [row EXCEPT !.video = v] /\ imports' = [imports EXCEPT ![i] = j]
      /\ UNCHANGED <<lock, objects, tabs, sweep, used>> /\ row.exists /\ imports[i].pc = "save"
  BY DEF ImportSave
<1>3. /\ row'.exists /\ row'.video = v /\ row'.declared = row.declared
      /\ row'.videoKey = row.videoKey /\ row'.uploadKey = row.uploadKey
  BY <1>1, <1>2 DEF Row
<1>4. /\ j.pc = "end" /\ j.state = imports[i].state /\ j.keyed = imports[i].keyed /\ j.key = imports[i].key
      /\ imports'[i] = j /\ \A n \in Imports : n # i => imports'[n] = imports[n]
  BY <1>1, <1>2 DEF Import
<1>5. LockKept'
  BY <1>1, <1>2, <1>3 DEF SourceInv, LockKept
<1>6. ASSUME Orderly
      PROVE  /\ imports[i].key = row.videoKey /\ imports[i].got = objects[row.videoKey]
             /\ row.videoKey # "none" /\ Intact(row.videoKey)
             /\ row.video # NoVideo => row.video.key = row.videoKey /\ row.video.file = objects[row.videoKey]
  <2>1. Follows(imports[i]) /\ SourceHeld
    BY <1>2, <1>6 DEF SourceInv, SourceHeld
  <2>2. Needed
    BY <1>2, <2>1 DEF Follows, Needed, ActiveWithKey
  <2> QED
    BY <1>2, <2>1, <2>2 DEF Follows, SourceHeld
<1>7. Orderly /\ row.video # NoVideo => row'.video = row.video
  <2>1. row.video \in [key : Keys \cup {"none"}, file : SUBSET Files]
    BY <1>1 DEF Row
  <2> QED
    BY <1>3, <1>6, <2>1
<1> HIDE DEF j
<1>8. ASSUME Orderly' PROVE SourceHeld'
  <2>1. Orderly /\ SourceHeld
    BY <1>2, <1>8, StaysOrderly DEF SourceInv
  <2>2. v.key = row.videoKey /\ v.file = objects[row.videoKey]
    BY <1>6, <2>1
  <2>3. \A d \in Tabs : Decides(tabs[d])'
    BY <1>1, <1>2 DEF Decides, Locking
  <2>4. \A n \in Imports : Follows(imports[n])'
    BY <1>2, <1>3, <1>4, <2>1 DEF SourceHeld, Follows
  <2>5. Intact(row.videoKey)' /\ Size(v.file) = row.declared
    BY <1>2, <1>3, <1>6, <2>1, <2>2 DEF Intact
  <2> HIDE DEF v
  <2> QED
    BY <1>2, <1>3, <1>6, <2>1, <2>2, <2>3, <2>4, <2>5 DEF SourceHeld
<1> QED
  BY <1>5, <1>7, <1>8

LEMMA DeleteSource ==
  ASSUME SourceInv, DeleteProject
  PROVE  LockKept' /\ (Orderly' => SourceHeld')
<1>1. /\ row' = [row EXCEPT !.exists = FALSE] /\ UNCHANGED <<lock, objects, tabs>>
      /\ lock = "none" /\ Happens("delete")
  BY Zenon DEF DeleteProject
<1>2. row \in Row /\ \A c \in Tabs : tabs[c].pc \notin Locking
  BY <1>1, NoneIsNothing DEF SourceInv, IInv, TypeOK, LockKept
<1>3. /\ ~row'.exists /\ row'.video = row.video /\ row'.declared = row.declared
      /\ row'.videoKey = row.videoKey /\ row'.uploadKey = row.uploadKey
  BY <1>1, <1>2 DEF Row
<1>4. Orderly' => Orderly
  BY <1>1, StaysOrderly DEF SourceInv, Rare
<1>5. \A d \in Tabs : Decides(tabs[d])'
  BY <1>1, <1>2 DEF Decides, Locking
<1> QED
  BY <1>1, <1>2, <1>3, <1>4, <1>5 DEF SourceInv, SourceHeld, LockKept

LEMMA DisorderSource ==
  ASSUME SourceInv, NEW i \in Imports, Disown(i) \/ RetryImport(i)
  PROVE  LockKept' /\ ~Orderly'
<1>1. UNCHANGED <<row, lock, tabs, sweep>>
  BY DEF Disown, RetryImport
<1>2. Happens("unkey")
  BY DEF Disown, RetryImport
<1> QED
  BY <1>1, <1>2, StaysOrderly DEF SourceInv, LockKept, Rare

LEMMA SourceInitially == Init => SourceInv
<1> SUFFICES ASSUME Init PROVE SourceInv
  OBVIOUS
<1>1. \A c \in Tabs : tabs[c].pc \notin Locking
  BY DEF Init, IdleTab, Locking
<1>2. /\ row.videoKey = "none" /\ row.uploadKey # "none" /\ row.video = NoVideo /\ sweep = "no"
      /\ \A i \in Imports : /\ imports[i].state = "new" /\ ~imports[i].keyed
                            /\ imports[i].pc = "no"
  BY NoneIsNothing DEF Init
<1>3. ~Needed
  BY <1>2 DEF Needed, ActiveWithKey
<1>4. \A c \in Tabs : Decides(tabs[c])
  BY <1>1 DEF Decides, Locking
<1>5. \A i \in Imports : Follows(imports[i])
  BY <1>2 DEF Follows
<1> QED
  BY <1>1, <1>2, <1>3, <1>4, <1>5, Initially DEF SourceInv, LockKept, SourceHeld

LEMMA SourceNext == SourceInv /\ [Next]_vars => SourceInv'
<1> SUFFICES ASSUME SourceInv, [Next]_vars PROVE LockKept' /\ (Orderly' => SourceHeld')
  BY NextKeeps DEF SourceInv
<1>1. CASE \E c \in Tabs : Browser(c)
  BY <1>1, BrowserSource, UploadedSource DEF Browser
<1>2. CASE \E c \in Tabs : Request(c)
  BY <1>2, ReuploadSource, ThrownSource, CommitSource, StartSource, UploadedSource, MeasureSource,
     QueueSource DEF Request
<1>3. CASE \E i \in Imports : ImportStep(i)
  BY <1>3, ImportSource, SaveSource, DisorderSource DEF ImportStep
<1>4. CASE \E u \in Uids : AgeOut(u)
  <2>1. UNCHANGED <<row, lock, objects, tabs, imports, sweep, used>>
    BY <1>4 DEF AgeOut
  <2> QED
    BY <2>1, StaysOrderly, QuietElsewhere DEF SourceInv
<1>5. CASE DeleteProject \/ SweepParts \/ SweepObjects
  BY <1>5, DeleteSource, SweepSource
<1>6. CASE UNCHANGED vars
  <2>1. UNCHANGED <<row, lock, objects, tabs, imports, sweep, used>>
    BY <1>6 DEF vars
  <2> QED
    BY <2>1, StaysOrderly, QuietElsewhere DEF SourceInv
<1> QED
  BY <1>1, <1>2, <1>3, <1>4, <1>5, <1>6 DEF Next

\* While no object lands late, the video has the length that was declared,
\* although nothing binds the bytes to it (upload_complete, _upload_refusal).
THEOREM DeclaredIsImported == Spec => [](NothingLate => ImportedAsDeclared)
<1>1. SourceInv => (NothingLate => ImportedAsDeclared)
  BY DEF SourceInv, SourceHeld, Orderly, ImportedAsDeclared
<1> QED
  BY <1>1, SourceInitially, SourceNext, PTL DEF Spec

\* While no object lands late, the source of an imported project stays stored
\* (reupload, _upload_refusal, delete_prefix).
THEOREM SourceStaysStored == Spec => [](NothingLate => SourceIsStored)
<1>1. SourceInv => (NothingLate => SourceIsStored)
  BY DEF SourceInv, SourceHeld, Orderly, SourceIsStored
<1> QED
  BY <1>1, SourceInitially, SourceNext, PTL DEF Spec

\* While no object lands late, no second import replaces the video that a
\* transcript and ideas were made from (reupload, handle_import_video).
THEOREM VideoStays == Spec /\ []NothingLate => VideoIsKept
<1>1. SourceInv /\ NothingLate /\ [Next]_vars
        => [KeysKept /\ row.video # NoVideo => row'.video = row.video]_vars
  <2> SUFFICES ASSUME SourceInv, Orderly, row.video # NoVideo, [Next]_vars PROVE row'.video = row.video
    BY DEF Orderly
  <2>1. row \in Row /\ SourceHeld
    BY DEF SourceInv, IInv, TypeOK
  <2>2. ASSUME NEW c \in Tabs, ReuploadCommit(c) PROVE FALSE
    BY <2>1, <2>2 DEF SourceHeld, Decides, Needed, Locking, ReuploadCommit
  <2>3. ASSUME NEW c \in Tabs, QueueImport(c) PROVE row'.video = row.video
    BY <2>1, <2>3 DEF QueueImport, Row
  <2>4. ASSUME NEW i \in Imports, ImportSave(i) PROVE row'.video = row.video
    BY <2>4, SaveSource
  <2>5. ASSUME DeleteProject PROVE row'.video = row.video
    <3>1. row' = [row EXCEPT !.exists = FALSE]
      BY <2>5, Zenon DEF DeleteProject
    <3> QED
      BY <2>1, <3>1 DEF Row
  <2>6. ASSUME NEW c \in Tabs, Browser(c) PROVE row' = row
    BY <2>6, Zenon DEF Browser, Choose, Resume, PutLands, GiveUp, CancelUpload, PutPart
  <2>7. CASE \E c \in Tabs : Request(c)
    BY <2>2, <2>3, <2>7 DEF Request, ReuploadBegin, DiscardParts, DiscardObjects, StartRead, StartAbort,
       StartCreate, CompleteList, Assemble, Measure, Refuse, RequestDies
  <2>8. CASE \E i \in Imports : ImportStep(i)
    BY <2>4, <2>8 DEF ImportStep, ImportStart, ImportFetch, ImportEnds, ImportFails, Disown, RetryImport
  <2> QED
    BY <2>5, <2>6, <2>7, <2>8, Zenon DEF Next, AgeOut, SweepParts, SweepObjects, vars
<1> QED
  BY <1>1, SourceInitially, SourceNext, PTL DEF Spec, VideoIsKept
=============================================================================

------------------------------ MODULE Chunking ------------------------------
(***************************************************************************)
(* Where a recording is cut before it is sent to the speech provider       *)
(* (compute_pause_boundaries of app/stt/chunking.py): at the middle of     *)
(* each pause, by force where there is no pause, short pieces folded away. *)
(* One step is one branch of the loop over the cut points.                 *)
(***************************************************************************)
EXTENDS Integers, Sequences

CONSTANTS
    Recordings,     \* [total, cuts]: a duration and the ascending cut points
    max_chunk_sec,  \* the provider's limit, DUUDLAGA_MAX_AUDIO_SEC
    min_chunk_sec,  \* TARGET_CHUNK_MIN_SEC
    overlap_sec     \* FORCED_CUT_OVERLAP_SEC

\* The cut points lie inside the recording and its end is the last of them.
IsRecording(r) ==
    /\ r.total \in Nat \ {0}
    /\ r.cuts \in Seq(1 .. r.total)
    /\ r.cuts # <<>> /\ r.cuts[Len(r.cuts)] = r.total

\* forced_cut_step refuses a limit that is not above the overlap.
ASSUME ChunkingAssumption ==
    /\ max_chunk_sec \in Nat /\ min_chunk_sec \in Nat /\ overlap_sec \in Nat
    /\ overlap_sec < max_chunk_sec
    /\ \A r \in Recordings : IsRecording(r)

VARIABLES
    recording,   \* the recording being cut
    next,        \* index of the cut point the loop is at
    start,       \* where the chunk being built begins
    boundaries,  \* the chunks so far: [from, to]
    done         \* the list was returned

vars == <<recording, next, start, boundaries, done>>

Chunk == [from : Nat, to : Nat]

TypeOK ==
    /\ IsRecording(recording)
    /\ next \in Nat \ {0}
    /\ start \in Nat
    /\ boundaries \in Seq(Chunk)
    /\ done \in BOOLEAN

Init ==
    /\ recording \in Recordings
    /\ next = 1
    /\ start = 0
    /\ boundaries = <<>>
    /\ done = FALSE
-----------------------------------------------------------------------------
Cutting == next <= Len(recording.cuts)

cp == recording.cuts[next]

Latest == boundaries[Len(boundaries)]

\* Mutant of forced_cut_step: the difference turned round.
forced_cut_stepBack == overlap_sec - max_chunk_sec

forced_cut_step == max_chunk_sec - overlap_sec

\* A cut point the loop has already passed.
SkipCut ==
    /\ Cutting /\ cp <= start
    /\ next' = next + 1
    /\ UNCHANGED <<recording, start, boundaries, done>>

\* No pause within the limit: cut anyway, and step back by the overlap.
ForceCut ==
    /\ Cutting /\ cp - start > max_chunk_sec
    /\ boundaries' = Append(boundaries, [from |-> start, to |-> start + max_chunk_sec])
    /\ start' = start + forced_cut_step
    /\ UNCHANGED <<recording, next, done>>

\* Too short on its own, and the previous chunk can take it.
FoldsBack ==
    /\ boundaries # <<>>
    /\ cp - start < min_chunk_sec
    /\ cp - Latest.from <= max_chunk_sec

CutAtPause ==
    /\ Cutting /\ cp > start /\ cp - start <= max_chunk_sec
    /\ boundaries' = IF FoldsBack
                     THEN [boundaries EXCEPT ![Len(boundaries)].to = cp]
                     ELSE Append(boundaries, [from |-> start, to |-> cp])
    /\ start' = cp
    /\ next' = next + 1
    /\ UNCHANGED <<recording, done>>

\* The first chunk had nothing before it to be folded into.
ShortFirst ==
    /\ Len(boundaries) > 1
    /\ boundaries[1].to - boundaries[1].from < min_chunk_sec

Return ==
    /\ ~Cutting /\ ~done
    /\ boundaries' = IF ShortFirst
                     THEN [Tail(boundaries) EXCEPT ![1].from = boundaries[1].from]
                     ELSE boundaries
    /\ done' = TRUE
    /\ UNCHANGED <<recording, next, start>>

Next == SkipCut \/ ForceCut \/ CutAtPause \/ Return

Spec == Init /\ [][Next]_vars

-----------------------------------------------------------------------------
\* Every moment of the recording is in some chunk, in the order the
\* transcript is joined in (merge_transcripts does not sort): a chunk begins
\* where the one before it ends, or by the overlap of a forced cut before it.
NothingIsSkipped ==
    done =>
      /\ boundaries # <<>> /\ boundaries[1].from = 0 /\ Latest.to = recording.total
      /\ \A k \in 1 .. Len(boundaries) - 1 :
            /\ boundaries[k + 1].from \in {boundaries[k].to, boundaries[k].to - overlap_sec}
            /\ boundaries[k].from < boundaries[k + 1].from

\* Only the piece before the first pause, folded into its neighbour without
\* asking the limit, lets a chunk pass it; and never by a whole min_chunk_sec.
OnlyTheFirstIsTooLong ==
    \A k \in DOMAIN boundaries :
        LET length == boundaries[k].to - boundaries[k].from
        IN  length <= max_chunk_sec \/ (done /\ k = 1 /\ length < max_chunk_sec + min_chunk_sec)

\* A chunk is shorter than the floor only if it is the only one or the chunk
\* before it could not take it without passing the limit.
ShortOnlyWhenFull ==
    done => \A k \in 2 .. Len(boundaries) :
        boundaries[k].to - boundaries[k].from < min_chunk_sec
            => boundaries[k].to - boundaries[k - 1].from > max_chunk_sec

\* What is left to cut, and the turns that are left over what is cut.
LeftToCut == (recording.total - start) + (Len(recording.cuts) + 1 - next) + (IF done THEN 0 ELSE 1)

\* Every turn of the loop leaves less to cut, and never less than nothing, so
\* that it ends (forced_cut_step: otherwise "the cursor stands still while the
\* loop keeps appending").
EveryTurnAdvances == [][LeftToCut' < LeftToCut /\ LeftToCut' >= 0]_vars

\* What the comment of compute_pause_boundaries promises of every chunk.
EveryChunkFits ==
    done => \A k \in DOMAIN boundaries :
        boundaries[k].to - boundaries[k].from <= max_chunk_sec
=============================================================================

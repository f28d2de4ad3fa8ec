------------------------------- MODULE Render -------------------------------
(***************************************************************************)
(* render_timeline of app/export/pipeline.py: the clips of an export, each  *)
(* cut to whole frames, joined end to end or through transitions, in        *)
(* batches where they are many, with the subtitles moved onto the result.   *)
(* One step is one pass of ffmpeg, or what is computed between two.         *)
(*                                                                         *)
(* Source times count half frames of the export's rate, lengths and output  *)
(* positions whole frames: a plan made of whole frames puts every offset on *)
(* a frame.  What a file shows is a sequence: at each frame the set of      *)
(* [clip, frame] that are seen, two of them during a transition.            *)
(***************************************************************************)
EXTENDS Integers, Sequences, FiniteSets, SequencesExt

CONSTANTS
    Takes,             \* [cuts, intro, outro, wanted]: see IsTake
    Segments,          \* of the transcript: [from, to, words]
    fps, xfade_batch, min_split_frames

\* A cut is a range of the source; intro and outro are lengths, 0 for none;
\* wanted is the transition's duration in twentieths of a frame.
IsTake(t) ==
    /\ t.cuts \in Seq([from : Nat, to : Nat]) /\ t.cuts # <<>>
    /\ \A k \in DOMAIN t.cuts : t.cuts[k].from < t.cuts[k].to
    /\ {t.intro, t.outro, t.wanted} \subseteq Nat

ASSUME RenderAssumption ==
    /\ \A t \in Takes : IsTake(t)
    /\ fps \in Nat \ {0} /\ xfade_batch \in Nat \ {0, 1} /\ min_split_frames \in Nat
    /\ \A segment \in Segments :
         /\ {segment.from, segment.to} \subseteq Nat
         /\ IsFiniteSet(segment.words) /\ segment.words \subseteq [from : Nat, to : Nat]

VARIABLES
    take,       \* what is to be rendered
    phase,      \* the pass render_timeline is at
    sequence,   \* the clips in the order of the output
    lengths,    \* lengths[k]: the frames clip k was cut to
    passes,     \* the batches still to be joined
    shown,      \* what the joined file shows, so far
    captions    \* the subtitles: [from, to, clip, said]

renderVars == <<take, phase, sequence, lengths, passes, shown, captions>>

RenderTypeOK ==
    /\ phase \in {"bracket", "cut", "join", "batches", "captions", "finalize", "done", "failed"}
    /\ \A k \in DOMAIN lengths : lengths[k] \in Nat \ {0}
    /\ shown \in Seq(SUBSET [clip : Nat, frame : Nat])

RenderInit ==
    /\ take \in Takes
    /\ phase = "bracket"
    /\ sequence = <<>> /\ lengths = <<>> /\ passes = <<>> /\ shown = <<>> /\ captions = {}
-----------------------------------------------------------------------------
clip_count == Len(sequence)

\* Python's round of x / unit: halves go to the even number.
Rounded(x, unit) ==
    LET down == x \div unit
        rest == x % unit
    IN  IF 2 * rest > unit \/ (2 * rest = unit /\ down % 2 = 1) THEN down + 1 ELSE down

Larger(a, b) == IF a > b THEN a ELSE b
Smaller(a, b) == IF a < b THEN a ELSE b

\* The first k of them together.
Sum(s, k) ==
    LET upto[j \in 0 .. Len(s)] == IF j = 0 THEN 0 ELSE upto[j - 1] + s[j]
    IN  upto[k]

clip_frames(length) == Larger(1, Rounded(length, 2))

\* A brand clip is a whole file; one without a duration is left out.
Brand(length) == IF length > 0 THEN <<[source |-> "brand", from |-> 0, to |-> length]>> ELSE <<>>

bracket_with_brand ==
    Brand(take.intro)
        \o [k \in DOMAIN take.cuts |-> [source |-> "video", from |-> take.cuts[k].from, to |-> take.cuts[k].to]]
        \o Brand(take.outro)

shortest == CHOOSE d \in ToSet(lengths) : \A e \in ToSet(lengths) : d <= e

\* plan_transition: the duration, reduced where a clip is too short for it, as
\* whole frames.  The shortest it is reduced to is 0.05 s.
TransitionFrames ==
    LET reduced == take.wanted >= 10 * shortest
        duration == IF reduced THEN Larger(fps, 9 * shortest) ELSE take.wanted
        frames == Rounded(duration, 20)
    IN  Larger(1, IF reduced \/ 2 * frames >= shortest THEN duration \div 20 ELSE frames)

Concatenated == take.wanted = 0 \/ clip_count = 1

overlap == IF Concatenated THEN 0 ELSE TransitionFrames

\* Where clip k begins in the output: the offset of the join before it.
Begins(k) == Sum(lengths, k - 1) - (k - 1) * overlap

FinalFrames == Sum(lengths, clip_count) - (clip_count - 1) * overlap

\* One pass over all the clips shows clip k from its beginning to its end.
OnePass ==
    [f \in 1 .. FinalFrames |->
        {[clip |-> k, frame |-> f - 1 - Begins(k)] :
            k \in {j \in 1 .. clip_count : Begins(j) < f /\ f <= Begins(j) + lengths[j]}}]
-----------------------------------------------------------------------------
\* The next clip to cut through after clip k, 0 if none is needed or fit: the
\* last clear one within reach, else the first beyond it.
Clear(k) == lengths[k] - 2 * overlap >= min_split_frames

SplitAfter(k) ==
    LET inside == {c \in k + 1 .. clip_count - 1 : Clear(c) /\ c < k + xfade_batch}
        beyond == {c \in k + xfade_batch .. clip_count - 1 : Clear(c)}
    IN  IF clip_count - k + 1 <= xfade_batch \/ inside \cup beyond = {} THEN 0
        ELSE IF inside # {} THEN CHOOSE c \in inside : \A d \in inside : d <= c
        ELSE CHOOSE c \in beyond : \A d \in beyond : c <= d

splits ==
    LET upto[m \in 0 .. clip_count] ==
            IF m = 0 THEN <<1>>
            ELSE LET before == upto[m - 1]
                     split == SplitAfter(before[Len(before)])
                 IN  IF split = 0 THEN before ELSE Append(before, split)
    IN  upto[clip_count]

\* Mutant of Half: the batch before the boundary shows one frame too many.
HalfWithBoundary(k) == Rounded(lengths[k], 2) + 1

\* A boundary is the middle of a clip.
Half(k) == Rounded(lengths[k], 2)

\* first, last: clips; head: the first frame shown of the first; tail: how
\* many are shown of the last; start: where the batch begins in the output.
plan_xfade_batches ==
    [j \in DOMAIN splits |->
        LET first == splits[j]
            whole == j = Len(splits)
            last == IF whole THEN clip_count ELSE splits[j + 1]
            head == IF j = 1 THEN 0 ELSE Rounded(lengths[first], 2)
        IN  [first |-> first, last |-> last, head |-> head, start |-> Begins(first) + head,
             tail |-> IF whole THEN lengths[last] ELSE Half(last)]]

\* _batch_args: the frames one batch holds, and what they show.
BatchShows(batch) ==
    LET offset(k) == IF k = batch.first THEN -batch.head ELSE Begins(k) - batch.start
        upto(k) == IF k = batch.last THEN batch.tail ELSE lengths[k]
        frames == Begins(batch.last) + batch.tail - batch.start
    IN  [f \in 1 .. frames |->
            {[clip |-> k, frame |-> f - 1 - offset(k)] :
                k \in {j \in batch.first .. batch.last :
                          offset(j) < f /\ f - 1 - offset(j) < upto(j)}}]
-----------------------------------------------------------------------------
BracketClips ==
    /\ phase = "bracket"
    /\ sequence' = bracket_with_brand /\ phase' = "cut"
    /\ UNCHANGED <<take, lengths, passes, shown, captions>>

\* _cut_and_normalize_clip: exactly the frames of the plan, whatever the source.
CutClip ==
    /\ phase = "cut" /\ Len(lengths) < clip_count
    /\ LET clip == sequence[Len(lengths) + 1]
       IN  lengths' = Append(lengths, clip_frames(clip.to - clip.from))
    /\ phase' = IF Len(lengths') = clip_count THEN "join" ELSE "cut"
    /\ UNCHANGED <<take, sequence, passes, shown, captions>>

\* _join_concat, or _join_xfade where one batch holds every clip.
JoinClips ==
    /\ phase = "join"
    /\ IF Concatenated \/ Len(splits) = 1
       THEN shown' = OnePass /\ phase' = "captions" /\ UNCHANGED passes
       ELSE passes' = plan_xfade_batches /\ phase' = "batches" /\ UNCHANGED shown
    /\ UNCHANGED <<take, sequence, lengths, captions>>

\* Each batch is a pass of its own; they are copied end to end.
JoinBatch ==
    /\ phase = "batches"
    /\ shown' = shown \o BatchShows(Head(passes))
    /\ passes' = Tail(passes)
    /\ phase' = IF Len(passes) = 1 THEN "captions" ELSE phase
    /\ UNCHANGED <<take, sequence, lengths, captions>>

\* Mutant of Onto: as if the clips were joined end to end.
OntoConcat(k, t) == t - sequence[k].from + 2 * Sum(lengths, k - 1)

\* to_output: a moment of the source on the output, by clip k.
Onto(k, t) == t - sequence[k].from + 2 * Begins(k)

\* _split_segment_for_clip: the part of a segment that clip k shows, narrowed to
\* the words it shows.
Caption(segment, k) ==
    LET clip == sequence[k]
        from == Larger(segment.from, clip.from)
        to == Smaller(segment.to, clip.to)
        kept == {w \in segment.words : w.from < to /\ w.to > from}
        begin == IF kept = {} THEN from
                 ELSE Larger(from, CHOOSE t \in {w.from : w \in kept} : \A w \in kept : t <= w.from)
        end == IF kept = {} THEN to
               ELSE Smaller(to, CHOOSE t \in {w.to : w \in kept} : \A w \in kept : w.to <= t)
    IN  IF to <= from \/ (segment.words # {} /\ kept = {}) THEN {}
        ELSE {[from |-> Onto(k, begin), to |-> Onto(k, end), clip |-> k, said |-> begin]}

\* Only the video speaks.
Captioned == {k \in DOMAIN sequence : sequence[k].source = "video"}

Retime ==
    /\ phase = "captions"
    /\ captions' = UNION {Caption(segment, k) : segment \in Segments, k \in Captioned}
    /\ phase' = "finalize"
    /\ UNCHANGED <<take, sequence, lengths, passes, shown>>

\* The subtitles and the logo are burned in; the part file, whole by now, takes
\* the name of the output.
Finalize ==
    /\ phase = "finalize"
    /\ phase' = "done"
    /\ UNCHANGED <<take, sequence, lengths, passes, shown, captions>>

\* A pass fails or is canceled.
RenderFails ==
    /\ phase \notin {"done", "failed"}
    /\ phase' = "failed"
    /\ UNCHANGED <<take, sequence, lengths, passes, shown, captions>>

RenderNext == BracketClips \/ CutClip \/ JoinClips \/ JoinBatch \/ Retime \/ Finalize \/ RenderFails

RenderSpec == RenderInit /\ [][RenderNext]_renderVars
-----------------------------------------------------------------------------
\* Clips of three frames, and of more than a tenth of a second, are what a
\* transition can join; a hand cut may be shorter.
Joinable == \A k \in DOMAIN lengths : lengths[k] >= 3 /\ 10 * lengths[k] > fps

\* A timeline joined in batches is, frame for frame, the one that a single pass
\* would have made: nothing is shown twice, lost or out of its transition.
BatchesAreSeamless ==
    phase \in {"captions", "finalize", "done"} /\ Joinable => shown = OnePass

\* A subtitle is on the screen while the clip that says it is, at the moments
\* it is said, to within the half frame a cut is rounded by.
CaptionsInSync ==
    phase = "done" /\ Joinable =>
        \A c \in captions :
            /\ sequence[c.clip].source = "video"
            /\ \A f \in DOMAIN shown :
                  2 * f - 1 >= c.from /\ 2 * f + 1 <= c.to =>
                     \E x \in shown[f] :
                        /\ x.clip = c.clip
                        /\ 2 * x.frame + sequence[c.clip].from - c.said = 2 * (f - 1) - c.from
=============================================================================

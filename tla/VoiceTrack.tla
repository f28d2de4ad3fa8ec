----------------------------- MODULE VoiceTrack -----------------------------
(***************************************************************************)
(* The sound of one clip of a dubbed export: its translated lines laid on   *)
(* the clip's own timeline (place_lines and track_for of tts/voiceover.py), *)
(* over the source without its speech (window and trim of audio/dub_bed.py).*)
(* One step is one turn of a loop over the lines.                          *)
(***************************************************************************)
EXTENDS Integers, Sequences

CONSTANTS
    Scenes,     \* [from, to, source, lines]: a clip of a source of that length
    gap,        \* GAP_S
    pad         \* PAD_S

\* A line was said from .. to and its translation takes duration to read.  The
\* lines are in the order of the transcript.
IsScene(scene) ==
    /\ {scene.from, scene.to, scene.source} \subseteq Nat /\ scene.from < scene.to
    /\ \A k \in DOMAIN scene.lines :
          /\ scene.lines[k].from \in Nat /\ scene.lines[k].to \in Nat /\ scene.lines[k].duration \in Nat
          /\ scene.lines[k].from <= scene.lines[k].to
    /\ \A k \in 1 .. Len(scene.lines) - 1 : scene.lines[k].from <= scene.lines[k + 1].from

ASSUME VoiceAssumption ==
    /\ gap \in Nat /\ pad \in Nat
    /\ \A scene \in Scenes : scene.lines \in Seq([from : Nat, to : Nat, duration : Nat]) /\ IsScene(scene)

VARIABLES
    scene,      \* the clip
    said,       \* its lines
    free_from,  \* where the next line may start
    placements, \* the lines placed so far: [start, tempo, length, cut]
    laid,       \* how many of them are on the track
    track       \* the line heard at each moment of the clip, 0 for none

voiceVars == <<scene, said, free_from, placements, laid, track>>

Tempos == {"own", "faster", "fastest"}

VoiceTypeOK ==
    /\ IsScene(scene)
    /\ free_from \in Nat
    /\ placements \in Seq([start : Nat, tempo : Tempos, length : Nat, cut : BOOLEAN])
    /\ laid \in 0 .. Len(placements)
    /\ track \in [1 .. scene.to - scene.from -> 0 .. Len(said)]

\* lines_in: a clip says the lines whose middle it shows.
SaidIn(s, line) == 2 * s.from <= line.from + line.to /\ line.from + line.to < 2 * s.to

lines_in(s) ==
    LET upto[k \in 0 .. Len(s.lines)] ==
            IF k = 0 THEN <<>>
            ELSE IF SaidIn(s, s.lines[k]) THEN Append(upto[k - 1], s.lines[k]) ELSE upto[k - 1]
    IN  upto[Len(s.lines)]

VoiceInit ==
    /\ scene \in Scenes
    /\ said = lines_in(scene)
    /\ free_from = 0 /\ placements = <<>> /\ laid = 0
    /\ track = [t \in 1 .. scene.to - scene.from |-> 0]
-----------------------------------------------------------------------------
clip_duration == scene.to - scene.from

Later(a, b) == IF a > b THEN a ELSE b

\* Where line k was said, on the clip; before its start for a line cut into.
At(k) == said[k].from - scene.from

\* When line k should be over.
Due(k) == IF k < Len(said) THEN At(k + 1) ELSE clip_duration

\* Mutant of StartOf: the line is laid where it was said.
StartOfSaid(k) == Later(At(k), 0)

StartOf(k) == Later(At(k), free_from)

\* A line too long for its room is hurried, by 1.3 at the most.
Tempo(k, room) ==
    IF said[k].duration <= room THEN "own"
    ELSE IF room > 0 /\ 10 * said[k].duration <= 13 * room THEN "faster" ELSE "fastest"

LengthAt(tempo, duration, room) ==
    CASE tempo = "own" -> duration
      [] tempo = "faster" -> room
      [] tempo = "fastest" -> (10 * duration) \div 13

PlaceLine ==
    /\ Len(placements) < Len(said)
    /\ LET k == Len(placements) + 1
           start == StartOf(k)
           tempo == Tempo(k, Due(k) - start)
           length == LengthAt(tempo, said[k].duration, Due(k) - start)
           cut == start + length > clip_duration
           kept == IF cut THEN Later(0, clip_duration - start) ELSE length
       IN  /\ placements' = Append(placements, [start |-> start, tempo |-> tempo, length |-> kept, cut |-> cut])
           /\ free_from' = start + kept + gap
    /\ UNCHANGED <<scene, said, laid, track>>

\* assemble: each line is laid at its start, over what is there.
LayLine ==
    /\ Len(placements) = Len(said) /\ laid < Len(said)
    /\ laid' = laid + 1
    /\ LET placed == placements[laid + 1]
       IN  track' = [t \in DOMAIN track |->
                        IF placed.start < t /\ t <= placed.start + placed.length THEN laid + 1 ELSE track[t]]
    /\ UNCHANGED <<scene, said, free_from, placements>>

VoiceNext == PlaceLine \/ LayLine

VoiceSpec == VoiceInit /\ [][VoiceNext]_voiceVars
-----------------------------------------------------------------------------
\* What is read of the source for a range, and what of it is kept.
window(from, to) ==
    LET begin == Later(0, from - pad)
    IN  [begin |-> begin, end |-> to + pad, lead |-> from - begin, keep |-> to - from]

\* A read stops where the source does.
Read(w, source) ==
    [k \in 1 .. Later(0, (IF w.end < source THEN w.end ELSE source) - w.begin) |-> w.begin + k]

\* Mutant of trim: the padding in front is not dropped.
trimFromStart(pcm, w) == [k \in 1 .. w.keep |-> IF k \in DOMAIN pcm THEN pcm[k] ELSE 0]

\* The range out of its padded read, with silence where the source ran out.
trim(pcm, w) == [k \in 1 .. w.keep |-> IF w.lead + k \in DOMAIN pcm THEN pcm[w.lead + k] ELSE 0]

Bed == LET w == window(scene.from, scene.to) IN trim(Read(w, scene.source), w)
-----------------------------------------------------------------------------
\* No line is read over another, or before it was said.  One is late by more
\* than a breath only behind a line that was already read as fast as may be,
\* and only such a line is cut, at the end of the clip.
LinesTakeTurns ==
    \A k \in DOMAIN placements :
        LET placed == placements[k]
        IN  /\ placed.start >= At(k)
            /\ placed.cut => placed.tempo = "fastest"
            /\ placed.length > 0 => placed.start + placed.length <= clip_duration
            /\ k > 1 => /\ placed.start >= placements[k - 1].start + placements[k - 1].length + gap
                        /\ \/ placed.start <= Later(0, At(k)) + gap
                           \/ placements[k - 1].tempo = "fastest"

\* What is laid on the track stays audible, and under it lies the very range
\* of the source: nothing moves against the picture.
TrackIsInTime ==
    /\ \A k \in 1 .. laid : \A t \in 1 .. placements[k].length : track[placements[k].start + t] = k
    /\ LET under == Bed
       IN  \A t \in 1 .. clip_duration :
              under[t] = IF scene.from + t <= scene.source THEN scene.from + t ELSE 0

\* The dub is in time with the picture: its lines take turns, each as near to
\* where it was said as the one before it lets it, and what is laid under them
\* is the clip's own sound (place_lines, track_for, dub_bed.window and trim).
DubIsInTime == LinesTakeTurns /\ TrackIsInTime
=============================================================================

-------------------------- MODULE ComputationProofs --------------------------
(***************************************************************************)
(* The computations, for every input: the sound of a dubbed clip, a        *)
(* transcript's lines divided into requests, what becomes of a proposed    *)
(* short, the frames and captions of an export, and which ideas and lines  *)
(* it renders of those that were chosen.                                   *)
(* What a loop computes is told from its states where it is a step of the  *)
(* specification (the placements), and by induction over its positions     *)
(* where it is one recursive function (the lines of a clip, the plan of    *)
(* the requests or of the batches, the stretches of a timeline), with the  *)
(* lemmas of SpeechProofs about loops and sequences.                       *)
(***************************************************************************)
EXTENDS SpeechProofs, VoiceTrack, Asking, Cuts, Render, Choosing

-----------------------------------------------------------------------------
\* The sound of a dubbed clip.

Spoken == [from : Nat, to : Nat, duration : Nat]

\* A clip says lines that are shown, for the list is built from nothing else.
LEMMA LinesAreShown ==
  ASSUME NEW s, s.lines \in Seq(Spoken)
  PROVE  /\ lines_in(s) \in Seq(Spoken)
         /\ \A k \in DOMAIN lines_in(s) :
              /\ SaidIn(s, lines_in(s)[k])
              /\ \E j \in DOMAIN s.lines : lines_in(s)[k] = s.lines[j]
<1> DEFINE lines == s.lines
           n == Len(lines)
           On(k, q) == IF SaidIn(s, lines[k]) THEN Append(q, lines[k]) ELSE q
           Is(f) == f = [k \in 0 .. n |-> IF k = 0 THEN <<>> ELSE On(k, f[k - 1])]
           upto == CHOOSE f : Is(f)
           step == [k \in 1 .. n |-> [q \in Seq(Spoken) |-> On(k, q)]]
<1>1. n \in Nat /\ DOMAIN lines = 1 .. n /\ \A k \in 1 .. n : lines[k] \in Spoken
  OBVIOUS
<1>2. lines_in(s) = upto[n]
  BY Zenon DEF lines_in
<1> HIDE DEF n, lines
<1>3. \A k \in 1 .. n, q \in Seq(Spoken) : On(k, q) \in Seq(Spoken)
  BY <1>1
<1>4. /\ upto[0] = <<>>
      /\ \A k \in 1 .. n : upto[k] = On(k, upto[k - 1])
  <2> DEFINE S == Seq(Spoken)
             a == <<>>
  <2>1. step \in [1 .. n -> [S -> S]]
    BY <1>3
  <2>2. a \in S /\ \A k \in 1 .. n, q \in S : step[k][q] = On(k, q)
    OBVIOUS
  <2> HIDE DEF step, S, a
  <2>3. PICK f : Loops(f, S, a, n, step)
    BY <1>1, <2>1, <2>2, LoopExists
  <2> HIDE DEF On
  <2>4. f \in [0 .. n -> S] /\ f[0] = a /\ \A k \in 1 .. n : f[k] = On(k, f[k - 1])
    BY <1>1, <2>2, <2>3 DEF Loops
  <2>5. Is(f)
    BY <1>1, <2>4 DEF a
  <2>6. Is(upto)
    BY <2>5, Zenon
  <2> HIDE DEF upto
  <2> QED
    BY <1>1, <2>6
<1> HIDE DEF upto, step
<1> DEFINE Sound(q) == /\ q \in Seq(Spoken)
                       /\ \A i \in DOMAIN q : SaidIn(s, q[i]) /\ \E j \in DOMAIN lines : q[i] = lines[j]
           good == {k \in 0 .. n : Sound(upto[k])}
<1>5. 0 \in good
  <2>1. Sound(<<>>)
    OBVIOUS
  <2> HIDE DEF Sound
  <2> QED
    BY <1>1, <1>4, <2>1
<1>6. \A k \in 1 .. n : k - 1 \in good => k \in good
  <2> SUFFICES ASSUME NEW k \in 1 .. n, k - 1 \in good PROVE k \in good
    OBVIOUS
  <2>1. Sound(upto[k - 1]) /\ lines[k] \in Spoken /\ k \in DOMAIN lines
    BY <1>1
  <2> DEFINE q == upto[k - 1]
  <2> HIDE DEF q
  <2>2. Sound(q) => Sound(On(k, q))
    <3> HIDE DEF upto
    <3> QED
      BY <2>1
  <2> HIDE DEF Sound, On
  <2>3. Sound(upto[k])
    BY <1>4, <2>1, <2>2 DEF q
  <2> QED
    BY <1>1, <2>3
<1> HIDE DEF good, Sound
<1>7. 0 .. n \subseteq good
  BY <1>1, <1>5, <1>6, EveryPosition
<1>8. n \in good
  BY <1>1, <1>7
<1> QED
  BY <1>2, <1>8 DEF good, Sound, lines

\* Where the last line ends the next may begin, and behind a line that was not
\* hurried to the utmost that is no later than a breath after it is due.
EndOf(k) == placements[k].start + placements[k].length + gap

FreeFrom ==
    /\ placements = <<>> => free_from = 0
    /\ placements # <<>> => free_from = EndOf(Len(placements))
    /\ \A k \in DOMAIN placements : EndOf(k) <= free_from
    /\ placements # <<>> /\ Len(placements) < Len(said) =>
         \/ free_from <= At(Len(placements) + 1) + gap
         \/ placements[Len(placements)].tempo = "fastest"

InOrder ==
    \A j, k \in DOMAIN placements : j < k => EndOf(j) <= placements[k].start

SaidIsShown ==
    /\ said \in Seq(Spoken)
    /\ \A k \in DOMAIN said : SaidIn(scene, said[k]) /\ said[k].from <= said[k].to

LaidIsHeard ==
    /\ laid > 0 => Len(placements) = Len(said)
    /\ \A k \in 1 .. laid : \A t \in 1 .. placements[k].length : track[placements[k].start + t] = k

DubInv ==
    /\ VoiceTypeOK /\ SaidIsShown /\ Len(placements) <= Len(said)
    /\ FreeFrom /\ InOrder /\ LinesTakeTurns /\ LaidIsHeard

LEMMA DubInitially == VoiceInit => DubInv
<1> SUFFICES ASSUME VoiceInit PROVE DubInv
  OBVIOUS
<1>1. scene \in Scenes /\ scene.lines \in Seq(Spoken) /\ IsScene(scene)
  BY VoiceAssumption DEF VoiceInit, Spoken
<1>2. said = lines_in(scene)
  BY DEF VoiceInit
<1>3. SaidIsShown
  <2>1. said \in Seq(Spoken) /\ \A k \in DOMAIN said : SaidIn(scene, said[k])
    BY <1>1, <1>2, LinesAreShown
  <2>2. \A k \in DOMAIN said : \E j \in DOMAIN scene.lines : said[k] = scene.lines[j]
    BY <1>1, <1>2, LinesAreShown
  <2>3. \A j \in DOMAIN scene.lines : scene.lines[j].from <= scene.lines[j].to
    BY <1>1 DEF IsScene
  <2> QED
    BY <2>1, <2>2, <2>3 DEF SaidIsShown
<1>4. free_from = 0 /\ placements = <<>> /\ laid = 0
      /\ track = [t \in 1 .. scene.to - scene.from |-> 0]
  BY DEF VoiceInit
<1>5. VoiceTypeOK
  <2>1. Len(said) \in Nat
    BY <1>3 DEF SaidIsShown
  <2> QED
    BY <1>1, <1>4, <2>1 DEF VoiceTypeOK
<1> QED
  BY <1>3, <1>4, <1>5 DEF DubInv, FreeFrom, InOrder, LinesTakeTurns, LaidIsHeard, SaidIsShown

Placement == [start : Nat, tempo : Tempos, length : Nat, cut : BOOLEAN]

LEMMA PlaceKeeps ==
  ASSUME DubInv, PlaceLine
  PROVE  DubInv'
<1>0. Len(placements) \in Nat
  BY DEF DubInv, VoiceTypeOK
<1> SUFFICES ASSUME NEW k \in Nat, k = Len(placements) + 1 PROVE DubInv'
  BY <1>0
<1> DEFINE begins == StartOf(k)
           room == Due(k) - begins
           tempo == Tempo(k, room)
           length == LengthAt(tempo, said[k].duration, room)
           cut == begins + length > clip_duration
           kept == IF cut THEN Later(0, clip_duration - begins) ELSE length
           p == [start |-> begins, tempo |-> tempo, length |-> kept, cut |-> cut]
<1>1. /\ Len(placements) < Len(said) /\ placements' = Append(placements, p)
      /\ free_from' = begins + kept + gap
      /\ UNCHANGED <<scene, said, laid, track>>
  BY DEF PlaceLine
<1>2. /\ placements \in Seq(Placement) /\ free_from \in Nat /\ IsScene(scene) /\ said \in Seq(Spoken)
      /\ Len(placements) \in Nat /\ gap \in Nat /\ clip_duration \in Nat
      /\ scene.from \in Nat /\ scene.to \in Nat
  BY VoiceAssumption DEF DubInv, VoiceTypeOK, SaidIsShown, Placement, clip_duration, IsScene
<1>3. /\ k \in 1 .. Len(said) /\ said[k] \in Spoken /\ At(k) \in Int /\ begins \in Nat
      /\ begins >= At(k) /\ begins >= free_from /\ (begins = free_from \/ begins = At(k))
  <2>1. k \in 1 .. Len(said) /\ said[k] \in Spoken
    BY <1>1, <1>2
  <2>2. At(k) \in Int
    BY <1>2, <2>1 DEF At, Spoken
  <2>3. begins = IF At(k) > free_from THEN At(k) ELSE free_from
    BY DEF StartOf, Later
  <2> HIDE DEF begins
  <2> QED
    BY <1>2, <2>1, <2>2, <2>3
<1>4. Due(k) \in Int /\ Due(k) <= clip_duration
      /\ (k < Len(said) => Due(k) = At(k + 1))
  <2>1. CASE k < Len(said)
    <3>1. k + 1 \in DOMAIN said /\ said[k + 1] \in Spoken
      BY <1>2, <1>3, <2>1
    <3>2. SaidIn(scene, said[k + 1]) /\ said[k + 1].from <= said[k + 1].to
      BY <3>1 DEF DubInv, SaidIsShown
    <3>3. said[k + 1].from < scene.to
      <4> DEFINE line == said[k + 1]
      <4>1. line.from \in Nat /\ line.to \in Nat
        BY <3>1 DEF Spoken
      <4>2. line.from + line.to < 2 * scene.to /\ line.from <= line.to
        BY <3>2 DEF SaidIn
      <4> HIDE DEF line
      <4>3. line.from < scene.to
        BY <1>2, <4>1, <4>2
      <4> QED
        BY <4>3 DEF line
    <3>4. Due(k) = said[k + 1].from - scene.from /\ clip_duration = scene.to - scene.from
      BY <2>1 DEF Due, At, clip_duration
    <3>5. said[k + 1].from \in Nat
      BY <3>1 DEF Spoken
    <3> QED
      BY <1>2, <2>1, <3>3, <3>4, <3>5 DEF At
  <2>2. CASE ~(k < Len(said))
    BY <1>2, <2>2 DEF Due
  <2> QED
    BY <2>1, <2>2
<1> HIDE DEF begins, room
<1>5. room = Due(k) - begins /\ room \in Int
  BY <1>3, <1>4 DEF room
<1>6. tempo \in Tempos /\ length \in Nat /\ (tempo # "fastest" => length <= room)
  <2> DEFINE d == said[k].duration
  <2>1. d \in Nat
    BY <1>3 DEF Spoken
  <2>2. /\ tempo = (IF d <= room THEN "own"
                    ELSE IF room > 0 /\ 10 * d <= 13 * room THEN "faster" ELSE "fastest")
        /\ length = LengthAt(tempo, d, room)
    BY DEF Tempo
  <2> HIDE DEF tempo, length, d
  <2>3. CASE d <= room
    BY <2>1, <2>2, <2>3 DEF LengthAt, Tempos
  <2>4. CASE ~(d <= room) /\ room > 0 /\ 10 * d <= 13 * room
    BY <1>5, <2>2, <2>4 DEF LengthAt, Tempos
  <2>5. CASE ~(d <= room) /\ ~(room > 0 /\ 10 * d <= 13 * room)
    <3>1. tempo = "fastest" /\ length = (10 * d) \div 13
      BY <2>2, <2>5 DEF LengthAt
    <3> QED
      BY <2>1, <3>1 DEF Tempos
  <2> QED
    BY <2>3, <2>4, <2>5
<1> HIDE DEF tempo, length
<1>7. /\ kept \in Nat /\ kept <= length /\ cut \in BOOLEAN
      /\ (cut => tempo = "fastest")
      /\ (kept > 0 => begins + kept <= clip_duration)
  BY <1>2, <1>3, <1>4, <1>5, <1>6 DEF Later
<1> HIDE DEF kept, cut
<1>8. p \in Placement /\ p.start = begins /\ p.tempo = tempo /\ p.length = kept /\ p.cut = cut
  BY <1>3, <1>6, <1>7 DEF Placement
<1> HIDE DEF p
<1>9. /\ placements' \in Seq(Placement) /\ Len(placements') = k /\ placements'[k] = p
      /\ \A j \in 1 .. k - 1 : placements'[j] = placements[j]
      /\ DOMAIN placements' = 1 .. k /\ DOMAIN placements = 1 .. k - 1
  BY <1>1, <1>2, <1>8
<1>10. \A j \in 1 .. k - 1 : EndOf(j) \in Int
  <2>1. \A j \in 1 .. k - 1 : placements[j] \in Placement
    BY <1>2, <1>9
  <2>2. \A j \in 1 .. k - 1 : placements[j].start \in Nat /\ placements[j].length \in Nat
    BY <2>1 DEF Placement
  <2> QED
    BY <1>2, <2>2 DEF EndOf
<1>11. \A j : At(j)' = At(j)
  BY <1>1 DEF At
<1>12. FreeFrom'
  <2>1. EndOf(k)' = free_from'
    BY <1>1, <1>8, <1>9 DEF EndOf
  <2>2. \A j \in 1 .. k - 1 : EndOf(j)' = EndOf(j) /\ EndOf(j) <= free_from
    BY <1>9 DEF EndOf, DubInv, FreeFrom
  <2>3. \A j \in 1 .. k - 1 : EndOf(j) \in Int
    BY <1>10
  <2>4. k < Len(said) => free_from' <= At(k + 1) + gap \/ tempo = "fastest"
    BY <1>1, <1>2, <1>3, <1>4, <1>5, <1>6, <1>7
  <2>5. \A j \in 1 .. k : EndOf(j)' <= free_from'
    <3>1. free_from \in Int /\ free_from' \in Int /\ free_from <= free_from'
      BY <1>1, <1>2, <1>3, <1>7
    <3>2. \A j \in 1 .. k - 1 : EndOf(j)' <= free_from'
      BY <2>2, <2>3, <3>1
    <3>3. \A j \in 1 .. k : j \in 1 .. k - 1 \/ j = k
      OBVIOUS
    <3> QED
      BY <2>1, <3>1, <3>2, <3>3
  <2> QED
    BY <1>1, <1>8, <1>9, <1>11, <2>1, <2>4, <2>5 DEF FreeFrom
<1>13. InOrder'
  <2>1. \A j \in 1 .. k - 1 : EndOf(j)' = EndOf(j) /\ EndOf(j) <= begins /\ EndOf(j) \in Int
    <3>1. \A j \in 1 .. k - 1 : EndOf(j)' = EndOf(j) /\ EndOf(j) <= free_from
      BY <1>9 DEF EndOf, DubInv, FreeFrom
    <3> QED
      BY <1>2, <1>3, <1>10, <3>1
  <2> QED
    BY <1>8, <1>9, <2>1 DEF InOrder, DubInv
<1>14. LinesTakeTurns'
  <2>1. clip_duration' = clip_duration
    BY <1>1 DEF clip_duration
  <2>2. k > 1 => begins >= placements[k - 1].start + placements[k - 1].length + gap
    BY <1>3, <1>9 DEF DubInv, FreeFrom, EndOf
  <2>3. k > 1 => \/ begins <= Later(0, At(k)) + gap
                 \/ placements[k - 1].tempo = "fastest"
    <3> SUFFICES ASSUME k > 1, placements[k - 1].tempo # "fastest" PROVE begins <= Later(0, At(k)) + gap
      OBVIOUS
    <3>1. free_from <= At(k) + gap
      BY <1>1, <1>9 DEF DubInv, FreeFrom
    <3> QED
      BY <1>2, <1>3, <3>1 DEF Later
  <2> QED
    BY <1>3, <1>7, <1>8, <1>9, <1>11, <2>1, <2>2, <2>3 DEF DubInv, LinesTakeTurns
<1>15. laid = 0 /\ LaidIsHeard'
  <2>1. laid = 0
    BY <1>1 DEF DubInv, VoiceTypeOK, LaidIsHeard
  <2> QED
    BY <1>1, <2>1 DEF LaidIsHeard
<1>16. VoiceTypeOK'
  <2>1. free_from' \in Nat
    BY <1>1, <1>2, <1>3, <1>7
  <2> QED
    BY <1>1, <1>9, <1>15, <2>1 DEF DubInv, VoiceTypeOK, Placement
<1>17. SaidIsShown' /\ Len(placements') <= Len(said')
  BY <1>1, <1>3, <1>9 DEF DubInv, SaidIsShown
<1> QED
  BY <1>12, <1>13, <1>14, <1>15, <1>16, <1>17 DEF DubInv

LEMMA LayKeeps ==
  ASSUME DubInv, LayLine
  PROVE  DubInv'
<1>0. laid \in Nat
  BY DEF DubInv, VoiceTypeOK
<1> SUFFICES ASSUME NEW k \in Nat, k = laid + 1 PROVE DubInv'
  BY <1>0
<1> DEFINE p == placements[k]
<1>1. /\ Len(placements) = Len(said) /\ laid < Len(said) /\ laid' = k
      /\ track' = [t \in DOMAIN track |-> IF p.start < t /\ t <= p.start + p.length THEN k ELSE track[t]]
      /\ UNCHANGED <<scene, said, free_from, placements>>
  BY DEF LayLine
<1>2. /\ placements \in Seq(Placement) /\ laid \in Nat /\ said \in Seq(Spoken)
      /\ track \in [1 .. clip_duration -> 0 .. Len(said)] /\ gap \in Nat /\ clip_duration \in Int
  BY VoiceAssumption DEF DubInv, VoiceTypeOK, SaidIsShown, Placement, clip_duration, IsScene
<1>3. k \in 1 .. Len(placements) /\ p \in Placement /\ p.start \in Nat /\ p.length \in Nat
  <2>1. k \in 1 .. Len(placements) /\ p \in Placement
    BY <1>1, <1>2
  <2> QED
    BY <2>1 DEF Placement
<1>4. track' \in [1 .. clip_duration -> 0 .. Len(said)]
  BY <1>1, <1>2, <1>3
<1>5. \A t \in 1 .. p.length : track'[p.start + t] = k
  <2>1. p.length > 0 => p.start + p.length <= clip_duration
    BY <1>3 DEF DubInv, LinesTakeTurns
  <2> HIDE DEF p
  <2>2. \A t \in 1 .. p.length : p.start + t \in 1 .. clip_duration
    BY <1>2, <1>3, <2>1
  <2> QED
    BY <1>1, <1>2, <1>3, <2>2
<1>6. ASSUME NEW j \in 1 .. laid, NEW t \in 1 .. placements[j].length
      PROVE  track'[placements[j].start + t] = j
  <2> DEFINE q == placements[j]
  <2>1. placements[j] \in Placement /\ j < k /\ j \in DOMAIN placements
    BY <1>1, <1>2
  <2>2. q.start \in Nat /\ q.length \in Nat
    BY <2>1 DEF Placement
  <2>3. placements[j].start + placements[j].length + gap <= p.start
    BY <1>3, <2>1 DEF DubInv, InOrder, EndOf
  <2>4. q.start + t <= p.start
    BY <1>2, <1>3, <2>2, <2>3
  <2>5. placements[j].length > 0 => placements[j].start + placements[j].length <= clip_duration
    BY <2>1 DEF DubInv, LinesTakeTurns
  <2>6. q.start + t \in 1 .. clip_duration
    <3>1. t \in 1 .. q.length /\ (q.length > 0 => q.start + q.length <= clip_duration)
      BY <2>5
    <3> HIDE DEF q
    <3> QED
      BY <1>2, <2>2, <3>1
  <2>7. track[q.start + t] = j
    BY DEF DubInv, LaidIsHeard
  <2> HIDE DEF p, q
  <2> QED
    BY <1>1, <1>2, <1>3, <2>2, <2>4, <2>6, <2>7 DEF q
<1>7. LaidIsHeard'
  <2>1. ASSUME NEW j \in 1 .. laid' PROVE \A t \in 1 .. placements[j].length : track'[placements[j].start + t] = j
    <3>1. CASE j = k
      BY <1>5, <3>1
    <3>2. CASE j \in 1 .. laid
      BY <1>6, <3>2
    <3>3. j = k \/ j \in 1 .. laid
      BY <1>1, <1>2
    <3> QED
      BY <3>1, <3>2, <3>3
  <2> QED
    BY <1>1, <2>1 DEF LaidIsHeard
<1>8. VoiceTypeOK'
  BY <1>1, <1>2, <1>3, <1>4 DEF DubInv, VoiceTypeOK, clip_duration
<1>9. /\ SaidIsShown' /\ Len(placements') <= Len(said')
      /\ FreeFrom' /\ InOrder' /\ LinesTakeTurns'
  BY <1>1 DEF DubInv, SaidIsShown, FreeFrom, InOrder, LinesTakeTurns, EndOf, At, clip_duration
<1> QED
  BY <1>7, <1>8, <1>9 DEF DubInv

\* Under the lines lies the clip's own range of the source.
LEMMA BedIsInTime ==
  ASSUME IsScene(scene), NEW t \in 1 .. clip_duration
  PROVE  Bed[t] = IF scene.from + t <= scene.source THEN scene.from + t ELSE 0
<1> DEFINE begin == Later(0, scene.from - pad)
           end == scene.to + pad
           stop == IF end < scene.source THEN end ELSE scene.source
           n == Later(0, stop - begin)
           lead == scene.from - begin
<1>1. scene.from \in Nat /\ scene.to \in Nat /\ scene.source \in Nat /\ pad \in Nat
      /\ clip_duration = scene.to - scene.from /\ scene.from < scene.to
  BY VoiceAssumption DEF IsScene, clip_duration
<1>2. begin \in Nat /\ begin <= scene.from /\ n \in Nat /\ lead \in Nat
      /\ (stop > begin => n = stop - begin) /\ (stop <= begin => n = 0)
  BY <1>1 DEF Later
<1>3. Bed[t] = IF lead + t \in 1 .. n THEN begin + (lead + t) ELSE 0
  <2> DEFINE w == [begin |-> begin, end |-> end, lead |-> lead, keep |-> scene.to - scene.from]
             pcm == [k \in 1 .. n |-> begin + k]
  <2>1. window(scene.from, scene.to) = w
    BY DEF window
  <2>2. w.begin = begin /\ w.end = end /\ w.lead = lead /\ w.keep = clip_duration
    BY <1>1
  <2> HIDE DEF w
  <2>3. Read(w, scene.source) = pcm
    BY <2>2 DEF Read
  <2>4. Bed = trim(pcm, w)
    BY <2>1, <2>3 DEF Bed
  <2>5. Bed[t] = IF lead + t \in DOMAIN pcm THEN pcm[lead + t] ELSE 0
    BY <1>1, <2>2, <2>4 DEF trim
  <2> HIDE DEF begin, lead, n
  <2> QED
    BY <2>5
<1>4. lead + t \in 1 .. n <=> scene.from + t <= scene.source
  BY <1>1, <1>2
<1> HIDE DEF lead, n
<1>5. begin + (lead + t) = scene.from + t
  BY <1>1, <1>2 DEF lead
<1> QED
  BY <1>3, <1>4, <1>5

LEMMA DubNext == DubInv /\ [VoiceNext]_voiceVars => DubInv'
<1>1. DubInv /\ UNCHANGED voiceVars => DubInv'
  BY DEF voiceVars, DubInv, VoiceTypeOK, SaidIsShown, FreeFrom, InOrder, LinesTakeTurns, LaidIsHeard,
         EndOf, At, clip_duration
<1> QED
  BY <1>1, PlaceKeeps, LayKeeps DEF VoiceNext

\* The variables of VoiceTrack hold values of their types.
THEOREM VoiceTypeCorrect == VoiceSpec => []VoiceTypeOK
<1>1. DubInv => VoiceTypeOK
  BY DEF DubInv
<1> QED
  BY <1>1, DubInitially, DubNext, PTL DEF VoiceSpec

\* In a dubbed clip no line is read over another or before it was said, each is
\* as near to its place as the one before lets it, only a hurried one is cut,
\* and under them lies the clip's own sound (place_lines, assemble, dub_bed).
THEOREM DubStaysInTime == VoiceSpec => []DubIsInTime
<1>1. DubInv => DubIsInTime
  <2> SUFFICES ASSUME DubInv PROVE DubIsInTime
    OBVIOUS
  <2>1. IsScene(scene)
    BY DEF DubInv, VoiceTypeOK
  <2>2. TrackIsInTime
    BY <2>1, BedIsInTime DEF DubInv, LaidIsHeard, TrackIsInTime
  <2> QED
    BY <2>2 DEF DubInv, DubIsInTime
<1> QED
  BY <1>1, DubInitially, DubNext, PTL DEF VoiceSpec
-----------------------------------------------------------------------------
\* The lines a job asks about.

Groups == [chunks : Seq(Seq(1 .. Lines)), used : Nat]

\* No line is in two of the chunks, and none is beyond the last looked at.
Apart(chunks) ==
    \A k, l \in DOMAIN chunks : k # l => \A a \in DOMAIN chunks[k], b \in DOMAIN chunks[l] :
        chunks[k][a] # chunks[l][b]

Within(chunks, last) == \A k \in DOMAIN chunks : \A a \in DOMAIN chunks[k] : chunks[k][a] <= last

Planned(g, last, lines) ==
    /\ g \in Groups /\ Apart(g.chunks) /\ Within(g.chunks, last)
    /\ (\E i \in lines : i <= last) => g.chunks # <<>>

\* What stands in a chunk is a line.
LEMMA ChunksHoldLines ==
  ASSUME NEW chunks \in Seq(Seq(1 .. Lines)), NEW k \in DOMAIN chunks
  PROVE  /\ chunks[k] \in Seq(1 .. Lines)
         /\ \A a \in DOMAIN chunks[k] : chunks[k][a] \in 1 .. Lines
<1>1. chunks[k] \in Seq(1 .. Lines)
  BY Element, Zenon
<1> QED
  BY <1>1, Element, Zenon

LEMMA GroupedTyped ==
  ASSUME NEW g \in Groups, NEW i \in 1 .. Lines, NEW cost \in [1 .. Lines -> Nat]
  PROVE  Added(g, i, cost) \in Groups
<1>1. /\ g.chunks \in Seq(Seq(1 .. Lines)) /\ g.used \in Nat /\ cost[i] \in Nat
      /\ <<i>> \in Seq(1 .. Lines)
  BY DEF Groups
<1>2. CASE g.chunks # <<>> /\ g.used + cost[i] <= MAX_ANSWER_TOKENS
  <2> DEFINE n == Len(g.chunks)
             c == [g.chunks EXCEPT ![n] = Append(@, i)]
  <2>1. n \in DOMAIN g.chunks /\ Append(g.chunks[n], i) \in Seq(1 .. Lines)
    BY <1>1, <1>2
  <2>2. c \in Seq(Seq(1 .. Lines))
    BY <1>1, <2>1
  <2>3. Added(g, i, cost) = [chunks |-> c, used |-> g.used + cost[i]]
    BY <1>2 DEF Added
  <2> HIDE DEF c
  <2> QED
    BY <1>1, <2>2, <2>3 DEF Groups
<1>3. CASE ~(g.chunks # <<>> /\ g.used + cost[i] <= MAX_ANSWER_TOKENS)
  <2> DEFINE c == Append(g.chunks, <<i>>)
  <2>1. Added(g, i, cost) = [chunks |-> c, used |-> cost[i]]
    BY <1>3 DEF Added
  <2>2. c \in Seq(Seq(1 .. Lines))
    BY <1>1
  <2> HIDE DEF c
  <2> QED
    BY <1>1, <2>1, <2>2 DEF Groups
<1> QED
  BY <1>2, <1>3

\* A line beyond all others goes to one chunk.
LEMMA GroupedPlanned ==
  ASSUME NEW lines \in SUBSET (1 .. Lines), NEW i \in 1 .. Lines, NEW cost \in [1 .. Lines -> Nat],
         NEW g, Planned(g, i - 1, lines)
  PROVE  Planned(Added(g, i, cost), i, lines)
<1> DEFINE n == Len(g.chunks)
           h == Added(g, i, cost)
<1>1. /\ g \in Groups /\ g.chunks \in Seq(Seq(1 .. Lines)) /\ n \in Nat
      /\ Apart(g.chunks) /\ Within(g.chunks, i - 1)
  BY DEF Planned, Groups
<1>2. h \in Groups
  BY <1>1, GroupedTyped
<1>3. CASE g.chunks # <<>> /\ g.used + cost[i] <= MAX_ANSWER_TOKENS
  <2> DEFINE q == g.chunks[n]
  <2>1. h.chunks = [g.chunks EXCEPT ![n] = Append(q, i)]
    BY <1>3 DEF Added
  <2>2. n \in DOMAIN g.chunks /\ q \in Seq(1 .. Lines) /\ DOMAIN h.chunks = DOMAIN g.chunks
    BY <1>1, <1>3, <2>1
  <2> HIDE DEF h, n, q
  <2>3. /\ h.chunks[n] = Append(q, i)
        /\ \A k \in DOMAIN h.chunks : k # n => h.chunks[k] = g.chunks[k]
    BY <1>1, <2>1, <2>2
  <2>4. \A a \in DOMAIN Append(q, i) : Append(q, i)[a] = i \/ (a \in DOMAIN q /\ Append(q, i)[a] = q[a])
    BY <2>2, AppendedElement
  <2>5. \A k \in DOMAIN g.chunks : \A a \in DOMAIN g.chunks[k] : g.chunks[k][a] \in 1 .. Lines /\ g.chunks[k][a] < i
    <3> SUFFICES ASSUME NEW k \in DOMAIN g.chunks, NEW a \in DOMAIN g.chunks[k]
                 PROVE  g.chunks[k][a] \in 1 .. Lines /\ g.chunks[k][a] < i
      OBVIOUS
    <3>1. g.chunks[k][a] \in 1 .. Lines
      BY <1>1, ChunksHoldLines
    <3>2. g.chunks[k][a] <= i - 1
      BY <1>1 DEF Within
    <3> QED
      BY <3>1, <3>2, AskingAssumption
  <2>6. \A k \in DOMAIN h.chunks : \A a \in DOMAIN h.chunks[k] :
           \/ k = n /\ h.chunks[k][a] = i
           \/ a \in DOMAIN g.chunks[k] /\ h.chunks[k][a] = g.chunks[k][a]
    BY <2>2, <2>3, <2>4 DEF q
  <2>7. Within(h.chunks, i)
    BY <2>2, <2>5, <2>6 DEF Within
  <2>8. Apart(h.chunks)
    <3> SUFFICES ASSUME NEW k \in DOMAIN h.chunks, NEW l \in DOMAIN h.chunks, k # l,
                        NEW a \in DOMAIN h.chunks[k], NEW b \in DOMAIN h.chunks[l]
                 PROVE  h.chunks[k][a] # h.chunks[l][b]
      BY DEF Apart
    <3>1. CASE h.chunks[k][a] = i /\ k = n
      <4>1. l \in DOMAIN g.chunks /\ b \in DOMAIN g.chunks[l] /\ h.chunks[l][b] = g.chunks[l][b]
        BY <2>2, <2>6, <3>1
      <4> QED
        BY <2>5, <3>1, <4>1
    <3>2. CASE h.chunks[l][b] = i /\ l = n
      <4>1. k \in DOMAIN g.chunks /\ a \in DOMAIN g.chunks[k] /\ h.chunks[k][a] = g.chunks[k][a]
        BY <2>2, <2>6, <3>2
      <4> QED
        BY <2>5, <3>2, <4>1
    <3>3. CASE ~(h.chunks[k][a] = i /\ k = n) /\ ~(h.chunks[l][b] = i /\ l = n)
      <4>1. /\ k \in DOMAIN g.chunks /\ a \in DOMAIN g.chunks[k] /\ h.chunks[k][a] = g.chunks[k][a]
            /\ l \in DOMAIN g.chunks /\ b \in DOMAIN g.chunks[l] /\ h.chunks[l][b] = g.chunks[l][b]
        BY <2>2, <2>6, <3>3
      <4> QED
        BY <1>1, <4>1 DEF Apart
    <3> QED
      BY <3>1, <3>2, <3>3
  <2>9. h.chunks # <<>>
    BY <2>2
  <2> QED
    BY <1>2, <2>7, <2>8, <2>9 DEF Planned, h
<1>4. CASE ~(g.chunks # <<>> /\ g.used + cost[i] <= MAX_ANSWER_TOKENS)
  <2>1. h.chunks = Append(g.chunks, <<i>>)
    BY <1>4 DEF Added
  <2>2. /\ DOMAIN h.chunks = 1 .. n + 1 /\ DOMAIN g.chunks = 1 .. n
        /\ h.chunks[n + 1] = <<i>> /\ \A k \in 1 .. n : h.chunks[k] = g.chunks[k]
    BY <1>1, <2>1
  <2> HIDE DEF h, n
  <2>5. \A k \in DOMAIN g.chunks : \A a \in DOMAIN g.chunks[k] : g.chunks[k][a] \in 1 .. Lines /\ g.chunks[k][a] < i
    <3> SUFFICES ASSUME NEW k \in DOMAIN g.chunks, NEW a \in DOMAIN g.chunks[k]
                 PROVE  g.chunks[k][a] \in 1 .. Lines /\ g.chunks[k][a] < i
      OBVIOUS
    <3>1. g.chunks[k][a] \in 1 .. Lines
      BY <1>1, ChunksHoldLines
    <3>2. g.chunks[k][a] <= i - 1
      BY <1>1 DEF Within
    <3> QED
      BY <3>1, <3>2, AskingAssumption
  <2>6. \A k \in DOMAIN h.chunks : \A a \in DOMAIN h.chunks[k] :
           \/ k = n + 1 /\ h.chunks[k][a] = i
           \/ k \in DOMAIN g.chunks /\ a \in DOMAIN g.chunks[k] /\ h.chunks[k][a] = g.chunks[k][a]
    BY <1>1, <2>2
  <2>7. Within(h.chunks, i)
    BY <2>2, <2>5, <2>6 DEF Within
  <2>8. Apart(h.chunks)
    <3> SUFFICES ASSUME NEW k \in DOMAIN h.chunks, NEW l \in DOMAIN h.chunks, k # l,
                        NEW a \in DOMAIN h.chunks[k], NEW b \in DOMAIN h.chunks[l]
                 PROVE  h.chunks[k][a] # h.chunks[l][b]
      BY DEF Apart
    <3>1. CASE h.chunks[k][a] = i /\ k = n + 1
      <4>1. l \in DOMAIN g.chunks /\ b \in DOMAIN g.chunks[l] /\ h.chunks[l][b] = g.chunks[l][b]
        BY <2>2, <2>6, <3>1
      <4> QED
        BY <2>5, <3>1, <4>1
    <3>2. CASE h.chunks[l][b] = i /\ l = n + 1
      <4>1. k \in DOMAIN g.chunks /\ a \in DOMAIN g.chunks[k] /\ h.chunks[k][a] = g.chunks[k][a]
        BY <2>2, <2>6, <3>2
      <4> QED
        BY <2>5, <3>2, <4>1
    <3>3. CASE ~(h.chunks[k][a] = i /\ k = n + 1) /\ ~(h.chunks[l][b] = i /\ l = n + 1)
      <4>1. /\ k \in DOMAIN g.chunks /\ a \in DOMAIN g.chunks[k] /\ h.chunks[k][a] = g.chunks[k][a]
            /\ l \in DOMAIN g.chunks /\ b \in DOMAIN g.chunks[l] /\ h.chunks[l][b] = g.chunks[l][b]
        BY <2>2, <2>6, <3>3
      <4> QED
        BY <1>1, <4>1 DEF Apart
    <3> QED
      BY <3>1, <3>2, <3>3
  <2>9. h.chunks # <<>>
    BY <1>1, <2>2
  <2> QED
    BY <1>2, <2>7, <2>8, <2>9 DEF Planned, h
<1> QED
  BY <1>3, <1>4

\* No line is asked about in two chunks, and there is one to begin with.
LEMMA PlanIsApart ==
  ASSUME NEW lines \in (SUBSET (1 .. Lines)) \ {{}}, NEW cost \in [1 .. Lines -> LineCosts]
  PROVE  /\ plan_chunks(lines, cost) \in Seq(Seq(1 .. Lines)) /\ plan_chunks(lines, cost) # <<>>
         /\ Apart(plan_chunks(lines, cost))
<1> DEFINE none == [chunks |-> <<>>, used |-> 0]
           On(i, g) == IF i \in lines THEN Added(g, i, cost) ELSE g
           Is(f) == f = [i \in 0 .. Lines |-> IF i = 0 THEN none ELSE On(i, f[i - 1])]
           upto == CHOOSE f : Is(f)
           step == [i \in 1 .. Lines |-> [g \in Groups |-> On(i, g)]]
<1>1. Lines \in Nat /\ cost \in [1 .. Lines -> Nat] /\ lines \in SUBSET (1 .. Lines)
  BY AskingAssumption
<1>2. plan_chunks(lines, cost) = upto[Lines].chunks
  BY Zenon DEF plan_chunks
<1>3. \A i \in 1 .. Lines, g \in Groups : On(i, g) \in Groups
  BY <1>1, GroupedTyped
<1>4. none \in Groups
  BY DEF Groups
<1> HIDE DEF none, On
<1>5. /\ upto[0] = none
      /\ \A i \in 1 .. Lines : upto[i] = On(i, upto[i - 1])
  <2>1. step \in [1 .. Lines -> [Groups -> Groups]]
    BY <1>3
  <2>2. \A i \in 1 .. Lines, g \in Groups : step[i][g] = On(i, g)
    OBVIOUS
  <2> HIDE DEF step
  <2>3. PICK f : Loops(f, Groups, none, Lines, step)
    BY <1>1, <1>4, <2>1, LoopExists
  <2>4. f \in [0 .. Lines -> Groups] /\ f[0] = none /\ \A i \in 1 .. Lines : f[i] = On(i, f[i - 1])
    <3>1. f \in [0 .. Lines -> Groups] /\ f[0] = none /\ \A i \in 1 .. Lines : f[i] = step[i][f[i - 1]]
      BY <2>3 DEF Loops
    <3>2. \A i \in 1 .. Lines : i - 1 \in 0 .. Lines
      BY <1>1
    <3> QED
      BY <2>2, <3>1, <3>2
  <2>5. Is(f)
    BY <1>1, <2>4
  <2>6. Is(upto)
    BY <2>5, Zenon
  <2> HIDE DEF upto
  <2> QED
    BY <1>1, <2>6
<1> HIDE DEF upto, step
<1> DEFINE good == {i \in 0 .. Lines : Planned(upto[i], i, lines)}
<1>6. 0 \in good
  <2>1. Planned(none, 0, lines)
    BY <1>1, <1>4 DEF Planned, none, Apart, Within
  <2> QED
    BY <1>1, <1>5, <2>1
<1>7. \A i \in 1 .. Lines : i - 1 \in good => i \in good
  <2> SUFFICES ASSUME NEW i \in 1 .. Lines, i - 1 \in good PROVE i \in good
    OBVIOUS
  <2> DEFINE g == upto[i - 1]
  <2>1. Planned(g, i - 1, lines)
    OBVIOUS
  <2>2. upto[i] = On(i, g)
    BY <1>5
  <2> HIDE DEF g
  <2>3. Planned(On(i, g), i, lines)
    <3>1. CASE i \in lines
      BY <1>1, <2>1, <3>1, GroupedPlanned DEF On
    <3>2. CASE i \notin lines
      <4>1. Within(g.chunks, i)
        <5>1. g.chunks \in Seq(Seq(1 .. Lines))
          BY <2>1 DEF Planned, Groups
        <5>2. \A k \in DOMAIN g.chunks : \A a \in DOMAIN g.chunks[k] : g.chunks[k][a] \in 1 .. Lines
          BY <5>1, ChunksHoldLines
        <5>3. \A k \in DOMAIN g.chunks : \A a \in DOMAIN g.chunks[k] : g.chunks[k][a] <= i - 1
          BY <2>1 DEF Planned, Within
        <5> QED
          BY <5>2, <5>3 DEF Within
      <4>2. \A j \in lines : j <= i => j <= i - 1
        BY <1>1, <3>2
      <4> QED
        BY <2>1, <3>2, <4>1, <4>2 DEF Planned, On
    <3> QED
      BY <3>1, <3>2
  <2>4. i \in 0 .. Lines
    BY <1>1
  <2> QED
    BY <2>2, <2>3, <2>4
<1> HIDE DEF good
<1>8. 0 .. Lines \subseteq good
  BY <1>1, <1>6, <1>7, EveryPosition
<1>9. Planned(upto[Lines], Lines, lines)
  BY <1>1, <1>8 DEF good
<1> QED
  BY <1>1, <1>2, <1>9 DEF Planned, Groups

-----------------------------------------------------------------------------
\* A chunk is answered once, in its turn: while the lines are asked about, no
\* answer to the chunk under way, or to a later one, has come back.
ChunkInTurn ==
    stage = "lines" =>
        /\ portion \in 1 .. Len(work.plan)
        /\ \A k, i : <<k, i>> \in heard => k \in 1 .. portion - 1

AskInv ==
    /\ work.plan \in Seq(Seq(1 .. Lines)) /\ Apart(work.plan)
    /\ written \in [1 .. Lines -> Nat]
    /\ ChunkInTurn /\ SettledByItsOwn

\* No line is in two chunks of the plan.
LEMMA OneChunk ==
  ASSUME AskInv, NEW k \in 1 .. Len(work.plan), NEW l \in 1 .. Len(work.plan),
         NEW i \in ToSet(work.plan[k]), i \in ToSet(work.plan[l])
  PROVE  k = l
<1>1. k \in DOMAIN work.plan /\ l \in DOMAIN work.plan
  BY DEF AskInv
<1>2. PICK a \in DOMAIN work.plan[k] : work.plan[k][a] = i
  BY DEF ToSet
<1>3. PICK b \in DOMAIN work.plan[l] : work.plan[l][b] = i
  BY DEF ToSet
<1> QED
  BY <1>1, <1>2, <1>3 DEF AskInv, Apart

LEMMA AskInitially == AskInit => AskInv
<1> SUFFICES ASSUME AskInit PROVE AskInv
  OBVIOUS
<1>1. PICK l \in (SUBSET (1 .. Lines)) \ {{}}, c \in [1 .. Lines -> LineCosts] :
         work.plan = plan_chunks(l, c)
  <2>1. work \in Work
    BY DEF AskInit
  <2> QED
    BY <2>1 DEF Work
<1>2. /\ work.plan \in Seq(Seq(1 .. Lines)) /\ work.plan # <<>> /\ Apart(work.plan)
  BY <1>1, PlanIsApart
<1>3. 1 \in 1 .. Len(work.plan)
  BY <1>2
<1>4. ChunkInTurn
  BY <1>3 DEF AskInit, ChunkInTurn
<1>5. written \in [1 .. Lines -> Nat] /\ SettledByItsOwn
  BY AskingAssumption DEF AskInit, SettledByItsOwn
<1> QED
  BY <1>2, <1>4, <1>5 DEF AskInv

\* What changes neither the lines nor the answers keeps them settled, as long
\* as it stays where it is or leaves the lines behind.
LEMMA NothingHeard ==
  ASSUME AskInv, UNCHANGED <<work, written, heard>>,
         stage' # "lines" \/ UNCHANGED <<stage, portion>>
  PROVE  AskInv'
<1>1. SettledByItsOwn'
  BY DEF AskInv, SettledByItsOwn
<1>2. ChunkInTurn'
  BY DEF AskInv, ChunkInTurn
<1> QED
  BY <1>1, <1>2 DEF AskInv

\* After a chunk comes the next one, or the lines are done with.
LEMMA NextInTurn ==
  ASSUME AskInv, stage = "lines", UNCHANGED work, NEW taken, NextChunk(taken),
         \A k, i : <<k, i>> \in heard' => k \in 1 .. portion
  PROVE  ChunkInTurn'
<1>1. portion \in 1 .. Len(work.plan) /\ Len(work.plan) \in Nat
  BY DEF AskInv, ChunkInTurn
<1>2. CASE portion < Len(work.plan)
  <2>1. stage' = "lines" /\ portion' = portion + 1
    BY <1>2 DEF NextChunk, Send
  <2> QED
    BY <1>1, <1>2, <2>1 DEF ChunkInTurn
<1>3. CASE ~(portion < Len(work.plan))
  BY <1>3 DEF NextChunk, Send, JobEnds, ChunkInTurn
<1> QED
  BY <1>2, <1>3

LEMMA LinedSettles == ASSUME AskInv, Lined PROVE AskInv'
<1>1. PICK lines \in SUBSET (1 .. Lines) :
         /\ heard' = heard \cup ({portion} \X lines)
         /\ written' = [i \in 1 .. Lines |-> IF i \in Accepted(lines) THEN portion ELSE written[i]]
  BY DEF Lined
<1>2. stage = "lines" /\ work' = work /\ NextChunk(written')
  BY DEF Lined
<1>3. /\ portion \in 1 .. Len(work.plan) /\ Len(work.plan) \in Nat
      /\ \A k, i : <<k, i>> \in heard => k \in 1 .. portion - 1
  BY <1>2 DEF AskInv, ChunkInTurn
<1>4. written' \in [1 .. Lines -> Nat]
  BY <1>1, <1>3 DEF AskInv
<1>5. ASSUME NEW i \in 1 .. Lines, NEW k \in 1 .. Len(work.plan), i \in ToSet(work.plan[k])
      PROVE  (written'[i] # 0 <=> <<k, i>> \in heard') /\ written'[i] \in {0, k}
  <2>1. (written[i] # 0 <=> <<k, i>> \in heard) /\ written[i] \in {0, k}
    BY <1>5 DEF AskInv, SettledByItsOwn
  <2>2. CASE k = portion
    <3>1. <<k, i>> \notin heard /\ written[i] = 0
      BY <1>3, <2>1, <2>2
    <3>2. i \in Accepted(lines) <=> i \in lines
      BY <1>5, <2>2 DEF Accepted, Asked
    <3>3. <<k, i>> \in heard' <=> i \in lines
      BY <1>1, <2>2, <3>1
    <3> QED
      BY <1>1, <1>3, <2>2, <3>1, <3>2, <3>3
  <2>3. CASE k # portion
    <3>1. i \notin Accepted(lines)
      BY <1>3, <1>5, <2>3, OneChunk DEF Accepted, Asked
    <3>2. <<k, i>> \in heard' <=> <<k, i>> \in heard
      BY <1>1, <2>3
    <3> QED
      BY <1>1, <2>1, <3>1, <3>2
  <2> QED
    BY <2>2, <2>3
<1>6. SettledByItsOwn'
  BY <1>2, <1>5 DEF SettledByItsOwn
<1>7. \A k, i : <<k, i>> \in heard' => k \in 1 .. portion
  BY <1>1, <1>3
<1>8. ChunkInTurn'
  BY <1>2, <1>7, NextInTurn
<1> QED
  BY <1>2, <1>4, <1>6, <1>8 DEF AskInv

LEMMA AskStep == ASSUME AskInv, [AskNext]_askVars PROVE AskInv'
<1>1. CASE UNCHANGED askVars
  BY <1>1, NothingHeard DEF askVars
<1>2. ASSUME NEW f \in Features, FeatureRefused(f) PROVE AskInv'
  BY <1>2, NothingHeard DEF FeatureRefused
<1>3. CASE TooLong
  BY <1>3, NothingHeard DEF TooLong
<1>4. CASE Lined
  BY <1>4, LinedSettles
<1>5. CASE Validated
  <2>1. stage' # "lines" /\ UNCHANGED <<work, written, heard>>
    BY <1>5 DEF Validated, Finish, Send, JobEnds
  <2> QED
    BY <2>1, NothingHeard
<1>6. CASE Candidates
  <2>1. stage' # "lines" /\ UNCHANGED <<work, written, heard>>
    BY <1>6 DEF Candidates, Gathered, Finish, Send, JobEnds
  <2> QED
    BY <2>1, NothingHeard
<1>7. CASE Picked
  <2>1. stage' # "lines" /\ UNCHANGED <<work, written, heard>>
    BY <1>7 DEF Picked, Finish, Send, JobEnds
  <2> QED
    BY <2>1, NothingHeard
<1>8. CASE Localized
  BY <1>8, NothingHeard DEF Localized, JobEnds
<1>9. CASE Unanswered
  <2>1. UNCHANGED <<work, written, heard>>
    BY <1>9 DEF Unanswered
  <2>2. CASE stage = "lines"
    <3>1. NextChunk(written)
      BY <1>9, <2>2 DEF Unanswered
    <3>2. \A k, i : <<k, i>> \in heard' => k \in 1 .. portion
      BY <2>1, <2>2 DEF AskInv, ChunkInTurn
    <3>3. ChunkInTurn'
      BY <2>1, <2>2, <3>1, <3>2, NextInTurn
    <3>4. SettledByItsOwn'
      BY <2>1 DEF AskInv, SettledByItsOwn
    <3> QED
      BY <2>1, <3>3, <3>4 DEF AskInv
  <2>3. CASE stage # "lines"
    <3>1. stage' # "lines"
      BY <1>9, <2>3 DEF Unanswered, JobEnds
    <3> QED
      BY <2>1, <3>1, NothingHeard
  <2> QED
    BY <2>2, <2>3
<1>10. CASE Stops
  BY <1>10, NothingHeard DEF Stops, JobEnds
<1> QED
  BY <1>1, <1>2, <1>3, <1>4, <1>5, <1>6, <1>7, <1>8, <1>9, <1>10 DEF AskNext

\* However long the transcript, however its lines fall into chunks, and
\* whatever lines the answers give beside those they were asked for: a line
\* holds what the answer to its own chunk gave it, and keeps it.
THEOREM LinesKeepTheirAnswer == AskSpec => []SettledByItsOwn
<1>1. AskInit => AskInv
  BY AskInitially
<1>2. AskInv /\ [AskNext]_askVars => AskInv'
  BY AskStep
<1>3. AskInv => SettledByItsOwn
  BY DEF AskInv
<1> QED
  BY <1>1, <1>2, <1>3, PTL DEF AskSpec

-----------------------------------------------------------------------------
\* What becomes of a proposed short: Cuts.

\* A sum of integers is one.
LEMMA TotalIsInt ==
  ASSUME NEW spans \in Seq(Int)
  PROVE  Total(spans) \in Int
<1> DEFINE m == Len(spans)
           S == Int
           none == 0
           On(k, x) == x + spans[k]
           Is(f) == f = [k \in 0 .. m |-> IF k = 0 THEN none ELSE On(k, f[k - 1])]
           upto == CHOOSE f : Is(f)
           step == [k \in 1 .. m |-> [x \in S |-> On(k, x)]]
<1>1. m \in Nat /\ none \in S /\ \A k \in 1 .. m, x \in S : On(k, x) \in S
  OBVIOUS
<1>2. Total(spans) = upto[m]
  BY Zenon DEF Total
<1> HIDE DEF On, m, S, none
<1>3. step \in [1 .. m -> [S -> S]] /\ \A k \in 1 .. m, x \in S : step[k][x] = On(k, x)
  BY <1>1
<1> HIDE DEF step
<1>4. PICK f : Loops(f, S, none, m, step)
  BY <1>1, <1>3, LoopExists
<1>5. f \in [0 .. m -> S] /\ f[0] = none /\ \A k \in 1 .. m : f[k] = On(k, f[k - 1])
  BY <1>1, <1>3, <1>4 DEF Loops
<1>6. Is(f)
  BY <1>1, <1>5
<1>7. Is(upto)
  BY <1>6, Zenon
<1> HIDE DEF upto
<1>8. upto[0] = none /\ \A k \in 1 .. m : upto[k] = On(k, upto[k - 1])
  BY <1>1, <1>7
<1> DEFINE good == {k \in 0 .. m : upto[k] \in S}
<1>9. 0 \in good
  BY <1>1, <1>8
<1>10. \A k \in 1 .. m : k - 1 \in good => k \in good
  BY <1>1, <1>8
<1> HIDE DEF good
<1>11. m \in Nat
  BY <1>1
<1>12. 0 .. m \subseteq good
  BY <1>9, <1>10, <1>11, EveryPosition
<1>13. m \in good
  BY <1>11, <1>12
<1> QED
  BY <1>2, <1>13 DEF good, S

\* Segments have times, in whatever order and of whatever length, and so has
\* the video.
SegmentsTimed ==
    /\ LastSegment \in Nat /\ DOMAIN segments = 0 .. LastSegment
    /\ \A i \in 0 .. LastSegment : segments[i].start \in Nat /\ segments[i].end \in Nat
    /\ duration_sec \in Nat

LEMMA SourcesAreTimed ==
  ASSUME NEW source \in Sources, segments = Indexed(source.segments), duration_sec = source.length
  PROVE  SegmentsTimed
<1> DEFINE told == source.segments
           m == Len(told)
<1>1. told \in Seq([start: Nat, end: Nat]) /\ told # <<>> /\ duration_sec \in Nat
  BY CutAssumption
<1> HIDE DEF told
<1>2. m \in Nat \ {0} /\ \A k \in 1 .. m : told[k].start \in Nat /\ told[k].end \in Nat
  <2> DEFINE Times == [start: Nat, end: Nat]
  <2> HIDE DEF Times
  <2>1. m \in Nat \ {0} /\ \A k \in 1 .. m : told[k] \in Times
    <3>1. told \in Seq(Times) /\ told # <<>>
      BY <1>1 DEF Times
    <3> QED
      BY <3>1
  <2>2. \A t \in Times : t.start \in Nat /\ t.end \in Nat
    BY DEF Times
  <2> QED
    BY <2>1, <2>2
<1>3. segments = [i \in 0 .. m - 1 |-> told[i + 1]]
  BY DEF Indexed, told
<1> HIDE DEF m
<1>4. LastSegment = m - 1 /\ DOMAIN segments = 0 .. m - 1
  <2>1. 0 \in Int /\ m - 1 \in Int /\ ~(0 > m - 1)
    BY <1>2
  <2>2. Cardinality(0 .. m - 1) = IF 0 > m - 1 THEN 0 ELSE (m - 1) - 0 + 1
    BY <2>1, FS_Interval
  <2> QED
    BY <1>2, <1>3, <2>1, <2>2 DEF LastSegment
<1>5. \A i \in 0 .. m - 1 : segments[i].start \in Nat /\ segments[i].end \in Nat
  <2>1. \A i \in 0 .. m - 1 : i + 1 \in 1 .. m /\ segments[i] = told[i + 1]
    BY <1>2, <1>3
  <2> QED
    BY <1>2, <2>1
<1> QED
  BY <1>1, <1>2, <1>4, <1>5 DEF SegmentsTimed

Span == [first : Int, last : Int, role : Roles]

Fits(cs) == cs \in Seq(Span) /\ cs # <<>>

InTheSource(cs) == \A i \in DOMAIN cs : InSource(cs[i])

LEMMA OfTwo ==
  ASSUME NEW a \in Int, NEW b \in Int
  PROVE  /\ Min({a, b}) \in {a, b} /\ Min({a, b}) <= a /\ Min({a, b}) <= b
         /\ Max({a, b}) \in {a, b} /\ Max({a, b}) >= a /\ Max({a, b}) >= b
<1>1. \E x \in {a, b} : \A y \in {a, b} : x <= y
  OBVIOUS
<1>2. \E x \in {a, b} : \A y \in {a, b} : x >= y
  OBVIOUS
<1>3. Min({a, b}) \in {a, b} /\ \A y \in {a, b} : Min({a, b}) <= y
  BY <1>1 DEF Min
<1>4. Max({a, b}) \in {a, b} /\ \A y \in {a, b} : Max({a, b}) >= y
  BY <1>2 DEF Max
<1> QED
  BY <1>3, <1>4

LEMMA LesserAndGreater ==
  ASSUME NEW a \in Int, NEW b \in Int, a <= b
  PROVE  Min({b, a}) = a /\ Min({a, b}) = a /\ Max({a, b}) = b
<1>1. {b, a} = {a, b}
  OBVIOUS
<1>2. /\ Min({a, b}) \in {a, b} /\ Min({a, b}) <= a
      /\ Max({a, b}) \in {a, b} /\ Max({a, b}) >= b
  BY OfTwo
<1> DEFINE least == Min({a, b})
           most == Max({a, b})
<1> HIDE DEF least, most
<1>3. (least = a \/ least = b) /\ least <= a /\ (most = a \/ most = b) /\ most >= b
  BY <1>2 DEF least, most
<1>4. least = a /\ most = b
  BY <1>3
<1> QED
  BY <1>1, <1>4 DEF least, most

LEMMA LeastOf ==
  ASSUME NEW S, S \subseteq Nat, S # {}
  PROVE  Min(S) \in S
<1>1. \E x \in S : \A y \in S : x <= y
  BY Least
<1> QED
  BY <1>1 DEF Min

LEMMA SpanOf ==
  ASSUME SegmentsTimed, NEW c \in Span, InSource(c)
  PROVE  /\ cut_span(c) = segments[c.last].end - segments[c.first].start
         /\ segments[c.last].end \in Nat /\ segments[c.first].start \in Nat
<1>1. c.first \in 0 .. LastSegment /\ c.last \in 0 .. LastSegment
  BY DEF Span, SegmentsTimed, InSource
<1> QED
  BY <1>1 DEF cut_span, SegmentsTimed

LEMMA SpanIsInt ==
  ASSUME SegmentsTimed, NEW c \in Span
  PROVE  cut_span(c) \in Int
<1>1. CASE InSource(c)
  <2>1. /\ cut_span(c) = segments[c.last].end - segments[c.first].start
        /\ segments[c.last].end \in Nat /\ segments[c.first].start \in Nat
    BY <1>1, SpanOf
  <2> QED
    BY <2>1
<1>2. CASE ~InSource(c)
  BY <1>2 DEF cut_span
<1> QED
  BY <1>1, <1>2

LEMMA DurationIsInt ==
  ASSUME SegmentsTimed, NEW cs, Fits(cs)
  PROVE  total_duration(cs) \in Int
<1> DEFINE spans == [i \in DOMAIN cs |-> cut_span(cs[i]) + 2 * CUT_PAD]
<1>1. \A i \in DOMAIN cs : cs[i] \in Span
  BY DEF Fits
<1>2. \A i \in DOMAIN cs : cut_span(cs[i]) + 2 * CUT_PAD \in Int
  <2>1. \A i \in DOMAIN cs : cut_span(cs[i]) \in Int
    BY <1>1, SpanIsInt
  <2> QED
    BY <2>1, CutAssumption
<1>3. DOMAIN cs = 1 .. Len(cs) /\ Len(cs) \in Nat
  BY DEF Fits
<1>4. spans \in Seq(Int)
  BY <1>2, <1>3
<1> QED
  BY <1>4, TotalIsInt DEF total_duration

LEMMA OnVideoWithin ==
  ASSUME NEW t \in Int, duration_sec \in Nat, 0 <= t, t <= duration_sec
  PROVE  OnVideo(t) = t
<1>1. Min({t, duration_sec}) = t
  BY LesserAndGreater
<1>2. Max({0, t}) = t
  BY LesserAndGreater
<1> QED
  BY <1>1, <1>2 DEF OnVideo

\* A padding to either side.
PaddingIsThere(c) ==
    /\ cut_span(c) > 0
    /\ segments[c.first].start >= CUT_PAD
    /\ segments[c.last].end + CUT_PAD <= duration_sec

\* Where the video goes on for it, the padding that is counted is played.
LEMMA PaddingIsPlayed ==
  ASSUME SegmentsTimed, NEW cs, Fits(cs), InTheSource(cs),
         \A i \in DOMAIN cs : PaddingIsThere(cs[i])
  PROVE  built_duration(cs) = total_duration(cs)
<1>1. ASSUME NEW i \in DOMAIN cs PROVE resolved(cs[i]) = cut_span(cs[i]) + 2 * CUT_PAD
  <2> DEFINE c == cs[i]
  <2>1. c \in Span /\ InSource(c) /\ PaddingIsThere(c)
    BY DEF Fits, InTheSource
  <2> HIDE DEF c
  <2> DEFINE from == segments[c.first].start
             to == segments[c.last].end
  <2>2. from \in Nat /\ to \in Nat /\ cut_span(c) = to - from
    BY <2>1, SpanOf
  <2>3. /\ CUT_PAD \in Nat /\ duration_sec \in Nat
        /\ from < to /\ from >= CUT_PAD /\ to + CUT_PAD <= duration_sec
    <3>1. cut_span(c) > 0 /\ from >= CUT_PAD /\ to + CUT_PAD <= duration_sec
      BY <2>1 DEF PaddingIsThere
    <3>2. CUT_PAD \in Nat /\ duration_sec \in Nat
      BY CutAssumption DEF SegmentsTimed
    <3> HIDE DEF from, to
    <3> QED
      BY <2>2, <3>1, <3>2
  <2>4. resolved(c) = OnVideo(to + CUT_PAD) - OnVideo(from - CUT_PAD)
    BY DEF resolved
  <2> HIDE DEF from, to
  <2>5. OnVideo(to + CUT_PAD) = to + CUT_PAD
    <3>1. to + CUT_PAD \in Int /\ 0 <= to + CUT_PAD
      BY <2>2, <2>3
    <3> QED
      BY <2>3, <3>1, OnVideoWithin
  <2>6. OnVideo(from - CUT_PAD) = from - CUT_PAD
    <3>1. from - CUT_PAD \in Int /\ 0 <= from - CUT_PAD /\ from - CUT_PAD <= duration_sec
      BY <2>2, <2>3
    <3> QED
      BY <2>3, <3>1, OnVideoWithin
  <2>7. resolved(c) = cut_span(c) + 2 * CUT_PAD
    BY <2>2, <2>3, <2>4, <2>5, <2>6
  <2> QED
    BY <2>7 DEF c
<1> QED
  BY <1>1 DEF built_duration, total_duration
-----------------------------------------------------------------------------
\* An edge goes no further than it may.
LEMMA NearbyWithin ==
  ASSUME NEW index \in Nat, NEW targets, NEW low \in Nat, NEW high \in Nat, low <= index, index <= high
  PROVE  Nearby(index, targets, low, high) \subseteq low .. high
<1> DEFINE reach == {t \in targets \cap (low..high) :
                       t - index \in -MAX_SNAP_SEGMENTS..MAX_SNAP_SEGMENTS}
           nearest == {t \in reach : \A u \in reach :
                        (t - index) * (t - index) <= (u - index) * (u - index)}
<1>1. nearest \subseteq low .. high
  OBVIOUS
<1>2. Nearby(index, targets, low, high) = (IF index \in targets THEN {index}
                                           ELSE IF nearest = {} THEN {} ELSE {Min(nearest)})
  BY Zenon DEF Nearby
<1> HIDE DEF nearest
<1>3. ASSUME nearest # {} PROVE Min(nearest) \in low .. high
  <2>1. nearest \subseteq Nat
    BY <1>1
  <2>2. Min(nearest) \in nearest
    BY <1>3, <2>1, LeastOf
  <2> QED
    BY <1>1, <2>2
<1> QED
  BY <1>2, <1>3

LEMMA BoundaryWithin ==
  ASSUME NEW index \in Nat, NEW strong, NEW weak, NEW low \in Nat, NEW high \in Nat, low <= index, index <= high
  PROVE  nearest_boundary(index, strong, weak, low, high) \in low .. high
<1> DEFINE A == Nearby(index, strong, low, high)
           B == Nearby(index, weak, low, high)
           S == A \cup (IF A # {} THEN {} ELSE IF B # {} THEN B ELSE {index})
<1>1. A \subseteq low .. high /\ B \subseteq low .. high /\ index \in low .. high
  BY NearbyWithin
<1>2. nearest_boundary(index, strong, weak, low, high) = CHOOSE t \in S : TRUE
  BY Zenon DEF nearest_boundary
<1> HIDE DEF A, B
<1>3. S # {} /\ S \subseteq low .. high
  BY <1>1
<1> HIDE DEF S
<1> QED
  BY <1>2, <1>3

LEMMA ClampedWithin ==
  ASSUME LastSegment \in Nat, NEW index \in Int
  PROVE  Clamped(index) \in 0 .. LastSegment
<1> DEFINE below == Min({index, LastSegment})
<1>1. below \in {index, LastSegment} /\ below <= LastSegment
  BY OfTwo
<1>2. below \in Int /\ Clamped(index) = Max({0, below})
  BY <1>1 DEF Clamped
<1> HIDE DEF below
<1>3. Max({0, below}) \in {0, below} /\ Max({0, below}) >= 0
  BY <1>2, OfTwo
<1> QED
  BY <1>1, <1>2, <1>3

LEMMA SnappedSpan ==
  ASSUME SegmentsTimed, NEW c \in Span
  PROVE  snap_cut(c) \in Span /\ snap_cut(c).role = c.role /\ InSource(snap_cut(c))
<1> DEFINE first == Min({Clamped(c.first), Clamped(c.last)})
           last == Max({Clamped(c.first), Clamped(c.last)})
           end == nearest_boundary(last, marks.sentences, marks.pauses, first, LastSegment)
           begin == IF first = 0 THEN 0
                    ELSE nearest_boundary(first, After(marks.sentences), After(marks.pauses), 0, end)
<1>1. c.first \in Int /\ c.last \in Int /\ LastSegment \in Nat /\ c.role \in Roles
  BY DEF Span, SegmentsTimed
<1>2. Clamped(c.first) \in 0 .. LastSegment /\ Clamped(c.last) \in 0 .. LastSegment
  BY <1>1, ClampedWithin
<1>3. first \in 0 .. LastSegment /\ last \in 0 .. LastSegment /\ first <= last
  <2> DEFINE a == Clamped(c.first)
             b == Clamped(c.last)
  <2> HIDE DEF a, b
  <2>1. a \in Int /\ b \in Int
    BY <1>2 DEF a, b
  <2>2. Min({a, b}) \in {a, b} /\ Max({a, b}) \in {a, b} /\ Min({a, b}) <= a /\ Max({a, b}) >= a
    BY <2>1, OfTwo
  <2>3. first = Min({a, b}) /\ last = Max({a, b})
    BY DEF a, b
  <2> HIDE DEF first, last
  <2>4. first \in {a, b} /\ last \in {a, b} /\ first <= a /\ last >= a
    BY <2>2, <2>3
  <2>5. a \in 0 .. LastSegment /\ b \in 0 .. LastSegment
    BY <1>2 DEF a, b
  <2> QED
    BY <1>1, <2>4, <2>5
<1>4. snap_cut(c) = [c EXCEPT !.last = end, !.first = begin]
  BY Zenon DEF snap_cut
<1> HIDE DEF first, last
<1>5. end \in first .. LastSegment
  BY <1>1, <1>3, BoundaryWithin
<1> HIDE DEF end
<1>6. begin \in 0 .. end
  <2>1. end \in Nat /\ first <= end /\ 0 \in Nat /\ 0 <= first /\ first \in Nat
    BY <1>1, <1>3, <1>5
  <2>2. CASE first = 0
    BY <2>1, <2>2
  <2>3. CASE first # 0
    <3>1. nearest_boundary(first, After(marks.sentences), After(marks.pauses), 0, end) \in 0 .. end
      BY <2>1, BoundaryWithin
    <3> QED
      BY <2>3, <3>1
  <2> QED
    BY <2>2, <2>3
<1> HIDE DEF begin
<1>7. begin \in Int /\ end \in Int /\ 0 <= begin /\ begin <= end /\ end <= LastSegment
  BY <1>1, <1>3, <1>5, <1>6
<1> QED
  BY <1>1, <1>4, <1>7 DEF Span, InSource

\* A finite set of natural numbers that holds any has a greatest.
LEMMA Greatest ==
  ASSUME NEW T, T \subseteq Nat, T # {}, IsFiniteSet(T)
  PROVE  \E x \in T : \A y \in T : y <= x
<1>1. PICK m \in Nat : ExistsSurjection(1 .. m, T)
  BY FS_NatSurjection
<1>2. PICK f \in [1 .. m -> T] : \A x \in T : \E i \in 1 .. m : f[i] = x
  BY <1>1 DEF ExistsSurjection, Surjection
<1> DEFINE good == {k \in 0 .. m : k = 0 \/ \E i \in 1 .. k : \A j \in 1 .. k : f[j] <= f[i]}
<1>3. 0 \in good
  OBVIOUS
<1>4. ASSUME NEW k \in 1 .. m, k - 1 \in good PROVE k \in good
  <2>1. f[k] \in Nat /\ \A i \in 1 .. k : f[i] \in Nat
    <3>1. \A i \in 1 .. m : f[i] \in Nat
      BY <1>2
    <3> QED
      BY <3>1
  <2>2. CASE k = 1
    <3>1. 1 \in 1 .. k /\ \A j \in 1 .. k : f[j] <= f[1]
      BY <2>1, <2>2
    <3> QED
      BY <3>1
  <2>3. CASE k # 1
    <3>1. PICK i \in 1 .. k - 1 : \A j \in 1 .. k - 1 : f[j] <= f[i]
      BY <1>4, <2>3
    <3>2. i \in 1 .. k /\ k \in 1 .. k /\ \A j \in 1 .. k : j = k \/ j \in 1 .. k - 1
      OBVIOUS
    <3>3. f[i] \in Nat /\ \A j \in 1 .. k : f[j] <= f[i] \/ f[j] <= f[k]
      BY <2>1, <3>1, <3>2
    <3>4. \/ \A j \in 1 .. k : f[j] <= f[i]
          \/ \A j \in 1 .. k : f[j] <= f[k]
      BY <2>1, <3>1, <3>2, <3>3
    <3>5. \E x \in 1 .. k : \A j \in 1 .. k : f[j] <= f[x]
      BY <3>2, <3>4
    <3> QED
      BY <3>5
  <2> QED
    BY <2>2, <2>3
<1> HIDE DEF good
<1>5. 0 .. m \subseteq good
  BY <1>3, <1>4, EveryPosition
<1>6. m # 0
  <2>1. PICK x \in T : TRUE
    OBVIOUS
  <2>2. PICK i \in 1 .. m : f[i] = x
    BY <1>2
  <2> QED
    BY <2>2
<1>7. PICK i \in 1 .. m : \A j \in 1 .. m : f[j] <= f[i]
  <2>1. m \in good
    BY <1>5
  <2> QED
    BY <1>6, <2>1 DEF good
<1> QED
  BY <1>2, <1>7

\* The shortest of some cuts is one of them, and so is the widest.
LEMMA ChosenIsOne ==
  ASSUME SegmentsTimed, Fits(cuts), NEW places \in SUBSET DOMAIN cuts, places # {}
  PROVE  Shortest(places) \in places /\ Widest(places) \in places
<1> DEFINE span(i) == cut_span(cuts[i])
           size(i) == IF span(i) < 0 THEN 0 - span(i) ELSE span(i)
<1>1. \A i \in DOMAIN cuts : cuts[i] \in Span
  BY DEF Fits
<1>2. \A i \in places : span(i) \in Int
  BY <1>1, SpanIsInt
<1>3. places \subseteq Nat /\ IsFiniteSet(places)
  <2>1. DOMAIN cuts = 1 .. Len(cuts) /\ Len(cuts) \in Nat
    BY DEF Fits
  <2>2. IsFiniteSet(1 .. Len(cuts))
    BY <2>1, FS_Interval
  <2> QED
    BY <2>1, <2>2, FS_Subset
<1> HIDE DEF span
<1>4. PICK most \in Nat : \A i \in places : size(i) <= most
  <2> DEFINE T == {size(i) : i \in places}
  <2>1. T \subseteq Nat /\ T # {}
    BY <1>2
  <2>4. \A i \in places : size(i) \in T
    OBVIOUS
  <2> HIDE DEF size
  <2> DEFINE sized == [i \in places |-> size(i)]
  <2>5. sized \in Surjection(places, T)
    BY DEF Surjection
  <2> HIDE DEF sized
  <2>2. IsFiniteSet(T)
    BY <1>3, <2>5, FS_Surjection
  <2> HIDE DEF T
  <2>3. PICK x \in T : \A y \in T : y <= x
    BY <2>1, <2>2, Greatest
  <2> QED
    BY <2>1, <2>3, <2>4
<1>5. \A i \in places : span(i) + most \in Nat /\ most - span(i) \in Nat
  BY <1>2, <1>4
<1>6. Shortest(places) \in places
  <2> DEFINE T == {span(i) + most : i \in places}
             S == {i \in places : \A j \in places : span(i) <= span(j)}
  <2>1. T \subseteq Nat /\ T # {}
    BY <1>5
  <2>2. PICK x \in T : \A y \in T : x <= y
    BY <2>1, Least
  <2>3. PICK i \in places : x = span(i) + most
    BY <2>2
  <2>4. ASSUME NEW j \in places PROVE span(i) <= span(j)
    <3>1. span(i) + most <= span(j) + most
      BY <2>2, <2>3
    <3> QED
      BY <1>2, <3>1
  <2>5. S \subseteq Nat /\ i \in S /\ Shortest(places) = Min(S)
    BY <1>3, <2>4 DEF Shortest, span
  <2> HIDE DEF S
  <2>6. Shortest(places) \in S
    BY <2>5, LeastOf
  <2> QED
    BY <2>6 DEF S
<1>7. Widest(places) \in places
  <2> DEFINE T == {most - span(i) : i \in places}
             S == {i \in places : \A j \in places : span(j) <= span(i)}
  <2>1. T \subseteq Nat /\ T # {}
    BY <1>5
  <2>2. PICK x \in T : \A y \in T : x <= y
    BY <2>1, Least
  <2>3. PICK i \in places : x = most - span(i)
    BY <2>2
  <2>4. ASSUME NEW j \in places PROVE span(j) <= span(i)
    <3>1. most - span(i) <= most - span(j)
      BY <2>2, <2>3
    <3> QED
      BY <1>2, <3>1
  <2>5. S \subseteq Nat /\ i \in S /\ Widest(places) = Min(S)
    BY <1>3, <2>4 DEF Widest, span
  <2> HIDE DEF S
  <2>6. Widest(places) \in S
    BY <2>5, LeastOf
  <2> QED
    BY <2>6 DEF S
<1> QED
  BY <1>6, <1>7
-----------------------------------------------------------------------------
\* What no repair may cost the short.
Story(cs) ==
    /\ cs[Len(cs)].role = proposal[Len(proposal)].role
    /\ Len(cs) >= Min({MIN_CUTS, Len(proposal)})
    /\ (\E i \in DOMAIN proposal : proposal[i].role = "hook") =>
         \E i \in DOMAIN cs : cs[i].role = "hook"

\* Cuts are spans of the source and tell what was proposed, also those that a
\* repair in vain goes back to; narrowing leaves a long short long enough; and
\* what comes to the builder is what the judge has measured.
CutInv ==
    /\ SegmentsTimed
    /\ repairing \in {"snap", "shrink", "narrow", "judge", "build", "built",
                      "dropped", "refused"}
    /\ Fits(cuts) /\ Fits(entered) /\ Fits(proposal)
    /\ repairing # "snap" /\ Marked => InTheSource(cuts) /\ InTheSource(entered)
    /\ Story(cuts) /\ Story(entered)
    /\ repairing = "narrow" => cuts = entered \/ total_duration(cuts) >= MIN_DURATION
    /\ repairing = "judge" =>
         (total_duration(cuts) < MIN_DURATION => total_duration(entered) < MIN_DURATION)
    /\ repairing \in {"build", "built", "dropped"} => Usable
    /\ repairing = "dropped" => ~HoldsTogether

LEMMA OwnStory == ASSUME Fits(proposal) PROVE Story(proposal)
<1>1. Len(proposal) \in Nat /\ MIN_CUTS \in Int /\ Len(proposal) \in Int
  BY CutAssumption DEF Fits
<1>2. Min({MIN_CUTS, Len(proposal)}) <= Len(proposal)
  BY <1>1, OfTwo
<1> QED
  BY <1>2 DEF Story

LEMMA CutInitially == CutInit => CutInv
<1> SUFFICES ASSUME CutInit PROVE CutInv
  OBVIOUS
<1>1. PICK source \in Sources : segments = Indexed(source.segments) /\ duration_sec = source.length
  BY DEF CutInit
<1>2. SegmentsTimed
  BY <1>1, SourcesAreTimed
<1>3. proposal \in Proposals /\ cuts = proposal /\ entered = proposal /\ repairing = "snap" /\ marks \in Marks
  BY DEF CutInit
<1>7. Fits(proposal)
  BY <1>3, CutAssumption DEF Fits, Span
<1>8. Story(proposal)
  BY <1>7, OwnStory
<1> QED
  BY <1>2, <1>3, <1>7, <1>8 DEF CutInv

\* Cuts of the same roles tell the same story.
LEMMA SameRoles ==
  ASSUME NEW cs, NEW ds, Fits(cs), Story(cs), ds \in Seq(Span), DOMAIN ds = DOMAIN cs,
         \A i \in DOMAIN cs : ds[i].role = cs[i].role
  PROVE  Story(ds) /\ ds # <<>>
<1>1. Len(cs) \in Nat \ {0} /\ DOMAIN cs = 1 .. Len(cs) /\ DOMAIN ds = 1 .. Len(ds) /\ Len(ds) \in Nat
  BY DEF Fits
<1>2. Len(ds) = Len(cs)
  BY <1>1
<1>3. Len(cs) \in DOMAIN cs
  BY <1>1
<1> QED
  BY <1>1, <1>2, <1>3 DEF Story

\* A step of the loop that changes cuts alone.
LEMMA RepairedKeeps ==
  ASSUME CutInv, UNCHANGED <<segments, duration_sec, marks, proposal, entered, repairing>>,
         repairing \in {"shrink", "narrow"}, Fits(cuts'), Story(cuts'),
         repairing = "narrow" => total_duration(cuts') >= MIN_DURATION,
         InTheSource(cuts) => InTheSource(cuts')
  PROVE  CutInv'
<1>1. SegmentsTimed' /\ Fits(entered)' /\ Fits(proposal)' /\ Story(entered)' /\ Fits(cuts)' /\ Story(cuts)'
  BY DEF CutInv, SegmentsTimed, Fits, Story, LastSegment
<1>2. total_duration(cuts)' = total_duration(cuts')
  BY DEF total_duration, cut_span, InSource, LastSegment
<1>3. InTheSource(cuts)' = InTheSource(cuts') /\ InTheSource(entered)' = InTheSource(entered) /\ Marked' = Marked
  BY DEF InTheSource, InSource, LastSegment, Marked
<1> QED
  BY <1>1, <1>2, <1>3 DEF CutInv

LEMMA SnapKeeps == ASSUME CutInv, Snap PROVE CutInv'
<1>1. \A i \in DOMAIN cuts : cuts[i] \in Span
  BY DEF CutInv, Fits
<1>2. SegmentsTimed
  BY DEF CutInv
<1>3. \A i \in DOMAIN cuts : /\ snap_cut(cuts[i]) \in Span /\ snap_cut(cuts[i]).role = cuts[i].role
                             /\ InSource(snap_cut(cuts[i]))
  BY <1>1, <1>2, SnappedSpan
<1> DEFINE snapped == [i \in DOMAIN cuts |-> snap_cut(cuts[i])]
<1>4. Fits(snapped) /\ Story(snapped) /\ InTheSource(snapped)
  <2>1. cuts \in Seq(Span) /\ Fits(cuts) /\ Story(cuts)
    BY DEF CutInv, Fits
  <2>2. DOMAIN cuts = 1 .. Len(cuts) /\ Len(cuts) \in Nat
    BY <2>1
  <2>3. snapped \in Seq(Span) /\ DOMAIN snapped = DOMAIN cuts
    BY <1>3, <2>2
  <2>4. \A i \in DOMAIN cuts : snapped[i].role = cuts[i].role
    BY <1>3
  <2>5. InTheSource(snapped)
    BY <1>3, <2>3 DEF InTheSource
  <2> HIDE DEF snapped
  <2>6. Story(snapped) /\ snapped # <<>>
    BY <2>1, <2>3, <2>4, SameRoles
  <2> QED
    BY <2>3, <2>5, <2>6 DEF Fits
<1>5. cuts' = IF Marked THEN snapped ELSE cuts
  BY Zenon DEF Snap
<1> HIDE DEF snapped
<1>6. Fits(cuts') /\ Story(cuts') /\ (Marked => InTheSource(cuts'))
  BY <1>4, <1>5 DEF CutInv
<1>7. UNCHANGED <<segments, duration_sec, marks, proposal>> /\ repairing' = "shrink" /\ entered' = cuts'
  BY DEF Snap
<1>8. SegmentsTimed' /\ Fits(cuts)' /\ Story(cuts)' /\ Fits(entered)' /\ Story(entered)' /\ Fits(proposal)'
  BY <1>6, <1>7 DEF CutInv, SegmentsTimed, Fits, Story, LastSegment
<1>9. Marked' => InTheSource(cuts)' /\ InTheSource(entered)'
  BY <1>6, <1>7 DEF Marked, InTheSource, InSource, LastSegment
<1> QED
  BY <1>7, <1>8, <1>9 DEF CutInv

\* What is behind the one removed moves up.
LEMMA OneIsGone ==
  ASSUME NEW S, NEW s \in Seq(S), NEW i \in DOMAIN s
  PROVE  /\ RemoveAt(s, i) \in Seq(S) /\ Len(RemoveAt(s, i)) = Len(s) - 1
         /\ \A k \in 1 .. Len(s) - 1 : RemoveAt(s, i)[k] = IF k < i THEN s[k] ELSE s[k + 1]
<1> DEFINE m == Len(s)
           front == SubSeq(s, 1, i - 1)
           back == SubSeq(s, i + 1, m)
<1>1. m \in Nat /\ i \in 1 .. m /\ \A k \in 1 .. m : s[k] \in S
  OBVIOUS
<1>2. RemoveAt(s, i) = front \o back
  BY DEF RemoveAt
<1> HIDE DEF m
<1>3. front \in Seq(S) /\ Len(front) = i - 1 /\ \A k \in 1 .. i - 1 : front[k] = s[k]
  <2>1. 1 \in Int /\ i - 1 \in Int /\ \A k \in 1 .. i - 1 : s[k] \in S
    BY <1>1
  <2>2. /\ front \in Seq(S) /\ Len(front) = IF 1 <= i - 1 THEN (i - 1) - 1 + 1 ELSE 0
        /\ \A k \in 1 .. (i - 1) - 1 + 1 : front[k] = s[1 + k - 1]
    BY <2>1, SubSeqProperties
  <2> HIDE DEF front
  <2> QED
    BY <1>1, <2>2
<1>4. back \in Seq(S) /\ Len(back) = m - i /\ \A k \in 1 .. m - i : back[k] = s[i + k]
  <2>1. i + 1 \in Int /\ m \in Int /\ \A k \in i + 1 .. m : s[k] \in S
    BY <1>1
  <2>2. /\ back \in Seq(S) /\ Len(back) = IF i + 1 <= m THEN m - (i + 1) + 1 ELSE 0
        /\ \A k \in 1 .. m - (i + 1) + 1 : back[k] = s[(i + 1) + k - 1]
    BY <2>1, SubSeqProperties
  <2> HIDE DEF back
  <2> QED
    BY <1>1, <2>2
<1> HIDE DEF front, back
<1>5. /\ front \o back \in Seq(S) /\ Len(front \o back) = Len(front) + Len(back)
      /\ \A k \in 1 .. Len(front) + Len(back) :
           (front \o back)[k] = IF k <= Len(front) THEN front[k] ELSE back[k - Len(front)]
  BY <1>3, <1>4, ConcatProperties
<1>6. Len(front) + Len(back) = m - 1
  BY <1>1, <1>3, <1>4
<1>7. ASSUME NEW k \in 1 .. m - 1 PROVE (front \o back)[k] = IF k < i THEN s[k] ELSE s[k + 1]
  <2>1. (front \o back)[k] = IF k <= i - 1 THEN front[k] ELSE back[k - (i - 1)]
    BY <1>3, <1>5, <1>6
  <2>2. CASE k < i
    BY <1>1, <1>3, <2>1, <2>2
  <2>3. CASE ~(k < i)
    <3>1. k - (i - 1) \in 1 .. m - i /\ i + (k - (i - 1)) = k + 1
      BY <1>1, <2>3
    <3> QED
      BY <1>1, <1>4, <2>1, <2>3, <3>1
  <2> QED
    BY <2>2, <2>3
<1> QED
  BY <1>2, <1>5, <1>6, <1>7 DEF m

LEMMA DropKeeps == ASSUME CutInv, Drop PROVE CutInv'
<1>1. SegmentsTimed /\ Fits(cuts) /\ Story(cuts)
  BY DEF CutInv
<1>2. Droppable \in SUBSET DOMAIN cuts /\ Droppable # {}
  BY DEF Drop, Droppable
<1>3. PICK i \in Droppable : cuts' = RemoveAt(cuts, i)
  BY <1>1, <1>2, ChosenIsOne DEF Drop
<1>4. cuts \in Seq(Span) /\ Len(cuts) \in Nat /\ DOMAIN cuts = 1 .. Len(cuts) /\ Len(cuts) > MIN_CUTS
  BY <1>1 DEF Fits, Drop, TooMany
<1>5. i \in 1 .. Len(cuts) /\ i # 1 /\ i # Len(cuts) /\ cuts[i].role # "hook"
  BY <1>3, <1>4 DEF Droppable
<1> DEFINE m == Len(cuts)
           left == RemoveAt(cuts, i)
<1>6. left \in Seq(Span) /\ Len(left) = m - 1
      /\ \A k \in 1 .. m - 1 : left[k] = IF k < i THEN cuts[k] ELSE cuts[k + 1]
  <2>1. i \in DOMAIN cuts
    BY <1>4, <1>5
  <2>2. /\ RemoveAt(cuts, i) \in Seq(Span) /\ Len(RemoveAt(cuts, i)) = Len(cuts) - 1
        /\ \A k \in 1 .. Len(cuts) - 1 : RemoveAt(cuts, i)[k] = IF k < i THEN cuts[k] ELSE cuts[k + 1]
    BY <1>4, <2>1, OneIsGone, Zenon
  <2> QED
    BY <2>2, Zenon
<1>11. m \in Nat /\ DOMAIN cuts = 1 .. m /\ i \in 1 .. m /\ i # 1 /\ i # m /\ Len(cuts) = m /\ m > MIN_CUTS
  BY <1>4, <1>5
<1> HIDE DEF m
<1> HIDE DEF left
<1>7. DOMAIN left = 1 .. m - 1 /\ m - 1 \in Nat \ {0} /\ DOMAIN cuts = 1 .. m
      /\ i \in 1 .. m /\ i # 1 /\ i # m /\ Len(cuts) = m /\ m > MIN_CUTS /\ left # <<>>
  <2>1. m - 1 \in Nat \ {0}
    BY <1>11
  <2>2. DOMAIN left = 1 .. Len(left) /\ (left = <<>> => Len(left) = 0)
    <3>1. left \in Seq(Span)
      BY <1>6
    <3>2. DOMAIN left = 1 .. Len(left)
      BY <3>1, LenProperties
    <3>3. left = <<>> => Len(left) = 0
      <4>1. Len(<<>>) = 0
        OBVIOUS
      <4> QED
        BY <4>1
    <3> QED
      BY <3>2, <3>3
  <2>3. Len(left) = m - 1
    BY <1>6
  <2> QED
    BY <1>11, <2>1, <2>2, <2>3
<1>8. Fits(left) /\ (InTheSource(cuts) => InTheSource(left))
  <2>1. ASSUME NEW k \in DOMAIN left, InTheSource(cuts) PROVE InSource(left[k])
    <3>1. k \in DOMAIN cuts /\ k + 1 \in DOMAIN cuts /\ (left[k] = cuts[k] \/ left[k] = cuts[k + 1])
      BY <1>6, <1>7
    <3> QED
      BY <2>1, <3>1 DEF InTheSource
  <2> QED
    BY <1>6, <1>7, <2>1 DEF Fits, InTheSource
<1>9. Story(left)
  <2>1. left[Len(left)] = cuts[m]
    BY <1>6, <1>7
  <2>2. Len(left) >= Min({MIN_CUTS, Len(proposal)})
    <3>1. MIN_CUTS \in Int /\ Len(proposal) \in Int
      BY CutAssumption DEF CutInv, Fits
    <3>2. Min({MIN_CUTS, Len(proposal)}) \in {MIN_CUTS, Len(proposal)} /\ Min({MIN_CUTS, Len(proposal)}) <= MIN_CUTS
      BY <3>1, OfTwo
    <3>3. Min({MIN_CUTS, Len(proposal)}) \in Int
      BY <3>1, <3>2
    <3> QED
      BY <1>6, <1>7, <3>1, <3>2, <3>3
  <2>3. ASSUME NEW k \in DOMAIN cuts, cuts[k].role = "hook" PROVE \E l \in DOMAIN left : left[l].role = "hook"
    <3>1. k # i
      BY <1>5, <2>3
    <3>2. CASE k < i
      <4>1. k \in DOMAIN left /\ left[k] = cuts[k]
        BY <1>6, <1>7, <3>2
      <4> QED
        BY <2>3, <4>1
    <3>3. CASE k > i
      <4>1. k - 1 \in DOMAIN left /\ left[k - 1] = cuts[k]
        BY <1>6, <1>7, <3>3
      <4> QED
        BY <2>3, <4>1
    <3> QED
      BY <1>7, <3>1, <3>2, <3>3
  <2> QED
    BY <1>1, <1>7, <2>1, <2>2, <2>3 DEF Story
<1>10. Fits(cuts') /\ Story(cuts') /\ (InTheSource(cuts) => InTheSource(cuts'))
  BY <1>3, <1>8, <1>9 DEF left
<1> QED
  BY <1>10, RepairedKeeps DEF Drop

LEMMA DroppedKeeps == ASSUME CutInv, Dropped PROVE CutInv'
<1>1. (cuts' = cuts \/ cuts' = entered) /\ entered' = cuts' /\ repairing = "shrink" /\ repairing' = "narrow"
      /\ UNCHANGED <<segments, duration_sec, marks, proposal>>
  BY DEF Dropped
<1>2. SegmentsTimed' /\ Fits(cuts)' /\ Story(cuts)' /\ Fits(entered)' /\ Story(entered)' /\ Fits(proposal)'
  BY <1>1 DEF CutInv, SegmentsTimed, Fits, Story, LastSegment
<1>3. Marked' => InTheSource(cuts)' /\ InTheSource(entered)'
  BY <1>1 DEF CutInv, Marked, InTheSource, InSource, LastSegment
<1> QED
  BY <1>1, <1>2, <1>3 DEF CutInv

LEMMA NarrowKeeps == ASSUME CutInv, Narrow PROVE CutInv'
<1>1. SegmentsTimed /\ Fits(cuts) /\ Story(cuts)
  BY DEF CutInv
<1>2. Narrowable \in SUBSET DOMAIN cuts /\ Narrowable # {}
  BY DEF Narrow, Narrowable
<1>3. PICK i \in Narrowable : cuts' = trimmed(i)
  BY <1>1, <1>2, ChosenIsOne DEF Narrow
<1>4. i \in DOMAIN cuts /\ cuts[i].first < cuts[i].last /\ total_duration(trimmed(i)) >= MIN_DURATION
  BY <1>3 DEF Narrowable
<1>5. cuts[i] \in Span /\ cuts \in Seq(Span) /\ LastSegment \in Nat
  BY <1>1, <1>4 DEF Fits, SegmentsTimed
<1> DEFINE later == [cuts[i] EXCEPT !.first = @ + 1]
           sooner == [cuts[i] EXCEPT !.last = @ - 1]
<1>6. PICK c \in {later, sooner} : trimmed(i) = [cuts EXCEPT ![i] = c]
  BY <1>4 DEF trimmed
<1>7. c \in Span /\ c.role = cuts[i].role /\ (InSource(cuts[i]) => InSource(c))
  <2> DEFINE d == cuts[i]
  <2>1. d \in Span /\ d.first \in Int /\ d.last \in Int /\ d.first < d.last
        /\ later = [d EXCEPT !.first = d.first + 1] /\ sooner = [d EXCEPT !.last = d.last - 1]
    BY <1>4, <1>5 DEF Span
  <2> HIDE DEF d, later, sooner
  <2>2. CASE c = later
    <3>1. c \in Span /\ c.role = d.role /\ c.first = d.first + 1 /\ c.last = d.last
      BY <2>1, <2>2 DEF Span
    <3> QED
      BY <1>5, <2>1, <3>1 DEF InSource, d
  <2>3. CASE c = sooner
    <3>1. c \in Span /\ c.role = d.role /\ c.first = d.first /\ c.last = d.last - 1
      BY <2>1, <2>3 DEF Span
    <3> QED
      BY <1>5, <2>1, <3>1 DEF InSource, d
  <2> QED
    BY <1>6, <2>2, <2>3
<1> HIDE DEF later, sooner
<1>8. trimmed(i) \in Seq(Span) /\ DOMAIN trimmed(i) = DOMAIN cuts
      /\ \A k \in DOMAIN cuts : trimmed(i)[k] = IF k = i THEN c ELSE cuts[k]
  BY <1>4, <1>5, <1>6, <1>7
<1>9. Story(trimmed(i)) /\ trimmed(i) # <<>>
  BY <1>1, <1>7, <1>8, SameRoles
<1>10. Fits(trimmed(i)) /\ (InTheSource(cuts) => InTheSource(trimmed(i)))
  BY <1>4, <1>7, <1>8, <1>9 DEF Fits, InTheSource
<1>11. total_duration(cuts') >= MIN_DURATION /\ Fits(cuts') /\ Story(cuts')
       /\ (InTheSource(cuts) => InTheSource(cuts'))
  BY <1>3, <1>4, <1>9, <1>10
<1> QED
  BY <1>11, RepairedKeeps DEF Narrow

LEMMA NarrowedKeeps == ASSUME CutInv, Narrowed PROVE CutInv'
<1>1. (cuts' = cuts \/ cuts' = entered) /\ entered' = entered /\ repairing = "narrow" /\ repairing' = "judge"
      /\ UNCHANGED <<segments, duration_sec, marks, proposal>>
  BY DEF Narrowed
<1>2. SegmentsTimed' /\ Fits(cuts)' /\ Story(cuts)' /\ Fits(entered)' /\ Story(entered)' /\ Fits(proposal)'
  BY <1>1 DEF CutInv, SegmentsTimed, Fits, Story, LastSegment
<1>3. cuts' = entered' \/ total_duration(cuts') >= MIN_DURATION
  BY <1>1 DEF CutInv
<1>4. total_duration(cuts)' = total_duration(cuts') /\ total_duration(entered)' = total_duration(entered')
  BY <1>1 DEF total_duration, cut_span, InSource, LastSegment
<1>5. total_duration(cuts') \in Int /\ MIN_DURATION \in Int
  <2>1. SegmentsTimed /\ Fits(cuts) /\ Fits(entered)
    BY DEF CutInv
  <2> QED
    BY <1>1, <2>1, DurationIsInt, CutAssumption
<1>6. total_duration(cuts)' < MIN_DURATION => total_duration(entered)' < MIN_DURATION
  BY <1>3, <1>4, <1>5
<1>7. Marked' => InTheSource(cuts)' /\ InTheSource(entered)'
  BY <1>1 DEF CutInv, Marked, InTheSource, InSource, LastSegment
<1> QED
  BY <1>1, <1>2, <1>6, <1>7 DEF CutInv

LEMMA DecidedKeeps ==
  ASSUME CutInv, UNCHANGED <<segments, duration_sec, marks, proposal, cuts, entered>>,
         \/ repairing' = repairing
         \/ repairing # "snap" /\ repairing' \in {"build", "built", "dropped", "refused"},
         repairing' \in {"build", "built", "dropped"} => Usable,
         repairing' = "dropped" => ~HoldsTogether
  PROVE  CutInv'
<1>1. SegmentsTimed' /\ Fits(cuts)' /\ Story(cuts)' /\ Fits(entered)' /\ Story(entered)' /\ Fits(proposal)'
  BY DEF CutInv, SegmentsTimed, Fits, Story, LastSegment
<1>2. total_duration(cuts)' = total_duration(cuts) /\ total_duration(entered)' = total_duration(entered)
      /\ built_duration(cuts)' = built_duration(cuts) /\ Told(cuts)' = Told(cuts)
      /\ InTheSource(cuts)' = InTheSource(cuts) /\ InTheSource(entered)' = InTheSource(entered)
      /\ Marked' = Marked
  BY DEF InTheSource, InSource, Marked, total_duration, cut_span, built_duration, resolved, Told, OnVideo, LastSegment
<1>5. \A c : cut_span(c)' = cut_span(c)
  BY DEF cut_span, InSource, LastSegment
<1>6. Usable' = Usable
  BY <1>2 DEF Usable, InTheSource
<1>7. HoldsTogether' = HoldsTogether
  BY <1>2, <1>5 DEF HoldsTogether
<1>3. Usable' = Usable /\ HoldsTogether' = HoldsTogether
  BY <1>6, <1>7
<1>4. \/ repairing' = repairing
      \/ repairing # "snap" /\ repairing' \in {"build", "built", "dropped", "refused"}
  OBVIOUS
<1> QED
  BY <1>1, <1>2, <1>3, <1>4 DEF CutInv

LEMMA CutStep == ASSUME CutInv, [CutNext]_cutVars PROVE CutInv'
<1>1. CASE Snap
  BY <1>1, SnapKeeps
<1>2. CASE Drop
  BY <1>2, DropKeeps
<1>3. CASE Dropped
  BY <1>3, DroppedKeeps
<1>4. CASE Narrow
  BY <1>4, NarrowKeeps
<1>5. CASE Narrowed
  BY <1>5, NarrowedKeeps
<1>6. CASE JudgeShort
  BY <1>6, DecidedKeeps DEF JudgeShort
<1>7. CASE Build
  BY <1>7, DecidedKeeps DEF Build, CutInv
<1>8. CASE UNCHANGED cutVars
  BY <1>8, DecidedKeeps DEF cutVars, CutInv
<1> QED
  BY <1>1, <1>2, <1>3, <1>4, <1>5, <1>6, <1>7, <1>8 DEF CutNext

\* Whatever the model proposes and whatever times the segments have, in order or
\* not, of some length or of none: a short that validate_shorts lets pass and
\* _build_short drops has more cuts than the judge counts, a cut that takes no
\* time, or one too near an edge of the video for its padding.  Everywhere else
\* what the judge measured is what is built.
THEOREM NoOtherGap == CutSpec => []AUsableShortIsBuilt
<1>1. CutInv => AUsableShortIsBuilt
  <2> SUFFICES ASSUME CutInv, repairing = "dropped", ~(Len(cuts) > MAX_CUTS),
                      ~\E i \in DOMAIN cuts :
                         \/ cut_span(cuts[i]) <= 0
                         \/ segments[cuts[i].first].start < CUT_PAD
                         \/ segments[cuts[i].last].end + CUT_PAD > duration_sec
               PROVE  FALSE
    BY DEF AUsableShortIsBuilt
  <2>1. SegmentsTimed /\ Fits(cuts) /\ Usable /\ ~HoldsTogether /\ InTheSource(cuts)
    BY DEF CutInv, Usable, InTheSource
  <2>5. ASSUME NEW i \in DOMAIN cuts PROVE PaddingIsThere(cuts[i])
    <3>1. cuts[i] \in Span /\ InSource(cuts[i])
      BY <2>1 DEF Fits, InTheSource
    <3>2. /\ cut_span(cuts[i]) \in Int /\ CUT_PAD \in Nat /\ duration_sec \in Nat
          /\ segments[cuts[i].last].end \in Nat /\ segments[cuts[i].first].start \in Nat
      BY <2>1, <3>1, SpanOf, SpanIsInt, CutAssumption DEF SegmentsTimed
    <3>3. /\ ~(cut_span(cuts[i]) <= 0)
          /\ ~(segments[cuts[i].first].start < CUT_PAD)
          /\ ~(segments[cuts[i].last].end + CUT_PAD > duration_sec)
      OBVIOUS
    <3> DEFINE taken == cut_span(cuts[i])
               from == segments[cuts[i].first].start
               to == segments[cuts[i].last].end
    <3> HIDE DEF taken, from, to
    <3>5. taken \in Int /\ CUT_PAD \in Nat /\ duration_sec \in Nat /\ to \in Nat /\ from \in Nat
      BY <3>2, Zenon DEF taken, from, to
    <3>6. ~(taken <= 0) /\ ~(from < CUT_PAD) /\ ~(to + CUT_PAD > duration_sec)
      BY <3>3, Zenon DEF taken, from, to
    <3>4. taken > 0 /\ from >= CUT_PAD /\ to + CUT_PAD <= duration_sec
      BY <3>5, <3>6
    <3> QED
      BY <3>4 DEF PaddingIsThere, taken, from, to
  <2>2. built_duration(cuts) = total_duration(cuts)
    BY <2>1, <2>5, PaddingIsPlayed
  <2>3. Len(cuts) \in Nat /\ {MIN_CUTS, MAX_CUTS} \subseteq Nat
    BY <2>1, CutAssumption DEF Fits
  <2>4. Len(cuts) \in MIN_CUTS .. MAX_CUTS
    BY <2>1, <2>3 DEF Usable
  <2> QED
    BY <2>1, <2>2, <2>4, <2>5 DEF Usable, HoldsTogether, PaddingIsThere
<1> QED
  BY <1>1, CutInitially, CutStep, PTL DEF CutSpec

\* The repairs of _shrink_short_to_fit and _narrow_cuts_to_fit, for any number
\* of rounds over any proposal, keep the last cut's role, the hook and the floor
\* of cuts, and never make a short that was long enough too short.
THEOREM StoryIsKept == CutSpec => []RepairKeepsTheStory
<1>1. CutInv => RepairKeepsTheStory
  BY DEF CutInv, Story, RepairKeepsTheStory, Last
<1> QED
  BY <1>1, CutInitially, CutStep, PTL DEF CutSpec

\* Whatever segments the model names, there or not, forwards or backwards, what
\* comes to the builder are spans of this source, and once a boundary is known
\* every repair keeps them so.
THEOREM CutsStaySpans == CutSpec => []CutTypeOK
<1>1. CutInv => CutTypeOK
  <2> SUFFICES ASSUME CutInv PROVE CutTypeOK
    OBVIOUS
  <2>1. \A i \in DOMAIN cuts : cuts[i] \in Span
    BY DEF CutInv, Fits
  <2>2. \A i \in DOMAIN cuts : {cuts[i].first, cuts[i].last} \subseteq Int
    BY <2>1 DEF Span
  <2> QED
    BY <2>2 DEF CutInv, CutTypeOK, InTheSource, Usable
<1> QED
  BY <1>1, CutInitially, CutStep, PTL DEF CutSpec

-----------------------------------------------------------------------------
\* The picture and the captions of one export: Render.

\* A sum grows by what is added.
LEMMA SumGrows ==
  ASSUME NEW s \in Seq(Nat)
  PROVE  /\ Sum(s, 0) = 0
         /\ \A k \in 0 .. Len(s) : Sum(s, k) \in Nat
         /\ \A k \in 1 .. Len(s) : Sum(s, k) = Sum(s, k - 1) + s[k]
<1> DEFINE m == Len(s)
           S == Nat
           none == 0
           On(k, x) == x + s[k]
           Is(f) == f = [k \in 0 .. m |-> IF k = 0 THEN none ELSE On(k, f[k - 1])]
           upto == CHOOSE f : Is(f)
           step == [k \in 1 .. m |-> [x \in S |-> On(k, x)]]
<1>1. m \in Nat /\ none \in S /\ \A k \in 1 .. m, x \in S : On(k, x) \in S
  OBVIOUS
<1>2. \A k : Sum(s, k) = upto[k]
  BY Zenon DEF Sum
<1>3. \A k \in 1 .. m, x \in S : On(k, x) = x + s[k]
  OBVIOUS
<1> HIDE DEF On, m, S
<1>4. none = 0
  OBVIOUS
<1> HIDE DEF none
<1>5. step \in [1 .. m -> [S -> S]] /\ \A k \in 1 .. m, x \in S : step[k][x] = On(k, x)
  BY <1>1
<1> HIDE DEF step
<1>6. PICK f : Loops(f, S, none, m, step)
  BY <1>1, <1>5, LoopExists
<1>7. f \in [0 .. m -> S] /\ f[0] = none /\ \A k \in 1 .. m : f[k] = On(k, f[k - 1])
  BY <1>1, <1>5, <1>6 DEF Loops
<1>8. Is(f)
  BY <1>1, <1>7
<1>9. Is(upto)
  BY <1>8, Zenon
<1> HIDE DEF upto
<1>10. upto[0] = none /\ \A k \in 1 .. m : upto[k] = On(k, upto[k - 1])
  BY <1>1, <1>9
<1> DEFINE good == {k \in 0 .. m : upto[k] \in S}
<1>11. 0 \in good
  BY <1>1, <1>10
<1>12. \A k \in 1 .. m : k - 1 \in good => k \in good
  BY <1>1, <1>10
<1> HIDE DEF good
<1>13. m \in Nat
  BY <1>1
<1>14. 0 .. m \subseteq good
  BY <1>11, <1>12, <1>13, EveryPosition
<1>15. \A k \in 0 .. m : upto[k] \in S
  BY <1>14 DEF good
<1>16. \A k \in 1 .. m : upto[k] = upto[k - 1] + s[k]
  BY <1>3, <1>10, <1>13, <1>15
<1> QED
  BY <1>2, <1>4, <1>10, <1>15, <1>16 DEF m, S

\* What does not fall from one position to the next does not fall at all.
LEMMA NotFalling ==
  ASSUME NEW m \in Nat, NEW at \in [0 .. m -> Int], \A k \in 1 .. m : at[k - 1] <= at[k],
         NEW i \in 0 .. m, NEW j \in 0 .. m, i <= j
  PROVE  at[i] <= at[j]
<1> DEFINE good == {k \in 0 .. m : i <= k => at[i] <= at[k]}
<1>1. 0 \in good
  OBVIOUS
<1>2. \A k \in 1 .. m : k - 1 \in good => k \in good
  <2> SUFFICES ASSUME NEW k \in 1 .. m, k - 1 \in good PROVE k \in good
    OBVIOUS
  <2>1. k - 1 \in 0 .. m /\ k \in 0 .. m /\ at[k - 1] <= at[k] /\ at[k - 1] \in Int /\ at[k] \in Int /\ at[i] \in Int
    OBVIOUS
  <2>2. ASSUME i <= k PROVE at[i] <= at[k]
    <3>1. i <= k - 1 \/ i = k
      BY <2>2
    <3> QED
      BY <2>1, <3>1
  <2> QED
    BY <2>1, <2>2
<1> HIDE DEF good
<1>3. 0 .. m \subseteq good
  BY <1>1, <1>2, EveryPosition
<1> QED
  BY <1>3 DEF good

LEMMA RoundedHalf ==
  ASSUME NEW x \in Nat
  PROVE  Rounded(x, 2) \in Nat /\ 2 * Rounded(x, 2) <= x + 1 /\ 2 * Rounded(x, 2) >= x - 1
  BY DEF Rounded

LEMMA RoundedTwentieth ==
  ASSUME NEW x \in Nat
  PROVE  Rounded(x, 20) \in Nat /\ 20 * Rounded(x, 20) <= x + 10
  BY DEF Rounded

Clip == [source : {"brand", "video"}, from : Nat, to : Nat]

\* Every clip is cut, and none is empty.
Lengths ==
    /\ take \in Takes
    /\ sequence \in Seq(Clip) /\ sequence # <<>>
    /\ lengths \in Seq(Nat \ {0}) /\ Len(lengths) = clip_count

LEMMA ShortestIsOne ==
  ASSUME Lengths
  PROVE  /\ shortest \in Nat \ {0} /\ \A k \in DOMAIN lengths : shortest <= lengths[k]
         /\ \E k \in DOMAIN lengths : shortest = lengths[k]
<1>1. \A k \in DOMAIN lengths : lengths[k] \in Nat \ {0}
  BY Element DEF Lengths
<1>2. DOMAIN lengths = 1 .. Len(lengths) /\ Len(lengths) \in Nat \ {0}
  BY DEF Lengths, clip_count
<1>3. ToSet(lengths) = {lengths[k] : k \in DOMAIN lengths}
  BY DEF ToSet
<1> DEFINE T == ToSet(lengths)
<1>4. T \subseteq Nat \ {0} /\ T # {} /\ \A k \in DOMAIN lengths : lengths[k] \in T
  BY <1>1, <1>2, <1>3
<1>5. \A d \in T : \E k \in DOMAIN lengths : d = lengths[k]
  BY <1>3
<1> HIDE DEF T
<1>6. \E d \in T : \A e \in T : d <= e
  BY <1>4, Least
<1>7. shortest \in T /\ \A e \in T : shortest <= e
  BY <1>6, Zenon DEF shortest, T
<1> QED
  BY <1>4, <1>5, <1>7

\* A transition of clips that can be joined is no longer than any of them.
LEMMA TransitionFits ==
  ASSUME Lengths
  PROVE  overlap \in Nat /\ (Joinable => \A k \in DOMAIN lengths : overlap <= lengths[k])
<1>1. take.wanted \in Nat /\ fps \in Nat \ {0}
  BY RenderAssumption DEF Lengths, IsTake
<1>2. shortest \in Nat \ {0} /\ (\A k \in DOMAIN lengths : shortest <= lengths[k])
      /\ \E k \in DOMAIN lengths : shortest = lengths[k]
  BY ShortestIsOne
<1>3. Joinable => shortest >= 3 /\ 10 * shortest > fps
  BY <1>2 DEF Joinable
<1> DEFINE wanted == take.wanted
           least == shortest
           reduced == wanted >= 10 * least
           duration == IF reduced THEN Larger(fps, 9 * least) ELSE wanted
           frames == Rounded(duration, 20)
<1>4. TransitionFrames = Larger(1, IF reduced \/ 2 * frames >= least THEN duration \div 20 ELSE frames)
  BY Zenon DEF TransitionFrames
<1>5. wanted \in Nat /\ least \in Nat \ {0}
  BY <1>1, <1>2
<1>6. (\A k \in DOMAIN lengths : least <= lengths[k]) /\ (Joinable => least >= 3 /\ 10 * least > fps)
  BY <1>2, <1>3
<1>7. \A k \in DOMAIN lengths : lengths[k] \in Nat \ {0}
  BY Element DEF Lengths
<1> HIDE DEF wanted, least
<1>8. duration \in Nat /\ (Joinable => duration < 20 * least /\ (~reduced => duration < 10 * least))
  BY <1>1, <1>5, <1>6 DEF Larger
<1> HIDE DEF duration, reduced
<1>9. frames \in Nat /\ 20 * frames <= duration + 10
  BY <1>8, RoundedTwentieth
<1> HIDE DEF frames
<1>10. duration \div 20 \in Nat /\ 20 * (duration \div 20) <= duration
  BY <1>8
<1> DEFINE whole == duration \div 20
<1> HIDE DEF whole
<1>11. TransitionFrames \in {1, whole, frames} /\ (TransitionFrames = frames => frames = 1 \/ frames = whole \/ ~reduced)
  BY <1>4 DEF Larger, whole
<1>12. whole \in Nat /\ 20 * whole <= duration
  BY <1>10 DEF whole
<1>13. TransitionFrames \in Nat /\ (Joinable => TransitionFrames <= least)
  <2>1. TransitionFrames \in Nat
    BY <1>9, <1>11, <1>12
  <2>2. ASSUME Joinable PROVE TransitionFrames <= least
    <3>1. 1 <= least /\ whole <= least /\ (~reduced => frames <= least)
      BY <1>5, <1>6, <1>8, <1>9, <1>12, <2>2
    <3> QED
      BY <1>11, <3>1
  <2> QED
    BY <2>1, <2>2
<1>14. overlap = 0 \/ overlap = TransitionFrames
  BY DEF overlap
<1> QED
  BY <1>5, <1>6, <1>7, <1>13, <1>14

\* Where a clip begins: the first at once, each further one where the one before
\* it ends but for the transition.
LEMMA BeginsInTurn ==
  ASSUME Lengths
  PROVE  /\ Begins(1) = 0
         /\ \A k \in 1 .. clip_count : Begins(k) \in Int
         /\ \A k \in 1 .. clip_count - 1 : Begins(k + 1) = Begins(k) + lengths[k] - overlap
         /\ FinalFrames = Begins(clip_count) + lengths[clip_count]
<1>1. clip_count \in Nat \ {0} /\ lengths \in Seq(Nat) /\ Len(lengths) = clip_count
  BY DEF Lengths, clip_count
<1>2. overlap \in Nat
  BY TransitionFits
<1>3. /\ Sum(lengths, 0) = 0
      /\ \A k \in 0 .. clip_count : Sum(lengths, k) \in Nat
      /\ \A k \in 1 .. clip_count : Sum(lengths, k) = Sum(lengths, k - 1) + lengths[k]
  BY <1>1, SumGrows
<1> DEFINE o == overlap
<1> HIDE DEF o
<1>4. o \in Nat
  BY <1>2 DEF o
<1>5. \A k \in 1 .. clip_count + 1 : Begins(k) = Sum(lengths, k - 1) - (k - 1) * o
  BY DEF Begins, o
<1>6. \A k \in 1 .. clip_count : (k - 1) * o \in Int /\ ((k + 1) - 1) * o = (k - 1) * o + o
  BY <1>1, <1>4
<1>7. Begins(1) = 0
  <2>1. (1 - 1) * o = 0 /\ 1 \in 1 .. clip_count + 1 /\ 1 - 1 = 0
    BY <1>1, <1>4
  <2> QED
    BY <1>3, <1>5, <2>1
<1>8. ASSUME NEW k \in 1 .. clip_count
      PROVE  /\ Begins(k) = Sum(lengths, k - 1) - (k - 1) * o /\ Begins(k) \in Int
             /\ Sum(lengths, k - 1) \in Nat /\ lengths[k] \in Nat /\ (k - 1) * o \in Int
             /\ Sum(lengths, k) = Sum(lengths, k - 1) + lengths[k]
  <2>1. k - 1 \in 0 .. clip_count /\ k \in 1 .. clip_count + 1
    BY <1>1
  <2>2. Begins(k) = Sum(lengths, k - 1) - (k - 1) * o
    BY <1>5, <2>1
  <2>3. Sum(lengths, k - 1) \in Nat /\ Sum(lengths, k) = Sum(lengths, k - 1) + lengths[k]
    BY <1>3, <2>1
  <2>4. (k - 1) * o \in Int
    BY <1>6
  <2>5. lengths[k] \in Nat
    BY <1>1
  <2> QED
    BY <2>2, <2>3, <2>4, <2>5
<1>9. ASSUME NEW k \in 1 .. clip_count - 1 PROVE Begins(k + 1) = Begins(k) + lengths[k] - o
  <2>1. k \in 1 .. clip_count /\ k + 1 \in 1 .. clip_count + 1 /\ (k + 1) - 1 = k
    BY <1>1
  <2>2. Begins(k + 1) = Sum(lengths, k) - ((k - 1) * o + o)
    BY <1>5, <1>6, <2>1
  <2> QED
    BY <1>4, <1>8, <2>1, <2>2
<1>10. FinalFrames = Begins(clip_count) + lengths[clip_count]
  <2> DEFINE k == clip_count
  <2>1. k \in 1 .. clip_count
    BY <1>1
  <2>2. FinalFrames = Sum(lengths, k) - (k - 1) * o
    BY DEF FinalFrames, o
  <2> HIDE DEF k
  <2>4. FinalFrames = Begins(k) + lengths[k]
    BY <1>8, <2>1, <2>2
  <2> QED
    BY <2>4 DEF k
<1> QED
  BY <1>7, <1>8, <1>9, <1>10 DEF o

LEMMA BeginsInOrder ==
  ASSUME Lengths, Joinable, NEW i \in 1 .. clip_count, NEW j \in 1 .. clip_count, i <= j
  PROVE  Begins(i) <= Begins(j)
<1> DEFINE m == clip_count - 1
           at == [k \in 0 .. m |-> Begins(k + 1)]
<1>1. clip_count \in Nat \ {0} /\ DOMAIN lengths = 1 .. clip_count
  BY DEF Lengths, clip_count
<1>2. m \in Nat /\ \A k \in 0 .. m : k + 1 \in 1 .. clip_count
  BY <1>1
<1>3. \A k \in 1 .. clip_count : Begins(k) \in Int
  BY BeginsInTurn
<1>4. at \in [0 .. m -> Int]
  BY <1>2, <1>3
<1>5. overlap \in Nat /\ \A k \in DOMAIN lengths : overlap <= lengths[k]
  BY TransitionFits
<1>6. \A k \in DOMAIN lengths : lengths[k] \in Nat
  BY DEF Lengths
<1>7. ASSUME NEW k \in 1 .. m PROVE at[k - 1] <= at[k]
  <2>1. k \in 1 .. clip_count - 1 /\ k \in DOMAIN lengths /\ k - 1 \in 0 .. m /\ k \in 0 .. m /\ (k - 1) + 1 = k
    BY <1>1
  <2>2. Begins(k + 1) = Begins(k) + lengths[k] - overlap
    BY <2>1, BeginsInTurn
  <2>3. at[k - 1] = Begins(k) /\ at[k] = Begins(k + 1) /\ Begins(k) \in Int
    BY <1>1, <1>3, <2>1
  <2> HIDE DEF at
  <2> QED
    BY <1>5, <1>6, <2>1, <2>2, <2>3
<1>8. i - 1 \in 0 .. m /\ j - 1 \in 0 .. m /\ i - 1 <= j - 1 /\ (i - 1) + 1 = i /\ (j - 1) + 1 = j
  BY <1>1
<1>9. at[i - 1] = Begins(i) /\ at[j - 1] = Begins(j)
  BY <1>8
<1> HIDE DEF at, m
<1>10. at[i - 1] <= at[j - 1]
  BY <1>2, <1>4, <1>7, <1>8, NotFalling
<1> QED
  BY <1>9, <1>10

-----------------------------------------------------------------------------
\* A batch of a plan: where it begins and ends no other clip is seen.
Batch == [first : Nat, last : Nat, head : Nat, start : Int, tail : Nat]

Ending(b) == Begins(b.last) + b.tail

Alone(b) ==
    /\ b \in Batch /\ 1 <= b.first /\ b.first <= b.last /\ b.last <= clip_count
    /\ b.start = Begins(b.first) + b.head /\ b.start <= Ending(b) /\ b.tail <= lengths[b.last]
    /\ \A k \in 1 .. b.first - 1 : Begins(k) + lengths[k] <= b.start
    /\ \A k \in b.last + 1 .. clip_count : Begins(k) >= Ending(b)

\* Such a batch shows what a single pass shows from its start to its end.
LEMMA BatchOfOnePass ==
  ASSUME Lengths, NEW b, Alone(b), Ending(b) <= FinalFrames, 0 <= b.start
  PROVE  /\ BatchShows(b) \in Seq(SUBSET [clip : Nat, frame : Nat])
         /\ Len(BatchShows(b)) = Ending(b) - b.start
         /\ \A f \in 1 .. Ending(b) - b.start : BatchShows(b)[f] = OnePass[b.start + f]
<1> DEFINE offset(k) == IF k = b.first THEN -b.head ELSE Begins(k) - b.start
           upto(k) == IF k = b.last THEN b.tail ELSE lengths[k]
           frames == Begins(b.last) + b.tail - b.start
           Seen(f) == {j \in b.first .. b.last : offset(j) < f /\ f - 1 - offset(j) < upto(j)}
           Picture(f) == {[clip |-> k, frame |-> f - 1 - offset(k)] : k \in Seen(f)}
<1>1. BatchShows(b) = [f \in 1 .. frames |-> Picture(f)]
  BY Zenon DEF BatchShows
<1>2. clip_count \in Nat \ {0} /\ \A k \in 1 .. clip_count : lengths[k] \in Nat \ {0} /\ Begins(k) \in Int
  BY BeginsInTurn DEF Lengths, clip_count
<1>3. /\ b.first \in 1 .. clip_count /\ b.last \in 1 .. clip_count /\ b.first <= b.last
      /\ b.head \in Nat /\ b.start \in Int /\ b.tail \in Nat
  BY <1>2 DEF Alone, Batch
<1>4. \A k \in b.first .. b.last : k \in 1 .. clip_count /\ offset(k) = Begins(k) - b.start
  BY <1>2, <1>3 DEF Alone
<1>5. frames = Ending(b) - b.start /\ frames \in Nat
  BY <1>2, <1>3 DEF Ending, Alone
<1>6. ASSUME NEW f \in 1 .. frames PROVE Picture(f) \subseteq [clip : Nat, frame : Nat]
  <2> SUFFICES ASSUME NEW k \in Seen(f) PROVE k \in Nat /\ f - 1 - offset(k) \in Nat
    OBVIOUS
  <2>1. k \in 1 .. clip_count /\ offset(k) \in Int /\ offset(k) < f
    BY <1>2, <1>3, <1>4
  <2> HIDE DEF offset
  <2> QED
    BY <1>5, <2>1
<1>7. ASSUME NEW f \in 1 .. frames PROVE Picture(f) = OnePass[b.start + f]
  <2> DEFINE g == b.start + f
             Visible == {j \in 1 .. clip_count : Begins(j) < g /\ g <= Begins(j) + lengths[j]}
  <2>1. g \in 1 .. FinalFrames /\ b.start < g /\ g <= Ending(b) /\ g \in Int
    <3>1. FinalFrames \in Int /\ Ending(b) \in Int
      BY <1>2, <1>3, BeginsInTurn DEF Ending
    <3> QED
      BY <1>3, <1>5, <3>1
  <2>2. OnePass[g] = {[clip |-> k, frame |-> g - 1 - Begins(k)] : k \in Visible}
    BY <2>1 DEF OnePass
  <2>3. ASSUME NEW k \in 1 .. clip_count PROVE k \in Seen(f) <=> k \in Visible
    <3>1. CASE k < b.first
      <4>1. k \in 1 .. b.first - 1
        BY <1>3, <3>1
      <4>2. Begins(k) + lengths[k] <= b.start
        BY <4>1 DEF Alone
      <4> QED
        BY <1>2, <1>3, <2>1, <3>1, <4>2
    <3>2. CASE k > b.last
      <4>1. k \in b.last + 1 .. clip_count
        BY <1>2, <1>3, <3>2
      <4>2. Begins(k) >= Ending(b)
        BY <4>1 DEF Alone
      <4>3. Ending(b) \in Int
        BY <1>2, <1>3 DEF Ending
      <4> QED
        BY <1>2, <1>3, <2>1, <3>2, <4>2, <4>3
    <3>3. CASE k \in b.first .. b.last
      <4>1. offset(k) = Begins(k) - b.start /\ Begins(k) \in Int /\ lengths[k] \in Nat
        BY <1>2, <1>4, <3>3
      <4>2. k \in Seen(f) <=> offset(k) < f /\ f - 1 - offset(k) < upto(k)
        BY <3>3
      <4> HIDE DEF offset, Seen
      <4>3. k \in Seen(f) <=> Begins(k) < g /\ g <= Begins(k) + upto(k)
        <5>1. upto(k) \in Int
          BY <1>3, <4>1
        <5> HIDE DEF upto
        <5> QED
          BY <1>3, <2>1, <4>1, <4>2, <5>1
      <4>4. CASE k # b.last
        BY <4>3, <4>4
      <4>5. CASE k = b.last
        <5>1. upto(k) = b.tail /\ b.tail <= lengths[k] /\ g <= Begins(k) + b.tail
          BY <2>1, <4>5 DEF Alone, Ending
        <5> QED
          BY <1>3, <2>1, <4>1, <4>3, <5>1
      <4> QED
        BY <4>4, <4>5
    <3> QED
      BY <1>2, <1>3, <3>1, <3>2, <3>3
  <2>4. \A k \in Seen(f) : k \in 1 .. clip_count /\ f - 1 - offset(k) = g - 1 - Begins(k)
    BY <1>2, <1>3, <1>4, <1>5
  <2>5. Visible \subseteq 1 .. clip_count
    OBVIOUS
  <2> HIDE DEF g, Visible, offset, Seen
  <2>6. Seen(f) = Visible
    BY <2>3, <2>4, <2>5
  <2> QED
    BY <2>2, <2>4, <2>6 DEF g
<1> HIDE DEF frames, Picture
<1> QED
  BY <1>1, <1>5, <1>6, <1>7

LEMMA OnePassTyped ==
  ASSUME Lengths
  PROVE  OnePass \in Seq(SUBSET [clip : Nat, frame : Nat])
         /\ Len(OnePass) = (IF FinalFrames \in Nat THEN FinalFrames ELSE 0)
<1> DEFINE Seen(f) == {j \in 1 .. clip_count : Begins(j) < f /\ f <= Begins(j) + lengths[j]}
           Picture(f) == {[clip |-> k, frame |-> f - 1 - Begins(k)] : k \in Seen(f)}
<1>1. OnePass = [f \in 1 .. FinalFrames |-> Picture(f)]
  BY Zenon DEF OnePass
<1>2. clip_count \in Nat \ {0} /\ \A k \in 1 .. clip_count : lengths[k] \in Nat \ {0} /\ Begins(k) \in Int
  BY BeginsInTurn DEF Lengths, clip_count
<1>3. FinalFrames \in Int
  BY <1>2, BeginsInTurn
<1>4. ASSUME NEW f \in 1 .. FinalFrames PROVE Picture(f) \in SUBSET [clip : Nat, frame : Nat]
  <2> SUFFICES ASSUME NEW k \in Seen(f) PROVE k \in Nat /\ f - 1 - Begins(k) \in Nat
    OBVIOUS
  <2> QED
    BY <1>2, <1>3
<1> HIDE DEF Picture
<1>5. CASE FinalFrames \in Nat
  BY <1>1, <1>4, <1>5
<1>6. CASE FinalFrames \notin Nat
  <2>1. 1 .. FinalFrames = 1 .. 0 /\ 1 .. 0 = {}
    BY <1>3, <1>6
  <2> DEFINE none == [f \in 1 .. 0 |-> Picture(f)]
  <2>2. none \in Seq(SUBSET [clip : Nat, frame : Nat]) /\ Len(none) = 0
    <3>1. none \in [1 .. 0 -> SUBSET [clip : Nat, frame : Nat]]
      BY <2>1
    <3>2. DOMAIN none = 1 .. 0 /\ 0 \in Nat
      OBVIOUS
    <3> HIDE DEF none
    <3> QED
      BY <3>1, <3>2
  <2>3. OnePass = none
    BY <1>1, <2>1
  <2> QED
    BY <1>6, <2>2, <2>3
<1> QED
  BY <1>5, <1>6

\* Any batch is a sequence of frames, whether its clips can be joined or not.
LEMMA BatchTyped ==
  ASSUME Lengths, NEW b \in Batch, b.first \in 1 .. clip_count, b.last \in 1 .. clip_count
  PROVE  BatchShows(b) \in Seq(SUBSET [clip : Nat, frame : Nat])
<1> DEFINE offset(k) == IF k = b.first THEN -b.head ELSE Begins(k) - b.start
           upto(k) == IF k = b.last THEN b.tail ELSE lengths[k]
           frames == Begins(b.last) + b.tail - b.start
           Seen(f) == {j \in b.first .. b.last : offset(j) < f /\ f - 1 - offset(j) < upto(j)}
           Picture(f) == {[clip |-> k, frame |-> f - 1 - offset(k)] : k \in Seen(f)}
<1>1. BatchShows(b) = [f \in 1 .. frames |-> Picture(f)]
  BY Zenon DEF BatchShows
<1>2. clip_count \in Nat \ {0} /\ \A k \in 1 .. clip_count : Begins(k) \in Int
  BY BeginsInTurn DEF Lengths, clip_count
<1>3. b.head \in Nat /\ b.start \in Int /\ b.tail \in Nat
  BY DEF Batch
<1>4. \A k \in b.first .. b.last : k \in Nat /\ offset(k) \in Int
  BY <1>2, <1>3
<1>5. frames \in Int
  BY <1>2, <1>3
<1> HIDE DEF offset, frames, upto
<1>6. ASSUME NEW f \in 1 .. frames PROVE Picture(f) \in SUBSET [clip : Nat, frame : Nat]
  <2> SUFFICES ASSUME NEW k \in Seen(f) PROVE k \in Nat /\ f - 1 - offset(k) \in Nat
    OBVIOUS
  <2>1. k \in Nat /\ offset(k) \in Int /\ offset(k) < f
    BY <1>4
  <2> QED
    BY <1>5, <2>1
<1> HIDE DEF Picture
<1>7. CASE frames \in Nat
  BY <1>1, <1>6, <1>7
<1>8. CASE frames \notin Nat
  <2>1. 1 .. frames = 1 .. 0 /\ 1 .. 0 = {}
    BY <1>5, <1>8
  <2> DEFINE none == [f \in 1 .. 0 |-> Picture(f)]
  <2>2. none \in Seq(SUBSET [clip : Nat, frame : Nat])
    <3>1. none \in [1 .. 0 -> SUBSET [clip : Nat, frame : Nat]]
      BY <2>1
    <3>2. 0 \in Nat
      OBVIOUS
    <3> HIDE DEF none
    <3> QED
      BY <3>1, <3>2
  <2>3. BatchShows(b) = none
    BY <1>1, <2>1
  <2> QED
    BY <2>2, <2>3
<1> QED
  BY <1>7, <1>8

-----------------------------------------------------------------------------
\* The plan of the batches.

\* The clip to cut through next is a later one, not the last, with room for a
\* transition at either half.
LEMMA SplitIsInside ==
  ASSUME Lengths, NEW k \in 1 .. clip_count
  PROVE  LET c == SplitAfter(k) IN c # 0 => c \in k + 1 .. clip_count - 1 /\ Clear(c)
<1> DEFINE inside == {c \in k + 1 .. clip_count - 1 : Clear(c) /\ c < k + xfade_batch}
           beyond == {c \in k + xfade_batch .. clip_count - 1 : Clear(c)}
           latest == CHOOSE c \in inside : \A d \in inside : d <= c
           earliest == CHOOSE c \in beyond : \A d \in beyond : c <= d
<1>1. SplitAfter(k) = (IF clip_count - k + 1 <= xfade_batch \/ inside \cup beyond = {} THEN 0
                       ELSE IF inside # {} THEN latest ELSE earliest)
  BY Zenon DEF SplitAfter
<1>2. clip_count \in Nat \ {0} /\ xfade_batch \in Nat \ {0, 1}
  BY RenderAssumption DEF Lengths, clip_count
<1>3. inside \subseteq k + 1 .. clip_count - 1 /\ (\A c \in inside : Clear(c))
  OBVIOUS
<1>4. beyond \subseteq k + 1 .. clip_count - 1 /\ (\A c \in beyond : Clear(c))
  BY <1>2
<1> HIDE DEF inside, beyond
<1>5. inside # {} => latest \in inside
  <2> SUFFICES ASSUME inside # {} PROVE \E c \in inside : \A d \in inside : d <= c
    BY Zenon
  <2> DEFINE T == {clip_count - c : c \in inside}
  <2>1. T \subseteq Nat /\ T # {}
    <3>1. \A c \in inside : c \in k + 1 .. clip_count - 1
      BY <1>3
    <3>2. \A c \in inside : clip_count - c \in Nat
      BY <1>2, <3>1
    <3> QED
      BY <3>2
  <2>2. PICK x \in T : \A y \in T : x <= y
    BY <2>1, Least
  <2>3. PICK c \in inside : x = clip_count - c
    BY <2>2
  <2>4. ASSUME NEW d \in inside PROVE d <= c
    <3>1. x <= clip_count - d
      BY <2>2
    <3> QED
      BY <1>2, <1>3, <2>3, <3>1
  <2> QED
    BY <2>4
<1>6. beyond # {} => earliest \in beyond
  <2>1. beyond \subseteq Nat
    BY <1>4
  <2>2. beyond # {} => \E c \in beyond : \A d \in beyond : c <= d
    BY <2>1, Least
  <2> QED
    BY <2>2, Zenon
<1> HIDE DEF latest, earliest
<1>7. SplitAfter(k) = 0 \/ SplitAfter(k) \in inside \/ SplitAfter(k) \in beyond
  BY <1>1, <1>5, <1>6
<1> QED
  BY <1>3, <1>4, <1>7

CutThrough(s) ==
    /\ s \in Seq(1 .. clip_count) /\ s # <<>> /\ s[1] = 1
    /\ \A j \in 2 .. Len(s) : s[j - 1] < s[j] /\ s[j] < clip_count /\ Clear(s[j])

LEMMA SplitsAreClear ==
  ASSUME Lengths
  PROVE  CutThrough(splits)
<1> DEFINE m == clip_count
           S == {s \in Seq(1 .. clip_count) : CutThrough(s)}
           none == <<1>>
           On(k, x) == LET before == x
                           split == SplitAfter(before[Len(before)])
                       IN  IF split = 0 THEN before ELSE Append(before, split)
           Is(f) == f = [k \in 0 .. m |-> IF k = 0 THEN none ELSE On(k, f[k - 1])]
           upto == CHOOSE f : Is(f)
           step == [k \in 1 .. m |-> [x \in S |-> On(k, x)]]
<1>1. m \in Nat \ {0}
  BY DEF Lengths, clip_count
<1>2. splits = upto[m]
  BY Zenon DEF splits
<1>3. none \in S
  <2>1. none \in Seq(1 .. clip_count) /\ Len(none) = 1 /\ none[1] = 1 /\ none # <<>>
    BY <1>1
  <2> QED
    BY <2>1 DEF CutThrough
<1>4. ASSUME NEW k \in 1 .. m, NEW x \in S PROVE On(k, x) \in S
  <2> DEFINE c == SplitAfter(x[Len(x)])
  <2>1. x \in Seq(1 .. clip_count) /\ x # <<>> /\ x[1] = 1 /\ Len(x) \in Nat \ {0} /\ x[Len(x)] \in 1 .. clip_count
    <3>1. x \in Seq(1 .. clip_count) /\ x # <<>> /\ x[1] = 1
      BY DEF CutThrough
    <3>2. Len(x) \in Nat \ {0} /\ Len(x) \in DOMAIN x
      BY <3>1
    <3> QED
      BY <3>1, <3>2, Element
  <2>2. c # 0 => c \in x[Len(x)] + 1 .. clip_count - 1 /\ Clear(c)
    BY <2>1, SplitIsInside
  <2>3. On(k, x) = IF c = 0 THEN x ELSE Append(x, c)
    OBVIOUS
  <2> HIDE DEF c, On
  <2>4. ASSUME c # 0 PROVE CutThrough(Append(x, c))
    <3>1. c \in 1 .. clip_count /\ x[Len(x)] < c /\ c < clip_count /\ Clear(c)
      BY <1>1, <2>1, <2>2, <2>4
    <3>2. Append(x, c) \in Seq(1 .. clip_count) /\ Len(Append(x, c)) = Len(x) + 1
          /\ Append(x, c)[Len(x) + 1] = c /\ \A j \in 1 .. Len(x) : Append(x, c)[j] = x[j]
      BY <2>1, <3>1
    <3>3. ASSUME NEW j \in 2 .. Len(x) + 1
          PROVE  Append(x, c)[j - 1] < Append(x, c)[j] /\ Append(x, c)[j] < clip_count /\ Clear(Append(x, c)[j])
      <4>1. CASE j = Len(x) + 1
        <5>1. j - 1 = Len(x) /\ Append(x, c)[j - 1] = x[Len(x)] /\ Append(x, c)[j] = c
          BY <2>1, <3>2, <4>1
        <5> QED
          BY <3>1, <5>1
      <4>2. CASE j # Len(x) + 1
        <5>1. j \in 2 .. Len(x) /\ j \in 1 .. Len(x) /\ j - 1 \in 1 .. Len(x)
          BY <2>1, <4>2
        <5>2. x[j - 1] < x[j] /\ x[j] < clip_count /\ Clear(x[j])
          BY <5>1 DEF CutThrough
        <5> QED
          BY <3>2, <5>1, <5>2
      <4> QED
        BY <4>1, <4>2
    <3>4. Append(x, c) # <<>> /\ Append(x, c)[1] = 1
      BY <2>1, <3>2
    <3> QED
      BY <3>2, <3>3, <3>4 DEF CutThrough
  <2> QED
    BY <2>3, <2>4 DEF CutThrough
<1> HIDE DEF On, m, S, none
<1>5. step \in [1 .. m -> [S -> S]] /\ \A k \in 1 .. m, x \in S : step[k][x] = On(k, x)
  BY <1>4
<1> HIDE DEF step
<1>6. PICK f : Loops(f, S, none, m, step)
  BY <1>1, <1>3, <1>5, LoopExists
<1>7. f \in [0 .. m -> S] /\ f[0] = none /\ \A k \in 1 .. m : f[k] = On(k, f[k - 1])
  BY <1>1, <1>5, <1>6 DEF Loops
<1>8. Is(f)
  BY <1>1, <1>7
<1>9. Is(upto)
  BY <1>8, Zenon
<1> HIDE DEF upto
<1>10. upto[0] = none /\ \A k \in 1 .. m : upto[k] = On(k, upto[k - 1])
  BY <1>1, <1>9
<1> DEFINE good == {k \in 0 .. m : upto[k] \in S}
<1>11. 0 \in good
  BY <1>1, <1>3, <1>10
<1>12. \A k \in 1 .. m : k - 1 \in good => k \in good
  BY <1>1, <1>4, <1>10
<1> HIDE DEF good
<1>13. m \in Nat
  BY <1>1
<1>14. 0 .. m \subseteq good
  BY <1>11, <1>12, <1>13, EveryPosition
<1>15. m \in good
  BY <1>13, <1>14
<1> QED
  BY <1>2, <1>15 DEF good, S

\* A clip that is cut through has a transition's length on either side.
LEMMA HalfIsClear ==
  ASSUME Lengths, NEW k \in 1 .. clip_count, Clear(k)
  PROVE  LET h == Rounded(lengths[k], 2)
         IN  h \in Nat /\ overlap <= h /\ h <= lengths[k] - overlap /\ h <= lengths[k]
<1>1. lengths[k] \in Nat /\ overlap \in Nat /\ min_split_frames \in Nat
  BY TransitionFits, RenderAssumption DEF Lengths
<1> DEFINE l == lengths[k]
           o == overlap
<1>2. l - 2 * o >= min_split_frames
  BY DEF Clear
<1>3. l \in Nat /\ o \in Nat
  BY <1>1
<1> HIDE DEF l, o
<1>4. Rounded(l, 2) \in Nat /\ 2 * Rounded(l, 2) <= l + 1 /\ 2 * Rounded(l, 2) >= l - 1
  BY <1>3, RoundedHalf
<1> DEFINE h == Rounded(l, 2)
<1> HIDE DEF h
<1>5. h \in Nat /\ 2 * h <= l + 1 /\ 2 * h >= l - 1
  BY <1>4 DEF h
<1>6. o <= h /\ h <= l - o /\ h <= l
  BY <1>1, <1>2, <1>3, <1>5
<1> QED
  BY <1>5, <1>6 DEF h, l, o

\* Every batch of the plan, whatever can be joined.
LEMMA PlanTyped ==
  ASSUME Lengths
  PROVE  /\ plan_xfade_batches \in Seq(Batch) /\ Len(plan_xfade_batches) = Len(splits) /\ Len(splits) \in Nat \ {0}
         /\ \A j \in 1 .. Len(splits) :
              LET b == plan_xfade_batches[j]
              IN  /\ b.first = splits[j] /\ b.first \in 1 .. clip_count /\ b.last \in 1 .. clip_count
                  /\ b.last = IF j = Len(splits) THEN clip_count ELSE splits[j + 1]
                  /\ b.head = IF j = 1 THEN 0 ELSE Rounded(lengths[b.first], 2)
                  /\ b.start = Begins(b.first) + b.head
                  /\ b.tail = IF j = Len(splits) THEN lengths[b.last] ELSE Rounded(lengths[b.last], 2)
<1> DEFINE s == splits
           whole(j) == j = Len(s)
           first(j) == s[j]
           last(j) == IF whole(j) THEN clip_count ELSE s[j + 1]
           head(j) == IF j = 1 THEN 0 ELSE Rounded(lengths[first(j)], 2)
           tail(j) == IF whole(j) THEN lengths[last(j)] ELSE Half(last(j))
           B(j) == [first |-> first(j), last |-> last(j), head |-> head(j), start |-> Begins(first(j)) + head(j),
                    tail |-> tail(j)]
<1>1. plan_xfade_batches = [j \in DOMAIN s |-> B(j)]
  BY Zenon DEF plan_xfade_batches
<1>2. CutThrough(s)
  BY SplitsAreClear
<1> HIDE DEF s
<1>3. s \in Seq(1 .. clip_count) /\ Len(s) \in Nat \ {0} /\ DOMAIN s = 1 .. Len(s)
  BY <1>2 DEF CutThrough
<1>4. clip_count \in Nat \ {0} /\ \A k \in 1 .. clip_count : lengths[k] \in Nat \ {0} /\ Begins(k) \in Int
  BY BeginsInTurn DEF Lengths, clip_count
<1>5. \A k \in 1 .. clip_count : Rounded(lengths[k], 2) \in Nat
  BY <1>4, RoundedHalf
<1>6. ASSUME NEW j \in 1 .. Len(s)
      PROVE  /\ first(j) \in 1 .. clip_count /\ last(j) \in 1 .. clip_count
             /\ head(j) \in Nat /\ tail(j) \in Nat /\ Begins(first(j)) + head(j) \in Int
             /\ tail(j) = IF whole(j) THEN lengths[last(j)] ELSE Rounded(lengths[last(j)], 2)
  <2>1. first(j) \in 1 .. clip_count
    BY <1>3, Element
  <2>2. last(j) \in 1 .. clip_count
    <3>1. CASE whole(j)
      BY <1>4, <3>1
    <3>2. CASE ~whole(j)
      <4>1. j + 1 \in DOMAIN s
        <5>1. j # Len(s) /\ Len(s) \in Nat /\ j \in 1 .. Len(s)
          BY <1>3, <3>2
        <5>2. j + 1 \in 1 .. Len(s)
          BY <5>1
        <5> QED
          BY <1>3, <5>2
      <4>2. s[j + 1] \in 1 .. clip_count
        BY <1>3, <4>1, Element
      <4> QED
        BY <3>2, <4>2
    <3> QED
      BY <3>1, <3>2
  <2> HIDE DEF first, last
  <2>3. head(j) \in Nat /\ Begins(first(j)) \in Int
    BY <1>4, <1>5, <2>1
  <2>4. tail(j) \in Nat /\ tail(j) = IF whole(j) THEN lengths[last(j)] ELSE Rounded(lengths[last(j)], 2)
    BY <1>4, <1>5, <2>2 DEF Half
  <2> QED
    BY <2>1, <2>2, <2>3, <2>4
<1>7. \A j \in 1 .. Len(s) : B(j) \in Batch
  <2> SUFFICES ASSUME NEW j \in 1 .. Len(s) PROVE B(j) \in Batch
    OBVIOUS
  <2>1. first(j) \in Nat /\ last(j) \in Nat /\ head(j) \in Nat /\ tail(j) \in Nat /\ Begins(first(j)) + head(j) \in Int
    BY <1>4, <1>6
  <2> HIDE DEF first, last, head, tail
  <2> QED
    BY <2>1 DEF Batch
<1>8. \A j \in 1 .. Len(s) : plan_xfade_batches[j] = B(j)
  BY <1>1, <1>3
<1>9. plan_xfade_batches \in Seq(Batch) /\ Len(plan_xfade_batches) = Len(s)
  <2> HIDE DEF B
  <2> QED
    BY <1>1, <1>3, <1>7
<1>10. ASSUME NEW j \in 1 .. Len(s)
       PROVE  LET b == plan_xfade_batches[j]
              IN  /\ b.first = s[j] /\ b.first \in 1 .. clip_count /\ b.last \in 1 .. clip_count
                  /\ b.last = IF j = Len(s) THEN clip_count ELSE s[j + 1]
                  /\ b.head = IF j = 1 THEN 0 ELSE Rounded(lengths[b.first], 2)
                  /\ b.start = Begins(b.first) + b.head
                  /\ b.tail = IF j = Len(s) THEN lengths[b.last] ELSE Rounded(lengths[b.last], 2)
  <2>1. /\ B(j).first = first(j) /\ B(j).last = last(j) /\ B(j).head = head(j) /\ B(j).tail = tail(j)
        /\ B(j).start = Begins(first(j)) + head(j)
    OBVIOUS
  <2>2. plan_xfade_batches[j] = B(j)
    BY <1>8
  <2> HIDE DEF B
  <2> QED
    BY <1>6, <2>1, <2>2
<1> QED
  BY <1>3, <1>9, <1>10 DEF s

\* The batches of a plan begin with the output, follow one another without a
\* gap, end with the output, and show no clip that is of another batch.
LEMMA PlanIsSeamless ==
  ASSUME Lengths, Joinable
  PROVE  LET plan == plan_xfade_batches
         IN  /\ plan[1].start = 0
             /\ \A j \in 1 .. Len(plan) :
                  /\ Alone(plan[j]) /\ 0 <= plan[j].start /\ Ending(plan[j]) <= FinalFrames
                  /\ Ending(plan[j]) = IF j = Len(plan) THEN FinalFrames ELSE plan[j + 1].start
<1> DEFINE plan == plan_xfade_batches
           m == Len(splits)
<1>1. plan \in Seq(Batch) /\ Len(plan) = m /\ m \in Nat \ {0}
  BY PlanTyped
<1>2. \A j \in 1 .. m :
        /\ plan[j].first = splits[j] /\ plan[j].first \in 1 .. clip_count /\ plan[j].last \in 1 .. clip_count
        /\ plan[j].last = IF j = m THEN clip_count ELSE splits[j + 1]
        /\ plan[j].head = IF j = 1 THEN 0 ELSE Rounded(lengths[plan[j].first], 2)
        /\ plan[j].start = Begins(plan[j].first) + plan[j].head
        /\ plan[j].tail = IF j = m THEN lengths[plan[j].last] ELSE Rounded(lengths[plan[j].last], 2)
  BY PlanTyped
<1> HIDE DEF plan, m
<1>3. splits[1] = 1 /\ \A j \in 2 .. m : splits[j - 1] < splits[j] /\ splits[j] < clip_count /\ Clear(splits[j])
  BY SplitsAreClear DEF CutThrough, m
<1>4. clip_count \in Nat \ {0} /\ \A k \in 1 .. clip_count : lengths[k] \in Nat \ {0} /\ Begins(k) \in Int
  BY BeginsInTurn DEF Lengths, clip_count
<1>5. /\ Begins(1) = 0 /\ FinalFrames = Begins(clip_count) + lengths[clip_count]
      /\ \A k \in 1 .. clip_count - 1 : Begins(k + 1) = Begins(k) + lengths[k] - overlap
  BY BeginsInTurn
<1>6. overlap \in Nat /\ \A k \in 1 .. clip_count : overlap <= lengths[k]
  BY TransitionFits DEF Lengths
<1>7. \A i, j \in 1 .. clip_count : i <= j => Begins(i) <= Begins(j)
  BY BeginsInOrder
<1>8. \A k \in 1 .. clip_count : Clear(k) =>
        /\ Rounded(lengths[k], 2) \in Nat /\ overlap <= Rounded(lengths[k], 2)
        /\ Rounded(lengths[k], 2) <= lengths[k] - overlap /\ Rounded(lengths[k], 2) <= lengths[k]
  BY HalfIsClear
<1>9. plan[1].start = 0
  <2>1. 1 \in 1 .. m
    BY <1>1
  <2> QED
    BY <1>2, <1>3, <1>5, <2>1
<1>10. ASSUME NEW j \in 1 .. m
       PROVE  /\ Alone(plan[j]) /\ 0 <= plan[j].start /\ Ending(plan[j]) <= FinalFrames
              /\ Ending(plan[j]) = IF j = m THEN FinalFrames ELSE plan[j + 1].start
  <2> DEFINE b == plan[j]
             a == b.first
             z == b.last
             h == b.head
             t == b.tail
  <2>1. b \in Batch /\ a \in 1 .. clip_count /\ z \in 1 .. clip_count /\ h \in Nat /\ t \in Nat
    <3>1. b \in Batch
      BY <1>1, Element
    <3> QED
      BY <1>2, <3>1 DEF Batch
  <2>2. /\ a = splits[j] /\ z = (IF j = m THEN clip_count ELSE splits[j + 1])
        /\ h = (IF j = 1 THEN 0 ELSE Rounded(lengths[a], 2))
        /\ b.start = Begins(a) + h
        /\ t = (IF j = m THEN lengths[z] ELSE Rounded(lengths[z], 2))
    BY <1>2
  <2>3. Ending(b) = Begins(z) + t
    BY DEF Ending
  <2>4. j # 1 => a < clip_count /\ Clear(a)
    <3>1. j # 1 => j \in 2 .. m
      OBVIOUS
    <3> QED
      BY <1>3, <2>2, <3>1
  <2>5. j # m => a < z /\ z < clip_count /\ Clear(z)
    <3>1. j # m => j + 1 \in 2 .. m /\ (j + 1) - 1 = j
      BY <1>1
    <3>2. j # m => splits[(j + 1) - 1] < splits[j + 1] /\ splits[j + 1] < clip_count /\ Clear(splits[j + 1])
      BY <1>3, <3>1
    <3> QED
      BY <2>2, <3>1, <3>2
  <2>6. a = 1 <=> j = 1
    <3>1. j = 1 => a = 1
      BY <1>3, <2>2
    <3>2. ASSUME j # 1 PROVE a # 1
      <4>1. j \in 2 .. m /\ j - 1 \in 1 .. m
        BY <1>1, <3>2
      <4>2. splits[j - 1] < a /\ splits[j - 1] = plan[j - 1].first /\ plan[j - 1].first \in 1 .. clip_count
        BY <1>2, <1>3, <2>2, <4>1
      <4> QED
        BY <1>4, <2>1, <4>2
    <3> QED
      BY <3>1, <3>2
  <2>7. j # m => plan[j + 1].start = Begins(z) + t
    <3>1. j # m => j + 1 \in 1 .. m /\ j + 1 # 1
      BY <1>1
    <3>2. j # m => plan[j + 1].first = z
      BY <1>2, <2>2, <3>1
    <3> QED
      BY <1>2, <2>2, <3>1, <3>2
  <2> HIDE DEF a, z, h, t, b
  <2>8. h <= lengths[a] - overlap \/ h = 0
    BY <1>8, <2>1, <2>2, <2>4
  <2>9. a < z \/ (a = z /\ h = 0)
    <3>1. CASE j # m
      BY <2>5, <3>1
    <3>2. CASE j = m /\ j # 1
      BY <2>2, <2>4, <3>2
    <3>3. CASE j = m /\ j = 1
      BY <1>4, <2>1, <2>2, <2>6, <3>3
    <3> QED
      BY <3>1, <3>2, <3>3
  <2>10. Begins(a) + h <= Begins(z)
    <3>1. CASE a < z
      <4>1. a \in 1 .. clip_count - 1 /\ a + 1 \in 1 .. clip_count /\ a + 1 <= z
        BY <1>4, <2>1, <3>1
      <4>2. Begins(a + 1) = Begins(a) + lengths[a] - overlap /\ Begins(a + 1) <= Begins(z)
        BY <1>5, <1>7, <2>1, <4>1
      <4>3. overlap <= lengths[a] /\ lengths[a] \in Nat /\ Begins(a) \in Int /\ Begins(z) \in Int /\ overlap \in Nat
        BY <1>4, <1>6, <2>1
      <4> QED
        BY <2>1, <2>8, <4>2, <4>3
    <3>2. CASE a = z /\ h = 0
      BY <1>4, <2>1, <3>2
    <3> QED
      BY <2>9, <3>1, <3>2
  <2>11. t <= lengths[z]
    BY <1>4, <1>8, <2>1, <2>2, <2>5
  <2>12. ASSUME NEW k \in z + 1 .. clip_count PROVE Begins(k) >= Begins(z) + t
    <3>1. z # clip_count /\ z + 1 \in 1 .. clip_count /\ z \in 1 .. clip_count - 1 /\ k \in 1 .. clip_count /\ z + 1 <= k
      BY <1>4, <2>1
    <3>2. j # m
      BY <2>2, <3>1
    <3>3. t <= lengths[z] - overlap
      BY <1>8, <2>1, <2>2, <2>5, <3>2
    <3>4. Begins(z + 1) = Begins(z) + lengths[z] - overlap /\ Begins(z + 1) <= Begins(k)
      BY <1>5, <1>7, <3>1
    <3>5. lengths[z] \in Nat /\ Begins(k) \in Int /\ Begins(z) \in Int /\ overlap \in Nat
      BY <1>4, <1>6, <2>1, <3>1
    <3> QED
      BY <2>1, <3>3, <3>4, <3>5
  <2>13. ASSUME NEW k \in 1 .. a - 1 PROVE Begins(k) + lengths[k] <= Begins(a) + h
    <3>1. a # 1 /\ k \in 1 .. clip_count - 1 /\ k \in 1 .. clip_count /\ k + 1 \in 1 .. clip_count /\ k + 1 <= a
      BY <1>4, <2>1
    <3>2. overlap <= h
      BY <1>8, <2>1, <2>2, <2>4, <2>6, <3>1
    <3>3. Begins(k + 1) = Begins(k) + lengths[k] - overlap /\ Begins(k + 1) <= Begins(a)
      BY <1>5, <1>7, <2>1, <3>1
    <3>4. lengths[k] \in Nat /\ Begins(k) \in Int /\ Begins(a) \in Int /\ overlap \in Nat
      BY <1>4, <1>6, <2>1, <3>1
    <3> QED
      BY <2>1, <3>2, <3>3, <3>4
  <2>14. Begins(z) + t <= FinalFrames
    <3>1. CASE z = clip_count
      BY <1>4, <1>5, <2>1, <2>11, <3>1
    <3>2. CASE z # clip_count
      <4>1. clip_count \in z + 1 .. clip_count
        BY <1>4, <2>1, <3>2
      <4>2. Begins(clip_count) >= Begins(z) + t
        BY <2>12, <4>1
      <4>3. lengths[clip_count] \in Nat /\ Begins(clip_count) \in Int /\ Begins(z) \in Int
        BY <1>4, <2>1
      <4> QED
        BY <1>5, <2>1, <4>2, <4>3
    <3> QED
      BY <3>1, <3>2
  <2>15. 0 <= Begins(a)
    <3>1. 1 \in 1 .. clip_count /\ 1 <= a
      BY <1>4, <2>1
    <3> QED
      BY <1>5, <1>7, <2>1, <3>1
  <2>16. a \in Nat /\ z \in Nat /\ 1 <= a /\ a <= z /\ z <= clip_count /\ Begins(a) \in Int /\ Begins(z) \in Int
    BY <1>4, <2>1, <2>9
  <2>17. Alone(b)
    <3>1. b.start <= Ending(b)
      BY <2>1, <2>2, <2>3, <2>10, <2>16
    <3>2. /\ \A k \in 1 .. a - 1 : Begins(k) + lengths[k] <= b.start
          /\ \A k \in z + 1 .. clip_count : Begins(k) >= Ending(b)
      BY <2>2, <2>3, <2>12, <2>13
    <3> QED
      BY <2>1, <2>2, <2>11, <2>16, <3>1, <3>2 DEF Alone, a, z, h, t
  <2>18. 0 <= b.start /\ Ending(b) <= FinalFrames
    BY <2>1, <2>2, <2>3, <2>14, <2>15, <2>16
  <2>19. Ending(b) = IF j = m THEN FinalFrames ELSE plan[j + 1].start
    BY <1>5, <2>2, <2>3, <2>7
  <2> QED
    BY <2>17, <2>18, <2>19 DEF b
<1> QED
  BY <1>1, <1>9, <1>10 DEF plan

-----------------------------------------------------------------------------
\* The invariant of a render: every clip is whole frames of its range, and the
\* batches joined so far show the beginning of what one pass would show.

AfterJoin == {"captions", "finalize", "done"}

Subtitles == UNION {Caption(segment, k) : segment \in Segments, k \in Captioned}

RenderTyped ==
    /\ take \in Takes
    /\ phase \in {"bracket", "cut", "join", "batches", "failed"} \cup AfterJoin
    /\ sequence \in Seq(Clip) /\ \A k \in 1 .. clip_count : sequence[k].from < sequence[k].to
    /\ lengths \in Seq(Nat \ {0})
    /\ shown \in Seq(SUBSET [clip : Nat, frame : Nat])

ClipsAreCut ==
    /\ phase = "bracket" => lengths = <<>>
    /\ phase = "cut" => Len(lengths) < clip_count
    /\ phase \in {"join", "batches"} \cup AfterJoin => sequence # <<>> /\ Len(lengths) = clip_count
    /\ phase # "failed" => \A k \in 1 .. Len(lengths) : lengths[k] = clip_frames(sequence[k].to - sequence[k].from)

\* The batches left are the last ones of the plan, and the first of them goes on
\* where the file ends.
BatchesAreInTurn ==
    phase = "batches" =>
        /\ passes \in Seq(Batch) /\ Len(passes) \in 1 .. Len(plan_xfade_batches)
        /\ \A i \in 1 .. Len(passes) :
              passes[i] = plan_xfade_batches[Len(plan_xfade_batches) - Len(passes) + i]
        /\ Joinable => /\ Len(shown) = plan_xfade_batches[Len(plan_xfade_batches) - Len(passes) + 1].start
                       /\ \A f \in 1 .. Len(shown) : shown[f] = OnePass[f]

RInv == /\ RenderTyped
        /\ ClipsAreCut
        /\ phase \in {"bracket", "cut", "join"} => shown = <<>>
        /\ BatchesAreInTurn
        /\ phase \in AfterJoin /\ Joinable => shown = OnePass
        /\ phase \in {"finalize", "done"} => captions = Subtitles

\* Once the clips are cut, the plan is made of what no later step changes.
LEMMA PlanStays ==
  ASSUME UNCHANGED <<take, sequence, lengths>>
  PROVE  /\ UNCHANGED <<clip_count, overlap, Joinable, FinalFrames, OnePass, plan_xfade_batches, Subtitles>>
         /\ Lengths => Lengths'
<1>1. take' = take /\ sequence' = sequence /\ lengths' = lengths
  OBVIOUS
<1>2. clip_count' = clip_count
  BY <1>1 DEF clip_count
<1>3. shortest' = shortest
  BY <1>1, Zenon DEF shortest
<1>4. TransitionFrames' = TransitionFrames
  BY <1>1, <1>3, Zenon DEF TransitionFrames
<1>5. Concatenated' <=> Concatenated
  BY <1>1, <1>2 DEF Concatenated
<1>6. overlap' = overlap
  BY <1>4, <1>5 DEF overlap
<1>7. FinalFrames' = FinalFrames
  BY <1>1, <1>2, <1>6, Zenon DEF FinalFrames
<1>8. Joinable' <=> Joinable
  BY <1>1, Zenon DEF Joinable
<1>9. OnePass' = OnePass
  BY <1>1, <1>2, <1>6, <1>7, Zenon DEF OnePass, Begins
<1>10. splits' = splits
  <2>1. \A k : SplitAfter(k)' = SplitAfter(k)
    BY <1>1, <1>2, <1>6, SMT DEF SplitAfter, Clear
  <2> QED
    BY <1>1, <1>2, <1>6, <2>1, SMT DEF splits, SplitAfter, Clear
<1>11. plan_xfade_batches' = plan_xfade_batches
  BY <1>1, <1>2, <1>6, <1>10, Zenon DEF plan_xfade_batches, Begins, Half
<1>12. Captioned' = Captioned
  BY <1>1, Zenon DEF Captioned
<1>13. Subtitles' = Subtitles
  <2>1. \A k, t : Onto(k, t)' = Onto(k, t)
    BY <1>1, <1>6, Zenon DEF Onto, Begins
  <2>2. ASSUME NEW segment, NEW k PROVE Caption(segment, k)' = Caption(segment, k)
    BY <1>1, <1>6, SMT DEF Caption, Onto, Begins
  <2> QED
    BY <1>12, <2>2 DEF Subtitles
<1>14. Lengths => Lengths'
  BY <1>1, <1>2 DEF Lengths
<1> QED
  BY <1>2, <1>6, <1>7, <1>8, <1>9, <1>11, <1>13, <1>14

LEMMA RenderLengths == RInv /\ phase \in {"join", "batches"} \cup AfterJoin => Lengths
  BY DEF RInv, RenderTyped, ClipsAreCut, Lengths

\* A caption of a clip tells when, on the output, the clip plays what is said,
\* and says nothing the clip does not play.
LEMMA CaptionOfClip ==
  ASSUME Lengths, NEW segment \in Segments, NEW k \in 1 .. clip_count, NEW c \in Caption(segment, k)
  PROVE  /\ c.clip = k
         /\ \E begin \in Nat, end \in Nat :
              /\ sequence[k].from <= begin /\ end <= sequence[k].to
              /\ c.said = begin
              /\ c.from = begin - sequence[k].from + 2 * Begins(k)
              /\ c.to = end - sequence[k].from + 2 * Begins(k)
<1> DEFINE clip == sequence[k]
           from == Larger(segment.from, clip.from)
           to == Smaller(segment.to, clip.to)
           kept == {w \in segment.words : w.from < to /\ w.to > from}
           Starts == {w.from : w \in kept}
           Ends == {w.to : w \in kept}
           first == CHOOSE t \in Starts : \A w \in kept : t <= w.from
           last == CHOOSE t \in Ends : \A w \in kept : w.to <= t
           begin == IF kept = {} THEN from ELSE Larger(from, first)
           end == IF kept = {} THEN to ELSE Smaller(to, last)
<1>1. Caption(segment, k) = (IF to <= from \/ (segment.words # {} /\ kept = {}) THEN {}
                             ELSE {[from |-> Onto(k, begin), to |-> Onto(k, end), clip |-> k, said |-> begin]})
  BY Zenon DEF Caption
<1> DEFINE caption == [from |-> Onto(k, begin), to |-> Onto(k, end), clip |-> k, said |-> begin]
<1>2. c = caption
  <2> HIDE DEF caption, kept, to, from
  <2> QED
    BY <1>1 DEF caption
<1>3. c.clip = k /\ c.said = begin /\ c.from = Onto(k, begin) /\ c.to = Onto(k, end)
  <2> HIDE DEF begin, end
  <2> QED
    BY <1>2
<1>4. clip.from \in Nat /\ clip.to \in Nat
  <2>1. k \in DOMAIN sequence /\ sequence \in Seq(Clip)
    BY DEF Lengths, clip_count
  <2>2. sequence[k] \in Clip
    BY <2>1, Element
  <2> QED
    BY <2>2 DEF Clip
<1>5. /\ segment.from \in Nat /\ segment.to \in Nat
      /\ IsFiniteSet(segment.words) /\ \A w \in segment.words : w.from \in Nat /\ w.to \in Nat
  <2>1. /\ {segment.from, segment.to} \subseteq Nat /\ IsFiniteSet(segment.words)
        /\ segment.words \subseteq [from : Nat, to : Nat]
    BY RenderAssumption
  <2>2. \A w \in segment.words : w \in [from : Nat, to : Nat]
    BY <2>1
  <2> QED
    BY <2>1, <2>2
<1>6. from \in Nat /\ clip.from <= from /\ to \in Nat /\ to <= clip.to
  BY <1>4, <1>5 DEF Larger, Smaller
<1>7. IsFiniteSet(kept) /\ \A w \in kept : w.from \in Nat /\ w.to \in Nat
  <2>1. kept \subseteq segment.words
    OBVIOUS
  <2> HIDE DEF kept
  <2> QED
    BY <1>5, <2>1, FS_Subset
<1> HIDE DEF kept, clip
<1>8. IsFiniteSet(Ends)
  <2> DEFINE ending == [w \in kept |-> w.to]
  <2>1. ending \in Surjection(kept, Ends)
    BY DEF Surjection
  <2> QED
    BY <1>7, <2>1, FS_Surjection
<1>9. ASSUME kept # {} PROVE first \in Nat /\ last \in Nat
  <2>1. Starts \subseteq Nat /\ Starts # {} /\ Ends \subseteq Nat /\ Ends # {}
    BY <1>7, <1>9
  <2>2. \E t \in Starts : \A x \in Starts : t <= x
    <3> HIDE DEF Starts
    <3> QED
      BY <2>1, Least
  <2>3. \E t \in Ends : \A x \in Ends : x <= t
    <3> HIDE DEF Ends
    <3> QED
      BY <1>8, <2>1, Greatest
  <2>4. \E t \in Starts : \A w \in kept : t <= w.from
    BY <2>2
  <2>5. \E t \in Ends : \A w \in kept : w.to <= t
    BY <2>3
  <2>6. first \in Starts /\ last \in Ends
    <3> HIDE DEF Starts, Ends
    <3> QED
      BY <2>4, <2>5
  <2> HIDE DEF first, last, Starts, Ends
  <2> QED
    BY <2>1, <2>6
<1> HIDE DEF from, to, first, last
<1>10. begin \in Nat /\ from <= begin /\ end \in Nat /\ end <= to
  BY <1>6, <1>9 DEF Larger, Smaller
<1> HIDE DEF begin, end
<1>11. clip.from <= begin /\ end <= clip.to
  BY <1>4, <1>6, <1>10
<1> QED
  BY <1>3, <1>10, <1>11 DEF Onto, clip

LEMMA BrandTyped == ASSUME NEW length \in Nat
                    PROVE  Brand(length) \in Seq(Clip) /\ \A k \in 1 .. Len(Brand(length)) :
                              Brand(length)[k].from < Brand(length)[k].to
<1> DEFINE clip == [source |-> "brand", from |-> 0, to |-> length]
<1>1. Brand(length) = IF length > 0 THEN <<clip>> ELSE <<>>
  BY Zenon DEF Brand
<1>2. clip \in Clip
  BY DEF Clip
<1>3. clip.from = 0 /\ clip.to = length
  OBVIOUS
<1> HIDE DEF clip
<1>4. CASE length > 0
  <2>1. Brand(length) = <<clip>> /\ Len(<<clip>>) = 1 /\ <<clip>>[1] = clip /\ <<clip>> \in Seq(Clip)
    BY <1>1, <1>2, <1>4
  <2> QED
    BY <1>3, <1>4, <2>1
<1>5. CASE ~(length > 0)
  <2>1. Brand(length) = <<>> /\ Len(<<>>) = 0 /\ <<>> \in Seq(Clip)
    BY <1>1, <1>5
  <2> QED
    BY <2>1
<1> QED
  BY <1>4, <1>5

\* Two sequences of proper ranges, one after the other.
LEMMA RangesJoined ==
  ASSUME NEW s \in Seq(Clip), NEW t \in Seq(Clip),
         \A k \in 1 .. Len(s) : s[k].from < s[k].to, \A k \in 1 .. Len(t) : t[k].from < t[k].to
  PROVE  /\ s \o t \in Seq(Clip) /\ Len(s \o t) = Len(s) + Len(t)
         /\ \A k \in 1 .. Len(s \o t) : (s \o t)[k].from < (s \o t)[k].to
<1>1. /\ s \o t \in Seq(Clip) /\ Len(s \o t) = Len(s) + Len(t)
      /\ \A k \in 1 .. Len(s) + Len(t) : (s \o t)[k] = IF k <= Len(s) THEN s[k] ELSE t[k - Len(s)]
  BY ConcatProperties
<1>2. ASSUME NEW k \in 1 .. Len(s \o t) PROVE (s \o t)[k].from < (s \o t)[k].to
  <2>1. Len(s) \in Nat /\ Len(t) \in Nat
    OBVIOUS
  <2>2. CASE k <= Len(s)
    <3>1. k \in 1 .. Len(s) /\ (s \o t)[k] = s[k]
      BY <1>1, <2>1, <2>2
    <3> QED
      BY <3>1
  <2>3. CASE ~(k <= Len(s))
    <3>1. k - Len(s) \in 1 .. Len(t) /\ (s \o t)[k] = t[k - Len(s)]
      BY <1>1, <2>1, <2>3
    <3> QED
      BY <3>1
  <2> QED
    BY <2>2, <2>3
<1> QED
  BY <1>1, <1>2

LEMMA Bracketed ==
  ASSUME take \in Takes
  PROVE  /\ bracket_with_brand \in Seq(Clip) /\ Len(bracket_with_brand) \in Nat \ {0}
         /\ \A k \in 1 .. Len(bracket_with_brand) : bracket_with_brand[k].from < bracket_with_brand[k].to
<1> DEFINE ranges == take.cuts
           Video(k) == [source |-> "video", from |-> ranges[k].from, to |-> ranges[k].to]
           videos == [k \in DOMAIN ranges |-> Video(k)]
           intro == Brand(take.intro)
           outro == Brand(take.outro)
<1>1. /\ ranges \in Seq([from : Nat, to : Nat]) /\ ranges # <<>>
      /\ \A k \in DOMAIN ranges : ranges[k].from < ranges[k].to
      /\ take.intro \in Nat /\ take.outro \in Nat
  BY RenderAssumption DEF IsTake
<1>2. bracket_with_brand = (intro \o videos) \o outro
  BY Zenon DEF bracket_with_brand
<1>3. /\ intro \in Seq(Clip) /\ \A k \in 1 .. Len(intro) : intro[k].from < intro[k].to
      /\ outro \in Seq(Clip) /\ \A k \in 1 .. Len(outro) : outro[k].from < outro[k].to
  BY <1>1, BrandTyped
<1> HIDE DEF ranges, intro, outro
<1>4. Len(ranges) \in Nat \ {0} /\ DOMAIN ranges = 1 .. Len(ranges)
  BY <1>1
<1>5. ASSUME NEW k \in 1 .. Len(ranges) PROVE Video(k) \in Clip /\ Video(k).from < Video(k).to
  <2>1. ranges[k] \in [from : Nat, to : Nat] /\ ranges[k].from < ranges[k].to
    BY <1>1, <1>4, Element
  <2> QED
    BY <2>1 DEF Clip
<1>6. videos \in Seq(Clip) /\ Len(videos) = Len(ranges) /\ \A k \in 1 .. Len(ranges) : videos[k] = Video(k)
  <2> HIDE DEF Video
  <2> QED
    BY <1>4, <1>5
<1> HIDE DEF videos
<1>7. \A k \in 1 .. Len(videos) : videos[k].from < videos[k].to
  <2> HIDE DEF Video
  <2> QED
    BY <1>5, <1>6
<1>8. /\ intro \o videos \in Seq(Clip) /\ Len(intro \o videos) = Len(intro) + Len(videos)
      /\ \A k \in 1 .. Len(intro \o videos) : (intro \o videos)[k].from < (intro \o videos)[k].to
  BY <1>3, <1>6, <1>7, RangesJoined
<1> DEFINE front == intro \o videos
<1> HIDE DEF front
<1>9. /\ front \o outro \in Seq(Clip) /\ Len(front \o outro) = Len(front) + Len(outro)
      /\ \A k \in 1 .. Len(front \o outro) : (front \o outro)[k].from < (front \o outro)[k].to
  BY <1>3, <1>8, RangesJoined DEF front
<1>10. Len(front) \in Nat \ {0} /\ Len(outro) \in Nat
  BY <1>3, <1>4, <1>6, <1>8 DEF front
<1> QED
  BY <1>2, <1>9, <1>10 DEF front

LEMMA ClipFrames ==
  ASSUME NEW x \in Nat PROVE clip_frames(x) \in Nat \ {0} /\ 2 * clip_frames(x) >= x - 1
<1>1. Rounded(x, 2) \in Nat /\ 2 * Rounded(x, 2) >= x - 1
  BY RoundedHalf
<1> QED
  BY <1>1 DEF clip_frames, Larger

LEMMA RInit == RenderInit => RInv
<1> SUFFICES ASSUME RenderInit PROVE RInv
  OBVIOUS
<1>1. take \in Takes /\ phase = "bracket" /\ sequence = <<>> /\ lengths = <<>> /\ shown = <<>>
  BY DEF RenderInit
<1>2. RenderTyped
  BY <1>1 DEF RenderTyped, clip_count
<1>3. ClipsAreCut
  BY <1>1 DEF ClipsAreCut, AfterJoin
<1> QED
  BY <1>1, <1>2, <1>3 DEF RInv, BatchesAreInTurn, AfterJoin

LEMMA BracketKeeps == RInv /\ BracketClips => RInv'
<1> SUFFICES ASSUME RInv, BracketClips PROVE RInv'
  OBVIOUS
<1>1. /\ phase = "bracket" /\ phase' = "cut" /\ sequence' = bracket_with_brand
      /\ take' = take /\ lengths' = lengths /\ shown' = shown
  BY DEF BracketClips
<1>2. take \in Takes /\ lengths = <<>> /\ shown = <<>>
  BY <1>1 DEF RInv, RenderTyped, ClipsAreCut
<1>3. /\ sequence' \in Seq(Clip) /\ Len(sequence') \in Nat \ {0}
      /\ \A k \in 1 .. Len(sequence') : sequence'[k].from < sequence'[k].to
  BY <1>1, <1>2, Bracketed
<1>4. RenderTyped'
  BY <1>1, <1>2, <1>3 DEF RenderTyped, clip_count
<1>5. ClipsAreCut'
  BY <1>1, <1>2, <1>3 DEF ClipsAreCut, clip_count, AfterJoin
<1> QED
  BY <1>1, <1>2, <1>4, <1>5 DEF RInv, BatchesAreInTurn, AfterJoin

LEMMA ClipCutKeeps == RInv /\ CutClip => RInv'
<1> SUFFICES ASSUME RInv, CutClip PROVE RInv'
  OBVIOUS
<1> DEFINE k == Len(lengths) + 1
           clip == sequence[k]
           x == clip_frames(clip.to - clip.from)
<1>1. /\ phase = "cut" /\ Len(lengths) < clip_count
      /\ lengths' = Append(lengths, x)
      /\ phase' = (IF Len(lengths') = clip_count THEN "join" ELSE "cut")
      /\ take' = take /\ sequence' = sequence /\ shown' = shown
  BY DEF CutClip
<1>2. /\ take \in Takes /\ sequence \in Seq(Clip) /\ (\A j \in 1 .. clip_count : sequence[j].from < sequence[j].to)
      /\ lengths \in Seq(Nat \ {0}) /\ shown \in Seq(SUBSET [clip : Nat, frame : Nat]) /\ shown = <<>>
      /\ \A j \in 1 .. Len(lengths) : lengths[j] = clip_frames(sequence[j].to - sequence[j].from)
  BY <1>1 DEF RInv, RenderTyped, ClipsAreCut
<1>3. k \in 1 .. clip_count /\ clip_count = Len(sequence) /\ clip_count \in Nat /\ Len(lengths) \in Nat
  BY <1>1, <1>2 DEF clip_count
<1>4. clip \in Clip /\ clip.from < clip.to
  <2>1. k \in DOMAIN sequence
    BY <1>2, <1>3
  <2> QED
    BY <1>2, <1>3, <2>1, Element
<1>5. clip.to - clip.from \in Nat
  <2> HIDE DEF clip
  <2> QED
    BY <1>4 DEF Clip
<1>6. x \in Nat \ {0}
  <2> HIDE DEF clip
  <2> QED
    BY <1>5, ClipFrames
<1>7. /\ lengths' \in Seq(Nat \ {0}) /\ Len(lengths') = Len(lengths) + 1
      /\ lengths'[Len(lengths) + 1] = x /\ \A j \in 1 .. Len(lengths) : lengths'[j] = lengths[j]
  <2> HIDE DEF x
  <2> QED
    BY <1>1, <1>2, <1>6, AppendProperties
<1>8. clip_count' = clip_count
  BY <1>1 DEF clip_count
<1>9. RenderTyped'
  BY <1>1, <1>2, <1>7, <1>8 DEF RenderTyped
<1>10. \A j \in 1 .. Len(lengths') : lengths'[j] = clip_frames(sequence'[j].to - sequence'[j].from)
  <2> SUFFICES ASSUME NEW j \in 1 .. Len(lengths')
               PROVE  lengths'[j] = clip_frames(sequence[j].to - sequence[j].from)
    BY <1>1
  <2>1. CASE j = k
    BY <1>7, <2>1
  <2>2. CASE j # k
    <3>1. j \in 1 .. Len(lengths)
      BY <1>3, <1>7, <2>2
    <3> QED
      BY <1>2, <1>7, <3>1
  <2> QED
    BY <2>1, <2>2
<1>11. ClipsAreCut'
  <2>1. sequence' # <<>>
    BY <1>1, <1>3
  <2>2. phase' = "cut" => Len(lengths') < clip_count'
    BY <1>1, <1>3, <1>7, <1>8
  <2>3. phase' \in {"cut", "join"} /\ (phase' = "join" => Len(lengths') = clip_count')
    BY <1>1, <1>8
  <2> QED
    BY <1>10, <2>1, <2>2, <2>3 DEF ClipsAreCut, AfterJoin
<1>12. phase' \in {"cut", "join"} /\ shown' = <<>>
  BY <1>1, <1>2
<1> QED
  BY <1>9, <1>11, <1>12 DEF RInv, BatchesAreInTurn, AfterJoin

\* What stays true of the clips once they are cut.
LEMMA ClipsStay ==
  ASSUME RInv, UNCHANGED <<take, sequence, lengths>>, phase \in {"join", "batches"} \cup AfterJoin,
         phase' \in {"join", "batches"} \cup AfterJoin, shown' \in Seq(SUBSET [clip : Nat, frame : Nat])
  PROVE  RenderTyped' /\ ClipsAreCut'
<1>1. take' = take /\ sequence' = sequence /\ lengths' = lengths /\ clip_count' = clip_count
  BY PlanStays
<1>2. RenderTyped /\ ClipsAreCut
  BY DEF RInv
<1>3. RenderTyped'
  BY <1>1, <1>2 DEF RenderTyped, AfterJoin
<1>4. ClipsAreCut'
  BY <1>1, <1>2 DEF ClipsAreCut, AfterJoin
<1> QED
  BY <1>3, <1>4

LEMMA JoinKeeps == RInv /\ JoinClips => RInv'
<1> SUFFICES ASSUME RInv, JoinClips PROVE RInv'
  OBVIOUS
<1> DEFINE plan == plan_xfade_batches
<1>1. phase = "join" /\ UNCHANGED <<take, sequence, lengths>> /\ shown = <<>>
  BY DEF JoinClips, RInv
<1>2. /\ Lengths /\ Lengths' /\ plan_xfade_batches' = plan /\ OnePass' = OnePass
      /\ (Joinable' <=> Joinable)
  BY <1>1, RenderLengths, PlanStays DEF AfterJoin
<1>3. CASE shown' = OnePass /\ phase' = "captions"
  <2>1. shown' \in Seq(SUBSET [clip : Nat, frame : Nat])
    BY <1>2, <1>3, OnePassTyped
  <2>2. RenderTyped' /\ ClipsAreCut'
    BY <1>1, <1>3, <2>1, ClipsStay DEF AfterJoin
  <2> QED
    BY <1>2, <1>3, <2>2 DEF RInv, BatchesAreInTurn, AfterJoin
<1>4. CASE passes' = plan /\ phase' = "batches" /\ shown' = shown
  <2>1. shown' = <<>> /\ shown' \in Seq(SUBSET [clip : Nat, frame : Nat]) /\ Len(shown') = 0
    BY <1>1, <1>4
  <2>2. RenderTyped' /\ ClipsAreCut'
    BY <1>1, <1>4, <2>1, ClipsStay DEF AfterJoin
  <2>3. plan \in Seq(Batch) /\ Len(plan) \in Nat \ {0}
    BY <1>2, PlanTyped
  <2>4. Joinable => plan[1].start = 0
    BY <1>2, PlanIsSeamless
  <2> HIDE DEF plan
  <2>5. passes' \in Seq(Batch) /\ Len(passes') \in 1 .. Len(plan)
        /\ Len(plan) - Len(passes') = 0
        /\ \A i \in 1 .. Len(passes') : passes'[i] = plan[Len(plan) - Len(passes') + i]
    BY <1>4, <2>3
  <2>6. BatchesAreInTurn'
    <3>1. Joinable' => Len(shown') = plan[Len(plan) - Len(passes') + 1].start
                       /\ \A f \in 1 .. Len(shown') : shown'[f] = OnePass[f]
      <4>1. Len(plan) - Len(passes') + 1 = 1
        BY <2>5
      <4>2. 1 .. Len(shown') = {}
        BY <2>1
      <4> QED
        BY <1>2, <2>1, <2>4, <4>1, <4>2
    <3> QED
      BY <1>2, <2>5, <3>1 DEF BatchesAreInTurn
  <2> QED
    BY <1>4, <2>2, <2>6 DEF RInv, AfterJoin
<1> QED
  BY <1>3, <1>4 DEF JoinClips

LEMMA BatchKeeps == RInv /\ JoinBatch => RInv'
<1> SUFFICES ASSUME RInv, JoinBatch PROVE RInv'
  OBVIOUS
<1> DEFINE plan == plan_xfade_batches
           j == Len(plan) - Len(passes) + 1
           b == Head(passes)
           m == Len(plan)
           Frames == SUBSET [clip : Nat, frame : Nat]
<1>1. /\ phase = "batches" /\ shown' = shown \o BatchShows(b) /\ passes' = Tail(passes)
      /\ phase' = (IF Len(passes) = 1 THEN "captions" ELSE "batches")
      /\ UNCHANGED <<take, sequence, lengths>>
  BY DEF JoinBatch
<1>2. /\ Lengths /\ Lengths' /\ plan_xfade_batches' = plan /\ OnePass' = OnePass
      /\ (Joinable' <=> Joinable)
  BY <1>1, RenderLengths, PlanStays DEF AfterJoin
<1>3. /\ passes \in Seq(Batch) /\ Len(passes) \in 1 .. m
      /\ \A i \in 1 .. Len(passes) : passes[i] = plan[m - Len(passes) + i]
      /\ Joinable => Len(shown) = plan[j].start /\ \A f \in 1 .. Len(shown) : shown[f] = OnePass[f]
  BY <1>1 DEF RInv, BatchesAreInTurn
<1>4. /\ plan \in Seq(Batch) /\ m \in Nat \ {0}
      /\ \A i \in 1 .. m : plan[i].first \in 1 .. clip_count /\ plan[i].last \in 1 .. clip_count
  BY <1>2, PlanTyped
<1>5. shown \in Seq(Frames)
  BY DEF RInv, RenderTyped
<1>6. Joinable => \A i \in 1 .. m :
                    /\ Alone(plan[i]) /\ 0 <= plan[i].start /\ Ending(plan[i]) <= FinalFrames
                    /\ Ending(plan[i]) = IF i = m THEN FinalFrames ELSE plan[i + 1].start
  BY <1>2, PlanIsSeamless
<1> HIDE DEF plan, m, Frames
<1>7. j \in 1 .. m /\ b = plan[j] /\ b \in Batch /\ j = m - Len(passes) + 1 /\ (j = m <=> Len(passes) = 1)
  <2>1. j = m - Len(passes) + 1
    BY DEF m
  <2>2. b = passes[1] /\ 1 \in 1 .. Len(passes)
    BY <1>3
  <2>3. b \in Batch
    BY <1>3, <2>2, Element
  <2>4. passes[1] = plan[m - Len(passes) + 1]
    BY <1>3, <2>2
  <2> HIDE DEF j, b
  <2>5. j \in 1 .. m /\ (j = m <=> Len(passes) = 1)
    <3> DEFINE left == Len(passes)
    <3>1. left \in Nat /\ 1 <= left /\ left <= m /\ m \in Nat /\ j = m - left + 1
      BY <1>3, <1>4, <2>1
    <3> HIDE DEF left
    <3>2. j \in 1 .. m /\ (j = m <=> left = 1)
      BY <3>1
    <3> QED
      BY <3>2 DEF left
  <2>6. b = plan[j]
    BY <2>1, <2>2, <2>4
  <2> QED
    BY <2>1, <2>3, <2>5, <2>6
<1> HIDE DEF j, b
<1>8. BatchShows(b) \in Seq(Frames)
  BY <1>2, <1>4, <1>7, BatchTyped DEF Frames
<1>9. /\ shown' \in Seq(Frames) /\ Len(shown') = Len(shown) + Len(BatchShows(b))
      /\ \A f \in 1 .. Len(shown) + Len(BatchShows(b)) :
            shown'[f] = IF f <= Len(shown) THEN shown[f] ELSE BatchShows(b)[f - Len(shown)]
  BY <1>1, <1>5, <1>8, ConcatProperties
<1>10. RenderTyped' /\ ClipsAreCut'
  BY <1>1, <1>9, ClipsStay DEF Frames, AfterJoin
<1>11. ASSUME Joinable
       PROVE  /\ Len(shown') = Ending(b) /\ \A f \in 1 .. Len(shown') : shown'[f] = OnePass[f]
              /\ Ending(b) = IF j = m THEN FinalFrames ELSE plan[j + 1].start
  <2>1. /\ Alone(b) /\ 0 <= b.start /\ Ending(b) <= FinalFrames
        /\ Ending(b) = IF j = m THEN FinalFrames ELSE plan[j + 1].start
    BY <1>6, <1>7, <1>11
  <2>2. /\ Len(BatchShows(b)) = Ending(b) - b.start
        /\ \A f \in 1 .. Ending(b) - b.start : BatchShows(b)[f] = OnePass[b.start + f]
    BY <1>2, <2>1, BatchOfOnePass
  <2>3. Len(shown) = b.start /\ \A f \in 1 .. Len(shown) : shown[f] = OnePass[f]
    BY <1>3, <1>7, <1>11
  <2>4. Len(shown) \in Nat /\ Len(BatchShows(b)) \in Nat
    BY <1>5, <1>8
  <2>5. Ending(b) \in Int
    <3>1. b.last \in 1 .. clip_count /\ b.tail \in Nat
      BY <1>4, <1>7 DEF Batch
    <3>2. Begins(b.last) \in Int
      BY <1>2, <3>1, BeginsInTurn
    <3> QED
      BY <3>1, <3>2 DEF Ending
  <2>6. Len(shown') = Ending(b)
    BY <1>9, <2>2, <2>3, <2>4, <2>5
  <2>7. ASSUME NEW f \in 1 .. Len(shown') PROVE shown'[f] = OnePass[f]
    <3>1. f \in 1 .. Len(shown) + Len(BatchShows(b))
      BY <1>9
    <3>2. CASE f <= Len(shown)
      <4>1. f \in 1 .. Len(shown) /\ shown'[f] = shown[f]
        BY <1>9, <2>4, <3>1, <3>2
      <4> QED
        BY <2>3, <4>1
    <3>3. CASE ~(f <= Len(shown))
      <4>1. f - Len(shown) \in 1 .. Len(BatchShows(b)) /\ shown'[f] = BatchShows(b)[f - Len(shown)]
            /\ Len(shown) + (f - Len(shown)) = f
        BY <1>9, <2>4, <3>1, <3>3
      <4> QED
        BY <2>2, <2>3, <4>1
    <3> QED
      BY <3>2, <3>3
  <2> QED
    BY <2>1, <2>6, <2>7
<1>12. CASE Len(passes) = 1
  <2>1. ASSUME Joinable PROVE shown' = OnePass
    <3>1. Ending(b) = FinalFrames /\ Len(shown') = FinalFrames
      BY <1>7, <1>11, <1>12, <2>1
    <3>2. FinalFrames \in Nat
      BY <1>9, <3>1
    <3>3. OnePass \in Seq(Frames) /\ Len(OnePass) = FinalFrames
      BY <1>2, <3>2, OnePassTyped DEF Frames
    <3>4. DOMAIN OnePass = DOMAIN shown' /\ \A f \in DOMAIN OnePass : shown'[f] = OnePass[f]
      BY <1>9, <1>11, <2>1, <3>1, <3>3
    <3> QED
      BY <1>9, <3>3, <3>4
  <2>2. phase' = "captions"
    BY <1>1, <1>12
  <2> QED
    BY <1>2, <1>10, <2>1, <2>2 DEF RInv, BatchesAreInTurn, AfterJoin
<1>13. CASE Len(passes) # 1
  <2>1. phase' = "batches"
    BY <1>1, <1>13
  <2>2. passes # <<>> /\ Len(passes) \in Nat
    BY <1>3
  <2>3. /\ passes' \in Seq(Batch) /\ Len(passes') = Len(passes) - 1
        /\ \A i \in 1 .. Len(passes') : passes'[i] = passes[i + 1]
    BY <1>1, <1>3, <2>2, HeadTailProperties
  <2>4. Len(passes') \in 1 .. m /\ m - Len(passes') + 1 = j + 1
    BY <1>3, <1>4, <1>7, <1>13, <2>2, <2>3
  <2>5. ASSUME NEW i \in 1 .. Len(passes') PROVE passes'[i] = plan[m - Len(passes') + i]
    <3>1. i + 1 \in 1 .. Len(passes) /\ m - Len(passes) + (i + 1) = m - Len(passes') + i
      BY <1>4, <2>2, <2>3
    <3> QED
      BY <1>3, <2>3, <3>1
  <2>6. ASSUME Joinable PROVE Len(shown') = plan[m - Len(passes') + 1].start
                             /\ \A f \in 1 .. Len(shown') : shown'[f] = OnePass[f]
    BY <1>7, <1>11, <1>13, <2>4, <2>6
  <2>7. BatchesAreInTurn'
    BY <1>2, <2>3, <2>4, <2>5, <2>6 DEF BatchesAreInTurn, m, plan
  <2> QED
    BY <1>10, <2>1, <2>7 DEF RInv, AfterJoin
<1> QED
  BY <1>12, <1>13

LEMMA RetimeKeeps == RInv /\ (Retime \/ Finalize) => RInv'
<1> SUFFICES ASSUME RInv, Retime \/ Finalize PROVE RInv'
  OBVIOUS
<1>1. /\ phase \in AfterJoin /\ phase' \in {"finalize", "done"} /\ UNCHANGED <<take, sequence, lengths, shown>>
      /\ captions' = Subtitles
  BY DEF Retime, Finalize, Subtitles, AfterJoin, RInv
<1>2. Subtitles' = Subtitles /\ OnePass' = OnePass /\ (Joinable' <=> Joinable)
  BY <1>1, PlanStays
<1>3. shown' \in Seq(SUBSET [clip : Nat, frame : Nat]) /\ shown' = shown
  BY <1>1 DEF RInv, RenderTyped
<1>4. RenderTyped' /\ ClipsAreCut'
  BY <1>1, <1>3, ClipsStay DEF AfterJoin
<1> QED
  BY <1>1, <1>2, <1>3, <1>4 DEF RInv, BatchesAreInTurn, AfterJoin

LEMMA FailureKeeps == RInv /\ RenderFails => RInv'
<1> SUFFICES ASSUME RInv, RenderFails PROVE RInv'
  OBVIOUS
<1>1. phase' = "failed" /\ UNCHANGED <<take, sequence, lengths, shown>>
  BY DEF RenderFails
<1>2. RenderTyped'
  BY <1>1 DEF RInv, RenderTyped, clip_count
<1>3. ClipsAreCut'
  BY <1>1 DEF ClipsAreCut, AfterJoin
<1> QED
  BY <1>1, <1>2, <1>3 DEF RInv, BatchesAreInTurn, AfterJoin

LEMMA RStutter == RInv /\ UNCHANGED renderVars => RInv'
<1> SUFFICES ASSUME RInv, UNCHANGED renderVars PROVE RInv'
  OBVIOUS
<1>1. /\ take' = take /\ phase' = phase /\ sequence' = sequence /\ lengths' = lengths /\ passes' = passes
      /\ shown' = shown /\ captions' = captions
  BY DEF renderVars
<1>2. /\ UNCHANGED <<clip_count, OnePass, plan_xfade_batches, Subtitles>> /\ (Joinable' <=> Joinable)
  BY <1>1, PlanStays
<1>3. RenderTyped'
  BY <1>1, <1>2 DEF RInv, RenderTyped, AfterJoin
<1>4. ClipsAreCut'
  BY <1>1, <1>2 DEF RInv, ClipsAreCut, AfterJoin
<1>5. BatchesAreInTurn'
  BY <1>1, <1>2 DEF RInv, BatchesAreInTurn
<1> QED
  BY <1>1, <1>2, <1>3, <1>4, <1>5 DEF RInv, AfterJoin

THEOREM RenderInvariant == RenderSpec => []RInv
<1>1. RInv /\ [RenderNext]_renderVars => RInv'
  BY BracketKeeps, ClipCutKeeps, JoinKeeps, BatchKeeps, RetimeKeeps, FailureKeeps, RStutter DEF RenderNext
<1> QED
  BY <1>1, RInit, PTL DEF RenderSpec

\* A render of any timeline keeps the types of its state (pipeline.py).
THEOREM RenderTypeCorrect == RenderSpec => []RenderTypeOK
<1>1. RInv => RenderTypeOK
  <2>1. RInv => \A k \in DOMAIN lengths : lengths[k] \in Nat \ {0}
    BY Element DEF RInv, RenderTyped
  <2> QED
    BY <2>1 DEF RInv, RenderTyped, AfterJoin, RenderTypeOK
<1> QED
  BY <1>1, RenderInvariant, PTL

\* However many clips there are and wherever the batches are cut, the file that
\* is joined in batches is, frame for frame, the one a single pass would make
\* (plan_xfade_batches, _batch_args).
THEOREM BatchesJoinSeamlessly == RenderSpec => []BatchesAreSeamless
<1>1. RInv => BatchesAreSeamless
  BY DEF RInv, BatchesAreSeamless, AfterJoin
<1> QED
  BY <1>1, RenderInvariant, PTL

\* Every subtitle of any transcript is shown over the clip that says it, at the
\* moments it is said (to_output, _split_segment_for_clip).
THEOREM CaptionsStayInSync == RenderSpec => []CaptionsInSync
<1>1. ASSUME RInv PROVE CaptionsInSync
  <2> SUFFICES ASSUME phase = "done", Joinable, NEW c \in captions
               PROVE  /\ sequence[c.clip].source = "video"
                      /\ \A f \in DOMAIN shown :
                            2 * f - 1 >= c.from /\ 2 * f + 1 <= c.to =>
                               \E x \in shown[f] :
                                  /\ x.clip = c.clip
                                  /\ 2 * x.frame + sequence[c.clip].from - c.said = 2 * (f - 1) - c.from
    BY DEF CaptionsInSync
  <2>1. Lengths /\ captions = Subtitles /\ shown = OnePass
    BY <1>1, RenderLengths DEF RInv, AfterJoin
  <2>2. PICK segment \in Segments, k \in Captioned : c \in Caption(segment, k)
    BY <2>1 DEF Subtitles
  <2>3. /\ sequence \in Seq(Clip) /\ clip_count = Len(sequence) /\ clip_count \in Nat
        /\ k \in 1 .. clip_count /\ sequence[k].source = "video"
    BY <2>1 DEF Captioned, Lengths, clip_count
  <2>4. PICK begin \in Nat, end \in Nat :
          /\ sequence[k].from <= begin /\ end <= sequence[k].to
          /\ c.said = begin
          /\ c.from = begin - sequence[k].from + 2 * Begins(k)
          /\ c.to = end - sequence[k].from + 2 * Begins(k)
    BY <2>1, <2>2, <2>3, CaptionOfClip
  <2>5. c.clip = k
    BY <2>1, <2>2, <2>3, CaptionOfClip
  <2> DEFINE from == sequence[k].from
             to == sequence[k].to
             o == Begins(k)
             l == lengths[k]
  <2>6. from \in Nat /\ to \in Nat /\ from < to
    <3>1. k \in DOMAIN sequence
      BY <2>3
    <3>2. sequence[k] \in Clip /\ sequence[k].from < sequence[k].to
      BY <1>1, <2>3, <3>1, Element DEF RInv, RenderTyped
    <3> QED
      BY <3>2 DEF Clip
  <2>7. o \in Int
    BY <2>1, <2>3, BeginsInTurn
  <2>8. l = clip_frames(to - from)
    BY <1>1, <2>1, <2>3 DEF RInv, ClipsAreCut, Lengths
  <2>9. l \in Nat /\ 2 * l >= to - from - 1
    <3> HIDE DEF from, to, l
    <3>1. to - from \in Nat
      BY <2>6
    <3> QED
      BY <2>6, <2>8, <3>1, ClipFrames
  <2>10. FinalFrames \in Int
    <3>1. clip_count \in 1 .. clip_count /\ lengths[clip_count] \in Nat
      BY <2>1, <2>3 DEF Lengths
    <3> QED
      BY <2>1, <3>1, BeginsInTurn
  <2>11. ASSUME NEW f \in DOMAIN shown, 2 * f - 1 >= c.from, 2 * f + 1 <= c.to
         PROVE  \E x \in shown[f] : x.clip = k /\ 2 * x.frame + from - c.said = 2 * (f - 1) - c.from
    <3>1. f \in 1 .. FinalFrames
      BY <2>1 DEF OnePass
    <3>2. c.said = begin /\ c.from = begin - from + 2 * o /\ c.to = end - from + 2 * o /\ from <= begin /\ end <= to
      BY <2>4
    <3> HIDE DEF from, to, o, l
    <3>3. o < f /\ f <= o + l
      BY <2>6, <2>7, <2>9, <2>10, <2>11, <3>1, <3>2
    <3>4. k \in {j \in 1 .. clip_count : Begins(j) < f /\ f <= Begins(j) + lengths[j]}
      BY <2>3, <3>3 DEF o, l
    <3> DEFINE x == [clip |-> k, frame |-> f - 1 - Begins(k)]
    <3>5. x \in shown[f]
      BY <2>1, <3>1, <3>4 DEF OnePass
    <3>6. x.clip = k /\ x.frame = f - 1 - o
      BY DEF o
    <3> HIDE DEF x
    <3>7. 2 * x.frame + from - c.said = 2 * (f - 1) - c.from
      BY <2>6, <2>7, <2>10, <3>1, <3>2, <3>6
    <3> QED
      BY <3>5, <3>6, <3>7
  <2> QED
    BY <2>3, <2>5, <2>11
<1> QED
  BY <1>1, RenderInvariant, PTL

-----------------------------------------------------------------------------
\* What an export shows: Choosing.

\* What sorting takes next is of the set, and nothing of it begins before.
LEMMA EarliestIs ==
  ASSUME NEW S, S \subseteq Stretch, S # {}
  PROVE  Earliest(S) \in S /\ \A q \in S : Earliest(S).from <= q.from
<1> DEFINE Starts == {r.from : r \in S}
<1>1. \A r \in S : r.from \in Nat /\ r.to \in Nat
  BY DEF Stretch
<1>2. Starts \subseteq Nat /\ Starts # {}
  BY <1>1
<1>3. \A r \in S : r.from \in Starts
  OBVIOUS
<1>4. \A x \in Starts : \E r \in S : r.from = x
  OBVIOUS
<1> HIDE DEF Starts
<1>5. PICK x \in Starts : \A y \in Starts : x <= y
  BY <1>2, Least
<1> DEFINE Ends == {r.to : r \in {q \in S : q.from = x}}
<1>6. Ends \subseteq Nat /\ Ends # {}
  BY <1>1, <1>4
<1>7. (\A r \in S : r.from = x => r.to \in Ends) /\ \A y \in Ends : \E r \in S : r.from = x /\ r.to = y
  OBVIOUS
<1> HIDE DEF Ends
<1>8. PICK y \in Ends : \A z \in Ends : y <= z
  BY <1>6, Least
<1>9. PICK r \in S : r.from = x /\ r.to = y
  BY <1>7
<1>10. \A q \in S : r.from < q.from \/ (r.from = q.from /\ r.to <= q.to)
  <2> SUFFICES ASSUME NEW q \in S PROVE r.from < q.from \/ (r.from = q.from /\ r.to <= q.to)
    OBVIOUS
  <2>1. x <= q.from /\ x \in Nat /\ q.from \in Nat
    BY <1>1, <1>2, <1>3, <1>5
  <2>2. q.from = x => y <= q.to
    BY <1>7, <1>8
  <2> QED
    BY <1>9, <2>1, <2>2
<1>11. /\ Earliest(S) \in S
       /\ \A q \in S : Earliest(S).from < q.from \/ (Earliest(S).from = q.from /\ Earliest(S).to <= q.to)
  BY <1>10, Zenon DEF Earliest
<1> DEFINE e == Earliest(S)
<1> HIDE DEF e
<1>12. e \in S /\ \A q \in S : e.from < q.from \/ (e.from = q.from /\ e.to <= q.to)
  BY <1>11 DEF e
<1>13. \A q \in S : e.from <= q.from
  BY <1>1, <1>12
<1> QED
  BY <1>12, <1>13 DEF e

\* A range is added to the last stretch, which it meets, or follows it.
LEMMA ExtendedIs ==
  ASSUME NEW st \in Seq(Stretch), NEW r \in Stretch
  PROVE  LET t == Extended(st, r)
             m == Len(st)
         IN  /\ t \in Seq(Stretch)
             /\ \/ /\ m # 0 /\ Len(t) = m /\ \A j \in 1 .. m - 1 : t[j] = st[j]
                   /\ t[m].from = st[m].from /\ r.to <= t[m].to /\ st[m].to <= t[m].to
                \/ /\ m # 0 => st[m].to <= r.from
                   /\ Len(t) = m + 1 /\ t[m + 1] = r /\ \A j \in 1 .. m : t[j] = st[j]
<1> DEFINE m == Len(st)
           end == IF st[m].to < r.to THEN r.to ELSE st[m].to
           last == [from |-> st[m].from, to |-> end]
           joins == st # <<>> /\ r.from < Last(st).to
<1>1. Extended(st, r) = IF joins THEN [st EXCEPT ![Len(st)].to = IF @ < r.to THEN r.to ELSE @] ELSE Append(st, r)
  BY Zenon DEF Extended
<1>2. r.from \in Nat /\ r.to \in Nat /\ m \in Nat /\ DOMAIN st = 1 .. m
  BY DEF Stretch
<1>3. Last(st) = st[m]
  BY DEF Last
<1>4. CASE joins
  <2>1. m \in DOMAIN st /\ m # 0
    BY <1>2, <1>4
  <2>2. st[m] \in Stretch
    BY <2>1, Element
  <2>3. st[m].from \in Nat /\ st[m].to \in Nat /\ [st[m] EXCEPT !.to = end] = last
    BY <2>2 DEF Stretch
  <2>4. last \in Stretch /\ last.from = st[m].from /\ last.to = end
    BY <1>2, <2>3 DEF Stretch
  <2>5. r.to <= end /\ st[m].to <= end
    BY <1>2, <2>3
  <2>6. Extended(st, r) = [st EXCEPT ![m] = last]
    BY <1>1, <1>4, <2>3
  <2> HIDE DEF last, m, end, joins
  <2> DEFINE t == [st EXCEPT ![m] = last]
  <2>7. t \in Seq(Stretch) /\ Len(t) = m /\ t[m] = last /\ \A j \in 1 .. m - 1 : t[j] = st[j]
    <3>1. st \in [1 .. m -> Stretch]
      BY <1>2
    <3>2. t \in [1 .. m -> Stretch] /\ t[m] = last /\ \A j \in 1 .. m - 1 : t[j] = st[j]
      BY <1>2, <2>1, <2>4, <3>1
    <3> HIDE DEF t
    <3> QED
      BY <1>2, <3>2
  <2> HIDE DEF t
  <2> QED
    BY <2>1, <2>4, <2>5, <2>6, <2>7 DEF t, m
<1>5. CASE ~joins
  <2>1. Extended(st, r) = Append(st, r)
    BY <1>1, <1>5
  <2>2. /\ Append(st, r) \in Seq(Stretch) /\ Len(Append(st, r)) = m + 1 /\ Append(st, r)[m + 1] = r
        /\ \A j \in 1 .. m : Append(st, r)[j] = st[j]
    OBVIOUS
  <2>3. m # 0 => st[m].to <= r.from
    <3>1. m # 0 => m \in DOMAIN st /\ st # <<>>
      BY <1>2
    <3>2. m # 0 => st[m].to \in Nat
      <4>1. m # 0 => st[m] \in Stretch
        BY <3>1, Element
      <4> QED
        BY <4>1 DEF Stretch
    <3> QED
      BY <1>2, <1>3, <1>5, <3>1, <3>2
  <2> QED
    BY <2>1, <2>2, <2>3
<1> QED
  BY <1>4, <1>5

\* Stretches that are apart and in order, none beyond what is left, and together
\* all of S that is not left.
MergedIn(S, left, st) ==
    /\ left \subseteq S /\ st \in Seq(Stretch)
    /\ \A j \in 1 .. Len(st) : st[j].from <= st[j].to
    /\ \A i, j \in 1 .. Len(st) : i < j => st[i].to <= st[j].from
    /\ \A q \in left, j \in 1 .. Len(st) : st[j].from <= q.from
    /\ \A r \in S \ left : \E j \in 1 .. Len(st) : st[j].from <= r.from /\ r.to <= st[j].to

LEMMA ExtendedMerges ==
  ASSUME NEW S, S \subseteq Stretch, \A r \in S : r.from <= r.to, NEW left, left # {}, NEW st, MergedIn(S, left, st)
  PROVE  LET r == Earliest(left)
         IN  r \in left /\ MergedIn(S, left \ {r}, Extended(st, r))
<1> DEFINE e == Earliest(left)
           t == Extended(st, e)
           m == Len(st)
<1>1. left \subseteq S /\ st \in Seq(Stretch) /\ m \in Nat
  BY DEF MergedIn
<1>2. e \in left /\ e \in Stretch /\ e \in S /\ \A q \in left : e.from <= q.from
  BY <1>1, EarliestIs
<1>3. /\ t \in Seq(Stretch)
      /\ \/ /\ m # 0 /\ Len(t) = m /\ \A j \in 1 .. m - 1 : t[j] = st[j]
            /\ t[m].from = st[m].from /\ e.to <= t[m].to /\ st[m].to <= t[m].to
         \/ /\ m # 0 => st[m].to <= e.from
            /\ Len(t) = m + 1 /\ t[m + 1] = e /\ \A j \in 1 .. m : t[j] = st[j]
  BY <1>1, <1>2, ExtendedIs
<1>4. (\A q \in S : q.from \in Nat /\ q.to \in Nat /\ q.from <= q.to)
  BY DEF Stretch
<1>5. \A j \in 1 .. m : st[j].from \in Nat /\ st[j].to \in Nat
  <2>1. \A j \in 1 .. m : st[j] \in Stretch
    BY <1>1, ElementOfSeq
  <2> QED
    BY <2>1 DEF Stretch
<1>6. \A j \in 1 .. Len(t) : t[j].from \in Nat /\ t[j].to \in Nat
  <2>1. \A j \in 1 .. Len(t) : t[j] \in Stretch
    BY <1>3, ElementOfSeq
  <2> HIDE DEF t
  <2> QED
    BY <2>1 DEF Stretch
<1>7. /\ \A j \in 1 .. m : st[j].from <= st[j].to
      /\ \A i, j \in 1 .. m : i < j => st[i].to <= st[j].from
      /\ \A q \in left, j \in 1 .. m : st[j].from <= q.from
      /\ \A q \in S \ left : \E j \in 1 .. m : st[j].from <= q.from /\ q.to <= st[j].to
  BY DEF MergedIn
<1> HIDE DEF t, m, e
<1>8. CASE /\ m # 0 /\ Len(t) = m /\ \A j \in 1 .. m - 1 : t[j] = st[j]
           /\ t[m].from = st[m].from /\ e.to <= t[m].to /\ st[m].to <= t[m].to
  <2>1. m \in 1 .. m /\ \A j \in 1 .. m : j = m \/ j \in 1 .. m - 1
    BY <1>1, <1>8
  <2>2. \A j \in 1 .. m : t[j].from = st[j].from /\ st[j].to <= t[j].to
    BY <1>5, <1>8, <2>1
  <2>3. \A j \in 1 .. m : t[j].from <= t[j].to
    BY <1>5, <1>6, <1>7, <1>8, <2>2
  <2>4. ASSUME NEW i \in 1 .. m, NEW j \in 1 .. m, i < j PROVE t[i].to <= t[j].from
    <3>1. i \in 1 .. m - 1
      BY <1>1, <2>4
    <3>2. t[i] = st[i] /\ st[i].to <= st[j].from
      BY <1>7, <1>8, <2>4, <3>1
    <3> QED
      BY <2>2, <3>2
  <2>5. \A q \in left \ {e}, j \in 1 .. m : t[j].from <= q.from
    BY <1>7, <2>2
  <2>6. ASSUME NEW q \in S \ (left \ {e}) PROVE \E j \in 1 .. m : t[j].from <= q.from /\ q.to <= t[j].to
    <3>1. CASE q = e
      BY <1>2, <1>7, <1>8, <2>1, <3>1
    <3>2. CASE q # e
      <4>1. PICK j \in 1 .. m : st[j].from <= q.from /\ q.to <= st[j].to
        BY <1>7, <2>6, <3>2
      <4>2. q.to <= t[j].to
        BY <1>4, <1>5, <1>6, <1>8, <2>2, <4>1
      <4> QED
        BY <2>2, <4>1, <4>2
    <3> QED
      BY <3>1, <3>2
  <2> QED
    BY <1>1, <1>2, <1>3, <1>8, <2>3, <2>4, <2>5, <2>6 DEF MergedIn, e, t
<1>9. CASE /\ m # 0 => st[m].to <= e.from
           /\ Len(t) = m + 1 /\ t[m + 1] = e /\ \A j \in 1 .. m : t[j] = st[j]
  <2>1. \A j \in 1 .. m + 1 : j = m + 1 \/ j \in 1 .. m
    BY <1>1
  <2>2. \A j \in 1 .. m + 1 : t[j].from <= t[j].to
    BY <1>2, <1>4, <1>7, <1>9, <2>1
  <2>3. ASSUME NEW i \in 1 .. m PROVE st[i].to <= e.from
    <3>1. m \in 1 .. m /\ m # 0 /\ (i = m \/ i < m)
      BY <1>1
    <3>2. i < m => st[i].to <= st[m].from
      BY <1>7, <3>1
    <3> QED
      BY <1>2, <1>4, <1>5, <1>7, <1>9, <3>1, <3>2
  <2>4. ASSUME NEW i \in 1 .. m + 1, NEW j \in 1 .. m + 1, i < j PROVE t[i].to <= t[j].from
    <3>1. i \in 1 .. m
      BY <1>1, <2>4
    <3>2. CASE j = m + 1
      BY <1>9, <2>3, <3>1, <3>2
    <3>3. CASE j \in 1 .. m
      BY <1>7, <1>9, <2>4, <3>1, <3>3
    <3> QED
      BY <2>1, <3>2, <3>3
  <2>5. \A q \in left \ {e}, j \in 1 .. m + 1 : t[j].from <= q.from
    BY <1>2, <1>7, <1>9, <2>1
  <2>6. ASSUME NEW q \in S \ (left \ {e}) PROVE \E j \in 1 .. m + 1 : t[j].from <= q.from /\ q.to <= t[j].to
    <3>1. CASE q = e
      <4>1. m + 1 \in 1 .. m + 1 /\ e.from <= e.from /\ e.to <= e.to
        BY <1>1, <1>2, <1>4
      <4> QED
        BY <1>9, <3>1, <4>1
    <3>2. CASE q # e
      <4>1. PICK j \in 1 .. m : st[j].from <= q.from /\ q.to <= st[j].to
        BY <1>7, <2>6, <3>2
      <4>2. j \in 1 .. m + 1 /\ t[j] = st[j]
        BY <1>1, <1>9
      <4> QED
        BY <4>1, <4>2
    <3> QED
      BY <3>1, <3>2
  <2> QED
    BY <1>1, <1>2, <1>3, <1>9, <2>2, <2>4, <2>5, <2>6 DEF MergedIn, e, t
<1> QED
  BY <1>3, <1>8, <1>9

\* The elements of a sequence are finitely many.
LEMMA ElementsFinite ==
  ASSUME NEW S, NEW s \in Seq(S)
  PROVE  IsFiniteSet(ToSet(s)) /\ ToSet(s) \subseteq S
<1>1. ToSet(s) = {s[k] : k \in DOMAIN s}
  BY DEF ToSet
<1>2. Len(s) \in Nat /\ DOMAIN s = 1 .. Len(s)
  OBVIOUS
<1>3. IsFiniteSet(1 .. Len(s))
  BY <1>2, FS_Interval
<1>4. s \in Surjection(1 .. Len(s), ToSet(s))
  <2>1. s \in [1 .. Len(s) -> ToSet(s)]
    BY <1>1, <1>2
  <2>2. \A x \in ToSet(s) : \E k \in 1 .. Len(s) : s[k] = x
    BY <1>1, <1>2
  <2> QED
    BY <2>1, <2>2 DEF Surjection
<1>5. ToSet(s) \subseteq S
  BY <1>1, Element
<1> QED
  BY <1>3, <1>4, <1>5, FS_Surjection

\* The stretches of a timeline hold all of it, apart and in order.
LEMMA DisjointIs ==
  ASSUME NEW ranges \in RangeLists
  PROVE  MergedIn(ToSet(ranges), {}, disjoint(ranges))
<1> DEFINE S == ToSet(ranges)
           m == Cardinality(S)
           none == [left |-> S, stretches |-> <<>>]
           On(x) == LET r == Earliest(x.left)
                    IN  [left |-> x.left \ {r}, stretches |-> Extended(x.stretches, r)]
           Is(f) == f = [k \in 0 .. m |-> IF k = 0 THEN none ELSE On(f[k - 1])]
           upto == CHOOSE f : Is(f)
           W == {x \in [left : SUBSET S, stretches : Seq(Stretch)] : MergedIn(S, x.left, x.stretches)}
           Turn(x) == IF x.left = {} THEN x ELSE On(x)
           step == [k \in 1 .. m |-> [x \in W |-> Turn(x)]]
<1>1. IsFiniteSet(S) /\ S \subseteq Stretch /\ m \in Nat /\ \A r \in S : r.from <= r.to
  <2>1. ranges \in Seq(Stretch) /\ \A k \in DOMAIN ranges : ranges[k].from <= ranges[k].to
    BY DEF RangeLists
  <2>2. \A r \in S : r.from <= r.to
    BY <2>1 DEF ToSet
  <2> QED
    BY <2>1, <2>2, ElementsFinite, FS_CardinalityType
<1>2. disjoint(ranges) = upto[m].stretches
  BY Zenon DEF disjoint
<1> HIDE DEF S, m
<1>3. none \in W
  <2>1. <<>> \in Seq(Stretch) /\ Len(<<>>) = 0
    OBVIOUS
  <2>2. MergedIn(S, S, <<>>)
    BY <2>1 DEF MergedIn
  <2> QED
    BY <2>1, <2>2
<1>4. ASSUME NEW x \in W, x.left # {}
      PROVE  On(x) \in W /\ \E r \in x.left : On(x).left = x.left \ {r}
  <2> DEFINE r == Earliest(x.left)
             t == Extended(x.stretches, r)
  <2>1. r \in x.left /\ MergedIn(S, x.left \ {r}, t)
    BY <1>1, <1>4, ExtendedMerges
  <2>2. On(x) = [left |-> x.left \ {r}, stretches |-> t]
    OBVIOUS
  <2> HIDE DEF r, t, On
  <2>3. x.left \ {r} \in SUBSET S /\ t \in Seq(Stretch)
    BY <2>1 DEF MergedIn
  <2>4. On(x).left = x.left \ {r} /\ On(x).stretches = t
    BY <2>2
  <2>5. On(x) \in [left : SUBSET S, stretches : Seq(Stretch)]
    BY <2>2, <2>3
  <2>6. MergedIn(S, On(x).left, On(x).stretches)
    BY <2>1, <2>4
  <2> QED
    BY <2>1, <2>4, <2>5, <2>6
<1> HIDE DEF On
<1>5. \A x \in W : Turn(x) \in W
  BY <1>4
<1>6. step \in [1 .. m -> [W -> W]] /\ \A k \in 1 .. m, x \in W : step[k][x] = Turn(x)
  <2> HIDE DEF W, Turn
  <2> QED
    BY <1>5
<1> HIDE DEF step, none
<1>7. PICK f : Loops(f, W, none, m, step)
  <2> HIDE DEF W
  <2> QED
    BY <1>1, <1>3, <1>6, LoopExists
<1>8. f \in [0 .. m -> W] /\ f[0] = none /\ \A k \in 1 .. m : f[k] = Turn(f[k - 1])
  <2> HIDE DEF W, Turn
  <2>1. f \in [0 .. m -> W] /\ f[0] = none /\ \A k \in 1 .. m : f[k] = step[k][f[k - 1]]
    BY <1>7 DEF Loops
  <2>2. \A k \in 1 .. m : k - 1 \in 0 .. m
    BY <1>1
  <2> QED
    BY <1>6, <2>1, <2>2
<1> DEFINE good == {k \in 0 .. m : IsFiniteSet(f[k].left) /\ Cardinality(f[k].left) = m - k}
<1>9. 0 \in good
  BY <1>1, <1>8 DEF none, m
<1>10. ASSUME NEW k \in 1 .. m, k - 1 \in good PROVE k \in good /\ f[k - 1].left # {}
  <2>1. /\ IsFiniteSet(f[k - 1].left) /\ Cardinality(f[k - 1].left) = m - (k - 1)
    BY <1>10
  <2>2. f[k - 1].left # {}
    BY <1>1, <2>1, FS_EmptySet
  <2>3. f[k - 1] \in W /\ f[k] = On(f[k - 1])
    BY <1>1, <1>8, <2>2
  <2>4. PICK r \in f[k - 1].left : f[k].left = f[k - 1].left \ {r}
    BY <1>4, <2>2, <2>3
  <2>5. IsFiniteSet(f[k].left) /\ Cardinality(f[k].left) = m - (k - 1) - 1
    BY <2>1, <2>4, FS_RemoveElement
  <2>6. m - (k - 1) - 1 = m - k /\ k \in 0 .. m
    BY <1>1
  <2> QED
    BY <2>2, <2>5, <2>6
<1>11. 0 .. m \subseteq good
  <2>1. \A k \in 1 .. m : k - 1 \in good => k \in good
    BY <1>10
  <2> HIDE DEF good
  <2> QED
    BY <1>1, <1>9, <2>1, EveryPosition
<1>12. \A k \in 1 .. m : f[k] = On(f[k - 1])
  <2> SUFFICES ASSUME NEW k \in 1 .. m PROVE f[k] = On(f[k - 1])
    OBVIOUS
  <2>1. k - 1 \in good
    <3> HIDE DEF good
    <3> QED
      BY <1>1, <1>11
  <2>2. f[k - 1].left # {}
    BY <1>10, <2>1
  <2> QED
    BY <1>8, <2>2
<1>13. Is(f)
  <2> HIDE DEF W
  <2> QED
    BY <1>1, <1>8, <1>12
<1>14. Is(upto)
  BY <1>13, Zenon
<1>15. \A k \in 0 .. m : upto[k] = f[k]
  <2> HIDE DEF upto, good, W, Turn
  <2> DEFINE same == {k \in 0 .. m : upto[k] = f[k]}
  <2>1. upto[0] = none /\ \A k \in 1 .. m : upto[k] = On(upto[k - 1])
    BY <1>1, <1>14
  <2>2. 0 \in same
    BY <1>1, <1>8, <2>1
  <2>3. \A k \in 1 .. m : k - 1 \in same => k \in same
    BY <1>12, <2>1
  <2> HIDE DEF same
  <2>4. 0 .. m \subseteq same
    BY <1>1, <2>2, <2>3, EveryPosition
  <2> QED
    BY <2>4 DEF same
<1> HIDE DEF upto
<1>16. m \in good /\ m \in 0 .. m
  <2> HIDE DEF good
  <2> QED
    BY <1>1, <1>11
<1>17. f[m].left = {} /\ f[m] \in W /\ upto[m] = f[m]
  <2>1. IsFiniteSet(f[m].left) /\ Cardinality(f[m].left) = 0
    BY <1>1, <1>16
  <2>2. f[m].left = {}
    BY <2>1, FS_EmptySet
  <2>3. f[m] \in W
    <3> HIDE DEF W
    <3> QED
      BY <1>8, <1>16
  <2> QED
    BY <1>15, <1>16, <2>2, <2>3
<1>18. MergedIn(S, {}, upto[m].stretches)
  BY <1>17
<1> QED
  BY <1>2, <1>18 DEF S

\* A line is looked up among the stretches as if it were held against each range.
LEMMA LinesLookedUp ==
  ASSUME NEW ranges \in RangeLists
  PROVE  Shown(ranges) \subseteq lines_used(ranges) /\ lines_used(ranges) \subseteq TheLines
<1> DEFINE st == disjoint(ranges)
           m == Len(st)
           S == ToSet(ranges)
           Here(s, i) == /\ \A j \in 1 .. i - 1 : st[j].to <= s.from
                         /\ i <= m => st[i].to > s.from
           First(s) == CHOOSE i \in 1 .. m + 1 : Here(s, i)
<1>1. lines_used(ranges) = {n \in TheLines : LET s == Sayings[n] IN First(s) <= m /\ st[First(s)].from < s.to}
  BY Zenon DEF lines_used
<1>2. MergedIn(S, {}, st)
  BY DisjointIs
<1>3. m \in Nat /\ \A j \in 1 .. m : st[j].from \in Nat /\ st[j].to \in Nat
  <2>1. st \in Seq(Stretch)
    BY <1>2 DEF MergedIn
  <2>2. \A j \in 1 .. m : st[j] \in Stretch
    BY <2>1, ElementOfSeq
  <2> HIDE DEF st
  <2> QED
    BY <2>1, <2>2 DEF Stretch
<1>4. /\ \A j \in 1 .. m : st[j].from <= st[j].to
      /\ \A i, j \in 1 .. m : i < j => st[i].to <= st[j].from
      /\ \A r \in S : \E j \in 1 .. m : st[j].from <= r.from /\ r.to <= st[j].to
  BY <1>2 DEF MergedIn
<1>5. \A r \in S : r.from \in Nat /\ r.to \in Nat
  <2>1. S \subseteq Stretch
    BY ElementsFinite DEF RangeLists
  <2> HIDE DEF S
  <2> QED
    BY <2>1 DEF Stretch
<1> HIDE DEF st, m, S
<1>6. ASSUME NEW n \in Shown(ranges) PROVE n \in lines_used(ranges)
  <2> DEFINE s == Sayings[n]
  <2>1. n \in TheLines /\ \E r \in S : s.to > r.from /\ s.from < r.to
    BY <1>6 DEF Shown, S
  <2>2. s.from \in Nat /\ s.to \in Nat
    BY <2>1, ChoiceAssumption DEF TheLines, Stretch
  <2>3. PICK r \in S : s.to > r.from /\ s.from < r.to
    BY <2>1
  <2>4. PICK k \in 1 .. m : st[k].from <= r.from /\ r.to <= st[k].to
    BY <1>4, <2>3
  <2> HIDE DEF s
  <2> DEFINE T == {j \in 1 .. m : st[j].to > s.from}
  <2>5. k \in T
    BY <1>3, <1>5, <2>2, <2>3, <2>4
  <2>6. T \subseteq Nat /\ T # {}
    BY <2>5
  <2>7. PICK i \in T : \A j \in T : i <= j
    <3> HIDE DEF T
    <3> QED
      BY <2>6, Least
  <2>8. i \in 1 .. m + 1 /\ i <= m /\ Here(s, i)
    <3>1. i \in 1 .. m /\ st[i].to > s.from
      OBVIOUS
    <3>2. ASSUME NEW j \in 1 .. i - 1 PROVE st[j].to <= s.from
      <4>1. j \in 1 .. m /\ ~(i <= j)
        BY <1>3, <3>1
      <4>2. j \notin T
        BY <2>7, <4>1
      <4> QED
        BY <1>3, <2>2, <4>1, <4>2
    <3> QED
      BY <1>3, <3>1, <3>2
  <2> DEFINE h == First(s)
  <2>9. h \in 1 .. m + 1 /\ Here(s, h)
    <3> HIDE DEF Here
    <3> QED
      BY <2>8
  <2> HIDE DEF h
  <2>10. h <= i
    <3>1. SUFFICES ASSUME i \in 1 .. h - 1 PROVE FALSE
      BY <1>3, <2>8, <2>9
    <3>2. st[i].to <= s.from /\ st[i].to > s.from /\ st[i].to \in Nat
      BY <1>3, <2>8, <2>9, <3>1
    <3> QED
      BY <2>2, <3>2
  <2>11. h \in 1 .. m /\ i <= k /\ h <= k
    BY <1>3, <2>5, <2>7, <2>8, <2>9, <2>10
  <2>12. st[h].from <= st[k].from
    <3>1. CASE h = k
      BY <1>3, <2>11, <3>1
    <3>2. CASE h < k
      BY <1>3, <1>4, <2>11, <3>2
    <3> QED
      BY <2>11, <3>1, <3>2
  <2>13. st[h].from < s.to
    BY <1>3, <1>5, <2>2, <2>3, <2>4, <2>11, <2>12
  <2>14. h <= m
    BY <2>11
  <2> HIDE DEF First
  <2> QED
    BY <1>1, <2>1, <2>13, <2>14 DEF h, s
<1>7. lines_used(ranges) \subseteq TheLines
  BY <1>1
<1> QED
  BY <1>6, <1>7

\* What is kept of a list, element by element.
KeepsOf(f, list, S) ==
    /\ f \in [0 .. Len(list) -> Seq(ToSet(list) \cap S)]
    /\ f[0] = <<>> /\ f[Len(list)] = Kept(list, S)
    /\ \A k \in 1 .. Len(list) :
         f[k] = IF list[k] \in S THEN Append(f[k - 1], list[k]) ELSE f[k - 1]

LEMMA KeptSteps ==
  ASSUME NEW T, NEW list \in Seq(T), NEW S
  PROVE  \E f : KeepsOf(f, list, S)
<1> DEFINE m == Len(list)
           W == Seq(ToSet(list) \cap S)
           none == <<>>
           On(k, x) == IF list[k] \in S THEN Append(x, list[k]) ELSE x
           Is(f) == f = [k \in 0 .. m |-> IF k = 0 THEN none ELSE On(k, f[k - 1])]
           upto == CHOOSE f : Is(f)
           step == [k \in 1 .. m |-> [x \in W |-> On(k, x)]]
<1>1. m \in Nat /\ none \in W /\ \A k \in 1 .. m : list[k] \in ToSet(list)
  BY DEF ToSet
<1>2. Kept(list, S) = upto[m]
  BY Zenon DEF Kept
<1>3. ASSUME NEW k \in 1 .. m, NEW x \in W PROVE On(k, x) \in W
  <2>1. CASE list[k] \in S
    <3>1. list[k] \in ToSet(list) \cap S
      BY <1>1, <2>1
    <3> QED
      BY <2>1, <3>1, AppendProperties
  <2> QED
    BY <2>1
<1> HIDE DEF On, m, W, none
<1>5. step \in [1 .. m -> [W -> W]] /\ \A k \in 1 .. m, x \in W : step[k][x] = On(k, x)
  BY <1>3
<1> HIDE DEF step
<1>6. PICK f : Loops(f, W, none, m, step)
  BY <1>1, <1>5, LoopExists
<1>7. f \in [0 .. m -> W] /\ f[0] = none /\ \A k \in 1 .. m : f[k] = On(k, f[k - 1])
  BY <1>1, <1>5, <1>6 DEF Loops
<1>8. Is(f)
  BY <1>1, <1>7
<1>9. Is(upto)
  BY <1>8, Zenon
<1> HIDE DEF upto
<1>10. upto[0] = none /\ \A k \in 1 .. m : upto[k] = On(k, upto[k - 1])
  BY <1>1, <1>9
<1> DEFINE good == {k \in 0 .. m : upto[k] \in W}
<1>11. 0 \in good
  BY <1>1, <1>10
<1>12. \A k \in 1 .. m : k - 1 \in good => k \in good
  BY <1>1, <1>3, <1>10
<1> HIDE DEF good
<1>14. 0 .. m \subseteq good
  BY <1>1, <1>11, <1>12, EveryPosition
<1>15. upto \in [0 .. m -> W]
  <2>1. \A k \in 0 .. m : upto[k] \in W
    BY <1>14 DEF good
  <2>2. upto = [k \in 0 .. m |-> IF k = 0 THEN none ELSE On(k, upto[k - 1])]
    BY <1>9
  <2> QED
    BY <2>1, <2>2
<1>16. KeepsOf(upto, list, S)
  BY <1>2, <1>10, <1>15 DEF KeepsOf, W, m, none, On
<1> QED
  BY <1>16

\* What is kept of a list was in it.
LEMMA KeptIs ==
  ASSUME NEW T, NEW list \in Seq(T), NEW S
  PROVE  Kept(list, S) \in Seq(ToSet(list) \cap S)
<1>1. PICK f : KeepsOf(f, list, S)
  BY KeptSteps
<1>2. Len(list) \in 0 .. Len(list)
  OBVIOUS
<1> QED
  BY <1>1, <1>2 DEF KeepsOf

\* Of two that share a list out, nothing is left and nothing is twice.
LEMMA KeptSplit ==
  ASSUME NEW T, NEW list \in Seq(T), NEW S, NEW R, \A x \in ToSet(list) : x \in S <=> x \notin R
  PROVE  Len(Kept(list, S)) + Len(Kept(list, R)) = Len(list)
<1> DEFINE m == Len(list)
           A == ToSet(list) \cap S
           B == ToSet(list) \cap R
<1>a. PICK f : KeepsOf(f, list, S)
  BY KeptSteps
<1>b. PICK g : KeepsOf(g, list, R)
  BY KeptSteps
<1>1. /\ f \in [0 .. m -> Seq(A)] /\ f[0] = <<>> /\ f[m] = Kept(list, S)
      /\ \A k \in 1 .. m : f[k] = IF list[k] \in S THEN Append(f[k - 1], list[k]) ELSE f[k - 1]
  BY <1>a DEF KeepsOf
<1>2. /\ g \in [0 .. m -> Seq(B)] /\ g[0] = <<>> /\ g[m] = Kept(list, R)
      /\ \A k \in 1 .. m : g[k] = IF list[k] \in R THEN Append(g[k - 1], list[k]) ELSE g[k - 1]
  BY <1>b DEF KeepsOf
<1>3. m \in Nat /\ \A k \in 1 .. m : list[k] \in ToSet(list)
  BY DEF ToSet
<1> HIDE DEF A, B, m
<1> DEFINE good == {k \in 0 .. m : Len(f[k]) + Len(g[k]) = k}
<1>4. 0 \in good
  BY <1>1, <1>2, <1>3
<1>5. ASSUME NEW k \in 1 .. m, k - 1 \in good PROVE k \in good
  <2>1. /\ f[k - 1] \in Seq(A) /\ g[k - 1] \in Seq(B)
        /\ Len(f[k - 1]) \in Nat /\ Len(g[k - 1]) \in Nat /\ Len(f[k - 1]) + Len(g[k - 1]) = k - 1
    <3>1. k \in Nat /\ k - 1 \in 0 .. m
      BY <1>3
    <3>2. f[k - 1] \in Seq(A) /\ g[k - 1] \in Seq(B)
      BY <3>1, <1>1, <1>2
    <3> QED
      BY <3>2, <1>5, LenProperties
  <2> SUFFICES \/ Len(f[k]) = Len(f[k - 1]) + 1 /\ Len(g[k]) = Len(g[k - 1])
               \/ Len(g[k]) = Len(g[k - 1]) + 1 /\ Len(f[k]) = Len(f[k - 1])
    <3> DEFINE a == Len(f[k - 1])
               b == Len(g[k - 1])
               c == Len(f[k])
               d == Len(g[k])
    <3>0. k \in Nat /\ k \in 0 .. m
      BY <1>3
    <3>1. a \in Nat /\ b \in Nat /\ a + b = k - 1
      BY <2>1, Zenon
    <3> HIDE DEF a, b, c, d
    <3>2. (c = a + 1 /\ d = b) \/ (d = b + 1 /\ c = a) => c + d = k
      BY <3>0, <3>1
    <3> QED
      BY <3>0, <3>2 DEF a, b, c, d
  <2>2. CASE list[k] \in S
    <3>1. list[k] \notin R
      BY <1>3, <2>2
    <3>2. f[k] = Append(f[k - 1], list[k]) /\ g[k] = g[k - 1]
      BY <1>1, <1>2, <2>2, <3>1
    <3>3. Len(f[k]) = Len(f[k - 1]) + 1 /\ Len(g[k]) = Len(g[k - 1])
      BY <2>1, <3>2
    <3> QED
      BY <3>3
  <2>3. CASE list[k] \notin S
    <3>1. list[k] \in R
      BY <1>3, <2>3
    <3>2. g[k] = Append(g[k - 1], list[k]) /\ f[k] = f[k - 1]
      BY <1>1, <1>2, <2>3, <3>1
    <3>3. Len(g[k]) = Len(g[k - 1]) + 1 /\ Len(f[k]) = Len(f[k - 1])
      BY <2>1, <3>2
    <3> QED
      BY <3>3
  <2> QED
    BY <2>2, <2>3
<1> HIDE DEF good
<1>6. 0 .. m \subseteq good
  BY <1>3, <1>4, <1>5, EveryPosition
<1>7. m \in good
  BY <1>3, <1>6
<1> QED
  BY <1>1, <1>2, <1>7 DEF good, m

LEMMA Flattened ==
  ASSUME NEW T, NEW seqs \in Seq(Seq(T))
  PROVE  FlattenSeq(seqs) \in Seq(T)
<1> DEFINE m == Len(seqs)
           W == Seq(T)
           none == <<>>
           On(k, x) == IF k = 1 THEN seqs[k] ELSE x \o seqs[k]
           Is(f) == f = [k \in 1 .. m |-> IF k = 1 THEN seqs[k] ELSE f[k - 1] \o seqs[k]]
           upto == CHOOSE f : Is(f)
           step == [k \in 1 .. m |-> [x \in W |-> On(k, x)]]
<1>1. m \in Nat /\ none \in W /\ \A k \in 1 .. m : seqs[k] \in W
  OBVIOUS
<1>2. FlattenSeq(seqs) = IF m = 0 THEN seqs ELSE upto[m]
  BY Zenon DEF FlattenSeq
<1>3. CASE m = 0
  <2>1. seqs = <<>>
    BY <1>3
  <2> QED
    BY <1>2, <1>3, <2>1
<1>4. CASE m # 0
  <2>1. ASSUME NEW k \in 1 .. m, NEW x \in W PROVE On(k, x) \in W
    BY <1>1, ConcatProperties
  <2> HIDE DEF On, m, W, none
  <2>2. step \in [1 .. m -> [W -> W]] /\ \A k \in 1 .. m, x \in W : step[k][x] = On(k, x)
    BY <2>1
  <2> HIDE DEF step
  <2>3. PICK f : Loops(f, W, none, m, step)
    BY <1>1, <2>2, LoopExists
  <2>4. f \in [0 .. m -> W] /\ \A k \in 1 .. m : f[k] = On(k, f[k - 1]) /\ f[k - 1] \in W
    BY <1>1, <2>2, <2>3 DEF Loops
  <2> DEFINE g == [k \in 1 .. m |-> f[k]]
  <2>5. Is(g)
    <3>1. ASSUME NEW k \in 1 .. m PROVE g[k] = IF k = 1 THEN seqs[k] ELSE g[k - 1] \o seqs[k]
      <4>1. CASE k = 1
        BY <2>4, <4>1 DEF On
      <4>2. CASE k # 1
        <5>1. k - 1 \in 1 .. m
          BY <1>1, <4>2
        <5> QED
          BY <2>4, <4>2, <5>1 DEF On
      <4> QED
        BY <4>1, <4>2
    <3> QED
      BY <3>1
  <2> HIDE DEF g
  <2>6. Is(upto)
    BY <2>5, Zenon
  <2> HIDE DEF upto
  <2>7. \A k \in 1 .. m : upto[k] = IF k = 1 THEN seqs[k] ELSE upto[k - 1] \o seqs[k]
    BY <2>6
  <2> DEFINE good == {k \in 0 .. m : k = 0 \/ upto[k] \in W}
  <2>8. 0 \in good
    BY <1>1
  <2>9. ASSUME NEW k \in 1 .. m, k - 1 \in good PROVE k \in good
    <3>1. CASE k = 1
      BY <1>1, <2>7, <3>1
    <3>2. CASE k # 1
      <4>1. upto[k - 1] \in W /\ seqs[k] \in W
        BY <1>1, <2>9, <3>2
      <4>2. upto[k - 1] \o seqs[k] \in W
        BY <4>1, ConcatProperties DEF W
      <4> QED
        BY <2>7, <3>2, <4>2
    <3> QED
      BY <3>1, <3>2
  <2> HIDE DEF good
  <2>10. \A k \in 1 .. m : k - 1 \in good => k \in good
    BY <2>9
  <2>11. 0 .. m \subseteq good
    BY <1>1, <2>8, <2>10, EveryPosition
  <2>12. m \in good
    BY <1>1, <2>11
  <2> QED
    BY <1>2, <1>4, <2>12 DEF good, W
<1> QED
  BY <1>3, <1>4

LEMMA Listed ==
  ASSUME NEW T, IsFiniteSet(T)
  PROVE  SetToSeq(T) \in Seq(T)
<1> DEFINE m == Cardinality(T)
<1>1. m \in Nat /\ ExistsBijection(1 .. m, T)
  BY FS_CardinalityType
<1>2. \E f \in [1 .. m -> T] : IsInjective(f)
  BY <1>1 DEF ExistsBijection, Bijection, Injection
<1>3. SetToSeq(T) \in [1 .. m -> T]
  BY <1>2, Zenon DEF SetToSeq
<1> HIDE DEF m
<1> QED
  BY <1>1, <1>3

-----------------------------------------------------------------------------
\* What is picked.

Idea == [id : Nat \X Nat, ranges : RangeLists]

Plan == [title : STRING, ranges : RangeLists]

\* The suggestions of one generation; their shorts carry its number.
Suggestions ==
    {d \in [gen : Nat, shorts : Seq(Idea), youtube : Seq(Plan)] :
        \A k \in DOMAIN d.shorts : d.shorts[k].id = <<d.gen, k>>}

IdsOf(d) == {x.id : x \in ToSet(d.shorts)}

PlacesOf(d) == {[i |-> k, title |-> d.youtube[k].title] : k \in DOMAIN d.youtube}

Selection(S) == {Everything} \cup {Named(list) : list \in Seq(S)}

PicksOf(d) == [what : {"ideas"}, shorts : Selection(IdsOf(d)), youtube : Selection(PlacesOf(d))]

LEMMA RangeListsAre ==
  ASSUME NEW list
  PROVE  list \in RangeLists <=> list \in Seq({r \in Stretch : r.from <= r.to})
<1>1. ASSUME list \in RangeLists PROVE list \in Seq({r \in Stretch : r.from <= r.to})
  <2>1. list \in Seq(Stretch) /\ \A k \in DOMAIN list : list[k].from <= list[k].to
    BY <1>1 DEF RangeLists
  <2>2. \A k \in 1 .. Len(list) : list[k] \in {r \in Stretch : r.from <= r.to}
    BY <2>1, ElementOfSeq
  <2> QED
    BY <2>1, <2>2
<1>2. ASSUME list \in Seq({r \in Stretch : r.from <= r.to}) PROVE list \in RangeLists
  <2>1. \A k \in 1 .. Len(list) : list[k] \in {r \in Stretch : r.from <= r.to}
    BY <1>2, ElementOfSeq
  <2>2. list \in Seq(Stretch) /\ \A k \in DOMAIN list : list[k].from <= list[k].to
    BY <1>2, <2>1
  <2> QED
    BY <2>2 DEF RangeLists
<1> QED
  BY <1>1, <1>2

LEMMA IdeaRanges ==
  ASSUME NEW ideas, ideas.shorts \in Seq(Idea), ideas.youtube \in Seq(Plan)
  PROVE  idea_ranges(ideas) \in RangeLists
<1> DEFINE Proper == {r \in Stretch : r.from <= r.to}
           a == [i \in DOMAIN ideas.shorts |-> ideas.shorts[i].ranges]
           b == [i \in DOMAIN ideas.youtube |-> ideas.youtube[i].ranges]
<1>1. idea_ranges(ideas) = FlattenSeq(a) \o FlattenSeq(b)
  BY Zenon DEF idea_ranges
<1>2. /\ \A i \in DOMAIN ideas.shorts : ideas.shorts[i].ranges \in Seq(Proper)
      /\ \A i \in DOMAIN ideas.youtube : ideas.youtube[i].ranges \in Seq(Proper)
  <2>1. \A i \in DOMAIN ideas.shorts : ideas.shorts[i] \in Idea
    BY Element
  <2>2. \A i \in DOMAIN ideas.youtube : ideas.youtube[i] \in Plan
    BY Element
  <2>3. /\ \A i \in DOMAIN ideas.shorts : ideas.shorts[i].ranges \in RangeLists
        /\ \A i \in DOMAIN ideas.youtube : ideas.youtube[i].ranges \in RangeLists
    BY <2>1, <2>2 DEF Idea, Plan
  <2> QED
    BY <2>3, RangeListsAre
<1>3. Len(ideas.shorts) \in Nat /\ DOMAIN ideas.shorts = 1 .. Len(ideas.shorts)
      /\ Len(ideas.youtube) \in Nat /\ DOMAIN ideas.youtube = 1 .. Len(ideas.youtube)
  OBVIOUS
<1> HIDE DEF Proper
<1>4. a \in Seq(Seq(Proper)) /\ b \in Seq(Seq(Proper))
  BY <1>2, <1>3
<1> HIDE DEF a, b
<1>5. FlattenSeq(a) \in Seq(Proper) /\ FlattenSeq(b) \in Seq(Proper)
  BY <1>4, Flattened
<1>6. idea_ranges(ideas) \in Seq(Proper)
  BY <1>1, <1>5, ConcatProperties
<1> QED
  BY <1>6, RangeListsAre DEF Proper

LEMMA SuggestionsAre ==
  ASSUME NEW d \in Suggestions
  PROVE  /\ d.gen \in Nat /\ d.shorts \in Seq(Idea) /\ d.youtube \in Seq(Plan)
         /\ \A s \in ToSet(d.shorts) : s \in Idea /\ s.id[1] = d.gen
         /\ \A id \in IdsOf(d) : id[1] = d.gen
<1>1. d.gen \in Nat /\ d.shorts \in Seq(Idea) /\ d.youtube \in Seq(Plan)
  BY DEF Suggestions
<1>2. \A k \in DOMAIN d.shorts : d.shorts[k].id = <<d.gen, k>>
  BY DEF Suggestions
<1>3. \A s \in ToSet(d.shorts) : s.id[1] = d.gen
  BY <1>2 DEF ToSet
<1>4. ToSet(d.shorts) \subseteq Idea
  BY <1>1, ElementsFinite
<1> QED
  BY <1>1, <1>3, <1>4 DEF IdsOf

LEMMA IdsFinite ==
  ASSUME NEW d \in Suggestions
  PROVE  IsFiniteSet(IdsOf(d)) /\ IsFiniteSet(PlacesOf(d))
<1> DEFINE S == ToSet(d.shorts)
           n == Len(d.youtube)
           f == [x \in S |-> x.id]
           g == [k \in 1 .. n |-> [i |-> k, title |-> d.youtube[k].title]]
<1>1. IsFiniteSet(S) /\ n \in Nat /\ DOMAIN d.youtube = 1 .. n
  BY SuggestionsAre, ElementsFinite
<1>2. f \in Surjection(S, IdsOf(d))
  BY DEF Surjection, IdsOf
<1>3. g \in Surjection(1 .. n, PlacesOf(d))
  BY <1>1 DEF Surjection, PlacesOf
<1>4. IsFiniteSet(1 .. n)
  BY <1>1, Counting
<1> HIDE DEF f, g, S, n
<1> QED
  BY <1>1, <1>2, <1>3, <1>4, FS_Surjection

LEMMA SomeAreSelected ==
  ASSUME NEW S, IsFiniteSet(S)
  PROVE  SomeOf(S) \subseteq Selection(S)
<1>1. ASSUME NEW T \in SUBSET S PROVE SetToSeq(T) \in Seq(S)
  <2>1. SetToSeq(T) \in Seq(T)
    BY FS_Subset, Listed
  <2> QED
    BY <2>1, SeqMonotonic
<1> QED
  BY <1>1 DEF SomeOf, Selection

\* A producer picks among the suggestions that are shown.
LEMMA PicksAre ==
  ASSUME draft \in Suggestions
  PROVE  Picks \subseteq PicksOf(draft)
<1>1. Picks \subseteq [what : {"ideas"}, shorts : SomeOf(IdsOf(draft)), youtube : SomeOf(PlacesOf(draft))]
  BY Zenon DEF Picks, IdsOf, PlacesOf
<1>2. SomeOf(IdsOf(draft)) \subseteq Selection(IdsOf(draft)) /\ SomeOf(PlacesOf(draft)) \subseteq Selection(PlacesOf(draft))
  BY IdsFinite, SomeAreSelected
<1> QED
  BY <1>1, <1>2 DEF PicksOf

\* What is picked is told from the timeline, and "all of them" names none.
LEMMA PicksOfAre ==
  ASSUME NEW d, NEW pick \in PicksOf(d)
  PROVE  /\ pick # Timeline /\ pick.what = "ideas"
         /\ pick.shorts.of \in Seq(IdsOf(d)) /\ pick.youtube.of \in Seq(PlacesOf(d))
         /\ pick.shorts.every => pick.shorts.of = <<>>
         /\ pick.youtube.every => pick.youtube.of = <<>>
<1>1. /\ pick.what = "ideas" /\ pick.shorts \in Selection(IdsOf(d)) /\ pick.youtube \in Selection(PlacesOf(d))
  BY DEF PicksOf
<1>2. ASSUME NEW S, NEW x \in Selection(S) PROVE x.of \in Seq(S) /\ (x.every => x.of = <<>>)
  <2>1. CASE x = Everything
    <3>1. x.of = <<>>
      BY <2>1 DEF Everything
    <3> QED
      BY <3>1, EmptySeq
  <2>2. ASSUME NEW list \in Seq(S), x = Named(list) PROVE x.of = list /\ x.every = FALSE
    BY <2>2 DEF Named
  <2> QED
    BY <2>1, <2>2 DEF Selection
<1>3. Timeline.what = "timeline"
  BY DEF Timeline, All
<1> QED
  BY <1>1, <1>2, <1>3

\* What a selection gives of the suggestions there are, and what it leaves out.
LEMMA IdeasPicked ==
  ASSUME draft \in Suggestions, NEW seen, NEW pick \in PicksOf(seen)
  PROVE  LET ideas == pick_ideas(pick)
         IN  /\ ideas.shorts \in Seq(Idea) /\ ideas.youtube \in Seq(Plan) /\ ideas.skipped \in Int
             /\ ~pick.shorts.every =>
                  \A s \in ToSet(ideas.shorts) : s \in ToSet(draft.shorts) /\ s.id \in IdsOf(seen)
             /\ ~pick.youtube.every =>
                  \A p \in ToSet(ideas.youtube) : \E c \in ToSet(pick.youtube.of) :
                      c.i \in DOMAIN draft.youtube /\ p = draft.youtube[c.i] /\ p.title = c.title
             /\ ~pick.shorts.every /\ ~pick.youtube.every =>
                  Len(ideas.shorts) + Len(ideas.youtube) + ideas.skipped
                    = Len(pick.shorts.of) + Len(pick.youtube.of)
<1> DEFINE ids == pick.shorts.of
           places == pick.youtube.of
           there == {c \in ToSet(places) : IsStill(c)}
           known == KnownShorts(ids)
           plans == Kept(places, there)
           ById(id) == CHOOSE s \in ToSet(draft.shorts) : s.id = id
           shorts == [k \in DOMAIN known |-> ById(known[k])]
           youtube == [k \in DOMAIN plans |-> draft.youtube[plans[k].i]]
           ideas == pick_ideas(pick)
<1>1. ideas = [shorts |-> IF pick.shorts.every THEN draft.shorts ELSE shorts,
               youtube |-> IF pick.youtube.every THEN draft.youtube ELSE youtube,
               skipped |-> Len(ids) - Len(known) + Len(places) - Len(plans)]
  BY Zenon DEF pick_ideas
<1>2. ids \in Seq(IdsOf(seen)) /\ places \in Seq(PlacesOf(seen))
  BY PicksOfAre
<1>3. known \in Seq(IdsOf(seen) \cap IdsOf(draft))
  <2>1. known \in Seq(ToSet(ids) \cap IdsOf(draft))
    BY <1>2, KeptIs DEF KnownShorts, IdsOf
  <2>2. ToSet(ids) \subseteq IdsOf(seen)
    BY <1>2, ElementsFinite
  <2> QED
    BY <2>1, <2>2, SeqMonotonic
<1>4. plans \in Seq(there)
  <2>1. plans \in Seq(ToSet(places) \cap there)
    BY <1>2, KeptIs
  <2> QED
    BY <2>1, SeqMonotonic
<1>5. draft.shorts \in Seq(Idea) /\ draft.youtube \in Seq(Plan) /\ ToSet(draft.shorts) \subseteq Idea
  BY SuggestionsAre, ElementsFinite
<1>6. ASSUME NEW id \in IdsOf(draft) PROVE ById(id) \in ToSet(draft.shorts) /\ ById(id).id = id
  <2>1. \E s \in ToSet(draft.shorts) : s.id = id
    BY DEF IdsOf
  <2> QED
    BY <2>1, Zenon
<1>7. \A c \in there : c \in ToSet(places) /\ c.i \in DOMAIN draft.youtube /\ draft.youtube[c.i].title = c.title
  BY DEF IsStill
<1> HIDE DEF known, plans, there, ById, ideas
<1>8. Len(known) \in Nat /\ DOMAIN known = 1 .. Len(known) /\ Len(plans) \in Nat /\ DOMAIN plans = 1 .. Len(plans)
      /\ Len(ids) \in Nat /\ Len(places) \in Nat
  BY <1>2, <1>3, <1>4
<1>9. \A k \in DOMAIN known : shorts[k] \in ToSet(draft.shorts) /\ shorts[k].id \in IdsOf(seen)
  <2> SUFFICES ASSUME NEW k \in DOMAIN known PROVE shorts[k] \in ToSet(draft.shorts) /\ shorts[k].id \in IdsOf(seen)
    OBVIOUS
  <2>1. known[k] \in IdsOf(seen) \cap IdsOf(draft)
    BY <1>3, Element
  <2>2. ById(known[k]) \in ToSet(draft.shorts) /\ ById(known[k]).id = known[k]
    BY <1>6, <2>1
  <2> QED
    BY <2>1, <2>2
<1>10. \A k \in DOMAIN plans : /\ plans[k] \in ToSet(places) /\ plans[k].i \in DOMAIN draft.youtube
                               /\ youtube[k] = draft.youtube[plans[k].i] /\ youtube[k].title = plans[k].title
                               /\ youtube[k] \in Plan
  <2> SUFFICES ASSUME NEW k \in DOMAIN plans
               PROVE  /\ plans[k] \in ToSet(places) /\ plans[k].i \in DOMAIN draft.youtube
                      /\ youtube[k] = draft.youtube[plans[k].i] /\ youtube[k].title = plans[k].title
                      /\ youtube[k] \in Plan
    OBVIOUS
  <2>1. plans[k] \in there
    BY <1>4, Element
  <2>2. plans[k] \in ToSet(places) /\ plans[k].i \in DOMAIN draft.youtube /\ draft.youtube[plans[k].i].title = plans[k].title
    BY <1>7, <2>1
  <2>3. draft.youtube[plans[k].i] \in Plan
    BY <1>5, <2>2, Element
  <2> QED
    BY <2>2, <2>3
<1>11. shorts \in Seq(Idea) /\ Len(shorts) = Len(known) /\ DOMAIN shorts = DOMAIN known
  <2>1. \A k \in 1 .. Len(known) : shorts[k] \in Idea
    BY <1>5, <1>8, <1>9
  <2>2. shorts \in [1 .. Len(known) -> Idea]
    BY <1>8, <2>1
  <2> QED
    BY <1>8, <2>2
<1>12. youtube \in Seq(Plan) /\ Len(youtube) = Len(plans) /\ DOMAIN youtube = DOMAIN plans
  <2>1. \A k \in 1 .. Len(plans) : youtube[k] \in Plan
    BY <1>8, <1>10
  <2>2. youtube \in [1 .. Len(plans) -> Plan]
    BY <1>8, <2>1
  <2> QED
    BY <1>8, <2>2
<1> HIDE DEF shorts, youtube
<1>13. ideas.shorts \in Seq(Idea) /\ ideas.youtube \in Seq(Plan) /\ ideas.skipped \in Int
  <2>1. ideas.skipped = Len(ids) - Len(known) + Len(places) - Len(plans)
    BY <1>1
  <2> QED
    BY <2>1, <1>1, <1>5, <1>8, <1>11, <1>12
<1>14. ~pick.shorts.every => \A s \in ToSet(ideas.shorts) : s \in ToSet(draft.shorts) /\ s.id \in IdsOf(seen)
  <2>1. \A s \in ToSet(shorts) : s \in ToSet(draft.shorts) /\ s.id \in IdsOf(seen)
    BY <1>9, <1>11 DEF ToSet
  <2>2. ~pick.shorts.every => ideas.shorts = shorts
    BY <1>1
  <2> QED
    BY <2>1, <2>2
<1>15. ~pick.youtube.every =>
         \A p \in ToSet(ideas.youtube) : \E c \in ToSet(places) :
             c.i \in DOMAIN draft.youtube /\ p = draft.youtube[c.i] /\ p.title = c.title
  <2>1. \A p \in ToSet(youtube) : \E k \in DOMAIN plans : p = youtube[k]
    BY <1>12 DEF ToSet
  <2>2. \A p \in ToSet(youtube) : \E c \in ToSet(places) :
             c.i \in DOMAIN draft.youtube /\ p = draft.youtube[c.i] /\ p.title = c.title
    BY <1>10, <2>1
  <2>3. ~pick.youtube.every => ideas.youtube = youtube
    BY <1>1
  <2> QED
    BY <2>2, <2>3
<1>16. ~pick.shorts.every /\ ~pick.youtube.every =>
         Len(ideas.shorts) + Len(ideas.youtube) + ideas.skipped = Len(ids) + Len(places)
  <2>1. SUFFICES ASSUME ~pick.shorts.every, ~pick.youtube.every
                 PROVE  Len(ideas.shorts) + Len(ideas.youtube) + ideas.skipped = Len(ids) + Len(places)
    OBVIOUS
  <2>2. ideas.shorts = shorts /\ ideas.youtube = youtube
        /\ ideas.skipped = Len(ids) - Len(known) + Len(places) - Len(plans)
    BY <1>1, <2>1
  <2>3. Len(shorts) = Len(known) /\ Len(youtube) = Len(plans)
    BY <1>11, <1>12
  <2> DEFINE a == Len(known)
             b == Len(plans)
             c == Len(ids)
             d == Len(places)
  <2>4. a \in Nat /\ b \in Nat /\ c \in Nat /\ d \in Nat
    BY <1>8
  <2>5. ideas.skipped = c - a + d - b /\ Len(ideas.shorts) = a /\ Len(ideas.youtube) = b
    BY <2>2, <2>3
  <2> HIDE DEF a, b, c, d
  <2>6. Len(ideas.shorts) + Len(ideas.youtube) + ideas.skipped = c + d
    BY <2>4, <2>5
  <2> QED
    BY <2>6 DEF c, d
<1> QED
  BY <1>13, <1>14, <1>15, <1>16 DEF ideas
-----------------------------------------------------------------------------
\* What an order holds of the project from when it is asked for.

OrderHolds(r) ==
    /\ r = [state |-> r.state, pick |-> r.pick, key |-> r.key, seen |-> r.seen, moved |-> r.moved]
    /\ r.state \in {"none", "queued", "ended"} /\ r.moved \in BOOLEAN
    /\ r.state # "none" => r.seen \in Suggestions /\ (r.pick = Timeline \/ r.pick \in PicksOf(r.seen))

\* The selections, and those that have no hole now.
AnyPick == {Timeline} \cup UNION {PicksOf(d) : d \in Suggestions}

HoleFree == {p \in AnyPick : translation_holes(RangesOf(p)) = {}}

\* While it waits: suggestions of the same number are the same, and where
\* nothing moved the selection still has no hole.
StillMeant(r) ==
    r.state = "queued" =>
        /\ r.seen.gen <= draft.gen
        /\ r.seen.gen = draft.gen => r.seen = draft
        /\ ~r.moved => r.seen = draft /\ r.pick \in HoleFree

FilmHolds(r, film) ==
    /\ r.state # "ended" => film = NoFilm
    /\ film.fallback \cup film.missing \subseteq TheLines
    /\ r.state = "ended" /\ r.pick.what = "ideas" /\ film # NoFilm =>
         /\ ~r.pick.shorts.every => ToSet(film.shorts) \subseteq ToSet(r.seen.shorts)
         /\ ~r.pick.youtube.every =>
              \A p \in ToSet(film.youtube) \cup ToSet(film.bare) :
                  \E c \in ToSet(r.pick.youtube.of) :
                      p = r.seen.youtube[c.i] \/ (r.moved /\ p.title = c.title)
         /\ \A p \in ToSet(film.bare) : p.ranges = <<>>
         /\ \A p \in ToSet(film.youtube) : p.ranges # <<>>
         /\ ~r.pick.shorts.every /\ ~r.pick.youtube.every =>
              Len(film.shorts) + Len(film.youtube) + Len(film.bare) + film.skipped
                = Len(r.pick.shorts.of) + Len(r.pick.youtube.of)
    /\ film.fallback \cup (film.missing \cap OverTime) # {} => r.moved
    /\ film.counted >= Cardinality(film.fallback)

ProjectHolds ==
    /\ draft \in Suggestions /\ clips \in RangeLists /\ translated \subseteq TheLines
    /\ wants \in [subtitles : BOOLEAN, voice : BOOLEAN]
    /\ turns \in 0 .. Turns
    /\ orders = [o \in Orders |-> orders[o]] /\ films = [o \in Orders |-> films[o]]

ChoiceInv ==
    /\ ProjectHolds
    /\ \A o \in Orders : OrderHolds(orders[o]) /\ StillMeant(orders[o]) /\ FilmHolds(orders[o], films[o])

LEMMA ChoiceShows == ChoiceInv => ChoiceTypeOK /\ ExportIsAsAsked
<1> SUFFICES ASSUME ChoiceInv PROVE ChoiceTypeOK /\ ExportIsAsAsked
  OBVIOUS
<1>1. ProjectHolds /\ \A o \in Orders : OrderHolds(orders[o]) /\ FilmHolds(orders[o], films[o])
  BY DEF ChoiceInv
<1>2. ChoiceTypeOK
  BY <1>1 DEF ChoiceTypeOK, ProjectHolds, OrderHolds, FilmHolds
<1>3. RenderedWereChosen
  BY <1>1, Zenon DEF RenderedWereChosen, FilmHolds
<1>4. HolesComeFromChanges
  BY <1>1, Zenon DEF HolesComeFromChanges, FilmHolds
<1> QED
  BY <1>2, <1>3, <1>4 DEF ExportIsAsAsked

LEMMA NoFilmHolds ==
  ASSUME NEW r
  PROVE  FilmHolds(r, NoFilm)
<1>1. NoFilm.fallback = {} /\ NoFilm.missing = {} /\ NoFilm.counted = 0
  BY DEF NoFilm
<1>2. Cardinality({}) = 0
  BY FS_EmptySet
<1>3. NoFilm.fallback \cup (NoFilm.missing \cap OverTime) = {} /\ NoFilm.fallback \cup NoFilm.missing \subseteq TheLines
  BY <1>1
<1>4. NoFilm.counted >= Cardinality(NoFilm.fallback)
  BY <1>1, <1>2
<1> QED
  BY <1>3, <1>4, Zenon DEF FilmHolds

LEMMA ChoiceBegins == ChoiceInit => ChoiceInv
<1> SUFFICES ASSUME ChoiceInit PROVE ChoiceInv
  OBVIOUS
<1>1. NoDraft \in Suggestions
  <2>1. <<>> \in Seq(Idea) /\ <<>> \in Seq(Plan) /\ DOMAIN <<>> = {}
    BY EmptySeq
  <2>2. \A k \in DOMAIN NoDraft.shorts : NoDraft.shorts[k].id = <<NoDraft.gen, k>>
    BY <2>1 DEF NoDraft
  <2>3. NoDraft \in [gen : Nat, shorts : Seq(Idea), youtube : Seq(Plan)]
    BY <2>1 DEF NoDraft
  <2> QED
    BY <2>2, <2>3 DEF Suggestions
<1>2. <<>> \in RangeLists
  BY EmptySeq DEF RangeLists
<1>3. ProjectHolds
  BY <1>1, <1>2, ChoiceAssumption DEF ChoiceInit, ProjectHolds
<1>4. ASSUME NEW o \in Orders PROVE OrderHolds(orders[o]) /\ StillMeant(orders[o]) /\ FilmHolds(orders[o], films[o])
  <2>1. orders[o] = NoOrder /\ films[o] = NoFilm /\ NoOrder.state = "none"
    BY DEF ChoiceInit, NoOrder
  <2>2. OrderHolds(NoOrder)
    BY DEF OrderHolds, NoOrder
  <2>3. StillMeant(NoOrder)
    BY <2>1 DEF StillMeant
  <2>4. FilmHolds(NoOrder, NoFilm)
    BY NoFilmHolds
  <2> QED
    BY <2>1, <2>2, <2>3, <2>4
<1> QED
  BY <1>3, <1>4 DEF ChoiceInv

\* A change of the project lets the films be and marks the orders that wait.
LEMMA MovesKeep ==
  ASSUME ChoiceInv, Moves, films' = films,
         draft' \in Suggestions, clips' \in RangeLists, translated' \subseteq TheLines,
         wants' \in [subtitles : BOOLEAN, voice : BOOLEAN],
         draft' = draft \/ draft'.gen = draft.gen + 1
  PROVE  ChoiceInv'
<1> DEFINE Noted(o) == [orders[o] EXCEPT !.moved = @ \/ orders[o].state = "queued"]
<1>1. /\ turns' = turns + 1 /\ turns < Turns
      /\ orders' = [o \in Orders |-> Noted(o)]
  BY DEF Moves
<1>2. ProjectHolds /\ \A o \in Orders : OrderHolds(orders[o]) /\ StillMeant(orders[o]) /\ FilmHolds(orders[o], films[o])
  BY DEF ChoiceInv
<1>3. draft \in Suggestions /\ draft.gen \in Nat /\ draft'.gen \in Nat
  BY <1>2, SuggestionsAre DEF ProjectHolds
<1>4. ProjectHolds'
  <2>1. turns' \in 0 .. Turns
    BY <1>1, <1>2, ChoiceAssumption DEF ProjectHolds
  <2>2. orders' = [o \in Orders |-> orders'[o]] /\ films' = [o \in Orders |-> films'[o]]
    BY <1>1, <1>2 DEF ProjectHolds
  <2> QED
    BY <2>1, <2>2 DEF ProjectHolds
<1>5. ASSUME NEW o \in Orders PROVE (OrderHolds(orders[o]) /\ StillMeant(orders[o]) /\ FilmHolds(orders[o], films[o]))'
  <2> DEFINE r == orders[o]
             s == [state |-> r.state, pick |-> r.pick, key |-> r.key, seen |-> r.seen,
                   moved |-> r.moved \/ r.state = "queued"]
  <2>1. OrderHolds(r) /\ StillMeant(r) /\ FilmHolds(r, films[o])
    BY <1>2
  <2>2. orders'[o] = s /\ films'[o] = films[o]
    <3>1. orders'[o] = Noted(o)
      BY <1>1
    <3>2. Noted(o) = s
      BY <2>1 DEF OrderHolds
    <3> QED
      BY <3>1, <3>2
  <2>3. /\ s.state = r.state /\ s.pick = r.pick /\ s.key = r.key /\ s.seen = r.seen
        /\ s.moved = (r.moved \/ r.state = "queued")
    OBVIOUS
  <2>4. r.moved \in BOOLEAN /\ s.moved \in BOOLEAN
    BY <2>1, <2>3 DEF OrderHolds
  <2>5. s = [state |-> s.state, pick |-> s.pick, key |-> s.key, seen |-> s.seen, moved |-> s.moved]
    OBVIOUS
  <2>6. r.state = "queued" => s.moved
    BY <2>3
  <2>7. r.state = "ended" => (s.moved <=> r.moved)
    BY <2>3, <2>4
  <2> HIDE DEF s, r
  <2>8. OrderHolds(s)
    BY <2>1, <2>3, <2>4, <2>5 DEF OrderHolds
  <2>9. s.state = "queued" => /\ s.seen.gen <= draft'.gen
                              /\ s.seen.gen = draft'.gen => s.seen = draft'
                              /\ s.moved
    <3> SUFFICES ASSUME s.state = "queued"
                 PROVE  s.seen.gen <= draft'.gen /\ (s.seen.gen = draft'.gen => s.seen = draft') /\ s.moved
      OBVIOUS
    <3>1. r.state = "queued" /\ r.seen \in Suggestions
      BY <2>1, <2>3 DEF OrderHolds
    <3>2. r.seen.gen \in Nat /\ r.seen.gen <= draft.gen /\ (r.seen.gen = draft.gen => r.seen = draft)
      BY <2>1, <3>1, SuggestionsAre DEF StillMeant
    <3>3. CASE draft' = draft
      BY <2>3, <2>6, <3>1, <3>2, <3>3
    <3>4. CASE draft'.gen = draft.gen + 1
      BY <1>3, <2>3, <2>6, <3>1, <3>2, <3>4
    <3> QED
      BY <3>3, <3>4
  <2>10. StillMeant(orders[o])'
    BY <2>2, <2>9 DEF StillMeant
  <2>11. FilmHolds(s, films[o])
    <3>1. CASE r.state = "ended"
      <4>1. s.moved <=> r.moved
        BY <2>7, <3>1
      <4>2. FilmHolds(r, films[o])
        BY <2>1
      <4> QED
        BY <2>3, <3>1, <4>1, <4>2, Zenon DEF FilmHolds
    <3>2. CASE r.state # "ended"
      <4>1. films[o] = NoFilm
        BY <2>1, <3>2 DEF FilmHolds
      <4> QED
        BY <4>1, NoFilmHolds
    <3> QED
      BY <3>1, <3>2
  <2>12. OrderHolds(orders[o])' /\ FilmHolds(orders[o], films[o])'
    BY <2>2, <2>8, <2>11
  <2> QED
    BY <2>10, <2>12
<1> QED
  BY <1>4, <1>5 DEF ChoiceInv

LEMMA LinesUsedAre ==
  ASSUME NEW ideas, ideas.shorts \in Seq(Idea), ideas.youtube \in Seq(Plan)
  PROVE  lines_used(idea_ranges(ideas)) \subseteq TheLines
BY IdeaRanges, LinesLookedUp

LEMMA SuggestedKeeps == ChoiceInv /\ Suggested => ChoiceInv'
<1> SUFFICES ASSUME ChoiceInv, Suggested PROVE ChoiceInv'
  OBVIOUS
<1>1. ProjectHolds
  BY DEF ChoiceInv
<1>2. draft.gen \in Nat
  BY <1>1, SuggestionsAre DEF ProjectHolds
<1>3. PICK d \in Drafts :
        draft' = [gen |-> draft.gen + 1, youtube |-> d.youtube,
                  shorts |-> [i \in DOMAIN d.shorts |-> [id |-> <<draft.gen + 1, i>>, ranges |-> d.shorts[i]]]]
  BY DEF Suggested
<1> DEFINE n == draft.gen + 1
           shorts == [i \in DOMAIN d.shorts |-> [id |-> <<n, i>>, ranges |-> d.shorts[i]]]
<1>4. d.shorts \in Seq(RangeLists) /\ d.youtube \in Seq(Plan)
  <2>1. d.shorts \in Seq(RangeLists \ {<<>>}) /\ d.youtube \in Seq(Plan)
    BY ChoiceAssumption DEF Plan
  <2> QED
    BY <2>1, SeqMonotonic
<1>5. shorts \in Seq(Idea)
  <2>1. DOMAIN d.shorts = 1 .. Len(d.shorts) /\ Len(d.shorts) \in Nat
    BY <1>4
  <2>2. ASSUME NEW i \in 1 .. Len(d.shorts) PROVE shorts[i] \in Idea
    <3>1. d.shorts[i] \in RangeLists
      BY <1>4, ElementOfSeq
    <3>2. <<n, i>> \in Nat \X Nat
      BY <1>2, <2>1
    <3>3. shorts[i] = [id |-> <<n, i>>, ranges |-> d.shorts[i]]
      BY <2>1
    <3> QED
      BY <3>1, <3>2, <3>3 DEF Idea
  <2>3. shorts \in [1 .. Len(d.shorts) -> Idea]
    BY <2>1, <2>2
  <2> QED
    BY <2>1, <2>3
<1>6. \A k \in DOMAIN shorts : shorts[k].id = <<n, k>>
  OBVIOUS
<1>7. n \in Nat /\ draft' = [gen |-> n, youtube |-> d.youtube, shorts |-> shorts]
  BY <1>2, <1>3
<1> HIDE DEF n, shorts
<1>8. draft' \in Suggestions
  BY <1>4, <1>5, <1>6, <1>7 DEF Suggestions
<1>9. draft'.gen = draft.gen + 1
  BY <1>7 DEF n
<1>10. Moves /\ films' = films /\ clips' = clips /\ translated' = translated /\ wants' = wants
  BY DEF Suggested
<1> QED
  BY <1>1, <1>8, <1>9, <1>10, MovesKeep DEF ProjectHolds

LEMMA ProjectMoves ==
  ASSUME ChoiceInv, \/ Settled \/ LaidOut \/ Translated(TheLines)
                    \/ Translated(lines_used(idea_ranges(draft))) \/ \E n \in TheLines : Corrected(n)
  PROVE  ChoiceInv'
<1>1. /\ draft \in Suggestions /\ clips \in RangeLists /\ translated \subseteq TheLines
      /\ wants \in [subtitles : BOOLEAN, voice : BOOLEAN]
  BY DEF ChoiceInv, ProjectHolds
<1>2. CASE Settled
  <2>1. /\ Moves /\ films' = films /\ draft' = draft /\ clips' = clips /\ translated' = translated
        /\ wants' \in [subtitles : BOOLEAN, voice : BOOLEAN]
    BY <1>2 DEF Settled
  <2> QED
    BY <1>1, <2>1, MovesKeep
<1>3. CASE LaidOut
  <2>1. /\ Moves /\ films' = films /\ draft' = draft /\ clips' \in RangeLists /\ translated' = translated
        /\ wants' = wants
    BY <1>3, ChoiceAssumption DEF LaidOut
  <2> QED
    BY <1>1, <2>1, MovesKeep
<1>4. ASSUME NEW S, S \subseteq TheLines, Translated(S) PROVE ChoiceInv'
  <2>1. /\ Moves /\ films' = films /\ draft' = draft /\ clips' = clips /\ translated' \subseteq TheLines
        /\ wants' = wants
    BY <1>1, <1>4 DEF Translated
  <2> QED
    BY <1>1, <2>1, MovesKeep
<1>5. lines_used(idea_ranges(draft)) \subseteq TheLines
  BY <1>1, SuggestionsAre, LinesUsedAre
<1>6. ASSUME NEW n \in TheLines, Corrected(n) PROVE ChoiceInv'
  <2>1. /\ Moves /\ films' = films /\ draft' = draft /\ clips' = clips /\ translated' \subseteq TheLines
        /\ wants' = wants
    BY <1>1, <1>6 DEF Corrected
  <2> QED
    BY <1>1, <2>1, MovesKeep
<1> QED
  BY <1>2, <1>3, <1>4, <1>5, <1>6

\* An order or a render leaves what the others are about.
LEMMA ChoiceStays ==
  ASSUME UNCHANGED <<draft, clips, translated, wants>>
  PROVE  HoleFree' = HoleFree
<1>1. draft' = draft /\ clips' = clips /\ translated' = translated /\ wants' = wants
  OBVIOUS
<1>2. ASSUME NEW CONSTANT p PROVE translation_holes(RangesOf(p))' = translation_holes(RangesOf(p))
  <2>1. \A ids : KnownShorts(ids)' = KnownShorts(ids)
    BY <1>1 DEF KnownShorts
  <2>2. \A c : IsStill(c)' <=> IsStill(c)
    BY <1>1 DEF IsStill
  <2>3. {c \in ToSet(p.youtube.of) : IsStill(c)}' = {c \in ToSet(p.youtube.of) : IsStill(c)}
    BY <2>2
  <2> DEFINE known == KnownShorts(p.shorts.of)
             plans == Kept(p.youtube.of, {c \in ToSet(p.youtube.of) : IsStill(c)})
             ById(id) == CHOOSE s \in ToSet(draft.shorts) : s.id = id
             shorts == [k \in DOMAIN known |-> ById(known[k])]
             youtube == [k \in DOMAIN plans |-> draft.youtube[plans[k].i]]
             ideas == [shorts |-> IF p.shorts.every THEN draft.shorts ELSE shorts,
                       youtube |-> IF p.youtube.every THEN draft.youtube ELSE youtube,
                       skipped |-> Len(p.shorts.of) - Len(known) + Len(p.youtube.of) - Len(plans)]
  <2>4. pick_ideas(p) = ideas /\ pick_ideas(p)' = ideas'
    BY Zenon DEF pick_ideas
  <2>5. known' = known
    BY <2>1
  <2>6. plans' = plans
    BY <2>3, Zenon
  <2> HIDE DEF known, plans
  <2>7. shorts' = shorts
    BY <1>1, <2>5
  <2>8. youtube' = youtube
    BY <1>1, <2>6
  <2> HIDE DEF shorts, youtube
  <2>9. ideas' = ideas
    BY <1>1, <2>5, <2>6, <2>7, <2>8
  <2> HIDE DEF ideas
  <2>10. RangesOf(p)' = RangesOf(p)
    BY <1>1, <2>4, <2>9, Zenon DEF RangesOf
  <2> QED
    BY <1>1, <2>10, Zenon DEF translation_holes, translation_uses
<1>3. \A p : translation_holes(RangesOf(p))' = translation_holes(RangesOf(p))
  BY <1>2
<1> QED
  BY <1>3 DEF HoleFree

LEMMA OthersStay ==
  ASSUME ChoiceInv, UNCHANGED <<draft, clips, translated, wants>>, NEW q \in Orders,
         orders'[q] = orders[q], films'[q] = films[q]
  PROVE  (OrderHolds(orders[q]) /\ StillMeant(orders[q]) /\ FilmHolds(orders[q], films[q]))'
<1>1. OrderHolds(orders[q]) /\ StillMeant(orders[q]) /\ FilmHolds(orders[q], films[q])
  BY DEF ChoiceInv
<1>2. draft' = draft /\ HoleFree' = HoleFree
  BY ChoiceStays
<1>3. StillMeant(orders[q])'
  BY <1>1, <1>2 DEF StillMeant
<1>4. OrderHolds(orders[q])' /\ FilmHolds(orders[q], films[q])'
  BY <1>1
<1> QED
  BY <1>3, <1>4

LEMMA OrderedKeeps ==
  ASSUME ChoiceInv, NEW o \in Orders, Free(o), NEW pick \in PicksOf(draft) \cup {Timeline}, Ordered(o, pick)
  PROVE  ChoiceInv'
<1> DEFINE key == digest(pick)
           r == [state |-> "queued", pick |-> pick, key |-> key, seen |-> draft, moved |-> FALSE]
<1>1. /\ orders' = [orders EXCEPT ![o] = r] /\ films' = films /\ turns' = turns
      /\ draft' = draft /\ clips' = clips /\ translated' = translated /\ wants' = wants
      /\ translation_holes(RangesOf(pick)) = {}
  BY Zenon DEF Ordered
<1>2. ProjectHolds /\ draft \in Suggestions /\ draft.gen \in Nat
  BY SuggestionsAre DEF ChoiceInv, ProjectHolds
<1> HIDE DEF key
<1>3. ProjectHolds'
  <2>1. orders' = [q \in Orders |-> orders'[q]] /\ films' = [q \in Orders |-> films'[q]]
    BY <1>1, <1>2 DEF ProjectHolds
  <2> QED
    BY <1>1, <1>2, <2>1 DEF ProjectHolds
<1>4. orders'[o] = r /\ \A q \in Orders : q # o => orders'[q] = orders[q]
  BY <1>1, <1>2 DEF ProjectHolds
<1>5. /\ r.state = "queued" /\ r.pick = pick /\ r.key = key /\ r.seen = draft /\ r.moved = FALSE
      /\ r = [state |-> r.state, pick |-> r.pick, key |-> r.key, seen |-> r.seen, moved |-> r.moved]
  OBVIOUS
<1> HIDE DEF r
<1>6. (OrderHolds(orders[o]) /\ StillMeant(orders[o]) /\ FilmHolds(orders[o], films[o]))'
  <2>1. OrderHolds(r)
    BY <1>2, <1>5 DEF OrderHolds
  <2>2. pick \in HoleFree /\ HoleFree' = HoleFree
    BY <1>1, <1>2, ChoiceStays DEF HoleFree, AnyPick
  <2>3. StillMeant(orders[o])'
    BY <1>1, <1>2, <1>4, <1>5, <2>2 DEF StillMeant
  <2>4. films'[o] = NoFilm
    BY <1>1 DEF ChoiceInv, FilmHolds, Free
  <2>5. FilmHolds(r, NoFilm)
    BY NoFilmHolds
  <2> QED
    BY <1>4, <2>1, <2>3, <2>4, <2>5
<1>7. ASSUME NEW q \in Orders, q # o
      PROVE  (OrderHolds(orders[q]) /\ StillMeant(orders[q]) /\ FilmHolds(orders[q], films[q]))'
  BY <1>1, <1>4, <1>7, OthersStay
<1> QED
  BY <1>3, <1>6, <1>7 DEF ChoiceInv

LEMMA RangesOfAre ==
  ASSUME draft \in Suggestions, clips \in RangeLists, NEW pick \in AnyPick
  PROVE  RangesOf(pick) \in RangeLists
<1>1. CASE pick = Timeline
  BY <1>1 DEF RangesOf
<1>2. CASE pick # Timeline
  <2>1. PICK d \in Suggestions : pick \in PicksOf(d)
    BY <1>2 DEF AnyPick
  <2>2. pick_ideas(pick).shorts \in Seq(Idea) /\ pick_ideas(pick).youtube \in Seq(Plan)
    BY <2>1, IdeasPicked
  <2>3. idea_ranges(pick_ideas(pick)) \in RangeLists
    BY <2>2, IdeaRanges
  <2> QED
    BY <1>2, <2>3 DEF RangesOf
<1> QED
  BY <1>1, <1>2

\* A line that takes time and whose middle is in a range overlaps it.
LEMMA ReadIsUsed ==
  ASSUME NEW ranges \in RangeLists
  PROVE  ReadAloud(ranges) \cap OverTime \subseteq lines_used(ranges) /\ ReadAloud(ranges) \subseteq TheLines
<1>1. ASSUME NEW n \in ReadAloud(ranges), n \in OverTime PROVE n \in Shown(ranges)
  <2>1. PICK r \in ToSet(ranges) :
             2 * r.from <= Sayings[n].from + Sayings[n].to /\ Sayings[n].from + Sayings[n].to < 2 * r.to
    BY DEF ReadAloud
  <2>2. n \in TheLines /\ Sayings[n].from < Sayings[n].to
    BY <1>1 DEF OverTime
  <2>3. Sayings[n].from \in Nat /\ Sayings[n].to \in Nat
    BY <2>2, ChoiceAssumption DEF TheLines, Stretch
  <2>4. r.from \in Nat /\ r.to \in Nat
    <3>1. ranges \in Seq(Stretch)
      BY DEF RangeLists
    <3>2. r \in Stretch
      BY <2>1, <3>1, ElementsFinite
    <3> QED
      BY <3>2 DEF Stretch
  <2>5. Sayings[n].to > r.from /\ Sayings[n].from < r.to
    BY <2>1, <2>2, <2>3, <2>4
  <2>6. r.from < r.to
    BY <2>1, <2>3, <2>4
  <2> QED
    BY <2>1, <2>2, <2>5, <2>6 DEF Shown
<1> QED
  BY <1>1, LinesLookedUp DEF ReadAloud

\* Of a list of plans the ones with ranges are cut, the others passed over.
LEMMA PlansShared ==
  ASSUME NEW plans \in Seq(Plan)
  PROVE  /\ Cut(plans) \in Seq(Plan) /\ Bare(plans) \in Seq(Plan)
         /\ \A p \in ToSet(Cut(plans)) : p \in ToSet(plans) /\ p.ranges # <<>>
         /\ \A p \in ToSet(Bare(plans)) : p \in ToSet(plans) /\ p.ranges = <<>>
         /\ Len(Cut(plans)) + Len(Bare(plans)) = Len(plans)
<1> DEFINE S == {p \in ToSet(plans) : p.ranges # <<>>}
           R == {p \in ToSet(plans) : p.ranges = <<>>}
<1>1. Cut(plans) = Kept(plans, S) /\ Bare(plans) = Kept(plans, R)
  BY Zenon DEF Cut, Bare
<1>2. Kept(plans, S) \in Seq(ToSet(plans) \cap S) /\ Kept(plans, R) \in Seq(ToSet(plans) \cap R)
  BY KeptIs
<1>3. Len(Kept(plans, S)) + Len(Kept(plans, R)) = Len(plans)
  <2>1. \A x \in ToSet(plans) : x \in S <=> x \notin R
    OBVIOUS
  <2> HIDE DEF S, R
  <2> QED
    BY <2>1, KeptSplit
<1>4. ToSet(plans) \subseteq Plan
  BY ElementsFinite
<1>5. ToSet(Kept(plans, S)) \subseteq ToSet(plans) \cap S /\ ToSet(Kept(plans, R)) \subseteq ToSet(plans) \cap R
  BY <1>2, ElementsFinite
<1>6. Kept(plans, S) \in Seq(Plan) /\ Kept(plans, R) \in Seq(Plan)
  <2>1. ToSet(plans) \cap S \subseteq Plan /\ ToSet(plans) \cap R \subseteq Plan
    BY <1>4
  <2> QED
    BY <1>2, <2>1, SeqMonotonic
<1> QED
  BY <1>1, <1>3, <1>5, <1>6

\* What is rendered is what was chosen, and where nothing moved no line lacks
\* its translation.
LEMMA FilmIsMeant ==
  ASSUME ProjectHolds, NEW r, OrderHolds(r), StillMeant(r), r.state = "queued", NEW tally \in Tallies
  PROVE  FilmHolds([r EXCEPT !.state = "ended"], Film(r.pick, tally))
<1> DEFINE pick == r.pick
           ideas == IF pick = Timeline THEN NoFilm ELSE pick_ideas(pick)
           fallback == IF wants.subtitles THEN Shown(RangesOf(pick)) \ translated ELSE {}
           missing == IF wants.voice THEN ReadAloud(RangesOf(pick)) \ translated ELSE {}
           film == [shorts |-> ideas.shorts, youtube |-> Cut(ideas.youtube), bare |-> Bare(ideas.youtube),
                    skipped |-> ideas.skipped, counted |-> tally,
                    fallback |-> fallback, missing |-> missing]
           s == [r EXCEPT !.state = "ended"]
<1>1. /\ draft \in Suggestions /\ clips \in RangeLists /\ translated \subseteq TheLines
  BY DEF ProjectHolds
<1>2. r.seen \in Suggestions /\ (pick = Timeline \/ pick \in PicksOf(r.seen)) /\ r.moved \in BOOLEAN
  BY DEF OrderHolds
<1>3. /\ r.seen.gen <= draft.gen
      /\ r.seen.gen = draft.gen => r.seen = draft
      /\ ~r.moved => r.seen = draft /\ pick \in HoleFree
  BY DEF StillMeant
<1>4. s.state = "ended" /\ s.pick = pick /\ s.seen = r.seen /\ s.moved = r.moved
  BY DEF OrderHolds
<1>5. RangesOf(pick) \in RangeLists
  BY <1>1, <1>2, RangesOfAre DEF AnyPick
<1>6. /\ Shown(RangesOf(pick)) \subseteq lines_used(RangesOf(pick)) /\ lines_used(RangesOf(pick)) \subseteq TheLines
      /\ ReadAloud(RangesOf(pick)) \cap OverTime \subseteq lines_used(RangesOf(pick)) /\ ReadAloud(RangesOf(pick)) \subseteq TheLines
  BY <1>5, LinesLookedUp, ReadIsUsed
<1>7. fallback \subseteq TheLines \ translated /\ fallback \cup missing \subseteq TheLines
  BY <1>6
<1>8. ~r.moved => fallback \cup (missing \cap OverTime) = {}
  <2> SUFFICES ASSUME ~r.moved, translation_uses
               PROVE  /\ Shown(RangesOf(pick)) \ translated = {}
                      /\ (ReadAloud(RangesOf(pick)) \ translated) \cap OverTime = {}
    BY DEF translation_uses
  <2>1. translation_holes(RangesOf(pick)) = {}
    BY <1>3 DEF HoleFree
  <2>2. lines_used(RangesOf(pick)) \ translated = {}
    BY <2>1 DEF translation_holes
  <2> QED
    BY <1>6, <2>2
<1>9. tally >= Cardinality(fallback)
  <2>1. IsFiniteSet(TheLines)
    BY ChoiceAssumption DEF TheLines
  <2>2. IsFiniteSet(TheLines \ translated)
    BY <2>1, FS_Subset
  <2>3. CASE wants.subtitles
    <3>1. tally = Cardinality(TheLines \ translated)
      BY <2>3 DEF Tallies
    <3> HIDE DEF fallback
    <3>2. IsFiniteSet(fallback) /\ Cardinality(fallback) <= Cardinality(TheLines \ translated)
      BY <1>7, <2>2, FS_Subset
    <3>3. Cardinality(fallback) \in Nat /\ Cardinality(TheLines \ translated) \in Nat
      BY <2>2, <3>2, FS_CardinalityType
    <3> QED
      BY <3>1, <3>2, <3>3
  <2>4. CASE ~wants.subtitles
    <3>1. fallback = {} /\ Cardinality({}) = 0
      BY <2>4, FS_EmptySet
    <3>2. Cardinality(fallback) = 0
      BY <3>1
    <3>3. tally \in {Cardinality(TheLines \ translated), 0}
      BY <2>4 DEF Tallies
    <3>4. Cardinality(TheLines \ translated) \in Nat
      BY <2>2, FS_CardinalityType
    <3> HIDE DEF fallback
    <3> QED
      BY <3>2, <3>3, <3>4
  <2> QED
    BY <2>3, <2>4
<1>10. Film(pick, tally) = IF (IF pick = Timeline THEN clips = <<>> ELSE Nothing(ideas)) THEN NoFilm ELSE film
  BY Zenon DEF Film
<1> HIDE DEF fallback, missing, s
<1>11. FilmHolds(s, NoFilm)
  BY NoFilmHolds
<1>12. film.shorts = ideas.shorts /\ film.youtube = Cut(ideas.youtube) /\ film.bare = Bare(ideas.youtube)
       /\ film.skipped = ideas.skipped /\ film.counted = tally
       /\ film.fallback = fallback /\ film.missing = missing
  OBVIOUS
<1> HIDE DEF film
<1>13. /\ film.fallback \cup film.missing \subseteq TheLines
       /\ film.fallback \cup (film.missing \cap OverTime) # {} => r.moved
       /\ film.counted >= Cardinality(film.fallback)
  BY <1>7, <1>8, <1>9, <1>12
<1>14. CASE pick = Timeline
  <2>1. s.pick.what = "timeline"
    BY <1>4, <1>14 DEF Timeline, All
  <2>2. s.pick.what # "ideas"
    BY <2>1
  <2>3. FilmHolds(s, film)
    BY <1>4, <1>13, <2>2 DEF FilmHolds
  <2> QED
    BY <1>10, <1>11, <1>14, <2>3 DEF s
<1>15. CASE pick # Timeline
  <2>1. pick \in PicksOf(r.seen) /\ ideas = pick_ideas(pick)
    BY <1>2, <1>15
  <2> HIDE DEF ideas, pick
  <2>2. /\ ideas.youtube \in Seq(Plan) /\ ideas.shorts \in Seq(Idea) /\ ideas.skipped \in Int
        /\ ~pick.shorts.every =>
             \A x \in ToSet(ideas.shorts) : x \in ToSet(draft.shorts) /\ x.id \in IdsOf(r.seen)
        /\ ~pick.youtube.every =>
             \A p \in ToSet(ideas.youtube) : \E c \in ToSet(pick.youtube.of) :
                 c.i \in DOMAIN draft.youtube /\ p = draft.youtube[c.i] /\ p.title = c.title
        /\ ~pick.shorts.every /\ ~pick.youtube.every =>
             Len(ideas.shorts) + Len(ideas.youtube) + ideas.skipped
               = Len(pick.shorts.of) + Len(pick.youtube.of)
    BY <1>1, <2>1, IdeasPicked
  <2>3. /\ Cut(ideas.youtube) \in Seq(Plan) /\ Bare(ideas.youtube) \in Seq(Plan)
        /\ \A p \in ToSet(film.youtube) : p \in ToSet(ideas.youtube) /\ p.ranges # <<>>
        /\ \A p \in ToSet(film.bare) : p \in ToSet(ideas.youtube) /\ p.ranges = <<>>
        /\ Len(film.youtube) + Len(film.bare) = Len(ideas.youtube)
    BY <1>12, <2>2, PlansShared
  <2>4. ~pick.shorts.every => ToSet(film.shorts) \subseteq ToSet(r.seen.shorts)
    <3> SUFFICES ASSUME ~pick.shorts.every, NEW x \in ToSet(film.shorts) PROVE x \in ToSet(r.seen.shorts)
      OBVIOUS
    <3>1. x \in ToSet(draft.shorts) /\ x.id \in IdsOf(r.seen)
      BY <1>12, <2>2
    <3>2. x.id[1] = draft.gen /\ x.id[1] = r.seen.gen
      BY <1>1, <1>2, <3>1, SuggestionsAre
    <3> QED
      BY <1>3, <3>1, <3>2
  <2>5. ~pick.youtube.every =>
          \A p \in ToSet(film.youtube) \cup ToSet(film.bare) : \E c \in ToSet(pick.youtube.of) :
              p = r.seen.youtube[c.i] \/ (r.moved /\ p.title = c.title)
    <3> SUFFICES ASSUME ~pick.youtube.every, NEW p \in ToSet(film.youtube) \cup ToSet(film.bare)
                 PROVE  \E c \in ToSet(pick.youtube.of) : p = r.seen.youtube[c.i] \/ (r.moved /\ p.title = c.title)
      OBVIOUS
    <3>1. p \in ToSet(ideas.youtube)
      BY <2>3
    <3>2. PICK c \in ToSet(pick.youtube.of) : p = draft.youtube[c.i] /\ p.title = c.title
      BY <2>2, <3>1
    <3> QED
      BY <1>3, <3>2
  <2>6. ~pick.shorts.every /\ ~pick.youtube.every =>
          Len(film.shorts) + Len(film.youtube) + Len(film.bare) + film.skipped
            = Len(pick.shorts.of) + Len(pick.youtube.of)
    <3> SUFFICES ASSUME ~pick.shorts.every, ~pick.youtube.every
                 PROVE  Len(film.shorts) + Len(film.youtube) + Len(film.bare) + film.skipped
                          = Len(pick.shorts.of) + Len(pick.youtube.of)
      OBVIOUS
    <3> DEFINE a == Len(film.shorts)
               b == Len(film.youtube)
               c == Len(film.bare)
    <3>1. a \in Nat /\ b \in Nat /\ c \in Nat
      BY <1>12, <2>2, <2>3, LenProperties
    <3>2. a + (b + c) + film.skipped = Len(pick.shorts.of) + Len(pick.youtube.of) /\ film.skipped = ideas.skipped
      BY <1>12, <2>2, <2>3
    <3>3. film.skipped \in Int
      BY <1>12, <2>2
    <3> HIDE DEF a, b, c
    <3>4. a + b + c + film.skipped = a + (b + c) + film.skipped
      BY <3>1, <3>3
    <3> QED
      BY <3>2, <3>4 DEF a, b, c
  <2>7. s.state = "ended" /\ s.pick = pick /\ s.seen = r.seen /\ s.moved = r.moved
    BY <1>4 DEF pick
  <2>8. FilmHolds(s, film)
    BY <1>13, <2>3, <2>4, <2>5, <2>6, <2>7 DEF FilmHolds
  <2> QED
    BY <1>10, <1>11, <2>8 DEF s, pick
<1> QED
  BY <1>14, <1>15

LEMMA RenderedKeeps ==
  ASSUME ChoiceInv, NEW o \in Orders, Rendered(o)
  PROVE  ChoiceInv'
<1> DEFINE r == orders[o]
           s == [r EXCEPT !.state = "ended"]
<1>0. PICK tally \in Tallies : films' = [films EXCEPT ![o] = Film(r.pick, tally)]
  BY DEF Rendered
<1> DEFINE film == Film(r.pick, tally)
<1>1. /\ r.state = "queued" /\ orders' = [orders EXCEPT ![o].state = "ended"]
      /\ films' = [films EXCEPT ![o] = film]
      /\ draft' = draft /\ clips' = clips /\ translated' = translated /\ wants' = wants /\ turns' = turns
  BY <1>0, Zenon DEF Rendered
<1>2. ProjectHolds /\ OrderHolds(r) /\ StillMeant(r)
  BY DEF ChoiceInv
<1>3. FilmHolds(s, film)
  BY <1>1, <1>2, FilmIsMeant
<1> HIDE DEF film
<1>4. /\ orders'[o] = s /\ films'[o] = film
      /\ \A q \in Orders : q # o => orders'[q] = orders[q] /\ films'[q] = films[q]
  BY <1>1, <1>2 DEF ProjectHolds
<1>5. ProjectHolds'
  <2>1. orders' = [q \in Orders |-> orders'[q]] /\ films' = [q \in Orders |-> films'[q]]
    BY <1>1, <1>2 DEF ProjectHolds
  <2> QED
    BY <1>1, <1>2, <2>1 DEF ProjectHolds
<1>6. s = [state |-> "ended", pick |-> r.pick, key |-> r.key, seen |-> r.seen, moved |-> r.moved]
  BY <1>2 DEF OrderHolds
<1>7. /\ s.state = "ended" /\ s.pick = r.pick /\ s.key = r.key /\ s.seen = r.seen /\ s.moved = r.moved
      /\ s = [state |-> s.state, pick |-> s.pick, key |-> s.key, seen |-> s.seen, moved |-> s.moved]
  BY <1>6
<1> HIDE DEF s, r
<1>8. OrderHolds(s)
  BY <1>1, <1>2, <1>7 DEF OrderHolds
<1>9. StillMeant(orders[o])'
  BY <1>4, <1>7 DEF StillMeant
<1>10. OrderHolds(orders[o])' /\ FilmHolds(orders[o], films[o])'
  BY <1>3, <1>4, <1>8
<1>11. ASSUME NEW q \in Orders, q # o
       PROVE  (OrderHolds(orders[q]) /\ StillMeant(orders[q]) /\ FilmHolds(orders[q], films[q]))'
  BY <1>1, <1>4, <1>11, OthersStay
<1> QED
  BY <1>5, <1>9, <1>10, <1>11 DEF ChoiceInv

LEMMA ChoiceSteps == ChoiceInv /\ [ChoiceNext]_choiceVars => ChoiceInv'
<1> SUFFICES ASSUME ChoiceInv, [ChoiceNext]_choiceVars PROVE ChoiceInv'
  OBVIOUS
<1>1. draft \in Suggestions
  BY DEF ChoiceInv, ProjectHolds
<1>2. CASE Suggested
  BY <1>2, SuggestedKeeps
<1>3. CASE \/ Settled \/ LaidOut \/ Translated(TheLines)
           \/ Translated(lines_used(idea_ranges(draft))) \/ \E n \in TheLines : Corrected(n)
  BY <1>3, ProjectMoves
<1>4. ASSUME NEW o \in Orders, export_all(o) PROVE ChoiceInv'
  <2>1. Free(o) /\ \E pick \in Picks : Ordered(o, pick)
    BY <1>4 DEF export_all
  <2> QED
    BY <1>1, <2>1, PicksAre, OrderedKeeps
<1>5. ASSUME NEW o \in Orders, export_timeline(o) PROVE ChoiceInv'
  BY <1>5, OrderedKeeps DEF export_timeline
<1>6. ASSUME NEW o \in Orders, Rendered(o) PROVE ChoiceInv'
  BY <1>6, RenderedKeeps
<1>7. CASE UNCHANGED choiceVars
  <2>1. UNCHANGED <<draft, clips, translated, wants>> /\ turns' = turns /\ orders' = orders /\ films' = films
    BY <1>7 DEF choiceVars
  <2>2. \A o \in Orders : (OrderHolds(orders[o]) /\ StillMeant(orders[o]) /\ FilmHolds(orders[o], films[o]))'
    BY <2>1, OthersStay
  <2>3. ProjectHolds'
    BY <2>1 DEF ChoiceInv, ProjectHolds
  <2> QED
    BY <2>2, <2>3 DEF ChoiceInv
<1> QED
  BY <1>2, <1>3, <1>4, <1>5, <1>6, <1>7 DEF ChoiceNext

LEMMA ChoiceInvariant == ChoiceSpec => []ChoiceInv
  BY ChoiceBegins, ChoiceSteps, PTL DEF ChoiceSpec

\* The project, the orders and the films hold values of their types, whatever
\* is suggested, corrected, translated and exported (exports.py, ideas.py).
THEOREM ChoiceTypeCorrect == ChoiceSpec => []ChoiceTypeOK
BY ChoiceInvariant, ChoiceShows, PTL

\* An export renders what was chosen, names what is no longer there (pick_ideas)
\* and leaves out, unnamed, only plans with no ranges (render_all_ideas); and a
\* line that takes time goes out untranslated only where the project was changed
\* after the export was asked for (lines_used, translation_holes, lines_in), the
\* ones on screen among those tally (subtitle_segments).
THEOREM ExportsAreAsAsked == ChoiceSpec => []ExportIsAsAsked
BY ChoiceInvariant, ChoiceShows, PTL
=============================================================================

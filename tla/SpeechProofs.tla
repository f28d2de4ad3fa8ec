---------------------------- MODULE SpeechProofs ----------------------------
(***************************************************************************)
(* How speech becomes requests and a transcript, for every recording:      *)
(* where it is cut (Chunking), and, where a voice is detected, how its     *)
(* regions are grouped and the answers told in segments (SpokenWords).     *)
(*                                                                         *)
(* What a loop computes is told from its states where it is a step of the  *)
(* specification (the cuts), and by induction over its positions where it  *)
(* is one recursive function (the groups, the shares of an answer):        *)
(* LoopExists says that the function has values, EveryPosition that a      *)
(* property holds of them all.                                             *)
(*                                                                         *)
(* SpokenInv follows a recording along its route: the requests cover its   *)
(* speech and follow one another (InRequests); what was answered so far is *)
(* what the segments, and the one being collected, say, each in the time   *)
(* of the request or under the speaker it is of.                           *)
(***************************************************************************)
EXTENDS SpokenWords, FiniteSetTheorems, SequenceTheorems, WellFoundedInduction, TLAPS

\* A set of natural numbers has a least element.
LEMMA Least ==
  ASSUME NEW T, T \subseteq Nat, T # {}
  PROVE  \E x \in T : \A y \in T : x <= y
<1>1. IsWellFoundedOn(OpToRel(<, Nat), Nat)
  BY NatLessThanWellFounded
<1>2. PICK x \in T : \A y \in T : ~(<<y, x>> \in OpToRel(<, Nat))
  BY <1>1, WFMin
<1>3. \A y \in T : ~(y < x)
  BY <1>2 DEF OpToRel
<1> QED
  BY <1>3

\* A set of positions that holds 0 and, with each, the next, holds them all.
LEMMA EveryPosition ==
  ASSUME NEW n \in Nat, NEW good, 0 \in good,
         \A k \in 1 .. n : k - 1 \in good => k \in good
  PROVE  0 .. n \subseteq good
<1> DEFINE bad == (0 .. n) \ good
<1>1. SUFFICES ASSUME bad # {} PROVE FALSE
  OBVIOUS
<1>2. PICK k \in bad : \A j \in bad : k <= j
  <2>1. bad \subseteq Nat
    OBVIOUS
  <2> HIDE DEF bad
  <2> QED
    BY <1>1, <2>1, Least
<1>3. k \in 1 .. n /\ k - 1 \notin bad
  BY <1>2
<1> QED
  BY <1>3

\* A loop that starts with a and goes on from x to step[k][x] has a value at
\* every position.
Loops(f, S, a, n, step) ==
    f \in [0 .. n -> S] /\ f[0] = a /\ \A k \in 1 .. n : f[k] = step[k][f[k - 1]]

LEMMA LoopExists ==
  ASSUME NEW S, NEW a \in S, NEW n \in Nat, NEW step \in [1 .. n -> [S -> S]]
  PROVE  \E f : Loops(f, S, a, n, step)
<1> DEFINE Runs(f, m) == f \in [0 .. m -> S] /\ f[0] = a /\ \A k \in 1 .. m : f[k] = step[k][f[k - 1]]
           good == {m \in 0 .. n : \E f : Runs(f, m)}
<1>1. 0 \in good
  <2> DEFINE f == [k \in 0 .. 0 |-> a]
  <2>1. Runs(f, 0) /\ 0 \in 0 .. n
    OBVIOUS
  <2> HIDE DEF f, Runs
  <2> QED
    BY <2>1
<1>2. ASSUME NEW m \in 1 .. n, m - 1 \in good PROVE m \in good
  <2>1. PICK f : Runs(f, m - 1)
    BY <1>2
  <2> DEFINE g == [k \in 0 .. m |-> IF k = m THEN step[m][f[m - 1]] ELSE f[k]]
  <2>2. step[m] \in [S -> S] /\ f[m - 1] \in S
    BY <2>1
  <2>3. g \in [0 .. m -> S] /\ g[0] = a
    BY <2>1, <2>2
  <2>4. ASSUME NEW k \in 1 .. m PROVE g[k] = step[k][g[k - 1]]
    BY <2>1
  <2>5. Runs(g, m)
    BY <2>3, <2>4
  <2>6. m \in 0 .. n
    OBVIOUS
  <2> HIDE DEF g, Runs
  <2> QED
    BY <2>5, <2>6
<1> HIDE DEF good
<1>3. \A k \in 1 .. n : k - 1 \in good => k \in good
  BY <1>2
<1>4. 0 .. n \subseteq good
  BY <1>1, <1>3, EveryPosition
<1>5. n \in good
  BY <1>4
<1> QED
  BY <1>5 DEF good, Loops

LEMMA Counting == ASSUME NEW n \in Nat PROVE IsFiniteSet(1 .. n) /\ Cardinality(1 .. n) = n
<1>1. 1 \in Int /\ n \in Int /\ (1 > n => n = 0) /\ n - 1 + 1 = n
  OBVIOUS
<1>2. IsFiniteSet(1 .. n) /\ Cardinality(1 .. n) = IF 1 > n THEN 0 ELSE n - 1 + 1
  BY <1>1, FS_Interval
<1> QED
  BY <1>1, <1>2

LEMMA Element == ASSUME NEW S, NEW s \in Seq(S), NEW k \in DOMAIN s PROVE s[k] \in S
  OBVIOUS

LEMMA AppendedElement ==
  ASSUME NEW S, NEW s \in Seq(S), NEW x \in S, NEW a \in DOMAIN Append(s, x)
  PROVE  Append(s, x)[a] = x \/ (a \in DOMAIN s /\ Append(s, x)[a] = s[a])
<1>1. a \in 1 .. Len(s) + 1 /\ DOMAIN s = 1 .. Len(s) /\ Len(s) \in Nat
  OBVIOUS
<1> QED
  BY <1>1

-----------------------------------------------------------------------------
\* The chunks of a recording.  The invariant follows the loop: what is cut so
\* far is a chain from 0 to start, and each chunk fits until the list is
\* returned.

Lasting(k) == boundaries[k].to - boundaries[k].from

\* Each chunk takes over where the one before it stopped.
JoinedUp ==
    \A k \in 1 .. Len(boundaries) - 1 :
        /\ boundaries[k + 1].from \in {boundaries[k].to, boundaries[k].to - overlap_sec}
        /\ boundaries[k].from < boundaries[k + 1].from

\* A chunk shorter than the floor is one its predecessor could not take.
PackedFull ==
    \A k \in 2 .. Len(boundaries) :
        Lasting(k) < min_chunk_sec => boundaries[k].to - boundaries[k - 1].from > max_chunk_sec

\* Where the loop stands: start is the end of the last chunk, or lies the
\* overlap before it, and then the cut point is still beyond that end.
AtStart ==
    /\ start \in {Latest.to, Latest.to - overlap_sec}
    /\ Latest.from < start
    /\ Latest.to <= recording.total
    /\ Cutting => start = Latest.to \/ cp > Latest.to

Begun == /\ boundaries # <<>> => boundaries[1].from = 0
         /\ ~done => (IF boundaries = <<>> THEN start = 0 ELSE AtStart)

Ended == ~Cutting => /\ boundaries # <<>>
                     /\ Latest.to = recording.total

Sized == /\ ~done => \A k \in DOMAIN boundaries : Lasting(k) <= max_chunk_sec
         /\ done => \A k \in DOMAIN boundaries :
                \/ Lasting(k) <= max_chunk_sec
                \/ k = 1 /\ Lasting(k) < max_chunk_sec + min_chunk_sec

IInv == /\ TypeOK
        /\ next <= Len(recording.cuts) + 1
        /\ done => ~Cutting
        /\ JoinedUp
        /\ PackedFull
        /\ Begun
        /\ Ended
        /\ Sized

-----------------------------------------------------------------------------
\* Two chunks a..b and c..d that meet or overlap, as one.
LEMMA Together ==
  ASSUME NEW a \in Nat, NEW b \in Nat, NEW c \in Nat, NEW d \in Nat,
         NEW limit \in Nat, NEW floor \in Nat,
         b - a < floor, d - c <= limit, c <= b
  PROVE  d - a < limit + floor
  OBVIOUS

\* What the other proofs need to know of a sequence of chunks.
LEMMA Chunks ==
  ASSUME NEW s \in Seq(Chunk)
  PROVE  /\ Len(s) \in Nat /\ DOMAIN s = 1 .. Len(s)
         /\ \A k \in 1 .. Len(s) : s[k].from \in Nat /\ s[k].to \in Nat
         /\ s # <<>> => Len(s) \in 1 .. Len(s)
<1>1. Len(s) \in Nat /\ DOMAIN s = 1 .. Len(s) /\ \A k \in 1 .. Len(s) : s[k] \in Chunk
  OBVIOUS
<1>2. s # <<>> => Len(s) # 0
  OBVIOUS
<1> QED
  BY <1>1, <1>2 DEF Chunk

LEMMA RecordingCuts ==
  ASSUME IsRecording(recording)
  PROVE  /\ recording.total \in Nat \ {0}
         /\ Len(recording.cuts) \in Nat \ {0}
         /\ \A k \in 1 .. Len(recording.cuts) : recording.cuts[k] \in 1 .. recording.total
         /\ recording.cuts[Len(recording.cuts)] = recording.total
  BY DEF IsRecording

LEMMA Initially == Init => IInv
<1> SUFFICES ASSUME Init PROVE IInv
  OBVIOUS
<1>1. IsRecording(recording) /\ Cutting
  BY ChunkingAssumption DEF Init, IsRecording, Cutting
<1>2. TypeOK /\ next <= Len(recording.cuts) + 1
  <2>1. <<>> \in Seq(Chunk)
    OBVIOUS
  <2>2. Len(recording.cuts) \in Nat
    BY <1>1, RecordingCuts
  <2>3. next <= Len(recording.cuts) + 1
    BY <2>2 DEF Init
  <2>4. TypeOK
    <3>1. next \in Nat \ {0} /\ start \in Nat
      BY DEF Init
    <3>2. boundaries \in Seq(Chunk) /\ done \in BOOLEAN
      BY <2>1 DEF Init
    <3> QED
      BY <1>1, <3>1, <3>2 DEF TypeOK
  <2> QED
    BY <2>3, <2>4
<1>3. Len(boundaries) = 0 /\ DOMAIN boundaries = {}
  BY DEF Init
<1> QED
  BY <1>1, <1>2, <1>3 DEF Init, IInv, JoinedUp, PackedFull, Begun, Ended, Sized

LEMMA SkipKeeps == IInv /\ SkipCut => IInv'
<1> SUFFICES ASSUME IInv, SkipCut PROVE IInv'
  OBVIOUS
<1> USE ChunkingAssumption
<1>1. TypeOK' /\ next' <= Len(recording'.cuts) + 1 /\ (done' => ~Cutting')
  BY DEF IInv, TypeOK, IsRecording, SkipCut, Cutting
<1>2. JoinedUp' /\ PackedFull' /\ Sized'
  BY DEF IInv, SkipCut, JoinedUp, PackedFull, Sized, Lasting
<1>3. cp \in 1 .. recording.total /\ ~done /\ boundaries # <<>>
  BY DEF IInv, TypeOK, IsRecording, SkipCut, Cutting, cp, Begun
<1>4. AtStart /\ start = Latest.to
  <2>1. AtStart
    BY <1>3 DEF IInv, Begun
  <2>2. Latest.to \in Int
    BY <1>3, Chunks DEF IInv, TypeOK, Latest
  <2> QED
    BY <2>1, <2>2, <1>3 DEF AtStart, SkipCut, IInv, TypeOK
<1>5. Begun'
  BY <1>3, <1>4 DEF IInv, Begun, AtStart, SkipCut, Latest
<1>6. Ended'
  <2> SUFFICES ASSUME ~Cutting' PROVE Latest.to = recording.total
    BY <1>3 DEF Ended, SkipCut, Latest
  <2>1. cp = recording.total
    BY DEF IInv, TypeOK, IsRecording, SkipCut, Cutting, cp
  <2>2. Latest.to \in Int /\ recording.total \in Int
    BY <1>3, Chunks, RecordingCuts DEF IInv, TypeOK, Latest
  <2> QED
    BY <1>4, <2>1, <2>2 DEF AtStart, SkipCut, IInv, TypeOK
<1> QED
  BY <1>1, <1>2, <1>5, <1>6 DEF IInv

LEMMA Appended ==
  ASSUME NEW s \in Seq(Chunk), NEW c \in Chunk
  PROVE  /\ Append(s, c) \in Seq(Chunk)
         /\ Append(s, c) # <<>>
         /\ Len(Append(s, c)) = Len(s) + 1
         /\ \A k \in 1 .. Len(s) : Append(s, c)[k] = s[k]
         /\ Append(s, c)[Len(s) + 1] = c
<1>1. /\ Append(s, c) \in Seq(Chunk)
      /\ Len(Append(s, c)) = Len(s) + 1
      /\ \A k \in 1 .. Len(s) : Append(s, c)[k] = s[k]
      /\ Append(s, c)[Len(s) + 1] = c
  OBVIOUS
<1>2. Append(s, c) # <<>>
  BY <1>1, Chunks
<1> QED
  BY <1>1, <1>2

\* A chunk that begins at start and fits, appended while the loop runs.
LEMMA AppendKeeps ==
  ASSUME IInv, ~done, ~done', NEW c \in Chunk,
         boundaries' = Append(boundaries, c),
         c.from = start, c.to - c.from <= max_chunk_sec,
         boundaries # <<>> /\ c.to - c.from < min_chunk_sec
             => c.to - Latest.from > max_chunk_sec
  PROVE  /\ boundaries' \in Seq(Chunk) /\ boundaries' # <<>>
         /\ Latest' = c
         /\ boundaries'[1].from = 0
         /\ JoinedUp' /\ PackedFull' /\ Sized'
<1> DEFINE n == Len(boundaries)
<1>1. /\ boundaries \in Seq(Chunk) /\ start \in Nat
      /\ max_chunk_sec \in Nat /\ min_chunk_sec \in Nat /\ overlap_sec \in Nat
  BY ChunkingAssumption DEF IInv, TypeOK
<1>2. /\ n \in Nat /\ DOMAIN boundaries = 1 .. n
      /\ \A k \in 1 .. n : boundaries[k].from \in Nat /\ boundaries[k].to \in Nat
      /\ boundaries # <<>> => n \in 1 .. n
  BY <1>1, Chunks
<1>3. /\ boundaries' \in Seq(Chunk) /\ boundaries' # <<>>
      /\ Len(boundaries') = n + 1 /\ DOMAIN boundaries' = 1 .. n + 1
      /\ \A k \in 1 .. n : boundaries'[k] = boundaries[k]
      /\ boundaries'[n + 1] = c
  BY <1>1, Appended, Chunks
<1>4. c.from \in Nat /\ c.to \in Nat
  BY DEF Chunk
<1>5. CASE n = 0
  <2>1. boundaries = <<>>
    BY <1>1, <1>5
  <2>2. start = 0
    BY <2>1 DEF IInv, Begun
  <2> QED
    BY <1>1, <1>3, <1>4, <1>5, <2>2 DEF Latest, JoinedUp, PackedFull, Sized, Lasting
<1>6. CASE n # 0
  <2>1. boundaries # <<>> /\ n \in 1 .. n
    BY <1>1, <1>2, <1>6
  <2>2. /\ AtStart /\ boundaries[1].from = 0
        /\ JoinedUp /\ PackedFull /\ \A k \in 1 .. n : Lasting(k) <= max_chunk_sec
    BY <1>2, <2>1 DEF IInv, Begun, Sized
  <2>3. Latest' = c /\ boundaries'[1].from = 0
    BY <1>2, <1>3, <2>1, <2>2 DEF Latest
  <2>4. JoinedUp'
    <3> SUFFICES ASSUME NEW k \in 1 .. n
                 PROVE  /\ boundaries'[k + 1].from \in {boundaries'[k].to, boundaries'[k].to - overlap_sec}
                        /\ boundaries'[k].from < boundaries'[k + 1].from
      BY <1>2, <1>3 DEF JoinedUp
    <3>1. CASE k = n
      <4>1. boundaries'[k] = Latest /\ boundaries'[k + 1].from = start
        BY <1>2, <1>3, <2>1, <3>1 DEF Latest
      <4>2. start \in {Latest.to, Latest.to - overlap_sec} /\ Latest.from < start
        BY <2>2 DEF AtStart
      <4> QED
        BY <4>1, <4>2
    <3>2. CASE k # n
      <4>1. k \in 1 .. n - 1 /\ k + 1 \in 1 .. n
        <5>1. n \in Nat
          BY <1>2
        <5> QED
          BY <3>2, <5>1
      <4>2. boundaries'[k] = boundaries[k] /\ boundaries'[k + 1] = boundaries[k + 1]
        BY <1>3, <4>1
      <4> QED
        BY <2>2, <4>1, <4>2 DEF JoinedUp
    <3> QED
      BY <3>1, <3>2
  <2>5. PackedFull'
    <3> SUFFICES ASSUME NEW k \in 2 .. n + 1,
                        boundaries'[k].to - boundaries'[k].from < min_chunk_sec
                 PROVE  boundaries'[k].to - boundaries'[k - 1].from > max_chunk_sec
      BY <1>2, <1>3 DEF PackedFull, Lasting
    <3>1. CASE k = n + 1
      BY <1>2, <1>3, <2>1, <3>1 DEF Latest
    <3>2. CASE k # n + 1
      BY <1>2, <1>3, <2>2, <3>2 DEF PackedFull, Lasting
    <3> QED
      BY <3>1, <3>2
  <2>6. Sized'
    BY <1>2, <1>3, <2>2 DEF Sized, Lasting
  <2> QED
    BY <1>3, <2>3, <2>4, <2>5, <2>6
<1> QED
  BY <1>2, <1>5, <1>6

LEMMA ForceKeeps == IInv /\ ForceCut => IInv'
<1> SUFFICES ASSUME IInv, ForceCut PROVE IInv'
  OBVIOUS
<1> DEFINE c == [from |-> start, to |-> start + max_chunk_sec]
<1>1. /\ boundaries \in Seq(Chunk) /\ start \in Nat /\ next \in Nat \ {0}
      /\ max_chunk_sec \in Nat /\ min_chunk_sec \in Nat /\ overlap_sec \in Nat
      /\ overlap_sec < max_chunk_sec
      /\ IsRecording(recording) /\ Cutting /\ ~done
  BY ChunkingAssumption DEF IInv, TypeOK, ForceCut
<1>2. /\ cp \in 1 .. recording.total /\ recording.total \in Nat
      /\ cp - start > max_chunk_sec
  BY <1>1, RecordingCuts DEF ForceCut, Cutting, cp
<1>3. /\ c \in Chunk /\ c.from = start /\ c.to = start + max_chunk_sec
      /\ c.to - c.from = max_chunk_sec
  BY <1>1 DEF Chunk
<1>4. /\ boundaries' = Append(boundaries, c) /\ start' = c.to - overlap_sec
      /\ UNCHANGED <<recording, next, done>>
  BY <1>1, <1>3 DEF ForceCut, forced_cut_step
<1>5. boundaries # <<>> /\ c.to - c.from < min_chunk_sec => c.to - Latest.from > max_chunk_sec
  <2> SUFFICES ASSUME boundaries # <<>> PROVE c.to - Latest.from > max_chunk_sec
    OBVIOUS
  <2>1. Latest.from < start /\ Latest.from \in Nat
    BY <1>1, Chunks DEF IInv, Begun, AtStart, Latest
  <2> QED
    BY <1>1, <1>3, <2>1
<1>6. /\ boundaries' \in Seq(Chunk) /\ boundaries' # <<>> /\ Latest' = c
      /\ boundaries'[1].from = 0 /\ JoinedUp' /\ PackedFull' /\ Sized'
  <2> HIDE DEF c
  <2>1. c.to - c.from <= max_chunk_sec
    BY <1>1, <1>3
  <2> QED
    BY <1>1, <1>3, <1>4, <1>5, <2>1, AppendKeeps
<1>7. start' \in Nat /\ c.from < start' /\ c.to <= recording.total /\ cp > c.to
  BY <1>1, <1>2, <1>3, <1>4
<1>8. Cutting' /\ cp' = cp
  BY <1>1, <1>4 DEF Cutting, cp
<1>9. TypeOK' /\ next' <= Len(recording'.cuts) + 1 /\ (done' => ~Cutting')
  BY <1>1, <1>4, <1>6, <1>7 DEF IInv, TypeOK, IsRecording
<1>10. Begun' /\ Ended'
  BY <1>4, <1>6, <1>7, <1>8 DEF Begun, Ended, AtStart
<1> QED
  BY <1>6, <1>9, <1>10 DEF IInv

\* The last chunk stretched to the cut point, where a short piece is folded.
LEMMA StretchKeeps ==
  ASSUME IInv, ~done, ~done', boundaries # <<>>, cp \in Nat,
         cp > start, cp - Latest.from <= max_chunk_sec,
         start = Latest.to \/ cp > Latest.to,
         boundaries' = [boundaries EXCEPT ![Len(boundaries)].to = cp]
  PROVE  /\ boundaries' \in Seq(Chunk) /\ boundaries' # <<>>
         /\ Latest'.from = Latest.from /\ Latest'.to = cp
         /\ boundaries'[1].from = 0
         /\ JoinedUp' /\ PackedFull' /\ Sized'
<1> DEFINE n == Len(boundaries)
<1>1. /\ boundaries \in Seq(Chunk) /\ start \in Nat
      /\ max_chunk_sec \in Nat /\ min_chunk_sec \in Nat /\ overlap_sec \in Nat
  BY ChunkingAssumption DEF IInv, TypeOK
<1>2. /\ n \in 1 .. n /\ n \in Nat /\ DOMAIN boundaries = 1 .. n
      /\ \A k \in 1 .. n : boundaries[k].from \in Nat /\ boundaries[k].to \in Nat
  BY <1>1, Chunks
<1>3. [boundaries[n] EXCEPT !.to = cp] \in Chunk
  <2>1. boundaries[n] \in Chunk
    BY <1>1, <1>2
  <2> QED
    BY <2>1 DEF Chunk
<1>4. /\ boundaries' \in Seq(Chunk) /\ Len(boundaries') = n /\ DOMAIN boundaries' = 1 .. n
      /\ \A k \in 1 .. n : boundaries'[k].from = boundaries[k].from
      /\ \A k \in 1 .. n : k # n => boundaries'[k] = boundaries[k]
      /\ boundaries'[n].to = cp
  BY <1>1, <1>2, <1>3 DEF Chunk
<1>5. boundaries' # <<>>
  BY <1>2, <1>4
<1>6. /\ AtStart /\ boundaries[1].from = 0
      /\ JoinedUp /\ PackedFull /\ \A k \in 1 .. n : Lasting(k) <= max_chunk_sec
      /\ Latest = boundaries[n] /\ Latest' = boundaries'[n]
  BY <1>2, <1>4 DEF IInv, Begun, Sized, Latest
<1>7. Latest'.from = Latest.from /\ Latest'.to = cp /\ boundaries'[1].from = 0
  BY <1>2, <1>4, <1>6
<1>8. JoinedUp'
  <2> SUFFICES ASSUME NEW k \in 1 .. n - 1
               PROVE  /\ boundaries'[k + 1].from \in {boundaries'[k].to, boundaries'[k].to - overlap_sec}
                      /\ boundaries'[k].from < boundaries'[k + 1].from
    BY <1>4 DEF JoinedUp
  <2>1. k \in 1 .. n /\ k # n /\ k + 1 \in 1 .. n
    BY <1>2
  <2> QED
    BY <1>4, <1>6, <2>1 DEF JoinedUp
<1>9. PackedFull'
  <2> SUFFICES ASSUME NEW k \in 2 .. n,
                      boundaries'[k].to - boundaries'[k].from < min_chunk_sec
               PROVE  boundaries'[k].to - boundaries'[k - 1].from > max_chunk_sec
    BY <1>4 DEF PackedFull, Lasting
  <2>1. k \in 1 .. n /\ k - 1 \in 1 .. n /\ k - 1 # n
    BY <1>2
  <2>2. CASE k = n
    <3>1. boundaries[k].to <= cp /\ boundaries[k].to \in Nat /\ boundaries[k].from \in Nat
      BY <1>1, <1>2, <1>6, <2>2
    <3>2. /\ boundaries'[k].to = cp /\ boundaries'[k].from = boundaries[k].from
          /\ boundaries'[k - 1].from = boundaries[k - 1].from
      BY <1>4, <2>1, <2>2
    <3>3. boundaries[k].to - boundaries[k].from < min_chunk_sec
      BY <1>1, <3>1, <3>2
    <3>4. boundaries[k].to - boundaries[k - 1].from > max_chunk_sec
      BY <1>6, <3>3 DEF PackedFull, Lasting
    <3>5. boundaries[k - 1].from \in Nat
      BY <1>2, <2>1
    <3> QED
      BY <1>1, <3>1, <3>2, <3>4, <3>5
  <2>3. CASE k # n
    <3>1. boundaries'[k] = boundaries[k] /\ boundaries'[k - 1].from = boundaries[k - 1].from
      BY <1>4, <2>1, <2>3
    <3> QED
      BY <1>6, <3>1 DEF PackedFull, Lasting
  <2> QED
    BY <2>2, <2>3
<1>10. Sized'
  <2> SUFFICES ASSUME NEW k \in 1 .. n
               PROVE  boundaries'[k].to - boundaries'[k].from <= max_chunk_sec
    BY <1>4 DEF Sized, Lasting
  <2> QED
    BY <1>2, <1>4, <1>6 DEF Lasting
<1> QED
  BY <1>4, <1>5, <1>7, <1>8, <1>9, <1>10

LEMMA CutKeeps == IInv /\ CutAtPause => IInv'
<1> SUFFICES ASSUME IInv, CutAtPause PROVE IInv'
  OBVIOUS
<1>1. /\ boundaries \in Seq(Chunk) /\ start \in Nat /\ next \in Nat \ {0}
      /\ max_chunk_sec \in Nat /\ min_chunk_sec \in Nat
      /\ IsRecording(recording) /\ Cutting /\ ~done
  BY ChunkingAssumption DEF IInv, TypeOK, CutAtPause
<1>2. /\ cp \in 1 .. recording.total /\ cp \in Nat /\ recording.total \in Nat
      /\ cp > start /\ cp - start <= max_chunk_sec
      /\ next = Len(recording.cuts) => cp = recording.total
      /\ Len(recording.cuts) \in Nat
  BY <1>1, RecordingCuts DEF CutAtPause, Cutting, cp
<1>3. start' = cp /\ next' = next + 1 /\ UNCHANGED <<recording, done>> /\ ~done'
  BY <1>1 DEF CutAtPause
<1>4. /\ boundaries' \in Seq(Chunk) /\ boundaries' # <<>>
      /\ Latest'.to = cp /\ Latest'.from < cp
      /\ boundaries'[1].from = 0
      /\ JoinedUp' /\ PackedFull' /\ Sized'
  <2>1. CASE FoldsBack
    <3>1. /\ boundaries # <<>> /\ AtStart /\ cp - Latest.from <= max_chunk_sec
          /\ Latest.from \in Nat
      BY <1>1, <2>1, Chunks DEF FoldsBack, IInv, Begun, Latest
    <3>2. boundaries' = [boundaries EXCEPT ![Len(boundaries)].to = cp]
      BY <2>1 DEF CutAtPause
    <3>3. /\ boundaries' \in Seq(Chunk) /\ boundaries' # <<>>
          /\ Latest'.from = Latest.from /\ Latest'.to = cp
          /\ boundaries'[1].from = 0
          /\ JoinedUp' /\ PackedFull' /\ Sized'
      BY <1>1, <1>2, <1>3, <3>1, <3>2, StretchKeeps DEF AtStart
    <3>4. Latest.from < cp
      BY <1>1, <1>2, <3>1 DEF AtStart
    <3> QED
      BY <3>3, <3>4
  <2>2. CASE ~FoldsBack
    <3> DEFINE c == [from |-> start, to |-> cp]
    <3>1. c \in Chunk /\ c.from = start /\ c.to = cp /\ boundaries' = Append(boundaries, c)
      BY <1>1, <1>2, <2>2 DEF CutAtPause, Chunk
    <3>2. boundaries # <<>> /\ c.to - c.from < min_chunk_sec => c.to - Latest.from > max_chunk_sec
      <4> SUFFICES ASSUME boundaries # <<>>, cp - start < min_chunk_sec
                   PROVE  cp - Latest.from > max_chunk_sec
        BY <3>1
      <4>1. ~(cp - Latest.from <= max_chunk_sec) /\ Latest.from \in Nat
        BY <1>1, <2>2, Chunks DEF FoldsBack, Latest
      <4> QED
        BY <1>1, <1>2, <4>1
    <3> HIDE DEF c
    <3>3. /\ boundaries' \in Seq(Chunk) /\ boundaries' # <<>>
          /\ Latest' = c
          /\ boundaries'[1].from = 0
          /\ JoinedUp' /\ PackedFull' /\ Sized'
      BY <1>1, <1>2, <1>3, <3>1, <3>2, AppendKeeps
    <3> QED
      BY <1>2, <3>1, <3>3
  <2> QED
    BY <2>1, <2>2
<1>5. TypeOK' /\ next' <= Len(recording'.cuts) + 1 /\ (done' => ~Cutting')
  <2>1. next' \in Nat \ {0} /\ next' <= Len(recording'.cuts) + 1
    BY <1>1, <1>2, <1>3 DEF Cutting
  <2>2. start' \in Nat /\ IsRecording(recording') /\ done' \in BOOLEAN
    BY <1>1, <1>2, <1>3 DEF IsRecording, IInv, TypeOK
  <2> QED
    BY <1>3, <1>4, <2>1, <2>2 DEF TypeOK, IsRecording
<1>6. Begun'
  <2>1. Latest'.to <= recording'.total
    BY <1>2, <1>3, <1>4
  <2> QED
    BY <1>2, <1>3, <1>4, <2>1 DEF Begun, AtStart
<1>7. Ended'
  <2> SUFFICES ASSUME ~Cutting' PROVE cp = recording.total
    BY <1>3, <1>4 DEF Ended
  <2>1. next = Len(recording.cuts)
    BY <1>1, <1>2, <1>3 DEF Cutting
  <2> QED
    BY <1>2, <2>1
<1> QED
  BY <1>4, <1>5, <1>6, <1>7 DEF IInv

LEMMA ReturnKeeps == IInv /\ Return => IInv'
<1> SUFFICES ASSUME IInv, Return PROVE IInv'
  OBVIOUS
<1> DEFINE n == Len(boundaries)
<1>1. /\ boundaries \in Seq(Chunk) /\ IsRecording(recording)
      /\ max_chunk_sec \in Nat /\ min_chunk_sec \in Nat /\ overlap_sec \in Nat
      /\ ~Cutting /\ ~done /\ done' = TRUE /\ UNCHANGED <<recording, next, start>>
  BY ChunkingAssumption DEF IInv, TypeOK, Return
<1>2. /\ n \in Nat /\ DOMAIN boundaries = 1 .. n
      /\ \A k \in 1 .. n : boundaries[k].from \in Nat /\ boundaries[k].to \in Nat
  BY <1>1, Chunks
<1>3. /\ boundaries # <<>> /\ n \in 1 .. n /\ boundaries[n].to = recording.total
      /\ boundaries[1].from = 0 /\ JoinedUp /\ PackedFull
      /\ \A k \in 1 .. n : Lasting(k) <= max_chunk_sec
  BY <1>1, <1>2, Chunks DEF IInv, Ended, Begun, Sized, Latest
<1>4. /\ boundaries' \in Seq(Chunk) /\ boundaries' # <<>> /\ boundaries'[1].from = 0
      /\ boundaries'[Len(boundaries')].to = recording.total
      /\ JoinedUp' /\ PackedFull' /\ Sized'
  <2>1. CASE ~ShortFirst
    <3>1. boundaries' = boundaries
      BY <2>1 DEF Return
    <3>2. JoinedUp' /\ PackedFull' /\ Sized'
      BY <1>1, <1>2, <1>3, <3>1 DEF JoinedUp, PackedFull, Sized, Lasting
    <3> QED
      BY <1>1, <1>3, <3>1, <3>2
  <2>2. CASE ShortFirst
    <3>1. /\ n > 1 /\ boundaries[1].to - boundaries[1].from < min_chunk_sec
          /\ boundaries' = [Tail(boundaries) EXCEPT ![1].from = boundaries[1].from]
      BY <2>2 DEF Return, ShortFirst
    <3>2. /\ Tail(boundaries) \in Seq(Chunk) /\ Len(Tail(boundaries)) = n - 1
          /\ \A k \in 1 .. n - 1 : Tail(boundaries)[k] = boundaries[k + 1]
      BY <1>1, <1>2, <3>1
    <3>3. [Tail(boundaries)[1] EXCEPT !.from = boundaries[1].from] \in Chunk
      <4>1. Tail(boundaries)[1] \in Chunk /\ boundaries[1].from \in Nat
        BY <1>2, <1>3, <3>1, <3>2
      <4> QED
        BY <4>1 DEF Chunk
    <3>4. /\ boundaries' \in Seq(Chunk) /\ Len(boundaries') = n - 1
          /\ DOMAIN boundaries' = 1 .. n - 1
          /\ \A k \in 1 .. n - 1 : boundaries'[k].to = boundaries[k + 1].to
          /\ \A k \in 2 .. n - 1 : boundaries'[k].from = boundaries[k + 1].from
          /\ boundaries'[1].from = boundaries[1].from
      <4> DEFINE t == Tail(boundaries)
                 m == [t[1] EXCEPT !.from = boundaries[1].from]
      <4>1. n - 1 \in Nat /\ 1 \in 1 .. n - 1 /\ DOMAIN t = 1 .. n - 1
        BY <1>1, <1>2, <3>1, <3>2
      <4>2. m.from = boundaries[1].from /\ m.to = t[1].to
        <5>1. t[1] \in Chunk
          BY <3>2, <4>1
        <5> QED
          BY <5>1 DEF Chunk
      <4>3. boundaries' = [t EXCEPT ![1] = m]
        BY <3>1
      <4> HIDE DEF t, m
      <4>4. t \in Seq(Chunk) /\ Len(t) = n - 1 /\ m \in Chunk
        BY <3>2, <3>3 DEF t, m
      <4>5. boundaries' \in Seq(Chunk) /\ Len(boundaries') = n - 1 /\ DOMAIN boundaries' = 1 .. n - 1
        BY <4>1, <4>3, <4>4
      <4>6. boundaries'[1] = m /\ \A k \in 1 .. n - 1 : k # 1 => boundaries'[k] = t[k]
        BY <4>1, <4>3
      <4>7. \A k \in 1 .. n - 1 : t[k] = boundaries[k + 1]
        BY <3>2 DEF t
      <4> QED
        BY <1>2, <4>1, <4>2, <4>5, <4>6, <4>7
    <3>5. boundaries' # <<>> /\ 1 \in 1 .. n - 1 /\ n - 1 \in 1 .. n - 1 /\ 2 \in 1 .. n
      BY <1>2, <3>1, <3>4
    <3>6. boundaries'[Len(boundaries')].to = recording.total
      BY <1>2, <1>3, <3>4, <3>5
    <3>7. /\ boundaries[2].from \in {boundaries[1].to, boundaries[1].to - overlap_sec}
          /\ boundaries[1].from < boundaries[2].from
      BY <1>2, <1>3, <3>1 DEF JoinedUp
    <3>8. JoinedUp'
      <4> SUFFICES ASSUME NEW k \in 1 .. n - 2
                   PROVE  /\ boundaries'[k + 1].from \in {boundaries'[k].to, boundaries'[k].to - overlap_sec}
                          /\ boundaries'[k].from < boundaries'[k + 1].from
        BY <1>2, <3>4 DEF JoinedUp
      <4>1. /\ k \in 1 .. n - 1 /\ k + 1 \in 2 .. n - 1 /\ k + 1 \in 1 .. n - 1
            /\ k + 2 \in 1 .. n /\ k + 1 \in 1 .. n /\ (k + 1) + 1 = k + 2
        BY <1>2
      <4>2. /\ boundaries[k + 2].from \in {boundaries[k + 1].to, boundaries[k + 1].to - overlap_sec}
            /\ boundaries[k + 1].from < boundaries[k + 2].from
        BY <1>3, <4>1 DEF JoinedUp
      <4>3. /\ boundaries'[k + 1].from = boundaries[k + 2].from
            /\ boundaries'[k].to = boundaries[k + 1].to
        BY <3>4, <4>1
      <4>4. boundaries'[k].from <= boundaries[k + 1].from
        <5>1. CASE k = 1
          BY <1>2, <1>3, <3>4, <3>5, <3>7, <5>1
        <5>2. CASE k # 1
          <6>1. k \in 2 .. n - 1
            BY <4>1, <5>2
          <6> QED
            BY <1>2, <3>4, <4>1, <6>1
        <5> QED
          BY <5>1, <5>2
      <4>5. boundaries'[k].from \in Nat /\ boundaries[k + 1].from \in Nat /\ boundaries[k + 2].from \in Nat
        BY <1>2, <3>4, <4>1, Chunks
      <4> QED
        BY <4>2, <4>3, <4>4, <4>5
    <3>9. PackedFull'
      <4> SUFFICES ASSUME NEW k \in 2 .. n - 1,
                          boundaries'[k].to - boundaries'[k].from < min_chunk_sec
                   PROVE  boundaries'[k].to - boundaries'[k - 1].from > max_chunk_sec
        BY <3>4 DEF PackedFull, Lasting
      <4>1. k \in 1 .. n - 1 /\ k + 1 \in 2 .. n /\ k \in 1 .. n /\ (k + 1) - 1 = k /\ k - 1 \in 1 .. n - 1
        BY <1>2
      <4>2. boundaries'[k].to = boundaries[k + 1].to /\ boundaries'[k].from = boundaries[k + 1].from
        BY <3>4, <4>1
      <4>3. boundaries[k + 1].to - boundaries[k].from > max_chunk_sec
        BY <1>3, <4>1, <4>2 DEF PackedFull, Lasting
      <4>4. boundaries'[k - 1].from <= boundaries[k].from
        <5>1. CASE k = 2
          BY <1>2, <1>3, <3>4, <3>5, <3>7, <5>1
        <5>2. CASE k # 2
          <6>1. k - 1 \in 2 .. n - 1 /\ (k - 1) + 1 = k
            BY <4>1, <5>2
          <6> QED
            BY <1>2, <3>4, <4>1, <6>1
        <5> QED
          BY <5>1, <5>2
      <4>5. /\ boundaries'[k - 1].from \in Nat /\ boundaries[k].from \in Nat
            /\ boundaries[k + 1].to \in Nat
        BY <1>2, <3>4, <4>1, Chunks
      <4> QED
        BY <1>1, <4>2, <4>3, <4>4, <4>5
    <3>10. Sized'
      <4> SUFFICES ASSUME NEW k \in 1 .. n - 1
                   PROVE  \/ boundaries'[k].to - boundaries'[k].from <= max_chunk_sec
                          \/ /\ k = 1
                             /\ boundaries'[k].to - boundaries'[k].from < max_chunk_sec + min_chunk_sec
        BY <1>1, <3>4 DEF Sized, Lasting
      <4>1. k + 1 \in 1 .. n /\ boundaries[k + 1].to - boundaries[k + 1].from <= max_chunk_sec
        BY <1>2, <1>3 DEF Lasting
      <4>2. CASE k = 1
        <5>1. /\ boundaries'[1].to = boundaries[2].to /\ boundaries'[1].from = boundaries[1].from
              /\ boundaries[2].to - boundaries[2].from <= max_chunk_sec
          BY <3>4, <3>5, <4>1, <4>2
        <5>2. /\ boundaries[1].from \in Nat /\ boundaries[1].to \in Nat
              /\ boundaries[2].from \in Nat /\ boundaries[2].to \in Nat
          BY <1>2, <1>3, <3>5
        <5>3. boundaries[2].from <= boundaries[1].to
          BY <1>1, <3>7, <5>2
        <5>4. /\ boundaries[1].to - boundaries[1].from < min_chunk_sec
              /\ boundaries[2].to - boundaries[2].from <= max_chunk_sec
          BY <3>1, <5>1
        <5>5. boundaries[2].to - boundaries[1].from < max_chunk_sec + min_chunk_sec
          BY <1>1, <5>2, <5>3, <5>4, Together, Zenon
        <5> QED
          BY <4>2, <5>1, <5>5
      <4>3. CASE k # 1
        <5>1. k \in 2 .. n - 1
          BY <1>2, <4>3
        <5>2. boundaries'[k].to = boundaries[k + 1].to /\ boundaries'[k].from = boundaries[k + 1].from
          BY <3>4, <5>1
        <5> QED
          BY <4>1, <5>2
      <4> QED
        BY <4>2, <4>3
    <3> QED
      BY <1>3, <3>4, <3>5, <3>6, <3>8, <3>9, <3>10
  <2> QED
    BY <2>1, <2>2
<1>5. TypeOK' /\ next' <= Len(recording'.cuts) + 1 /\ (done' => ~Cutting')
  BY <1>1, <1>4 DEF IInv, TypeOK, IsRecording, Cutting
<1>6. Begun' /\ Ended'
  BY <1>1, <1>4 DEF Begun, Ended, Latest
<1> QED
  BY <1>4, <1>5, <1>6 DEF IInv
-----------------------------------------------------------------------------
LEMMA NextKeeps == IInv /\ [Next]_vars => IInv'
<1> SUFFICES ASSUME IInv, [Next]_vars PROVE IInv'
  OBVIOUS
<1>1. CASE SkipCut
  BY <1>1, SkipKeeps
<1>2. CASE ForceCut
  BY <1>2, ForceKeeps
<1>3. CASE CutAtPause
  BY <1>3, CutKeeps
<1>4. CASE Return
  BY <1>4, ReturnKeeps
<1>5. CASE UNCHANGED vars
  BY <1>5 DEF vars, IInv, TypeOK, IsRecording, JoinedUp, PackedFull, Begun, Ended, Sized,
              AtStart, Latest, Cutting, cp, Lasting
<1> QED
  BY <1>1, <1>2, <1>3, <1>4, <1>5 DEF Next

\* Every variable of the loop keeps its type.
THEOREM ChunkingTypeCorrect == Spec => []TypeOK
<1>1. IInv => TypeOK
  BY DEF IInv
<1> QED
  BY <1>1, Initially, NextKeeps, PTL DEF Spec

\* The chunks cover the recording from its first moment to its last, in order,
\* overlapping only by overlap_sec.
THEOREM EverythingIsHeard == Spec => []NothingIsSkipped
<1>1. IInv => NothingIsSkipped
  BY DEF IInv, NothingIsSkipped, Begun, Ended, JoinedUp
<1> QED
  BY <1>1, Initially, NextKeeps, PTL DEF Spec

\* Only the first chunk of a returned list can pass the limit, and by less
\* than min_chunk_sec.
THEOREM LimitKept == Spec => []OnlyTheFirstIsTooLong
<1>1. IInv => OnlyTheFirstIsTooLong
  BY DEF IInv, OnlyTheFirstIsTooLong, Sized, Lasting
<1> QED
  BY <1>1, Initially, NextKeeps, PTL DEF Spec

\* A short chunk stays on its own only where its predecessor was full.
THEOREM ShortPiecesFold == Spec => []ShortOnlyWhenFull
<1>1. IInv => ShortOnlyWhenFull
  BY DEF IInv, ShortOnlyWhenFull, PackedFull, Lasting
<1> QED
  BY <1>1, Initially, NextKeeps, PTL DEF Spec

-----------------------------------------------------------------------------
\* A turn never begins beyond the end of the recording.
LEMMA StartIsInside == IInv /\ ~done => start \in 0 .. recording.total
<1> SUFFICES ASSUME IInv, ~done PROVE start \in 0 .. recording.total
  OBVIOUS
<1>1. start \in Nat /\ recording.total \in Nat /\ overlap_sec \in Nat
  BY RecordingCuts, ChunkingAssumption DEF IInv, TypeOK
<1>2. CASE boundaries = <<>>
  BY <1>1, <1>2 DEF IInv, Begun
<1>3. CASE boundaries # <<>>
  <2>1. /\ start \in {Latest.to, Latest.to - overlap_sec}
        /\ Latest.to <= recording.total /\ Latest.to \in Nat
    BY <1>3, Chunks DEF IInv, TypeOK, Begun, AtStart, Latest
  <2> QED
    BY <1>1, <2>1
<1> QED
  BY <1>2, <1>3

LEMMA TurnAdvances == IInv /\ [Next]_vars => [LeftToCut' < LeftToCut /\ LeftToCut' >= 0]_vars
<1> SUFFICES ASSUME IInv, Next PROVE LeftToCut' < LeftToCut /\ LeftToCut' >= 0
  OBVIOUS
<1> DEFINE total == recording.total
           tries == Len(recording.cuts)
<1>1. /\ start \in Nat /\ next \in Nat \ {0} /\ next <= tries + 1
      /\ total \in Nat \ {0} /\ tries \in Nat \ {0}
      /\ max_chunk_sec \in Nat /\ overlap_sec \in Nat /\ overlap_sec < max_chunk_sec
      /\ recording' = recording
  BY RecordingCuts, ChunkingAssumption DEF IInv, TypeOK, Next, SkipCut, ForceCut, CutAtPause, Return
<1>2. ~done /\ start <= total
  <2>1. ~done
    BY DEF IInv, Next, SkipCut, ForceCut, CutAtPause, Return
  <2> QED
    BY <2>1, StartIsInside, <1>1
<1>3. Cutting => cp \in 1 .. total
  BY <1>1, RecordingCuts DEF IInv, TypeOK, Cutting, cp
<1>4. LeftToCut = (total - start) + (tries + 1 - next) + 1
  BY <1>2 DEF LeftToCut
<1>5. ~done' => LeftToCut' = (total - start') + (tries + 1 - next') + 1
  BY <1>1 DEF LeftToCut
<1>6. done' => LeftToCut' = (total - start') + (tries + 1 - next') + 0
  BY <1>1 DEF LeftToCut
<1> HIDE DEF total, tries
<1>7. CASE SkipCut
  <2>1. start' = start /\ next' = next + 1 /\ ~done' /\ next <= tries
    BY <1>2, <1>7 DEF SkipCut, Cutting, tries
  <2> QED
    BY <1>1, <1>2, <1>4, <1>5, <2>1
<1>8. CASE ForceCut
  <2>1. cp \in 1 .. total /\ cp - start > max_chunk_sec
    BY <1>3, <1>8 DEF ForceCut
  <2>2. start' = start + (max_chunk_sec - overlap_sec) /\ next' = next /\ ~done'
    BY <1>2, <1>8 DEF ForceCut, forced_cut_step
  <2>3. start + max_chunk_sec < total
    BY <1>1, <2>1
  <2> QED
    BY <1>1, <1>2, <1>4, <1>5, <2>2, <2>3
<1>9. CASE CutAtPause
  <2>1. cp \in 1 .. total /\ cp > start /\ next <= tries
    BY <1>3, <1>9 DEF CutAtPause, Cutting, tries
  <2>2. start' = cp /\ next' = next + 1 /\ ~done'
    BY <1>2, <1>9 DEF CutAtPause
  <2> QED
    BY <1>1, <1>2, <1>4, <1>5, <2>1, <2>2
<1>10. CASE Return
  <2>1. start' = start /\ next' = next /\ done'
    BY <1>10 DEF Return
  <2> QED
    BY <1>1, <1>2, <1>4, <1>6, <2>1
<1> QED
  BY <1>7, <1>8, <1>9, <1>10 DEF Next

\* The loop ends for every recording, limit, floor and overlap below the limit:
\* each turn leaves less to cut, and never less than nothing.
THEOREM LoopEnds == Spec => EveryTurnAdvances
<1> QED
  BY Initially, NextKeeps, TurnAdvances, PTL DEF Spec, EveryTurnAdvances
-----------------------------------------------------------------------------
\* Sequences laid end to end.

LEMMA FlattenedBy ==
  ASSUME NEW S, NEW seqs \in Seq(Seq(S)), NEW c \in [0 .. Len(seqs) -> Seq(S)], c[0] = <<>>,
         \A k \in 1 .. Len(seqs) : c[k] = c[k - 1] \o seqs[k]
  PROVE  FlattenSeq(seqs) = c[Len(seqs)]
<1> DEFINE m == Len(seqs)
           Is(f) == f = [i \in 1 .. m |-> IF i = 1 THEN seqs[i] ELSE f[i - 1] \o seqs[i]]
           flat == CHOOSE f : Is(f)
           it == [i \in 1 .. m |-> c[i]]
<1>1. m \in Nat /\ \A k \in 1 .. m : seqs[k] \in Seq(S) /\ c[k] = c[k - 1] \o seqs[k]
  OBVIOUS
<1>2. CASE m = 0
  <2>1. seqs = <<>>
    BY <1>2, EmptySeq
  <2> QED
    BY <1>2, <2>1 DEF FlattenSeq
<1>3. CASE m # 0
  <2>1. FlattenSeq(seqs) = flat[m]
    BY <1>3, Zenon DEF FlattenSeq
  <2>2. \A k \in 1 .. m : it[k] = IF k = 1 THEN seqs[k] ELSE it[k - 1] \o seqs[k]
    <3> SUFFICES ASSUME NEW k \in 1 .. m PROVE it[k] = IF k = 1 THEN seqs[k] ELSE it[k - 1] \o seqs[k]
      OBVIOUS
    <3>1. CASE k = 1
      <4>1. c[1] = <<>> \o seqs[1]
        <5>1. k \in 1 .. m /\ k - 1 = 0
          BY <3>1
        <5> HIDE DEF m
        <5>2. c[k] = c[k - 1] \o seqs[k]
          BY <1>1
        <5>3. c[k] = c[0] \o seqs[k]
          BY <5>1, <5>2
        <5> QED
          BY <3>1, <5>3
      <4>2. c[1] = seqs[1]
        BY <1>1, <3>1, <4>1, ConcatEmptySeq
      <4> QED
        BY <3>1, <4>2
    <3>2. CASE k # 1
      <4>1. k - 1 \in 1 .. m
        BY <3>2
      <4> QED
        BY <1>1, <3>2, <4>1
    <3> QED
      BY <3>1, <3>2
  <2> HIDE DEF m
  <2>3. Is(it)
    BY <2>2
  <2>4. Is(flat)
    BY <2>3, Zenon
  <2> DEFINE good == {k \in 0 .. m : k = 0 \/ flat[k] = c[k]}
  <2> HIDE DEF flat
  <2>5. 0 \in good
    BY <1>1
  <2>6. ASSUME NEW k \in 1 .. m, k - 1 \in good PROVE k \in good
    <3>1. flat[k] = IF k = 1 THEN seqs[k] ELSE flat[k - 1] \o seqs[k]
      BY <2>4
    <3>2. c[k] = IF k = 1 THEN seqs[k] ELSE c[k - 1] \o seqs[k]
      BY <2>2, <1>1
    <3>3. k # 1 => flat[k - 1] = c[k - 1]
      BY <2>6
    <3> QED
      BY <3>1, <3>2, <3>3
  <2> HIDE DEF good
  <2>7. 0 .. m \subseteq good
    BY <1>1, <2>5, <2>6, EveryPosition
  <2>8. m \in good
    BY <1>1, <2>7
  <2> QED
    BY <1>3, <2>1, <2>8 DEF good, m
<1> QED
  BY <1>2, <1>3

LEMMA FlatOf ==
  ASSUME NEW S, NEW seqs \in Seq(Seq(S))
  PROVE  \E c \in [0 .. Len(seqs) -> Seq(S)] :
            /\ c[0] = <<>> /\ \A k \in 1 .. Len(seqs) : c[k] = c[k - 1] \o seqs[k]
            /\ FlattenSeq(seqs) = c[Len(seqs)]
<1> DEFINE n == Len(seqs)
           step == [k \in 1 .. n |-> [x \in Seq(S) |-> x \o seqs[k]]]
<1>1. n \in Nat /\ <<>> \in Seq(S) /\ \A k \in 1 .. n : seqs[k] \in Seq(S)
  OBVIOUS
<1>2. step \in [1 .. n -> [Seq(S) -> Seq(S)]] /\ \A k \in 1 .. n, x \in Seq(S) : step[k][x] = x \o seqs[k]
  BY <1>1
<1> HIDE DEF step
<1>3. PICK f : Loops(f, Seq(S), <<>>, n, step)
  <2> HIDE DEF n
  <2> QED
    BY <1>1, <1>2, LoopExists
<1>4. f \in [0 .. n -> Seq(S)] /\ f[0] = <<>> /\ \A k \in 1 .. n : f[k] = f[k - 1] \o seqs[k]
  <2>1. f \in [0 .. n -> Seq(S)] /\ f[0] = <<>> /\ \A k \in 1 .. n : f[k] = step[k][f[k - 1]]
    BY <1>3 DEF Loops
  <2> HIDE DEF n
  <2>2. ASSUME NEW k \in 1 .. n PROVE f[k] = f[k - 1] \o seqs[k]
    <3>1. k - 1 \in 0 .. n
      BY <1>1
    <3>2. f[k - 1] \in Seq(S)
      BY <2>1, <3>1
    <3> QED
      BY <1>2, <2>1, <3>2
  <2> QED
    BY <2>1, <2>2
<1> QED
  BY <1>4, FlattenedBy

LEMMA FlatIsSeq ==
  ASSUME NEW S, NEW seqs \in Seq(Seq(S)) PROVE FlattenSeq(seqs) \in Seq(S)
<1>1. PICK c \in [0 .. Len(seqs) -> Seq(S)] : FlattenSeq(seqs) = c[Len(seqs)]
  BY FlatOf
<1>2. Len(seqs) \in 0 .. Len(seqs)
  OBVIOUS
<1> QED
  BY <1>1, <1>2

LEMMA FlatNone == FlattenSeq(<<>>) = <<>>
  BY DEF FlattenSeq

LEMMA FlatAppend ==
  ASSUME NEW S, NEW seqs \in Seq(Seq(S)), NEW x \in Seq(S)
  PROVE  FlattenSeq(Append(seqs, x)) = FlattenSeq(seqs) \o x
<1> DEFINE n == Len(seqs)
           more == Append(seqs, x)
<1>1. PICK c \in [0 .. n -> Seq(S)] :
            /\ c[0] = <<>> /\ \A k \in 1 .. n : c[k] = c[k - 1] \o seqs[k]
            /\ FlattenSeq(seqs) = c[n]
  BY FlatOf
<1> DEFINE d == [k \in 0 .. n + 1 |-> IF k = n + 1 THEN c[n] \o x ELSE c[k]]
<1>2. n \in Nat /\ more \in Seq(Seq(S)) /\ Len(more) = n + 1 /\ more[n + 1] = x
      /\ \A k \in 1 .. n : more[k] = seqs[k]
  BY AppendProperties
<1> HIDE DEF more, n
<1>3. d \in [0 .. n + 1 -> Seq(S)] /\ d[0] = <<>> /\ d[n + 1] = c[n] \o x
  BY <1>1, <1>2
<1>4. ASSUME NEW k \in 1 .. n + 1 PROVE d[k] = d[k - 1] \o more[k]
  <2>1. d[k - 1] = c[k - 1] /\ k \in 0 .. n + 1
    BY <1>2
  <2>2. CASE k = n + 1
    <3>1. k - 1 = n
      BY <1>2, <2>2
    <3> QED
      BY <1>2, <1>3, <2>1, <2>2, <3>1
  <2>3. CASE k # n + 1
    <3>1. k \in 1 .. n /\ d[k] = c[k]
      BY <1>2, <2>1, <2>3
    <3> QED
      BY <1>1, <1>2, <2>1, <3>1
  <2> QED
    BY <2>2, <2>3
<1> HIDE DEF d
<1>5. FlattenSeq(more) = d[n + 1]
  BY <1>2, <1>3, <1>4, FlattenedBy
<1> QED
  BY <1>1, <1>3, <1>5 DEF more

LEMMA FlatOne == ASSUME NEW S, NEW x \in Seq(S) PROVE FlattenSeq(<<x>>) = x
<1>1. <<>> \in Seq(Seq(S)) /\ Append(<<>>, x) = <<x>>
  OBVIOUS
<1>2. FlattenSeq(<<x>>) = <<>> \o x
  BY <1>1, FlatAppend, FlatNone
<1> QED
  BY <1>2, ConcatEmptySeq

\* A sequence is its front with its last element behind it.
LEMMA FrontAndLast ==
  ASSUME NEW S, NEW s \in Seq(S), s # <<>>
  PROVE  /\ Front(s) \in Seq(S) /\ Last(s) \in S /\ s = Append(Front(s), Last(s))
         /\ Len(Front(s)) = Len(s) - 1 /\ \A k \in 1 .. Len(s) - 1 : Front(s)[k] = s[k]
<1>1. Len(s) \in Nat \ {0}
  BY EmptySeq
<1>2. Front(s) = SubSeq(s, 1, Len(s) - 1) /\ Last(s) = s[Len(s)]
  BY DEF Front, Last
<1>3. /\ Front(s) \in Seq(S) /\ Len(Front(s)) = Len(s) - 1
      /\ \A k \in 1 .. Len(s) - 1 : Front(s)[k] = s[k]
  <2>1. 1 \in Int /\ Len(s) - 1 \in Int /\ \A i \in 1 .. Len(s) - 1 : s[i] \in S
    BY <1>1
  <2>2. /\ SubSeq(s, 1, Len(s) - 1) \in Seq(S)
        /\ Len(SubSeq(s, 1, Len(s) - 1)) = IF 1 <= Len(s) - 1 THEN Len(s) - 1 - 1 + 1 ELSE 0
        /\ \A i \in 1 .. Len(s) - 1 - 1 + 1 : SubSeq(s, 1, Len(s) - 1)[i] = s[1 + i - 1]
    BY <2>1, SubSeqProperties
  <2>3. Len(s) - 1 - 1 + 1 = Len(s) - 1 /\ \A i \in 1 .. Len(s) - 1 : 1 + i - 1 = i
    BY <1>1
  <2>4. Len(Front(s)) = Len(s) - 1
    <3>1. Len(Front(s)) = IF 1 <= Len(s) - 1 THEN Len(s) - 1 - 1 + 1 ELSE 0
      BY <1>2, <2>2, Zenon
    <3>2. CASE 1 <= Len(s) - 1
      <4>1. Len(Front(s)) = Len(s) - 1 - 1 + 1
        BY <3>1, <3>2, Zenon
      <4> QED
        BY <2>3, <4>1
    <3>3. CASE ~(1 <= Len(s) - 1)
      <4>1. Len(Front(s)) = 0
        BY <3>1, <3>3, Zenon
      <4>2. Len(s) - 1 = 0
        <5> DEFINE n == Len(s)
        <5>1. n \in Nat /\ n # 0 /\ ~(1 <= n - 1)
          BY <1>1, <3>3
        <5> HIDE DEF n
        <5>2. n - 1 = 0
          BY <5>1
        <5> QED
          BY <5>2 DEF n
      <4> QED
        BY <4>1, <4>2
    <3> QED
      BY <3>2, <3>3
  <2> QED
    BY <1>2, <2>2, <2>3, <2>4
<1>4. Last(s) \in S
  BY <1>1, <1>2
<1>5. Append(Front(s), Last(s)) \in Seq(S) /\ Len(Append(Front(s), Last(s))) = Len(s)
      /\ \A k \in 1 .. Len(s) : Append(Front(s), Last(s))[k] = s[k]
  BY <1>1, <1>2, <1>3, <1>4, AppendProperties
<1>6. s = Append(Front(s), Last(s))
  BY <1>5, SeqEqual
<1> QED
  BY <1>3, <1>4, <1>6

LEMMA FlatConcat ==
  ASSUME NEW S, NEW s \in Seq(Seq(S)), NEW t \in Seq(Seq(S))
  PROVE  FlattenSeq(s \o t) = FlattenSeq(s) \o FlattenSeq(t)
<1> DEFINE n == Len(t)
           part(k) == SubSeq(t, 1, k)
           good == {k \in 0 .. n : FlattenSeq(s \o part(k)) = FlattenSeq(s) \o FlattenSeq(part(k))}
<1>1. n \in Nat /\ \A k \in 0 .. n : part(k) \in Seq(Seq(S))
  BY SubSeqProperties
<1>2. 0 \in good
  <2>1. part(0) = <<>>
    BY SubSeqEmpty
  <2>2. s \o <<>> = s /\ FlattenSeq(s) \in Seq(S) /\ FlattenSeq(s) \o <<>> = FlattenSeq(s)
    BY ConcatEmptySeq, FlatIsSeq
  <2>3. FlattenSeq(s \o part(0)) = FlattenSeq(s) \o FlattenSeq(part(0))
    BY <2>1, <2>2, FlatNone
  <2> QED
    BY <1>1, <2>3
<1>3. ASSUME NEW k \in 1 .. n, k - 1 \in good PROVE k \in good
  <2> DEFINE p == part(k - 1)
             x == t[k]
  <2>1. part(k) = Append(p, x) /\ x \in Seq(S)
    BY <1>1, SubSeqRecursiveSecond
  <2>2. p \in Seq(Seq(S))
    BY <1>1
  <2>3. FlattenSeq(s \o p) = FlattenSeq(s) \o FlattenSeq(p)
    BY <1>3
  <2> HIDE DEF p, x, part
  <2>4. s \o Append(p, x) = Append(s \o p, x)
    BY <2>1, <2>2
  <2>5. FlattenSeq(s \o Append(p, x)) = FlattenSeq(s \o p) \o x
    BY <2>1, <2>2, <2>4, FlatAppend, ConcatProperties
  <2>6. FlattenSeq(Append(p, x)) = FlattenSeq(p) \o x
    BY <2>1, <2>2, FlatAppend
  <2>7. (FlattenSeq(s) \o FlattenSeq(p)) \o x = FlattenSeq(s) \o (FlattenSeq(p) \o x)
    <3>1. FlattenSeq(s) \in Seq(S) /\ FlattenSeq(p) \in Seq(S)
      BY <2>2, FlatIsSeq
    <3> DEFINE a == FlattenSeq(s)
               b == FlattenSeq(p)
    <3>2. a \in Seq(S) /\ b \in Seq(S) /\ x \in Seq(S)
      BY <2>1, <3>1
    <3> HIDE DEF a, b
    <3>3. (a \o b) \o x = a \o (b \o x)
      BY <3>2, ConcatAssociative
    <3> QED
      BY <3>3 DEF a, b
  <2>8. FlattenSeq(s \o part(k)) = FlattenSeq(s) \o FlattenSeq(part(k))
    BY <2>1, <2>3, <2>5, <2>6, <2>7
  <2>9. k \in 0 .. n
    BY <1>1
  <2> QED
    BY <2>8, <2>9
<1> HIDE DEF good
<1>4. 0 .. n \subseteq good
  BY <1>1, <1>2, <1>3, EveryPosition
<1>5. n \in good
  <2> HIDE DEF part
  <2> QED
    BY <1>1, <1>4
<1>6. part(n) = t
  BY SubSeqFull
<1> QED
  BY <1>5, <1>6 DEF good

-----------------------------------------------------------------------------
\* Speech sent in chunks: SpokenWords.

Region == {r \in [from : Nat, to : Nat] : r.from < r.to}

LEMMA Division ==
  ASSUME NEW a \in Nat, NEW b \in Nat, b > 0
  PROVE  a \div b \in Nat /\ b * (a \div b) <= a /\ a < b * (a \div b) + b
OBVIOUS

LEMMA Multiples ==
  ASSUME NEW a \in Nat, NEW b \in Nat, NEW c \in Nat, a <= b
  PROVE  a * c \in Nat /\ b * c \in Nat /\ a * c <= b * c
OBVIOUS

LEMMA LastsAWhile ==
  ASSUME NEW r \in Region
  PROVE  r.from \in Nat /\ r.to \in Nat /\ r.from < r.to /\ Length(r) \in Nat /\ Length(r) > 0
         /\ Length(r) = r.to - r.from
  BY DEF Region, Length

LEMMA TimeOf ==
  ASSUME NEW g \in Seq(Region)
  PROVE  \E u \in [0 .. Len(g) -> Nat] :
            /\ u[0] = 0 /\ \A k \in 1 .. Len(g) : u[k] = u[k - 1] + Length(g[k])
            /\ SpeechTime(g) = u[Len(g)]
<1> DEFINE n == Len(g)
           On(k, x) == x + Length(g[k])
           Is(f) == f = [k \in 0 .. n |-> IF k = 0 THEN 0 ELSE On(k, f[k - 1])]
           upto == CHOOSE f : Is(f)
           step == [k \in 1 .. n |-> [x \in Nat |-> On(k, x)]]
<1>1. n \in Nat /\ \A k \in 1 .. n, x \in Nat : On(k, x) \in Nat
  BY LastsAWhile
<1>2. SpeechTime(g) = upto[n]
  BY Zenon DEF SpeechTime
<1> HIDE DEF On, n
<1>3. step \in [1 .. n -> [Nat -> Nat]] /\ \A k \in 1 .. n, x \in Nat : step[k][x] = On(k, x)
  BY <1>1
<1> HIDE DEF step
<1>4. PICK f : Loops(f, Nat, 0, n, step)
  BY <1>1, <1>3, LoopExists
<1>5. f \in [0 .. n -> Nat] /\ f[0] = 0 /\ \A k \in 1 .. n : f[k] = On(k, f[k - 1])
  <2>1. f \in [0 .. n -> Nat] /\ f[0] = 0 /\ \A k \in 1 .. n : f[k] = step[k][f[k - 1]]
    BY <1>4 DEF Loops
  <2>2. ASSUME NEW k \in 1 .. n PROVE f[k] = On(k, f[k - 1])
    <3>1. k - 1 \in 0 .. n
      BY <1>1
    <3> QED
      BY <1>3, <2>1, <3>1
  <2> QED
    BY <2>1, <2>2
<1>6. Is(f)
  BY <1>1, <1>5
<1>7. Is(upto)
  BY <1>6, Zenon
<1> HIDE DEF upto
<1>8. \A k \in 0 .. n : upto[k] = IF k = 0 THEN 0 ELSE On(k, upto[k - 1])
  BY <1>1, <1>7
<1> DEFINE good == {k \in 0 .. n : upto[k] \in Nat}
<1>9. 0 \in good
  BY <1>1, <1>8
<1>10. ASSUME NEW k \in 1 .. n, k - 1 \in good PROVE k \in good
  <2>1. k \in 0 .. n /\ k # 0 /\ upto[k - 1] \in Nat
    BY <1>1, <1>10
  <2> QED
    BY <1>1, <1>8, <2>1
<1> HIDE DEF good
<1>11. 0 .. n \subseteq good
  BY <1>1, <1>9, <1>10, EveryPosition
<1>12. upto \in [0 .. n -> Nat]
  BY <1>1, <1>7, <1>11 DEF good
<1>13. upto[0] = 0 /\ \A k \in 1 .. n : upto[k] = upto[k - 1] + Length(g[k])
  BY <1>1, <1>8 DEF On
<1> QED
  BY <1>2, <1>12, <1>13 DEF n

LEMMA TimeSpent ==
  ASSUME NEW g \in Seq(Region)
  PROVE  SpeechTime(g) \in Nat /\ \A k \in DOMAIN g : Length(g[k]) <= SpeechTime(g)
<1> DEFINE n == Len(g)
<1>1. PICK u \in [0 .. n -> Nat] :
            /\ u[0] = 0 /\ \A k \in 1 .. n : u[k] = u[k - 1] + Length(g[k])
            /\ SpeechTime(g) = u[n]
  BY TimeOf
<1>2. n \in Nat /\ DOMAIN g = 1 .. n /\ \A k \in 1 .. n : Length(g[k]) \in Nat
  BY LastsAWhile
<1> DEFINE good == {k \in 0 .. n : \A j \in 1 .. k : Length(g[j]) <= u[k]}
<1> HIDE DEF n
<1>3. 0 \in good
  BY <1>2
<1>4. ASSUME NEW k \in 1 .. n, k - 1 \in good PROVE k \in good
  <2>1. u[k] = u[k - 1] + Length(g[k]) /\ u[k - 1] \in Nat /\ u[k] \in Nat
    BY <1>1, <1>2
  <2>2. ASSUME NEW j \in 1 .. k PROVE Length(g[j]) <= u[k]
    BY <1>2, <1>4, <2>1
  <2> QED
    BY <1>2, <2>2
<1> HIDE DEF good
<1>5. 0 .. n \subseteq good
  BY <1>2, <1>3, <1>4, EveryPosition
<1>6. n \in good /\ u[n] \in Nat
  BY <1>1, <1>2, <1>5
<1> QED
  BY <1>1, <1>2, <1>6 DEF good

LEMMA SomeTime ==
  ASSUME NEW g \in Seq(Region), g # <<>>
  PROVE  SpeechTime(g) \in Nat /\ SpeechTime(g) > 0
<1>1. 1 \in DOMAIN g
  BY EmptySeq
<1>2. Length(g[1]) \in Nat /\ Length(g[1]) > 0
  BY <1>1, LastsAWhile
<1> QED
  BY <1>1, <1>2, TimeSpent

\* A chunk may repeat the end of a region that was cut, and nothing else.
Follows(x, y) ==
    /\ x.to <= y.from + overlap_sec
    /\ Length(x) < max_chunk_sec => x.to <= y.from

Following(s) == \A j \in DOMAIN s : \A i \in 1 .. j - 1 : Follows(s[i], s[j])

Covers(s, r) == \A t \in r.from .. r.to - 1 : \E k \in DOMAIN s : s[k].from <= t /\ t < s[k].to

LEMMA Steps ==
  /\ forced_cut_step \in Nat /\ forced_cut_step > 0 /\ max_chunk_sec \in Nat /\ overlap_sec \in Nat
  /\ forced_cut_step + overlap_sec = max_chunk_sec
  BY ChunkingAssumption DEF forced_cut_step

\* A region is cut into pieces within the limit, and all of it is in them.
LEMMA PiecesOf ==
  ASSUME NEW r \in Region
  PROVE  /\ Pieces(r) \in Seq(Region) /\ Following(Pieces(r)) /\ Covers(Pieces(r), r)
         /\ \A k \in DOMAIN Pieces(r) :
              /\ Length(Pieces(r)[k]) <= max_chunk_sec
              /\ r.from <= Pieces(r)[k].from /\ Pieces(r)[k].to <= r.to
<1> DEFINE step == forced_cut_step
           long == Length(r)
           max == max_chunk_sec
           cut == IF long <= max THEN 0 ELSE (long - max + step - 1) \div step
           piece(k) == [from |-> r.from + (k - 1) * step,
                        to |-> IF k > cut THEN r.to ELSE r.from + (k - 1) * step + max]
           s == Pieces(r)
<1>1. s = [k \in 1 .. cut + 1 |-> piece(k)]
  BY DEF Pieces
<1>2. /\ step \in Nat /\ step > 0 /\ max \in Nat /\ overlap_sec \in Nat /\ step + overlap_sec = max
      /\ r.from \in Nat /\ r.to = r.from + long /\ long \in Nat /\ long > 0
  BY Steps, LastsAWhile
<1> HIDE DEF step, long, max, s
<1>3. /\ cut \in Nat /\ cut * step \in Nat /\ cut * step < long /\ long - cut * step <= max
      /\ cut > 0 => (cut - 1) * step + max < long
  <2>1. CASE long <= max
    <3>1. cut = 0
      BY <2>1
    <3> HIDE DEF cut
    <3> QED
      BY <1>2, <2>1, <3>1
  <2>2. CASE ~(long <= max)
    <3> DEFINE q == (long - max + step - 1) \div step
               a == long - max + step - 1
    <3>1. cut = q /\ a \in Nat /\ a = long - max + step - 1
      BY <1>2, <2>2
    <3>2. q \in Nat /\ step * q <= a /\ a < step * q + step
      BY <1>2, <3>1, Division
    <3> HIDE DEF cut, a, q
    <3>3. step * q = q * step /\ q * step \in Nat /\ (q - 1) * step = q * step - step
      BY <1>2, <3>2
    <3> QED
      BY <1>2, <2>2, <3>1, <3>2, <3>3
  <2> QED
    BY <2>1, <2>2
<1> HIDE DEF cut
<1>4. ASSUME NEW k \in 1 .. cut + 1
      PROVE  /\ (k - 1) * step \in Nat
             /\ k <= cut => (k - 1) * step <= (cut - 1) * step /\ (cut - 1) * step \in Nat
             /\ k > cut => k - 1 = cut
  <2>1. k - 1 \in Nat
    BY <1>3
  <2>2. CASE k <= cut
    <3>1. cut - 1 \in Nat /\ k - 1 <= cut - 1
      BY <1>3, <2>1, <2>2
    <3> QED
      <4>1. step \in Nat
        BY <1>2
      <4> QED
        <5> DEFINE a == k - 1
                   b == cut - 1
        <5>1. a \in Nat /\ b \in Nat /\ a <= b
          BY <2>1, <3>1
        <5> HIDE DEF a, b
        <5>2. a * step \in Nat /\ b * step \in Nat /\ a * step <= b * step
          BY <4>1, <5>1, Multiples
        <5>3. k <= cut /\ ~(k > cut)
          BY <1>3, <2>2
        <5> QED
          BY <5>2, <5>3 DEF a, b
  <2>3. CASE k > cut
    <3>1. k - 1 = cut
      BY <1>3, <2>3
    <3> QED
      BY <1>3, <2>3, <3>1
  <2> QED
    BY <1>3, <2>2, <2>3
<1>5. ASSUME NEW k \in 1 .. cut + 1
      PROVE  /\ piece(k) \in Region /\ Length(piece(k)) <= max
             /\ r.from <= piece(k).from /\ piece(k).to <= r.to
             /\ k <= cut => Length(piece(k)) = max
  <2> DEFINE at == (k - 1) * step
  <2>1. at \in Nat /\ (k <= cut => at <= (cut - 1) * step /\ (cut - 1) * step \in Nat) /\ (k > cut => at = cut * step)
    BY <1>4
  <2> HIDE DEF at
  <2>2. piece(k).from = r.from + at /\ piece(k).to = (IF k > cut THEN r.to ELSE r.from + at + max)
        /\ piece(k) = [from |-> piece(k).from, to |-> piece(k).to]
    BY DEF at
  <2> DEFINE p == piece(k)
  <2> HIDE DEF piece
  <2>3. CASE k <= cut
    <3>1. at + max < long
      BY <1>2, <1>3, <2>1, <2>3
    <3>2. p.from = r.from + at /\ p.to = r.from + at + max /\ p = [from |-> p.from, to |-> p.to]
      BY <1>3, <2>2, <2>3
    <3> HIDE DEF p
    <3>3. p.from \in Nat /\ p.to \in Nat /\ p.from < p.to /\ p.to <= r.to /\ r.from <= p.from
          /\ p.to - p.from = max
      BY <1>2, <2>1, <3>1, <3>2
    <3> QED
      BY <2>3, <1>2, <3>2, <3>3 DEF Region, Length, p
  <2>4. CASE k > cut
    <3> DEFINE u == cut * step
    <3>1. p.from = r.from + u /\ p.to = r.to /\ p = [from |-> p.from, to |-> p.to]
      BY <1>3, <2>1, <2>2, <2>4
    <3>2. u \in Nat /\ u < long /\ long - u <= max
      BY <1>3
    <3> HIDE DEF p, u
    <3>3. p.from \in Nat /\ p.to \in Nat /\ p.from < p.to /\ r.from <= p.from
          /\ p.to - p.from <= max
      BY <1>2, <3>1, <3>2
    <3>4. p \in Region /\ Length(p) <= max /\ p.to <= r.to
      BY <1>2, <3>1, <3>3 DEF Region, Length
    <3>5. ~(k <= cut)
      BY <1>3, <2>4
    <3> QED
      BY <3>3, <3>4, <3>5 DEF p
  <2> QED
    BY <1>3, <2>3, <2>4
<1>6. s \in Seq(Region) /\ DOMAIN s = 1 .. cut + 1 /\ \A k \in 1 .. cut + 1 : s[k] = piece(k)
  <2> HIDE DEF piece
  <2>1. cut + 1 \in Nat
    BY <1>3
  <2> QED
    BY <1>1, <1>5, <2>1
<1>7. Following(s)
  <2> SUFFICES ASSUME NEW j \in 1 .. cut + 1, NEW i \in 1 .. j - 1 PROVE Follows(piece(i), piece(j))
    <3>1. \A j \in 1 .. cut + 1 : \A i \in 1 .. j - 1 : i \in 1 .. cut + 1
      BY <1>3
    <3> HIDE DEF piece
    <3> QED
      BY <1>6, <3>1 DEF Following
  <2>1. i \in 1 .. cut + 1 /\ i <= cut /\ i - 1 \in Nat /\ j - 1 \in Nat /\ i <= j - 1
    BY <1>3
  <2>2. i * step <= (j - 1) * step /\ i * step = (i - 1) * step + step /\ (i - 1) * step \in Nat
        /\ (j - 1) * step \in Nat
    <3>1. i \in Nat
      BY <2>1
    <3>2. i * step \in Nat /\ (j - 1) * step \in Nat /\ i * step <= (j - 1) * step
      BY <1>2, <2>1, <3>1, Multiples
    <3> QED
      BY <1>2, <2>1, <3>1, <3>2
  <2>3. Length(piece(i)) = max
    BY <1>5, <2>1
  <2>4. piece(i).to = r.from + (i - 1) * step + max /\ piece(j).from = r.from + (j - 1) * step
    BY <1>3, <2>1
  <2> DEFINE p == (i - 1) * step
             q == (j - 1) * step
             u == i * step
  <2>5. p \in Nat /\ q \in Nat /\ u = p + step /\ u <= q
    BY <2>2
  <2>6. piece(i).to = r.from + p + max /\ piece(j).from = r.from + q
    BY <2>4
  <2> HIDE DEF p, q, u, piece
  <2>7. piece(i).to <= piece(j).from + overlap_sec
    BY <1>2, <2>5, <2>6
  <2> QED
    BY <1>2, <2>3, <2>7 DEF Follows, max
<1>8. Covers(s, r)
  <2> SUFFICES ASSUME NEW t \in r.from .. r.to - 1
               PROVE  \E k \in 1 .. cut + 1 : piece(k).from <= t /\ t < piece(k).to
    <3> HIDE DEF piece
    <3> QED
      BY <1>6 DEF Covers
  <2> DEFINE x == t - r.from
             q == x \div step
  <2>1. x \in Nat /\ x < long /\ t = r.from + x /\ t < r.to
    BY <1>2
  <2> HIDE DEF x
  <2>2. q \in Nat /\ step * q <= x /\ x < step * q + step
    BY <1>2, <2>1, Division
  <2> HIDE DEF q
  <2>3. step * q = q * step /\ q * step \in Nat
    BY <1>2, <2>2
  <2>4. CASE q < cut
    <3>1. q + 1 \in 1 .. cut + 1 /\ ~(q + 1 > cut) /\ q + 1 - 1 = q
      BY <1>3, <2>2, <2>4
    <3>2. piece(q + 1).from = r.from + q * step /\ piece(q + 1).to = r.from + q * step + max
      <4> DEFINE k == q + 1
      <4>1. piece(k).from = r.from + (k - 1) * step /\ k - 1 = q /\ ~(k > cut)
            /\ piece(k).to = IF k > cut THEN r.to ELSE r.from + (k - 1) * step + max
        <5>1. k - 1 = q /\ ~(k > cut)
          BY <1>3, <2>2, <3>1
        <5> HIDE DEF k
        <5> QED
          BY <5>1
      <4> HIDE DEF k, piece
      <4>2. piece(k).from = r.from + q * step /\ piece(k).to = r.from + q * step + max
        BY <4>1
      <4> QED
        BY <4>2 DEF k
    <3> HIDE DEF piece
    <3>3. piece(q + 1).from <= t /\ t < piece(q + 1).to
      BY <1>2, <2>1, <2>2, <2>3, <3>2
    <3> QED
      BY <3>1, <3>3
  <2>5. CASE ~(q < cut)
    <3>1. cut + 1 \in 1 .. cut + 1 /\ cut + 1 > cut /\ cut + 1 - 1 = cut /\ cut <= q
      BY <1>3, <2>2, <2>5
    <3>2. piece(cut + 1).from = r.from + cut * step /\ piece(cut + 1).to = r.to
      <4> DEFINE k == cut + 1
      <4>1. piece(k).from = r.from + (k - 1) * step /\ k - 1 = cut /\ k > cut
            /\ piece(k).to = IF k > cut THEN r.to ELSE r.from + (k - 1) * step + max
        <5>1. k - 1 = cut /\ k > cut
          BY <1>3, <2>2, <3>1
        <5> HIDE DEF k
        <5> QED
          BY <5>1
      <4> HIDE DEF k, piece
      <4>2. piece(k).from = r.from + cut * step /\ piece(k).to = r.to
        BY <4>1
      <4> QED
        BY <4>2 DEF k
    <3> HIDE DEF piece
    <3>3. cut * step <= q * step
      BY <1>2, <1>3, <2>2, <3>1, Multiples
    <3>4. piece(cut + 1).from <= t /\ t < piece(cut + 1).to
      BY <1>2, <1>3, <2>1, <2>2, <2>3, <3>2, <3>3
    <3> QED
      BY <3>1, <3>4
  <2> QED
    BY <2>4, <2>5
<1> HIDE DEF piece, cut
<1>9. \A k \in DOMAIN s : Length(s[k]) <= max /\ r.from <= s[k].from /\ s[k].to <= r.to
  BY <1>5, <1>6
<1> QED
  BY <1>6, <1>7, <1>8, <1>9 DEF s, max

LEMMA SetOfBoth ==
  ASSUME NEW S, NEW a \in Seq(S), NEW b \in Seq(S)
  PROVE  ToSet(a \o b) = ToSet(a) \cup ToSet(b)
<1> DEFINE c == a \o b
<1>1. /\ Len(a) \in Nat /\ Len(b) \in Nat /\ DOMAIN a = 1 .. Len(a) /\ DOMAIN b = 1 .. Len(b)
      /\ DOMAIN c = 1 .. Len(a) + Len(b)
      /\ \A i \in 1 .. Len(a) + Len(b) : c[i] = IF i <= Len(a) THEN a[i] ELSE b[i - Len(a)]
  BY ConcatProperties, LenProperties
<1> HIDE DEF c
<1>2. ASSUME NEW x \in ToSet(c) PROVE x \in ToSet(a) \cup ToSet(b)
  <2>1. PICK i \in 1 .. Len(a) + Len(b) : x = c[i]
    BY <1>1, <1>2 DEF ToSet
  <2>2. CASE i <= Len(a)
    BY <1>1, <2>1, <2>2 DEF ToSet
  <2>3. CASE ~(i <= Len(a))
    <3>1. i - Len(a) \in 1 .. Len(b)
      BY <1>1, <2>3
    <3> QED
      BY <1>1, <2>1, <2>3, <3>1 DEF ToSet
  <2> QED
    BY <2>2, <2>3
<1>3. ASSUME NEW x \in ToSet(a) PROVE x \in ToSet(c)
  <2>1. PICK i \in 1 .. Len(a) : x = a[i]
    BY <1>1, <1>3 DEF ToSet
  <2>2. i \in 1 .. Len(a) + Len(b) /\ i <= Len(a)
    BY <1>1
  <2> QED
    BY <1>1, <2>1, <2>2 DEF ToSet
<1>4. ASSUME NEW x \in ToSet(b) PROVE x \in ToSet(c)
  <2>1. PICK i \in 1 .. Len(b) : x = b[i]
    BY <1>1, <1>4 DEF ToSet
  <2> DEFINE k == i + Len(a)
  <2>2. k \in 1 .. Len(a) + Len(b) /\ ~(k <= Len(a)) /\ k - Len(a) = i
    BY <1>1
  <2> HIDE DEF k
  <2> QED
    BY <1>1, <2>1, <2>2 DEF ToSet
<1> QED
  BY <1>2, <1>3, <1>4 DEF c

LEMMA InBoth ==
  ASSUME NEW S, NEW a \in Seq(S), NEW b \in Seq(S), NEW j \in DOMAIN (a \o b)
  PROVE  \/ j \in DOMAIN a /\ (a \o b)[j] = a[j]
         \/ j \notin DOMAIN a /\ j > Len(a) /\ j - Len(a) \in DOMAIN b /\ (a \o b)[j] = b[j - Len(a)]
<1>1. /\ Len(a) \in Nat /\ Len(b) \in Nat /\ DOMAIN a = 1 .. Len(a) /\ DOMAIN b = 1 .. Len(b)
      /\ DOMAIN (a \o b) = 1 .. Len(a) + Len(b)
      /\ \A i \in 1 .. Len(a) + Len(b) : (a \o b)[i] = IF i <= Len(a) THEN a[i] ELSE b[i - Len(a)]
  BY ConcatProperties, LenProperties
<1>2. CASE j <= Len(a)
  BY <1>1, <1>2
<1>3. CASE ~(j <= Len(a))
  <2>1. j - Len(a) \in 1 .. Len(b) /\ j \notin 1 .. Len(a) /\ j > Len(a)
    BY <1>1, <1>3
  <2>2. (a \o b)[j] = b[j - Len(a)]
    BY <1>1, <1>3
  <2> QED
    BY <1>1, <2>1, <2>2
<1> QED
  BY <1>2, <1>3

LEMMA FollowingBoth ==
  ASSUME NEW a \in Seq(Region), NEW b \in Seq(Region), Following(a), Following(b),
         \A x \in ToSet(a), y \in ToSet(b) : Follows(x, y)
  PROVE  Following(a \o b)
<1> SUFFICES ASSUME NEW j \in DOMAIN (a \o b), NEW i \in 1 .. j - 1
             PROVE  Follows((a \o b)[i], (a \o b)[j])
  BY DEF Following
<1> DEFINE c == a \o b
<1>1. /\ Len(a) \in Nat /\ Len(b) \in Nat /\ DOMAIN a = 1 .. Len(a) /\ DOMAIN b = 1 .. Len(b)
      /\ DOMAIN c = 1 .. Len(a) + Len(b)
  BY ConcatProperties, LenProperties
<1>2. i \in DOMAIN c
  BY <1>1
<1>3. \/ j \in DOMAIN a /\ c[j] = a[j]
      \/ j \notin DOMAIN a /\ j > Len(a) /\ j - Len(a) \in DOMAIN b /\ c[j] = b[j - Len(a)]
  BY InBoth
<1>4. \/ i \in DOMAIN a /\ c[i] = a[i]
      \/ i \notin DOMAIN a /\ i > Len(a) /\ i - Len(a) \in DOMAIN b /\ c[i] = b[i - Len(a)]
  BY <1>2, InBoth
<1> HIDE DEF c
<1>5. CASE j \in DOMAIN a
  <2>1. i \in DOMAIN a
    BY <1>1, <1>5
  <2> QED
    BY <1>3, <1>4, <1>5, <2>1 DEF Following, c
<1>6. CASE j \notin DOMAIN a /\ i \in DOMAIN a
  <2>1. c[i] \in ToSet(a) /\ c[j] \in ToSet(b)
    BY <1>3, <1>4, <1>6 DEF ToSet
  <2> QED
    BY <2>1 DEF c
<1>7. CASE j \notin DOMAIN a /\ i \notin DOMAIN a
  <2>1. i - Len(a) \in 1 .. (j - Len(a)) - 1
    BY <1>1, <1>3, <1>4, <1>7
  <2> QED
    BY <1>3, <1>4, <1>7, <2>1 DEF Following, c
<1> QED
  BY <1>5, <1>6, <1>7

\* A region is heard in a set of pieces.
HeardIn(r, P) == \A t \in r.from .. r.to - 1 : \E p \in P : p.from <= t /\ t < p.to

RegionList == {l \in Seq(Region) : \A j \in DOMAIN l : \A i \in 1 .. j - 1 : l[i].to <= l[j].from}

AllPieces(l) == FlattenSeq([i \in DOMAIN l |-> Pieces(l[i])])

LEMMA AllPiecesOf ==
  ASSUME NEW l \in RegionList
  PROVE  /\ AllPieces(l) \in Seq(Region) /\ Following(AllPieces(l))
         /\ \A p \in ToSet(AllPieces(l)) : Length(p) <= max_chunk_sec
         /\ \A r \in ToSet(l) : HeardIn(r, ToSet(AllPieces(l)))
<1> DEFINE n == Len(l)
           seqs == [i \in DOMAIN l |-> Pieces(l[i])]
<1>1. n \in Nat /\ l \in Seq(Region) /\ DOMAIN l = 1 .. n /\ \A k \in 1 .. n : l[k] \in Region
      /\ \A j \in 1 .. n : \A i \in 1 .. j - 1 : l[i].to <= l[j].from
  BY DEF RegionList
<1>2. seqs \in Seq(Seq(Region)) /\ Len(seqs) = n /\ \A k \in 1 .. n : seqs[k] = Pieces(l[k])
  <2>1. \A k \in 1 .. n : Pieces(l[k]) \in Seq(Region)
    BY <1>1, PiecesOf
  <2> QED
    BY <1>1, <2>1
<1> HIDE DEF seqs, n
<1>3. PICK c \in [0 .. n -> Seq(Region)] :
            /\ c[0] = <<>> /\ \A k \in 1 .. n : c[k] = c[k - 1] \o seqs[k]
            /\ FlattenSeq(seqs) = c[n]
  BY <1>2, FlatOf
<1> DEFINE Is(q, k) ==
              /\ Following(q)
              /\ \A p \in ToSet(q) : Length(p) <= max_chunk_sec /\ \E j \in 1 .. k : p.to <= l[j].to
              /\ \A j \in 1 .. k : HeardIn(l[j], ToSet(q))
           good == {k \in 0 .. n : Is(c[k], k)}
<1>4. 0 \in good
  <2>1. Is(<<>>, 0)
    BY DEF Following, ToSet
  <2> HIDE DEF Is
  <2> QED
    BY <1>1, <1>3, <2>1
<1>5. ASSUME NEW k \in 1 .. n, k - 1 \in good PROVE k \in good
  <2> DEFINE a == c[k - 1]
             b == Pieces(l[k])
  <2>1. Is(a, k - 1) /\ a \in Seq(Region) /\ k - 1 \in 0 .. n
    BY <1>3, <1>5
  <2>2. l[k] \in Region /\ b \in Seq(Region) /\ Following(b) /\ Covers(b, l[k])
        /\ \A i \in DOMAIN b : Length(b[i]) <= max_chunk_sec /\ l[k].from <= b[i].from /\ b[i].to <= l[k].to
    BY <1>1, PiecesOf
  <2>3. c[k] = a \o b
    BY <1>2, <1>3
  <2> HIDE DEF a, b
  <2>4. \A y \in ToSet(b) : y \in Region /\ Length(y) <= max_chunk_sec /\ l[k].from <= y.from /\ y.to <= l[k].to
    BY <2>2 DEF ToSet
  <2>5. HeardIn(l[k], ToSet(b))
    BY <2>2 DEF HeardIn, Covers, ToSet
  <2>6. \A x \in ToSet(a) : x \in Region
    BY <2>1 DEF ToSet
  <2>7. ASSUME NEW x \in ToSet(a), NEW y \in ToSet(b) PROVE Follows(x, y)
    <3>1. PICK j \in 1 .. k - 1 : x.to <= l[j].to
      BY <2>1
    <3>2. j \in 1 .. n /\ l[j].to <= l[k].from /\ l[j] \in Region
      BY <1>1, <3>1
    <3>3. x.to <= y.from
      <4>1. x.to \in Nat /\ y.from \in Nat /\ l[j].to \in Nat /\ l[k].from \in Nat
        BY <2>2, <2>4, <2>6, <3>2, LastsAWhile
      <4>2. l[k].from <= y.from
        BY <2>4
      <4> QED
        BY <3>1, <3>2, <4>1, <4>2
    <3>4. x.to \in Nat /\ y.from \in Nat
      BY <2>4, <2>6, LastsAWhile
    <3> QED
      BY <3>3, <3>4, Steps DEF Follows
  <2>8. Following(a \o b)
    BY <2>1, <2>2, <2>7, FollowingBoth
  <2>9. ToSet(a \o b) = ToSet(a) \cup ToSet(b)
    BY <2>1, <2>2, SetOfBoth
  <2>10. \A p \in ToSet(a \o b) : Length(p) <= max_chunk_sec /\ \E j \in 1 .. k : p.to <= l[j].to
    <3> SUFFICES ASSUME NEW p \in ToSet(a \o b)
                 PROVE  Length(p) <= max_chunk_sec /\ \E j \in 1 .. k : p.to <= l[j].to
      OBVIOUS
    <3>1. CASE p \in ToSet(a)
      <4>1. PICK j \in 1 .. k - 1 : p.to <= l[j].to
        BY <2>1, <3>1
      <4>2. j \in 1 .. k
        OBVIOUS
      <4> QED
        BY <2>1, <3>1, <4>1, <4>2
    <3>2. CASE p \in ToSet(b)
      <4>1. k \in 1 .. k
        OBVIOUS
      <4> QED
        BY <2>4, <3>2, <4>1
    <3> QED
      BY <2>9, <3>1, <3>2
  <2>11. \A j \in 1 .. k : HeardIn(l[j], ToSet(a \o b))
    <3> SUFFICES ASSUME NEW j \in 1 .. k PROVE HeardIn(l[j], ToSet(a \o b))
      OBVIOUS
    <3>1. CASE j = k
      BY <2>5, <2>9, <3>1 DEF HeardIn
    <3>2. CASE j # k
      <4>1. j \in 1 .. k - 1
        BY <3>2
      <4>2. HeardIn(l[j], ToSet(a))
        BY <2>1, <4>1
      <4> QED
        BY <2>9, <4>2 DEF HeardIn
    <3> QED
      BY <3>1, <3>2
  <2>12. k \in 0 .. n
    BY <1>1
  <2>13. Is(a \o b, k)
    BY <2>8, <2>10, <2>11
  <2> QED
    BY <2>3, <2>12, <2>13
<1> HIDE DEF good
<1>6. 0 .. n \subseteq good
  BY <1>1, <1>4, <1>5, EveryPosition
<1>7. n \in good /\ c[n] \in Seq(Region)
  BY <1>1, <1>3, <1>6
<1>8. AllPieces(l) = c[n] /\ Is(c[n], n)
  BY <1>3, <1>7, Zenon DEF AllPieces, seqs, good
<1>9. \A r \in ToSet(l) : \E j \in 1 .. n : r = l[j]
  BY <1>1 DEF ToSet
<1> QED
  BY <1>7, <1>8, <1>9

InTurn(g) == \A j \in DOMAIN g : \A i \in 1 .. j - 1 : g[i].to <= g[j].from

Held(gs) == UNION {ToSet(gs[a]) : a \in DOMAIN gs}

\* What is sent in one request stands apart and in order; between two requests
\* no more than the end of a cut region is repeated.
InRequests(gs) ==
    /\ gs \in Seq(Seq(Region))
    /\ \A a \in DOMAIN gs : gs[a] # <<>> /\ InTurn(gs[a])
    /\ \A b \in DOMAIN gs : \A a \in 1 .. b - 1 :
          \A x \in ToSet(gs[a]), y \in ToSet(gs[b]) : Follows(x, y)

LEMMA InTurnBoth ==
  ASSUME NEW a \in Seq(Region), NEW b \in Seq(Region), InTurn(a), InTurn(b),
         \A x \in ToSet(a), y \in ToSet(b) : x.to <= y.from
  PROVE  InTurn(a \o b)
<1> SUFFICES ASSUME NEW j \in DOMAIN (a \o b), NEW i \in 1 .. j - 1
             PROVE  (a \o b)[i].to <= (a \o b)[j].from
  BY DEF InTurn
<1> DEFINE c == a \o b
<1>1. /\ Len(a) \in Nat /\ Len(b) \in Nat /\ DOMAIN a = 1 .. Len(a) /\ DOMAIN b = 1 .. Len(b)
      /\ DOMAIN c = 1 .. Len(a) + Len(b)
  BY ConcatProperties, LenProperties
<1>2. i \in DOMAIN c
  BY <1>1
<1>3. \/ j \in DOMAIN a /\ c[j] = a[j]
      \/ j \notin DOMAIN a /\ j > Len(a) /\ j - Len(a) \in DOMAIN b /\ c[j] = b[j - Len(a)]
  BY InBoth
<1>4. \/ i \in DOMAIN a /\ c[i] = a[i]
      \/ i \notin DOMAIN a /\ i > Len(a) /\ i - Len(a) \in DOMAIN b /\ c[i] = b[i - Len(a)]
  BY <1>2, InBoth
<1> HIDE DEF c
<1>5. CASE j \in DOMAIN a
  <2>1. i \in DOMAIN a
    BY <1>1, <1>5
  <2> QED
    BY <1>3, <1>4, <1>5, <2>1 DEF InTurn, c
<1>6. CASE j \notin DOMAIN a /\ i \in DOMAIN a
  <2>1. c[i] \in ToSet(a) /\ c[j] \in ToSet(b)
    BY <1>3, <1>4, <1>6 DEF ToSet
  <2> QED
    BY <2>1 DEF c
<1>7. CASE j \notin DOMAIN a /\ i \notin DOMAIN a
  <2>1. i - Len(a) \in 1 .. (j - Len(a)) - 1
    BY <1>1, <1>3, <1>4, <1>7
  <2> QED
    BY <1>3, <1>4, <1>7, <2>1 DEF InTurn, c
<1> QED
  BY <1>5, <1>6, <1>7

\* Regions whose time leaves room below the limit were not cut from the next.
LEMMA NothingRepeated ==
  ASSUME NEW a \in Seq(Region), SpeechTime(a) < max_chunk_sec,
         NEW x \in ToSet(a), NEW y, Follows(x, y)
  PROVE  x.to <= y.from
<1>1. PICK i \in DOMAIN a : x = a[i]
  BY DEF ToSet
<1>2. x \in Region
  BY <1>1
<1>3. Length(x) <= SpeechTime(a) /\ SpeechTime(a) \in Nat /\ Length(x) \in Nat
  BY <1>1, <1>2, TimeSpent, LastsAWhile
<1>4. Length(x) < max_chunk_sec
  BY <1>3, Steps
<1> QED
  BY <1>4 DEF Follows

LEMMA SoundAppend ==
  ASSUME NEW gs, InRequests(gs), NEW g \in Seq(Region), g # <<>>, InTurn(g),
         \A x \in Held(gs), y \in ToSet(g) : Follows(x, y)
  PROVE  InRequests(Append(gs, g)) /\ Held(Append(gs, g)) = Held(gs) \cup ToSet(g)
<1> DEFINE n == Len(gs)
           c == Append(gs, g)
<1>1. gs \in Seq(Seq(Region)) /\ n \in Nat /\ DOMAIN gs = 1 .. n
  BY DEF InRequests
<1>2. c \in Seq(Seq(Region)) /\ Len(c) = n + 1 /\ DOMAIN c = 1 .. n + 1 /\ c[n + 1] = g
      /\ \A k \in 1 .. n : c[k] = gs[k]
  BY <1>1, AppendProperties
<1> HIDE DEF n, c
<1>3. Held(c) = Held(gs) \cup ToSet(g)
  <2>1. DOMAIN c = DOMAIN gs \cup {n + 1}
    BY <1>1, <1>2
  <2>2. \A k \in DOMAIN gs : c[k] = gs[k]
    BY <1>1, <1>2
  <2>3. ASSUME NEW x \in Held(c) PROVE x \in Held(gs) \cup ToSet(g)
    <3>1. PICK a \in DOMAIN c : x \in ToSet(c[a])
      BY <2>3 DEF Held
    <3> QED
      BY <1>2, <2>1, <2>2, <3>1 DEF Held
  <2>4. ASSUME NEW x \in Held(gs) PROVE x \in Held(c)
    BY <2>1, <2>2, <2>4 DEF Held
  <2>5. ASSUME NEW x \in ToSet(g) PROVE x \in Held(c)
    BY <1>2, <2>1, <2>5 DEF Held
  <2> QED
    BY <2>3, <2>4, <2>5
<1>4. \A a \in DOMAIN c : c[a] # <<>> /\ InTurn(c[a])
  <2> SUFFICES ASSUME NEW a \in DOMAIN c PROVE c[a] # <<>> /\ InTurn(c[a])
    OBVIOUS
  <2>1. a \in 1 .. n \/ a = n + 1
    BY <1>1, <1>2
  <2> QED
    BY <1>1, <1>2, <2>1 DEF InRequests
<1>5. ASSUME NEW b \in DOMAIN c, NEW a \in 1 .. b - 1, NEW x \in ToSet(c[a]), NEW y \in ToSet(c[b])
      PROVE  Follows(x, y)
  <2>1. a \in 1 .. n /\ c[a] = gs[a]
    BY <1>1, <1>2
  <2>2. CASE b = n + 1
    <3>1. x \in Held(gs)
      BY <1>1, <2>1 DEF Held
    <3> QED
      BY <1>2, <2>2, <3>1
  <2>3. CASE b # n + 1
    <3>1. b \in 1 .. n /\ c[b] = gs[b]
      BY <1>1, <1>2, <2>3
    <3> QED
      BY <1>1, <2>1, <3>1 DEF InRequests
  <2> QED
    BY <2>2, <2>3
<1>6. InRequests(c)
  BY <1>2, <1>4, <1>5 DEF InRequests
<1> QED
  BY <1>3, <1>6 DEF c

LEMMA SoundFront ==
  ASSUME NEW gs, InRequests(gs), gs # <<>>
  PROVE  /\ InRequests(Front(gs)) /\ Held(gs) = Held(Front(gs)) \cup ToSet(Last(gs))
         /\ Last(gs) \in Seq(Region) /\ Last(gs) # <<>> /\ InTurn(Last(gs))
         /\ \A x \in Held(Front(gs)), y \in ToSet(Last(gs)) : Follows(x, y)
<1> DEFINE n == Len(gs)
           f == Front(gs)
<1>1. gs \in Seq(Seq(Region)) /\ n \in Nat \ {0} /\ DOMAIN gs = 1 .. n
  BY EmptySeq, LenProperties DEF InRequests
<1>2. f \in Seq(Seq(Region)) /\ Len(f) = n - 1 /\ DOMAIN f = 1 .. n - 1 /\ \A k \in 1 .. n - 1 : f[k] = gs[k]
  BY <1>1, FrontAndLast, LenProperties
<1>3. Last(gs) = gs[n] /\ n \in DOMAIN gs
  BY <1>1 DEF Last
<1> HIDE DEF n, f
<1>4. /\ \A k \in DOMAIN f : k \in DOMAIN gs /\ k \in 1 .. n - 1 /\ f[k] = gs[k]
      /\ \A k \in DOMAIN gs : k \in DOMAIN f \/ k = n
  BY <1>1, <1>2
<1>5. Held(gs) = Held(f) \cup ToSet(gs[n])
  BY <1>3, <1>4, Zenon DEF Held
<1>6. InRequests(f)
  <2>1. \A b \in DOMAIN f : \A a \in 1 .. b - 1 : a \in DOMAIN f
    BY <1>1, <1>2
  <2> QED
    BY <1>2, <1>4, <2>1 DEF InRequests
<1>7. \A x \in Held(f), y \in ToSet(gs[n]) : Follows(x, y)
  BY <1>3, <1>4 DEF InRequests, Held
<1>8. gs[n] \in Seq(Region) /\ gs[n] # <<>> /\ InTurn(gs[n])
  BY <1>1, <1>3 DEF InRequests
<1> QED
  BY <1>3, <1>5, <1>6, <1>7, <1>8 DEF f

LEMMA JoinedSound ==
  ASSUME NEW gs, InRequests(gs), NEW c \in Seq(Region), c # <<>>, InTurn(c), NEW short,
         \A x \in Held(gs), y \in ToSet(c) : Follows(x, y)
  PROVE  InRequests(Joined(gs, c, short)) /\ Held(Joined(gs, c, short)) = Held(gs) \cup ToSet(c)
<1>1. CASE /\ gs # <<>> /\ SpeechTime(c) < short
           /\ SpeechTime(Last(gs)) + SpeechTime(c) <= max_chunk_sec
  <2> DEFINE f == Front(gs)
             l == Last(gs)
             g == l \o c
  <2>1. /\ InRequests(f) /\ Held(gs) = Held(f) \cup ToSet(l)
        /\ l \in Seq(Region) /\ l # <<>> /\ InTurn(l)
        /\ \A x \in Held(f), y \in ToSet(l) : Follows(x, y)
    BY <1>1, SoundFront
  <2>2. Joined(gs, c, short) = f \o <<g>>
    BY <1>1 DEF Joined, OntoLast
  <2>3. SpeechTime(l) + SpeechTime(c) <= max_chunk_sec
    BY <1>1
  <2> HIDE DEF f, l
  <2>4. SpeechTime(l) < max_chunk_sec
    <3>1. SpeechTime(l) \in Nat /\ SpeechTime(c) \in Nat /\ SpeechTime(c) > 0
      BY <2>1, SomeTime
    <3> QED
      BY <2>3, <3>1, Steps
  <2>5. \A x \in ToSet(l), y \in ToSet(c) : x.to <= y.from
    BY <2>1, <2>4, NothingRepeated
  <2>6. g \in Seq(Region) /\ InTurn(g) /\ ToSet(g) = ToSet(l) \cup ToSet(c)
    BY <2>1, <2>5, InTurnBoth, SetOfBoth, ConcatProperties
  <2>7. g # <<>>
    BY <2>1, ConcatEqualIffEmpty
  <2> HIDE DEF g
  <2>8. \A x \in Held(f), y \in ToSet(g) : Follows(x, y)
    BY <2>1, <2>6
  <2>9. f \o <<g>> = Append(f, g)
    <3>1. f \in Seq(Seq(Region))
      BY <2>1 DEF InRequests
    <3> QED
      BY <2>6, <3>1, AppendIsConcat
  <2>10. InRequests(Append(f, g)) /\ Held(Append(f, g)) = Held(f) \cup ToSet(g)
    BY <2>1, <2>6, <2>7, <2>8, SoundAppend
  <2>11. Held(f) \cup ToSet(g) = Held(gs) \cup ToSet(c)
    BY <2>1, <2>6
  <2> QED
    BY <2>2, <2>9, <2>10, <2>11
<1>2. CASE ~(/\ gs # <<>> /\ SpeechTime(c) < short
             /\ SpeechTime(Last(gs)) + SpeechTime(c) <= max_chunk_sec)
  <2>1. Joined(gs, c, short) = Append(gs, c)
    BY <1>2, Zenon DEF Joined
  <2> QED
    BY <2>1, SoundAppend
<1> QED
  BY <1>1, <1>2

\* Chunks that follow one another stay so, and lose nothing, where they are
\* joined.
LEMMA AllJoinedSound ==
  ASSUME NEW gs, InRequests(gs), NEW short
  PROVE  InRequests(AllJoined(gs, short)) /\ Held(AllJoined(gs, short)) = Held(gs)
<1> DEFINE n == Len(gs)
           S == Seq(Seq(Region))
           On(k, x) == Joined(x, gs[k], short)
           Is(f) == f = [k \in 0 .. n |-> IF k = 0 THEN <<>> ELSE On(k, f[k - 1])]
           upto == CHOOSE f : Is(f)
           step == [k \in 1 .. n |-> [x \in S |-> On(k, x)]]
<1>1. /\ gs \in S /\ n \in Nat /\ DOMAIN gs = 1 .. n /\ <<>> \in S
      /\ \A k \in 1 .. n : gs[k] \in Seq(Region) /\ gs[k] # <<>> /\ InTurn(gs[k])
  BY DEF InRequests
<1>2. \A k \in 1 .. n, x \in S : On(k, x) \in S
  <2> SUFFICES ASSUME NEW k \in 1 .. n, NEW x \in S PROVE On(k, x) \in S
    OBVIOUS
  <2> DEFINE c == gs[k]
  <2>1. c \in Seq(Region)
    BY <1>1
  <2> HIDE DEF c
  <2>2. CASE x = <<>>
    <3>1. On(k, x) = Append(x, c)
      BY <2>2, Zenon DEF Joined, c
    <3> QED
      BY <2>1, <3>1
  <2>3. CASE x # <<>>
    <3>1. Front(x) \in S /\ Last(x) \o c \in Seq(Region)
      <4>1. Front(x) \in S /\ Last(x) \in Seq(Region)
        BY <2>3, FrontAndLast
      <4> QED
        BY <2>1, <4>1, ConcatProperties
    <3>2. Front(x) \o <<Last(x) \o c>> \in S /\ Append(x, c) \in S
      BY <2>1, <3>1
    <3> QED
      BY <3>2 DEF Joined, OntoLast, c
  <2> QED
    BY <2>2, <2>3
<1>3. AllJoined(gs, short) = upto[n]
  BY Zenon DEF AllJoined
<1> HIDE DEF On, n, S
<1>4. step \in [1 .. n -> [S -> S]] /\ \A k \in 1 .. n, x \in S : step[k][x] = On(k, x)
  BY <1>2
<1> HIDE DEF step
<1>5. PICK f : Loops(f, S, <<>>, n, step)
  BY <1>1, <1>4, LoopExists
<1>6. f \in [0 .. n -> S] /\ f[0] = <<>> /\ \A k \in 1 .. n : f[k] = On(k, f[k - 1])
  <2>1. f \in [0 .. n -> S] /\ f[0] = <<>> /\ \A k \in 1 .. n : f[k] = step[k][f[k - 1]]
    BY <1>5 DEF Loops
  <2>2. ASSUME NEW k \in 1 .. n PROVE f[k] = On(k, f[k - 1])
    <3>1. k - 1 \in 0 .. n
      BY <1>1
    <3> QED
      BY <1>4, <2>1, <3>1
  <2> QED
    BY <2>1, <2>2
<1>7. Is(f)
  BY <1>1, <1>6
<1>8. Is(upto)
  BY <1>7, Zenon
<1> HIDE DEF upto
<1>9. upto[0] = <<>> /\ \A k \in 1 .. n : upto[k] = On(k, upto[k - 1])
  <2>1. 0 \in 0 .. n /\ \A k \in 1 .. n : k \in 0 .. n /\ k # 0
    BY <1>1
  <2> QED
    BY <1>8, <2>1
<1> DEFINE First(k) == UNION {ToSet(gs[a]) : a \in 1 .. k}
           good == {k \in 0 .. n : InRequests(upto[k]) /\ Held(upto[k]) = First(k)}
<1>10. 0 \in good
  <2>1. upto[0] = <<>>
    BY <1>9
  <2>2. InRequests(<<>>) /\ Held(<<>>) = {}
    BY DEF InRequests, Held
  <2>3. First(0) = {} /\ 0 \in 0 .. n
    BY <1>1
  <2> HIDE DEF First
  <2>4. InRequests(upto[0]) /\ Held(upto[0]) = First(0)
    BY <2>1, <2>2, <2>3
  <2> QED
    BY <2>3, <2>4
<1>11. ASSUME NEW k \in 1 .. n, k - 1 \in good PROVE k \in good
  <2> DEFINE x == upto[k - 1]
  <2>1. InRequests(x) /\ Held(x) = First(k - 1)
    BY <1>11
  <2>2. upto[k] = Joined(x, gs[k], short)
    BY <1>1, <1>9 DEF On
  <2> HIDE DEF x
  <2>3. \A u \in Held(x), y \in ToSet(gs[k]) : Follows(u, y)
    BY <1>1, <2>1 DEF InRequests
  <2>4. InRequests(Joined(x, gs[k], short)) /\ Held(Joined(x, gs[k], short)) = Held(x) \cup ToSet(gs[k])
    BY <1>1, <2>1, <2>3, JoinedSound
  <2>5. First(k) = First(k - 1) \cup ToSet(gs[k])
    <3>1. \A a : a \in 1 .. k <=> a \in 1 .. k - 1 \/ a = k
      BY <1>1
    <3> QED
      BY <3>1
  <2>6. k \in 0 .. n
    BY <1>1
  <2> HIDE DEF First
  <2> QED
    BY <2>1, <2>2, <2>4, <2>5, <2>6
<1> HIDE DEF good
<1>12. 0 .. n \subseteq good
  BY <1>1, <1>10, <1>11, EveryPosition
<1>13. n \in good
  BY <1>1, <1>12
<1>14. First(n) = Held(gs)
  BY <1>1 DEF Held
<1> QED
  BY <1>3, <1>13, <1>14 DEF good

\* The requests of a recording hold all of its speech, in order.
LEMMA GroupsSound ==
  ASSUME SpokenAssumption, NEW l \in RegionList
  PROVE  /\ InRequests(group_vad_segments(l))
         /\ \A r \in ToSet(l) : HeardIn(r, Held(group_vad_segments(l)))
<1> DEFINE p == AllPieces(l)
           ones == [k \in DOMAIN p |-> <<p[k]>>]
           packed == Packed(p)
           m == Merged(packed)
           g == group_vad_segments(l)
<1>1. p \in Seq(Region) /\ Following(p) /\ \A r \in ToSet(l) : HeardIn(r, ToSet(p))
  BY AllPiecesOf
<1>2. g = IF Len(m) > 1 /\ SpeechTime(m[1]) < min_chunk_sec
          THEN <<m[1] \o m[2]>> \o SubSeq(m, 3, Len(m)) ELSE m
  BY Zenon DEF group_vad_segments, AllPieces
<1>3. packed = AllJoined(ones, max_chunk_sec + 1) /\ m = AllJoined(packed, min_chunk_sec)
  BY Zenon DEF Packed, Merged
<1> HIDE DEF p, g, m, packed
<1>4. /\ DOMAIN ones = DOMAIN p /\ ones \in Seq(Seq(Region))
      /\ \A k \in DOMAIN p : ones[k] = <<p[k]>> /\ ToSet(ones[k]) = {p[k]} /\ p[k] \in Region
  <2>1. DOMAIN p = 1 .. Len(p) /\ Len(p) \in Nat
    BY <1>1
  <2>2. ASSUME NEW k \in DOMAIN p PROVE <<p[k]>> \in Seq(Region) /\ ToSet(<<p[k]>>) = {p[k]} /\ p[k] \in Region
    BY <1>1, <2>2 DEF ToSet
  <2>3. ones = [k \in 1 .. Len(p) |-> <<p[k]>>] /\ \A k \in 1 .. Len(p) : <<p[k]>> \in Seq(Region)
    BY <2>1, <2>2
  <2>4. ones \in [1 .. Len(p) -> Seq(Region)]
    BY <2>3
  <2>5. ones \in Seq(Seq(Region))
    BY <2>1, <2>4
  <2> QED
    BY <2>2, <2>5
<1> HIDE DEF ones
<1>5. InRequests(ones)
  <2>1. \A a \in DOMAIN p : <<p[a]>> # <<>> /\ InTurn(<<p[a]>>)
    BY DEF InTurn
  <2>2. ASSUME NEW b \in DOMAIN p, NEW a \in 1 .. b - 1, NEW x \in ToSet(ones[a]), NEW y \in ToSet(ones[b])
        PROVE  Follows(x, y)
    <3>1. a \in DOMAIN p
      BY <1>1
    <3>2. x = p[a] /\ y = p[b]
      BY <1>4, <2>2, <3>1
    <3> QED
      BY <1>1, <3>2 DEF Following
  <2> QED
    BY <1>4, <2>1, <2>2 DEF InRequests
<1>6. Held(ones) = ToSet(p)
  <2>1. ASSUME NEW x \in Held(ones) PROVE x \in ToSet(p)
    <3>1. PICK k \in DOMAIN ones : x \in ToSet(ones[k])
      BY <2>1 DEF Held
    <3>2. k \in DOMAIN p /\ x = p[k]
      BY <1>4, <3>1
    <3> QED
      BY <3>2 DEF ToSet
  <2>2. ASSUME NEW x \in ToSet(p) PROVE x \in Held(ones)
    <3>1. PICK k \in DOMAIN p : x = p[k]
      BY <2>2 DEF ToSet
    <3>2. k \in DOMAIN ones /\ x \in ToSet(ones[k])
      BY <1>4, <3>1
    <3> QED
      BY <3>2 DEF Held
  <2> QED
    BY <2>1, <2>2
<1>7. InRequests(m) /\ Held(m) = ToSet(p)
  BY <1>3, <1>5, <1>6, AllJoinedSound
<1>8. InRequests(g) /\ Held(g) = Held(m)
  <2>1. CASE ~(Len(m) > 1 /\ SpeechTime(m[1]) < min_chunk_sec)
    BY <1>2, <1>7, <2>1
  <2>2. CASE Len(m) > 1 /\ SpeechTime(m[1]) < min_chunk_sec
    <3> DEFINE n == Len(m)
               both == m[1] \o m[2]
    <3>1. n \in Nat /\ n > 1 /\ m \in Seq(Seq(Region)) /\ DOMAIN m = 1 .. n /\ 1 \in DOMAIN m /\ 2 \in DOMAIN m
      BY <1>7, <2>2 DEF InRequests
    <3>2. /\ m[1] \in Seq(Region) /\ m[2] \in Seq(Region) /\ m[1] # <<>> /\ m[2] # <<>>
          /\ InTurn(m[1]) /\ InTurn(m[2]) /\ \A x \in ToSet(m[1]), y \in ToSet(m[2]) : Follows(x, y)
      <4>1. \A a \in DOMAIN m : m[a] \in Seq(Region) /\ m[a] # <<>> /\ InTurn(m[a])
        BY <1>7, <3>1 DEF InRequests
      <4>2. \A b \in DOMAIN m : \A a \in 1 .. b - 1 :
              \A x \in ToSet(m[a]), y \in ToSet(m[b]) : Follows(x, y)
        BY <1>7, Zenon DEF InRequests
      <4>3. 1 \in 1 .. 2 - 1
        OBVIOUS
      <4>4. \A x \in ToSet(m[1]), y \in ToSet(m[2]) : Follows(x, y)
        BY <3>1, <4>2, <4>3, Zenon
      <4> QED
        BY <3>1, <4>1, <4>4
    <3>3. SpeechTime(m[1]) < max_chunk_sec
      BY <2>2, <3>2, TimeSpent, SpokenAssumption, ChunkingAssumption
    <3>4. \A x \in ToSet(m[1]), y \in ToSet(m[2]) : x.to <= y.from
      BY <3>2, <3>3, NothingRepeated
    <3>5. both \in Seq(Region) /\ InTurn(both) /\ ToSet(both) = ToSet(m[1]) \cup ToSet(m[2]) /\ both # <<>>
      BY <3>2, <3>4, InTurnBoth, SetOfBoth, ConcatProperties, ConcatEqualIffEmpty
    <3> HIDE DEF both, n
    <3>6. /\ g \in Seq(Seq(Region)) /\ Len(g) = n - 1 /\ g[1] = both
          /\ \A k \in 2 .. n - 1 : g[k] = m[k + 1]
      <4> DEFINE rest == SubSeq(m, 3, n)
      <4>1. g = <<both>> \o rest
        BY <1>2, <2>2 DEF both, n
      <4>2. /\ rest \in Seq(Seq(Region)) /\ Len(rest) = IF 3 <= n THEN n - 3 + 1 ELSE 0
            /\ \A i \in 1 .. n - 3 + 1 : rest[i] = m[3 + i - 1]
        <5>1. 3 \in Int /\ n \in Int /\ \A i \in 3 .. n : m[i] \in Seq(Region)
          BY <3>1
        <5> QED
          BY <5>1, SubSeqProperties
      <4> HIDE DEF rest
      <4>3. Len(rest) = n - 2
        <5>1. CASE 3 <= n
          BY <3>1, <4>2, <5>1
        <5>2. CASE ~(3 <= n)
          <6>1. Len(rest) = 0
            BY <4>2, <5>2, Zenon
          <6>2. n - 2 = 0
            BY <3>1, <5>2
          <6> QED
            BY <6>1, <6>2
        <5> QED
          BY <5>1, <5>2
      <4>4. /\ <<both>> \o rest \in Seq(Seq(Region)) /\ Len(<<both>> \o rest) = 1 + (n - 2)
            /\ (<<both>> \o rest)[1] = both
            /\ \A k \in 2 .. n - 1 : (<<both>> \o rest)[k] = rest[k - 1]
        <5>1. <<both>> \in Seq(Seq(Region)) /\ Len(<<both>>) = 1 /\ <<both>>[1] = both
          BY <3>5
        <5> HIDE DEF both
        <5> QED
          BY <3>1, <4>2, <4>3, <5>1, ConcatProperties
      <4>5. ASSUME NEW k \in 2 .. n - 1 PROVE rest[k - 1] = m[k + 1]
        <5>1. k - 1 \in 1 .. n - 3 + 1 /\ 3 + (k - 1) - 1 = k + 1
          BY <3>1
        <5> QED
          BY <4>2, <5>1
      <4>6. 1 + (n - 2) = n - 1
        BY <3>1
      <4> QED
        BY <4>1, <4>4, <4>5, <4>6
    <3>7. DOMAIN g = 1 .. n - 1
      BY <3>6
    <3>8. Held(g) = Held(m)
      <4>1. ASSUME NEW x \in Held(g) PROVE x \in Held(m)
        <5>1. PICK a \in 1 .. n - 1 : x \in ToSet(g[a])
          BY <3>7, <4>1 DEF Held
        <5>2. CASE a = 1
          BY <3>1, <3>5, <3>6, <5>1, <5>2 DEF Held
        <5>3. CASE a # 1
          <6>1. a \in 2 .. n - 1 /\ a + 1 \in DOMAIN m
            BY <3>1, <5>3
          <6> QED
            BY <3>6, <5>1, <6>1 DEF Held
        <5> QED
          BY <5>2, <5>3
      <4>2. ASSUME NEW x \in Held(m) PROVE x \in Held(g)
        <5>1. PICK a \in 1 .. n : x \in ToSet(m[a])
          BY <3>1, <4>2 DEF Held
        <5>2. CASE a = 1 \/ a = 2
          <6>1. x \in ToSet(g[1]) /\ 1 \in DOMAIN g
            BY <3>1, <3>5, <3>6, <3>7, <5>1, <5>2
          <6> QED
            BY <6>1 DEF Held
        <5>3. CASE ~(a = 1 \/ a = 2)
          <6> DEFINE b == a - 1
          <6>1. b \in 2 .. n - 1 /\ b \in 1 .. n - 1 /\ b + 1 = a
            BY <3>1, <5>3
          <6> HIDE DEF b
          <6> QED
            BY <3>6, <3>7, <5>1, <6>1 DEF Held
        <5> QED
          BY <5>2, <5>3
      <4> QED
        BY <4>1, <4>2
    <3>9. ASSUME NEW a \in DOMAIN g PROVE g[a] # <<>> /\ InTurn(g[a])
      <4>1. CASE a = 1
        BY <3>5, <3>6, <4>1
      <4>2. CASE a # 1
        <5>1. a \in 2 .. n - 1 /\ a + 1 \in DOMAIN m
          BY <3>1, <3>7, <4>2
        <5> QED
          BY <1>7, <3>6, <5>1 DEF InRequests
      <4> QED
        BY <4>1, <4>2
    <3>10. ASSUME NEW b \in DOMAIN g, NEW a \in 1 .. b - 1, NEW x \in ToSet(g[a]), NEW y \in ToSet(g[b])
           PROVE  Follows(x, y)
      <4>1. b \in 2 .. n - 1 /\ b + 1 \in DOMAIN m /\ g[b] = m[b + 1]
        <5>1. b \in 2 .. n - 1 /\ b + 1 \in DOMAIN m
          BY <3>1, <3>7
        <5> QED
          BY <3>6, <5>1
      <4>2. \E c \in 1 .. (b + 1) - 1 : x \in ToSet(m[c])
        <5>1. CASE a = 1
          <6>1. 1 \in 1 .. (b + 1) - 1 /\ 2 \in 1 .. (b + 1) - 1
            BY <4>1
          <6> QED
            BY <3>5, <3>6, <3>10, <5>1, <6>1
        <5>2. CASE a # 1
          <6>1. a \in 2 .. n - 1 /\ a + 1 \in 1 .. (b + 1) - 1
            BY <3>1, <3>7, <5>2
          <6> QED
            BY <3>6, <3>10, <6>1
        <5> QED
          BY <5>1, <5>2
      <4> QED
        BY <1>7, <3>10, <4>1, <4>2 DEF InRequests
    <3> QED
      BY <3>6, <3>8, <3>9, <3>10 DEF InRequests
  <2> QED
    BY <2>1, <2>2
<1> QED
  BY <1>1, <1>7, <1>8 DEF g

Word == Nat \X Nat

Segment == [words : Seq(Word), from : Nat, to : Nat, who : Voices]

Texts(list) == [i \in DOMAIN list |-> list[i].words]

Said(list) == FlattenSeq(Texts(list))

OneByOne(list) == \A i \in 1 .. Len(list) - 1 : list[i].to <= list[i + 1].from

LEMMA TextsOf ==
  ASSUME NEW l \in Seq(Segment)
  PROVE  /\ Texts(l) \in Seq(Seq(Word)) /\ Len(Texts(l)) = Len(l)
         /\ \A i \in 1 .. Len(l) : Texts(l)[i] = l[i].words
<1>1. DOMAIN l = 1 .. Len(l) /\ Len(l) \in Nat /\ \A i \in 1 .. Len(l) : l[i].words \in Seq(Word)
  <2>1. DOMAIN l = 1 .. Len(l) /\ Len(l) \in Nat /\ \A i \in 1 .. Len(l) : l[i] \in Segment
    OBVIOUS
  <2>2. \A s \in Segment : s.words \in Seq(Word)
    BY DEF Segment
  <2> QED
    BY <2>1, <2>2
<1>2. Texts(l) = [i \in 1 .. Len(l) |-> l[i].words]
  BY <1>1 DEF Texts
<1> QED
  BY <1>1, <1>2

LEMMA SaidBoth ==
  ASSUME NEW a \in Seq(Segment), NEW b \in Seq(Segment)
  PROVE  Said(a \o b) = Said(a) \o Said(b) /\ Said(a) \in Seq(Word)
<1> DEFINE c == a \o b
<1>1. /\ c \in Seq(Segment) /\ Len(a) \in Nat /\ Len(b) \in Nat /\ Len(c) = Len(a) + Len(b)
      /\ \A i \in 1 .. Len(a) + Len(b) : c[i] = IF i <= Len(a) THEN a[i] ELSE b[i - Len(a)]
  BY ConcatProperties, LenProperties
<1> HIDE DEF c
<1>2. /\ Texts(a) \in Seq(Seq(Word)) /\ Texts(b) \in Seq(Seq(Word)) /\ Texts(c) \in Seq(Seq(Word))
      /\ Len(Texts(a)) = Len(a) /\ Len(Texts(b)) = Len(b) /\ Len(Texts(c)) = Len(c)
      /\ \A i \in 1 .. Len(a) : Texts(a)[i] = a[i].words
      /\ \A i \in 1 .. Len(b) : Texts(b)[i] = b[i].words
      /\ \A i \in 1 .. Len(c) : Texts(c)[i] = c[i].words
  BY <1>1, TextsOf
<1> DEFINE x == Texts(a)
           y == Texts(b)
           z == Texts(c)
<1>3. /\ x \o y \in Seq(Seq(Word)) /\ Len(x \o y) = Len(x) + Len(y)
      /\ \A i \in 1 .. Len(x) + Len(y) : (x \o y)[i] = IF i <= Len(x) THEN x[i] ELSE y[i - Len(x)]
  <2>1. x \in Seq(Seq(Word)) /\ y \in Seq(Seq(Word))
    BY <1>2
  <2> HIDE DEF x, y
  <2> QED
    BY <2>1, ConcatProperties
<1>4. ASSUME NEW i \in 1 .. Len(z) PROVE z[i] = (x \o y)[i]
  <2>1. i \in 1 .. Len(a) + Len(b) /\ i \in 1 .. Len(x) + Len(y) /\ i \in 1 .. Len(c)
    BY <1>1, <1>2
  <2>2. z[i] = c[i].words
    BY <1>2, <2>1
  <2>3. CASE i <= Len(a)
    <3>1. i \in 1 .. Len(a) /\ i <= Len(x)
      BY <1>1, <1>2, <2>1, <2>3
    <3>2. c[i] = a[i] /\ (x \o y)[i] = x[i]
      BY <1>1, <1>3, <2>1, <2>3, <3>1
    <3> QED
      BY <1>2, <2>2, <3>1, <3>2
  <2>4. CASE ~(i <= Len(a))
    <3>1. i - Len(a) \in 1 .. Len(b) /\ ~(i <= Len(x)) /\ i - Len(x) = i - Len(a)
      BY <1>1, <1>2, <2>1, <2>4
    <3>2. c[i] = b[i - Len(a)] /\ (x \o y)[i] = y[i - Len(a)]
      BY <1>1, <1>3, <2>1, <2>4, <3>1
    <3> QED
      BY <1>2, <2>2, <3>1, <3>2
  <2> QED
    BY <2>3, <2>4
<1>5. z = x \o y
  <2>1. Len(z) = Len(x \o y)
    BY <1>1, <1>2, <1>3
  <2> QED
    BY <1>2, <1>3, <1>4, <2>1, SeqEqual
<1>6. FlattenSeq(x \o y) = FlattenSeq(x) \o FlattenSeq(y) /\ FlattenSeq(x) \in Seq(Word)
  BY <1>2, FlatConcat, FlatIsSeq
<1> QED
  BY <1>5, <1>6 DEF Said, c

LEMMA SaidOne == ASSUME NEW s \in Segment PROVE Said(<<s>>) = s.words
<1>1. s.words \in Seq(Word)
  BY DEF Segment
<1>2. Texts(<<s>>) = <<s.words>>
  BY DEF Texts
<1> QED
  BY <1>1, <1>2, FlatOne DEF Said

LEMMA SaidNone == Said(<<>>) = <<>>
<1>1. Texts(<<>>) = <<>>
  BY DEF Texts
<1> QED
  BY <1>1, FlatNone DEF Said

LEMMA SaidAppend ==
  ASSUME NEW l \in Seq(Segment), NEW s \in Segment
  PROVE  Said(Append(l, s)) = Said(l) \o s.words /\ Said(l) \in Seq(Word)
<1>1. Append(l, s) = l \o <<s>> /\ <<s>> \in Seq(Segment)
  BY AppendIsConcat
<1> QED
  BY <1>1, SaidBoth, SaidOne

\* The words of a segment are words of the whole.
LEMMA SaidOf ==
  ASSUME NEW l \in Seq(Segment), NEW i \in DOMAIN l
  PROVE  ToSet(l[i].words) \subseteq ToSet(Said(l))
<1> DEFINE t == Texts(l)
           n == Len(t)
<1>1. t \in Seq(Seq(Word)) /\ n \in Nat /\ n = Len(l) /\ i \in 1 .. n /\ t[i] = l[i].words
  BY TextsOf
<1> HIDE DEF t, n
<1>2. PICK c \in [0 .. n -> Seq(Word)] :
            /\ c[0] = <<>> /\ \A k \in 1 .. n : c[k] = c[k - 1] \o t[k]
            /\ FlattenSeq(t) = c[n]
  BY <1>1, FlatOf DEF n
<1> DEFINE good == {k \in 0 .. n : i <= k => ToSet(t[i]) \subseteq ToSet(c[k])}
<1>3. 0 \in good
  BY <1>1
<1>4. ASSUME NEW k \in 1 .. n, k - 1 \in good PROVE k \in good
  <2>1. k \in 0 .. n /\ k - 1 \in 0 .. n /\ c[k] = c[k - 1] \o t[k] /\ t[k] \in Seq(Word)
    <3>1. k \in 0 .. n /\ k - 1 \in 0 .. n
      BY <1>1
    <3>2. t[k] \in Seq(Word)
      BY <1>1 DEF n
    <3> QED
      BY <1>2, <3>1, <3>2
  <2>2. c[k - 1] \in Seq(Word)
    BY <2>1
  <2>3. ToSet(c[k]) = ToSet(c[k - 1]) \cup ToSet(t[k])
    BY <2>1, <2>2, SetOfBoth
  <2>4. i <= k - 1 \/ i = k \/ ~(i <= k)
    BY <1>1
  <2> QED
    BY <1>4, <2>1, <2>3, <2>4
<1> HIDE DEF good
<1>5. 0 .. n \subseteq good
  BY <1>1, <1>3, <1>4, EveryPosition
<1>6. n \in good /\ i <= n
  BY <1>1, <1>5
<1> QED
  BY <1>1, <1>2, <1>6 DEF good, Said, t

LEMMA LeastOfTwo ==
  ASSUME NEW a \in Int, NEW b \in Int
  PROVE  Min({a, b}) = IF a <= b THEN a ELSE b
<1>1. \E x \in {a, b} : \A y \in {a, b} : x <= y
  OBVIOUS
<1>2. Min({a, b}) \in {a, b} /\ \A y \in {a, b} : Min({a, b}) <= y
  BY <1>1 DEF Min
<1> QED
  BY <1>2

\* Widening moves nothing but the end of a segment that had no length, and that
\* no further than the next one.
LEMMA WidenedIs ==
  ASSUME SpokenAssumption, NEW l \in Seq(Segment)
  PROVE  /\ Widened(l) \in Seq(Segment) /\ Len(Widened(l)) = Len(l)
         /\ \A i \in 1 .. Len(l) :
              /\ Widened(l)[i].words = l[i].words /\ Widened(l)[i].from = l[i].from
              /\ Widened(l)[i].who = l[i].who
              /\ \/ Widened(l)[i].to = l[i].to
                 \/ /\ Widened(l)[i].to <= l[i].from + MIN_SEGMENT_SEC
                    /\ i < Len(l) => Widened(l)[i].to <= l[i + 1].from
<1> DEFINE n == Len(l)
           room(i) == l[i].from + MIN_SEGMENT_SEC
           end(i) == IF i < Len(l) THEN Min({room(i), l[i + 1].from}) ELSE room(i)
           wide(i) == IF Length(l[i]) < MIN_SEGMENT_SEC /\ end(i) > l[i].to
                      THEN [l[i] EXCEPT !.to = end(i)] ELSE l[i]
           w == Widened(l)
<1>1. n \in Nat /\ DOMAIN l = 1 .. n /\ MIN_SEGMENT_SEC \in Nat
  BY SpokenAssumption
<1>2. w = [i \in 1 .. n |-> wide(i)]
  BY <1>1 DEF Widened
<1>3. ASSUME NEW i \in 1 .. n
      PROVE  /\ wide(i) \in Segment
             /\ wide(i).words = l[i].words /\ wide(i).from = l[i].from /\ wide(i).who = l[i].who
             /\ \/ wide(i).to = l[i].to
                \/ /\ wide(i).to <= l[i].from + MIN_SEGMENT_SEC
                   /\ i < Len(l) => wide(i).to <= l[i + 1].from
  <2>1. l[i] \in Segment /\ l[i].from \in Nat
    <3>1. l[i] \in Segment
      BY <1>1
    <3> QED
      BY <3>1 DEF Segment
  <2>2. i < n => l[i + 1].from \in Nat
    <3>1. i < n => i + 1 \in 1 .. n
      BY <1>1
    <3>2. i < n => l[i + 1] \in Segment
      BY <1>1, <3>1
    <3> QED
      BY <3>2 DEF Segment
  <2> DEFINE e == end(i)
  <2>3. e \in Nat /\ e <= l[i].from + MIN_SEGMENT_SEC /\ (i < Len(l) => e <= l[i + 1].from)
    <3>1. room(i) \in Nat
      BY <1>1, <2>1
    <3>2. CASE i < n
      <4>1. e = Min({room(i), l[i + 1].from})
        BY <3>2
      <4>2. e = IF room(i) <= l[i + 1].from THEN room(i) ELSE l[i + 1].from
        <5> HIDE DEF room, e
        <5> QED
          BY <2>2, <3>1, <3>2, <4>1, LeastOfTwo
      <4> HIDE DEF e
      <4> QED
        BY <2>2, <3>1, <3>2, <4>2
    <3>3. CASE ~(i < n)
      <4>1. e = room(i)
        BY <3>3
      <4> HIDE DEF e
      <4> QED
        BY <3>1, <3>3, <4>1
    <3> QED
      BY <3>2, <3>3
  <2>4. wide(i) = l[i] \/ wide(i) = [l[i] EXCEPT !.to = e]
    OBVIOUS
  <2> HIDE DEF e, wide
  <2>5. [l[i] EXCEPT !.to = e] \in Segment
    BY <2>1, <2>3 DEF Segment
  <2>6. /\ [l[i] EXCEPT !.to = e].to = e /\ [l[i] EXCEPT !.to = e].words = l[i].words
        /\ [l[i] EXCEPT !.to = e].from = l[i].from /\ [l[i] EXCEPT !.to = e].who = l[i].who
    BY <2>1 DEF Segment
  <2> QED
    BY <2>1, <2>3, <2>4, <2>5, <2>6
<1> HIDE DEF wide, w, n
<1>4. w \in Seq(Segment) /\ Len(w) = n /\ \A i \in 1 .. n : w[i] = wide(i)
  BY <1>1, <1>2, <1>3
<1> QED
  BY <1>3, <1>4 DEF w, n

LEMMA WidenedSays ==
  ASSUME SpokenAssumption, NEW l \in Seq(Segment)
  PROVE  Said(Widened(l)) = Said(l)
<1> DEFINE w == Widened(l)
<1>1. w \in Seq(Segment) /\ Len(w) = Len(l) /\ \A i \in 1 .. Len(l) : w[i].words = l[i].words
  BY WidenedIs
<1> HIDE DEF w
<1>2. /\ Texts(l) \in Seq(Seq(Word)) /\ Len(Texts(l)) = Len(l)
      /\ \A i \in 1 .. Len(l) : Texts(l)[i] = l[i].words
      /\ Texts(w) \in Seq(Seq(Word)) /\ Len(Texts(w)) = Len(w)
      /\ \A i \in 1 .. Len(w) : Texts(w)[i] = w[i].words
  BY <1>1, TextsOf
<1>3. Texts(w) = Texts(l)
  BY <1>1, <1>2, SeqEqual
<1> QED
  BY <1>3 DEF Said, w

\* Segments that stand apart still do when they are widened.
LEMMA WidenedApart ==
  ASSUME SpokenAssumption, NEW l \in Seq(Segment), OneByOne(l)
  PROVE  OneByOne(Widened(l))
<1> DEFINE w == Widened(l)
<1>1. w \in Seq(Segment) /\ Len(w) = Len(l) /\ Len(l) \in Nat
      /\ \A i \in 1 .. Len(l) :
            /\ w[i].from = l[i].from
            /\ w[i].to = l[i].to \/ (i < Len(l) => w[i].to <= l[i + 1].from)
  BY WidenedIs
<1> HIDE DEF w
<1>2. ASSUME NEW i \in 1 .. Len(w) - 1 PROVE w[i].to <= w[i + 1].from
  <2>1. i \in 1 .. Len(l) /\ i + 1 \in 1 .. Len(l) /\ i < Len(l)
    BY <1>1
  <2>2. w[i + 1].from = l[i + 1].from /\ l[i].to <= l[i + 1].from
    BY <1>1, <2>1 DEF OneByOne
  <2> QED
    BY <1>1, <2>1, <2>2
<1> QED
  BY <1>2 DEF OneByOne, w

LEMMA Beginnings ==
  ASSUME NEW S, NEW s \in Seq(S), NEW a \in Nat, NEW b \in Nat, a <= b, b <= Len(s)
  PROVE  /\ SubSeq(s, 1, a) \in Seq(S) /\ SubSeq(s, a + 1, b) \in Seq(S)
         /\ SubSeq(s, 1, a) \o SubSeq(s, a + 1, b) = SubSeq(s, 1, b)
         /\ SubSeq(s, a + 1, b) = <<>> <=> a = b
<1> DEFINE x == SubSeq(s, 1, a)
           y == SubSeq(s, a + 1, b)
           z == SubSeq(s, 1, b)
<1>1. Len(s) \in Nat /\ \A i \in 1 .. Len(s) : s[i] \in S
  OBVIOUS
<1>2. x \in Seq(S) /\ Len(x) = a /\ \A i \in 1 .. a : x[i] = s[i]
  <2>1. /\ x \in Seq(S) /\ Len(x) = IF 1 <= a THEN a - 1 + 1 ELSE 0
        /\ \A i \in 1 .. a - 1 + 1 : x[i] = s[1 + i - 1]
    <3>1. 1 \in Int /\ a \in Int /\ \A i \in 1 .. a : s[i] \in S
      BY <1>1
    <3> QED
      BY <3>1, SubSeqProperties
  <2> HIDE DEF x
  <2>2. a - 1 + 1 = a /\ \A i \in 1 .. a : 1 + i - 1 = i
    OBVIOUS
  <2> QED
    BY <2>1, <2>2
<1>3. y \in Seq(S) /\ Len(y) = b - a /\ \A i \in 1 .. b - a : y[i] = s[a + i]
  <2>1. /\ y \in Seq(S) /\ Len(y) = IF a + 1 <= b THEN b - (a + 1) + 1 ELSE 0
        /\ \A i \in 1 .. b - (a + 1) + 1 : y[i] = s[(a + 1) + i - 1]
    <3>1. a + 1 \in Int /\ b \in Int /\ \A i \in a + 1 .. b : s[i] \in S
      BY <1>1
    <3> QED
      BY <3>1, SubSeqProperties
  <2> HIDE DEF y
  <2>2. b - (a + 1) + 1 = b - a /\ \A i \in 1 .. b - a : (a + 1) + i - 1 = a + i
    OBVIOUS
  <2> QED
    BY <2>1, <2>2
<1>4. z \in Seq(S) /\ Len(z) = b /\ \A i \in 1 .. b : z[i] = s[i]
  <2>1. /\ z \in Seq(S) /\ Len(z) = IF 1 <= b THEN b - 1 + 1 ELSE 0
        /\ \A i \in 1 .. b - 1 + 1 : z[i] = s[1 + i - 1]
    <3>1. 1 \in Int /\ b \in Int /\ \A i \in 1 .. b : s[i] \in S
      BY <1>1
    <3> QED
      BY <3>1, SubSeqProperties
  <2> HIDE DEF z
  <2>2. b - 1 + 1 = b /\ \A i \in 1 .. b : 1 + i - 1 = i
    OBVIOUS
  <2> QED
    BY <2>1, <2>2
<1> HIDE DEF x, y, z
<1>5. x \o y = z
  <2>1. /\ x \o y \in Seq(S) /\ Len(x \o y) = Len(x) + Len(y)
        /\ \A i \in 1 .. Len(x) + Len(y) : (x \o y)[i] = IF i <= Len(x) THEN x[i] ELSE y[i - Len(x)]
    BY <1>2, <1>3, ConcatProperties
  <2>2. Len(x \o y) = b
    BY <1>2, <1>3, <2>1
  <2>3. ASSUME NEW i \in 1 .. b PROVE (x \o y)[i] = z[i]
    <3>1. i \in 1 .. Len(x) + Len(y)
      BY <1>2, <1>3
    <3>2. CASE i <= a
      BY <1>2, <1>4, <2>1, <3>1, <3>2
    <3>3. CASE ~(i <= a)
      <4>1. i - a \in 1 .. b - a /\ a + (i - a) = i
        BY <3>3
      <4>2. (x \o y)[i] = y[i - a]
        BY <1>2, <2>1, <3>1, <3>3
      <4> QED
        BY <1>3, <1>4, <4>1, <4>2
    <3> QED
      BY <3>2, <3>3
  <2> QED
    BY <1>4, <2>1, <2>2, <2>3, SeqEqual
<1>6. y = <<>> <=> a = b
  <2>1. y = <<>> <=> Len(y) = 0
    BY <1>3, EmptySeq
  <2> QED
    BY <1>3, <2>1
<1> QED
  BY <1>2, <1>3, <1>5, <1>6 DEF x, y, z

\* How the words of an answer are told: each once, in segments apart that lie in
\* the regions they were heard in.
Tells(l, words, g) ==
    /\ l \in Seq(Segment) /\ Said(l) = words /\ OneByOne(l)
    /\ \A i \in DOMAIN l :
         /\ l[i].words # <<>> /\ l[i].who = NoOne
         /\ \E x \in g : x.from <= l[i].from /\ l[i].from <= x.to /\ l[i].to <= x.to

LEMMA SentencesTell ==
  ASSUME NEW words \in Seq(Word), NEW sentence \in Nat, NEW r \in [from : Nat, to : Nat], r.from <= r.to
  PROVE  Tells(BySentence(words, sentence, r), words, {r})
<1> DEFINE n == Len(words)
           e == IF sentence \in 1 .. n - 1 THEN sentence ELSE n
           at == r.from + (Length(r) * e) \div n
           first == [words |-> SubSeq(words, 1, e), from |-> r.from, to |-> at, who |-> NoOne]
           second == [words |-> SubSeq(words, e + 1, n), from |-> at, to |-> r.to, who |-> NoOne]
           l == BySentence(words, sentence, r)
<1>1. l = IF n = 0 THEN <<>> ELSE IF e = n THEN <<first>> ELSE <<first, second>>
  BY DEF BySentence
<1>2. n \in Nat /\ e \in Nat /\ e <= n /\ (n # 0 => e # 0) /\ n = Len(words)
      /\ r.from \in Nat /\ r.to \in Nat /\ Length(r) \in Nat /\ r.from + Length(r) = r.to
  BY DEF Length
<1> HIDE DEF l, e, n
<1>3. CASE n = 0
  <2>1. words = <<>> /\ l = <<>>
    BY <1>1, <1>2, <1>3, EmptySeq
  <2>2. l \in Seq(Segment) /\ Len(l) = 0 /\ DOMAIN l = {}
    BY <2>1
  <2>3. Said(l) = words
    BY <2>1, SaidNone
  <2>4. Tells(l, words, {r})
    BY <2>2, <2>3 DEF Tells, OneByOne
  <2> QED
    BY <2>4 DEF l
<1>4. CASE n # 0
  <2>1. at \in Nat /\ r.from <= at /\ at <= r.to
    <3> DEFINE L == Length(r)
               q == (L * e) \div n
    <3>1. L * e \in Nat /\ L * e <= L * n /\ L * n \in Nat
      <4>1. e * L \in Nat /\ n * L \in Nat /\ e * L <= n * L
        BY <1>2, Multiples
      <4>2. L * e = e * L /\ L * n = n * L
        BY <1>2
      <4> QED
        BY <4>1, <4>2
    <3>2. n > 0 /\ L \in Nat
      BY <1>2, <1>4
    <3> HIDE DEF L
    <3>3. q \in Nat /\ n * q <= L * e
      BY <1>2, <3>1, <3>2, Division
    <3> HIDE DEF q
    <3>4. q <= L
      <4> SUFFICES ASSUME q >= L + 1 PROVE FALSE
        BY <3>2, <3>3
      <4>1. (L + 1) * n \in Nat /\ q * n \in Nat /\ (L + 1) * n <= q * n
        BY <1>2, <3>2, <3>3, Multiples
      <4>2. (L + 1) * n = L * n + n /\ q * n = n * q
        BY <1>2, <3>2, <3>3
      <4> QED
        BY <1>2, <3>1, <3>2, <3>3, <4>1, <4>2
    <3> QED
      BY <1>2, <3>2, <3>3, <3>4 DEF q, L
  <2> HIDE DEF at
  <2>2. SubSeq(words, 1, e) \in Seq(Word) /\ SubSeq(words, e + 1, n) \in Seq(Word)
        /\ SubSeq(words, 1, e) \o SubSeq(words, e + 1, n) = words
        /\ (SubSeq(words, e + 1, n) = <<>> <=> e = n)
    <3>1. n <= Len(words)
      BY <1>2
    <3>2. SubSeq(words, 1, n) = words
      BY <1>2, SubSeqFull
    <3> HIDE DEF at, first, second
    <3>3. SubSeq(words, 1, e) \in Seq(Word) /\ SubSeq(words, e + 1, n) \in Seq(Word)
          /\ SubSeq(words, 1, e) \o SubSeq(words, e + 1, n) = SubSeq(words, 1, n)
          /\ (SubSeq(words, e + 1, n) = <<>> <=> e = n)
      <4>1. e \in Nat /\ n \in Nat /\ e <= n /\ n <= Len(words)
        BY <1>2, <3>1
      <4>2. /\ SubSeq(words, 1, e) \in Seq(Word) /\ SubSeq(words, e + 1, n) \in Seq(Word)
            /\ SubSeq(words, 1, e) \o SubSeq(words, e + 1, n) = SubSeq(words, 1, n)
        BY <4>1, Beginnings
      <4>3. SubSeq(words, e + 1, n) = <<>> <=> e = n
        BY <4>1, Beginnings
      <4> QED
        BY <4>2, <4>3
    <3> QED
      BY <3>2, <3>3
  <2>3. SubSeq(words, 1, e) # <<>>
    <3>1. 0 \in Nat /\ 0 <= e /\ e <= Len(words) /\ 0 + 1 = 1
      BY <1>2
    <3>2. SubSeq(words, 0 + 1, e) = <<>> <=> 0 = e
      BY <1>2, <3>1, Beginnings
    <3> QED
      BY <1>2, <1>4, <3>1, <3>2
  <2>4. first \in Segment /\ second \in Segment
    <3> DEFINE a == SubSeq(words, 1, e)
               b == SubSeq(words, e + 1, n)
    <3>1. a \in Seq(Word) /\ b \in Seq(Word)
      BY <2>2
    <3>2. first = [words |-> a, from |-> r.from, to |-> at, who |-> NoOne]
          /\ second = [words |-> b, from |-> at, to |-> r.to, who |-> NoOne]
      OBVIOUS
    <3> HIDE DEF a, b, first, second
    <3> QED
      BY <1>2, <2>1, <3>1, <3>2 DEF Segment, Voices
  <2>5. /\ first.words = SubSeq(words, 1, e) /\ first.from = r.from /\ first.to = at /\ first.who = NoOne
        /\ second.words = SubSeq(words, e + 1, n) /\ second.from = at /\ second.to = r.to /\ second.who = NoOne
    OBVIOUS
  <2> HIDE DEF first, second
  <2>6. CASE e = n
    <3>1. l = <<first>>
      BY <1>1, <1>4, <2>6
    <3>2. first.words = words
      BY <1>2, <2>5, <2>6, SubSeqFull
    <3>3. Said(l) = words
      BY <2>4, <3>1, <3>2, SaidOne
    <3>4. l \in Seq(Segment) /\ DOMAIN l = {1} /\ l[1] = first /\ Len(l) = 1
      BY <2>4, <3>1
    <3>5. OneByOne(l)
      BY <3>4 DEF OneByOne
    <3>6. ASSUME NEW i \in DOMAIN l
          PROVE  /\ l[i].words # <<>> /\ l[i].who = NoOne
                 /\ r.from <= l[i].from /\ l[i].from <= r.to /\ l[i].to <= r.to
      <4>1. l[i] = first
        BY <3>4
      <4>2. first.words # <<>>
        BY <2>3, <2>5
      <4> QED
        BY <1>2, <2>1, <2>5, <4>1, <4>2
    <3>7. Tells(l, words, {r})
      BY <3>3, <3>4, <3>5, <3>6 DEF Tells
    <3> QED
      BY <3>7 DEF l
  <2>7. CASE e # n
    <3>1. l = <<first, second>>
      BY <1>1, <1>4, <2>7
    <3>2. l \in Seq(Segment) /\ DOMAIN l = {1, 2} /\ l[1] = first /\ l[2] = second /\ Len(l) = 2
          /\ l = Append(<<first>>, second) /\ <<first>> \in Seq(Segment)
      BY <2>4, <3>1
    <3>3. Said(l) = words
      <4>1. Said(l) = Said(<<first>>) \o second.words
        BY <2>4, <3>2, SaidAppend
      <4>2. Said(<<first>>) = first.words
        BY <2>4, SaidOne
      <4> QED
        BY <2>2, <2>5, <4>1, <4>2
    <3>4. OneByOne(l)
      <4>1. \A i \in 1 .. Len(l) - 1 : i = 1 /\ i + 1 = 2
        BY <3>2
      <4>2. first.to <= second.from
        BY <2>1, <2>5
      <4> QED
        BY <3>2, <4>1, <4>2 DEF OneByOne
    <3>5. second.words # <<>> /\ first.words # <<>>
      BY <2>2, <2>3, <2>5, <2>7
    <3>6. ASSUME NEW i \in DOMAIN l
          PROVE  /\ l[i].words # <<>> /\ l[i].who = NoOne
                 /\ r.from <= l[i].from /\ l[i].from <= r.to /\ l[i].to <= r.to
      <4>1. l[i] = first \/ l[i] = second
        BY <3>2
      <4> QED
        BY <1>2, <2>1, <2>5, <3>5, <4>1
    <3>7. Tells(l, words, {r})
      BY <3>2, <3>3, <3>4, <3>6 DEF Tells
    <3> QED
      BY <3>7 DEF l
  <2> QED
    BY <2>6, <2>7
<1> QED
  BY <1>3, <1>4

\* The words are given out in order, and the last region takes what is left.
LEMMA UpToIs ==
  ASSUME NEW n \in Nat, NEW g \in Seq(Region), g # <<>>
  PROVE  /\ UpTo(n, g) \in [0 .. Len(g) -> 0 .. n] /\ UpTo(n, g)[0] = 0 /\ UpTo(n, g)[Len(g)] = n
         /\ \A k \in 1 .. Len(g) : UpTo(n, g)[k - 1] <= UpTo(n, g)[k]
<1> DEFINE m == Len(g)
           S == 0 .. n
           On(k, x) == IF k = m THEN n ELSE Min({n, x + Shared(n, g, k)})
           Is(f) == f = [k \in 0 .. m |-> IF k = 0 THEN 0 ELSE IF k = m THEN n
                                          ELSE Min({n, f[k - 1] + Shared(n, g, k)})]
           upto == CHOOSE f : Is(f)
           step == [k \in 1 .. m |-> [x \in S |-> On(k, x)]]
<1>1. m \in Nat /\ m > 0 /\ 0 \in S
  BY EmptySeq
<1>2. ASSUME NEW k \in 1 .. m, NEW x \in S PROVE On(k, x) \in S /\ x <= On(k, x)
  <2> DEFINE h == Shared(n, g, k)
  <2>1. h \in Nat
    <3> DEFINE a == n * Length(g[k])
               b == SpeechTime(g)
               q == a \div b
    <3>1. a \in Nat
      <4>1. Length(g[k]) \in Nat
        BY <1>1, LastsAWhile
      <4> QED
        BY <4>1
    <3>2. b \in Nat /\ b > 0
      BY SomeTime
    <3>3. h = RoundedShare(a, b)
      BY DEF Shared
    <3> HIDE DEF a, b, h
    <3>4. q \in Nat
      BY <3>1, <3>2, Division
    <3>5. h = q + 1 \/ h = q
      BY <3>3 DEF RoundedShare
    <3> QED
      BY <3>4, <3>5
  <2>2. On(k, x) = IF k = m THEN n ELSE Min({n, x + h})
    OBVIOUS
  <2> HIDE DEF On, h, m
  <2>3. x + h \in Nat /\ Min({n, x + h}) = IF n <= x + h THEN n ELSE x + h
    BY <2>1, LeastOfTwo
  <2> QED
    BY <2>1, <2>2, <2>3
<1>3. UpTo(n, g) = upto
  BY Zenon DEF UpTo
<1>4. step \in [1 .. m -> [S -> S]] /\ \A k \in 1 .. m, x \in S : step[k][x] = On(k, x)
  <2> HIDE DEF On
  <2> QED
    BY <1>2
<1> HIDE DEF step, m, S
<1>5. PICK f : Loops(f, S, 0, m, step)
  BY <1>1, <1>4, LoopExists
<1>6. f \in [0 .. m -> S] /\ f[0] = 0 /\ \A k \in 1 .. m : f[k] = On(k, f[k - 1])
  <2>1. f \in [0 .. m -> S] /\ f[0] = 0 /\ \A k \in 1 .. m : f[k] = step[k][f[k - 1]]
    BY <1>5 DEF Loops
  <2> HIDE DEF On
  <2>2. ASSUME NEW k \in 1 .. m PROVE f[k] = On(k, f[k - 1])
    <3>1. k - 1 \in 0 .. m
      BY <1>1
    <3> QED
      BY <1>4, <2>1, <3>1
  <2> QED
    BY <2>1, <2>2
<1>7. Is(f)
  <2>1. ASSUME NEW k \in 0 .. m
        PROVE  f[k] = IF k = 0 THEN 0 ELSE IF k = m THEN n ELSE Min({n, f[k - 1] + Shared(n, g, k)})
    <3>1. CASE k = 0
      BY <1>6, <3>1
    <3>2. CASE k # 0
      <4>1. k \in 1 .. m
        BY <1>1, <3>2
      <4>2. f[k] = On(k, f[k - 1])
        BY <1>6, <4>1
      <4> QED
        BY <3>2, <4>2, Zenon
    <3> QED
      BY <3>1, <3>2
  <2> QED
    BY <1>6, <2>1
<1>8. Is(upto)
  BY <1>7, Zenon
<1> HIDE DEF upto
<1>9. upto[0] = 0 /\ \A k \in 1 .. m : upto[k] = On(k, upto[k - 1])
  <2>1. 0 \in 0 .. m /\ \A k \in 1 .. m : k \in 0 .. m /\ k # 0
    BY <1>1
  <2>2. \A k \in 0 .. m : upto[k] = IF k = 0 THEN 0 ELSE IF k = m THEN n
                                    ELSE Min({n, upto[k - 1] + Shared(n, g, k)})
    BY <1>8
  <2> QED
    BY <2>1, <2>2, Zenon
<1>10. DOMAIN upto = 0 .. m /\ upto = [k \in 0 .. m |-> upto[k]]
  BY <1>8
<1> HIDE DEF On, Is
<1> DEFINE good == {k \in 0 .. m : upto[k] \in S}
<1>11. 0 \in good
  BY <1>1, <1>9
<1>12. ASSUME NEW k \in 1 .. m, k - 1 \in good PROVE k \in good
  BY <1>1, <1>2, <1>9, <1>12
<1> HIDE DEF good
<1>13. 0 .. m \subseteq good
  BY <1>1, <1>11, <1>12, EveryPosition
<1>14. \A k \in 0 .. m : upto[k] \in S
  BY <1>13 DEF good
<1>15. upto \in [0 .. m -> S]
  BY <1>10, <1>14
<1>16. upto[m] = n
  <2>1. m \in 1 .. m
    BY <1>1
  <2> QED
    BY <1>9, <2>1 DEF On
<1>17. ASSUME NEW k \in 1 .. m PROVE upto[k - 1] <= upto[k]
  <2>1. k - 1 \in 0 .. m
    BY <1>1
  <2> QED
    BY <1>2, <1>9, <1>14, <2>1
<1> QED
  BY <1>3, <1>9, <1>15, <1>16, <1>17 DEF m, S

LEMMA ApartAppend ==
  ASSUME NEW l \in Seq(Segment), OneByOne(l), NEW s \in Segment,
         l # <<>> => l[Len(l)].to <= s.from
  PROVE  OneByOne(Append(l, s))
<1> DEFINE c == Append(l, s)
           n == Len(l)
<1>1. n \in Nat /\ (n # 0 => l # <<>>) /\ Len(c) = n + 1 /\ c[n + 1] = s /\ \A i \in 1 .. n : c[i] = l[i]
  BY EmptySeq, AppendProperties
<1> HIDE DEF c
<1>2. ASSUME NEW i \in 1 .. Len(c) - 1 PROVE c[i].to <= c[i + 1].from
  <2>1. i \in 1 .. n /\ c[i] = l[i]
    BY <1>1
  <2>2. CASE i = n
    BY <1>1, <2>1, <2>2
  <2>3. CASE i # n
    <3>1. i \in 1 .. n - 1 /\ c[i + 1] = l[i + 1]
      BY <1>1, <2>1, <2>3
    <3> QED
      BY <2>1, <3>1 DEF OneByOne
  <2> QED
    BY <2>2, <2>3
<1> QED
  BY <1>2 DEF OneByOne, c

\* What one request answers is told of the regions it was made of.
LEMMA AnswersTell ==
  ASSUME NEW words \in Seq(Word), NEW sentence \in Nat, NEW g \in Seq(Region), g # <<>>, InTurn(g)
  PROVE  Tells(synthesize_segments(words, sentence, g), words, ToSet(g))
<1> DEFINE n == Len(words)
           m == Len(g)
           u == UpTo(n, g)
           part(k) == [words |-> SubSeq(words, u[k - 1] + 1, u[k]),
                       from |-> g[k].from, to |-> g[k].to, who |-> NoOne]
           S == Seq(Segment)
           On(k, x) == Flushed(part(k), x)
           Is(f) == f = [k \in 0 .. m |-> IF k = 0 THEN <<>> ELSE On(k, f[k - 1])]
           made == CHOOSE f : Is(f)
           step == [k \in 1 .. m |-> [x \in S |-> On(k, x)]]
           result == synthesize_segments(words, sentence, g)
<1>1. m \in Nat /\ m > 0 /\ n \in Nat /\ DOMAIN g = 1 .. m /\ \A k \in 1 .. m : g[k] \in Region
  BY EmptySeq
<1>2. CASE m = 1
  <2>1. result = BySentence(words, sentence, g[1])
    BY <1>2, Zenon DEF synthesize_segments
  <2>2. g[1] \in [from : Nat, to : Nat] /\ g[1].from <= g[1].to /\ ToSet(g) = {g[1]}
    <3>1. g[1] \in Region /\ DOMAIN g = {1}
      BY <1>1, <1>2
    <3> QED
      BY <3>1, LastsAWhile DEF Region, ToSet
  <2>3. Tells(BySentence(words, sentence, g[1]), words, {g[1]})
    BY <2>2, SentencesTell
  <2> QED
    BY <2>1, <2>2, <2>3
<1>3. CASE m # 1
  <2>1. result = made[m]
    BY <1>3, Zenon DEF synthesize_segments
  <2>2. /\ u \in [0 .. m -> 0 .. n] /\ u[0] = 0 /\ u[m] = n
        /\ \A k \in 1 .. m : u[k - 1] <= u[k]
    BY <1>1, UpToIs
  <2> HIDE DEF u, n, m, result
  <2>3. ASSUME NEW k \in 1 .. m
        PROVE  /\ part(k) \in Segment /\ part(k).from = g[k].from /\ part(k).to = g[k].to
               /\ part(k).who = NoOne
               /\ SubSeq(words, 1, u[k - 1]) \in Seq(Word)
               /\ SubSeq(words, 1, u[k - 1]) \o part(k).words = SubSeq(words, 1, u[k])
    <3> DEFINE a == u[k - 1]
               b == u[k]
               x == SubSeq(words, a + 1, b)
    <3>1. a \in Nat /\ b \in Nat /\ a <= b /\ b <= Len(words)
      <4>1. k - 1 \in 0 .. m /\ k \in 0 .. m
        BY <1>1
      <4> QED
        BY <1>1, <2>2, <4>1 DEF n
    <3>2. part(k) = [words |-> x, from |-> g[k].from, to |-> g[k].to, who |-> NoOne]
      OBVIOUS
    <3> HIDE DEF a, b, part
    <3>3. x \in Seq(Word) /\ SubSeq(words, 1, a) \in Seq(Word)
          /\ SubSeq(words, 1, a) \o x = SubSeq(words, 1, b)
      BY <3>1, Beginnings
    <3>4. g[k].from \in Nat /\ g[k].to \in Nat /\ NoOne \in Voices
      BY <1>1, LastsAWhile DEF Voices
    <3> HIDE DEF x
    <3>5. part(k) \in Segment
      BY <3>2, <3>3, <3>4 DEF Segment
    <3>6. /\ part(k).words = x /\ part(k).from = g[k].from /\ part(k).to = g[k].to
          /\ part(k).who = NoOne
      BY <3>2
    <3>7. SubSeq(words, 1, a) \in Seq(Word) /\ SubSeq(words, 1, a) \o part(k).words = SubSeq(words, 1, b)
      BY <3>3, <3>6
    <3> QED
      BY <3>5, <3>6, <3>7 DEF a, b
  <2> HIDE DEF part
  <2>4. \A k \in 1 .. m, x \in S : On(k, x) \in S
    BY <2>3 DEF Flushed
  <2> HIDE DEF On, S
  <2>5. step \in [1 .. m -> [S -> S]] /\ \A k \in 1 .. m, x \in S : step[k][x] = On(k, x)
    BY <2>4
  <2>6. <<>> \in S
    BY DEF S
  <2> HIDE DEF step
  <2>7. PICK f : Loops(f, S, <<>>, m, step)
    BY <1>1, <2>5, <2>6, LoopExists
  <2>8. f \in [0 .. m -> S] /\ f[0] = <<>> /\ \A k \in 1 .. m : f[k] = On(k, f[k - 1])
    <3>1. f \in [0 .. m -> S] /\ f[0] = <<>> /\ \A k \in 1 .. m : f[k] = step[k][f[k - 1]]
      BY <2>7 DEF Loops
    <3>2. ASSUME NEW k \in 1 .. m PROVE f[k] = On(k, f[k - 1])
      <4>1. k - 1 \in 0 .. m
        BY <1>1
      <4> QED
        BY <2>5, <3>1, <4>1
    <3> QED
      BY <3>1, <3>2
  <2>9. Is(f)
    BY <1>1, <2>8
  <2>10. Is(made)
    BY <2>9, Zenon
  <2> HIDE DEF made
  <2>11. made[0] = <<>> /\ \A k \in 1 .. m : made[k] = On(k, made[k - 1])
    <3>1. 0 \in 0 .. m /\ \A k \in 1 .. m : k \in 0 .. m /\ k # 0
      BY <1>1
    <3> QED
      BY <2>10, <3>1
  <2> DEFINE Made(x, k) ==
               /\ x \in Seq(Segment) /\ OneByOne(x) /\ Said(x) = SubSeq(words, 1, u[k])
               /\ \A i \in DOMAIN x :
                    /\ x[i].words # <<>> /\ x[i].who = NoOne
                    /\ \E j \in 1 .. k : x[i].from = g[j].from /\ x[i].to = g[j].to
             good == {k \in 0 .. m : Made(made[k], k)}
  <2>12. 0 \in good
    <3>1. <<>> \in Seq(Segment) /\ OneByOne(<<>>) /\ DOMAIN <<>> = {}
      BY DEF OneByOne
    <3>2. SubSeq(words, 1, u[0]) = <<>>
      BY <2>2, SubSeqEmpty
    <3>3. Made(<<>>, 0)
      BY <3>1, <3>2, SaidNone
    <3> HIDE DEF Made
    <3> QED
      BY <1>1, <2>11, <3>3
  <2>13. ASSUME NEW k \in 1 .. m, k - 1 \in good PROVE k \in good
    <3> DEFINE x == made[k - 1]
               s == part(k)
    <3>1. Made(x, k - 1)
      BY <2>13
    <3>2. made[k] = Flushed(s, x)
      BY <2>11 DEF On
    <3>3. /\ s \in Segment /\ s.from = g[k].from /\ s.to = g[k].to /\ s.who = NoOne
          /\ SubSeq(words, 1, u[k - 1]) \in Seq(Word)
          /\ SubSeq(words, 1, u[k - 1]) \o s.words = SubSeq(words, 1, u[k])
      BY <2>3
    <3> HIDE DEF x, s
    <3>4. \A j \in 1 .. k - 1 : j \in 1 .. k
      OBVIOUS
    <3>5. CASE s.words = <<>>
      <4>1. SubSeq(words, 1, u[k]) = SubSeq(words, 1, u[k - 1])
        BY <3>3, <3>5, ConcatEmptySeq
      <4>2. Made(x, k)
        BY <3>1, <3>4, <4>1
      <4> HIDE DEF Made
      <4>3. made[k] = x /\ k \in 0 .. m
        BY <1>1, <3>2, <3>5 DEF Flushed
      <4> QED
        BY <4>2, <4>3
    <3>6. CASE s.words # <<>>
      <4> DEFINE y == Append(x, s)
      <4>1. made[k] = y /\ k \in 0 .. m
        BY <1>1, <3>2, <3>6 DEF Flushed
      <4>2. y \in Seq(Segment) /\ Said(y) = SubSeq(words, 1, u[k])
        <5>1. x \in Seq(Segment) /\ s \in Segment /\ Said(x) = SubSeq(words, 1, u[k - 1])
          BY <3>1, <3>3
        <5>2. Said(y) = Said(x) \o s.words
          BY <5>1, SaidAppend
        <5>3. y \in Seq(Segment)
          BY <5>1, AppendProperties
        <5> QED
          BY <3>3, <5>1, <5>2, <5>3
      <4>3. OneByOne(y)
        <5>1. ASSUME x # <<>> PROVE x[Len(x)].to <= s.from
          <6>1. Len(x) \in DOMAIN x
            BY <3>1, <5>1, EmptySeq
          <6>2. PICK j \in 1 .. k - 1 : x[Len(x)].to = g[j].to
            BY <3>1, <6>1
          <6>3. g[j].to <= g[k].from
            BY <1>1 DEF InTurn
          <6> QED
            BY <3>3, <6>2, <6>3
        <5> QED
          BY <3>1, <3>3, <5>1, ApartAppend
      <4>4. ASSUME NEW i \in DOMAIN y
            PROVE  /\ y[i].words # <<>> /\ y[i].who = NoOne
                   /\ \E j \in 1 .. k : y[i].from = g[j].from /\ y[i].to = g[j].to
        <5>1. \/ i \in DOMAIN x /\ y[i] = x[i]
              \/ y[i] = s
          BY <3>1, <3>3
        <5>2. k \in 1 .. k
          OBVIOUS
        <5>3. CASE i \in DOMAIN x /\ y[i] = x[i]
          BY <3>1, <3>4, <5>3
        <5>4. CASE y[i] = s
          BY <3>3, <3>6, <5>2, <5>4
        <5> QED
          BY <5>1, <5>3, <5>4
      <4> HIDE DEF y
      <4>5. Made(y, k)
        BY <4>2, <4>3, <4>4
      <4> HIDE DEF Made
      <4> QED
        BY <4>1, <4>5
    <3> QED
      BY <3>5, <3>6
  <2> HIDE DEF good
  <2>14. 0 .. m \subseteq good
    BY <1>1, <2>12, <2>13, EveryPosition
  <2>15. m \in good
    BY <1>1, <2>14
  <2>16. Made(made[m], m)
    BY <2>15 DEF good
  <2>17. SubSeq(words, 1, u[m]) = words
    BY <2>2, SubSeqFull DEF n
  <2>18. ASSUME NEW i \in DOMAIN result
         PROVE  /\ result[i].words # <<>> /\ result[i].who = NoOne
                /\ \E x \in ToSet(g) : x.from <= result[i].from /\ result[i].from <= x.to /\ result[i].to <= x.to
    <3>1. PICK j \in 1 .. m : result[i].from = g[j].from /\ result[i].to = g[j].to
      BY <2>1, <2>16
    <3>2. g[j] \in ToSet(g) /\ g[j].from \in Nat /\ g[j].to \in Nat /\ g[j].from < g[j].to
      BY <1>1, LastsAWhile DEF ToSet
    <3>3. result[i].words # <<>> /\ result[i].who = NoOne
      BY <2>1, <2>16
    <3> QED
      BY <3>1, <3>2, <3>3
  <2>19. Tells(result, words, ToSet(g))
    BY <2>1, <2>16, <2>17, <2>18 DEF Tells
  <2> QED
    BY <2>19 DEF result
<1> QED
  BY <1>2, <1>3

\* The inductive invariant: what is known of the requests, and of the segments
\* made so far by the route the recording takes.
AnsweredBy(s, a) ==
    /\ \A w \in ToSet(s.words) : w[1] = a
    /\ \E x \in ToSet(groups[a]) :
         x.from <= s.from /\ s.from <= x.to /\ s.to <= x.to + MIN_SEGMENT_SEC

SpokenTyped ==
    /\ speech \in Speeches
    /\ route \in {"audio", "chunks", "whole", "words", "text", "done", "failed"}
    /\ asked \in Nat /\ metered \in BOOLEAN
    /\ segs \in Seq(Segment) /\ open \in Segment /\ spoken \in Seq(Word)

SpeechGrouped ==
    /\ InRequests(groups)
    /\ groups # <<>> => \A r \in ToSet(speech.regions) : HeardIn(r, Held(groups))

NothingYet ==
    route \in {"audio", "whole"} =>
        segs = <<>> /\ open = NoSegment /\ spoken = <<>> /\ asked = 0 /\ metered = FALSE

ChunksTold ==
    route = "chunks" =>
        /\ metered = FALSE /\ asked <= Len(groups)
        /\ Said(segs) = spoken /\ KeepApart
        /\ \A i \in DOMAIN segs : segs[i].words # <<>> /\ \E a \in 1 .. asked : AnsweredBy(segs[i], a)

OneVoice(s) ==
    \A w \in ToSet(s.words) : w[1] = 0 /\ w[2] \in 1 .. asked /\ speech.words[w[2]].who = s.who

\* From when on the next segment may begin.
MayBegin == IF open.words = <<>> THEN open.to ELSE open.from

WordsTold ==
    route = "words" =>
        /\ asked <= Len(speech.words)
        /\ Said(segs) \o open.words = spoken
        /\ \A i \in DOMAIN segs : segs[i].words # <<>> /\ OneVoice(segs[i])
        /\ OneVoice(open) /\ OneByOne(segs)
        /\ segs # <<>> => segs[Len(segs)].to <= MayBegin
        /\ \A k \in asked + 1 .. Len(speech.words) : speech.words[k].said =>
              \A t \in Given(speech.words[k]) : open.to <= t /\ open.from <= t

ToldWhenDone == route = "done" => EveryWordOnce /\ OneSpeakerEach /\ KeepApart

SpokenInv == SpokenTyped /\ SpeechGrouped /\ NothingYet /\ ChunksTold /\ WordsTold /\ ToldWhenDone

\* KeepApart, of any list: what two segments in a row owe one another.
Near(x, y) ==
    x.to <= y.from + (IF Head(x.words)[1] = Head(y.words)[1] THEN 0 ELSE overlap_sec + MIN_SEGMENT_SEC)

Keep(l) == \A i \in 1 .. Len(l) - 1 : Near(l[i], l[i + 1])

LEMMA KeepIs == (KeepApart <=> Keep(segs)) /\ (KeepApart' <=> Keep(segs'))
BY DEF KeepApart, Keep, Near

LEMMA OnceIs ==
  (EveryWordOnce <=> Said(segs) = spoken) /\ (EveryWordOnce' <=> Said(segs') = spoken')
BY DEF EveryWordOnce, Said, Texts

LEMMA HeadIn ==
  ASSUME NEW S, NEW s \in Seq(S), s # <<>>
  PROVE  Head(s) \in ToSet(s) /\ Head(s) \in S
<1>1. 1 \in 1 .. Len(s) /\ Head(s) = s[1]  OBVIOUS
<1> QED  BY <1>1, Element DEF ToSet

LEMMA Parts ==
  ASSUME NEW s \in Segment
  PROVE  s.words \in Seq(Word) /\ s.from \in Nat /\ s.to \in Nat /\ s.who \in Voices
BY DEF Segment

LEMMA Widths == ASSUME SpokenAssumption PROVE overlap_sec \in Nat /\ MIN_SEGMENT_SEC \in Nat
<1>1. MIN_SEGMENT_SEC \in {most_words, MIN_SEGMENT_SEC, MAX_SEGMENT_SEC}  OBVIOUS
<1>2. MIN_SEGMENT_SEC \in Nat  BY <1>1 DEF SpokenAssumption
<1> QED  BY <1>2, Steps

LEMMA ApartKeeps ==
  ASSUME SpokenAssumption, NEW l \in Seq(Segment), OneByOne(l)
  PROVE  Keep(l)
<1>1. overlap_sec \in Nat /\ MIN_SEGMENT_SEC \in Nat  BY Widths
<1> SUFFICES ASSUME NEW i \in 1 .. Len(l) - 1 PROVE Near(l[i], l[i + 1])
  BY DEF Keep
<1>2. l[i].to <= l[i + 1].from  BY DEF OneByOne
<1>3. Len(l) \in Nat /\ i \in 1 .. Len(l) /\ i + 1 \in 1 .. Len(l)  BY LenProperties
<1>4. l[i] \in Segment /\ l[i + 1] \in Segment  BY <1>3, ElementOfSeq
<1>5. l[i].to \in Nat /\ l[i + 1].from \in Nat  BY <1>4, Parts
<1>6. l[i].to <= l[i + 1].from + 0 /\ l[i].to <= l[i + 1].from + (overlap_sec + MIN_SEGMENT_SEC)
  BY <1>1, <1>2, <1>5
<1> QED  BY <1>6 DEF Near

LEMMA KeepBoth ==
  ASSUME NEW a \in Seq(Segment), NEW b \in Seq(Segment), Keep(a), Keep(b),
         a # <<>> /\ b # <<>> => Near(a[Len(a)], b[1])
  PROVE  Keep(a \o b)
<1> DEFINE c == a \o b
<1>1. c \in Seq(Segment) /\ Len(c) = Len(a) + Len(b) /\ Len(a) \in Nat /\ Len(b) \in Nat
      /\ \A i \in 1 .. Len(c) : c[i] = IF i <= Len(a) THEN a[i] ELSE b[i - Len(a)]
  BY ConcatProperties, LenProperties
<1> HIDE DEF c
<1> SUFFICES ASSUME NEW i \in 1 .. Len(c) - 1 PROVE Near(c[i], c[i + 1])
  BY DEF Keep, c
<1>2. i \in 1 .. Len(c) /\ i + 1 \in 1 .. Len(c)  BY <1>1
<1>3. CASE i < Len(a)
  <2>1. c[i] = a[i] /\ c[i + 1] = a[i + 1] /\ i \in 1 .. Len(a) - 1  BY <1>1, <1>2, <1>3
  <2> QED  BY <2>1 DEF Keep
<1>4. CASE i = Len(a)
  <2>1. c[i] = a[Len(a)] /\ c[i + 1] = b[1]  BY <1>1, <1>2, <1>4
  <2>2. a # <<>> /\ b # <<>>  BY <1>1, <1>2, <1>4
  <2> QED  BY <2>1, <2>2
<1>5. CASE i > Len(a)
  <2>1. c[i] = b[i - Len(a)] /\ c[i + 1] = b[(i - Len(a)) + 1] /\ i - Len(a) \in 1 .. Len(b) - 1
    BY <1>1, <1>2, <1>5
  <2> QED  BY <2>1 DEF Keep
<1> QED  BY <1>1, <1>2, <1>3, <1>4, <1>5

LEMMA KeepWidened ==
  ASSUME SpokenAssumption, NEW l \in Seq(Segment), Keep(l)
  PROVE  Keep(Widened(l))
<1> DEFINE w == Widened(l)
<1>1. overlap_sec \in Nat /\ MIN_SEGMENT_SEC \in Nat  BY Widths
<1>2. w \in Seq(Segment) /\ Len(w) = Len(l) /\ Len(l) \in Nat
      /\ \A i \in 1 .. Len(l) :
              /\ w[i].words = l[i].words /\ w[i].from = l[i].from
              /\ \/ w[i].to = l[i].to
                 \/ i < Len(l) => w[i].to <= l[i + 1].from
  BY WidenedIs, LenProperties
<1> HIDE DEF w
<1> SUFFICES ASSUME NEW i \in 1 .. Len(l) - 1 PROVE Near(w[i], w[i + 1])
  BY <1>2 DEF Keep, w
<1>3. i \in 1 .. Len(l) /\ i + 1 \in 1 .. Len(l) /\ i < Len(l)  BY <1>2
<1>4. w[i].words = l[i].words /\ w[i + 1].words = l[i + 1].words /\ w[i + 1].from = l[i + 1].from
      /\ (w[i].to = l[i].to \/ w[i].to <= l[i + 1].from)
  BY <1>2, <1>3
<1>5. Near(l[i], l[i + 1])  BY DEF Keep
<1>6. CASE w[i].to = l[i].to
  BY <1>4, <1>5, <1>6 DEF Near
<1>7. CASE w[i].to <= w[i + 1].from
  <2>1. w[i] \in Segment /\ w[i + 1] \in Segment  BY <1>2, <1>3, ElementOfSeq
  <2>2. w[i].to \in Nat /\ w[i + 1].from \in Nat  BY <2>1, Parts
  <2>3. w[i].to <= w[i + 1].from + 0 /\ w[i].to <= w[i + 1].from + (overlap_sec + MIN_SEGMENT_SEC)
    BY <1>1, <1>7, <2>2
  <2> QED  BY <2>3 DEF Near
<1> QED  BY <1>4, <1>6, <1>7

LEMMA SpeechIs ==
  ASSUME SpokenAssumption, NEW s \in Speeches
  PROVE  IsSpeech(s) /\ s.regions \in RegionList
<1>1. IsSpeech(s)  BY DEF SpokenAssumption
<1>2. s.regions \in Seq([from : Nat, to : Nat])
      /\ (\A i \in DOMAIN s.regions : s.regions[i].from < s.regions[i].to)
      /\ \A j \in DOMAIN s.regions : \A i \in 1 .. j - 1 : s.regions[i].to <= s.regions[j].from
  BY <1>1 DEF IsSpeech
<1> DEFINE l == s.regions
<1> HIDE DEF l
<1>3. l \in Seq([from : Nat, to : Nat]) /\ \A i \in DOMAIN l : l[i].from < l[i].to  BY <1>2 DEF l
<1>4. \A i \in 1 .. Len(l) : l[i] \in [from : Nat, to : Nat]  BY <1>3, ElementOfSeq
<1>5. Len(l) \in Nat /\ DOMAIN l = 1 .. Len(l)  BY <1>3, LenProperties
<1>6. \A i \in 1 .. Len(l) : l[i] \in Region  BY <1>3, <1>4, <1>5 DEF Region
<1>7. l = [i \in 1 .. Len(l) |-> l[i]]  BY <1>3, SeqDef
<1>8. l \in Seq(Region)  BY <1>5, <1>6, <1>7, IsASeq
<1> QED  BY <1>1, <1>2, <1>8 DEF l, RegionList

LEMMA NothingSound == InRequests(<<>>)
<1>1. <<>> \in Seq(Seq(Region)) /\ DOMAIN <<>> = {}  OBVIOUS
<1> QED  BY <1>1 DEF InRequests

LEMMA NothingKept == Said(<<>>) = <<>> /\ Keep(<<>>) /\ OneByOne(<<>>)
<1>1. Len(<<>>) = 0  OBVIOUS
<1>2. 1 .. Len(<<>>) - 1 = {}  BY <1>1
<1> QED  BY <1>2, SaidNone DEF Keep, OneByOne

LEMMA NoSegmentIs ==
  /\ NoSegment \in Segment /\ NoSegment.words = <<>> /\ NoSegment.from = 0 /\ NoSegment.to = 0
  /\ NoOne \in Voices
<1>1. NoOne \in Voices  BY DEF Voices
<1>2. <<>> \in Seq(Word)  OBVIOUS
<1> QED  BY <1>1, <1>2 DEF NoSegment, Segment

LEMMA SpokenBegins ==
  ASSUME SpokenAssumption, SpokenInit
  PROVE  SpokenInv
<1>1. SpokenTyped
  <2>1. segs \in Seq(Segment) /\ spoken \in Seq(Word)  BY DEF SpokenInit
  <2>2. open \in Segment  BY NoSegmentIs DEF SpokenInit
  <2> QED  BY <2>1, <2>2 DEF SpokenInit, SpokenTyped
<1>2. SpeechGrouped  BY NothingSound DEF SpokenInit, SpeechGrouped
<1>3. NothingYet  BY DEF SpokenInit, NothingYet
<1>4. route = "audio"  BY DEF SpokenInit
<1> QED  BY <1>1, <1>2, <1>3, <1>4 DEF SpokenInv, ChunksTold, WordsTold, ToldWhenDone

LEMMA GroupsStay ==
  ASSUME SpeechGrouped, UNCHANGED <<speech, groups>> PROVE SpeechGrouped'
BY DEF SpeechGrouped

LEMMA TypesStay ==
  ASSUME SpokenTyped, UNCHANGED <<speech, open, segs, spoken>>, asked' \in Nat, metered' \in BOOLEAN,
         route' \in {"audio", "chunks", "whole", "words", "text", "done", "failed"}
  PROVE  SpokenTyped'
BY DEF SpokenTyped

LEMMA WithoutVoiceKeeps ==
  ASSUME SpokenInv, WithoutVoice
  PROVE  SpokenInv'
<1>1. SpokenTyped /\ SpeechGrouped /\ NothingYet  BY DEF SpokenInv
<1>2. SpokenTyped'
  BY <1>1, TypesStay DEF SpokenTyped, WithoutVoice
<1>3. SpeechGrouped'  BY <1>1, GroupsStay DEF WithoutVoice
<1>4. NothingYet'  BY <1>1 DEF WithoutVoice, NothingYet
<1>5. route' = "whole"  BY DEF WithoutVoice
<1> QED  BY <1>2, <1>3, <1>4, <1>5 DEF SpokenInv, ChunksTold, WordsTold, ToldWhenDone

\* Of nothing said nothing can be wrong.
LEMMA NothingToTell ==
  ASSUME segs = <<>>, spoken = <<>>, metered = FALSE
  PROVE  EveryWordOnce /\ OneSpeakerEach /\ KeepApart /\ Said(segs) = spoken
<1>1. OneSpeakerEach  BY DEF OneSpeakerEach
<1> QED  BY <1>1, NothingKept, KeepIs, OnceIs

LEMMA GroupedKeeps ==
  ASSUME SpokenAssumption, SpokenInv, Grouped
  PROVE  SpokenInv'
<1>1. SpokenTyped /\ SpeechGrouped /\ NothingYet  BY DEF SpokenInv
<1>2. segs = <<>> /\ spoken = <<>> /\ asked = 0 /\ metered = FALSE
  BY <1>1 DEF Grouped, NothingYet
<1>3. segs' = <<>> /\ spoken' = <<>> /\ asked' = 0 /\ metered' = FALSE /\ speech' = speech /\ open' = open
      /\ route' \in {"done", "chunks"}
  BY <1>2 DEF Grouped
<1>4. SpokenTyped'
  BY <1>1, <1>2, <1>3, TypesStay DEF SpokenTyped
<1>5. InRequests(groups') /\ \A r \in ToSet(speech'.regions) : HeardIn(r, Held(groups'))
  <2>1. speech.regions \in RegionList  BY <1>1, SpeechIs DEF SpokenTyped
  <2>2. groups' = group_vad_segments(speech.regions)  BY DEF Grouped
  <2> QED  BY <2>1, <2>2, <1>3, GroupsSound
<1>6. SpeechGrouped'  BY <1>5 DEF SpeechGrouped
<1>7. Said(segs') = spoken' /\ Keep(segs')  BY <1>3, NothingKept
<1>8. OneSpeakerEach'  BY <1>3 DEF OneSpeakerEach
<1>9. ToldWhenDone'  BY <1>7, <1>8, KeepIs, OnceIs DEF ToldWhenDone
<1>10. ChunksTold'
  <2>1. groups' \in Seq(Seq(Region))  BY <1>5 DEF InRequests
  <2>2. Len(groups') \in Nat  BY <2>1, LenProperties
  <2>3. asked' <= Len(groups')  BY <2>2, <1>3
  <2>4. DOMAIN segs' = {}  BY <1>3
  <2> QED  BY <2>3, <2>4, <1>3, <1>7, KeepIs DEF ChunksTold
<1> QED  BY <1>3, <1>4, <1>6, <1>9, <1>10 DEF SpokenInv, NothingYet, WordsTold

LEMMA NotTranscribedKeeps ==
  ASSUME SpokenInv, NotTranscribed
  PROVE  SpokenInv'
<1>1. SpokenTyped /\ SpeechGrouped  BY DEF SpokenInv
<1>2. SpokenTyped'  BY <1>1, TypesStay DEF SpokenTyped, NotTranscribed
<1>3. SpeechGrouped'  BY <1>1, GroupsStay DEF NotTranscribed
<1>4. route' = "failed"  BY DEF NotTranscribed
<1> QED  BY <1>2, <1>3, <1>4 DEF SpokenInv, NothingYet, ChunksTold, WordsTold, ToldWhenDone

LEMMA SkipChunkKeeps ==
  ASSUME SpokenInv, SkipChunk
  PROVE  SpokenInv'
<1>1. SpokenTyped /\ SpeechGrouped /\ ChunksTold  BY DEF SpokenInv
<1>2. asked \in Nat /\ route = "chunks" /\ asked' = asked + 1 /\ asked < Len(groups)
      /\ UNCHANGED <<speech, route, groups, open, segs, spoken, metered>>
  BY <1>1 DEF SkipChunk, SpokenTyped
<1>3. SpokenTyped'  BY <1>1, <1>2, TypesStay DEF SpokenTyped
<1>4. SpeechGrouped'  BY <1>1, <1>2, GroupsStay
<1>5. metered = FALSE /\ Said(segs) = spoken /\ KeepApart
      /\ \A i \in DOMAIN segs : segs[i].words # <<>> /\ \E a \in 1 .. asked : AnsweredBy(segs[i], a)
  BY <1>1, <1>2 DEF ChunksTold
<1>6. KeepApart'  BY <1>2, <1>5, KeepIs
<1>7. ASSUME NEW i \in DOMAIN segs' PROVE segs'[i].words # <<>> /\ \E a \in 1 .. asked' : AnsweredBy(segs[i], a)'
  <2>1. PICK a \in 1 .. asked : AnsweredBy(segs[i], a)  BY <1>2, <1>5
  <2>2. AnsweredBy(segs[i], a)'  BY <2>1, <1>2 DEF AnsweredBy
  <2>3. a \in 1 .. asked'  BY <1>2
  <2> QED  BY <2>2, <2>3, <1>2, <1>5
<1>8. asked' <= Len(groups)'
  <2>1. groups \in Seq(Seq(Region))  BY <1>1 DEF SpeechGrouped, InRequests
  <2>2. Len(groups) \in Nat  BY <2>1, LenProperties
  <2> QED  BY <2>2, <1>2
<1>9. ChunksTold'  BY <1>2, <1>5, <1>6, <1>7, <1>8 DEF ChunksTold
<1> QED  BY <1>2, <1>3, <1>4, <1>9 DEF SpokenInv, NothingYet, WordsTold, ToldWhenDone

LEMMA merge_transcriptsKeeps ==
  ASSUME SpokenAssumption, SpokenInv, merge_transcripts
  PROVE  SpokenInv'
<1>1. SpokenTyped /\ SpeechGrouped /\ ChunksTold  BY DEF SpokenInv
<1>2. route = "chunks" /\ route' = "done" /\ segs' = Widened(segs)
      /\ UNCHANGED <<speech, groups, asked, open, spoken, metered>>
  BY DEF merge_transcripts
<1>3. segs \in Seq(Segment) /\ Said(segs) = spoken /\ Keep(segs) /\ metered = FALSE
  BY <1>1, <1>2, KeepIs DEF SpokenTyped, ChunksTold
<1>4. segs' \in Seq(Segment) /\ Said(segs') = spoken' /\ Keep(segs')
  BY <1>2, <1>3, WidenedIs, WidenedSays, KeepWidened
<1>5. OneSpeakerEach'  BY <1>2, <1>3 DEF OneSpeakerEach
<1>6. SpokenTyped'  BY <1>1, <1>2, <1>4 DEF SpokenTyped
<1>7. SpeechGrouped'  BY <1>1, <1>2, GroupsStay
<1>8. ToldWhenDone'  BY <1>4, <1>5, KeepIs, OnceIs DEF ToldWhenDone
<1> QED  BY <1>2, <1>6, <1>7, <1>8 DEF SpokenInv, NothingYet, ChunksTold, WordsTold

\* A whole answer's words, each with the request it answers.
AnswerOf(a, n) == [j \in 1 .. n |-> <<a, j>>]

LEMMA AnswerIs ==
  ASSUME NEW a \in Nat, NEW n \in Nat
  PROVE  AnswerOf(a, n) \in Seq(Word) /\ \A w \in ToSet(AnswerOf(a, n)) : w[1] = a
<1>1. \A j \in 1 .. n : <<a, j>> \in Word  BY DEF Word
<1>2. AnswerOf(a, n) \in Seq(Word)  BY <1>1, IsASeq DEF AnswerOf
<1>3. \A w \in ToSet(AnswerOf(a, n)) : w[1] = a  BY DEF ToSet, AnswerOf
<1> QED  BY <1>2, <1>3

\* Every segment a chunk's answer gives is of that chunk, in its words and in
\* its time.
ToldBy(a, n, e) == Widened(synthesize_segments(AnswerOf(a, n), e, groups[a]))

LEMMA ChunkAnswered ==
  ASSUME SpokenAssumption, InRequests(groups), NEW a \in 1 .. Len(groups), NEW n \in Nat, NEW e \in Nat
  PROVE  /\ ToldBy(a, n, e) \in Seq(Segment) /\ Said(ToldBy(a, n, e)) = AnswerOf(a, n)
         /\ AnswerOf(a, n) \in Seq(Word) /\ OneByOne(ToldBy(a, n, e))
         /\ \A i \in DOMAIN ToldBy(a, n, e) :
              ToldBy(a, n, e)[i].words # <<>> /\ AnsweredBy(ToldBy(a, n, e)[i], a)
<1> DEFINE words == AnswerOf(a, n)
           w == ToldBy(a, n, e)
           l == synthesize_segments(words, e, groups[a])
           g == groups[a]
<1>1. a \in Nat /\ words \in Seq(Word) /\ \A v \in ToSet(words) : v[1] = a
  <2>1. a \in Nat  BY DEF InRequests
  <2> QED  BY <2>1, AnswerIs
<1>2. g \in Seq(Region) /\ g # <<>> /\ InTurn(g)
  <2>1. groups \in Seq(Seq(Region)) /\ DOMAIN groups = 1 .. Len(groups)  BY LenProperties DEF InRequests
  <2>2. groups[a] \in Seq(Region)  BY <2>1, ElementOfSeq
  <2> QED  BY <2>1, <2>2 DEF InRequests
<1>3. Tells(l, words, ToSet(g))  BY <1>1, <1>2, AnswersTell
<1>4. w = Widened(l) /\ g = groups[a]  BY DEF ToldBy
<1> HIDE DEF words, w, l, g
<1>5. l \in Seq(Segment) /\ Said(l) = words /\ OneByOne(l)
      /\ \A i \in DOMAIN l :
         /\ l[i].words # <<>> /\ l[i].who = NoOne
         /\ \E x \in ToSet(g) : x.from <= l[i].from /\ l[i].from <= x.to /\ l[i].to <= x.to
  BY <1>3 DEF Tells
<1>6. /\ w \in Seq(Segment) /\ Len(w) = Len(l)
         /\ \A i \in 1 .. Len(l) :
              /\ w[i].words = l[i].words /\ w[i].from = l[i].from
              /\ w[i].to = l[i].to \/ w[i].to <= l[i].from + MIN_SEGMENT_SEC
  BY <1>4, <1>5, WidenedIs
<1>7. Said(w) = words /\ OneByOne(w)  BY <1>4, <1>5, WidenedSays, WidenedApart
<1>8. ASSUME NEW i \in DOMAIN w
      PROVE  w[i].words # <<>> /\ AnsweredBy(w[i], a)
  <2>1. i \in 1 .. Len(l) /\ i \in DOMAIN l  BY <1>5, <1>6, LenProperties
  <2>2. w[i].words # <<>>  BY <2>1, <1>5, <1>6
  <2>3. \A v \in ToSet(w[i].words) : v[1] = a
    <3>1. ToSet(w[i].words) \subseteq ToSet(words)  BY <1>6, <1>7, SaidOf
    <3> QED  BY <3>1, <1>1
  <2>4. PICK x \in ToSet(g) : x.from <= l[i].from /\ l[i].from <= x.to /\ l[i].to <= x.to
    BY <2>1, <1>5
  <2>5. x.from \in Nat /\ x.to \in Nat
    <3>1. x \in Region  BY <1>2, <2>4, Element DEF ToSet
    <3> QED  BY <3>1, LastsAWhile
  <2>6. l[i].from \in Nat /\ l[i].to \in Nat /\ w[i].to \in Nat
    <3>1. l[i] \in Segment /\ w[i] \in Segment  BY <1>5, <1>6, <2>1, ElementOfSeq
    <3> QED  BY <3>1, Parts
  <2>7. MIN_SEGMENT_SEC \in Nat  BY Widths
  <2>8. w[i].from = l[i].from /\ (w[i].to = l[i].to \/ w[i].to <= l[i].from + MIN_SEGMENT_SEC)
    BY <2>1, <1>6
  <2>9. x.from <= w[i].from /\ w[i].from <= x.to /\ w[i].to <= x.to + MIN_SEGMENT_SEC
    BY <2>4, <2>5, <2>6, <2>7, <2>8
  <2> QED  BY <2>2, <2>3, <2>4, <2>9, <1>4 DEF AnsweredBy
<1> QED  BY <1>1, <1>6, <1>7, <1>8 DEF words, w

\* Two answers repeat no more than a forced cut does, and a widening.
LEMMA AnswersNear ==
  ASSUME SpokenAssumption, InRequests(groups), NEW b \in 1 .. Len(groups), NEW a \in 1 .. b - 1,
         NEW x \in Segment, x.words # <<>>, AnsweredBy(x, a),
         NEW y \in Segment, y.words # <<>>, AnsweredBy(y, b)
  PROVE  Near(x, y)
<1>1. groups \in Seq(Seq(Region)) /\ Len(groups) \in Nat /\ DOMAIN groups = 1 .. Len(groups)
  BY LenProperties DEF InRequests
<1>2. a \in DOMAIN groups /\ b \in DOMAIN groups /\ a # b  BY <1>1
<1>3. groups[a] \in Seq(Region) /\ groups[b] \in Seq(Region)  BY <1>1, <1>2, Element
<1>4. PICK p \in ToSet(groups[a]) : x.to <= p.to + MIN_SEGMENT_SEC  BY DEF AnsweredBy
<1>5. PICK q \in ToSet(groups[b]) : q.from <= y.from  BY DEF AnsweredBy
<1>6. p.to <= q.from + overlap_sec  BY <1>2, <1>4, <1>5 DEF InRequests, Follows
<1>7. p.to \in Nat /\ q.from \in Nat
  <2>1. p \in Region /\ q \in Region  BY <1>3, <1>4, <1>5, Element DEF ToSet
  <2> QED  BY <2>1, LastsAWhile
<1>8. x.to \in Nat /\ y.from \in Nat /\ x.words \in Seq(Word) /\ y.words \in Seq(Word)  BY Parts
<1>9. x.to <= y.from + (overlap_sec + MIN_SEGMENT_SEC)
  BY <1>4, <1>5, <1>6, <1>7, <1>8, Widths
<1>10. Head(x.words)[1] = a /\ Head(y.words)[1] = b
  BY <1>8, HeadIn DEF AnsweredBy
<1> QED  BY <1>2, <1>9, <1>10 DEF Near

LEMMA AnswerChunkKeeps ==
  ASSUME SpokenAssumption, SpokenInv, NEW n \in 0 .. most_words, NEW e \in 0 .. n, AnswerChunk(n, e)
  PROVE  SpokenInv'
<1> DEFINE words == AnswerOf(asked + 1, n)
           w == ToldBy(asked + 1, n, e)
<1>1. SpokenTyped /\ SpeechGrouped /\ ChunksTold  BY DEF SpokenInv
<1>2. asked \in Nat /\ segs \in Seq(Segment) /\ spoken \in Seq(Word)  BY <1>1 DEF SpokenTyped
<1>3. route = "chunks" /\ asked' = asked + 1 /\ asked < Len(groups) /\ segs' = segs \o w /\ spoken' = spoken \o words
      /\ UNCHANGED <<speech, route, groups, open, metered>>
  BY DEF AnswerChunk, AnswerOf, ToldBy
<1>4. InRequests(groups) /\ groups \in Seq(Seq(Region))  BY <1>1 DEF SpeechGrouped, InRequests
<1>5. Len(groups) \in Nat /\ asked + 1 \in 1 .. Len(groups) /\ n \in Nat /\ e \in Nat
  <2>1. most_words \in Nat
    <3>1. most_words \in {most_words, MIN_SEGMENT_SEC, MAX_SEGMENT_SEC}  OBVIOUS
    <3> QED  BY <3>1 DEF SpokenAssumption
  <2>2. Len(groups) \in Nat  BY <1>4, LenProperties
  <2> QED  BY <2>1, <2>2, <1>2, <1>3
<1>6. /\ w \in Seq(Segment) /\ Said(w) = words /\ words \in Seq(Word) /\ OneByOne(w)
      /\ \A i \in DOMAIN w : w[i].words # <<>> /\ AnsweredBy(w[i], asked + 1)
  BY <1>4, <1>5, ChunkAnswered
<1> HIDE DEF words, w
<1>7. metered = FALSE /\ Said(segs) = spoken /\ Keep(segs)
      /\ \A i \in DOMAIN segs : segs[i].words # <<>> /\ \E a \in 1 .. asked : AnsweredBy(segs[i], a)
  BY <1>1, <1>3, KeepIs DEF ChunksTold
<1>8. Said(segs') = spoken'  BY <1>2, <1>3, <1>6, <1>7, SaidBoth
<1>9. Keep(segs')
  <2>1. Keep(w)  BY <1>6, ApartKeeps
  <2>2. ASSUME segs # <<>>, w # <<>> PROVE Near(segs[Len(segs)], w[1])
    <3>1. Len(segs) \in DOMAIN segs /\ 1 \in DOMAIN w  BY <1>2, <1>6, <2>2, LenProperties, EmptySeq
    <3>2. segs[Len(segs)] \in Segment /\ w[1] \in Segment  BY <3>1, <1>2, <1>6, Element
    <3>3. PICK a \in 1 .. asked : AnsweredBy(segs[Len(segs)], a)  BY <3>1, <1>7
    <3>4. a \in 1 .. (asked + 1) - 1  BY <1>2
    <3>5. segs[Len(segs)].words # <<>> /\ w[1].words # <<>> /\ AnsweredBy(w[1], asked + 1)
      BY <3>1, <1>6, <1>7
    <3> QED  BY <1>4, <1>5, <3>2, <3>3, <3>4, <3>5, AnswersNear
  <2> QED  BY <2>1, <2>2, <1>2, <1>3, <1>6, <1>7, KeepBoth
<1>10. segs' \in Seq(Segment) /\ spoken' \in Seq(Word)  BY <1>2, <1>3, <1>6, ConcatProperties
<1>11. SpokenTyped'  BY <1>1, <1>2, <1>3, <1>10 DEF SpokenTyped
<1>12. SpeechGrouped'  BY <1>1, <1>3, GroupsStay
<1>13. ASSUME NEW i \in DOMAIN segs' PROVE segs'[i].words # <<>> /\ \E a \in 1 .. asked' : AnsweredBy(segs'[i], a)
  <2>1. CASE i \in DOMAIN segs /\ segs'[i] = segs[i]
    <3>1. PICK a \in 1 .. asked : AnsweredBy(segs[i], a)  BY <2>1, <1>7
    <3>2. a \in 1 .. asked'  BY <1>2, <1>3
    <3> QED  BY <2>1, <3>1, <3>2, <1>7
  <2>2. CASE i - Len(segs) \in DOMAIN w /\ segs'[i] = w[i - Len(segs)]
    <3>1. asked + 1 \in 1 .. asked'  BY <1>2, <1>3
    <3> QED  BY <2>2, <3>1, <1>6
  <2> QED  BY <2>1, <2>2, <1>2, <1>3, <1>6, InBoth
<1>14. \A i \in DOMAIN segs' : segs'[i].words # <<>> /\ (\E a \in 1 .. asked : AnsweredBy(segs[i], a))'
  BY <1>13, <1>3 DEF AnsweredBy
<1>15. ChunksTold'
  <2>1. asked' <= Len(groups')  BY <1>2, <1>3, <1>5
  <2> QED  BY <2>1, <1>3, <1>7, <1>8, <1>9, <1>14, KeepIs DEF ChunksTold
<1> QED  BY <1>3, <1>11, <1>12, <1>15 DEF SpokenInv, NothingYet, WordsTold, ToldWhenDone

LEMMA AnswerTextKeeps ==
  ASSUME SpokenAssumption, SpokenInv, NEW n \in 0 .. most_words, AnswerText(n)
  PROVE  SpokenInv'
<1> DEFINE words == AnswerOf(0, n)
           r == [from |-> 0, to |-> speech.length]
           l == BySentence(words, speech.sentence, r)
<1>1. SpokenTyped /\ SpeechGrouped  BY DEF SpokenInv
<1>2. segs' = Widened(l) /\ spoken' = words /\ metered' = TRUE /\ route' \in {"failed", "done"}
      /\ UNCHANGED <<speech, groups, asked, open>>
  BY DEF AnswerText, AnswerOf
<1>3. words \in Seq(Word)
  <2>1. most_words \in {most_words, MIN_SEGMENT_SEC, MAX_SEGMENT_SEC}  OBVIOUS
  <2>2. most_words \in Nat  BY <2>1 DEF SpokenAssumption
  <2>3. n \in Nat  BY <2>2
  <2> QED  BY <2>3, AnswerIs
<1>4. speech.length \in Nat /\ speech.sentence \in Nat
  BY <1>1, SpeechIs DEF SpokenTyped, IsSpeech
<1>5. r \in [from : Nat, to : Nat] /\ r.from <= r.to  BY <1>4
<1>6. Tells(l, words, {r})
  <2> HIDE DEF r, words
  <2> QED  BY <1>3, <1>4, <1>5, SentencesTell
<1> HIDE DEF l, words, r
<1>7. l \in Seq(Segment) /\ Said(l) = words /\ OneByOne(l) /\ \A i \in DOMAIN l : l[i].who = NoOne
  BY <1>6 DEF Tells
<1>8. segs' \in Seq(Segment) /\ Len(segs') = Len(l) /\ \A i \in 1 .. Len(l) : segs'[i].who = l[i].who
  BY <1>2, <1>7, WidenedIs
<1>9. Said(segs') = spoken' /\ Keep(segs')
  BY <1>2, <1>7, <1>8, WidenedSays, WidenedApart, ApartKeeps
<1>10. OneSpeakerEach'
  <2>1. \A i \in DOMAIN segs' : segs'[i].who = NoOne  BY <1>7, <1>8, LenProperties
  <2> QED  BY <2>1 DEF OneSpeakerEach
<1>11. SpokenTyped'  BY <1>1, <1>2, <1>3, <1>8 DEF SpokenTyped
<1>12. SpeechGrouped'  BY <1>1, <1>2, GroupsStay
<1>13. ToldWhenDone'  BY <1>9, <1>10, KeepIs, OnceIs DEF ToldWhenDone
<1> QED  BY <1>2, <1>11, <1>12, <1>13 DEF SpokenInv, NothingYet, ChunksTold, WordsTold

LEMMA WordsAre ==
  ASSUME SpokenAssumption, SpokenTyped
  PROVE  speech.words \in Seq(Heard) /\ Len(speech.words) \in Nat
         /\ \A k \in 1 .. Len(speech.words) : speech.words[k] \in Heard
<1>1. speech.words \in Seq(Heard)  BY SpeechIs DEF SpokenTyped, IsSpeech
<1> QED  BY <1>1, LenProperties, ElementOfSeq

LEMMA TimesGiven ==
  ASSUME NEW w \in Heard
  PROVE  /\ \A t \in Given(w) : t \in Nat
         /\ w.from # Missing => w.from \in Given(w) /\ w.from \in Nat
         /\ w.to # Missing => w.to \in Given(w) /\ w.to \in Nat
         /\ w.who \in Voices
BY DEF Heard, Given

LEMMA AnswerWordsKeeps ==
  ASSUME SpokenAssumption, SpokenInv, AnswerWords
  PROVE  SpokenInv'
<1>1. SpokenTyped /\ SpeechGrouped /\ NothingYet  BY DEF SpokenInv
<1>2. route = "whole" /\ metered' = TRUE /\ route' = "words"
      /\ UNCHANGED <<speech, groups, asked, open, segs, spoken>>
  BY DEF AnswerWords
<1>3. segs = <<>> /\ open = NoSegment /\ spoken = <<>> /\ asked = 0  BY <1>1, <1>2 DEF NothingYet
<1>4. SpokenTyped'  BY <1>1, <1>2 DEF SpokenTyped
<1>5. SpeechGrouped'  BY <1>1, <1>2, GroupsStay
<1>6. asked' <= Len(speech'.words)  BY <1>1, <1>2, <1>3, WordsAre
<1>7. Said(segs') \o open'.words = spoken' /\ OneByOne(segs') /\ segs' = <<>>
  BY <1>2, <1>3, NothingKept, NoSegmentIs
<1>8. OneVoice(open)'
  <2>1. open'.words = <<>>  BY <1>2, <1>3, NoSegmentIs
  <2>2. ToSet(open'.words) = {}  BY <2>1 DEF ToSet
  <2> QED  BY <2>2 DEF OneVoice
<1>9. ASSUME NEW k \in asked' + 1 .. Len(speech'.words), speech'.words[k].said, NEW t \in Given(speech'.words[k])
      PROVE  open'.to <= t /\ open'.from <= t
  <2>1. k \in 1 .. Len(speech.words)  BY <1>2, <1>3
  <2>2. speech.words[k] \in Heard  BY <2>1, <1>1, WordsAre
  <2>3. t \in Nat  BY <2>2, <1>2, TimesGiven
  <2> QED  BY <2>3, <1>2, <1>3, NoSegmentIs
<1>10. WordsTold'
  <2>1. DOMAIN segs' = {}  BY <1>7
  <2> QED  BY <2>1, <1>6, <1>7, <1>8, <1>9 DEF WordsTold
<1> QED  BY <1>2, <1>4, <1>5, <1>10 DEF SpokenInv, NothingYet, ChunksTold, ToldWhenDone

\* Reading on leaves every segment with the one who said it.
LEMMA VoiceStays ==
  ASSUME SpokenTyped, NEW s, OneVoice(s), asked' = asked + 1, speech' = speech
  PROVE  \A w \in ToSet(s.words) : w[1] = 0 /\ w[2] \in 1 .. asked' /\ speech'.words[w[2]].who = s.who
<1>1. asked \in Nat  BY DEF SpokenTyped
<1>2. 1 .. asked \subseteq 1 .. asked'  BY <1>1
<1> QED  BY <1>2 DEF OneVoice

LEMMA NotAWordKeeps ==
  ASSUME SpokenAssumption, SpokenInv, NotAWord
  PROVE  SpokenInv'
<1>1. SpokenTyped /\ SpeechGrouped /\ WordsTold  BY DEF SpokenInv
<1>2. route = "words" /\ asked < Len(speech.words) /\ asked' = asked + 1 /\ asked \in Nat
      /\ UNCHANGED <<speech, route, groups, open, segs, spoken, metered>>
  BY <1>1 DEF NotAWord, SpokenTyped
<1>3. SpokenTyped'  BY <1>1, <1>2, TypesStay DEF SpokenTyped
<1>4. SpeechGrouped'  BY <1>1, <1>2, GroupsStay
<1>5. /\ Said(segs) \o open.words = spoken
      /\ \A i \in DOMAIN segs : segs[i].words # <<>> /\ OneVoice(segs[i])
      /\ OneVoice(open) /\ OneByOne(segs)
      /\ segs # <<>> => segs[Len(segs)].to <= MayBegin
      /\ \A k \in asked + 1 .. Len(speech.words) : speech.words[k].said =>
              \A t \in Given(speech.words[k]) : open.to <= t /\ open.from <= t
  BY <1>1, <1>2 DEF WordsTold
<1>6. asked' <= Len(speech'.words) /\ asked' + 1 .. Len(speech'.words) \subseteq asked + 1 .. Len(speech.words)
  BY <1>1, <1>2, WordsAre
<1>7. OneVoice(open)'  BY <1>1, <1>2, <1>5, VoiceStays DEF OneVoice
<1>8. \A i \in DOMAIN segs' : segs'[i].words # <<>> /\ OneVoice(segs[i])'
  BY <1>1, <1>2, <1>5, VoiceStays DEF OneVoice
<1>9. MayBegin' = MayBegin  BY <1>2 DEF MayBegin
<1>10. \A k \in asked' + 1 .. Len(speech'.words) : speech'.words[k].said =>
              \A t \in Given(speech'.words[k]) : open'.to <= t /\ open'.from <= t
  BY <1>2, <1>5, <1>6
<1>11. WordsTold'  BY <1>2, <1>5, <1>6, <1>7, <1>8, <1>9, <1>10 DEF WordsTold
<1> QED  BY <1>2, <1>3, <1>4, <1>11 DEF SpokenInv, NothingYet, ChunksTold, ToldWhenDone

LEMMA NextWordKeeps ==
  ASSUME SpokenAssumption, SpokenInv, NextWord
  PROVE  SpokenInv'
<1> DEFINE w == speech.words[asked + 1]
           turn == open.words # <<>> /\ w.who # open.who
           fresh == turn \/ open.words = <<>>
           from == IF ~fresh THEN open.from ELSE IF w.from = Missing THEN open.to ELSE w.from
           to == IF w.to = Missing THEN from ELSE w.to
           word == <<0, asked + 1>>
           base == IF fresh THEN <<>> ELSE open.words
           grown == [words |-> Append(base, word), from |-> from, to |-> to, who |-> w.who]
           closed == IF turn THEN Append(segs, open) ELSE segs
           ends == w.stops \/ to - from >= MAX_SEGMENT_SEC
           Later(t) == \A j \in asked + 2 .. Len(speech.words) : speech.words[j].said =>
                          \A u \in Given(speech.words[j]) : t <= u
<1>1. SpokenTyped /\ SpeechGrouped /\ WordsTold  BY DEF SpokenInv
<1>2. /\ route = "words" /\ asked < Len(speech.words) /\ asked' = asked + 1 /\ w.said
      /\ segs' = (IF ends THEN Append(closed, grown) ELSE closed)
      /\ open' = (IF ends THEN [NoSegment EXCEPT !.to = to] ELSE grown)
      /\ spoken' = Append(spoken, word)
      /\ UNCHANGED <<speech, route, groups, metered>>
  BY DEF NextWord
<1>3. asked \in Nat /\ segs \in Seq(Segment) /\ open \in Segment /\ spoken \in Seq(Word)
      /\ speech \in Speeches /\ metered \in BOOLEAN
  BY <1>1 DEF SpokenTyped
<1>4. open.words \in Seq(Word) /\ open.from \in Nat /\ open.to \in Nat /\ open.who \in Voices
  BY <1>3, Parts
<1>5. /\ Said(segs) \o open.words = spoken
      /\ \A i \in DOMAIN segs : segs[i].words # <<>> /\ OneVoice(segs[i])
      /\ OneVoice(open) /\ OneByOne(segs)
      /\ segs # <<>> => segs[Len(segs)].to <= MayBegin
      /\ \A k \in asked + 1 .. Len(speech.words) : speech.words[k].said =>
              \A t \in Given(speech.words[k]) : open.to <= t /\ open.from <= t
  BY <1>1, <1>2 DEF WordsTold
<1>6. Len(speech.words) \in Nat /\ asked + 1 \in 1 .. Len(speech.words)
      /\ asked + 1 \in asked + 1 .. Len(speech.words) /\ w \in Heard
  <2>1. Len(speech.words) \in Nat /\ \A k \in 1 .. Len(speech.words) : speech.words[k] \in Heard
    BY <1>1, WordsAre
  <2>2. asked + 1 \in 1 .. Len(speech.words) /\ asked + 1 \in asked + 1 .. Len(speech.words)
    BY <2>1, <1>2, <1>3
  <2> QED  BY <2>1, <2>2
<1>7. /\ \A t \in Given(w) : open.to <= t /\ open.from <= t
      /\ w.from # Missing => w.from \in Given(w) /\ w.from \in Nat
      /\ w.to # Missing => w.to \in Given(w) /\ w.to \in Nat
      /\ w.who \in Voices
  BY <1>2, <1>5, <1>6, TimesGiven
<1>8. \A t \in Given(w) : Later(t)
  <2> SUFFICES ASSUME NEW t \in Given(w), NEW j \in asked + 2 .. Len(speech.words), speech.words[j].said,
                      NEW u \in Given(speech.words[j])
               PROVE  t <= u
    OBVIOUS
  <2>1. j \in 1 .. Len(speech.words) /\ asked + 1 \in 1 .. j - 1  BY <1>3, <1>6
  <2>2. DOMAIN speech.words = 1 .. Len(speech.words)
    <3>1. speech.words \in Seq(Heard)  BY <1>1, WordsAre
    <3> QED  BY <3>1, LenProperties
  <2>3. IsSpeech(speech)  BY <1>3, SpeechIs
  <2> QED  BY <2>1, <2>2, <2>3, <1>2 DEF IsSpeech
<1>9. Later(open.to) /\ Later(open.from)
  <2>1. \A j \in asked + 2 .. Len(speech.words) : j \in asked + 1 .. Len(speech.words)  BY <1>3, <1>6
  <2> QED  BY <2>1, <1>5
<1> HIDE DEF w, word, Later
<1>10. from \in Nat /\ to \in Nat /\ Later(from) /\ Later(to)
      /\ (fresh => open.to <= from) /\ (~fresh => from = open.from)
  <2>1. from \in Nat /\ Later(from)  BY <1>4, <1>7, <1>8, <1>9
  <2>2. to \in Nat /\ Later(to)  BY <2>1, <1>7, <1>8
  <2>3. (fresh => open.to <= from) /\ (~fresh => from = open.from)  BY <1>4, <1>7
  <2> QED  BY <2>1, <2>2, <2>3
<1> HIDE DEF from, to
<1>11. word \in Word /\ word[1] = 0 /\ word[2] = asked + 1  BY <1>3 DEF word, Word
<1>12. base \in Seq(Word)  BY <1>4
<1>13. grown \in Segment /\ grown.words # <<>> /\ grown.words = Append(base, word)
       /\ grown.from = from /\ grown.to = to /\ grown.who = w.who
  <2> HIDE DEF base
  <2>1. Append(base, word) \in Seq(Word) /\ Append(base, word) # <<>>
    BY <1>11, <1>12, AppendProperties
  <2> QED  BY <2>1, <1>7, <1>10 DEF Segment
<1>14. closed \in Seq(Segment) /\ Said(closed) \o base = spoken /\ OneByOne(closed)
       /\ (closed # <<>> => closed[Len(closed)].to <= from)
       /\ \A i \in DOMAIN closed : closed[i].words # <<>> /\ OneVoice(closed[i])
  <2>1. CASE turn
    <3>1. closed = Append(segs, open) /\ base = <<>> /\ open.words # <<>> /\ fresh  BY <2>1
    <3>2. Append(segs, open) \in Seq(Segment) /\ Append(segs, open) # <<>>
          /\ Len(Append(segs, open)) = Len(segs) + 1 /\ Append(segs, open)[Len(segs) + 1] = open
          /\ \A i \in 1 .. Len(segs) : Append(segs, open)[i] = segs[i]
      BY <1>3, AppendProperties
    <3>3. Said(Append(segs, open)) \o <<>> = spoken
      <4>1. Said(Append(segs, open)) = spoken  BY <1>3, <1>5, SaidAppend
      <4> QED  BY <4>1, <1>3
    <3>4. OneByOne(Append(segs, open))
      <4>1. segs # <<>> => segs[Len(segs)].to <= open.from  BY <3>1, <1>5 DEF MayBegin
      <4> QED  BY <4>1, <1>3, <1>5, ApartAppend
    <3>5. Append(segs, open)[Len(Append(segs, open))].to <= from  BY <3>1, <3>2, <1>10
    <3>6. \A i \in DOMAIN Append(segs, open) :
             Append(segs, open)[i].words # <<>> /\ OneVoice(Append(segs, open)[i])
      <4>1. DOMAIN Append(segs, open) = 1 .. Len(segs) + 1 /\ DOMAIN segs = 1 .. Len(segs) /\ Len(segs) \in Nat
        BY <3>2, <1>3, LenProperties
      <4>2. \A i \in DOMAIN Append(segs, open) : i \in 1 .. Len(segs) \/ i = Len(segs) + 1  BY <4>1
      <4>3. \A i \in 1 .. Len(segs) : Append(segs, open)[i].words # <<>> /\ OneVoice(Append(segs, open)[i])
        <5>1. \A i \in 1 .. Len(segs) : segs[i].words # <<>> /\ OneVoice(segs[i])  BY <4>1, <1>5
        <5> QED  BY <5>1, <3>2, Zenon
      <4>4. Append(segs, open)[Len(segs) + 1].words # <<>> /\ OneVoice(Append(segs, open)[Len(segs) + 1])
        <5> HIDE DEF turn
        <5> QED  BY <3>1, <3>2, <1>5, Zenon
      <4> QED  BY <4>2, <4>3, <4>4, Zenon
    <3> HIDE DEF closed, base
    <3> QED  BY <3>1, <3>2, <3>3, <3>4, <3>5, <3>6
  <2>2. CASE ~turn
    <3>1. closed = segs /\ base = open.words  BY <2>2
    <3>2. segs # <<>> => segs[Len(segs)].to <= from
      <4>1. CASE fresh
        <5>1. open.words = <<>> /\ open.to <= from  BY <2>2, <4>1, <1>10
        <5>2. segs # <<>> => segs[Len(segs)].to <= open.to  BY <5>1, <1>5 DEF MayBegin
        <5>3. segs # <<>> => segs[Len(segs)].to \in Nat
          <6>1. segs # <<>> => Len(segs) \in DOMAIN segs  BY <1>3, LenProperties, EmptySeq
          <6>2. segs # <<>> => segs[Len(segs)] \in Segment  BY <6>1, <1>3, Element
          <6> QED  BY <6>2, Parts
        <5> QED  BY <5>1, <5>2, <5>3, <1>4, <1>10
      <4>2. CASE ~fresh
        <5>1. open.words # <<>> /\ from = open.from  BY <4>2, <1>10
        <5> QED  BY <5>1, <1>5 DEF MayBegin
      <4> QED  BY <4>1, <4>2
    <3> HIDE DEF closed, base
    <3> QED  BY <3>1, <3>2, <1>3, <1>5
  <2> QED  BY <2>1, <2>2
<1>15. ASSUME NEW v \in ToSet(grown.words)
       PROVE  v[1] = 0 /\ v[2] \in 1 .. asked' /\ speech'.words[v[2]].who = grown.who
  <2>1. PICK i \in DOMAIN Append(base, word) : v = Append(base, word)[i]  BY <1>13 DEF ToSet
  <2>2. CASE v = word
    <3>1. asked + 1 \in 1 .. asked'  BY <1>2, <1>3
    <3> QED  BY <2>2, <3>1, <1>2, <1>11, <1>13 DEF w
  <2>3. CASE i \in DOMAIN base /\ v = base[i]
    <3>1. base # <<>> /\ ~fresh
      <4>1. base # <<>>  BY <2>3
      <4> QED  BY <4>1
    <3>2. base = open.words /\ w.who = open.who  BY <3>1
    <3>3. v \in ToSet(open.words)  BY <2>3, <3>2 DEF ToSet
    <3>4. v[1] = 0 /\ v[2] \in 1 .. asked' /\ speech'.words[v[2]].who = open.who
      BY <3>3, <1>1, <1>2, <1>5, VoiceStays
    <3> QED  BY <3>2, <3>4, <1>13
  <2>4. v = word \/ (i \in DOMAIN base /\ v = base[i])
    <3> HIDE DEF base
    <3>1. Len(base) \in Nat /\ DOMAIN base = 1 .. Len(base)  BY <1>12, LenProperties
    <3>2. Len(Append(base, word)) = Len(base) + 1 /\ Append(base, word)[Len(base) + 1] = word
          /\ (\A k \in 1 .. Len(base) : Append(base, word)[k] = base[k])
          /\ DOMAIN Append(base, word) = 1 .. Len(base) + 1
      BY <1>11, <1>12, AppendProperties, LenProperties
    <3>3. i \in 1 .. Len(base) \/ i = Len(base) + 1  BY <2>1, <3>1, <3>2
    <3> QED  BY <2>1, <3>1, <3>2, <3>3
  <2> QED  BY <2>2, <2>3, <2>4
<1>16. \A i \in DOMAIN closed : \A v \in ToSet(closed[i].words) :
          v[1] = 0 /\ v[2] \in 1 .. asked' /\ speech'.words[v[2]].who = closed[i].who
  <2> HIDE DEF closed
  <2> QED  BY <1>1, <1>2, <1>14, VoiceStays
<1>17. Said(closed) \o Append(base, word) = spoken' /\ spoken' \in Seq(Word)
  <2> HIDE DEF closed, base
  <2>1. Said(closed) \in Seq(Word)
    BY <1>14, SaidBoth
  <2>2. <<word>> \in Seq(Word) /\ Append(base, word) = base \o <<word>>
        /\ Append(spoken, word) = spoken \o <<word>> /\ Append(spoken, word) \in Seq(Word)
    BY <1>3, <1>11, <1>12, AppendIsConcat
  <2>3. Said(closed) \o (base \o <<word>>) = (Said(closed) \o base) \o <<word>>
    BY <2>1, <2>2, <1>12, ConcatAssociative
  <2> QED  BY <2>2, <2>3, <1>2, <1>14
<1>18. asked' + 1 = asked + 2 /\ asked' <= Len(speech'.words) /\ asked' \in Nat  BY <1>2, <1>3, <1>6
<1> HIDE DEF closed, base, grown, ends
<1>19. SpeechGrouped'  BY <1>1, <1>2, GroupsStay
<1>20. CASE ends
  <2>1. segs' = Append(closed, grown) /\ open' = [NoSegment EXCEPT !.to = to]  BY <1>2, <1>20
  <2>2. open' \in Segment /\ open'.words = <<>> /\ open'.from = 0 /\ open'.to = to
    BY <2>1, <1>10, NoSegmentIs DEF NoSegment, Segment
  <2>3. segs' \in Seq(Segment) /\ Len(segs') = Len(closed) + 1 /\ segs'[Len(closed) + 1] = grown
        /\ (\A i \in 1 .. Len(closed) : segs'[i] = closed[i]) /\ Len(closed) \in Nat
        /\ DOMAIN segs' = 1 .. Len(closed) + 1 /\ DOMAIN closed = 1 .. Len(closed)
    BY <2>1, <1>13, <1>14, AppendProperties, LenProperties
  <2>4. Said(segs') \o open'.words = spoken'
    <3>1. Said(segs') = spoken'  BY <2>1, <1>13, <1>14, <1>17, SaidAppend
    <3> QED  BY <3>1, <2>2, <1>17
  <2>5. OneByOne(segs') /\ segs'[Len(segs')].to <= MayBegin'
    <3>1. OneByOne(segs')  BY <2>1, <1>13, <1>14, ApartAppend
    <3>2. segs'[Len(segs')].to = to /\ MayBegin' = to  BY <2>2, <2>3, <1>13 DEF MayBegin
    <3> QED  BY <3>1, <3>2, <1>10
  <2>6. \A i \in DOMAIN segs' : segs'[i].words # <<>> /\ OneVoice(segs[i])'
    <3>1. \A i \in DOMAIN segs' : i \in 1 .. Len(closed) \/ i = Len(closed) + 1  BY <2>3
    <3> QED  BY <3>1, <2>3, <1>13, <1>14, <1>15, <1>16 DEF OneVoice
  <2>7. OneVoice(open)'
    <3>1. ToSet(open'.words) = {}  BY <2>2 DEF ToSet
    <3> QED  BY <3>1 DEF OneVoice
  <2>8. \A k \in asked' + 1 .. Len(speech'.words) : speech'.words[k].said =>
              \A t \in Given(speech'.words[k]) : open'.to <= t /\ open'.from <= t
    <3> SUFFICES ASSUME NEW k \in asked' + 1 .. Len(speech'.words), speech'.words[k].said,
                        NEW t \in Given(speech'.words[k])
                 PROVE  open'.to <= t /\ open'.from <= t
      OBVIOUS
    <3>1. k \in asked + 2 .. Len(speech.words) /\ k \in 1 .. Len(speech.words)  BY <1>2, <1>3, <1>18
    <3>2. to <= t  BY <3>1, <1>2, <1>10 DEF Later
    <3>3. t \in Nat  BY <3>1, <1>1, <1>2, WordsAre, TimesGiven
    <3> QED  BY <3>2, <3>3, <2>2
  <2>9. WordsTold'  BY <1>18, <2>4, <2>5, <2>6, <2>7, <2>8 DEF WordsTold
  <2>10. SpokenTyped'  BY <1>2, <1>3, <1>17, <1>18, <2>2, <2>3 DEF SpokenTyped
  <2> QED  BY <1>2, <1>19, <2>9, <2>10 DEF SpokenInv, NothingYet, ChunksTold, ToldWhenDone
<1>21. CASE ~ends
  <2>1. segs' = closed /\ open' = grown  BY <1>2, <1>21
  <2>2. MayBegin' = from  BY <2>1, <1>13 DEF MayBegin
  <2>3. OneVoice(open)'  BY <2>1, <1>15 DEF OneVoice
  <2>4. \A i \in DOMAIN segs' : segs'[i].words # <<>> /\ OneVoice(segs[i])'
    BY <2>1, <1>14, <1>16 DEF OneVoice
  <2>5. \A k \in asked' + 1 .. Len(speech'.words) : speech'.words[k].said =>
              \A t \in Given(speech'.words[k]) : open'.to <= t /\ open'.from <= t
    <3>1. open'.to = to /\ open'.from = from  BY <2>1, <1>13
    <3> QED  BY <3>1, <1>2, <1>10, <1>18 DEF Later
  <2>6. WordsTold'  BY <1>13, <1>14, <1>17, <1>18, <2>1, <2>2, <2>3, <2>4, <2>5 DEF WordsTold
  <2>7. SpokenTyped'  BY <1>2, <1>3, <1>13, <1>14, <1>17, <1>18, <2>1 DEF SpokenTyped
  <2> QED  BY <1>2, <1>19, <2>6, <2>7 DEF SpokenInv, NothingYet, ChunksTold, ToldWhenDone
<1> QED  BY <1>20, <1>21

LEMMA TimedKeeps ==
  ASSUME SpokenAssumption, SpokenInv, Timed
  PROVE  SpokenInv'
<1> DEFINE l == Flushed(open, segs)
<1>1. SpokenTyped /\ SpeechGrouped /\ WordsTold  BY DEF SpokenInv
<1>2. route = "words" /\ asked = Len(speech.words) /\ segs' = Widened(l) /\ open' = NoSegment
      /\ route' \in {"text", "done"} /\ UNCHANGED <<speech, groups, asked, spoken, metered>>
  BY DEF Timed
<1>3. asked \in Nat /\ segs \in Seq(Segment) /\ open \in Segment /\ spoken \in Seq(Word)  BY <1>1 DEF SpokenTyped
<1>4. /\ Said(segs) \o open.words = spoken
      /\ \A i \in DOMAIN segs : segs[i].words # <<>> /\ OneVoice(segs[i])
      /\ OneVoice(open) /\ OneByOne(segs)
      /\ segs # <<>> => segs[Len(segs)].to <= MayBegin
  BY <1>1, <1>2 DEF WordsTold
<1>5. l \in Seq(Segment) /\ Said(l) = spoken /\ OneByOne(l) /\ \A i \in DOMAIN l : OneVoice(l[i])
  <2>1. CASE open.words = <<>>
    <3>1. l = segs  BY <2>1 DEF Flushed
    <3>2. Said(segs) = spoken
      <4>1. Said(segs) \in Seq(Word)  BY <1>3, SaidBoth
      <4>2. Said(segs) \o <<>> = spoken  BY <2>1, <1>4
      <4> QED  BY <4>1, <4>2, ConcatEmptySeq
    <3> QED  BY <3>1, <3>2, <1>3, <1>4
  <2>2. CASE open.words # <<>>
    <3>1. l = Append(segs, open)  BY <2>2 DEF Flushed
    <3> HIDE DEF l
    <3>2. l \in Seq(Segment) /\ Len(l) = Len(segs) + 1 /\ l[Len(segs) + 1] = open
          /\ (\A i \in 1 .. Len(segs) : l[i] = segs[i]) /\ Len(segs) \in Nat
          /\ DOMAIN l = 1 .. Len(segs) + 1 /\ DOMAIN segs = 1 .. Len(segs)
      BY <3>1, <1>3, AppendProperties, LenProperties
    <3>3. Said(l) = spoken  BY <3>1, <1>3, <1>4, SaidAppend
    <3>4. OneByOne(l)
      <4>1. segs # <<>> => segs[Len(segs)].to <= open.from  BY <2>2, <1>4 DEF MayBegin
      <4> QED  BY <4>1, <3>1, <1>3, <1>4, ApartAppend
    <3>5. \A i \in DOMAIN l : i \in 1 .. Len(segs) \/ i = Len(segs) + 1  BY <3>2
    <3>6. \A i \in DOMAIN l : OneVoice(l[i])
      <4>1. \A i \in 1 .. Len(segs) : OneVoice(l[i])
        <5>1. \A i \in 1 .. Len(segs) : OneVoice(segs[i])  BY <3>2, <1>4
        <5> QED  BY <5>1, <3>2, Zenon
      <4>2. OneVoice(l[Len(segs) + 1])
        <5>1. OneVoice(open)  BY <1>4
        <5> QED  BY <5>1, <3>2, Zenon
      <4> QED  BY <3>5, <4>1, <4>2, Zenon
    <3> QED  BY <3>2, <3>3, <3>4, <3>6
  <2> QED  BY <2>1, <2>2
<1> HIDE DEF l
<1>6. segs' \in Seq(Segment) /\ Len(segs') = Len(l)
      /\ \A i \in 1 .. Len(l) : segs'[i].who = l[i].who /\ segs'[i].words = l[i].words
  BY <1>2, <1>5, WidenedIs
<1>7. Said(segs') = spoken' /\ Keep(segs')
  BY <1>2, <1>5, WidenedSays, WidenedApart, WidenedIs, ApartKeeps
<1>8. OneSpeakerEach'
  <2>1. DOMAIN segs' = 1 .. Len(l) /\ DOMAIN l = 1 .. Len(l)  BY <1>5, <1>6, LenProperties
  <2>2. \A i \in 1 .. Len(l) : \A v \in ToSet(l[i].words) : speech.words[v[2]].who = l[i].who
    BY <2>1, <1>5 DEF OneVoice
  <2>3. \A i \in DOMAIN segs' : \A v \in ToSet(segs'[i].words) : segs'[i].who = speech'.words[v[2]].who
    BY <2>1, <2>2, <1>2, <1>6
  <2> QED  BY <2>3 DEF OneSpeakerEach
<1>9. SpokenTyped'  BY <1>1, <1>2, <1>6, NoSegmentIs DEF SpokenTyped
<1>10. SpeechGrouped'  BY <1>1, <1>2, GroupsStay
<1>11. ToldWhenDone'  BY <1>7, <1>8, KeepIs, OnceIs DEF ToldWhenDone
<1> QED  BY <1>2, <1>9, <1>10, <1>11 DEF SpokenInv, NothingYet, ChunksTold, WordsTold

\* The inductive invariant is kept by every step.
LEMMA SpokenKept ==
  ASSUME SpokenAssumption, SpokenInv, [SpokenNext]_spokenVars
  PROVE  SpokenInv'
<1>1. CASE WithoutVoice  BY <1>1, WithoutVoiceKeeps
<1>2. CASE Grouped  BY <1>2, GroupedKeeps
<1>3. CASE SkipChunk  BY <1>3, SkipChunkKeeps
<1>4. CASE merge_transcripts  BY <1>4, merge_transcriptsKeeps
<1>5. CASE NotTranscribed  BY <1>5, NotTranscribedKeeps
<1>6. ASSUME NEW n \in 0 .. most_words, AnswerText(n) PROVE SpokenInv'
  BY <1>6, AnswerTextKeeps
<1>7. ASSUME NEW n \in 0 .. most_words, NEW e \in 0 .. n, AnswerChunk(n, e) PROVE SpokenInv'
  BY <1>7, AnswerChunkKeeps
<1>8. CASE AnswerWords  BY <1>8, AnswerWordsKeeps
<1>9. CASE NotAWord  BY <1>9, NotAWordKeeps
<1>10. CASE NextWord  BY <1>10, NextWordKeeps
<1>11. CASE Timed  BY <1>11, TimedKeeps
<1>12. CASE UNCHANGED spokenVars
  BY <1>12 DEF spokenVars, SpokenInv, SpokenTyped, SpeechGrouped, NothingYet, ChunksTold, WordsTold,
     ToldWhenDone, KeepApart, EveryWordOnce, OneSpeakerEach, AnsweredBy, OneVoice, MayBegin
<1> QED
  BY <1>1, <1>2, <1>3, <1>4, <1>5, <1>6, <1>7, <1>8, <1>9, <1>10, <1>11, <1>12 DEF SpokenNext

\* The requests are made one after the other, and a transcript made of them has
\* made or skipped all.
RequestsMade ==
    /\ asked \in Nat /\ unsent \subseteq 1 .. asked
    /\ route \in {"audio", "whole", "words", "text"} => groups = <<>>
    /\ route = "done" /\ groups # <<>> /\ speech.regions # <<>> => asked = Len(groups)

LEMMA RequestsBegin ==
  ASSUME SpokenInit PROVE RequestsMade
BY DEF SpokenInit, RequestsMade

LEMMA RequestsKept ==
  ASSUME RequestsMade, [SpokenNext]_spokenVars
  PROVE  RequestsMade'
<1>1. asked \in Nat /\ unsent \subseteq 1 .. asked  BY DEF RequestsMade
<1>2. unsent \subseteq 1 .. asked + 1 /\ asked + 1 \in 1 .. asked + 1 /\ asked + 1 \in Nat  BY <1>1
<1>3. CASE WithoutVoice  BY <1>3 DEF WithoutVoice, RequestsMade
<1>4. CASE Grouped  BY <1>4 DEF Grouped, RequestsMade
<1>5. CASE SkipChunk  BY <1>2, <1>5 DEF SkipChunk, RequestsMade
<1>6. CASE merge_transcripts  BY <1>6 DEF merge_transcripts, RequestsMade
<1>7. CASE NotTranscribed  BY <1>7 DEF NotTranscribed, RequestsMade
<1>8. ASSUME NEW n \in 0 .. most_words, AnswerText(n) PROVE RequestsMade'
  BY <1>8 DEF AnswerText, RequestsMade
<1>9. ASSUME NEW n \in 0 .. most_words, NEW e \in 0 .. n, AnswerChunk(n, e) PROVE RequestsMade'
  BY <1>2, <1>9 DEF AnswerChunk, RequestsMade
<1>10. CASE AnswerWords  BY <1>10 DEF AnswerWords, RequestsMade
<1>11. CASE NotAWord  BY <1>2, <1>11 DEF NotAWord, RequestsMade
<1>12. CASE NextWord  BY <1>2, <1>12 DEF NextWord, RequestsMade
<1>13. CASE Timed  BY <1>13 DEF Timed, RequestsMade
<1>14. CASE UNCHANGED spokenVars  BY <1>14 DEF spokenVars, RequestsMade
<1> QED
  BY <1>3, <1>4, <1>5, <1>6, <1>7, <1>8, <1>9, <1>10, <1>11, <1>12, <1>13, <1>14 DEF SpokenNext

LEMMA SpokenTypesHold ==
  ASSUME SpokenInv, RequestsMade
  PROVE  SpokenTypeOK
<1>1. SpokenTyped /\ SpeechGrouped  BY DEF SpokenInv
<1>2. ASSUME NEW s \in ToSet(segs) \cup {open} PROVE s.from \in Nat /\ s.to \in Nat
  <2>1. s \in Segment  BY <1>1, Element DEF SpokenTyped, ToSet
  <2> QED  BY <2>1, Parts
<1>3. ASSUME NEW g \in ToSet(groups), NEW r \in ToSet(g) PROVE r.from < r.to
  <2>1. g \in Seq(Region)  BY <1>1, Element DEF SpeechGrouped, InRequests, ToSet
  <2>2. r \in Region  BY <2>1, Element DEF ToSet
  <2> QED  BY <2>2, LastsAWhile
<1>4. unsent \subseteq Nat  BY DEF RequestsMade
<1> QED  BY <1>1, <1>2, <1>3, <1>4 DEF SpokenTyped, SpokenTypeOK

LEMMA SpeechHeld ==
  ASSUME SpokenInv, RequestsMade
  PROVE  TranscriptHoldsTheSpeech
<1>1. ASSUME route = "done" PROVE SpeechIsSent
  <2> SUFFICES ASSUME groups # <<>>, NEW r \in ToSet(speech.regions), NEW t \in r.from .. r.to - 1
               PROVE  \E i \in 1 .. asked : InRequest(t, i)
    BY DEF SpeechIsSent
  <2>1. HeardIn(r, Held(groups))  BY DEF SpokenInv, SpeechGrouped
  <2>2. PICK x \in Held(groups) : x.from <= t /\ t < x.to  BY <2>1 DEF HeardIn
  <2>3. PICK a \in DOMAIN groups : x \in ToSet(groups[a])  BY <2>2 DEF Held
  <2>4. InRequest(t, a)  BY <2>2, <2>3 DEF InRequest
  <2>5. asked = Len(groups)
    <3>1. speech.regions # <<>>  BY DEF ToSet
    <3> QED  BY <3>1, <1>1 DEF RequestsMade
  <2>6. DOMAIN groups = 1 .. Len(groups)
    <3>1. groups \in Seq(Seq(Region))  BY DEF SpokenInv, SpeechGrouped, InRequests
    <3> QED  BY <3>1, LenProperties
  <2> QED  BY <2>3, <2>4, <2>5, <2>6
<1> QED  BY <1>1 DEF SpokenInv, ToldWhenDone, TranscriptHoldsTheSpeech

\* Of every recording, however it is transcribed: the variables of
\* transcribe_audio and of the segments it makes hold values of their types.
THEOREM SpokenTypeCorrect == SpokenSpec => []SpokenTypeOK
<1>1. SpokenInit => SpokenInv /\ RequestsMade  BY SpokenBegins, RequestsBegin, SpokenAssumption
<1>2. SpokenInv /\ RequestsMade /\ [SpokenNext]_spokenVars => SpokenInv' /\ RequestsMade'
  BY SpokenKept, RequestsKept, SpokenAssumption
<1>3. SpokenInv /\ RequestsMade => SpokenTypeOK  BY SpokenTypesHold
<1> QED  BY <1>1, <1>2, <1>3, PTL DEF SpokenSpec

\* A transcript holds what was said (vad_chunking's groups and shares,
\* elevenlabs_client's segments, transcribe_audio's routes): every second of
\* speech was sent and answered, except what lies in a chunk that could not be cut
\* out, and every word answered stands in it once, in order, under its own speaker
\* and at a time of its own.
THEOREM TheSpeechIsHeld == SpokenSpec => []TranscriptHoldsTheSpeech
<1>1. SpokenInit => SpokenInv /\ RequestsMade  BY SpokenBegins, RequestsBegin, SpokenAssumption
<1>2. SpokenInv /\ RequestsMade /\ [SpokenNext]_spokenVars => SpokenInv' /\ RequestsMade'
  BY SpokenKept, RequestsKept, SpokenAssumption
<1>3. SpokenInv /\ RequestsMade => TranscriptHoldsTheSpeech  BY SpeechHeld
<1> QED  BY <1>1, <1>2, <1>3, PTL DEF SpokenSpec
=============================================================================

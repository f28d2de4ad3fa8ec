------------------------- MODULE TranscriptionProofs -------------------------
(***************************************************************************)
(* Theorems about Transcription, for any recording, any number of runs and *)
(* any budget of kills, lost rows and database errors.                     *)
(***************************************************************************)
EXTENDS Transcription, TLAPS

\* The requests a task has sent for the span at hand: at most two of every
\* attempt, the second of them of the WAV.
SentOf(t) ==
    /\ t.pc \in {"wait", "look"} => t.tries = 0 /\ t.sent = 0
    /\ t.pc = "send" => t.tries > 0 /\ t.sent <= 2 * t.tries - IF t.wav THEN 1 ELSE 2
    /\ t.pc = "out" => t.tries > 0 /\ t.sent <= 2 * t.tries - IF t.wav THEN 0 ELSE 1

\* What a task has transcribed and what it has still to do are the chunk, in
\* order.
Held(t, moment) ==
    \/ \E i \in DOMAIN t.parts : Covers(t.parts[i].span, moment)
    \/ \E i \in DOMAIN t.todo : Covers(t.todo[i], moment)

InOrder(t) ==
    /\ \A i, j \in DOMAIN t.parts : i < j => Precedes(t.parts[i].span, t.parts[j].span)
    /\ \A i \in DOMAIN t.parts, j \in DOMAIN t.todo : Precedes(t.parts[i].span, t.todo[j])
    /\ \A i, j \in DOMAIN t.todo : i < j => Precedes(t.todo[i], t.todo[j])

\* No silence where there was speech.
Heard(t) ==
    /\ \A i \in DOMAIN t.parts : t.parts[i].span \in Spoken => t.parts[i].text = "text"
    /\ t.pc = "keep" /\ Head(t.todo) \in Spoken => t.text = "text"

TaskGood(t, c) ==
    /\ t.pc \in Inside \cup {"wait"} => t.todo # <<>>
    /\ t.pc = "done" => t.todo = <<>>
    /\ SentOf(t)
    /\ \A moment \in Moments(c) : Held(t, moment)
    /\ InOrder(t)
    /\ Heard(t)

TasksGood == \A r \in Runs, c \in Chunks : TaskGood(tasks[r][c], c)

\* A run that does not send has nothing under way, and one that saves has
\* transcribed every chunk.  Only a doomed run leaves a chunk untouched.
RunLinks ==
    \A r \in Runs :
        /\ runs[r].pc \notin {"sending", "saving"} => \A c \in Chunks : tasks[r][c] = Waiting(c)
        /\ runs[r].pc = "saving" => \A c \in Chunks : tasks[r][c].pc = "done"
        /\ \A c \in Chunks : tasks[r][c].pc = "aborted" => runs[r].fatal

\* An answer that is kept says what the span it is of holds.
KeptIsHeard == \A s \in Spans : s \in Spoken => kept[digest_of(s)] # "empty"

\* What a run found when it began is still there.
KnownIsKept == \A r \in Runs : \A d \in known[r] : kept[d] # "none"

Inv ==
    /\ TypeOK /\ TasksGood /\ RunLinks
    /\ KeptIsHeard /\ KnownIsKept /\ KeptIsNotBoughtAgain
    /\ TranscriptIsWhole
-----------------------------------------------------------------------------
\* Spans and their halves.

LEMMA SpansAre ==
  ASSUME NEW s
  PROVE  s \in Spans <=> \E c \in Chunks, depth \in 0 .. MAX_SPLIT_DEPTH :
                            \E h \in [1 .. depth -> {0, 1}] : s = <<c>> \o h
<1> DEFINE Of(c, depth) == {<<c>> \o h : h \in [1 .. depth -> {0, 1}]}
<1>1. Spans = UNION {Of(c, depth) : c \in Chunks, depth \in 0 .. MAX_SPLIT_DEPTH}
  BY DEF Spans
<1>2. \A c \in Chunks, depth \in 0 .. MAX_SPLIT_DEPTH :
         s \in Of(c, depth) <=> \E h \in [1 .. depth -> {0, 1}] : s = <<c>> \o h
  OBVIOUS
<1> HIDE DEF Of
<1>3. s \in Spans <=> \E c \in Chunks, depth \in 0 .. MAX_SPLIT_DEPTH : s \in Of(c, depth)
  BY <1>1
<1> QED
  BY <1>2, <1>3

LEMMA SpanShape ==
  ASSUME NEW s
  PROVE  s \in Spans <=> /\ s \in Seq(Nat) /\ Len(s) \in 1 .. MAX_SPLIT_DEPTH + 1
                         /\ s[1] \in Chunks
                         /\ \A k \in 2 .. Len(s) : s[k] \in {0, 1}
<1> USE TranscriptionAssumption
<1>1. ASSUME NEW c \in Chunks, NEW depth \in 0 .. MAX_SPLIT_DEPTH, NEW h \in [1 .. depth -> {0, 1}],
             s = <<c>> \o h
      PROVE  /\ s \in Seq(Nat) /\ Len(s) = depth + 1
             /\ s[1] \in Chunks
             /\ \A k \in 2 .. Len(s) : s[k] \in {0, 1}
  <2>1. depth \in Nat /\ c \in Nat /\ h \in Seq(Nat) /\ Len(h) = depth
    OBVIOUS
  <2>2. <<c>> \in Seq(Nat) /\ Len(<<c>>) = 1 /\ <<c>>[1] = c
    BY <2>1
  <2>3. <<c>> \o h \in Seq(Nat) /\ Len(<<c>> \o h) = depth + 1 /\ (<<c>> \o h)[1] = c
    BY <2>1, <2>2
  <2>4. s \in Seq(Nat) /\ Len(s) = depth + 1 /\ s[1] = c
    BY <1>1, <2>3
  <2>5. ASSUME NEW k \in 2 .. Len(s) PROVE s[k] = h[k - 1]
    BY <1>1, <2>1, <2>2, <2>4
  <2> QED
    BY <2>1, <2>4, <2>5
<1>2. ASSUME s \in Seq(Nat), Len(s) \in 1 .. MAX_SPLIT_DEPTH + 1, s[1] \in Chunks,
             \A k \in 2 .. Len(s) : s[k] \in {0, 1}
      PROVE  s \in Spans
  <2> DEFINE h == [k \in 1 .. Len(s) - 1 |-> s[k + 1]]
  <2>1. Len(s) - 1 \in 0 .. MAX_SPLIT_DEPTH /\ h \in [1 .. Len(s) - 1 -> {0, 1}]
    BY <1>2
  <2>2. h \in Seq(Nat) /\ Len(h) = Len(s) - 1
    BY <1>2, <2>1
  <2>3. <<s[1]>> \o h \in Seq(Nat) /\ Len(<<s[1]>> \o h) = Len(s)
    BY <1>2, <2>2
  <2>4. ASSUME NEW k \in 1 .. Len(s) PROVE (<<s[1]>> \o h)[k] = s[k]
    BY <1>2, <2>2, <2>3
  <2>5. s = <<s[1]>> \o h
    BY <1>2, <2>3, <2>4
  <2> HIDE DEF h
  <2> QED
    BY <1>2, <2>1, <2>5, SpansAre
<1>3. ASSUME s \in Spans
      PROVE  /\ s \in Seq(Nat) /\ Len(s) \in 1 .. MAX_SPLIT_DEPTH + 1
             /\ s[1] \in Chunks
             /\ \A k \in 2 .. Len(s) : s[k] \in {0, 1}
  <2>1. PICK c \in Chunks, depth \in 0 .. MAX_SPLIT_DEPTH : \E h \in [1 .. depth -> {0, 1}] : s = <<c>> \o h
    BY <1>3, SpansAre
  <2>2. PICK h \in [1 .. depth -> {0, 1}] : s = <<c>> \o h
    BY <2>1
  <2> QED
    BY <1>1, <2>2
<1> QED
  BY <1>2, <1>3

LEMMA Halving ==
  ASSUME NEW s \in Spans, MaySplit(s), NEW b \in {0, 1}
  PROVE  /\ Append(s, b) \in Spans /\ Len(Append(s, b)) = Len(s) + 1
         /\ Append(s, b)[Len(s) + 1] = b
         /\ \A k \in 1 .. Len(s) : Append(s, b)[k] = s[k]
<1>1. s \in Seq(Nat) /\ Len(s) \in 1 .. MAX_SPLIT_DEPTH /\ s[1] \in Chunks
      /\ \A k \in 2 .. Len(s) : s[k] \in {0, 1}
  BY SpanShape, TranscriptionAssumption DEF MaySplit, Depth
<1>2. /\ Append(s, b) \in Seq(Nat) /\ Len(Append(s, b)) = Len(s) + 1
      /\ Append(s, b)[Len(s) + 1] = b
      /\ \A k \in 1 .. Len(s) : Append(s, b)[k] = s[k]
  BY <1>1
<1>3. ASSUME NEW k \in 2 .. Len(Append(s, b)) PROVE Append(s, b)[k] \in {0, 1}
  <2>1. k \in 2 .. Len(s) \/ k = Len(s) + 1
    BY <1>1, <1>2
  <2> QED
    BY <1>1, <1>2, <2>1
<1>4. Append(s, b)[1] \in Chunks /\ Len(Append(s, b)) \in 1 .. MAX_SPLIT_DEPTH + 1
  BY <1>1, <1>2, TranscriptionAssumption
<1> HIDE <1>1
<1> QED
  BY <1>2, <1>3, <1>4, SpanShape

LEMMA HalvesPrecede ==
  ASSUME NEW s \in Spans, MaySplit(s)
  PROVE  /\ Precedes(Append(s, 0), Append(s, 1))
         /\ \A t \in Spans, b \in {0, 1} : /\ Precedes(t, s) => Precedes(t, Append(s, b))
                                           /\ Precedes(s, t) => Precedes(Append(s, b), t)
<1>1. s \in Seq(Nat) /\ Len(s) >= 1
  BY SpanShape
<1>2. \A b \in {0, 1} : /\ DOMAIN Append(s, b) = 1 .. Len(s) + 1 /\ Append(s, b)[Len(s) + 1] = b
                        /\ \A k \in 1 .. Len(s) : Append(s, b)[k] = s[k]
  BY <1>1
<1>3. Precedes(Append(s, 0), Append(s, 1))
  <2>1. Len(s) + 1 \in DOMAIN Append(s, 0) \cap DOMAIN Append(s, 1)
    BY <1>1, <1>2
  <2>2. Append(s, 0)[Len(s) + 1] < Append(s, 1)[Len(s) + 1]
    BY <1>2
  <2>3. \A j \in 1 .. Len(s) + 1 - 1 : Append(s, 0)[j] = Append(s, 1)[j]
    BY <1>1, <1>2
  <2> QED
    BY <2>1, <2>2, <2>3 DEF Precedes
<1>4. ASSUME NEW t \in Spans, NEW b \in {0, 1}
      PROVE  /\ Precedes(t, s) => Precedes(t, Append(s, b))
             /\ Precedes(s, t) => Precedes(Append(s, b), t)
  <2> DEFINE h == Append(s, b)
  <2>1. DOMAIN s = 1 .. Len(s) /\ DOMAIN h = 1 .. Len(s) + 1 /\ \A k \in 1 .. Len(s) : h[k] = s[k]
    BY <1>1, <1>2
  <2> HIDE DEF h
  <2>2. ASSUME NEW k \in DOMAIN t \cap DOMAIN s
        PROVE  k \in DOMAIN h /\ h[k] = s[k] /\ \A j \in 1 .. k - 1 : h[j] = s[j]
    BY <1>1, <2>1
  <2>3. ASSUME Precedes(t, s) PROVE Precedes(t, h)
    <3>1. PICK k \in DOMAIN t \cap DOMAIN s : t[k] < s[k] /\ \A j \in 1 .. k - 1 : t[j] = s[j]
      BY <2>3 DEF Precedes
    <3>2. k \in DOMAIN t \cap DOMAIN h /\ t[k] < h[k] /\ \A j \in 1 .. k - 1 : t[j] = h[j]
      BY <2>2, <3>1
    <3> QED
      BY <3>2 DEF Precedes
  <2>4. ASSUME Precedes(s, t) PROVE Precedes(h, t)
    <3>1. PICK k \in DOMAIN s \cap DOMAIN t : s[k] < t[k] /\ \A j \in 1 .. k - 1 : s[j] = t[j]
      BY <2>4 DEF Precedes
    <3>2. k \in DOMAIN h \cap DOMAIN t /\ h[k] < t[k] /\ \A j \in 1 .. k - 1 : h[j] = t[j]
      BY <2>2, <3>1
    <3> QED
      BY <3>2 DEF Precedes
  <2> QED
    BY <2>3, <2>4 DEF h
<1> QED
  BY <1>3, <1>4

\* A moment of a span that may be halved is of one of its halves.
LEMMA HalvesCover ==
  ASSUME NEW s \in Spans, MaySplit(s), NEW c \in Chunks, NEW moment \in Moments(c), Covers(s, moment)
  PROVE  Covers(Append(s, 0), moment) \/ Covers(Append(s, 1), moment)
<1>1. s \in Seq(Nat) /\ Len(s) \in 1 .. MAX_SPLIT_DEPTH
  BY SpanShape, TranscriptionAssumption DEF MaySplit, Depth
<1>2. PICK h \in [1 .. MAX_SPLIT_DEPTH -> {0, 1}] : moment = <<c>> \o h
  BY DEF Moments
<1>3. h \in Seq(Nat) /\ Len(h) = MAX_SPLIT_DEPTH /\ c \in Nat
  BY <1>2, TranscriptionAssumption
<1>4. moment \in Seq(Nat) /\ Len(moment) = MAX_SPLIT_DEPTH + 1
  BY <1>2, <1>3
<1>5. ASSUME NEW k \in 2 .. MAX_SPLIT_DEPTH + 1 PROVE moment[k] = h[k - 1] /\ k - 1 \in 1 .. MAX_SPLIT_DEPTH
  BY <1>2, <1>3, TranscriptionAssumption
<1>6. Len(s) + 1 \in 2 .. MAX_SPLIT_DEPTH + 1
  BY <1>1, TranscriptionAssumption
<1>7. PICK b \in {0, 1} : moment[Len(s) + 1] = b
  BY <1>2, <1>5, <1>6
<1>8. SubSeq(moment, 1, Len(s)) = s
  BY DEF Covers
<1> DEFINE t == SubSeq(moment, 1, Len(s) + 1)
<1>9. t \in Seq(Nat) /\ Len(t) = Len(s) + 1 /\ \A k \in 1 .. Len(s) + 1 : t[k] = moment[k]
  BY <1>1, <1>4, <1>6
<1>10. \A k \in 1 .. Len(s) : moment[k] = s[k]
  BY <1>1, <1>4, <1>8
<1>11. Append(s, b) \in Seq(Nat) /\ Len(Append(s, b)) = Len(s) + 1
  BY <1>1
<1>12. ASSUME NEW k \in 1 .. Len(s) + 1 PROVE t[k] = Append(s, b)[k]
  <2>1. CASE k = Len(s) + 1
    BY <1>1, <1>7, <1>9, <2>1
  <2>2. CASE k # Len(s) + 1
    <3>1. k \in 1 .. Len(s)
      BY <1>1, <2>2
    <3> QED
      BY <1>1, <1>9, <1>10, <3>1
  <2> QED
    BY <2>1, <2>2
<1> HIDE DEF t
<1>13. t = Append(s, b)
  BY <1>9, <1>11, <1>12
<1>14. Covers(Append(s, b), moment)
  BY <1>4, <1>6, <1>11, <1>13 DEF Covers, t
<1> QED
  BY <1>14
-----------------------------------------------------------------------------
\* The span at hand is transcribed, or halved: what is left and what is done
\* are still the chunk, in order.

LEMMA PartTaken ==
  ASSUME NEW t \in Task, t.todo # <<>>, NEW text \in Answers
  PROVE  LET u == WithPart(t, text)
             n == Len(t.parts)
         IN  /\ u \in Task /\ u.pc \in {"done", "look"} /\ u.tries = 0 /\ u.sent = 0
             /\ u.pc = "done" <=> u.todo = <<>>
             /\ Head(t.todo) = t.todo[1] /\ 1 \in DOMAIN t.todo
             /\ DOMAIN u.parts = 1 .. n + 1 /\ DOMAIN t.parts = 1 .. n /\ n \in Nat
             /\ u.parts[n + 1] = [span |-> t.todo[1], text |-> text]
             /\ \A i \in 1 .. n : u.parts[i] = t.parts[i]
             /\ \A i \in DOMAIN u.todo : i + 1 \in DOMAIN t.todo /\ u.todo[i] = t.todo[i + 1]
             /\ \A i \in DOMAIN t.todo : i > 1 => i - 1 \in DOMAIN u.todo
             /\ \A i \in DOMAIN t.todo : t.todo[i] \in Spans /\ i \in Nat /\ i >= 1
<1> DEFINE part == [span |-> Head(t.todo), text |-> text]
           parts == Append(t.parts, part)
           todo == Tail(t.todo)
           pc == IF Len(t.todo) = 1 THEN "done" ELSE "look"
           u == WithPart(t, text)
           n == Len(t.parts)
<1>1. /\ t.todo \in Seq(Spans) /\ t.parts \in Seq(Part) /\ Len(t.todo) \in Nat \ {0}
      /\ n \in Nat /\ DOMAIN t.parts = 1 .. n /\ DOMAIN t.todo = 1 .. Len(t.todo)
  BY DEF Task
<1>2. Head(t.todo) = t.todo[1] /\ t.todo[1] \in Spans
  BY <1>1
<1>3. part \in Part /\ part = [span |-> t.todo[1], text |-> text]
  BY <1>2 DEF Part
<1> HIDE DEF part
<1>4. parts \in Seq(Part) /\ Len(parts) = n + 1 /\ parts[n + 1] = part /\ \A i \in 1 .. n : parts[i] = t.parts[i]
  BY <1>1, <1>3
<1>5. todo \in Seq(Spans) /\ Len(todo) = Len(t.todo) - 1 /\ \A i \in 1 .. Len(todo) : todo[i] = t.todo[i + 1]
  BY <1>1
<1>6. /\ u = [t EXCEPT !.parts = parts, !.todo = todo, !.text = "empty", !.tries = 0,
                       !.wav = FALSE, !.sent = 0, !.pc = pc]
  BY DEF WithPart, part
<1>7. /\ pc \in {"done", "look"} /\ "empty" \in Answers /\ 0 \in 0 .. MAX_ATTEMPTS
      /\ 0 \in 0 .. 2 * MAX_ATTEMPTS
  BY TranscriptionAssumption DEF Answers
<1>8. pc = "done" <=> todo = <<>>
  <2>1. pc = "done" <=> Len(todo) = 0
    BY <1>1, <1>5
  <2>2. \A q \in Seq(Spans) : q = <<>> <=> Len(q) = 0
    OBVIOUS
  <2> HIDE DEF todo, pc
  <2> QED
    BY <1>5, <2>1, <2>2
<1> HIDE DEF parts, todo, pc
<1>9. /\ u \in Task /\ u.parts = parts /\ u.todo = todo /\ u.pc = pc /\ u.tries = 0 /\ u.sent = 0
  BY <1>4, <1>5, <1>6, <1>7 DEF Task, Settled, Inside
<1>10. /\ \A i \in DOMAIN u.todo : i + 1 \in DOMAIN t.todo /\ u.todo[i] = t.todo[i + 1]
       /\ \A i \in DOMAIN t.todo : i > 1 => i - 1 \in DOMAIN u.todo
  BY <1>1, <1>5, <1>9
<1>11. \A i \in DOMAIN t.todo : t.todo[i] \in Spans /\ i \in Nat /\ i >= 1
  BY <1>1
<1>12. DOMAIN u.parts = 1 .. n + 1 /\ 1 \in DOMAIN t.todo
  BY <1>1, <1>4, <1>9
<1> QED
  BY <1>1, <1>2, <1>3, <1>4, <1>7, <1>8, <1>9, <1>10, <1>11, <1>12

LEMMA PartKeepsTask ==
  ASSUME NEW t \in Task, NEW c \in Chunks, TaskGood(t, c), t.todo # <<>>, NEW text \in Answers,
         t.todo[1] \in Spoken => text = "text"
  PROVE  TaskGood(WithPart(t, text), c)
<1> DEFINE u == WithPart(t, text)
           n == Len(t.parts)
<1>1. /\ u \in Task /\ u.pc \in {"done", "look"} /\ u.tries = 0 /\ u.sent = 0
      /\ u.pc = "done" <=> u.todo = <<>>
      /\ 1 \in DOMAIN t.todo
      /\ DOMAIN u.parts = 1 .. n + 1 /\ DOMAIN t.parts = 1 .. n /\ n \in Nat
      /\ u.parts[n + 1] = [span |-> t.todo[1], text |-> text]
      /\ \A i \in 1 .. n : u.parts[i] = t.parts[i]
      /\ \A i \in DOMAIN u.todo : i + 1 \in DOMAIN t.todo /\ u.todo[i] = t.todo[i + 1]
      /\ \A i \in DOMAIN t.todo : i > 1 => i - 1 \in DOMAIN u.todo
      /\ \A i \in DOMAIN t.todo : t.todo[i] \in Spans /\ i \in Nat /\ i >= 1
  BY PartTaken
<1> HIDE DEF u, n
<1>2. ASSUME NEW moment \in Moments(c) PROVE Held(u, moment)
  <2>1. CASE \E i \in DOMAIN t.parts : Covers(t.parts[i].span, moment)
    BY <1>1, <2>1 DEF Held
  <2>2. ASSUME NEW i \in DOMAIN t.todo, Covers(t.todo[i], moment) PROVE Held(u, moment)
    <3>1. CASE i = 1
      <4>1. n + 1 \in DOMAIN u.parts /\ u.parts[n + 1].span = t.todo[1]
        BY <1>1
      <4> QED
        BY <2>2, <3>1, <4>1 DEF Held
    <3>2. CASE i # 1
      <4>1. i - 1 \in DOMAIN u.todo /\ u.todo[i - 1] = t.todo[i]
        BY <1>1, <3>2
      <4> QED
        BY <2>2, <4>1 DEF Held
    <3> QED
      BY <3>1, <3>2
  <2> QED
    BY <2>1, <2>2 DEF TaskGood, Held
<1>3. InOrder(u)
  <2>1. InOrder(t)
    BY DEF TaskGood
  <2>2. ASSUME NEW i \in DOMAIN u.parts, NEW j \in DOMAIN u.parts, i < j
        PROVE  Precedes(u.parts[i].span, u.parts[j].span)
    <3>1. i \in 1 .. n
      BY <1>1, <2>2
    <3>2. CASE j = n + 1
      BY <1>1, <2>1, <3>1, <3>2 DEF InOrder
    <3>3. CASE j # n + 1
      BY <1>1, <2>1, <2>2, <3>1, <3>3 DEF InOrder
    <3> QED
      BY <3>2, <3>3
  <2>3. ASSUME NEW i \in DOMAIN u.parts, NEW j \in DOMAIN u.todo
        PROVE  Precedes(u.parts[i].span, u.todo[j])
    <3>1. j + 1 \in DOMAIN t.todo /\ u.todo[j] = t.todo[j + 1] /\ j + 1 >= 1 /\ j + 1 # 1
      <4>1. j + 1 \in DOMAIN t.todo /\ u.todo[j] = t.todo[j + 1]
        BY <1>1
      <4>2. u.todo \in Seq(Spans)
        BY <1>1 DEF Task
      <4>3. j \in Nat /\ j >= 1
        BY <4>2
      <4> QED
        BY <4>1, <4>3
    <3>2. CASE i = n + 1
      <4>1. 1 < j + 1
        BY <1>1, <3>1
      <4> QED
        BY <1>1, <2>1, <3>1, <3>2, <4>1 DEF InOrder
    <3>3. CASE i # n + 1
      <4>1. i \in DOMAIN t.parts /\ u.parts[i] = t.parts[i]
        BY <1>1, <3>3
      <4> QED
        BY <2>1, <3>1, <4>1 DEF InOrder
    <3> QED
      BY <3>2, <3>3
  <2>4. ASSUME NEW i \in DOMAIN u.todo, NEW j \in DOMAIN u.todo, i < j
        PROVE  Precedes(u.todo[i], u.todo[j])
    <3>1. i \in Nat /\ j \in Nat
      BY <1>1 DEF Task
    <3>2. i + 1 < j + 1
      BY <2>4, <3>1
    <3> QED
      BY <1>1, <2>1, <3>2 DEF InOrder
  <2> QED
    BY <2>2, <2>3, <2>4 DEF InOrder
<1>4. Heard(u)
  BY <1>1 DEF TaskGood, Heard
<1>5. SentOf(u)
  BY <1>1 DEF SentOf
<1>6. (u.pc \in Inside \cup {"wait"} => u.todo # <<>>) /\ (u.pc = "done" => u.todo = <<>>)
  BY <1>1 DEF Inside
<1> QED
  BY <1>2, <1>3, <1>4, <1>5, <1>6 DEF TaskGood, u

LEMMA HalvesTaken ==
  ASSUME NEW t \in Task, t.todo # <<>>, MaySplit(t.todo[1])
  PROVE  LET u == Halved(t)
             a == t.todo[1]
         IN  /\ u \in Task /\ u.pc = "look" /\ u.tries = 0 /\ u.sent = 0 /\ u.parts = t.parts
             /\ a \in Spans /\ 1 \in DOMAIN t.todo
             /\ 1 \in DOMAIN u.todo /\ u.todo[1] = Append(a, 0)
             /\ 2 \in DOMAIN u.todo /\ u.todo[2] = Append(a, 1)
             /\ u.todo # <<>>
             /\ \A i \in DOMAIN u.todo : i > 2 => i - 1 \in DOMAIN t.todo /\ u.todo[i] = t.todo[i - 1]
             /\ \A i \in DOMAIN t.todo : i > 1 => i + 1 \in DOMAIN u.todo
             /\ \A i \in DOMAIN t.todo : t.todo[i] \in Spans /\ i \in Nat /\ i >= 1
             /\ \A i \in DOMAIN u.todo : i \in Nat /\ i >= 1
<1> DEFINE a == t.todo[1]
           u == Halved(t)
           rest == Tail(t.todo)
           pair == <<Append(a, 0), Append(a, 1)>>
           todo == pair \o rest
<1>1. /\ t.todo \in Seq(Spans) /\ Len(t.todo) \in Nat \ {0} /\ DOMAIN t.todo = 1 .. Len(t.todo)
  BY DEF Task
<1>2. Head(t.todo) = a /\ a \in Spans
  BY <1>1
<1>3. Append(a, 0) \in Spans /\ Append(a, 1) \in Spans
  BY <1>2, Halving
<1>4. rest \in Seq(Spans) /\ Len(rest) = Len(t.todo) - 1 /\ \A i \in 1 .. Len(rest) : rest[i] = t.todo[i + 1]
  BY <1>1
<1> HIDE DEF rest, a
<1>5. pair \in Seq(Spans) /\ Len(pair) = 2 /\ pair[1] = Append(a, 0) /\ pair[2] = Append(a, 1)
  BY <1>3
<1> HIDE DEF pair
<1>6. /\ todo \in Seq(Spans) /\ Len(todo) = Len(t.todo) + 1
      /\ todo[1] = Append(a, 0) /\ todo[2] = Append(a, 1)
      /\ \A i \in 1 .. Len(todo) : i > 2 => todo[i] = rest[i - 2]
  <2>1. rest \in Seq(Spans) /\ Len(rest) \in Nat /\ Len(rest) + 2 = Len(t.todo) + 1
    BY <1>1, <1>4
  <2>2. \A p, q \in Seq(Spans) :
           /\ p \o q \in Seq(Spans) /\ Len(p \o q) = Len(p) + Len(q)
           /\ \A i \in 1 .. Len(p) + Len(q) : (p \o q)[i] = IF i <= Len(p) THEN p[i] ELSE q[i - Len(p)]
    OBVIOUS
  <2>3. /\ todo \in Seq(Spans) /\ Len(todo) = 2 + Len(rest)
        /\ \A i \in 1 .. 2 + Len(rest) : todo[i] = IF i <= 2 THEN pair[i] ELSE rest[i - 2]
    <3> DEFINE Joins(p, q) ==
                 /\ p \o q \in Seq(Spans) /\ Len(p \o q) = Len(p) + Len(q)
                 /\ \A i \in 1 .. Len(p) + Len(q) : (p \o q)[i] = IF i <= Len(p) THEN p[i] ELSE q[i - Len(p)]
    <3>1. \A p, q \in Seq(Spans) : Joins(p, q)
      BY <2>2
    <3> HIDE DEF Joins
    <3>2. Joins(pair, rest)
      BY <1>5, <2>1, <3>1
    <3> QED
      BY <1>5, <3>2 DEF Joins
  <2> HIDE DEF todo
  <2>4. 1 \in 1 .. 2 + Len(rest) /\ 2 \in 1 .. 2 + Len(rest)
    BY <2>1
  <2> QED
    BY <1>5, <2>1, <2>3, <2>4
<1> HIDE DEF todo
<1>7. \A i \in 1 .. Len(todo) : i > 2 => i - 1 \in DOMAIN t.todo /\ todo[i] = t.todo[i - 1]
  <2> SUFFICES ASSUME NEW i \in 1 .. Len(todo), i > 2
               PROVE  i - 1 \in DOMAIN t.todo /\ todo[i] = t.todo[i - 1]
    OBVIOUS
  <2>1. i - 2 \in 1 .. Len(rest) /\ i - 2 + 1 = i - 1
    BY <1>1, <1>4, <1>6
  <2>2. rest[i - 2] = t.todo[i - 1]
    BY <1>4, <2>1
  <2> QED
    BY <1>1, <1>4, <1>6, <2>1, <2>2
<1>8. u = [t EXCEPT !.todo = todo, !.pc = "look", !.tries = 0, !.wav = FALSE, !.sent = 0]
  BY <1>2 DEF Halved, todo, pair, rest
<1>9. 0 \in 0 .. MAX_ATTEMPTS /\ 0 \in 0 .. 2 * MAX_ATTEMPTS
  BY TranscriptionAssumption
<1>10. u \in Task /\ u.todo = todo /\ u.pc = "look" /\ u.tries = 0 /\ u.sent = 0 /\ u.parts = t.parts
  BY <1>6, <1>8, <1>9 DEF Task, Inside
<1>11. DOMAIN todo = 1 .. Len(todo) /\ Len(todo) >= 2 /\ todo # <<>>
  BY <1>1, <1>6
<1>12. \A i \in DOMAIN t.todo : t.todo[i] \in Spans /\ i \in Nat /\ i >= 1 /\ (i > 1 => i + 1 \in DOMAIN todo)
  BY <1>1, <1>6, <1>11
<1>13. \A i \in DOMAIN todo : i \in Nat /\ i >= 1
  BY <1>11
<1>14. 1 \in DOMAIN todo /\ 2 \in DOMAIN todo /\ 1 \in DOMAIN t.todo
  BY <1>1, <1>11
<1> HIDE DEF u
<1> QED
  BY <1>2, <1>6, <1>7, <1>10, <1>11, <1>12, <1>13, <1>14 DEF u, a

LEMMA HalvingKeepsTask ==
  ASSUME NEW t \in Task, NEW c \in Chunks, TaskGood(t, c), t.todo # <<>>, MaySplit(t.todo[1])
  PROVE  TaskGood(Halved(t), c)
<1> DEFINE u == Halved(t)
           a == t.todo[1]
<1>1. /\ u \in Task /\ u.pc = "look" /\ u.tries = 0 /\ u.sent = 0 /\ u.parts = t.parts
      /\ a \in Spans /\ 1 \in DOMAIN t.todo
      /\ 1 \in DOMAIN u.todo /\ u.todo[1] = Append(a, 0)
      /\ 2 \in DOMAIN u.todo /\ u.todo[2] = Append(a, 1)
      /\ u.todo # <<>>
      /\ \A i \in DOMAIN u.todo : i > 2 => i - 1 \in DOMAIN t.todo /\ u.todo[i] = t.todo[i - 1]
      /\ \A i \in DOMAIN t.todo : i > 1 => i + 1 \in DOMAIN u.todo
      /\ \A i \in DOMAIN t.todo : t.todo[i] \in Spans /\ i \in Nat /\ i >= 1
      /\ \A i \in DOMAIN u.todo : i \in Nat /\ i >= 1
  BY HalvesTaken
<1> HIDE DEF u, a
<1>2. MaySplit(a)
  BY DEF a
<1>3. ASSUME NEW moment \in Moments(c) PROVE Held(u, moment)
  <2>1. CASE \E i \in DOMAIN t.parts : Covers(t.parts[i].span, moment)
    BY <1>1, <2>1 DEF Held
  <2>2. ASSUME NEW i \in DOMAIN t.todo, Covers(t.todo[i], moment) PROVE Held(u, moment)
    <3>1. CASE i = 1
      <4>1. Covers(a, moment)
        BY <2>2, <3>1 DEF a
      <4>2. Covers(Append(a, 0), moment) \/ Covers(Append(a, 1), moment)
        BY <1>1, <1>2, <4>1, HalvesCover
      <4> QED
        BY <1>1, <4>2 DEF Held
    <3>2. CASE i # 1
      <4>1. i + 1 \in DOMAIN u.todo /\ i + 1 > 2
        BY <1>1, <3>2
      <4>2. u.todo[i + 1] = t.todo[i + 1 - 1] /\ i + 1 - 1 = i
        BY <1>1, <4>1
      <4> QED
        BY <2>2, <4>1, <4>2 DEF Held
    <3> QED
      BY <3>1, <3>2
  <2> QED
    BY <2>1, <2>2 DEF TaskGood, Held
\* A half stands to every other span as the whole did.
<1>4. ASSUME NEW j \in DOMAIN u.todo
      PROVE  \E i \in DOMAIN t.todo :
                 /\ i = (IF j <= 2 THEN 1 ELSE j - 1) /\ t.todo[i] \in Spans
                 /\ \A x \in Spans : Precedes(x, t.todo[i]) => Precedes(x, u.todo[j])
                 /\ \A x \in Spans : Precedes(t.todo[i], x) => Precedes(u.todo[j], x)
  <2>1. CASE j <= 2
    <3>1. PICK b \in {0, 1} : u.todo[j] = Append(a, b)
      BY <1>1, <2>1
    <3>2. \A x \in Spans : /\ Precedes(x, a) => Precedes(x, u.todo[j])
                           /\ Precedes(a, x) => Precedes(u.todo[j], x)
      BY <1>1, <1>2, <3>1, HalvesPrecede
    <3> QED
      BY <1>1, <2>1, <3>2 DEF a
  <2>2. CASE j > 2
    BY <1>1, <2>2
  <2> QED
    BY <1>1, <2>1, <2>2
<1>5. InOrder(u)
  <2>1. InOrder(t) /\ t.parts \in Seq(Part)
    BY DEF TaskGood, Task
  <2>2. ASSUME NEW i \in DOMAIN t.parts, NEW j \in DOMAIN u.todo
        PROVE  Precedes(t.parts[i].span, u.todo[j])
    <3>1. t.parts[i].span \in Spans
      <4>1. t.parts[i] \in Part
        BY <2>1
      <4> QED
        BY <4>1 DEF Part
    <3>2. PICK k \in DOMAIN t.todo : \A x \in Spans : Precedes(x, t.todo[k]) => Precedes(x, u.todo[j])
      BY <1>4
    <3> QED
      BY <2>1, <3>1, <3>2 DEF InOrder
  <2>3. ASSUME NEW i \in DOMAIN u.todo, NEW j \in DOMAIN u.todo, i < j
        PROVE  Precedes(u.todo[i], u.todo[j])
    <3>1. i \in Nat /\ j \in Nat /\ i >= 1 /\ j >= 1
      BY <1>1
    <3>2. CASE j <= 2
      <4>1. i = 1 /\ j = 2
        BY <2>3, <3>1, <3>2
      <4> QED
        BY <1>1, <1>2, <4>1, HalvesPrecede
    <3>3. CASE j > 2
      <4>1. PICK k \in DOMAIN t.todo :
                 /\ k = (IF i <= 2 THEN 1 ELSE i - 1) /\ t.todo[k] \in Spans
                 /\ \A x \in Spans : Precedes(t.todo[k], x) => Precedes(u.todo[i], x)
        BY <1>4
      <4>2. j - 1 \in DOMAIN t.todo /\ u.todo[j] = t.todo[j - 1] /\ t.todo[j - 1] \in Spans
        BY <1>1, <3>3
      <4>3. k < j - 1
        BY <2>3, <3>1, <3>3, <4>1
      <4>4. Precedes(t.todo[k], t.todo[j - 1])
        BY <2>1, <4>2, <4>3 DEF InOrder
      <4> QED
        BY <4>1, <4>2, <4>4
    <3> QED
      BY <3>1, <3>2, <3>3
  <2> QED
    BY <1>1, <2>1, <2>2, <2>3 DEF InOrder
<1>6. Heard(u) /\ SentOf(u)
  BY <1>1 DEF TaskGood, Heard, SentOf
<1> QED
  BY <1>1, <1>3, <1>5, <1>6 DEF TaskGood, u
-----------------------------------------------------------------------------
\* The invariant, step by step.

LEMMA WaitingGood == \A c \in Chunks : Waiting(c) \in Task /\ TaskGood(Waiting(c), c)
<1> SUFFICES ASSUME NEW c \in Chunks PROVE Waiting(c) \in Task /\ TaskGood(Waiting(c), c)
  OBVIOUS
<1>1. <<c>> \in Spans /\ <<c>> \in Seq(Nat) /\ Len(<<c>>) = 1 /\ <<c>>[1] = c
  <2>1. <<c>> \in Seq(Nat) /\ Len(<<c>>) = 1 /\ <<c>>[1] = c
    BY TranscriptionAssumption
  <2> DEFINE s == <<c>>
  <2> HIDE DEF s
  <2>2. s \in Seq(Nat) /\ Len(s) = 1 /\ s[1] = c
    BY <2>1 DEF s
  <2>3. Len(s) \in 1 .. MAX_SPLIT_DEPTH + 1 /\ \A k \in 2 .. Len(s) : s[k] \in {0, 1}
    BY <2>2, TranscriptionAssumption
  <2>4. s \in Spans
    BY <2>2, <2>3, SpanShape
  <2> QED
    BY <2>1, <2>4 DEF s
<1> DEFINE todo == <<<<c>>>>
           w == Waiting(c)
<1>2. todo \in Seq(Spans) /\ todo # <<>> /\ DOMAIN todo = {1} /\ todo[1] = <<c>>
  BY <1>1
<1>3. <<>> \in Seq(Part) /\ DOMAIN <<>> = {}
  OBVIOUS
<1>4. 0 \in 0 .. MAX_ATTEMPTS /\ 0 \in 0 .. 2 * MAX_ATTEMPTS
  BY TranscriptionAssumption
<1>5. w = [pc |-> "wait", todo |-> todo, wav |-> FALSE, tries |-> 0, sent |-> 0, text |-> "empty",
           parts |-> <<>>]
  BY DEF Waiting
<1> HIDE DEF todo, w
<1>6. w \in Task
  BY <1>2, <1>3, <1>4, <1>5 DEF Task, Answers
<1>7. ASSUME NEW moment \in Moments(c) PROVE Held(w, moment)
  <2>1. PICK h \in [1 .. MAX_SPLIT_DEPTH -> {0, 1}] : moment = <<c>> \o h
    BY DEF Moments
  <2>2. h \in Seq(Nat) /\ Len(h) = MAX_SPLIT_DEPTH
    BY <2>1, TranscriptionAssumption
  <2>3. moment \in Seq(Nat) /\ Len(moment) = MAX_SPLIT_DEPTH + 1 /\ moment[1] = c
    BY <1>1, <2>1, <2>2
  <2> DEFINE m == SubSeq(moment, 1, 1)
  <2>4. m \in Seq(Nat) /\ Len(m) = 1 /\ m[1] = c
    BY <2>3, TranscriptionAssumption
  <2> HIDE DEF m
  <2>5. m = <<c>>
    BY <1>1, <2>4
  <2>6. Covers(<<c>>, moment)
    BY <1>1, <2>3, <2>5, TranscriptionAssumption DEF Covers, m
  <2> QED
    BY <1>2, <1>5, <2>6 DEF Held
<1>8. InOrder(w)
  BY <1>2, <1>3, <1>5 DEF InOrder
<1>9. Heard(w) /\ SentOf(w)
  BY <1>3, <1>5 DEF Heard, SentOf
<1>10. w.pc = "wait" /\ w.todo # <<>>
  BY <1>2, <1>5
<1>11. TaskGood(w, c)
  BY <1>7, <1>8, <1>9, <1>10 DEF TaskGood
<1> QED
  BY <1>6, <1>11 DEF w

LEMMA InitInv == Init => Inv
<1> SUFFICES ASSUME Init PROVE Inv
  OBVIOUS
<1>1. Fresh \in Run /\ Fresh.pc = "new"
  BY DEF Fresh, Run, Ended
<1>2. TypeOK
  BY <1>1, WaitingGood DEF Init, TypeOK
<1>3. TasksGood
  BY WaitingGood DEF Init, TasksGood
<1>4. RunLinks
  BY <1>1 DEF Init, RunLinks, Waiting
<1>5. KeptIsHeard
  BY DEF Init, KeptIsHeard, Digests
<1>6. KnownIsKept /\ KeptIsNotBoughtAgain
  BY DEF Init, KnownIsKept, KeptIsNotBoughtAgain
<1>7. TranscriptIsWhole
  BY <1>1 DEF Init, TranscriptIsWhole
<1> QED
  BY <1>2, <1>3, <1>4, <1>5, <1>6, <1>7 DEF Inv

LEMMA TaskStep ==
  ASSUME Inv, NEW r \in Runs, NEW c \in Chunks, runs[r].pc = "sending",
         NEW t \in Task, TaskGood(t, c), tasks' = [tasks EXCEPT ![r][c] = t],
         t.pc \in {"send", "out"} => digest_of(Head(t.todo)) \notin known[r],
         t.pc = "aborted" => runs'[r].fatal,
         runs' \in [Runs -> Run],
         \A q \in Runs : runs'[q].pc = runs[q].pc /\ (runs[q].fatal => runs'[q].fatal),
         kept' \in [Digests -> Answers \cup {"none"}], KeptIsHeard',
         \A d \in Digests : kept[d] # "none" => kept'[d] # "none",
         paid' \subseteq Digests, used' \in Nat, UNCHANGED <<holder, transcript, known>>
  PROVE  Inv'
<1>1. \A q \in Runs, b \in Chunks :
         tasks'[q][b] = IF q = r /\ b = c THEN t ELSE tasks[q][b]
  BY DEF Inv, TypeOK
<1>2. tasks' \in [Runs -> [Chunks -> Task]]
  BY DEF Inv, TypeOK
<1>3. TypeOK'
  BY <1>2 DEF Inv, TypeOK
<1>4. TasksGood'
  <2> SUFFICES ASSUME NEW q \in Runs, NEW b \in Chunks PROVE TaskGood(tasks'[q][b], b)
    BY DEF TasksGood, TaskGood, SentOf, Held, InOrder, Heard
  <2> QED
    BY <1>1 DEF Inv, TasksGood
<1>5. RunLinks'
  <2> SUFFICES ASSUME NEW q \in Runs
               PROVE  /\ runs'[q].pc \notin {"sending", "saving"} => \A b \in Chunks : tasks'[q][b] = Waiting(b)
                      /\ runs'[q].pc = "saving" => \A b \in Chunks : tasks'[q][b].pc = "done"
                      /\ \A b \in Chunks : tasks'[q][b].pc = "aborted" => runs'[q].fatal
    BY DEF RunLinks, Waiting
  <2> QED
    BY <1>1 DEF Inv, RunLinks
<1>6. KnownIsKept'
  BY DEF Inv, TypeOK, KnownIsKept
<1>7. KeptIsNotBoughtAgain'
  BY <1>1 DEF Inv, KeptIsNotBoughtAgain, Span
<1>8. TranscriptIsWhole'
  BY DEF Inv, TranscriptIsWhole
<1> QED
  BY <1>3, <1>4, <1>5, <1>6, <1>7, <1>8 DEF Inv

\* The span at hand of a task at work.
LEMMA AtHand ==
  ASSUME Inv, NEW r \in Runs, NEW c \in Chunks, tasks[r][c].pc \in Inside
  PROVE  /\ tasks[r][c].todo # <<>> /\ Span(r, c) = tasks[r][c].todo[1]
         /\ Span(r, c) \in Spans /\ digest_of(Span(r, c)) \in Digests
<1>1. tasks[r][c].todo # <<>> /\ tasks[r][c].todo \in Seq(Spans)
  BY DEF Inv, TypeOK, Task, TasksGood, TaskGood
<1>2. tasks[r][c].todo[1] \in Spans /\ Head(tasks[r][c].todo) = tasks[r][c].todo[1]
  BY <1>1
<1> QED
  BY <1>1, <1>2 DEF Span, Digests

\* A step of a task that leaves its spans alone.
LEMMA SameSpans ==
  ASSUME NEW t \in Task, NEW u \in Task, NEW c \in Chunks, TaskGood(t, c),
         u.todo = t.todo, u.parts = t.parts,
         t.todo # <<>>, u.pc # "done", SentOf(u),
         u.pc = "keep" /\ Head(u.todo) \in Spoken => u.text = "text"
  PROVE  TaskGood(u, c)
BY DEF TaskGood, Held, InOrder, Heard

LEMMA AttemptKeepsInv ==
  ASSUME Inv, NEW r \in Runs, NEW c \in Chunks, runs[r].pc = "sending",
         tasks[r][c].pc \in {"look", "out"}, tasks[r][c].tries < MAX_ATTEMPTS, Attempt(r, c),
         digest_of(Span(r, c)) \notin known[r],
         UNCHANGED <<kept, holder, transcript, known, paid, used>>
  PROVE  Inv'
<1>1. PICK encodes \in BOOLEAN :
        LET compressed == runs[r].compressed /\ encodes
        IN  /\ tasks' = [tasks EXCEPT ![r][c] = [tasks[r][c] EXCEPT !.pc = "send", !.wav = ~compressed,
                                                                    !.tries = @ + 1]]
            /\ runs' = [runs EXCEPT ![r].compressed = compressed]
  BY DEF Attempt, Becomes
<1> DEFINE t == tasks[r][c]
           compressed == runs[r].compressed /\ encodes
           u == [t EXCEPT !.pc = "send", !.wav = ~compressed, !.tries = @ + 1]
<1>2. t \in Task /\ TaskGood(t, c) /\ runs[r] \in Run
  BY DEF Inv, TypeOK, TasksGood
<1>3. compressed \in BOOLEAN /\ (~compressed) \in BOOLEAN
  BY <1>2 DEF Run
<1> HIDE DEF compressed
<1>4. t.tries + 1 \in 0 .. MAX_ATTEMPTS /\ t.tries \in Nat /\ t.sent \in Nat /\ t.wav \in BOOLEAN
  BY <1>2, TranscriptionAssumption DEF Task
<1>5. u \in Task /\ u.pc = "send" /\ u.todo = t.todo /\ u.parts = t.parts /\ u.tries = t.tries + 1 /\ u.sent = t.sent
      /\ u.wav \in BOOLEAN
  BY <1>2, <1>3, <1>4 DEF Task, Inside
<1>6. t.sent <= 2 * t.tries
  <2>1. SentOf(t)
    BY <1>2 DEF TaskGood
  <2> QED
    BY <1>4, <2>1 DEF SentOf
<1>7. SentOf(u)
  BY <1>4, <1>5, <1>6 DEF SentOf
<1>8. TaskGood(u, c)
  <2>1. t.todo # <<>>
    BY <1>2 DEF TaskGood, Inside
  <2> QED
    BY <1>2, <1>5, <1>7, <2>1, SameSpans
<1>9. tasks' = [tasks EXCEPT ![r][c] = u] /\ runs' = [runs EXCEPT ![r].compressed = compressed]
  BY <1>1 DEF compressed
<1>10. runs' \in [Runs -> Run] /\ \A q \in Runs : runs'[q].pc = runs[q].pc /\ runs'[q].fatal = runs[q].fatal
  BY <1>2, <1>3, <1>9 DEF Inv, TypeOK, Run
<1>11. digest_of(Head(u.todo)) \notin known[r]
  BY <1>5 DEF Span
<1> HIDE DEF u
<1>12. KeptIsHeard'
  BY DEF Inv, KeptIsHeard
<1> QED
  BY <1>5, <1>8, <1>9, <1>10, <1>11, <1>12, TaskStep DEF Inv, TypeOK

LEMMA TaskMoves ==
  ASSUME Inv, NEW r \in Runs, NEW c \in Chunks, runs[r].pc = "sending",
         NEW u \in Task, TaskGood(u, c), tasks' = [tasks EXCEPT ![r][c] = u],
         u.pc \in {"send", "out"} => digest_of(Head(u.todo)) \notin known[r],
         u.pc = "aborted" => runs[r].fatal,
         UNCHANGED <<runs, kept, holder, transcript, known>>,
         paid' \subseteq Digests, used' \in Nat
  PROVE  Inv'
<1>1. KeptIsHeard'
  BY DEF Inv, KeptIsHeard
<1> QED
  BY <1>1, TaskStep DEF Inv, TypeOK

\* Of the parts of Inv a step of one task needs.
LEMMA OfTask ==
  ASSUME Inv, NEW r \in Runs, NEW c \in Chunks
  PROVE  /\ tasks[r][c] \in Task /\ TaskGood(tasks[r][c], c) /\ runs[r] \in Run
         /\ paid \subseteq Digests /\ used \in Nat
         /\ tasks[r][c].pc \in {"send", "out"} => digest_of(Head(tasks[r][c].todo)) \notin known[r]
BY DEF Inv, TypeOK, TasksGood, KeptIsNotBoughtAgain, Span

LEMMA EnterKeepsInv == ASSUME Inv, NEW r \in Runs, NEW c \in Chunks, Enter(r, c) PROVE Inv'
<1> DEFINE t == tasks[r][c]
           pc == IF runs[r].fatal THEN "aborted" ELSE IF runs[r].cancelled THEN "stopped" ELSE "look"
           u == [t EXCEPT !.pc = pc]
<1>1. /\ runs[r].pc = "sending" /\ t.pc = "wait" /\ tasks' = [tasks EXCEPT ![r][c] = u]
      /\ UNCHANGED <<runs, kept, holder, transcript, known, paid, used>>
  BY DEF Enter, At, Becomes
<1>2. t \in Task /\ TaskGood(t, c) /\ paid \subseteq Digests /\ used \in Nat
  BY OfTask
<1>3. pc \in {"aborted", "stopped", "look"} /\ (pc = "aborted" => runs[r].fatal)
  OBVIOUS
<1> HIDE DEF pc
<1>4. u \in Task /\ u.pc = pc /\ u.todo = t.todo /\ u.parts = t.parts /\ u.tries = t.tries /\ u.sent = t.sent
  BY <1>2, <1>3 DEF Task, Inside, Settled
<1>5. t.todo # <<>> /\ SentOf(u)
  BY <1>1, <1>2, <1>3, <1>4 DEF TaskGood, SentOf
<1> HIDE DEF u
<1>6. TaskGood(u, c)
  BY <1>2, <1>3, <1>4, <1>5, SameSpans
<1> QED
  BY <1>1, <1>2, <1>3, <1>4, <1>6, TaskMoves

LEMMA PartKeepsInv ==
  ASSUME Inv, NEW r \in Runs, NEW c \in Chunks, runs[r].pc = "sending", tasks[r][c].pc \in Inside,
         NEW text \in Answers, tasks' = [tasks EXCEPT ![r][c] = WithPart(tasks[r][c], text)],
         Span(r, c) \in Spoken => text = "text",
         kept' \in [Digests -> Answers \cup {"none"}], KeptIsHeard',
         \A d \in Digests : kept[d] # "none" => kept'[d] # "none",
         UNCHANGED <<runs, holder, transcript, known, paid, used>>
  PROVE  Inv'
<1> DEFINE u == WithPart(tasks[r][c], text)
<1>1. tasks[r][c] \in Task /\ TaskGood(tasks[r][c], c) /\ tasks[r][c].todo # <<>>
      /\ Span(r, c) = tasks[r][c].todo[1]
  BY OfTask, AtHand
<1>2. u \in Task /\ u.pc \in {"done", "look"}
  BY <1>1, PartTaken
<1>3. TaskGood(u, c)
  BY <1>1, PartKeepsTask
<1> HIDE DEF u
<1>4. tasks' = [tasks EXCEPT ![r][c] = u]
  BY DEF u
<1> QED
  BY <1>2, <1>3, <1>4, OfTask, TaskStep DEF Inv, TypeOK

LEMMA LookKeepsInv == ASSUME Inv, NEW r \in Runs, NEW c \in Chunks, Look(r, c) PROVE Inv'
<1> DEFINE text == kept[digest_of(Span(r, c))]
<1>1. /\ runs[r].pc = "sending" /\ tasks[r][c].pc = "look" /\ tasks[r][c].pc \in Inside
      /\ UNCHANGED <<kept, holder, transcript, known, paid, used>>
  BY DEF Look, At, Inside
<1>2. Span(r, c) \in Spans /\ digest_of(Span(r, c)) \in Digests
  BY <1>1, AtHand
<1>3. CASE text # "none" /\ tasks' = [tasks EXCEPT ![r][c] = WithPart(tasks[r][c], text)] /\ runs' = runs
  <2>1. text \in Answers
    BY <1>2, <1>3 DEF Inv, TypeOK
  <2>2. Span(r, c) \in Spoken => text = "text"
    BY <1>2, <2>1 DEF Inv, KeptIsHeard, Answers
  <2>3. KeptIsHeard'
    BY <1>1 DEF Inv, KeptIsHeard
  <2> QED
    BY <1>1, <1>3, <2>1, <2>2, <2>3, PartKeepsInv DEF Inv, TypeOK
<1>4. CASE text = "none" /\ Attempt(r, c)
  <2>1. digest_of(Span(r, c)) \notin known[r]
    BY <1>4 DEF Inv, KnownIsKept
  <2>2. tasks[r][c].tries = 0 /\ tasks[r][c].tries < MAX_ATTEMPTS
    BY <1>1, OfTask, TranscriptionAssumption DEF TaskGood, SentOf
  <2> QED
    BY <1>1, <1>4, <2>1, <2>2, AttemptKeepsInv
<1> QED
  BY <1>3, <1>4 DEF Look, Becomes

LEMMA SendKeepsInv == ASSUME Inv, NEW r \in Runs, NEW c \in Chunks, Send(r, c) PROVE Inv'
<1> DEFINE t == tasks[r][c]
           stopped == [t EXCEPT !.pc = "stopped"]
           out == [t EXCEPT !.pc = "out", !.sent = @ + 1]
<1>1. /\ runs[r].pc = "sending" /\ t.pc = "send"
      /\ UNCHANGED <<runs, kept, holder, transcript, known, paid, used>>
      /\ tasks' = [tasks EXCEPT ![r][c] = stopped] \/ tasks' = [tasks EXCEPT ![r][c] = out]
  BY DEF Send, At, Becomes
<1>2. /\ t \in Task /\ TaskGood(t, c) /\ paid \subseteq Digests /\ used \in Nat
      /\ digest_of(Head(t.todo)) \notin known[r]
  BY <1>1, OfTask
<1>3. t.todo # <<>> /\ SentOf(t)
  BY <1>1, <1>2 DEF TaskGood, Inside
<1>4. CASE tasks' = [tasks EXCEPT ![r][c] = stopped]
  <2>1. /\ stopped \in Task /\ stopped.pc = "stopped" /\ stopped.todo = t.todo /\ stopped.parts = t.parts
    BY <1>2 DEF Task, Settled
  <2>2. SentOf(stopped)
    BY <2>1 DEF SentOf
  <2> HIDE DEF stopped
  <2>3. TaskGood(stopped, c)
    BY <1>2, <1>3, <2>1, <2>2, SameSpans
  <2> QED
    BY <1>1, <1>2, <1>4, <2>1, <2>3, TaskMoves
<1>5. CASE tasks' = [tasks EXCEPT ![r][c] = out]
  <2>1. /\ t.tries \in Nat /\ t.tries > 0 /\ t.tries <= MAX_ATTEMPTS /\ MAX_ATTEMPTS \in Nat
        /\ t.sent \in Nat /\ t.wav \in BOOLEAN
        /\ t.sent <= 2 * t.tries - IF t.wav THEN 1 ELSE 2
    BY <1>1, <1>2, <1>3, TranscriptionAssumption DEF Task, SentOf
  <2>2. t.sent + 1 \in 0 .. 2 * MAX_ATTEMPTS /\ t.sent + 1 <= 2 * t.tries - IF t.wav THEN 0 ELSE 1
    BY <2>1
  <2>3. /\ out \in Task /\ out.pc = "out" /\ out.todo = t.todo /\ out.parts = t.parts
        /\ out.sent = t.sent + 1 /\ out.tries = t.tries /\ out.wav = t.wav
    BY <1>2, <2>2 DEF Task, Inside
  <2>4. SentOf(out)
    BY <2>1, <2>2, <2>3 DEF SentOf
  <2> HIDE DEF out
  <2>5. TaskGood(out, c)
    BY <1>2, <1>3, <2>3, <2>4, SameSpans
  <2> QED
    BY <1>1, <1>2, <1>5, <2>3, <2>5, TaskMoves
<1> QED
  BY <1>1, <1>4, <1>5

\* A task goes on with the same span, its bytes or its verdict new.
LEMMA SpanStays ==
  ASSUME Inv, NEW r \in Runs, NEW c \in Chunks, runs[r].pc = "sending", tasks[r][c].pc \in Inside,
         NEW u \in Task, u.todo = tasks[r][c].todo, u.parts = tasks[r][c].parts, u.pc \notin {"done", "aborted"},
         tasks' = [tasks EXCEPT ![r][c] = u], SentOf(u),
         u.pc \in {"send", "out"} => tasks[r][c].pc \in {"send", "out"},
         u.pc = "keep" /\ Span(r, c) \in Spoken => u.text = "text",
         runs' \in [Runs -> Run],
         \A q \in Runs : runs'[q].pc = runs[q].pc /\ (runs[q].fatal => runs'[q].fatal),
         UNCHANGED <<kept, holder, transcript, known>>, paid' \subseteq Digests, used' \in Nat
  PROVE  Inv'
<1>1. tasks[r][c] \in Task /\ TaskGood(tasks[r][c], c) /\ tasks[r][c].todo # <<>> /\ Span(r, c) = Head(u.todo)
  BY OfTask, AtHand DEF Span
<1>2. TaskGood(u, c)
  BY <1>1, SameSpans
<1>3. u.pc \in {"send", "out"} => digest_of(Head(u.todo)) \notin known[r]
  BY OfTask
<1>4. KeptIsHeard'
  BY DEF Inv, KeptIsHeard
<1> QED
  BY <1>2, <1>3, <1>4, TaskStep DEF Inv, TypeOK

LEMMA AnswerKeepsInv ==
  ASSUME Inv, NEW r \in Runs, NEW c \in Chunks, Answered(r, c) \/ NoSpeech(r, c)
  PROVE  Inv'
<1> DEFINE t == tasks[r][c]
<1>1. /\ runs[r].pc = "sending" /\ t.pc = "out" /\ t.pc \in Inside
      /\ UNCHANGED <<runs, kept, holder, transcript, known, used>>
  BY DEF Answered, NoSpeech, At, Inside
<1>2. t \in Task /\ TaskGood(t, c) /\ Span(r, c) = Head(t.todo) /\ digest_of(Span(r, c)) \in Digests
      /\ runs \in [Runs -> Run] /\ paid \subseteq Digests /\ used \in Nat
  BY <1>1, OfTask, AtHand DEF Span, Inv, TypeOK
<1>3. ASSUME NEW text \in Answers, Span(r, c) \in Spoken => text = "text", paid' \subseteq Digests,
             tasks' = [tasks EXCEPT ![r][c] = [t EXCEPT !.pc = "keep", !.text = text]]
      PROVE  Inv'
  <2> DEFINE u == [t EXCEPT !.pc = "keep", !.text = text]
  <2>1. u \in Task /\ u.pc = "keep" /\ u.todo = t.todo /\ u.parts = t.parts /\ u.text = text
    BY <1>2 DEF Task, Inside
  <2>2. SentOf(u)
    BY <2>1 DEF SentOf
  <2>3. tasks' = [tasks EXCEPT ![r][c] = u]
    BY <1>3
  <2> HIDE DEF u
  <2> QED
    BY <1>1, <1>2, <1>3, <2>1, <2>2, <2>3, SpanStays
<1>4. CASE Answered(r, c)
  <2>1. PICK text \in IF Span(r, c) \in Spoken THEN {"text"} ELSE Answers :
                tasks' = [tasks EXCEPT ![r][c] = [t EXCEPT !.pc = "keep", !.text = text]]
    BY <1>4 DEF Answered, Becomes
  <2>2. text \in Answers /\ (Span(r, c) \in Spoken => text = "text")
    BY DEF Answers
  <2>3. paid' \subseteq Digests
    BY <1>2, <1>4 DEF Answered
  <2> QED
    BY <1>3, <2>1, <2>2, <2>3
<1>5. CASE NoSpeech(r, c) /\ t.wav
  <2>1. tasks' = [tasks EXCEPT ![r][c] = [t EXCEPT !.pc = "keep", !.text = "empty"]] /\ Span(r, c) \notin Spoken
    BY <1>5 DEF NoSpeech, Becomes
  <2>2. "empty" \in Answers /\ paid' \subseteq Digests
    BY <1>2, <1>5 DEF Answers, NoSpeech
  <2> QED
    BY <1>3, <2>1, <2>2
<1>6. CASE NoSpeech(r, c) /\ ~t.wav
  <2> DEFINE u == [t EXCEPT !.pc = "send", !.wav = TRUE]
  <2>1. tasks' = [tasks EXCEPT ![r][c] = u] /\ paid' = paid
    BY <1>6 DEF NoSpeech, Becomes
  <2>2. u \in Task /\ u.pc = "send" /\ u.todo = t.todo /\ u.parts = t.parts /\ u.wav = TRUE
        /\ u.sent = t.sent /\ u.tries = t.tries
    BY <1>2 DEF Task, Inside
  <2>3. SentOf(t)
    BY <1>2 DEF TaskGood
  <2>4. SentOf(u)
    BY <1>1, <1>6, <2>2, <2>3 DEF SentOf
  <2> HIDE DEF u
  <2> QED
    BY <1>1, <1>2, <2>1, <2>2, <2>4, SpanStays
<1> QED
  BY <1>4, <1>5, <1>6

LEMMA FormatKeepsInv ==
  ASSUME Inv, NEW r \in Runs, NEW c \in Chunks, FormatRefused(r, c)
  PROVE  Inv'
<1> DEFINE t == tasks[r][c]
           u == [t EXCEPT !.pc = "send", !.wav = TRUE]
<1>1. /\ runs[r].pc = "sending" /\ t.pc = "out" /\ t.pc \in Inside /\ ~t.wav
      /\ tasks' = [tasks EXCEPT ![r][c] = u] /\ runs' = [runs EXCEPT ![r].compressed = FALSE]
      /\ UNCHANGED <<kept, holder, transcript, known, paid, used>>
  BY DEF FormatRefused, At, Inside, Becomes
<1>2. t \in Task /\ TaskGood(t, c) /\ paid \subseteq Digests /\ used \in Nat /\ runs \in [Runs -> Run]
  BY OfTask DEF Inv, TypeOK
<1>3. u \in Task /\ u.pc = "send" /\ u.todo = t.todo /\ u.parts = t.parts /\ u.wav = TRUE
      /\ u.sent = t.sent /\ u.tries = t.tries
  BY <1>2 DEF Task, Inside
<1>4. SentOf(t)
  BY <1>2 DEF TaskGood
<1>5. SentOf(u)
  BY <1>1, <1>3, <1>4 DEF SentOf
<1>6. runs' \in [Runs -> Run] /\ \A q \in Runs : runs'[q].pc = runs[q].pc /\ (runs[q].fatal => runs'[q].fatal)
  BY <1>1, <1>2 DEF Run
<1> HIDE DEF u
<1> QED
  BY <1>1, <1>2, <1>3, <1>5, <1>6, SpanStays

\* The task fails, and the run may be doomed.
LEMMA FailureKeepsInv ==
  ASSUME Inv, NEW r \in Runs, NEW c \in Chunks, runs[r].pc = "sending", tasks[r][c].pc \in Inside,
         tasks' = [tasks EXCEPT ![r][c] = [tasks[r][c] EXCEPT !.pc = "failed"]],
         runs' = runs \/ \E fatal \in BOOLEAN : runs' = [runs EXCEPT ![r].fatal = @ \/ fatal],
         UNCHANGED <<kept, holder, transcript, known>>, paid' \subseteq Digests, used' \in Nat
  PROVE  Inv'
<1> DEFINE t == tasks[r][c]
           u == [t EXCEPT !.pc = "failed"]
<1>1. t \in Task /\ runs \in [Runs -> Run]
  BY OfTask DEF Inv, TypeOK
<1>2. u \in Task /\ u.pc = "failed" /\ u.todo = t.todo /\ u.parts = t.parts
  BY <1>1 DEF Task, Settled
<1>3. SentOf(u)
  BY <1>2 DEF SentOf
<1>4. runs' \in [Runs -> Run] /\ \A q \in Runs : runs'[q].pc = runs[q].pc /\ (runs[q].fatal => runs'[q].fatal)
  BY <1>1 DEF Run
<1>5. tasks' = [tasks EXCEPT ![r][c] = u]
  OBVIOUS
<1> HIDE DEF u
<1> QED
  BY <1>2, <1>3, <1>4, <1>5, SpanStays

LEMMA BrokenKeepsInv ==
  ASSUME Inv, NEW r \in Runs, NEW c \in Chunks, Broken(r, c) \/ KeepFails(r, c)
  PROVE  Inv'
<1>1. /\ runs[r].pc = "sending" /\ tasks[r][c].pc \in Inside
      /\ tasks' = [tasks EXCEPT ![r][c] = [tasks[r][c] EXCEPT !.pc = "failed"]]
      /\ UNCHANGED <<runs, kept, holder, transcript, known>>
  BY DEF Broken, KeepFails, At, Becomes, Inside
<1>2. paid' \subseteq Digests /\ used' \in Nat
  BY OfTask DEF Broken, KeepFails, BadLuck
<1> QED
  BY <1>1, <1>2, FailureKeepsInv

LEMMA GivenUpKeepsInv ==
  ASSUME Inv, NEW r \in Runs, NEW c \in Chunks, NEW error \in Errors, GivenUp(r, c, error)
  PROVE  Inv'
<1> DEFINE t == tasks[r][c]
           splits == error \in BlamesThePayload /\ MaySplit(Span(r, c))
           fatal == error \in EndsTheRun
<1>1. /\ runs[r].pc = "sending" /\ t.pc = "out" /\ t.pc \in Inside
      /\ tasks' = [tasks EXCEPT ![r][c] = IF splits THEN Halved(t) ELSE [t EXCEPT !.pc = "failed"]]
      /\ runs' = [runs EXCEPT ![r].fatal = @ \/ fatal]
      /\ UNCHANGED <<kept, holder, transcript, known, paid, used>>
  BY DEF GivenUp, At, Inside, Becomes
<1>2. t \in Task /\ TaskGood(t, c) /\ t.todo # <<>> /\ Span(r, c) = t.todo[1]
      /\ paid \subseteq Digests /\ used \in Nat /\ runs \in [Runs -> Run]
  BY <1>1, OfTask, AtHand DEF Inv, TypeOK
<1>3. fatal \in BOOLEAN
  OBVIOUS
<1> HIDE DEF fatal
<1>4. CASE splits
  <2> DEFINE u == Halved(t)
  <2>1. u \in Task /\ u.pc = "look"
    BY <1>2, <1>4, HalvesTaken
  <2>2. TaskGood(u, c)
    BY <1>2, <1>4, HalvingKeepsTask
  <2>3. tasks' = [tasks EXCEPT ![r][c] = u]
    BY <1>1, <1>4
  <2>4. runs' \in [Runs -> Run] /\ \A q \in Runs : runs'[q].pc = runs[q].pc /\ (runs[q].fatal => runs'[q].fatal)
    BY <1>1, <1>2, <1>3 DEF Run
  <2>5. KeptIsHeard'
    BY <1>1 DEF Inv, KeptIsHeard
  <2> HIDE DEF u
  <2> QED
    BY <1>1, <1>2, <2>1, <2>2, <2>3, <2>4, <2>5, TaskStep DEF Inv, TypeOK
<1>5. CASE ~splits
  BY <1>1, <1>2, <1>3, <1>5, FailureKeepsInv
<1> QED
  BY <1>4, <1>5

LEMMA RetryKeepsInv ==
  ASSUME Inv, NEW r \in Runs, NEW c \in Chunks, NEW error \in Errors, Retried(r, c, error)
  PROVE  Inv'
<1>1. /\ runs[r].pc = "sending" /\ tasks[r][c].pc = "out" /\ Attempt(r, c) /\ ~LastTry(tasks[r][c])
      /\ UNCHANGED <<kept, holder, transcript, known, paid, used>>
  BY DEF Retried, At
<1>2. tasks[r][c].tries < MAX_ATTEMPTS
  BY <1>1, OfTask, TranscriptionAssumption DEF LastTry, Task
<1>3. digest_of(Span(r, c)) \notin known[r]
  BY <1>1, OfTask DEF Span
<1> QED
  BY <1>1, <1>2, <1>3, AttemptKeepsInv

LEMMA KeepKeepsInv == ASSUME Inv, NEW r \in Runs, NEW c \in Chunks, Keep(r, c) PROVE Inv'
<1> DEFINE t == tasks[r][c]
           d == digest_of(Span(r, c))
<1>1. /\ runs[r].pc = "sending" /\ t.pc = "keep" /\ t.pc \in Inside
      /\ kept' = [kept EXCEPT ![d] = IF @ = "none" THEN t.text ELSE @]
      /\ tasks' = [tasks EXCEPT ![r][c] = WithPart(t, t.text)]
      /\ UNCHANGED <<runs, holder, transcript, known, paid, used>>
  BY DEF Keep, At, Inside, Becomes
<1>2. t.text \in Answers /\ kept \in [Digests -> Answers \cup {"none"}]
  BY OfTask DEF Task, Inv, TypeOK
<1>3. Span(r, c) \in Spans /\ d \in Digests
  BY <1>1, AtHand
<1>4. Span(r, c) \in Spoken => t.text = "text"
  BY <1>1, OfTask DEF TaskGood, Heard, Span
<1>5. kept' \in [Digests -> Answers \cup {"none"}] /\ \A e \in Digests : kept[e] # "none" => kept'[e] # "none"
  BY <1>1, <1>2, <1>3
<1>6. KeptIsHeard'
  <2> SUFFICES ASSUME NEW s \in Spans, s \in Spoken PROVE kept'[digest_of(s)] # "empty"
    BY DEF KeptIsHeard
  <2>1. kept[digest_of(s)] # "empty" /\ digest_of(s) \in Digests
    BY DEF Inv, KeptIsHeard, Digests
  <2>2. CASE digest_of(s) = d
    <3>1. Span(r, c) \in Spoken
      BY <1>3, <2>2, SameBytesSameSpeech
    <3> QED
      BY <1>1, <1>2, <1>4, <2>1, <2>2, <3>1
  <2>3. CASE digest_of(s) # d
    BY <1>1, <1>2, <2>1, <2>3
  <2> QED
    BY <2>2, <2>3
<1> HIDE DEF d
<1> QED
  BY <1>1, <1>2, <1>4, <1>5, <1>6, PartKeepsInv

LEMMA ChunkStepKeepsInv ==
  ASSUME Inv, NEW r \in Runs, NEW c \in Chunks, ChunkStep(r, c)
  PROVE  Inv'
BY EnterKeepsInv, LookKeepsInv, SendKeepsInv, AnswerKeepsInv, FormatKeepsInv, BrokenKeepsInv,
   KeepKeepsInv, RetryKeepsInv, GivenUpKeepsInv DEF ChunkStep
-----------------------------------------------------------------------------
\* The steps of a run.

\* A run moves on and its tasks stay as they are.
LEMMA RunMoves ==
  ASSUME Inv, NEW r \in Runs, NEW run \in Run, runs' = [runs EXCEPT ![r] = run], UNCHANGED <<tasks, kept, transcript>>,
         run.pc \notin {"sending", "saving"} => runs[r].pc \notin {"sending", "saving"},
         run.pc = "saving" => \A c \in Chunks : tasks[r][c].pc = "done",
         run.pc = "saved" => runs[r].pc = "saved",
         runs[r].fatal => run.fatal,
         holder' \in Runs \cup {0}, known' \in [Runs -> SUBSET Digests], KnownIsKept',
         \A q \in Runs, c \in Chunks :
             tasks[q][c].pc \in {"send", "out"} => digest_of(Span(q, c)) \notin known'[q],
         paid' = paid, used' \in Nat
  PROVE  Inv'
<1>1. \A q \in Runs : runs'[q] = IF q = r THEN run ELSE runs[q]
  BY DEF Inv, TypeOK
<1>2. TypeOK'
  BY DEF Inv, TypeOK
<1>3. TasksGood'
  BY DEF Inv, TasksGood, TaskGood, SentOf, Held, InOrder, Heard
<1>4. RunLinks'
  BY <1>1 DEF Inv, RunLinks, Waiting
<1>5. KeptIsHeard'
  BY DEF Inv, KeptIsHeard
<1>6. KeptIsNotBoughtAgain'
  BY DEF KeptIsNotBoughtAgain, Span
<1>7. TranscriptIsWhole'
  BY <1>1 DEF Inv, TranscriptIsWhole
<1> QED
  BY <1>2, <1>3, <1>4, <1>5, <1>6, <1>7 DEF Inv

\* The run is over, whatever it says and whatever is kept.
LEMMA SettlesKeepsInv ==
  ASSUME Inv, NEW r \in Runs, NEW how \in Ended, Settles(r, how),
         kept' \in [Digests -> Answers \cup {"none"}], KeptIsHeard',
         known' \in [Runs -> SUBSET Digests], KnownIsKept', \A q \in Runs : known'[q] \subseteq known[q],
         transcript' \in [Chunks -> Seq(Part)], TranscriptIsWhole',
         paid' \subseteq Digests, used' \in Nat
  PROVE  Inv'
<1> DEFINE over == [Fresh EXCEPT !.pc = how]
<1>1. over \in Run /\ over.pc = how /\ how \notin {"sending", "saving"}
  BY DEF Fresh, Run, Ended
<1>2. runs' = [runs EXCEPT ![r] = over] /\ tasks' = [tasks EXCEPT ![r] = [c \in Chunks |-> Waiting(c)]]
      /\ holder' \in Runs \cup {0}
  BY DEF Settles, Inv, TypeOK
<1> HIDE DEF over
<1>3. \A q \in Runs : runs'[q] = IF q = r THEN over ELSE runs[q]
  BY <1>2 DEF Inv, TypeOK
<1>4. \A q \in Runs, c \in Chunks : tasks'[q][c] = IF q = r THEN Waiting(c) ELSE tasks[q][c]
  BY <1>2 DEF Inv, TypeOK
<1>5. \A c \in Chunks : Waiting(c) \in Task /\ TaskGood(Waiting(c), c) /\ Waiting(c).pc = "wait"
  <2>1. \A c \in Chunks : Waiting(c).pc = "wait"
    BY DEF Waiting
  <2> QED
    BY <2>1, WaitingGood
<1>6. TypeOK'
  <2>1. [c \in Chunks |-> Waiting(c)] \in [Chunks -> Task]
    BY <1>5
  <2> QED
    BY <1>1, <1>2, <2>1 DEF Inv, TypeOK
<1>7. TasksGood'
  <2> SUFFICES ASSUME NEW q \in Runs, NEW b \in Chunks PROVE TaskGood(tasks'[q][b], b)
    BY DEF TasksGood, TaskGood, SentOf, Held, InOrder, Heard
  <2> QED
    BY <1>4, <1>5 DEF Inv, TasksGood
<1>8. RunLinks'
  <2> SUFFICES ASSUME NEW q \in Runs
               PROVE  /\ runs'[q].pc \notin {"sending", "saving"} => \A b \in Chunks : tasks'[q][b] = Waiting(b)
                      /\ runs'[q].pc = "saving" => \A b \in Chunks : tasks'[q][b].pc = "done"
                      /\ \A b \in Chunks : tasks'[q][b].pc = "aborted" => runs'[q].fatal
    BY DEF RunLinks, Waiting
  <2>1. CASE q = r
    BY <1>1, <1>3, <1>4, <1>5, <2>1
  <2>2. CASE q # r
    BY <1>3, <1>4, <2>2 DEF Inv, RunLinks
  <2> QED
    BY <2>1, <2>2
<1>9. KeptIsNotBoughtAgain'
  <2> SUFFICES ASSUME NEW q \in Runs, NEW b \in Chunks, tasks'[q][b].pc \in {"send", "out"}
               PROVE  digest_of(Head(tasks'[q][b].todo)) \notin known'[q]
    BY DEF KeptIsNotBoughtAgain, Span
  <2>1. q # r
    BY <1>4, <1>5
  <2> QED
    BY <1>4, <2>1 DEF Inv, KeptIsNotBoughtAgain, Span
<1> QED
  BY <1>6, <1>7, <1>8, <1>9 DEF Inv

\* A run that ends without saving leaves what is kept and what was saved.
LEMMA EndsKeepsInv ==
  ASSUME Inv, NEW r \in Runs, NEW how \in Ended \ {"saved"}, Ends(r, how), runs[r].pc \in {"sending", "saving"},
         UNCHANGED <<kept, transcript>>, paid' \subseteq Digests, used' \in Nat
  PROVE  Inv'
<1>1. /\ how \in Ended /\ Settles(r, how) /\ known' = [known EXCEPT ![r] = {}]
      /\ runs' = [runs EXCEPT ![r] = [Fresh EXCEPT !.pc = how]]
  BY DEF Ends, Settles
<1>2. known' \in [Runs -> SUBSET Digests] /\ KnownIsKept' /\ \A q \in Runs : known'[q] \subseteq known[q]
  <2>1. \A q \in Runs : known'[q] = IF q = r THEN {} ELSE known[q]
    BY <1>1 DEF Inv, TypeOK
  <2> QED
    BY <1>1, <2>1 DEF Inv, TypeOK, KnownIsKept
<1>3. TranscriptIsWhole'
  <2>1. [Fresh EXCEPT !.pc = how].pc = how
    BY DEF Fresh
  <2>2. \A q \in Runs : runs'[q].pc = "saved" => runs[q].pc = "saved"
    BY <1>1, <2>1 DEF Inv, TypeOK
  <2> QED
    BY <2>2 DEF Inv, TranscriptIsWhole
<1>4. KeptIsHeard' /\ kept' \in [Digests -> Answers \cup {"none"}] /\ transcript' \in [Chunks -> Seq(Part)]
  BY DEF Inv, TypeOK, KeptIsHeard
<1> QED
  BY <1>1, <1>2, <1>3, <1>4, SettlesKeepsInv

LEMMA StartKeepsInv == ASSUME Inv, NEW r \in Runs, Start(r) PROVE Inv'
<1> DEFINE run == [runs[r] EXCEPT !.pc = "sending"]
<1>1. /\ runs[r].pc = "new" /\ runs' = [runs EXCEPT ![r] = run] /\ holder' = r
      /\ known' = [known EXCEPT ![r] = {d \in Digests : kept[d] # "none"}]
      /\ UNCHANGED <<kept, tasks, transcript, paid, used>>
  BY DEF Start
<1>2. runs[r] \in Run /\ \A c \in Chunks : tasks[r][c] = Waiting(c)
  BY <1>1 DEF Inv, TypeOK, RunLinks
<1>3. run \in Run /\ run.pc = "sending" /\ run.fatal = runs[r].fatal
  BY <1>2 DEF Run
<1> HIDE DEF run
<1>4. \A q \in Runs : known'[q] = IF q = r THEN {d \in Digests : kept[d] # "none"} ELSE known[q]
  BY <1>1 DEF Inv, TypeOK
<1>5. known' \in [Runs -> SUBSET Digests]
  BY <1>1 DEF Inv, TypeOK
<1>6. KnownIsKept'
  BY <1>1, <1>4 DEF Inv, KnownIsKept
<1>7. \A q \in Runs, c \in Chunks :
          tasks[q][c].pc \in {"send", "out"} => digest_of(Span(q, c)) \notin known'[q]
  <2>1. \A c \in Chunks : Waiting(c).pc = "wait"
    BY DEF Waiting
  <2>2. \A c \in Chunks : tasks[r][c].pc = "wait"
    BY <1>2, <2>1
  <2> QED
    BY <1>4, <2>2 DEF Inv, KeptIsNotBoughtAgain
<1>8. holder' \in Runs \cup {0} /\ used' \in Nat
  BY <1>1 DEF Inv, TypeOK
<1> QED
  BY <1>1, <1>3, <1>5, <1>6, <1>7, <1>8, RunMoves

LEMMA SaveKeepsInv == ASSUME Inv, NEW r \in Runs, Save(r) PROVE Inv'
<1>1. /\ runs[r].pc = "saving" /\ Settles(r, "saved") /\ "saved" \in Ended
      /\ transcript' = [c \in Chunks |-> tasks[r][c].parts] /\ kept' = [d \in Digests |-> "none"]
      /\ known' = [q \in Runs |-> {}] /\ paid' = {} /\ used' = used
  BY DEF Save, Ended
<1>2. \A c \in Chunks : tasks[r][c] \in Task /\ TaskGood(tasks[r][c], c) /\ tasks[r][c].todo = <<>>
  <2>1. \A c \in Chunks : tasks[r][c].pc = "done"
    BY <1>1 DEF Inv, RunLinks
  <2> QED
    BY <2>1 DEF Inv, TypeOK, TasksGood, TaskGood
<1>3. TranscriptIsWhole'
  <2> SUFFICES ASSUME NEW c \in Chunks
               PROVE  LET parts == transcript'[c]
                      IN  /\ \A moment \in Moments(c) : \E i \in DOMAIN parts : Covers(parts[i].span, moment)
                          /\ \A i, j \in DOMAIN parts : i < j => Precedes(parts[i].span, parts[j].span)
                          /\ \A i \in DOMAIN parts : parts[i].span \in Spoken => parts[i].text = "text"
    BY DEF TranscriptIsWhole
  <2> DEFINE parts == tasks[r][c].parts
  <2>1. transcript'[c] = parts /\ DOMAIN tasks[r][c].todo = {}
    BY <1>1, <1>2
  <2>2. \A moment \in Moments(c) : \E i \in DOMAIN parts : Covers(parts[i].span, moment)
    BY <1>2, <2>1 DEF TaskGood, Held
  <2>3. /\ \A i, j \in DOMAIN parts : i < j => Precedes(parts[i].span, parts[j].span)
        /\ \A i \in DOMAIN parts : parts[i].span \in Spoken => parts[i].text = "text"
    BY <1>2 DEF TaskGood, InOrder, Heard
  <2> HIDE DEF parts
  <2> QED
    BY <2>1, <2>2, <2>3
<1>4. kept' \in [Digests -> Answers \cup {"none"}] /\ KeptIsHeard'
  BY <1>1 DEF KeptIsHeard, Digests
<1>5. known' \in [Runs -> SUBSET Digests] /\ KnownIsKept' /\ \A q \in Runs : known'[q] \subseteq known[q]
  BY <1>1 DEF KnownIsKept
<1>6. transcript' \in [Chunks -> Seq(Part)] /\ used' \in Nat
  BY <1>1, <1>2 DEF Task, Inv, TypeOK
<1> QED
  BY <1>1, <1>3, <1>4, <1>5, <1>6, SettlesKeepsInv

\* Of tasks that are settled, none of them stopped or failed, in a run that is
\* not doomed, every one is done.
LEMMA CollectKeepsInv == ASSUME Inv, NEW r \in Runs, Collect(r) PROVE Inv'
<1>1. runs[r].pc = "sending" /\ Pcs(r) \subseteq Settled /\ UNCHANGED <<kept, transcript, paid, used>>
      /\ runs[r] \in Run /\ used \in Nat /\ paid \subseteq Digests
  BY DEF Collect, Inv, TypeOK
<1>2. CASE Verdict(r) = "saving" /\ runs' = [runs EXCEPT ![r].pc = "saving"] /\ UNCHANGED <<tasks, holder, known>>
  <2> DEFINE run == [runs[r] EXCEPT !.pc = "saving"]
  <2>1. runs' = [runs EXCEPT ![r] = run] /\ run \in Run /\ run.pc = "saving" /\ run.fatal = runs[r].fatal
    BY <1>1, <1>2 DEF Run
  <2>2. ASSUME NEW c \in Chunks PROVE tasks[r][c].pc = "done"
    <3>1. tasks[r][c].pc \in Pcs(r)
      BY DEF Pcs
    <3>2. ~runs[r].fatal /\ "stopped" \notin Pcs(r) /\ "failed" \notin Pcs(r)
      BY <1>2 DEF Verdict
    <3>3. tasks[r][c].pc # "aborted"
      BY <3>2 DEF Inv, RunLinks
    <3> QED
      BY <1>1, <3>1, <3>2, <3>3 DEF Settled
  <2>3. /\ holder' \in Runs \cup {0} /\ known' \in [Runs -> SUBSET Digests] /\ KnownIsKept'
        /\ UNCHANGED <<tasks, kept, transcript, paid>> /\ used' \in Nat
    BY <1>1, <1>2 DEF Inv, TypeOK, KnownIsKept
  <2>4. \A q \in Runs, c \in Chunks :
            tasks[q][c].pc \in {"send", "out"} => digest_of(Span(q, c)) \notin known'[q]
    BY <1>2 DEF Inv, KeptIsNotBoughtAgain
  <2> HIDE DEF run
  <2> QED
    BY <1>1, <2>1, <2>2, <2>3, <2>4, RunMoves
<1>3. CASE Verdict(r) # "saving" /\ Ends(r, Verdict(r))
  <2>1. Verdict(r) \in Ended \ {"saved"}
    BY <1>3 DEF Verdict, Ended
  <2> QED
    BY <1>1, <1>3, <2>1, EndsKeepsInv
<1> QED
  BY <1>2, <1>3 DEF Collect

LEMMA RunStepKeepsInv ==
  ASSUME Inv, NEW r \in Runs, Cancel(r) \/ Lose(r) \/ Die(r) \/ SaveFails(r)
  PROVE  Inv'
<1>1. runs[r] \in Run /\ used \in Nat /\ paid \subseteq Digests
  BY DEF Inv, TypeOK
<1>2. CASE Cancel(r)
  <2> DEFINE run == [runs[r] EXCEPT !.cancelled = TRUE]
  <2>1. runs' = [runs EXCEPT ![r] = run] /\ run \in Run /\ run.pc = runs[r].pc /\ run.fatal = runs[r].fatal
        /\ run.pc \in {"sending", "saving"}
    BY <1>1, <1>2 DEF Run, Cancel
  <2>2. /\ holder' \in Runs \cup {0} /\ known' \in [Runs -> SUBSET Digests] /\ KnownIsKept'
        /\ UNCHANGED <<tasks, kept, transcript, paid, used>>
        /\ \A q \in Runs, c \in Chunks :
              tasks[q][c].pc \in {"send", "out"} => digest_of(Span(q, c)) \notin known'[q]
        /\ runs[r].pc = "saving" => \A c \in Chunks : tasks[r][c].pc = "done"
    BY <1>2 DEF Cancel, Inv, TypeOK, KnownIsKept, KeptIsNotBoughtAgain, RunLinks
  <2> HIDE DEF run
  <2> QED
    BY <1>1, <2>1, <2>2, RunMoves
<1>3. CASE Lose(r)
  <2>1. runs' = [runs EXCEPT ![r] = runs[r]]
    BY <1>3 DEF Lose, Inv, TypeOK
  <2>2. /\ holder' \in Runs \cup {0} /\ known' \in [Runs -> SUBSET Digests] /\ KnownIsKept'
        /\ UNCHANGED <<tasks, kept, transcript, paid>> /\ used' \in Nat
        /\ \A q \in Runs, c \in Chunks :
              tasks[q][c].pc \in {"send", "out"} => digest_of(Span(q, c)) \notin known'[q]
        /\ runs[r].pc = "saving" => \A c \in Chunks : tasks[r][c].pc = "done"
    BY <1>1, <1>3 DEF Lose, BadLuck, Inv, TypeOK, KnownIsKept, KeptIsNotBoughtAgain, RunLinks
  <2> QED
    BY <1>1, <2>1, <2>2, RunMoves
<1>4. CASE Die(r)
  <2>1. paid' \subseteq Digests /\ used' \in Nat
    BY <1>1, <1>4 DEF Die, BadLuck
  <2> QED
    BY <1>4, <2>1, EndsKeepsInv DEF Die, Ended
<1>5. CASE SaveFails(r)
  <2>1. paid' \subseteq Digests /\ used' \in Nat
    BY <1>1, <1>5 DEF SaveFails, BadLuck
  <2> QED
    BY <1>5, <2>1, EndsKeepsInv DEF SaveFails, Ended
<1> QED
  BY <1>2, <1>3, <1>4, <1>5

LEMMA NextKeepsInv == Inv /\ [Next]_vars => Inv'
<1> SUFFICES ASSUME Inv, [Next]_vars PROVE Inv'
  OBVIOUS
<1>1. CASE UNCHANGED vars
  BY <1>1 DEF vars, Inv, TypeOK, TasksGood, TaskGood, SentOf, Held, InOrder, Heard, RunLinks, Waiting,
              KeptIsHeard, KnownIsKept, KeptIsNotBoughtAgain, Span, TranscriptIsWhole
<1>2. CASE Next
  BY <1>2, StartKeepsInv, SaveKeepsInv, CollectKeepsInv, RunStepKeepsInv, ChunkStepKeepsInv DEF Next, RunStep
<1> QED
  BY <1>1, <1>2

LEMMA SpecInv == Spec => []Inv
BY InitInv, NextKeepsInv, PTL DEF Spec
-----------------------------------------------------------------------------
\* The state stays well formed: no counter of attempts or of requests leaves its
\* range, whatever runs of duudlaga_client.py and handlers/transcribe.py overlap.
THEOREM TranscriptionTypeCorrect == Spec => []TypeOK
BY SpecInv, PTL DEF Inv

\* A span whose answer an earlier run left in stt_chunks is never uploaded
\* again before a transcript is saved (chunk_cache.py, _transcribe_span).
THEOREM TranscriptionNeverBuysTwice == Spec => []KeptIsNotBoughtAgain
BY SpecInv, PTL DEF Inv

\* A saved transcript holds every moment of every chunk, in order, with no
\* silence where there was speech, however chunks were halved, retried or
\* carried over from the cache.
THEOREM TranscriptionIsWhole == Spec => []TranscriptIsWhole
BY SpecInv, PTL DEF Inv

\* What a task becomes when it passes the two gates.
Passes(r, c, t) ==
    /\ tasks[r][c].pc = "wait" /\ runs[r].fatal => t.pc = "aborted"
    /\ t.pc = "out" => ~runs[r].cancelled

LEMMA ChunkStepPasses ==
  ASSUME Inv, NEW r \in Runs, NEW c \in Chunks, ChunkStep(r, c)
  PROVE  \E t : tasks' = [tasks EXCEPT ![r][c] = t] /\ Passes(r, c, t)
<1> DEFINE t == tasks[r][c]
<1>1. t \in Task
  BY OfTask
<1>2. CASE Enter(r, c)
  <2> DEFINE u == [t EXCEPT !.pc = IF runs[r].fatal THEN "aborted"
                                   ELSE IF runs[r].cancelled THEN "stopped" ELSE "look"]
  <2>1. tasks' = [tasks EXCEPT ![r][c] = u]
    BY <1>2 DEF Enter, Becomes
  <2>2. Passes(r, c, u)
    BY <1>1 DEF Passes, Task
  <2> QED
    BY <2>1, <2>2
<1>3. ASSUME Attempt(r, c), t.pc # "wait"
      PROVE  \E u : tasks' = [tasks EXCEPT ![r][c] = u] /\ Passes(r, c, u)
  <2>1. PICK encodes \in BOOLEAN :
            tasks' = [tasks EXCEPT ![r][c] = [t EXCEPT !.pc = "send", !.wav = ~(runs[r].compressed /\ encodes),
                                                       !.tries = @ + 1]]
    BY <1>3, Zenon DEF Attempt, Becomes
  <2>2. Passes(r, c, [t EXCEPT !.pc = "send", !.wav = ~(runs[r].compressed /\ encodes), !.tries = @ + 1])
    BY <1>1, <1>3 DEF Passes, Task
  <2> QED
    BY <2>1, <2>2
<1>4. ASSUME NEW text \in Answers, t.pc \in {"look", "keep"} PROVE Passes(r, c, WithPart(t, text))
  <2>1. t.todo # <<>>
    BY <1>4, AtHand DEF Inside
  <2>2. WithPart(t, text).pc \in {"done", "look"}
    BY <1>1, <2>1, PartTaken
  <2> QED
    BY <1>4, <2>2 DEF Passes
<1>5. CASE Look(r, c)
  <2>1. t.pc = "look"
    BY <1>5 DEF Look, At
  <2>2. CASE Attempt(r, c)
    BY <1>3, <2>1, <2>2
  <2>3. ASSUME kept[digest_of(Span(r, c))] # "none",
               tasks' = [tasks EXCEPT ![r][c] = WithPart(t, kept[digest_of(Span(r, c))])]
        PROVE  \E u : tasks' = [tasks EXCEPT ![r][c] = u] /\ Passes(r, c, u)
    <3>1. digest_of(Span(r, c)) \in Digests
      BY <2>1, AtHand DEF Inside
    <3>2. kept[digest_of(Span(r, c))] \in Answers
      BY <2>3, <3>1 DEF Inv, TypeOK
    <3>3. Passes(r, c, WithPart(t, kept[digest_of(Span(r, c))]))
      BY <1>4, <2>1, <3>2
    <3> QED
      BY <2>3, <3>3
  <2> QED
    BY <1>5, <2>2, <2>3 DEF Look, Becomes
<1>6. CASE Keep(r, c)
  <2>1. t.pc = "keep" /\ t.text \in Answers /\ tasks' = [tasks EXCEPT ![r][c] = WithPart(t, t.text)]
    BY <1>1, <1>6 DEF Keep, At, Becomes, Task
  <2>2. Passes(r, c, WithPart(t, t.text))
    BY <1>4, <2>1
  <2> QED
    BY <2>1, <2>2
<1>7. CASE Send(r, c)
  <2>1. t.pc = "send"
    BY <1>7 DEF Send, At
  <2>2. CASE runs[r].cancelled
    <3>1. tasks' = [tasks EXCEPT ![r][c] = [t EXCEPT !.pc = "stopped"]]
      BY <1>7, <2>2 DEF Send, Becomes
    <3>2. Passes(r, c, [t EXCEPT !.pc = "stopped"])
      BY <1>1, <2>1 DEF Passes, Task
    <3> QED
      BY <3>1, <3>2
  <2>3. CASE ~runs[r].cancelled
    <3>1. tasks' = [tasks EXCEPT ![r][c] = [t EXCEPT !.pc = "out", !.sent = @ + 1]]
      BY <1>7, <2>3 DEF Send, Becomes
    <3>2. Passes(r, c, [t EXCEPT !.pc = "out", !.sent = @ + 1])
      BY <2>1, <2>3 DEF Passes
    <3> QED
      BY <3>1, <3>2
  <2> QED
    BY <2>2, <2>3
<1>8. ASSUME t.pc \in {"out", "look", "keep"}, NEW u, tasks' = [tasks EXCEPT ![r][c] = u], u.pc # "out"
      PROVE  \E v : tasks' = [tasks EXCEPT ![r][c] = v] /\ Passes(r, c, v)
  <2>1. Passes(r, c, u)
    BY <1>8 DEF Passes
  <2> QED
    BY <1>8, <2>1
<1>9. CASE Answered(r, c)
  <2>1. t.pc = "out"
    BY <1>9 DEF Answered, At
  <2>2. PICK text \in IF Span(r, c) \in Spoken THEN {"text"} ELSE Answers :
            tasks' = [tasks EXCEPT ![r][c] = [t EXCEPT !.pc = "keep", !.text = text]]
    BY <1>9, Zenon DEF Answered, Becomes
  <2>3. [t EXCEPT !.pc = "keep", !.text = text].pc # "out"
    BY <1>1 DEF Task
  <2> QED
    BY <1>8, <2>1, <2>2, <2>3
<1>10. CASE NoSpeech(r, c) \/ FormatRefused(r, c)
  <2>1. t.pc = "out"
    BY <1>10 DEF NoSpeech, FormatRefused, At
  <2>2. \/ tasks' = [tasks EXCEPT ![r][c] = [t EXCEPT !.pc = "keep", !.text = "empty"]]
        \/ tasks' = [tasks EXCEPT ![r][c] = [t EXCEPT !.pc = "send", !.wav = TRUE]]
    BY <1>10 DEF NoSpeech, FormatRefused, Becomes
  <2>3. [t EXCEPT !.pc = "keep", !.text = "empty"].pc # "out" /\ [t EXCEPT !.pc = "send", !.wav = TRUE].pc # "out"
    BY <1>1 DEF Task
  <2> QED
    BY <1>8, <2>1, <2>2, <2>3
<1>11. [t EXCEPT !.pc = "failed"].pc # "out" /\ Halved(t).pc # "out"
  BY <1>1 DEF Task, Halved
<1>12. CASE Broken(r, c) \/ KeepFails(r, c)
  <2>1. t.pc \in {"out", "look", "keep"} /\ tasks' = [tasks EXCEPT ![r][c] = [t EXCEPT !.pc = "failed"]]
    BY <1>12 DEF Broken, KeepFails, At, Becomes
  <2> QED
    BY <1>8, <1>11, <2>1
<1>13. ASSUME NEW error \in Errors, Retried(r, c, error) \/ GivenUp(r, c, error)
       PROVE  \E u : tasks' = [tasks EXCEPT ![r][c] = u] /\ Passes(r, c, u)
  <2>1. t.pc = "out"
    BY <1>13 DEF Retried, GivenUp, At
  <2>2. CASE Retried(r, c, error)
    BY <1>3, <2>1, <2>2 DEF Retried
  <2>3. CASE GivenUp(r, c, error)
    <3>1. \/ tasks' = [tasks EXCEPT ![r][c] = Halved(t)]
          \/ tasks' = [tasks EXCEPT ![r][c] = [t EXCEPT !.pc = "failed"]]
      BY <2>3 DEF GivenUp, Becomes
    <3> QED
      BY <1>8, <1>11, <2>1, <3>1
  <2> QED
    BY <1>13, <2>2, <2>3
<1> QED
  BY <1>2, <1>5, <1>6, <1>7, <1>9, <1>10, <1>12, <1>13 DEF ChunkStep

\* A doomed run begins no chunk and a cancelled one lets no request out: the
\* check under the semaphore and the gate of every upload in duudlaga_client.py.
THEOREM TranscriptionStopsAtTheGate == Spec => StopsAtTheGate
<1> DEFINE Gate(q, b) ==
              /\ runs[q].fatal /\ tasks[q][b].pc = "wait" => tasks'[q][b].pc \in {"wait", "aborted"}
              /\ runs[q].cancelled /\ tasks'[q][b].pc = "out" => tasks[q][b].pc = "out"
<1>1. Inv /\ [Next]_vars =>
        [\A r \in Runs, c \in Chunks :
             /\ runs[r].fatal /\ tasks[r][c].pc = "wait" => tasks'[r][c].pc \in {"wait", "aborted"}
             /\ runs[r].cancelled /\ tasks'[r][c].pc = "out" => tasks[r][c].pc = "out"]_vars
  <2> SUFFICES ASSUME Inv, Next, NEW q \in Runs, NEW b \in Chunks PROVE Gate(q, b)
    OBVIOUS
  <2>1. PICK r \in Runs : \/ Start(r) \/ Cancel(r) \/ Lose(r) \/ Die(r) \/ RunStep(r)
                          \/ \E c \in Chunks : ChunkStep(r, c)
    BY DEF Next
  <2>2. tasks \in [Runs -> [Chunks -> Task]]
    BY DEF Inv, TypeOK
  <2>3. ASSUME tasks' = [tasks EXCEPT ![r] = [c \in Chunks |-> Waiting(c)]] PROVE Gate(q, b)
    <3>1. Waiting(b).pc = "wait"
      BY DEF Waiting
    <3>2. tasks'[q][b] = IF q = r THEN Waiting(b) ELSE tasks[q][b]
      BY <2>2, <2>3
    <3> QED
      BY <3>1, <3>2
  <2>4. ASSUME UNCHANGED tasks PROVE Gate(q, b)
    BY <2>4
  <2>5. CASE Start(r) \/ Cancel(r) \/ Lose(r) \/ Die(r) \/ RunStep(r)
    <3>1. tasks' = tasks \/ tasks' = [tasks EXCEPT ![r] = [c \in Chunks |-> Waiting(c)]]
      BY <2>5 DEF Start, Cancel, Lose, Die, RunStep, Collect, Save, SaveFails, Ends, Settles
    <3> QED
      BY <2>3, <2>4, <3>1
  <2>6. ASSUME NEW c \in Chunks, ChunkStep(r, c) PROVE Gate(q, b)
    <3>1. PICK t : tasks' = [tasks EXCEPT ![r][c] = t] /\ Passes(r, c, t)
      BY <2>6, ChunkStepPasses
    <3>2. tasks'[q][b] = IF q = r /\ b = c THEN t ELSE tasks[q][b]
      BY <2>2, <3>1
    <3> QED
      BY <3>1, <3>2 DEF Passes
  <2> QED
    BY <2>1, <2>5, <2>6
<1> QED
  BY <1>1, SpecInv, PTL DEF Spec, StopsAtTheGate
-----------------------------------------------------------------------------
\* What was paid for is kept, or at hand.

\* A step of one task: what it was about to keep is kept, or was lost.
LEMMA PaidTaskStep ==
  ASSUME Inv, PaidAnswersAreKept, NEW r \in Runs, NEW c \in Chunks, NEW u,
         tasks' = [tasks EXCEPT ![r][c] = u],
         \A d \in Digests : kept[d] # "none" => kept'[d] # "none",
         \A d \in paid' \ paid : u.pc = "keep" /\ digest_of(Head(u.todo)) = d,
         tasks[r][c].pc = "keep" => \/ kept'[digest_of(Span(r, c))] # "none"
                                    \/ digest_of(Span(r, c)) \notin paid'
  PROVE  PaidAnswersAreKept'
<1> SUFFICES ASSUME NEW d \in paid'
             PROVE  \/ kept'[d] # "none"
                    \/ \E q \in Runs, b \in Chunks :
                          tasks'[q][b].pc = "keep" /\ digest_of(Head(tasks'[q][b].todo)) = d
  BY DEF PaidAnswersAreKept, Span
<1>1. \A q \in Runs, b \in Chunks : tasks'[q][b] = IF q = r /\ b = c THEN u ELSE tasks[q][b]
  BY DEF Inv, TypeOK
<1>2. CASE d \notin paid
  BY <1>1, <1>2
<1>3. CASE d \in paid /\ kept[d] # "none"
  BY <1>3 DEF Inv, TypeOK
<1>4. ASSUME NEW q \in Runs, NEW b \in Chunks, tasks[q][b].pc = "keep", digest_of(Span(q, b)) = d
      PROVE  \/ kept'[d] # "none"
             \/ \E p \in Runs, a \in Chunks :
                   tasks'[p][a].pc = "keep" /\ digest_of(Head(tasks'[p][a].todo)) = d
  <2>1. CASE q = r /\ b = c
    BY <1>4, <2>1
  <2>2. CASE ~(q = r /\ b = c)
    BY <1>1, <1>4, <2>2 DEF Span
  <2> QED
    BY <2>1, <2>2
<1> QED
  BY <1>2, <1>3, <1>4 DEF PaidAnswersAreKept

\* A step of a run: of its tasks none was about to keep, or all were lost.
LEMMA PaidRunStep ==
  ASSUME Inv, PaidAnswersAreKept, NEW r \in Runs,
         tasks' = tasks \/ tasks' = [tasks EXCEPT ![r] = [c \in Chunks |-> Waiting(c)]],
         kept' = kept, paid' \subseteq paid,
         tasks' = tasks \/ \A c \in Chunks : tasks[r][c].pc = "keep" => digest_of(Span(r, c)) \notin paid'
  PROVE  PaidAnswersAreKept'
<1> SUFFICES ASSUME NEW d \in paid', kept[d] = "none"
             PROVE  \E q \in Runs, b \in Chunks :
                        tasks'[q][b].pc = "keep" /\ digest_of(Head(tasks'[q][b].todo)) = d
  BY DEF PaidAnswersAreKept, Span
<1>1. PICK q \in Runs, b \in Chunks : tasks[q][b].pc = "keep" /\ digest_of(Span(q, b)) = d
  BY DEF PaidAnswersAreKept
<1>2. CASE tasks' = tasks
  BY <1>1, <1>2 DEF Span
<1>3. CASE tasks' # tasks
  <2>1. q # r
    BY <1>1, <1>3
  <2>2. tasks'[q] = tasks[q]
    BY <1>3, <2>1 DEF Inv, TypeOK
  <2> QED
    BY <1>1, <2>2 DEF Span
<1> QED
  BY <1>2, <1>3

LEMMA PaidChunkStep ==
  ASSUME Inv, PaidAnswersAreKept, NEW r \in Runs, NEW c \in Chunks, ChunkStep(r, c)
  PROVE  PaidAnswersAreKept'
<1> DEFINE t == tasks[r][c]
           d == digest_of(Span(r, c))
<1>1. t \in Task /\ kept \in [Digests -> Answers \cup {"none"}]
  BY OfTask DEF Inv, TypeOK
<1>2. CASE Answered(r, c)
  <2>1. t.pc = "out" /\ kept' = kept /\ paid' = paid \cup {d}
    BY <1>2 DEF Answered, At
  <2>2. PICK text \in IF Span(r, c) \in Spoken THEN {"text"} ELSE Answers :
            tasks' = [tasks EXCEPT ![r][c] = [t EXCEPT !.pc = "keep", !.text = text]]
    BY <1>2, Zenon DEF Answered, Becomes
  <2> DEFINE u == [t EXCEPT !.pc = "keep", !.text = text]
  <2>3. u.pc = "keep" /\ digest_of(Head(u.todo)) = d
    BY <1>1 DEF Task, Span
  <2>4. tasks' = [tasks EXCEPT ![r][c] = u]
    BY <2>2
  <2> HIDE DEF u, d
  <2> QED
    BY <2>1, <2>3, <2>4, PaidTaskStep
<1>3. CASE Keep(r, c)
  <2>1. t.pc = "keep" /\ paid' = paid /\ tasks' = [tasks EXCEPT ![r][c] = WithPart(t, t.text)]
        /\ kept' = [kept EXCEPT ![d] = IF @ = "none" THEN t.text ELSE @]
    BY <1>3 DEF Keep, At, Becomes
  <2>2. d \in Digests /\ t.text \in Answers
    BY <1>1, <2>1, AtHand DEF Inside, Task
  <2>3. kept'[d] # "none" /\ \A e \in Digests : kept[e] # "none" => kept'[e] # "none"
    BY <1>1, <2>1, <2>2 DEF Answers
  <2> QED
    BY <2>1, <2>3, PaidTaskStep
<1>4. CASE KeepFails(r, c)
  <2>1. paid' = paid \ {d} /\ kept' = kept /\ tasks' = [tasks EXCEPT ![r][c] = [t EXCEPT !.pc = "failed"]]
    BY <1>4 DEF KeepFails, Becomes
  <2> QED
    BY <2>1, PaidTaskStep
<1>5. ASSUME t.pc # "keep", kept' = kept, paid' = paid PROVE PaidAnswersAreKept'
  <2>1. PICK u : tasks' = [tasks EXCEPT ![r][c] = u]
    BY ChunkStepPasses
  <2> QED
    BY <1>5, <2>1, PaidTaskStep
<1>6. ASSUME ~Answered(r, c), ~Keep(r, c), ~KeepFails(r, c)
      PROVE  t.pc # "keep" /\ kept' = kept /\ paid' = paid
  <2>1. CASE Enter(r, c) \/ Look(r, c) \/ Send(r, c) \/ NoSpeech(r, c) \/ FormatRefused(r, c) \/ Broken(r, c)
    BY <2>1 DEF Enter, Look, Send, NoSpeech, FormatRefused, Broken, At
  <2>2. CASE \E error \in Errors : Retried(r, c, error) \/ GivenUp(r, c, error)
    BY <2>2 DEF Retried, GivenUp, At
  <2> QED
    BY <1>6, <2>1, <2>2 DEF ChunkStep
<1> QED
  BY <1>2, <1>3, <1>4, <1>5, <1>6

LEMMA PaidNext == Inv /\ PaidAnswersAreKept /\ [Next]_vars => PaidAnswersAreKept'
<1> SUFFICES ASSUME Inv, PaidAnswersAreKept, [Next]_vars PROVE PaidAnswersAreKept'
  OBVIOUS
<1>1. CASE UNCHANGED vars
  BY <1>1 DEF vars, PaidAnswersAreKept, Span
<1>2. ASSUME NEW r \in Runs, Start(r) \/ Cancel(r) \/ Lose(r) PROVE PaidAnswersAreKept'
  <2>1. tasks' = tasks /\ kept' = kept /\ paid' = paid
    BY <1>2 DEF Start, Cancel, Lose
  <2> QED
    BY <2>1, PaidRunStep
<1>3. ASSUME NEW r \in Runs, Die(r) PROVE PaidAnswersAreKept'
  <2>1. /\ tasks' = [tasks EXCEPT ![r] = [c \in Chunks |-> Waiting(c)]] /\ kept' = kept
        /\ paid' = paid \ {digest_of(Span(r, c)) : c \in {b \in Chunks : tasks[r][b].pc = "keep"}}
    BY <1>3 DEF Die, Ends, Settles
  <2>2. paid' \subseteq paid /\ \A c \in Chunks : tasks[r][c].pc = "keep" => digest_of(Span(r, c)) \notin paid'
    BY <2>1
  <2> QED
    BY <2>1, <2>2, PaidRunStep
<1>4. ASSUME NEW r \in Runs, Collect(r) PROVE PaidAnswersAreKept'
  <2>1. ASSUME NEW c \in Chunks PROVE tasks[r][c].pc # "keep"
    <3>1. tasks[r][c].pc \in Pcs(r)
      BY DEF Pcs
    <3> QED
      BY <1>4, <3>1 DEF Collect, Settled
  <2>2. /\ tasks' = tasks \/ tasks' = [tasks EXCEPT ![r] = [c \in Chunks |-> Waiting(c)]]
        /\ kept' = kept /\ paid' = paid
    BY <1>4 DEF Collect, Ends, Settles
  <2> QED
    BY <2>1, <2>2, PaidRunStep
<1>5. ASSUME NEW r \in Runs, Save(r) PROVE PaidAnswersAreKept'
  BY <1>5 DEF Save, PaidAnswersAreKept
<1>6. ASSUME NEW r \in Runs, SaveFails(r) PROVE PaidAnswersAreKept'
  <2>1. \A c \in Chunks : tasks[r][c].pc = "done"
    BY <1>6 DEF SaveFails, Inv, RunLinks
  <2>2. /\ tasks' = [tasks EXCEPT ![r] = [c \in Chunks |-> Waiting(c)]]
        /\ kept' = kept /\ paid' = paid
    BY <1>6 DEF SaveFails, Ends, Settles
  <2> QED
    BY <2>1, <2>2, PaidRunStep
<1> QED
  BY <1>1, <1>2, <1>3, <1>4, <1>5, <1>6, PaidChunkStep DEF Next, RunStep

\* An answer the provider billed is in stt_chunks, or its task is about to put
\* it there, until a transcript is saved: a cancel, a spent balance or a failed
\* sibling loses none of them: duudlaga_client.py puts it into the cache before any
\* check that could end the task.
THEOREM TranscriptionKeepsWhatItPaidFor == Spec => []PaidAnswersAreKept
<1>1. Init => PaidAnswersAreKept
  BY DEF Init, PaidAnswersAreKept
<1> QED
  BY <1>1, PaidNext, SpecInv, PTL DEF Spec
=============================================================================

----------------------------- MODULE SpokenWords -----------------------------
(***************************************************************************)
(* How a recording's answers become timed segments where the provider or a *)
(* voice detector says when somebody speaks: regions of speech grouped     *)
(* into requests and each answer's words shared over the regions it came   *)
(* from (app/audio/vad_chunking.py), or one answer with a time and a       *)
(* speaker for every word (app/stt/elevenlabs_client.py); both chosen by   *)
(* transcribe_audio.  The provider's own chunking is Transcription.        *)
(***************************************************************************)
EXTENDS Chunking, FiniteSets, SequencesExt

CONSTANTS
    Speeches,         \* [regions, words, sentence]: what can be heard
    most_words,       \* of one chunk's answer
    MIN_SEGMENT_SEC,
    MAX_SEGMENT_SEC

VARIABLES
    speech,     \* what is being transcribed
    route,      \* "audio", "chunks", "whole", "words", "text", "done", "failed"
    groups,     \* the regions of each request
    asked,      \* requests made or skipped, or words read
    unsent,     \* of the requests: those whose sound could not be cut out
    open,       \* the segment being collected: [words, from, to, who]
    segs,       \* the segments so far
    spoken,     \* every word the provider answered, in order
    metered     \* the whole-file request was counted

spokenVars == <<speech, route, groups, asked, unsent, open, segs, spoken, metered>>

Missing == -1       \* a time the provider did not give

NoOne == ""         \* a text's speaker

Voices == {NoOne} \cup UNION {{s.words[k].who : k \in DOMAIN s.words} : s \in Speeches}

Heard == [said : BOOLEAN, who : Voices, stops : BOOLEAN,
          from : Nat \cup {Missing}, to : Nat \cup {Missing}]

Given(w) == {w.from, w.to} \ {Missing}

\* A detector's regions follow one another, and a provider's times do not go
\* back from one word to a later one.
IsSpeech(s) ==
    /\ s.length \in Nat /\ s.sentence \in Nat
    /\ s.regions \in Seq([from : Nat, to : Nat]) /\ s.words \in Seq(Heard)
    /\ \A i \in DOMAIN s.regions : s.regions[i].from < s.regions[i].to
    /\ \A j \in DOMAIN s.regions : \A i \in 1 .. j - 1 : s.regions[i].to <= s.regions[j].from
    /\ \A k \in DOMAIN s.words : \A j \in 1 .. k - 1 :
          s.words[j].said /\ s.words[k].said =>
              \A t \in Given(s.words[j]), u \in Given(s.words[k]) : t <= u

\* DUUDLAGA_MAX_AUDIO_SEC is at least TARGET_CHUNK_MIN_SEC (Settings).
ASSUME SpokenAssumption ==
    /\ \A s \in Speeches : IsSpeech(s)
    /\ {most_words, MIN_SEGMENT_SEC, MAX_SEGMENT_SEC} \subseteq Nat
    /\ min_chunk_sec <= max_chunk_sec

NoSegment == [words |-> <<>>, from |-> 0, to |-> 0, who |-> NoOne]
-----------------------------------------------------------------------------
(* Grouping the regions. *)

Length(r) == r.to - r.from

SpeechTime(group) ==
    LET upto[k \in 0 .. Len(group)] == IF k = 0 THEN 0 ELSE upto[k - 1] + Length(group[k])
    IN upto[Len(group)]

\* A region longer than the limit is cut by force, its pieces overlapping.
Pieces(r) ==
    LET step == forced_cut_step
        cut == IF Length(r) <= max_chunk_sec THEN 0
               ELSE (Length(r) - max_chunk_sec + step - 1) \div step
    IN [k \in 1 .. cut + 1 |->
          [from |-> r.from + (k - 1) * step,
           to |-> IF k > cut THEN r.to ELSE r.from + (k - 1) * step + max_chunk_sec]]

OntoLast(chunks, more) == Front(chunks) \o <<Last(chunks) \o more>>

\* A chunk shorter than the floor goes onto the one before it that can take it.
Joined(chunks, c, short) ==
    IF /\ chunks # <<>> /\ SpeechTime(c) < short
       /\ SpeechTime(Last(chunks)) + SpeechTime(c) <= max_chunk_sec
    THEN OntoLast(chunks, c) ELSE Append(chunks, c)

AllJoined(chunks, short) ==
    LET upto[k \in 0 .. Len(chunks)] ==
          IF k = 0 THEN <<>> ELSE Joined(upto[k - 1], chunks[k], short)
    IN upto[Len(chunks)]

\* No piece is above the limit: every one is short enough to be joined.
Packed(pieces) == AllJoined([k \in DOMAIN pieces |-> <<pieces[k]>>], max_chunk_sec + 1)

Merged(chunks) == AllJoined(chunks, min_chunk_sec)

\* A short first chunk goes into the second whether it fits there or not.
group_vad_segments(regions) ==
    LET merged == Merged(Packed(FlattenSeq([i \in DOMAIN regions |-> Pieces(regions[i])])))
    IN IF Len(merged) > 1 /\ SpeechTime(merged[1]) < min_chunk_sec
       THEN <<merged[1] \o merged[2]>> \o SubSeq(merged, 3, Len(merged))
       ELSE merged
-----------------------------------------------------------------------------
(* From words to segments. *)

\* A segment without a real interval gets one, as far as the next one lets it.
Widened(list) ==
    [i \in DOMAIN list |->
        LET s == list[i]
            room == s.from + MIN_SEGMENT_SEC
            end == IF i < Len(list) THEN Min({room, list[i + 1].from}) ELSE room
        IN IF Length(s) < MIN_SEGMENT_SEC /\ end > s.to THEN [s EXCEPT !.to = end] ELSE s]

\* A text of words said in one region: its sentences share the time.
BySentence(words, sentence, r) ==
    LET n == Len(words)
        e == IF sentence \in 1 .. n - 1 THEN sentence ELSE n
        at == r.from + (Length(r) * e) \div n
        first == [words |-> SubSeq(words, 1, e), from |-> r.from, to |-> at, who |-> NoOne]
        second == [words |-> SubSeq(words, e + 1, n), from |-> at, to |-> r.to, who |-> NoOne]
    IN IF n = 0 THEN <<>> ELSE IF e = n THEN <<first>> ELSE <<first, second>>

\* round() of a share, halves to even.
RoundedShare(a, b) ==
    LET q == a \div b
        r == 2 * (a % b)
    IN IF r > b \/ (r = b /\ q % 2 = 1) THEN q + 1 ELSE q

Shared(n, group, i) == RoundedShare(n * Length(group[i]), SpeechTime(group))

\* A mutant of UpTo: the last region gets its share, as every other does.
UpToByShare(n, group) ==
    LET upto[i \in 0 .. Len(group)] ==
          IF i = 0 THEN 0 ELSE Min({n, upto[i - 1] + Shared(n, group, i)})
    IN upto

\* How many of the words are given out when region i had its share.
UpTo(n, group) ==
    LET upto[i \in 0 .. Len(group)] ==
          IF i = 0 THEN 0 ELSE IF i = Len(group) THEN n
          ELSE Min({n, upto[i - 1] + Shared(n, group, i)})
    IN upto

\* A segment nobody's words fell into is not one.
Flushed(seg, list) == IF seg.words = <<>> THEN list ELSE Append(list, seg)

synthesize_segments(words, sentence, group) ==
    LET upto == UpTo(Len(words), group)
        Of(i) == [words |-> SubSeq(words, upto[i - 1] + 1, upto[i]),
                  from |-> group[i].from, to |-> group[i].to, who |-> NoOne]
        made[i \in 0 .. Len(group)] ==
          IF i = 0 THEN <<>> ELSE Flushed(Of(i), made[i - 1])
    IN IF Len(group) = 1 THEN BySentence(words, sentence, group[1]) ELSE made[Len(group)]
-----------------------------------------------------------------------------
(* transcribe_audio. *)

\* No detector, or it failed: the whole file goes to the provider.
WithoutVoice ==
    /\ route = "audio"
    /\ route' = "whole"
    /\ UNCHANGED <<speech, groups, asked, unsent, open, segs, spoken, metered>>

Grouped ==
    /\ route = "audio"
    /\ groups' = group_vad_segments(speech.regions)
    /\ route' = IF speech.regions = <<>> THEN "done" ELSE "chunks"
    /\ UNCHANGED <<speech, asked, unsent, open, segs, spoken, metered>>

\* A chunk whose sound could not be cut out is never sent: the transcript goes
\* on without what was said in it.
SkipChunk ==
    /\ route = "chunks" /\ asked < Len(groups)
    /\ asked' = asked + 1
    /\ unsent' = unsent \cup {asked + 1}
    /\ UNCHANGED <<speech, route, groups, open, segs, spoken, metered>>

AnswerChunk(n, sentence) ==
    /\ route = "chunks" /\ asked < Len(groups)
    /\ LET words == [j \in 1 .. n |-> <<asked + 1, j>>]
       IN /\ segs' = segs \o Widened(synthesize_segments(words, sentence, groups[asked + 1]))
          /\ spoken' = spoken \o words
    /\ asked' = asked + 1
    /\ UNCHANGED <<speech, route, groups, unsent, open, metered>>

merge_transcripts ==
    /\ route = "chunks" /\ asked = Len(groups)
    /\ segs' = Widened(segs)
    /\ route' = "done"
    /\ UNCHANGED <<speech, groups, asked, unsent, open, spoken, metered>>

\* The job was cancelled before a request, or the request refused.
NotTranscribed ==
    /\ route \in {"chunks", "whole"}
    /\ route = "chunks" => asked < Len(groups)
    /\ route' = "failed"
    /\ UNCHANGED <<speech, groups, asked, unsent, open, segs, spoken, metered>>
-----------------------------------------------------------------------------
(* One answer for the whole file. *)

\* Only a text, shared over the file by sentence, or nothing to read at all;
\* the same of an answer whose words were all sounds.
AnswerText(n) ==
    /\ route \in {"whole", "text"}
    /\ LET words == [j \in 1 .. n |-> <<0, j>>]
       IN /\ segs' = Widened(BySentence(words, speech.sentence, [from |-> 0, to |-> speech.length]))
          /\ spoken' = words
    /\ metered' = TRUE
    /\ route' = IF n = 0 /\ route = "whole" THEN "failed" ELSE "done"
    /\ UNCHANGED <<speech, groups, asked, unsent, open>>

AnswerWords ==
    /\ route = "whole" /\ speech.words # <<>>
    /\ metered' = TRUE
    /\ route' = "words"
    /\ UNCHANGED <<speech, groups, asked, unsent, open, segs, spoken>>

NotAWord ==
    /\ route = "words" /\ asked < Len(speech.words)
    /\ ~speech.words[asked + 1].said
    /\ asked' = asked + 1
    /\ UNCHANGED <<speech, route, groups, unsent, open, segs, spoken, metered>>

\* Another speaker closes a segment, then the end of a sentence, then its
\* length.  A word without a time is where the one before it ended.
NextWord ==
    /\ route = "words" /\ asked < Len(speech.words)
    /\ LET w == speech.words[asked + 1]
           turn == open.words # <<>> /\ w.who # open.who
           fresh == turn \/ open.words = <<>>
           from == IF ~fresh THEN open.from ELSE IF w.from = Missing THEN open.to ELSE w.from
           to == IF w.to = Missing THEN from ELSE w.to
           grown == [words |-> Append(IF fresh THEN <<>> ELSE open.words, <<0, asked + 1>>),
                     from |-> from, to |-> to, who |-> w.who]
           closed == IF turn THEN Append(segs, open) ELSE segs
           ends == w.stops \/ to - from >= MAX_SEGMENT_SEC
       IN /\ w.said
          /\ segs' = IF ends THEN Append(closed, grown) ELSE closed
          /\ open' = IF ends THEN [NoSegment EXCEPT !.to = to] ELSE grown
          /\ spoken' = Append(spoken, <<0, asked + 1>>)
    /\ asked' = asked + 1
    /\ UNCHANGED <<speech, route, groups, unsent, metered>>

Timed ==
    /\ route = "words" /\ asked = Len(speech.words)
    /\ segs' = Widened(Flushed(open, segs))
    /\ open' = NoSegment
    /\ route' = IF segs' = <<>> THEN "text" ELSE "done"
    /\ UNCHANGED <<speech, groups, asked, unsent, spoken, metered>>
-----------------------------------------------------------------------------
SpokenInit ==
    /\ speech \in Speeches
    /\ route = "audio" /\ groups = <<>> /\ asked = 0 /\ unsent = {}
    /\ open = NoSegment /\ segs = <<>> /\ spoken = <<>> /\ metered = FALSE

SpokenNext ==
    \/ WithoutVoice \/ Grouped \/ SkipChunk \/ merge_transcripts \/ NotTranscribed
    \/ \E n \in 0 .. most_words : AnswerText(n) \/ \E e \in 0 .. n : AnswerChunk(n, e)
    \/ AnswerWords \/ NotAWord \/ NextWord \/ Timed

SpokenSpec == SpokenInit /\ [][SpokenNext]_spokenVars
-----------------------------------------------------------------------------
\* The variables hold values of their types.
SpokenTypeOK ==
    /\ route \in {"audio", "chunks", "whole", "words", "text", "done", "failed"}
    /\ asked \in Nat /\ unsent \subseteq Nat /\ metered \in BOOLEAN
    /\ \A s \in ToSet(segs) \cup {open} : s.from \in Nat /\ s.to \in Nat
    /\ \A g \in ToSet(groups) : \A r \in ToSet(g) : r.from < r.to

\* The words of the segments are the words of the answers, each once and in
\* order, whatever was rounded, grouped and widened ("the words are never
\* dropped").
EveryWordOnce == FlattenSeq([i \in DOMAIN segs |-> segs[i].words]) = spoken

\* No segment holds the words of two people (segments_from_words: "two people's
\* words in one subtitle is the failure a viewer notices first").
OneSpeakerEach ==
    speech.words # <<>> /\ metered =>
        \A i \in DOMAIN segs : \A w \in ToSet(segs[i].words) :
            segs[i].who \in {NoOne, speech.words[w[2]].who}

\* Segments of one answer do not overlap; those of two answers do so by no more
\* than the overlap of a forced cut and a widening that could not see the
\* other answer.
KeepApart ==
    \A i \in 1 .. Len(segs) - 1 :
        LET a == segs[i]
            b == segs[i + 1]
        IN a.to <= b.from + (IF Head(a.words)[1] = Head(b.words)[1] THEN 0
                             ELSE overlap_sec + MIN_SEGMENT_SEC)

\* Second t is in the sound of request i.
InRequest(t, i) == \E x \in ToSet(groups[i]) : x.from <= t /\ t < x.to

\* No second of a region is left out of the requests: each is in one that was
\* answered, or in one whose sound could not be cut out.
SpeechIsSent ==
    groups # <<>> =>
        \A r \in ToSet(speech.regions) : \A t \in r.from .. r.to - 1 :
            \/ \E i \in (1 .. asked) \ unsent : InRequest(t, i)
            \/ \E i \in unsent : InRequest(t, i)

\* The transcript holds what was said: every second of speech was sent and
\* answered, except in the chunks that could not be cut out (they are logged and
\* passed over, and the transcript does not tell), and every word answered stands
\* once, under its own speaker, at a time of its own.
TranscriptHoldsTheSpeech ==
    route = "done" => SpeechIsSent /\ EveryWordOnce /\ OneSpeakerEach /\ KeepApart
=============================================================================

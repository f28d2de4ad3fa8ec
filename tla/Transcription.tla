--------------------------- MODULE Transcription ---------------------------
(***************************************************************************)
(* The transcriptions of one project by the chunk-by-chunk speech client:  *)
(* the runs of its jobs (app/handlers/transcribe.py), the chunks each run  *)
(* sends (app/stt/duudlaga_client.py) and the answers kept between runs    *)
(* (app/stt/chunk_cache.py).                                               *)
(*                                                                         *)
(* A span is a chunk, <<c>>, or a half of a span, Append(span, 0 or 1).    *)
(* One step is what one asyncio task does between two awaits.              *)
(***************************************************************************)
EXTENDS Integers, Sequences, FiniteSets

CONSTANTS
    Chunks,           \* 1..n, where the recording was cut at its pauses
    Runs,             \* 1..n, the runs of the project's transcribe jobs
    Alike,            \* chunks that are the same audio (a jingle)
    Spoken,           \* spans the provider hears speech in, sent as WAV
    Short,            \* spans not longer than MIN_SPLIT_SEC
    concurrency,      \* DuudlagaConfig.concurrency
    MAX_ATTEMPTS,
    MAX_SPLIT_DEPTH,
    Budget            \* kills, lost rows and database errors in one behaviour

ASSUME TranscriptionAssumption ==
    /\ Chunks \subseteq Nat /\ IsFiniteSet(Chunks) /\ Runs \subseteq Nat \ {0}
    /\ concurrency \in Nat \ {0} /\ MAX_ATTEMPTS \in Nat \ {0} /\ MAX_SPLIT_DEPTH \in Nat
    /\ Budget \in Nat

VARIABLES
    kept,        \* kept[d]: the row of stt_chunks for digest d
    runs,        \* runs[r]: the handler of run r
    tasks,       \* tasks[r][c]: the task of run r that transcribes chunk c
    holder,      \* the run whose job is live and holds the dedupe key, or 0
    transcript,  \* transcript[c]: the saved spans of chunk c with their text
    known,       \* known[r]: digests kept when run r began, none saved since
    paid,        \* digests whose billed answer was not lost, none saved since
    used         \* kills, lost rows and database errors so far

vars == <<kept, runs, tasks, holder, transcript, known, paid, used>>
-----------------------------------------------------------------------------
Spans == UNION {{<<c>> \o halves : halves \in [1 .. depth -> {0, 1}]} :
                    c \in Chunks, depth \in 0 .. MAX_SPLIT_DEPTH}

Depth(s) == Len(s) - 1

\* The sha256 of the bytes of the span.
digest_of(s) == IF s[1] \in Alike THEN <<0>> \o Tail(s) ELSE s

\* What the provider hears depends on nothing but the bytes.
ASSUME SameBytesSameSpeech ==
    \A s, t \in Spans : digest_of(s) = digest_of(t) => (s \in Spoken <=> t \in Spoken)

Digests == {digest_of(s) : s \in Spans}

Answers == {"text", "empty"}

Part == [span : Spans, text : Answers]

Ended == {"saved", "failed", "canceled", "dead"}

\* fatal: a verdict that dooms every chunk.  compressed: _send_compressed.
Run == [pc : Ended \cup {"new", "sending", "saving"},
        compressed : BOOLEAN, fatal : BOOLEAN, cancelled : BOOLEAN]

Fresh == [pc |-> "new", compressed |-> TRUE, fatal |-> FALSE, cancelled |-> FALSE]

\* wait: for the semaphore; look: to cut a span and ask the cache; send: to
\* upload it; out: the request is out; keep: answered, not yet kept.
Inside == {"look", "send", "out", "keep"}

Settled == {"done", "failed", "stopped", "aborted"}

\* todo: the spans still to transcribe, first the one at hand; wav: the bytes
\* to upload; tries: of _with_retry; sent: requests for the span at hand, of which
\* an attempt may make two, the second to hear from the WAV what the compressed
\* bytes were said not to hold.
Task == [pc : {"wait"} \cup Inside \cup Settled, todo : Seq(Spans), wav : BOOLEAN,
         tries : 0 .. MAX_ATTEMPTS, sent : 0 .. 2 * MAX_ATTEMPTS, text : Answers, parts : Seq(Part)]

Waiting(c) == [pc |-> "wait", todo |-> <<<<c>>>>, wav |-> FALSE, tries |-> 0,
               sent |-> 0, text |-> "empty", parts |-> <<>>]

BadLuck == used < Budget /\ used' = used + 1

TypeOK ==
    /\ kept \in [Digests -> Answers \cup {"none"}]
    /\ runs \in [Runs -> Run]
    /\ tasks \in [Runs -> [Chunks -> Task]]
    /\ holder \in Runs \cup {0}
    /\ transcript \in [Chunks -> Seq(Part)]
    /\ known \in [Runs -> SUBSET Digests]
    /\ paid \subseteq Digests
    /\ used \in Nat

Init ==
    /\ kept = [d \in Digests |-> "none"]
    /\ runs = [r \in Runs |-> Fresh]
    /\ tasks = [r \in Runs |-> [c \in Chunks |-> Waiting(c)]]
    /\ holder = 0
    /\ transcript = [c \in Chunks |-> <<>>]
    /\ known = [r \in Runs |-> {}]
    /\ paid = {}
    /\ used = 0
-----------------------------------------------------------------------------
\* A task at hand.

Span(r, c) == Head(tasks[r][c].todo)

At(r, c, pc) == runs[r].pc = "sending" /\ tasks[r][c].pc = pc

Becomes(r, c, task) == tasks' = [tasks EXCEPT ![r][c] = task]

\* The span at hand is transcribed; the next one, or the end.
WithPart(t, text) ==
    [t EXCEPT !.parts = Append(@, [span |-> Head(t.todo), text |-> text]),
              !.todo = Tail(@), !.text = "empty", !.tries = 0, !.wav = FALSE,
              !.sent = 0, !.pc = IF Len(t.todo) = 1 THEN "done" ELSE "look"]

\* _post_chunk begins: compressed, unless the latch says no or the encoder
\* fails, which sets the latch.
Attempt(r, c) ==
    \E encodes \in BOOLEAN :
        LET compressed == runs[r].compressed /\ encodes
        IN  /\ Becomes(r, c, [tasks[r][c] EXCEPT !.pc = "send", !.wav = ~compressed,
                                                !.tries = @ + 1])
            /\ runs' = [runs EXCEPT ![r].compressed = compressed]

\* _transcribe_span halves the span at hand.
Halved(t) ==
    LET s == Head(t.todo)
    IN  [t EXCEPT !.todo = <<Append(s, 0), Append(s, 1)>> \o Tail(@),
                  !.pc = "look", !.tries = 0, !.wav = FALSE, !.sent = 0]

\* The answers of the provider that are errors (DuudlagaError, httpx):
\* busy is 429; broken is a 5xx; lost is a timeout or a reset; too_large is
\* 413; broke is 402 or a spent balance; refused is 400, 415 or anything else.
Retryable == {"busy", "broken", "lost"}
BlamesThePayload == {"broken", "too_large"}
EndsTheRun == {"broke"}
Errors == Retryable \cup BlamesThePayload \cup EndsTheRun \cup {"refused"}

MaySplit(s) == Depth(s) < MAX_SPLIT_DEPTH /\ s \notin Short
-----------------------------------------------------------------------------
\* The jobs.  The route starts one only while no other holds the key.
Start(r) ==
    /\ runs[r].pc = "new" /\ holder = 0
    /\ \A q \in Runs : q < r => runs[q].pc # "new"
    /\ runs' = [runs EXCEPT ![r].pc = "sending"]
    /\ holder' = r
    /\ known' = [known EXCEPT ![r] = {d \in Digests : kept[d] # "none"}]
    /\ UNCHANGED <<kept, tasks, transcript, paid, used>>

\* The heartbeat hears of a cancel, or that the row is no longer this run's.
Cancel(r) ==
    /\ runs[r].pc \in {"sending", "saving"} /\ ~runs[r].cancelled
    /\ runs' = [runs EXCEPT ![r].cancelled = TRUE]
    /\ UNCHANGED <<kept, tasks, holder, transcript, known, paid, used>>

\* The worker stalls: the reaper fails the job while its run goes on.
Lose(r) ==
    /\ BadLuck
    /\ runs[r].pc \in {"sending", "saving"} /\ holder = r
    /\ holder' = 0
    /\ UNCHANGED <<kept, runs, tasks, transcript, known, paid>>

\* The job settles; what its tasks held in memory goes with them.
Settles(r, how) ==
    /\ runs' = [runs EXCEPT ![r] = [Fresh EXCEPT !.pc = how]]
    /\ tasks' = [tasks EXCEPT ![r] = [c \in Chunks |-> Waiting(c)]]
    /\ holder' = IF holder = r THEN 0 ELSE holder

Ends(r, how) == Settles(r, how) /\ known' = [known EXCEPT ![r] = {}]

\* The process is killed: answers that were not kept yet are lost.
Die(r) ==
    /\ BadLuck
    /\ runs[r].pc \in {"sending", "saving"}
    /\ Ends(r, "dead")
    /\ paid' = paid \ {digest_of(Span(r, c)) : c \in {b \in Chunks : tasks[r][b].pc = "keep"}}
    /\ UNCHANGED <<kept, transcript>>
-----------------------------------------------------------------------------
\* The chunks.

Enter(r, c) ==
    /\ At(r, c, "wait")
    /\ Cardinality({b \in Chunks : tasks[r][b].pc \in Inside}) < concurrency
    /\ Becomes(r, c, [tasks[r][c] EXCEPT !.pc = IF runs[r].fatal THEN "aborted"
                                                ELSE IF runs[r].cancelled THEN "stopped"
                                                ELSE "look"])
    /\ UNCHANGED <<kept, runs, holder, transcript, known, paid, used>>

\* Mutant of Look: the halves are sent without asking the cache.
LookWholeOnly(r, c) ==
    /\ At(r, c, "look")
    /\ LET text == kept[digest_of(Span(r, c))]
           asks == Depth(Span(r, c)) = 0
       IN  \/ /\ asks /\ text # "none"
              /\ Becomes(r, c, WithPart(tasks[r][c], text))
              /\ UNCHANGED runs
           \/ (asks => text = "none") /\ Attempt(r, c)
    /\ UNCHANGED <<kept, holder, transcript, known, paid, used>>

\* extract_chunk, then the cache: a span an earlier run bought is read back.
Look(r, c) ==
    /\ At(r, c, "look")
    /\ LET text == kept[digest_of(Span(r, c))]
       IN  \/ /\ text # "none"
              /\ Becomes(r, c, WithPart(tasks[r][c], text))
              /\ UNCHANGED runs
           \/ text = "none" /\ Attempt(r, c)
    /\ UNCHANGED <<kept, holder, transcript, known, paid, used>>

\* Mutant of Send: the gate is passed once, not by every retry.
SendRetriesAnyway(r, c) ==
    /\ At(r, c, "send")
    /\ Becomes(r, c, IF runs[r].cancelled /\ tasks[r][c].tries = 1
                     THEN [tasks[r][c] EXCEPT !.pc = "stopped"]
                     ELSE [tasks[r][c] EXCEPT !.pc = "out", !.sent = @ + 1])
    /\ UNCHANGED <<kept, runs, holder, transcript, known, paid, used>>

\* The gate every billed upload passes.
Send(r, c) ==
    /\ At(r, c, "send")
    /\ Becomes(r, c, IF runs[r].cancelled
                     THEN [tasks[r][c] EXCEPT !.pc = "stopped"]
                     ELSE [tasks[r][c] EXCEPT !.pc = "out", !.sent = @ + 1])
    /\ UNCHANGED <<kept, runs, holder, transcript, known, paid, used>>

\* An answered request is billed.
Answered(r, c) ==
    /\ At(r, c, "out")
    /\ \E text \in (IF Span(r, c) \in Spoken THEN {"text"} ELSE Answers) :
          Becomes(r, c, [tasks[r][c] EXCEPT !.pc = "keep", !.text = text])
    /\ paid' = paid \cup {digest_of(Span(r, c))}
    /\ UNCHANGED <<kept, runs, holder, transcript, known, used>>

\* Mutant of NoSpeech: the WAV is checked again too.
NoSpeechForever(r, c) ==
    /\ At(r, c, "out")
    /\ tasks[r][c].wav => Span(r, c) \notin Spoken
    /\ Becomes(r, c, [tasks[r][c] EXCEPT !.pc = "send", !.wav = TRUE])
    /\ UNCHANGED <<kept, runs, holder, transcript, known, paid, used>>

\* no_speech: of compressed bytes it may be the encoding, so the WAV is sent
\* too; of the WAV it is an answer, and nothing was bought.
NoSpeech(r, c) ==
    /\ At(r, c, "out")
    /\ tasks[r][c].wav => Span(r, c) \notin Spoken
    /\ Becomes(r, c, IF tasks[r][c].wav
                     THEN [tasks[r][c] EXCEPT !.pc = "keep", !.text = "empty"]
                     ELSE [tasks[r][c] EXCEPT !.pc = "send", !.wav = TRUE])
    /\ UNCHANGED <<kept, runs, holder, transcript, known, paid, used>>

\* The compressed container is refused: WAV from here on.
FormatRefused(r, c) ==
    /\ At(r, c, "out") /\ ~tasks[r][c].wav
    /\ Becomes(r, c, [tasks[r][c] EXCEPT !.pc = "send", !.wav = TRUE])
    /\ runs' = [runs EXCEPT ![r].compressed = FALSE]
    /\ UNCHANGED <<kept, holder, transcript, known, paid, used>>

\* A span that could not be cut, or a billed answer of an unknown shape: the
\* task fails and nothing is halved.
Broken(r, c) ==
    /\ At(r, c, "look") \/ At(r, c, "out")
    /\ Becomes(r, c, [tasks[r][c] EXCEPT !.pc = "failed"])
    /\ UNCHANGED <<kept, runs, holder, transcript, known, paid, used>>

LastTry(t) == t.tries = MAX_ATTEMPTS

Retried(r, c, error) ==
    /\ At(r, c, "out")
    /\ error \in Retryable /\ ~LastTry(tasks[r][c])
    /\ Attempt(r, c)
    /\ UNCHANGED <<kept, holder, transcript, known, paid, used>>

\* The attempts are over: halve the span if it may be too large, or fail.
GivenUp(r, c, error) ==
    /\ At(r, c, "out")
    /\ error \in Retryable => LastTry(tasks[r][c])
    /\ LET splits == error \in BlamesThePayload /\ MaySplit(Span(r, c))
       IN  Becomes(r, c, IF splits THEN Halved(tasks[r][c])
                         ELSE [tasks[r][c] EXCEPT !.pc = "failed"])
    /\ runs' = [runs EXCEPT ![r].fatal = @ \/ error \in EndsTheRun]
    /\ UNCHANGED <<kept, holder, transcript, known, paid, used>>

\* Mutant of Keep: an answer without text is not worth a row.
KeepText(r, c) ==
    /\ At(r, c, "keep")
    /\ LET d == digest_of(Span(r, c))
       IN  kept' = [kept EXCEPT ![d] = IF @ = "none" /\ tasks[r][c].text = "text" THEN "text" ELSE @]
    /\ Becomes(r, c, WithPart(tasks[r][c], tasks[r][c].text))
    /\ UNCHANGED <<runs, holder, transcript, known, paid, used>>

\* ChunkCache.put: the first answer stands.
Keep(r, c) ==
    /\ At(r, c, "keep")
    /\ LET d == digest_of(Span(r, c))
       IN  kept' = [kept EXCEPT ![d] = IF @ = "none" THEN tasks[r][c].text ELSE @]
    /\ Becomes(r, c, WithPart(tasks[r][c], tasks[r][c].text))
    /\ UNCHANGED <<runs, holder, transcript, known, paid, used>>

\* The database refuses the row: the task fails and its answer is lost.
KeepFails(r, c) ==
    /\ BadLuck
    /\ At(r, c, "keep")
    /\ Becomes(r, c, [tasks[r][c] EXCEPT !.pc = "failed"])
    /\ paid' = paid \ {digest_of(Span(r, c))}
    /\ UNCHANGED <<kept, runs, holder, transcript, known>>
-----------------------------------------------------------------------------
\* The run.

Pcs(r) == {tasks[r][c].pc : c \in Chunks}

\* Mutant of Verdict: a chunk that failed is left out of the transcript.
VerdictForgiving(r) ==
    IF runs[r].fatal THEN "failed"
    ELSE IF "stopped" \in Pcs(r) \/ runs[r].cancelled THEN "canceled"
    ELSE "saving"

\* transcribe() after its gather: the verdict, a cancel, the first failure.
Verdict(r) ==
    IF runs[r].fatal THEN "failed"
    ELSE IF "stopped" \in Pcs(r) THEN "canceled"
    ELSE IF "failed" \in Pcs(r) THEN "failed"
    ELSE IF runs[r].cancelled THEN "canceled"
    ELSE "saving"

Collect(r) ==
    /\ runs[r].pc = "sending" /\ Pcs(r) \subseteq Settled
    /\ \/ /\ Verdict(r) = "saving"
          /\ runs' = [runs EXCEPT ![r].pc = "saving"]
          /\ UNCHANGED <<tasks, holder, known>>
       \/ /\ Verdict(r) # "saving"
          /\ Ends(r, Verdict(r))
    /\ UNCHANGED <<kept, transcript, paid, used>>

\* One transaction saves the transcript and forgets the chunks.
Save(r) ==
    /\ runs[r].pc = "saving"
    /\ transcript' = [c \in Chunks |-> tasks[r][c].parts]
    /\ kept' = [d \in Digests |-> "none"]
    /\ Settles(r, "saved")
    /\ known' = [q \in Runs |-> {}]
    /\ paid' = {}
    /\ UNCHANGED used

SaveFails(r) ==
    /\ BadLuck
    /\ runs[r].pc = "saving"
    /\ Ends(r, "failed")
    /\ UNCHANGED <<kept, transcript, paid>>

ChunkStep(r, c) ==
    \/ Enter(r, c) \/ Look(r, c) \/ Send(r, c) \/ Answered(r, c) \/ NoSpeech(r, c)
    \/ FormatRefused(r, c) \/ Broken(r, c) \/ Keep(r, c) \/ KeepFails(r, c)
    \/ \E error \in Errors : Retried(r, c, error) \/ GivenUp(r, c, error)

RunStep(r) == Collect(r) \/ Save(r) \/ SaveFails(r)

Next ==
    \E r \in Runs :
        \/ Start(r) \/ Cancel(r) \/ Lose(r) \/ Die(r)
        \/ RunStep(r)
        \/ \E c \in Chunks : ChunkStep(r, c)

Spec == Init /\ [][Next]_vars
-----------------------------------------------------------------------------
\* A span whose answer an earlier run left behind is never sent again while no
\* transcript has been saved, whatever ended that run and however this one cuts.
KeptIsNotBoughtAgain ==
    \A r \in Runs, c \in Chunks :
        tasks[r][c].pc \in {"send", "out"} => digest_of(Span(r, c)) \notin known[r]

\* An answer a run was billed for is kept, or about to be, until a transcript
\* is saved: a cancel, a spent balance or a failed chunk does not lose it.
PaidAnswersAreKept ==
    \A d \in paid :
        \/ kept[d] # "none"
        \/ \E r \in Runs, c \in Chunks : tasks[r][c].pc = "keep" /\ digest_of(Span(r, c)) = d

\* The moments of chunk c at the finest cut, and the order of spans in time.
Moments(c) == {<<c>> \o halves : halves \in [1 .. MAX_SPLIT_DEPTH -> {0, 1}]}

Covers(s, moment) == Len(s) <= Len(moment) /\ SubSeq(moment, 1, Len(s)) = s

Precedes(s, t) ==
    \E k \in DOMAIN s \cap DOMAIN t :
        s[k] < t[k] /\ \A j \in 1 .. k - 1 : s[j] = t[j]

\* A saved transcript holds every moment of every chunk once and in order,
\* halved spans included, and no silence where there was speech.
TranscriptIsWhole ==
    (\E r \in Runs : runs[r].pc = "saved") =>
        \A c \in Chunks :
            LET parts == transcript[c]
            IN  /\ \A moment \in Moments(c) :
                      \E i \in DOMAIN parts : Covers(parts[i].span, moment)
                /\ \A i, j \in DOMAIN parts : i < j => Precedes(parts[i].span, parts[j].span)
                /\ \A i \in DOMAIN parts : parts[i].span \in Spoken => parts[i].text = "text"

\* After a verdict that dooms the run no chunk begins, and after a cancel no
\* request goes out, between its retries and halves either.
StopsAtTheGate ==
    [][\A r \in Runs, c \in Chunks :
          /\ runs[r].fatal /\ tasks[r][c].pc = "wait" => tasks'[r][c].pc \in {"wait", "aborted"}
          /\ runs[r].cancelled /\ tasks'[r][c].pc = "out" => tasks[r][c].pc = "out"]_vars
=============================================================================

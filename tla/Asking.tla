------------------------------- MODULE Asking -------------------------------
(***************************************************************************)
(* The jobs that ask a language model: `suggest` and `translate`           *)
(* (app/ai/*.py, app/handlers/suggest.py, app/handlers/translate.py).      *)
(*                                                                         *)
(* A job sends one request at a time, so one call is under way.  Below it  *)
(* is the client's one gate (_post), which a cancelled job does not pass;  *)
(* a model that refuses a feature is asked again without it; an answer cut *)
(* off at its budget is bought once more at a wider one.  Above it each    *)
(* stage decides what a failure costs: a chunk of lines, the texts of a    *)
(* card, or the job.                                                       *)
(*                                                                         *)
(* An answer about lines is the set of lines it gave an acceptable text    *)
(* for: any lines, also ones it was only shown as context.  A short is     *)
(* "good", "long" (it passes validate_shorts and not _build_short: more    *)
(* than MAX_CUTS cuts, say) or "bad".  A YouTube plan can neither fail nor *)
(* cost a short and is left out, except that plans may leave a choice.     *)
(***************************************************************************)
EXTENDS Integers, Sequences, FiniteSets, SequencesExt, FiniteSetsExt

CONSTANTS
    Lines,                      \* the transcript's lines, 1..Lines
    LineCosts,                  \* tokens the answer to a line may take
    MAX_ANSWER_TOKENS,          \* what the answers of one chunk may take
    Durations,                  \* seconds a video may run
    MIN_SHORT_DURATION, MAX_SHORT_COUNT, DEFAULT_SHORT_COUNT,
    Portions,                   \* how many prompts a transcript may take
    MIN_CANDIDATES_PER_CHUNK, CANDIDATE_SLACK

ASSUME AskingAssumption ==
    Lines \in Nat /\ LineCosts \subseteq Nat /\ MAX_ANSWER_TOKENS \in Nat

VARIABLES
    work,       \* the job, its video and its model: fixed when it starts
    stage,      \* "lines", "shorts", "pick", "texts" or "over"
    portion,    \* the chunk, or the portion, being asked about
    body,       \* the optional features of the request about to be sent
    wide,       \* the request is the one at the wider budget
    repair,     \* the request is a repair prompt
    dropped,    \* the features this client has learned not to send
    probes,     \* refused requests, by feature
    written,    \* line -> the chunk whose answer it holds, or 0
    heard,      \* <<chunk, line>>: the texts that came back
    pool,       \* the shorts kept so far, then those of the result
    outcome     \* how the job ended, "" until it has

askVars == <<work, stage, portion, body, wide, repair, dropped, probes, written,
             heard, pool, outcome>>

Features == {"temperature", "bounds"}
Merits == {"good", "long", "bad"}

---------------------------------------------------------------------------
(* What is asked for. *)

count_limits(duration) ==
    Max({1, Min({MAX_SHORT_COUNT, duration \div MIN_SHORT_DURATION})})

\* A job queued before the producer could choose carries no count, here 0.
counted(asked, duration) ==
    IF asked = 0
    THEN Min({DEFAULT_SHORT_COUNT, count_limits(duration)})
    ELSE Max({1, Min({count_limits(duration), asked})})

candidates_per_chunk(wanted, chunks) ==
    Max({MIN_CANDIDATES_PER_CHUNK,
         (wanted + CANDIDATE_SLACK + chunks - 1) \div chunks})

\* A line goes to the chunk under way, or to a new one when its answer would
\* not fit there.
Added(so_far, i, cost) ==
    IF so_far.chunks # <<>> /\ so_far.used + cost[i] <= MAX_ANSWER_TOKENS
    THEN [chunks |-> [so_far.chunks EXCEPT ![Len(so_far.chunks)] = Append(@, i)],
          used |-> so_far.used + cost[i]]
    ELSE [chunks |-> Append(so_far.chunks, <<i>>), used |-> cost[i]]

\* Groups of the lines asked whose answers each fit one call; a line that
\* does not fit even alone is a group of its own.
plan_chunks(lines, cost) ==
    LET upto[i \in 0 .. Lines] ==
            IF i = 0 THEN [chunks |-> <<>>, used |-> 0]
            ELSE IF i \in lines THEN Added(upto[i - 1], i, cost) ELSE upto[i - 1]
    IN  upto[Lines].chunks

Asked == ToSet(work.plan[portion])

\* Translating asks for the lines that need it; punctuating for every line.
Work ==
    { [kind |-> k, lines |-> l, plan |-> plan_chunks(l, c), shorts |-> s,
       portions |-> p, refuses |-> r] :
        k \in {"translate", "suggest"}, l \in (SUBSET (1..Lines)) \ {{}},
        c \in [1..Lines -> LineCosts],
        s \in {counted(a, d) : a \in 0..MAX_SHORT_COUNT + 1, d \in Durations},
        p \in Portions, r \in SUBSET Features }

---------------------------------------------------------------------------
(* The request. *)

\* Only the schemas of shorts and of picks bound an array.
Wanted(what) ==
    IF what \in {"shorts", "pick"} THEN Features ELSE {"temperature"}

\* What the next request is, once `known` has been learned.
Send(what, k, mended, known) ==
    /\ stage' = what
    /\ portion' = k
    /\ body' = Wanted(what) \ known
    /\ wide' = FALSE
    /\ repair' = mended

JobEnds(how) ==
    /\ stage' = "over"
    /\ outcome' = how
    /\ UNCHANGED <<portion, body, wide, repair>>

\* A model rejects the request for a feature; it is resent without, and the
\* client does not send that feature again.
FeatureRefused(f) ==
    /\ f \in body \cap work.refuses
    /\ probes' = [probes EXCEPT ![f] = @ + 1]
    /\ dropped' = dropped \cup {f}
    /\ body' = body \ {f}
    /\ UNCHANGED <<work, stage, portion, wide, repair, written, heard, pool, outcome>>

Heeded == body \cap work.refuses = {}

\* An answer that could not be read because it did not fit is bought once
\* more, at a wider budget.
TooLong ==
    /\ stage # "over" /\ Heeded /\ ~wide
    /\ wide' = TRUE
    /\ body' = Wanted(stage) \ dropped
    /\ UNCHANGED <<work, stage, portion, repair, dropped, probes, written, heard,
                   pool, outcome>>

---------------------------------------------------------------------------
(* The lines: punctuated before the shorts are chosen, or translated. *)

\* After the last chunk a translation is an error when no line came back;
\* punctuation goes on to the shorts with whatever it has.
NextChunk(taken) ==
    IF portion < Len(work.plan)
    THEN Send("lines", portion + 1, FALSE, dropped) /\ UNCHANGED outcome
    ELSE IF work.kind = "suggest"
    THEN Send("shorts", 1, FALSE, dropped) /\ UNCHANGED outcome
    ELSE JobEnds(IF \E i \in 1..Lines: taken[i] # 0 THEN "saved" ELSE "failed")

\* translate.apply and punctuate.apply: of the lines an answer gives, those
\* it was asked for.
AcceptedAll(lines) == lines
Accepted(lines) == lines \cap Asked

Lined ==
    /\ stage = "lines" /\ Heeded
    /\ \E lines \in SUBSET (1..Lines):
         /\ heard' = heard \cup ({portion} \X lines)
         /\ written' = [i \in 1..Lines |->
                          IF i \in Accepted(lines) THEN portion ELSE written[i]]
    /\ NextChunk(written')
    /\ UNCHANGED <<work, dropped, probes, pool>>

---------------------------------------------------------------------------
(* The shorts. *)

\* A short of the answer, told from its likes by where it stood.
Short(merit, place) == [merit |-> merit, place |-> place]

Passes(short) == short.merit # "bad"
Builds(short) == short.merit = "good"

\* postprocess_suggestions: the shorts that hold, no more than were asked.
Built(shorts) ==
    LET held == SelectSeq(shorts, Builds)
    IN  SubSeq(held, 1, Min({Len(held), work.shorts}))

\* The texts a card shows are translated when they need it.
Finish(shorts) ==
    /\ pool' = Built(shorts)
    /\ IF Built(shorts) = <<>>
       THEN JobEnds("unusable")
       ELSE \/ Send("texts", 1, FALSE, dropped) /\ UNCHANGED outcome
            \/ JobEnds("saved")

Answers(most) ==
    { [shorts |-> [i \in DOMAIN m |-> Short(m[i], <<portion, i>>)], shaped |-> b] :
        m \in SeqOf(Merits, most), b \in BOOLEAN }

\* _request_validated: the one portion there is.  What still breaks a rule
\* after the repair is dropped; an answer with nothing usable fails.
Validated ==
    /\ stage = "shorts" /\ work.portions = 1 /\ Heeded
    /\ UNCHANGED <<work, dropped, probes, written, heard>>
    /\ \E a \in Answers(work.shorts + 1):
         LET usable == SelectSeq(a.shorts, Passes)
             sound == a.shaped /\ usable = a.shorts
                      /\ Len(usable) \in 1..work.shorts
         IN  \/ sound /\ Finish(a.shorts)
             \/ /\ ~sound /\ ~repair
                /\ Send("shorts", 1, TRUE, dropped)
                /\ UNCHANGED <<pool, outcome>>
             \/ /\ ~sound /\ repair /\ usable = <<>>
                /\ JobEnds("unusable") /\ UNCHANGED pool
             \/ /\ ~sound /\ repair /\ usable # <<>> /\ ~a.shaped
                /\ JobEnds("malformed") /\ UNCHANGED pool
             \/ /\ ~sound /\ repair /\ usable # <<>> /\ a.shaped
                /\ Finish(SubSeq(usable, 1, Min({Len(usable), work.shorts})))

\* After the last portion: nothing at all is a failure, and the picker is
\* asked only where the shorts, or the plans, leave a choice.
Gathered(shorts) ==
    IF portion < work.portions
    THEN pool' = shorts /\ Send("shorts", portion + 1, FALSE, dropped) /\ UNCHANGED outcome
    ELSE IF shorts = <<>>
    THEN pool' = shorts /\ JobEnds("unusable")
    ELSE \/ Len(shorts) <= work.shorts /\ Finish(shorts)
         \/ pool' = shorts /\ Send("pick", 1, FALSE, dropped) /\ UNCHANGED outcome

\* _fetch_candidates, and what becomes of them: a portion whose answer has
\* not the shape asked for fails the job.
Candidates ==
    /\ stage = "shorts" /\ work.portions > 1 /\ Heeded
    /\ UNCHANGED <<work, dropped, probes, written, heard>>
    /\ \E a \in Answers(candidates_per_chunk(work.shorts, work.portions)):
         LET usable == SelectSeq(a.shorts, Passes)
         IN  \/ /\ usable # a.shorts /\ ~repair
                /\ Send("shorts", portion, TRUE, dropped)
                /\ UNCHANGED <<pool, outcome>>
             \/ /\ usable = a.shorts \/ repair
                /\ ~a.shaped
                /\ JobEnds("malformed") /\ UNCHANGED pool
             \/ /\ usable = a.shorts \/ repair
                /\ a.shaped
                /\ Gathered(pool \o usable)

\* _index_problems: one to `wanted` distinct places in the pool.
SoundPick(picked) ==
    /\ Len(picked) \in 1..Min({work.shorts, Len(pool)})
    /\ ToSet(picked) \subseteq 1..Len(pool)
    /\ IsInjective(picked)

Picked ==
    /\ stage = "pick" /\ Heeded
    /\ UNCHANGED <<work, dropped, probes, written, heard>>
    /\ \E picked \in SeqOf(1..Len(pool) + 1, work.shorts + 1):
         \/ /\ SoundPick(picked)
            /\ Finish([i \in DOMAIN picked |-> pool[picked[i]]])
         \/ /\ ~SoundPick(picked) /\ ~repair
            /\ Send("pick", 1, TRUE, dropped)
            /\ UNCHANGED <<pool, outcome>>
         \/ /\ ~SoundPick(picked) /\ repair
            /\ JobEnds("failed") /\ UNCHANGED pool

---------------------------------------------------------------------------
(* The texts of the cards, failures, and a cancel. *)

Localized ==
    /\ stage = "texts" /\ Heeded
    /\ JobEnds("saved")
    /\ UNCHANGED <<work, dropped, probes, written, heard, pool>>

\* The request failed, or its answer stays unreadable.
Unanswered ==
    /\ stage # "over"
    /\ CASE stage = "lines" -> NextChunk(written)
         [] stage = "texts" -> JobEnds("saved")
         [] OTHER -> JobEnds("failed")
    /\ UNCHANGED <<work, dropped, probes, written, heard, pool>>

\* No request leaves once the job is cancelled; the translations that came
\* back are kept, the shorts are not.
Stops ==
    /\ stage # "over"
    /\ JobEnds(IF work.kind = "translate" THEN "stopped" ELSE "cancelled")
    /\ UNCHANGED <<work, dropped, probes, written, heard, pool>>

---------------------------------------------------------------------------
\* A transcript that arrived punctuated is not punctuated again.
AskInit ==
    /\ work \in Work
    /\ work.kind = "suggest" => work.lines = 1..Lines
    /\ stage \in IF work.kind = "suggest" THEN {"lines", "shorts"} ELSE {"lines"}
    /\ portion = 1 /\ body = Wanted(stage) /\ wide = FALSE /\ repair = FALSE
    /\ dropped = {} /\ probes = [f \in Features |-> 0]
    /\ written = [i \in 1..Lines |-> 0] /\ heard = {}
    /\ pool = <<>> /\ outcome = ""

AskNext ==
    \/ \E f \in Features: FeatureRefused(f)
    \/ TooLong \/ Lined \/ Validated \/ Candidates \/ Picked
    \/ Localized \/ Unanswered \/ Stops

AskSpec == AskInit /\ [][AskNext]_askVars

---------------------------------------------------------------------------
\* The variables hold values of their types.
AskTypeOK ==
    /\ stage \in {"lines", "shorts", "pick", "texts", "over"}
    /\ portion \in Nat \ {0}
    /\ body \subseteq Features /\ dropped \subseteq Features
    /\ wide \in BOOLEAN /\ repair \in BOOLEAN
    /\ written \in [1..Lines -> 0..Lines]
    /\ heard \subseteq (1..Lines) \X (1..Lines)
    /\ pool \in Seq([merit : Merits, place : Nat \X Nat])
    /\ outcome \in {"", "saved", "failed", "unusable", "malformed", "stopped",
                    "cancelled"}

\* A line holds what the answer to its own chunk gave it, and what that
\* answer gave it is not lost: not to a later chunk that was only shown the
\* line and returned it too, nor to a failure or a cancel after it
\* (translate.apply, punctuate.apply: "accepting those would let a later
\* chunk overwrite what an earlier one settled").
SettledByItsOwn ==
    \A i \in 1..Lines, k \in 1..Len(work.plan):
        i \in ToSet(work.plan[k]) =>
            (written[i] # 0 <=> <<k, i>> \in heard) /\ written[i] \in {0, k}

\* However many calls, retries and repairs a job makes, each feature its
\* model refuses costs it one refused request (_post_with_capability_
\* fallbacks: "the probe costs at most one extra round trip per client, not
\* per call").
OneProbePerFeature == \A f \in Features: probes[f] <= 1

=============================================================================

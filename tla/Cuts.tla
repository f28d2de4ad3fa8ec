-------------------------------- MODULE Cuts --------------------------------
(***************************************************************************)
(* What becomes of one short a language model proposes: its cuts are moved *)
(* to sentences, dropped and narrowed until they fit (ai/prompts.py        *)
(* repair_short_dict, ai/boundaries.py snap_cut), then judged              *)
(* (validate_shorts), then built with the padding and the rules that       *)
(* decide (ai/schema.py _build_short).  Nothing but the judge's word       *)
(* stands between a short and the project that pays for it: after the      *)
(* judge there is no retry left.                                           *)
(*                                                                         *)
(* Times are whole units, of which CUT_PAD_SEC holds some.  A cut is a     *)
(* span of segments with a role; texts and the hook's quote are left out.  *)
(***************************************************************************)
EXTENDS Integers, Sequences, FiniteSets, SequencesExt, FiniteSetsExt

CONSTANTS
    Sources,                \* [segments, length]: times of the segments, of the video
    Marks,                  \* [sentences, pauses]: the segments that end one
    Proposals,              \* sequences of cuts, as a model gives them
    MIN_DURATION, MAX_DURATION,     \* of a short
    MIN_CUTS, MAX_CUTS,
    MAX_SNAP_SEGMENTS,      \* how far an edge may be moved
    CUT_PAD                 \* played before and after a cut

Roles == {"hook", "context", "proof", "payoff"}

\* Nothing orders the segments of a transcript, keeps them apart, or makes one
\* last: split_span gives back a span of no length as it is.
ASSUME CutAssumption ==
    /\ {MIN_DURATION, MAX_DURATION, MIN_CUTS, MAX_CUTS, MAX_SNAP_SEGMENTS,
        CUT_PAD} \subseteq Nat
    /\ \A s \in Sources:
         /\ s.segments \in Seq([start: Nat, end: Nat]) /\ s.segments # <<>>
         /\ s.length \in Nat
    /\ \A cs \in Proposals:
         cs \in Seq([first: Int, last: Int, role: Roles]) /\ cs # <<>>

VARIABLES
    segments,   \* [start, end], by the code's index, from 0
    duration_sec,   \* of the video
    marks,      \* where sentences and pauses end
    proposal,   \* the cuts as proposed
    cuts,       \* the cuts as repaired so far
    entered,    \* the cuts as the repair under way found them
    repairing   \* "snap", "shrink", "narrow", "judge", "build", "built",
                \* "dropped" after the judge let it pass, or "refused"

cutVars == <<segments, duration_sec, marks, proposal, cuts, entered, repairing>>

Indexed(s) == [i \in 0..Len(s) - 1 |-> s[i + 1]]

LastSegment == Cardinality(DOMAIN segments) - 1

\* A model may name segments that are not there, or name them backwards.
InSource(c) == 0 <= c.first /\ c.first <= c.last /\ c.last <= LastSegment

\* The repairs count such a cut as nothing.
cut_span(c) ==
    IF InSource(c) THEN segments[c.last].end - segments[c.first].start ELSE 0

Total(spans) ==
    LET upto[k \in 0..Len(spans)] == IF k = 0 THEN 0 ELSE upto[k - 1] + spans[k]
    IN  upto[Len(spans)]

total_duration(cs) == Total([i \in DOMAIN cs |-> cut_span(cs[i]) + 2 * CUT_PAD])

---------------------------------------------------------------------------
(* Boundaries. *)

\* The nearest boundary within reach, an earlier one before a later one as
\* near; the one the edge already sits on needs no reach.
Nearby(index, targets, low, high) ==
    LET reach == {t \in targets \cap (low..high) :
                    t - index \in -MAX_SNAP_SEGMENTS..MAX_SNAP_SEGMENTS}
        nearest == {t \in reach : \A u \in reach :
                        (t - index) * (t - index) <= (u - index) * (u - index)}
    IN  IF index \in targets THEN {index}
        ELSE IF nearest = {} THEN {} ELSE {Min(nearest)}

\* Sentence marks win over pauses; with neither the edge stays.
nearest_boundary(index, strong, weak, low, high) ==
    CHOOSE t \in Nearby(index, strong, low, high) \cup
                 (IF Nearby(index, strong, low, high) # {} THEN {}
                  ELSE IF Nearby(index, weak, low, high) # {}
                  THEN Nearby(index, weak, low, high) ELSE {index}) : TRUE

After(ends) == {i + 1 : i \in ends}

Clamped(index) == Max({0, Min({index, LastSegment})})

\* The cut is brought into the source first.  An end wants to be a boundary, a
\* start to be one past one; the video's opening is no target, and a cut that
\* starts there stays.
snap_cut(c) ==
    LET first == Min({Clamped(c.first), Clamped(c.last)})
        last == Max({Clamped(c.first), Clamped(c.last)})
        end == nearest_boundary(last, marks.sentences, marks.pauses, first, LastSegment)
    IN  [c EXCEPT !.last = end,
                  !.first = IF first = 0 THEN 0
                            ELSE nearest_boundary(first, After(marks.sentences),
                                     After(marks.pauses), 0, end)]

Marked == marks.sentences \cup marks.pauses # {}

Snap ==
    /\ repairing = "snap" /\ repairing' = "shrink"
    /\ cuts' = IF Marked THEN [i \in DOMAIN cuts |-> snap_cut(cuts[i])] ELSE cuts
    /\ entered' = cuts'
    /\ UNCHANGED <<segments, duration_sec, marks, proposal>>

---------------------------------------------------------------------------
(* Duration: first whole cuts go, then segments off the widest. *)

\* The shortest cut that may go: not the first, the last or a hook.
DroppableAny == {i \in DOMAIN cuts : i # 1 /\ i # Len(cuts)}
Droppable == {i \in DOMAIN cuts : i # 1 /\ i # Len(cuts) /\ cuts[i].role # "hook"}
Shortest(places) ==
    Min({i \in places : \A j \in places : cut_span(cuts[i]) <= cut_span(cuts[j])})

TooMany == Len(cuts) > MIN_CUTS /\ total_duration(cuts) > MAX_DURATION

Drop ==
    /\ repairing = "shrink" /\ TooMany /\ Droppable # {}
    /\ cuts' = RemoveAt(cuts, Shortest(Droppable))
    /\ UNCHANGED <<segments, duration_sec, marks, proposal, entered, repairing>>

\* Dropping that did not bring the short into range is undone.
Dropped ==
    /\ repairing = "shrink" /\ ~(TooMany /\ Droppable # {})
    /\ cuts' = IF total_duration(cuts) <= MAX_DURATION THEN cuts ELSE entered
    /\ entered' = cuts' /\ repairing' = "narrow"
    /\ UNCHANGED <<segments, duration_sec, marks, proposal>>

\* A payoff, and the cut played last, lose their first segment; any other
\* cut its last.
trimmed(i) ==
    IF i = Len(cuts) \/ cuts[i].role = "payoff"
    THEN [cuts EXCEPT ![i].first = @ + 1]
    ELSE [cuts EXCEPT ![i].last = @ - 1]

Narrowable ==
    {i \in DOMAIN cuts : /\ cuts[i].first < cuts[i].last
                         /\ total_duration(trimmed(i)) >= MIN_DURATION}
Widest(places) ==
    Min({i \in places : \A j \in places : cut_span(cuts[j]) <= cut_span(cuts[i])})

Narrow ==
    /\ repairing = "narrow" /\ total_duration(cuts) > MAX_DURATION
    /\ Narrowable # {}
    /\ cuts' = trimmed(Widest(Narrowable))
    /\ UNCHANGED <<segments, duration_sec, marks, proposal, entered, repairing>>

Narrowed ==
    /\ repairing = "narrow"
    /\ \/ total_duration(cuts) <= MAX_DURATION /\ cuts' = cuts
       \/ total_duration(cuts) > MAX_DURATION /\ Narrowable = {} /\ cuts' = entered
    /\ repairing' = "judge"
    /\ UNCHANGED <<segments, duration_sec, marks, proposal, entered>>

---------------------------------------------------------------------------
(* The judge, and the builder. *)

Told(cs) ==
    /\ Last(cs).role = "payoff"
    /\ \E i \in DOMAIN cs: cs[i].role = "hook"

\* Mutant of Usable: a short may be as short as it likes.
UsableHowShort ==
    /\ Len(cuts) >= MIN_CUTS
    /\ \A i \in DOMAIN cuts: InSource(cuts[i])
    /\ total_duration(cuts) <= MAX_DURATION
    /\ Told(cuts)

\* validate_shorts: measures a cut as it will be padded.
Usable ==
    /\ Len(cuts) >= MIN_CUTS
    /\ \A i \in DOMAIN cuts: InSource(cuts[i])
    /\ total_duration(cuts) \in MIN_DURATION..MAX_DURATION
    /\ Told(cuts)

JudgeShort ==
    /\ repairing = "judge"
    /\ repairing' = IF Usable THEN "build" ELSE "refused"
    /\ UNCHANGED <<segments, duration_sec, marks, proposal, cuts, entered>>

\* _resolve_cut: the padding stops at the edges of the video.
OnVideo(t) == Max({0, Min({t, duration_sec})})
resolved(c) ==
    OnVideo(segments[c.last].end + CUT_PAD) - OnVideo(segments[c.first].start - CUT_PAD)

built_duration(cs) == Total([i \in DOMAIN cs |-> resolved(cs[i])])

\* A cut that takes no time is refused, and the short with it.
HoldsTogether ==
    /\ Len(cuts) \in MIN_CUTS..MAX_CUTS
    /\ \A i \in DOMAIN cuts: cut_span(cuts[i]) > 0
    /\ built_duration(cuts) \in MIN_DURATION..MAX_DURATION
    /\ Told(cuts)

Build ==
    /\ repairing = "build"
    /\ repairing' = IF HoldsTogether THEN "built" ELSE "dropped"
    /\ UNCHANGED <<segments, duration_sec, marks, proposal, cuts, entered>>

---------------------------------------------------------------------------
CutInit ==
    /\ \E s \in Sources:
         segments = Indexed(s.segments) /\ duration_sec = s.length
    /\ marks \in Marks
    /\ proposal \in Proposals
    /\ cuts = proposal /\ entered = proposal
    /\ repairing = "snap"

CutNext == Snap \/ Drop \/ Dropped \/ Narrow \/ Narrowed \/ JudgeShort \/ Build

CutSpec == CutInit /\ [][CutNext]_cutVars

---------------------------------------------------------------------------
\* The variables hold values of their types, and whatever the model named,
\* what is built are spans of the source: the judge refuses every other cut,
\* and where boundaries are known no repair leaves or makes one.
CutTypeOK ==
    /\ \A i \in DOMAIN cuts: {cuts[i].first, cuts[i].last} \subseteq Int
    /\ repairing \in {"snap", "shrink", "narrow", "judge", "build", "built",
                      "dropped", "refused"}
    /\ repairing \in {"build", "built", "dropped"} \/ (repairing # "snap" /\ Marked) =>
         \A i \in DOMAIN cuts: InSource(cuts[i])

\* A short the judge lets pass is built, so the calls that found it were not
\* spent for nothing (validate_shorts on the padding: "any gap between this
\* gate and postprocess_suggestions' real enforcement ... die with no retry
\* left").  Three gaps are open in the code and are named here: a short of
\* more cuts than MAX_CUTS, which the judge does not count; a cut that takes no
\* time, which the judge measures by its padding and _resolve_cut refuses; and a
\* cut so near an edge of the video that padding that was counted is cut off.
AUsableShortIsBuilt ==
    repairing = "dropped" =>
        \/ Len(cuts) > MAX_CUTS
        \/ \E i \in DOMAIN cuts:
             \/ cut_span(cuts[i]) <= 0
             \/ segments[cuts[i].first].start < CUT_PAD
             \/ segments[cuts[i].last].end + CUT_PAD > duration_sec

\* Repairs of the length never cost the short what makes it one: the cut
\* played last stays last with its role, the hook stays, the floor of cuts
\* holds, and narrowing a short that is long does not leave it too short
\* (_shrink_short_to_fit, _narrow_cuts_to_fit).
RepairKeepsTheStory ==
    /\ Last(cuts).role = Last(proposal).role
    /\ Len(cuts) >= Min({MIN_CUTS, Len(proposal)})
    /\ (\E i \in DOMAIN proposal: proposal[i].role = "hook") =>
         \E i \in DOMAIN cuts: cuts[i].role = "hook"
    /\ total_duration(cuts) < MIN_DURATION /\ repairing = "judge" =>
         total_duration(entered) < MIN_DURATION

=============================================================================

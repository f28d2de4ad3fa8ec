------------------------------ MODULE Choosing ------------------------------
(***************************************************************************)
(* What an export renders: the ideas a producer chose or the timeline, as  *)
(* the project was when the export was asked for and as it is when a       *)
(* worker takes it (exports.py, export/ideas.py, handlers/export.py), and  *)
(* which of its lines need a translation (languages.py, guards.py).  The   *)
(* project is one that is not spoken in Mongolian.                         *)
(***************************************************************************)
EXTENDS Integers, SequencesExt, FiniteSetsExt

CONSTANTS
    Sayings,            \* [from, to]: when each line is said
    Drafts,             \* what the model may suggest: [shorts, youtube]
    Timelines,          \* the clips a producer may lay out: ranges
    Orders,             \* the rows of the exports
    Turns               \* bound: changes of the project

Stretch == [from : Nat, to : Nat]

\* No range ends before it begins: the route and the schema of the suggestions
\* see to it.
RangeLists == {list \in Seq(Stretch) : \A k \in DOMAIN list : list[k].from <= list[k].to}

\* Every short has cuts (_build_short); of a plan nothing may be left once its
\* ranges are clamped to the video (_build_youtube_plan).
ASSUME ChoiceAssumption ==
    /\ IsFiniteSet(DOMAIN Sayings) /\ Sayings \in [DOMAIN Sayings -> Stretch]
    /\ \A d \in Drafts : /\ d.shorts \in Seq(RangeLists \ {<<>>})
                         /\ d.youtube \in Seq([title : STRING, ranges : RangeLists])
    /\ Timelines \subseteq RangeLists
    /\ Turns \in Nat

VARIABLES
    draft,          \* the suggestions: [gen, shorts, youtube]
    clips,          \* the timeline
    translated,     \* the lines that have a translation
    wants,          \* [subtitles, voice]: what the export uses it for
    orders,         \* per export: [state, pick, key, seen, moved]
    films,          \* what each export rendered, named and counted
    turns

choiceVars == <<draft, clips, translated, wants, orders, films, turns>>

Everything == [every |-> TRUE, of |-> <<>>]       \* nothing is named

Named(list) == [every |-> FALSE, of |-> list]

All == [what |-> "ideas", shorts |-> Everything, youtube |-> Everything]

Timeline == [All EXCEPT !.what = "timeline"]

TheLines == DOMAIN Sayings

NoFilm == [shorts |-> <<>>, youtube |-> <<>>, bare |-> <<>>, skipped |-> 0,
           counted |-> 0, fallback |-> {}, missing |-> {}]

NoDraft == [gen |-> 0, shorts |-> <<>>, youtube |-> <<>>]

NoOrder == [state |-> "none", pick |-> All, key |-> <<>>, seen |-> NoDraft, moved |-> FALSE]
-----------------------------------------------------------------------------
(* The lines an export shows or reads. *)

Earliest(S) ==
    CHOOSE r \in S : \A q \in S : r.from < q.from \/ (r.from = q.from /\ r.to <= q.to)

Extended(stretches, r) ==
    IF stretches # <<>> /\ r.from < Last(stretches).to
    THEN [stretches EXCEPT ![Len(stretches)].to = IF @ < r.to THEN r.to ELSE @]
    ELSE Append(stretches, r)

\* _disjoint: in order, those that overlap made one.
disjoint(ranges) ==
    LET S == ToSet(ranges)
        upto[k \in 0 .. Cardinality(S)] ==
            IF k = 0 THEN [left |-> S, stretches |-> <<>>]
            ELSE LET r == Earliest(upto[k - 1].left)
                 IN  [left |-> upto[k - 1].left \ {r}, stretches |-> Extended(upto[k - 1].stretches, r)]
    IN  upto[Cardinality(S)].stretches

\* lines_used: only the first stretch that ends after a line begins can meet it.
lines_used(ranges) ==
    LET stretches == disjoint(ranges)
        First(s) == CHOOSE i \in 1 .. Len(stretches) + 1 :
                        /\ \A j \in 1 .. i - 1 : stretches[j].to <= s.from
                        /\ i <= Len(stretches) => stretches[i].to > s.from
    IN {n \in TheLines :
          LET s == Sayings[n]
          IN First(s) <= Len(stretches) /\ stretches[First(s)].from < s.to}

translation_uses == wants.subtitles \/ wants.voice

\* A mutant of translation_holes: only the subtitles are asked about.
translation_holesOnScreen(ranges) ==
    IF wants.subtitles THEN lines_used(ranges) \ translated ELSE {}

translation_holes(ranges) ==
    IF translation_uses THEN lines_used(ranges) \ translated ELSE {}

\* The subtitles take every line that has some time in common with a range.
Shown(ranges) ==
    {n \in TheLines : \E r \in ToSet(ranges) :
        /\ Sayings[n].to > r.from /\ Sayings[n].from < r.to
        /\ Sayings[n].from < Sayings[n].to /\ r.from < r.to}

\* lines_in: the voice takes every line whose middle is in a range.
ReadAloud(ranges) ==
    {n \in TheLines : \E r \in ToSet(ranges) :
        LET twice == Sayings[n].from + Sayings[n].to IN 2 * r.from <= twice /\ twice < 2 * r.to}
-----------------------------------------------------------------------------
(* The selection. *)

idea_ranges(ideas) ==
    FlattenSeq([i \in DOMAIN ideas.shorts |-> ideas.shorts[i].ranges]) \o
    FlattenSeq([i \in DOMAIN ideas.youtube |-> ideas.youtube[i].ranges])

\* A mutant of IsStill: a plan is known by its place alone.
IsStillThere(chosen) == chosen.i \in DOMAIN draft.youtube

IsStill(chosen) ==
    /\ chosen.i \in DOMAIN draft.youtube
    /\ draft.youtube[chosen.i].title = chosen.title

\* Those of a list that are in S, in their order.
Kept(list, S) ==
    LET upto[k \in 0 .. Len(list)] ==
            IF k = 0 THEN <<>>
            ELSE IF list[k] \in S THEN Append(upto[k - 1], list[k]) ELSE upto[k - 1]
    IN  upto[Len(list)]

KnownShorts(ids) == Kept(ids, {s.id : s \in ToSet(draft.shorts)})

\* pick_ideas: what is still there, and how many are named as skipped.
pick_ideas(pick) ==
    LET known == KnownShorts(pick.shorts.of)
        plans == Kept(pick.youtube.of, {c \in ToSet(pick.youtube.of) : IsStill(c)})
        ById(id) == CHOOSE s \in ToSet(draft.shorts) : s.id = id
    IN [shorts |-> IF pick.shorts.every THEN draft.shorts
                   ELSE [k \in DOMAIN known |-> ById(known[k])],
        youtube |-> IF pick.youtube.every THEN draft.youtube
                    ELSE [k \in DOMAIN plans |-> draft.youtube[plans[k].i]],
        skipped |-> Len(pick.shorts.of) - Len(known) + Len(pick.youtube.of) - Len(plans)]

RangesOf(pick) == IF pick = Timeline THEN clips ELSE idea_ranges(pick_ideas(pick))

Nothing(ideas) == ideas.shorts = <<>> /\ ideas.youtube = <<>>
-----------------------------------------------------------------------------
\* A change of the project, seen by every export that waits.
Moves ==
    /\ turns < Turns /\ turns' = turns + 1
    /\ orders' = [o \in Orders |-> [orders[o] EXCEPT !.moved = @ \/ orders[o].state = "queued"]]

\* A job of suggestions ends; its shorts get ids of their own.
Suggested ==
    /\ Moves
    /\ \E d \in Drafts :
         draft' = [gen |-> draft.gen + 1, youtube |-> d.youtube,
                   shorts |-> [i \in DOMAIN d.shorts |-> [id |-> <<draft.gen + 1, i>>, ranges |-> d.shorts[i]]]]
    /\ UNCHANGED <<clips, translated, wants, films>>

\* The translation that follows the suggestions, or one of every line.
Translated(lines) ==
    /\ Moves
    /\ translated' = translated \cup lines
    /\ UNCHANGED <<draft, clips, wants, films>>

\* A correction of a line drops its translation.
Corrected(n) ==
    /\ n \in translated /\ Moves
    /\ translated' = translated \ {n}
    /\ UNCHANGED <<draft, clips, wants, films>>

Settled ==
    /\ Moves
    /\ wants' \in [subtitles : BOOLEAN, voice : BOOLEAN]
    /\ UNCHANGED <<draft, clips, translated, films>>

LaidOut ==
    /\ Moves /\ clips' \in Timelines
    /\ UNCHANGED <<draft, translated, wants, films>>
-----------------------------------------------------------------------------
(* The routes. *)

\* Everything, or a few of them by id and by place.
SomeOf(S) == {Everything} \cup {Named(SetToSeq(T)) : T \in SUBSET S}

Picks ==
    {p \in [what : {"ideas"},
            shorts : SomeOf({x.id : x \in ToSet(draft.shorts)}),
            youtube : SomeOf({[i |-> k, title |-> draft.youtube[k].title] : k \in DOMAIN draft.youtube})] :
        p = All \/ p.shorts.of # <<>> \/ p.youtube.of # <<>>}

\* What tells two exports apart: the selection, or all that the render of the
\* timeline reads.
digest(pick) == IF pick = Timeline THEN <<pick, clips, wants, translated>> ELSE <<pick>>

Free(o) == orders[o].state = "none" /\ \A q \in Orders : q < o => orders[q].state # "none"

Ordered(o, pick) ==
    /\ \A q \in Orders : orders[q].state = "queued" => orders[q].key # digest(pick)
    /\ translation_holes(RangesOf(pick)) = {}
    /\ orders' = [orders EXCEPT ![o] = [state |-> "queued", pick |-> pick, key |-> digest(pick),
                                        seen |-> draft, moved |-> FALSE]]
    /\ UNCHANGED <<draft, clips, translated, wants, films, turns>>

export_all(o) == Free(o) /\ ~Nothing(draft) /\ \E pick \in Picks : Ordered(o, pick)

export_timeline(o) == Free(o) /\ clips # <<>> /\ Ordered(o, Timeline)
-----------------------------------------------------------------------------
Bare(plans) == Kept(plans, {p \in ToSet(plans) : p.ranges = <<>>})

Cut(plans) == Kept(plans, {p \in ToSet(plans) : p.ranges # <<>>})

\* subtitle_segments: every line of the transcript that has no translation, shown
\* or not, and where the language of the subtitles is Mongolian even if they are
\* neither burned nor written.
Tallies ==
    {Cardinality(TheLines \ translated)} \cup (IF wants.subtitles THEN {} ELSE {0})

\* What comes of a selection.  render_all_ideas passes over a plan with no ranges
\* and only logs it; a line with no translation is shown as it was said, and
\* not read at all.
Film(pick, tally) ==
    LET ideas == IF pick = Timeline THEN NoFilm ELSE pick_ideas(pick)
    IN IF (IF pick = Timeline THEN clips = <<>> ELSE Nothing(ideas)) THEN NoFilm
       ELSE [shorts |-> ideas.shorts, youtube |-> Cut(ideas.youtube), bare |-> Bare(ideas.youtube),
             skipped |-> ideas.skipped, counted |-> tally,
             fallback |-> IF wants.subtitles THEN Shown(RangesOf(pick)) \ translated ELSE {},
             missing |-> IF wants.voice THEN ReadAloud(RangesOf(pick)) \ translated ELSE {}]

\* _render, which reads the project once.
Rendered(o) ==
    /\ orders[o].state = "queued"
    /\ orders' = [orders EXCEPT ![o].state = "ended"]
    /\ \E tally \in Tallies : films' = [films EXCEPT ![o] = Film(orders[o].pick, tally)]
    /\ UNCHANGED <<draft, clips, translated, wants, turns>>
-----------------------------------------------------------------------------
ChoiceInit ==
    /\ draft = NoDraft
    /\ clips = <<>>
    /\ translated = {}
    /\ wants = [subtitles |-> TRUE, voice |-> FALSE]
    /\ orders = [o \in Orders |-> NoOrder]
    /\ films = [o \in Orders |-> NoFilm]
    /\ turns = 0

ChoiceNext ==
    \/ Suggested \/ Settled \/ LaidOut
    \/ Translated(TheLines) \/ Translated(lines_used(idea_ranges(draft)))
    \/ \E n \in TheLines : Corrected(n)
    \/ \E o \in Orders : export_all(o) \/ export_timeline(o) \/ Rendered(o)

ChoiceSpec == ChoiceInit /\ [][ChoiceNext]_choiceVars
-----------------------------------------------------------------------------
\* The variables hold values of their types.
ChoiceTypeOK ==
    /\ translated \subseteq TheLines
    /\ wants \in [subtitles : BOOLEAN, voice : BOOLEAN]
    /\ \A o \in Orders : orders[o].state \in {"none", "queued", "ended"}
    /\ \A o \in Orders : films[o].fallback \cup films[o].missing \subseteq TheLines
    /\ turns \in 0 .. Turns

\* An idea that is rendered for a selection is the one that was chosen, and a
\* chosen one that is not rendered is named, or is a plan with nothing to cut,
\* which the result does not mention; a plan made since with the same place and
\* title is the one that cannot be told apart.
RenderedWereChosen ==
    \A o \in Orders :
        LET pick == orders[o].pick
            seen == orders[o].seen
            film == films[o]
        IN orders[o].state = "ended" /\ pick.what = "ideas" /\ film # NoFilm =>
             /\ ~pick.shorts.every => ToSet(film.shorts) \subseteq ToSet(seen.shorts)
             /\ ~pick.youtube.every =>
                  \A p \in ToSet(film.youtube) \cup ToSet(film.bare) :
                      \E c \in ToSet(pick.youtube.of) :
                          p = seen.youtube[c.i] \/ (orders[o].moved /\ p.title = c.title)
             /\ \A p \in ToSet(film.bare) : p.ranges = <<>>
             /\ \A p \in ToSet(film.youtube) : p.ranges # <<>>
             /\ ~pick.shorts.every /\ ~pick.youtube.every =>
                  Len(film.shorts) + Len(film.youtube) + Len(film.bare) + film.skipped
                    = Len(pick.shorts.of) + Len(pick.youtube.of)

OverTime == {n \in TheLines : Sayings[n].from < Sayings[n].to}

\* A line is shown as it was said, or left unread, only where the project was
\* changed after the export was asked for; and every line shown so is counted.
\* Not so, where it is read, of a line that takes no time: the voice takes it if a
\* range begins with it, and lines_used, which the export was let through by, not.
HolesComeFromChanges ==
    \A o \in Orders :
        /\ films[o].fallback \cup (films[o].missing \cap OverTime) # {} => orders[o].moved
        /\ films[o].counted >= Cardinality(films[o].fallback)

\* An export is what was asked for, or says where it is not.
ExportIsAsAsked == RenderedWereChosen /\ HolesComeFromChanges
=============================================================================

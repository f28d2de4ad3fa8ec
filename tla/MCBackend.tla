----------------------------- MODULE MCBackend -----------------------------
(***************************************************************************)
(* The parts of the backend that share no state with one another, one of   *)
(* them at a time: `part` says which one a behaviour is of, and the others *)
(* keep their first values, as interleaving them would say nothing.        *)
(***************************************************************************)
EXTENDS Spending, Outputs, Accounts, LoginLimit, Fleet, Asking,
        MCChunking, Render, VoiceTrack, Cuts, SpokenWords, ProviderKeys,
        Choosing

CONSTANTS
    ClipLengths, LengthsWanted, most_clips  \* of an export

VARIABLE part

backendVars == <<part, spendVars, outVars, accountVars, limitVars, fleetVars, askVars,
                 vars, renderVars, voiceVars, cutVars, spokenVars, keyVars, choiceVars>>
-----------------------------------------------------------------------------
\* The services.

MCKeys == {[project |-> "p1", kind |-> "voiced"], [project |-> "p1", kind |-> "translate"]}

MCKindOf == [e \in Exports |-> "export"]

\* Nothing is chosen by the place an attempt of an export runs at.
Symmetric == Permutations(Runs)

MCLower == [u \in Names |-> IF u = "Ann" THEN "ann" ELSE u]

MCCallers == {[name |-> "ann", ip |-> "a"], [name |-> "bob", ip |-> "a"]}

MCCodeOf == [p \in Apis \cup Boxes |-> IF p \in {"a2", "b2"} THEN 2 ELSE 1]
-----------------------------------------------------------------------------
\* The inputs of the computations.

MCTakes ==
    {[cuts |-> [k \in 1 .. m |-> [from |-> 20 * k, to |-> 20 * k + c[k]]],
      intro |-> i, outro |-> o, wanted |-> w] :
        m \in 1 .. most_clips, c \in [1 .. most_clips -> ClipLengths], i \in {0, 3}, o \in {0, 9},
        w \in LengthsWanted}

MCSegments ==
    {[from |-> 1, to |-> 25, words |-> {}],
     [from |-> 25, to |-> 44, words |-> {[from |-> 25, to |-> 29], [from |-> 35, to |-> 44]}],
     [from |-> 44, to |-> 62, words |-> {}]}

\* Three lines said one after the other around a scene, each with a reading of
\* its own length.
MCScenes ==
    {[from |-> f, to |-> f + 6, source |-> 8,
      lines |-> <<[from |-> f - 1 + a, to |-> f + 1 + a, duration |-> d[1]],
                  [from |-> f + a + b, to |-> f + 2 + a + b, duration |-> d[2]],
                  [from |-> f + a + b + c, to |-> f + 1 + a + b + c, duration |-> d[3]]>>] :
        f \in {1, 4}, a \in 0 .. 2, b \in 0 .. 2, c \in 0 .. 2,
        d \in [1 .. 3 -> {0, 2, 3, 4, 8}]}

\* Segments from edge to edge of the video; and away from its edges, one of
\* them of no length and one that starts before the one in front of it ends.
During(a, b) == [start |-> a, end |-> b]

MCSources ==
    {[segments |-> <<During(0, 4), During(4, 6), During(6, 11), During(11, 13), During(13, 17)>>,
      length |-> 17],
     [segments |-> <<During(2, 6), During(5, 8), During(8, 8), During(8, 13), During(13, 15)>>,
      length |-> 20]}

MCMarks ==
    {[sentences |-> {1, 4}, pauses |-> {2}], [sentences |-> {2}, pauses |-> {}],
     [sentences |-> {}, pauses |-> {0, 3}], [sentences |-> {}, pauses |-> {}]}

Spans == {[first |-> a, last |-> b] : a, b \in 0 .. 4}

WithRoles(s, h) ==
    [i \in DOMAIN s |->
        [first |-> s[i].first, last |-> s[i].last,
         role |-> IF i = Len(s) THEN "payoff" ELSE IF i = h THEN "hook" ELSE "context"]]

\* Up to four cuts, in order except for the one played first, of one segment,
\* two or four; or three of which one is backwards or not all in the source.
MCProposals ==
    {WithRoles(s, h) :
        s \in {x \in SeqOf({c \in Spans : c.last - c.first \in {0, 1, 3}}, 4) :
                  Len(x) > 1 /\ \A i \in 2 .. Len(x) - 1 : x[i].first < x[i + 1].first},
        h \in 1 .. 2}
    \cup
    {WithRoles([<<[first |-> 0, last |-> 1], [first |-> 1, last |-> 2],
                  [first |-> 1, last |-> 3]>> EXCEPT ![i] = c], h) :
        c \in [first : {-1, 2, 5}, last : {1, 4, 6}], i \in 1 .. 3, h \in 1 .. 2}

\* Three regions of speech, or three words with some of their times.
Silent == [words |-> <<>>, regions |-> <<>>, length |-> 5, sentence |-> 1]

RegionsAt(l, g) ==
    LET at[k \in 1 .. 3] == IF k = 1 THEN 1 ELSE at[k - 1] + l[k - 1] + g[k - 1]
    IN [k \in 1 .. 3 |-> [from |-> at[k], to |-> at[k] + l[k]]]

WordAt(k, w, sound) ==
    [said |-> k # sound, who |-> w.who, stops |-> w.stops,
     from |-> IF w.timed = "end" THEN Missing ELSE 4 * k,
     to |-> IF w.timed = "start" THEN Missing ELSE 4 * k + w.lasts]

MCSpeeches ==
    {Silent} \cup
    {[Silent EXCEPT !.regions = RegionsAt(l, g)] : l \in [1 .. 3 -> {1, 3, 9}], g \in [1 .. 2 -> {0, 2}]} \cup
    {[Silent EXCEPT !.words = [k \in 1 .. 2 |->
        WordAt(3, [who |-> "ann", stops |-> FALSE, timed |-> "both", lasts |-> 1], 3)]]} \cup
    {[Silent EXCEPT !.words = [k \in 1 .. 3 |-> WordAt(k, w[k], sound)]] :
        sound \in 2 .. 4,
        w \in {x \in [1 .. 3 -> [who : {"ann", "bob"}, stops : BOOLEAN, timed : {"both", "start", "end"},
                                 lasts : {1, 4}]] :
                  x[1].who = "ann" /\ x[3].stops /\ x[1].timed # "end" /\ x[1].lasts = 1}}

MCVariables == {<<>>, <<1>>, <<2, 1>>, <<2>>}

\* Overlapping, touching and far ranges; two plans of one title, and one of
\* nothing.
From(a, b) == [from |-> a, to |-> b]

MCSayings == <<From(0, 3), From(3, 3), From(3, 5), From(5, 9)>>

MCDrafts ==
    {[shorts |-> <<<<From(1, 3)>>, <<From(3, 4), From(6, 7)>>>>,
      youtube |-> <<[title |-> "x", ranges |-> <<From(4, 8), From(2, 5)>>]>>],
     [shorts |-> <<<<From(6, 9), From(0, 2)>>>>,
      youtube |-> <<[title |-> "y", ranges |-> <<>>],
                    [title |-> "x", ranges |-> <<From(5, 6), From(5, 7)>>]>>]}

MCTimelines == {<<From(1, 4)>>}

\* The inputs of a part that is not run.
Unproposed == <<[first |-> 0, last |-> 0, role |-> "payoff"]>>

Some(S) == CHOOSE x \in S : TRUE

NoAsking ==
    /\ work = [Some(Work) EXCEPT !.kind = "translate"]
    /\ stage = "over" /\ portion = 1 /\ body = {} /\ wide = FALSE /\ repair = FALSE
    /\ dropped = {} /\ probes = [f \in Features |-> 0]
    /\ written = [i \in 1 .. Lines |-> 0] /\ heard = {} /\ pool = <<>> /\ outcome = ""

NoChunking ==
    /\ recording = Some(Recordings) /\ next = 1 /\ start = 0
    /\ boundaries = <<>> /\ done = FALSE

NoRender ==
    /\ take = Some(Takes) /\ phase = "done" /\ sequence = <<>> /\ lengths = <<>>
    /\ passes = <<>> /\ shown = <<>> /\ captions = {}

NoVoice ==
    /\ scene = Some(Scenes) /\ said = <<>> /\ free_from = 0 /\ placements = <<>>
    /\ laid = 0 /\ track = <<>>

NoCuts ==
    /\ segments = Indexed(Some(Sources).segments) /\ duration_sec = 0 /\ marks = Some(Marks)
    /\ proposal = Unproposed /\ cuts = proposal /\ entered = proposal
    /\ repairing = "refused"

NoWords ==
    /\ speech = Silent /\ route = "done" /\ groups = <<>> /\ asked = 0 /\ unsent = {}
    /\ open = NoSegment /\ segs = <<>> /\ spoken = <<>> /\ metered = FALSE

NoKeys == KeysInit /\ variable = <<>>
-----------------------------------------------------------------------------
BackendInit ==
    /\ part \in {"spending", "outputs", "accounts", "limits", "fleet", "asking",
                "chunking", "render", "voice", "cuts", "words", "keys",
                "choosing"}
    /\ SpendInit /\ OutInit /\ AccountsInit /\ LimitInit /\ ChoiceInit
    /\ FleetInit /\ revision = 0  \* a new database; every other is one an instance migrated
    /\ part = "asking" \/ NoAsking
    /\ part = "chunking" \/ NoChunking
    /\ part = "render" \/ NoRender
    /\ part = "voice" \/ NoVoice
    /\ part = "cuts" \/ NoCuts
    /\ part = "words" \/ NoWords
    /\ part = "keys" \/ NoKeys
    /\ CASE part = "asking" -> AskInit
         [] part = "chunking" -> Init [] part = "render" -> RenderInit
         [] part = "voice" -> VoiceInit [] part = "cuts" -> CutInit
         [] part = "words" -> SpokenInit [] part = "keys" -> KeysInit
         [] OTHER -> TRUE

BackendNext ==
    \/ /\ part = "spending" /\ UNCHANGED <<part, outVars, accountVars, limitVars, fleetVars, askVars, vars, renderVars, voiceVars, cutVars, spokenVars, keyVars, choiceVars>>
       /\ SpendNext
    \/ /\ part = "outputs" /\ UNCHANGED <<part, spendVars, accountVars, limitVars, fleetVars, askVars, vars, renderVars, voiceVars, cutVars, spokenVars, keyVars, choiceVars>>
       /\ OutNext
    \/ /\ part = "accounts" /\ UNCHANGED <<part, spendVars, outVars, limitVars, fleetVars, askVars, vars, renderVars, voiceVars, cutVars, spokenVars, keyVars, choiceVars>>
       /\ AccountsNext
    \/ /\ part = "limits" /\ UNCHANGED <<part, spendVars, outVars, accountVars, fleetVars, askVars, vars, renderVars, voiceVars, cutVars, spokenVars, keyVars, choiceVars>>
       /\ LimitNext
    \/ /\ part = "fleet" /\ UNCHANGED <<part, spendVars, outVars, accountVars, limitVars, askVars, vars, renderVars, voiceVars, cutVars, spokenVars, keyVars, choiceVars>>
       /\ FleetNext
    \/ /\ part = "asking" /\ UNCHANGED <<part, spendVars, outVars, accountVars, limitVars, fleetVars, vars, renderVars, voiceVars, cutVars, spokenVars, keyVars, choiceVars>>
       /\ AskNext
    \/ /\ part = "chunking" /\ UNCHANGED <<part, spendVars, outVars, accountVars, limitVars, fleetVars, askVars, renderVars, voiceVars, cutVars, spokenVars, keyVars, choiceVars>>
       /\ Next
    \/ /\ part = "render" /\ UNCHANGED <<part, spendVars, outVars, accountVars, limitVars, fleetVars, askVars, vars, voiceVars, cutVars, spokenVars, keyVars, choiceVars>>
       /\ RenderNext
    \/ /\ part = "voice" /\ UNCHANGED <<part, spendVars, outVars, accountVars, limitVars, fleetVars, askVars, vars, renderVars, cutVars, spokenVars, keyVars, choiceVars>>
       /\ VoiceNext
    \/ /\ part = "cuts" /\ UNCHANGED <<part, spendVars, outVars, accountVars, limitVars, fleetVars, askVars, vars, renderVars, voiceVars, spokenVars, keyVars, choiceVars>>
       /\ CutNext
    \/ /\ part = "words" /\ UNCHANGED <<part, spendVars, outVars, accountVars, limitVars, fleetVars, askVars, vars, renderVars, voiceVars, cutVars, keyVars, choiceVars>>
       /\ SpokenNext
    \/ /\ part = "keys" /\ UNCHANGED <<part, spendVars, outVars, accountVars, limitVars, fleetVars, askVars, vars, renderVars, voiceVars, cutVars, spokenVars, choiceVars>>
       /\ KeysNext
    \/ /\ part = "choosing" /\ UNCHANGED <<part, spendVars, outVars, accountVars, limitVars, fleetVars, askVars, vars, renderVars, voiceVars, cutVars, spokenVars, keyVars>>
       /\ ChoiceNext

BackendSpec == BackendInit /\ [][BackendNext]_backendVars

\* The variables of every part hold values of their types.
BackendTypeOK ==
    CASE part = "spending" -> SpendTypeOK [] part = "outputs" -> OutTypeOK
      [] part = "accounts" -> AccountsTypeOK [] part = "limits" -> LimitTypeOK
      [] part = "fleet" -> FleetTypeOK [] part = "asking" -> AskTypeOK
      [] part = "chunking" -> TypeOK [] part = "render" -> RenderTypeOK
      [] part = "voice" -> VoiceTypeOK [] part = "cuts" -> CutTypeOK
      [] part = "words" -> SpokenTypeOK [] part = "keys" -> KeysTypeOK
      [] part = "choosing" -> ChoiceTypeOK
=============================================================================

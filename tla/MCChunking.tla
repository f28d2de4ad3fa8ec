----------------------------- MODULE MCChunking -----------------------------
EXTENDS Chunking, FiniteSets

CONSTANTS longest  \* seconds of a recording

\* The elements of S in order, those of twice repeated: two silences may share
\* their middle.
Ascending(S, twice) ==
    LET Upto(x) == Cardinality({y \in S : y <= x}) + Cardinality({y \in twice : y <= x})
    IN  [k \in 1 .. Cardinality(S) + Cardinality(twice) |->
            CHOOSE x \in S : k <= Upto(x) /\ \A y \in S : k <= Upto(y) => x <= y]

MCRecordings ==
    UNION {{[total |-> t, cuts |-> Ascending(pauses \cup {t}, pauses \cap twice)] :
               pauses \in SUBSET (1 .. t - 1), twice \in {{}, {2}}} : t \in 1 .. longest}
=============================================================================

---------------------------- MODULE MCProjectDoc ----------------------------
EXTENDS ProjectDoc, TLC

CONSTANTS h1, h2, t1, g1   \* model values: runs

MCKindOf == [r \in Runs |-> CASE r \in {h1, h2} -> "transcribe"
                              [] r = t1 -> "translate"
                              [] r = g1 -> "suggest"]

\* Init chooses a value, so the values are not interchangeable.
Symmetric == UNION {Permutations(s) : s \in {Requests, Lines, Fields, Texts, {h1, h2}}}
=============================================================================

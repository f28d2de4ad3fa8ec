-------------------------- MODULE MCTranscription --------------------------
EXTENDS Transcription

CONSTANTS spoken, small

\* Every span of a chunk that is spoken, or that is too short to be halved.
MCSpoken == {s \in Spans : s[1] \in spoken}
MCShort == {s \in Spans : s[1] \in small}

\* While a run that lost its row goes on beside the one that holds it, both
\* have one chunk on its way, unhalved, at its first try.
Narrow ==
    \/ \A r \in Runs : runs[r].pc \in {"sending", "saving"} => r = holder
    \/ \A r \in Runs :
          /\ Cardinality({c \in Chunks : tasks[r][c].pc \in Inside}) <= 1
          /\ \A c \in Chunks : Len(tasks[r][c].todo) <= 1 /\ tasks[r][c].tries <= 1
=============================================================================

SPECIFICATION Spec
CONSTANTS
    Chunks = {1, 2}
    Runs = {1, 2}
    Alike = {}
    spoken = {1}
    Spoken <- MCSpoken
    Short <- MCShort
    small = {2}
    concurrency = 2
    MAX_ATTEMPTS = 2
    MAX_SPLIT_DEPTH = 1
    Budget = 1
INVARIANTS TypeOK KeptIsNotBoughtAgain PaidAnswersAreKept TranscriptIsWhole
PROPERTY StopsAtTheGate
CONSTRAINT Narrow
CHECK_DEADLOCK FALSE

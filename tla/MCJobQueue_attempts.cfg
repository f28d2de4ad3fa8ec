SPECIFICATION Spec
SYMMETRY Symmetric
CONSTANTS
    Jobs = {1}
    Projects = {p1}
    Kinds = {"transcribe", "export"}
    Digests = {}
    Workers = {w1, w2}
    Slots = {s1}
    Clients = {c1}
    MAX_ATTEMPTS = 3
    Budget <- MCBudget
    crashes = 0
    terms = 1
    stalls = 1
    dberrors = 1
    retries = 1
    cancels = 0
    deletes = 0
INVARIANTS BilledOncePerRequest RunsBounded FencedUntilRetried
PROPERTY SpendsOnlyWhatWasGranted
CHECK_DEADLOCK FALSE

SPECIFICATION Spec
SYMMETRY Symmetric
CONSTANTS
    Jobs = {1, 2}
    Projects = {p1}
    Kinds = {"transcribe", "export"}
    Digests = {d1}
    Workers = {w1}
    Slots = {s1, s2}
    Clients = {c1}
    MAX_ATTEMPTS = 3
    Budget <- MCBudget
    crashes = 0
    terms = 0
    stalls = 0
    dberrors = 0
    retries = 0
    cancels = 1
    deletes = 1
INVARIANT KeyHeldByLiveJob
CHECK_DEADLOCK FALSE

SPECIFICATION Spec
SYMMETRY Symmetric
CONSTANTS
    Jobs = {1}
    Projects = {p1}
    Kinds = {"transcribe"}
    Digests = {}
    Workers = {w1, w2}
    Slots = {s1}
    Clients = {c1}
    MAX_ATTEMPTS = 3
    Budget <- MCBudget
    crashes = 0
    terms = 0
    stalls = 1
    dberrors = 0
    retries = 1
    cancels = 0
    deletes = 0
INVARIANT OneHolder
CHECK_DEADLOCK FALSE

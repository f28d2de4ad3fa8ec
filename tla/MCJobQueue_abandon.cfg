SPECIFICATION Spec
SYMMETRY Symmetric
CONSTANTS
    Jobs = {1}
    Projects = {p1}
    Kinds = {"export"}
    Digests = {}
    Workers = {w1, w2}
    Slots = {s1}
    Clients = {c1}
    MAX_ATTEMPTS = 3
    Budget <- MCBudget
    crashes = 0
    terms = 1
    stalls = 0
    dberrors = 0
    retries = 0
    cancels = 0
    deletes = 0
PROPERTY FinishedJobKeepsItsAnswer
CHECK_DEADLOCK FALSE

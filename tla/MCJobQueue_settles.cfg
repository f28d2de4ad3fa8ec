SPECIFICATION FairSpec
CONSTANTS
    Jobs = {1}
    Projects = {p1}
    Kinds = {"export"}
    Digests = {}
    Workers = {w1, w2}
    Slots = {s1}
    Clients = {c1}
    MAX_ATTEMPTS = 3
    Budget <- MCBudget
    crashes = 1
    terms = 1
    stalls = 1
    dberrors = 1
    retries = 0
    cancels = 0
    deletes = 0
PROPERTY EveryJobSettles
CHECK_DEADLOCK FALSE

SPECIFICATION Spec
SYMMETRY Symmetric
CONSTANTS
    fa = fa
    fb = fb
    fd = fd
    k1 = k1
    k2 = k2
    Files = {fa, fb}
    Keys = {k1}
    KeyOf <- MCKeyOf
    SizeOf <- MCSizeOf
    MULTIPART_MIN = 9
    sizeA = 1
    sizeB = 3
    Parts = {1, 2}
    Uids = {u1, u2, u3}
    Imports = {i1, i2}
    Tabs = {t1, t2}
    first = fa
    Budget <- MCBudget
    picks = 2
    lates = 1
    r2fails = 0
    dies = 0
    unkeys = 0
    deletes = 0
INVARIANT ImportedAsDeclared
CHECK_DEADLOCK FALSE

SPECIFICATION Spec
SYMMETRY Symmetric
CONSTANTS
    fa = fa
    fb = fb
    fd = fd
    k1 = k1
    k2 = k2
    Files = {fa, fb, fd}
    Keys = {k1, k2}
    KeyOf <- MCKeyOf
    SizeOf <- MCSizeOf
    MULTIPART_MIN = 2
    sizeA = 2
    sizeB = 3
    Parts = {1, 2}
    Uids = {u1, u2}
    Imports = {i1, i2}
    Tabs = {t1, t2}
    first = fa
    Budget <- MCBudget
    picks = 2
    lates = 0
    r2fails = 1
    dies = 1
    unkeys = 1
    deletes = 1
INVARIANTS ImportedAsDeclared SourceIsStored NeverStitched
PROPERTY VideoIsKept
CHECK_DEADLOCK FALSE

SPECIFICATION Spec
SYMMETRY Symmetric
CONSTANTS
    h1 = h1
    h2 = h2
    t1 = t1
    g1 = g1
    Requests = {c1, c2}
    Runs = {h1, h2, t1, g1}
    KindOf <- MCKindOf
    Fields = {crf, language}
    Values = {v1, v2}
    Lines = {l1}
    Texts = {said, meant}
INVARIANTS TranslationsFit
PROPERTIES NothingUndone HandWorkStays
CHECK_DEADLOCK FALSE

SPECIFICATION Spec
CONSTANTS
    c1 = c1
    c2 = c2
    k1 = k1
    k2 = k2
    t1 = t1
    t2 = t2
    NoKey = NoKey
    Calls = {c1, c2}
    Keys = {k1, k2}
    Tokens = {t1, t2}
INVARIANTS
    TypeOK
    TokenReleasesOnce
    ReleasedToTokenKey
SYMMETRY Symmetry

SPECIFICATION Spec
CONSTANTS
    c1 = c1
    c2 = c2
    Calls = {c1, c2}
    MaxBlocks = 3
    Environments <- OneOrAllCallers
INVARIANTS
    TypeOK
    ChildCacheSound
    EveryBlockValidates
    ChildScanExact
SYMMETRY Symmetry

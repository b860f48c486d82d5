SPECIFICATION Spec
CONSTANTS
    c1 = c1
    Calls = {c1}
    MaxBlocks = 4
    Environments <- OneCaller
INVARIANTS
    ChildScanListsRoots

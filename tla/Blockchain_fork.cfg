SPECIFICATION Spec
CONSTANTS
    c1 = c1
    c2 = c2
    Calls = {c1, c2}
    MaxBlocks = 3
    Times = {1}
    Options = {"default"}
    Caching = FALSE
INVARIANTS
    NoFork

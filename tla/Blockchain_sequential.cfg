SPECIFICATION Spec
CONSTANTS
    c1 = c1
    Calls = {c1}
    MaxBlocks = 4
    Times = {1, 2}
    Options = {"default"}
    Caching = TRUE
INVARIANTS
    NextCacheExact
    HeadCacheIsLast
    AppendAccepted
PROPERTIES
    HeadOnlyAdvances
    LinearRefinement

SPECIFICATION FairSpec
CONSTANTS
    c1 = c1
    c2 = c2
    Calls = {c1, c2}
    MaxBlocks = 2
    Times = {1}
    Options = {"default", "noValidate", "noCacheRoot", "noCacheNext"}
    Caching = TRUE
INVARIANTS
    NextCacheSound
PROPERTIES
    EveryCallReturns

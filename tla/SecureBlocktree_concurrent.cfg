SPECIFICATION Spec
CONSTANTS
    c1 = c1
    c2 = c2
    k1 = k1
    k2 = k2
    NoKey = NoKey
    Calls = {c1, c2}
    MaxBlocks = 4
    Keys = {k1, k2}
    Types = {"zone", "collection", "key", "options", "record"}
    Grants <- WriteReadRevoke
    Secrets <- NoSecrets
    Nonces = {1}
    Times = {1}
    Forever = 3
INVARIANTS
    TypeOK
    TreeShape
    SignersGranted
SYMMETRY Symmetry

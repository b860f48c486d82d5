SPECIFICATION Spec
CONSTANTS
    c1 = c1
    k1 = k1
    k2 = k2
    NoKey = NoKey
    Calls = {c1}
    MaxBlocks = 5
    Keys = {k1, k2}
    Types = {"zone", "identity", "collection", "key", "secret", "options", "record"}
    Grants <- GrantOrRevoke
    Secrets <- NoSecrets
    Nonces = {1, 2}
    Times = {1, 2}
    Forever = 3
INVARIANTS
    SignersActive
    SingleRoot
    SiblingNoncesDiffer
SYMMETRY Symmetry

SPECIFICATION BuiltSpec
CONSTANTS
    c1 = c1
    k0 = k0
    k1 = k1
    k2 = k2
    NoKey = NoKey
    Calls = {c1}
    MaxBlocks = 8
    Keys = {k0, k1, k2}
    Types = {"key", "collection", "secret"}
    Grants <- GrantOrRevoke
    Secrets <- SomeSecrets
    Nonces = {1}
    Times = {1}
    Forever = 3
INVARIANTS
    KeySeekExact
    SecretSeekExact
    GrantersDerive
PROPERTIES
    EveryCallReturns

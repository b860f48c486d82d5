SPECIFICATION Spec
CONSTANTS
    c1 = c1
    c2 = c2
    Null = Null
    Base = 8
    Int64Size = 3
    HashSize = 2
    IvSize = 2
    AesKeySize = 2
    Calls = {c1, c2}
    Blocks <- AnyBlock
    ValueSize = 64
    MaxKeys = 2
INVARIANTS
    TypeOK
    KeysMatchTable
    ReadBack
    SignaturesVerify
    CutBlocksUnread
PROPERTIES
    ScanIsAtomic
SYMMETRY Symmetry

SPECIFICATION Spec
CONSTANTS
    c1 = c1
    Null = Null
    Base = 8
    Int64Size = 3
    HashSize = 2
    IvSize = 2
    AesKeySize = 2
    Calls = {c1}
    Blocks <- RecordBlocks
    ValueSize = 64
    MaxKeys = 2
INVARIANTS
    RecordsReadBack

SPECIFICATION Spec
CONSTANTS
    U32 = 8
    U16 = 2
    BlkSize = 2
    Lba <- AroundU32
    MaxLen = 2
    Chunk = {0, 1}
    BlkNum = {0, 1}
    MaxWrites = 3
    MaxCrash = 1
INVARIANTS LookupAgrees BlocksAccounted
CHECK_DEADLOCK FALSE

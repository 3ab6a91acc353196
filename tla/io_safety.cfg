SPECIFICATION Spec
CONSTANTS
    MaxLba = 1
    Blk = {b1, b2, b3}
    Writer = {w1, w2}
    Reader = {r1}
    MaxWrites = 3
    MaxCrash = 1
    Faults = {"data", "index", "journal"}
    NoBlk = NoBlk
SYMMETRY Symmetric
CHECK_DEADLOCK FALSE
INVARIANTS IndexBlocksLive IndexBacked RecoveryConsistent WaiterHasEntry
PROPERTIES ImplementsBlockStore

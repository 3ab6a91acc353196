SPECIFICATION Spec
CONSTANTS
    c1 = c1
    c2 = c2
    c3 = c3
    c4 = c4
    c5 = c5
    d1 = d1
    d2 = d2
    None = None
    Chunk = {c1, c2, c3, c4, c5}
    Pdev = {d1, d2}
    pdev_of <- TwoDevices
    Blks = 1
    Ordinal = {0, 1}
    Volume = {v1, v2}
    Sizes = {1, 3}
    InitChunks = 1
    ResizeChunks = 3
    Writer = {w1, w2}
    MaxCrash = 1
SYMMETRY SymmetricOnDevice
INVARIANTS ResizeIsRunning
CHECK_DEADLOCK FALSE

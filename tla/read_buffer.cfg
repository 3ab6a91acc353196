SPECIFICATION Spec
CONSTANTS
    MaxLba = 6
    MaxBlk = 3
    Chunk = {c1, c2}
    U16 = 4
    U32 = 6
SYMMETRY Symmetric
CHECK_DEADLOCK FALSE
INVARIANTS BufferCorrect VerifyExact InBuffer

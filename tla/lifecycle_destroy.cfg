SPECIFICATION Spec
CONSTANTS
    Id = {v1}
    MaxObj = 1
    Ordinal = {n1}
    Creator = {c1}
    Task = {k1, k2}
    Io = {}
    MaxCrash = 0
    Faults = FALSE
INVARIANTS DestroyedOnce
CHECK_DEADLOCK FALSE

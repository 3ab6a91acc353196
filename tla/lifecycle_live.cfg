SPECIFICATION LiveSpec
CONSTANTS
    Id = {v1}
    MaxObj = 2
    Ordinal = {n1}
    Creator = {c1}
    Task = {k1, k2}
    Io = {i1}
    MaxCrash = 1
    Faults = FALSE
PROPERTIES RemovalCompletes ShutdownCompletes
CHECK_DEADLOCK FALSE

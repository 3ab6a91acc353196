SPECIFICATION Spec
CONSTANTS
    Id = {v1, v2}
    MaxObj = 2
    Ordinal = {n1, n2}
    Creator = {c1, c2}
    Task = {k1, k2}
    Io = {}
    MaxCrash = 1
    Faults = TRUE
SYMMETRY Symmetric
INVARIANTS OrdinalsExclusive ChunksOwned RegisteredIsUsable ExistingIsRetrievable RefsCountCreates
 
CHECK_DEADLOCK FALSE

SPECIFICATION Spec
CONSTANTS
    Writer = {w1, w2}
    Block = {b1, b2}
    NoBlock = NoBlock
    NoEntry = NoEntry
    Int64Max = 3
    MaxOooGap = 2
    MaxMissing = 1
    MaxTerm = 1
    MaxFetch = 2
    Serialised = TRUE
VIEW Unreplied
SYMMETRY Symmetric
INVARIANTS TypeOK PresentIsDurable NoGhostTail InFlightAtTerm CommittedPrefixHeld FetchServesHeld
PROPERTIES ImplementsSlotLog AckCoversWrite
CHECK_DEADLOCK FALSE

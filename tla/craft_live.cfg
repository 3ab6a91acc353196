SPECIFICATION RetrySpec
CONSTANTS
    Writer = {w1}
    Block = {b1}
    NoBlock = NoBlock
    NoEntry = NoEntry
    Int64Max = 3
    MaxOooGap = 2
    MaxMissing = 1
    MaxTerm = 1
    MaxFetch = 0
    Serialised = FALSE
INVARIANTS MissingSound JournalBlocksHeld GapFillAdmitted
PROPERTIES MissingDrains WriteReturns
CHECK_DEADLOCK FALSE

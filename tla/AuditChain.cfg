SPECIFICATION Spec
CONSTANTS
    Payloads = {"grant", "deny"}
    Genesis = Genesis
    HashOf <- MCHashOf
    DayLength = 2
    Retention = 4
    VerifyLimit = 2
    Skew = 1
    MaxClock = 8
    MaxEntries = 3
    MaxAlterations = 1
    None = None
INVARIANTS NothingLost ChainVerifies PurgedWasAnchored
PROPERTY AnchorsStand
CHECK_DEADLOCK FALSE

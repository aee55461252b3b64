SPECIFICATION Spec
CONSTANTS
    Payloads = {"grant", "deny"}
    Genesis = Genesis
    HashOf <- MCHashOf
    DayLength = 2
    Retention = 4
    VerifyLimit = 4
    Skew = 1
    MaxClock = 8
    MaxEntries = 4
    MaxAlterations = 0
    None = None
INVARIANTS UntouchedVerifies
CHECK_DEADLOCK FALSE

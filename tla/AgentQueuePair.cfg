SPECIFICATION FairSpec
CONSTANTS
    Sessions = {s1}
    Connections = {c1}
    Items = {1, 2}
    ClaimIds = {k1, k2}
    Tokens = {t1}
    Results = {r1}
    MaxAttempts = 2
    Backoff <- MCBackoff
    LeaseTime = 1
    MaxSkew = 0
    None = None
PROPERTIES EveryItemSettles ImplementsWorkLedger
INVARIANTS ClaimIdNamesOneLease
CHECK_DEADLOCK FALSE

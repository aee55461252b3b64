SPECIFICATION RunnerSpec
CONSTANTS
    Sessions = {s1}
    Connections = {c1}
    Items = {1}
    ClaimIds = {k1}
    Tokens = {t1}
    Results = {r1}
    MaxAttempts = 2
    Backoff <- MCBackoff
    LeaseTime = 1
    MaxSkew = 0
    None = None
PROPERTIES LostLeaseIsReturned
CHECK_DEADLOCK FALSE

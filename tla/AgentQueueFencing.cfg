SPECIFICATION Spec
CONSTANTS
    Sessions = {s1, s2}
    Connections = {c1}
    Items = {1}
    ClaimIds = {k1, k2}
    Tokens = {t1, t2}
    Results = {r1, r2}
    MaxAttempts = 3
    Backoff <- MCBackoff
    LeaseTime = 2
    MaxSkew = 1
    None = None
INVARIANTS ExecutedAtMostOnce AcknowledgedCompletionStands LeaseInvariant
PROPERTIES LeaseHonoured
SYMMETRY FencingSymmetry
CHECK_DEADLOCK FALSE

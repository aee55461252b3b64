SPECIFICATION Spec
CONSTANTS
    Members = {ada, ben}
    Founder = ada
    Delegations = {d1}
    Sessions = {s1, s2}
    StartIds = {b1}
    RotateIds = {c1, c2}
    TokenTtl = 2
    HardTtl = 2
    DelegationTtl = 2
    MaxDelay = 1
    MaxClock = 2
    MaxVersion = 2
    MaxRotations = 1
    None = None
INVARIANTS AuthorityHolds TokenSpentOnce
PROPERTIES ImplementsAuthority
SYMMETRY IdSymmetry
CHECK_DEADLOCK FALSE

SPECIFICATION Spec
CONSTANTS
    Members = {"alice", "bob"}
    Admins = {"bob"}
    Credentials = {"c1", "c2"}
    Budgets <- MCBudgets
    Requester = "alice"
    Tuples = {"inject", "device_proxy"}
    Keys = {"k1", "k2"}
    CardTtl = 1
    GrantTtl = 1
    ProxyTtl = 1
    MaxUses = 2
    None = None
INVARIANTS CustodyHolds GrantsAreCurrent
PROPERTIES AnswersStand UsedOnce

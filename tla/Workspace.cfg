SPECIFICATION Spec
CONSTANTS
    People = {"ann", "bob", "cas"}
    Founder = "ann"
    Invitations = {"i1", "i2"}
    Calls = {x, y}
    None = None
    Scenarios <- MCScenarios
    Codes = {"c1"}
    Connections = {"n1", "n2"}
    TokenCalls = {t1, t2}
    MaxPairs = 3
    Holder = "ann"
    Sessions = {"s1"}
    Devices = {d1, d2}
    Challenges = {"h1"}
    Nonces = {"o1"}
    Digests = {"g1", "g2"}
    AccountCalls = {k1, k2}
    MaxEpoch = 2
    Rooms = {"r1", "r2"}
    Buckets = {"b1"}
    Screens = {"s1", "s2"}
    Writer = "bob"
    Tabs = {"t1"}
    TabOf <- MCTabOf
    Deliveries = {w1, w2}
    Projectors = {e1, e2}
    Buyers = {b1, b2}
    Files = {f1, f2}
    Transfers = {u1, u2}
    PurgeCalls = {p1, p2}
    Collectors = {l1, l2}
INVARIANTS ProjectionIsNewest PlanesAgree AccountsHold NoticesAgree DeliveryHolds BillingHolds StorageHolds TenancyHolds
PROPERTIES ConnectionsStand MembersKeepTheirPlace
CHECK_DEADLOCK FALSE

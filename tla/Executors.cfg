SPECIFICATION Spec
CONSTANTS
    Devices = {"dp", "dq"}
    Procs = {"p1", "p2", "q1"}
    DeviceOf <- MCDeviceOf
    Budgets <- MCBudgets
    MaxEpoch = 2
    None = None
    Agents = {"a1", "a2"}
    Pairs = {"w1", "w2"}
    NoPair = NoPair
    Runs = {"r1"}
    Wakes = {"k1"}
    Events = {"e1", "e2"}
    OwnerCalls = {"c1", "c2"}
    MaxMade = 2
    MaxSessions = 2
    MaxAttempts = 2
    Setups <- MCSetups
    Hosts = {m1, m2}
    Requests = {q1}
    Imports = {i1, i2}
    NoHost = NoHost
    MaxHostEpoch = 2
    MaxRelay = 2
    MaxFrames = 3
    MaxSnapshots = 2
    MaxTicks = 3
    People = {"u", "v"}
    Browsers = {"b1", "b2"}
    Messages = {"m"}
    Cards = {"c"}
    NoBody = NoBody
    PushAttempts = 2
    PushSetups <- MCPushSetups
    Calls = {"t1", "t2", "t3", "t4"}
    WriteRooms = {"ra", "rb"}
    Delegated = {"ra"}
    WriteLimit = 2
    WriteWindow = 2
    ReceiptLife = 2
    Lateness = 1
    WriteSetups <- MCWriteSetups
INVARIANTS RunnersHold RuntimesHold SoloHolds PushesHold
PROPERTIES WorkIsNoticed AgentWritesHold
CHECK_DEADLOCK FALSE

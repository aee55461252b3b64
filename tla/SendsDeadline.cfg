SPECIFICATION SendsSpec
CONSTANTS
    Bodies = {"short", "long"}
    Broadcasts = {}
    SendBatch = 1
    ReceiptTtl = 2
    MaxAhead = 2
    MaxLag = 1
    MaxCrashes = 1
    Null = Null
    Ids = {1, 2}
    Changes = {}
INVARIANTS DeadlineCoversSends

SPECIFICATION FairSends
CONSTANTS
    Bodies = {"short", "long", "room"}
    Broadcasts = {"room"}
    SendBatch = 2
    ReceiptTtl = 2
    MaxAhead = 2
    MaxLag = 1
    MaxCrashes = 1
    Null = Null
    Ids = {1, 2}
    Changes = {"body", "time"}
PROPERTIES OutcomeIsTrue EveryMessageSettles

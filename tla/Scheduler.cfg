SPECIFICATION FairSpec
CONSTANTS
    Recurring = {"sweep"}
    Events = {e1, e2}
    Interval = 3
    DueAttempts = 2
    DueBackoff <- MCDueBackoff
    OutboxAttempts = 2
    OutboxBackoff <- MCOutboxBackoff
    BatchSize = 1
    MaxDelay = 1
    MaxLag = 1
    MaxCrashes = 1
    None = None
INVARIANTS RunInvariant AlarmCoversAll
PROPERTIES NoCatchUpBurst WorkComesRound

CONSTANTS
    Events = {e1}
    Malformed = {}
    Drains = {d1}
    MaxLen = 3
    BatchSize = 2
    MaxLedgerFaults = 1
SPECIFICATION LedgerFairSpec
PROPERTY PendingIsReclaimed

SPECIFICATION RedisSpec
CONSTANTS
    Keys = {k1}
    Requests = {r1, r2}
    Handlers = {h1, h2}
    Edits <- AllEdits
    TTL = 2
    MaxChanges = 1
    Events = {e1, e2}
    Malformed = {e2}
    Drains = {d1, d2}
    MaxLen = 2
    BatchSize = 2
    MaxLedgerFaults = 1
INVARIANT TypeOK
PROPERTIES KillIsFinal RevokedDies ImplementsLease EventuallyDurable

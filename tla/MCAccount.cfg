SPECIFICATION AccountSpec
CONSTANTS
    Connections = {b1, b2}
    Budgets <- MixedBudgets
    Calendar <- TwoPeriods
    MaxCost = 2
    MaxSpend = 5
    MaxDay = 1
    MaxEdits = 1
    MaxFaults = 1
    Events = {e1, e2, e3}
    Malformed = {e3}
    Drains = {d1, d2}
    MaxLen = 2
    BatchSize = 2
    MaxLedgerFaults = 2
    PaidPlans = {"pro", "scale"}
    Hooks = {h1}
    MaxEvents = 5
    MaxHookFaults = 0
    Entries = {a1, a2}
    Wipes = {w1}
    EntryTTL = 1
    MaxHits = 1
INVARIANTS
    AccountTypeOK CountersAddUp BoundedOvershoot
    AckedIsDurable BaselineIsDurable FoldedOnce
    PlanIsPaidFor
    WithdrawnStaysWithdrawn CountsNotDoubled
PROPERTY HardStopIsNeverMasked
CHECK_DEADLOCK FALSE

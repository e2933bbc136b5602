CONSTANTS
    PaidPlans = {"pro", "scale"}
    Hooks = {h1, h2}
    MaxEvents = 3
    MaxHookFaults = 1
SPECIFICATION BillingSpec
INVARIANT PlanFollowsPrice
CHECK_DEADLOCK FALSE

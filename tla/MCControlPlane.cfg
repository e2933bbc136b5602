CONSTANTS
    AuthRequests = {r1, r2}
    MaxTokens = 5
    PaidPlans = {"pro", "scale"}
    Hooks = {h1, h2}
    MaxEvents = 3
    MaxHookFaults = 1
    KeyIds = {k1, k2, k3}
    Forwards = {f1}
    KeyHandlers = {a1, a2}
    KeyTTL = 2
SPECIFICATION ControlPlaneSpec
INVARIANTS
    ControlPlaneTypeOK ForksNeedOverlap AppliedExactlyOnce
    DeletedKeyExpires ActiveKeysBounded
PROPERTIES
    DeadFamilyStaysDead QueueDrains
CHECK_DEADLOCK FALSE

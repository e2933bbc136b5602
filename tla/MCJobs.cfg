SPECIFICATION JobsSpec
CONSTANTS
    Streams = {c1}   MaxEvents = 4   ChunkSize = 2
    WatchTimes = {1, 2, 3, 4}   WatchCosts = {1, 2, 9}   WindowTicks = 1   MinObservations = 2
    ZSquared = 9   MinRate = 2   Scale = 64   MaxWatched = 4
    Entries = {e1}   Wipes = {w1}   EntryTTL = 1   MaxHits = 1
    LedgerRows = {l1, l2}   Rebuilds = {j1, j2}   TicksPerDay = 2   WindowDays = 1
    FirstNow = 2   MaxNow = 4   MaxRebuildFaults = 1
    Models <- ModelNames   PriceTable <- Tariff   PriceUnit = 100   Usages <- SmallUsages
    RangeTicks <- OneRange   DayTicks = 2   MaxTick = 2   MaxRows = 2
    LogIds = {1, 2, 3}   Stamps = {1, 2}   Decisions = {"all", "routed"}   Limit = 1
    AlertTypes = {"spend_spike", "usage_pattern"}   Slots = {s1}   Cooldown = 2   MaxAlertFaults = 1
    WeekTicks = 7   DueTicks = 2   ResendAfter = 6   Weeks = 2   MaxDigestFaults = 1
    Titles = {t1, t2}   RecIds = {r1, r2, r3}   Tabs = {u1}
    Volumes = {0, 3, 4, 5, 8, 9, 10, 11, 12}   TokenPrices = {0, 1, 2, 3}
    StepCosts = {3, 5, 6, 7, 9, 10, 12}   Capacities = {3, 4, 5}   MinMonthlyTokens = 3
INVARIANTS
    JobsTypeOK HistogramNotBehind
    ReportsAgree PagesAreComplete JudgedByThePast SpikesAreSeen StreamsAreFaithful OneDigestAWeek
    BreakEvenIsHonest
PROPERTIES
    NeverForgets RollupCatchesUp IncidentIsHeard DecisionsAreFinal
CHECK_DEADLOCK FALSE

SPECIFICATION UsageReportsSpec
CONSTANTS
    Models <- ModelNames   PriceTable <- Tariff   PriceUnit = 100   Usages <- OneUsage
    RangeTicks <- OneRange   DayTicks = 2   MaxTick = 1   MaxRows = 1
INVARIANT EscalationIsALoss
CHECK_DEADLOCK FALSE

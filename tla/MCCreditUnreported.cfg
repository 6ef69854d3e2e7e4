SPECIFICATION EngineSpec
CONSTANTS
    Profiles <- MCProfiles
    Methods <- MCMethods
    MdrRate <- MCMdrRate
    GstRate = 1800
    WeeklyOffs <- MCWeeklyOffs
    Holidays <- MCHolidays
    WindowStart = 0
    WindowEnd = 20
    SettlementCycle <- MCSettlementCycle
    Fuzzy <- MCFuzzy
    RoundingTolerance = 100
    Utrs <- MCUtrs
    Stem <- MCStem
    CustomerProfile <- MCCustomerProfile
    BatchIds <- MCBatchIds
    CreditIds <- MCCreditIds
    Inputs <- MCInputs
CHECK_DEADLOCK FALSE
INVARIANT EveryCreditReported

SPECIFICATION PipelineSpec
CONSTANTS
    Profiles <- MCProfiles
    Methods <- MCMethods
    MdrRate <- MCMdrRate
    GstRate = 1800
    WeeklyOffs <- MCWeeklyOffs
    Holidays <- MCHolidays
    WindowStart = 3
    WindowEnd = 20
    SettlementCycle <- MCSettlementCycle
    Fuzzy <- MCFuzzy
    RoundingTolerance = 100
    Utrs <- MCUtrs
    Stem <- MCStem
    CustomerProfile <- MCCustomerProfile
    BatchIds <- MCBatchIds
    CreditIds <- MCCreditIds
    Inputs <- MCFiles
    ProfileOrder <- MCProfileOrder
    CustomerId <- MCCustomerId
    Calls <- MCCalls
    UtrOf <- MCUtrOf
    MinUnexplainable = 0
    MinRounding = 0
    CapturedParts = {70}
    SplitParts = {40}
    KeepLengths = {6, 8}
    GarblePositions = {3, 13}
    OrphanParts = {3}
    Residuals <- MCResiduals
    RunDays <- MCRunDays
    VerifierTolerance = 100
    Confidence <- MCConfidence
CHECK_DEADLOCK FALSE
INVARIANTS
    PipelineTypeOK
    CreditSettlesOneBatch
    LinkRestsOnEvidence
    BestClaimStands
    MissingMeansNoCredit
    CleanCaseIsWhole
    OnlyBadLuckRefuses
    FalseMatchesAreSplits
    LinksAreTrue
    ResidualsAreFound
    RowVariancesAreTrue
    HistoriesStay
    ConfirmationsStand
    CopiesAreNamed
    ConfirmedPairsAreOpen
    StaleClaimsAgree

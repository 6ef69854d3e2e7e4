SPECIFICATION BoundedSpec
CONSTANTS
    Exceptions = {x, y}
    Days <- MCDays
    Evidence <- MCEvidence
    Callers <- MCCallers
    NoCall = NoCall
    MaxCrashes = 1
    MaxAudit = 5
    Questions <- MCQuestions
    Nominees = {this, that}
    MaxHypotheses = 2
    MaxRetries = 1
    MaxAttempts = 2
    NoQuestion = NoQuestion
    Sendable = {x, y}
    Groups <- MCGroups
    Posable <- MCQuestions
    RowEvidence = RowEvidence
    NotAsked = NotAsked
    NoStage = NoStage
INVARIANTS
    StageTypeOK
    CallsBounded
    StageNeverRaises
    ReportIsTrue
    BothRowsWritten
PROPERTIES
    OnlyVerifiedConfirms
    StageEnds
CHECK_DEADLOCK FALSE

SPECIFICATION BoundedSpec
CONSTANTS
    Exceptions = {x, y}
    Days <- MCDays
    Evidence <- MCEvidence
    Callers <- MCCallers
    NoCall = NoCall
    MaxCrashes = 1
    MaxAudit = 4
    Questions <- MCQuestions
    Nominees = {this}
    MaxHypotheses = 2
    MaxRetries = 1
    MaxAttempts = 2
    NoQuestion = NoQuestion
    Sendable = {x, y}
    Groups <- MCGroups
    Posable <- MCQuestions
    RowEvidence = RowEvidence
    NotAsked = NotAsked
    NoStage = NoStage
INVARIANT PairsAgree
CHECK_DEADLOCK FALSE

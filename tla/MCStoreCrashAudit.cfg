SPECIFICATION BoundedSpec
CONSTANTS
    Exceptions = {x, y}
    Days <- MCDays
    Evidence = {ev}
    Callers <- MCCallers
    NoCall = NoCall
    MaxAudit = 4
    MaxKeys = 2
    MaxCrashes = 1
SYMMETRY Symmetry
INVARIANT EveryChangeAudited
CHECK_DEADLOCK FALSE

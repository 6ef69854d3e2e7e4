SPECIFICATION BoundedSpec
CONSTANTS
    Exceptions = {x, y}
    Days <- MCDays
    Evidence = {ev}
    Callers <- MCCallers
    NoCall = NoCall
    MaxAudit = 6
    MaxKeys = 2
    MaxCrashes = 1
    Categories = {timing}
    Cleared = Cleared
    Unpostable = Unpostable
    Unreported = Unreported
    Dates = {date}
    NoDocument = NoDocument
    NoExport = NoExport
SYMMETRY Symmetry
INVARIANTS
    TallyTypeOK
    ClosedIsPosted
    PostedIsResolved
    PostedOnce
CHECK_DEADLOCK FALSE

SPECIFICATION BoundedSpec
CONSTANTS
    Exceptions = {x, y}
    Days <- MCDays
    Evidence = {ev}
    Callers <- MCCallers
    NoCall = NoCall
    MaxAudit = 4
    MaxKeys = 2
    MaxCrashes = 0
    Categories = {timing}
    Cleared = Cleared
    Unpostable = Unpostable
    Unreported = Unreported
    Dates = {date}
    NoDocument = NoDocument
    NoExport = NoExport
SYMMETRY Symmetry
PROPERTY RewriteIsIdentical
CHECK_DEADLOCK FALSE

SPECIFICATION DaySpec
CONSTANTS
    h1 = h1
    h2 = h2
    Cases = {}
    Links = {}
    Orphans = {c}
    Exceptions <- MCExceptions
    Days <- MCDays
    Evidence = {ev}
    Callers <- MCCallers
    NoCall = NoCall
    MaxCrashes = 0
    Contents = {h1, h2}
    Delivery <- MCDelivery
    NoArrival = NoArrival
    NoJob = NoJob
PROPERTY StoreHoldsWhatBatchReports

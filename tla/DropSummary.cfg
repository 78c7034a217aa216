SPECIFICATION Spec
CONSTANTS
    Callers = {1, 2}
    Rules <- MCRules
    Batches <- MCBatches
    Missing = 0
    Other = 9
    MaxTracked = 2
    TopValues = 1
    Interval = 2
    MaxRecords = 5
    MaxTime = 4
INVARIANTS
    TypeOK
    EveryDropReported
    SummaryIsTrue
    WindowsFollow
PROPERTIES
    DueWindowIsTaken
CHECK_DEADLOCK FALSE

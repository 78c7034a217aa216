SPECIFICATION FairSpec
CONSTANTS
    s1 = s1
    s2 = s2
    s3 = s3
    Sources = {s1, s2}
    Messages <- MCMessages
    Callers = {c1}
    FlushLoop = FlushLoop
    Stopper = Stopper
    MaxSources = 1
    MaxBatchSize = 2
    GapTimeout = 1
    MaxTimeout = 1
    TickPeriod = 1
    MaxRecords = 3
    MaxCall = 2
    LastArrival = 1
    MaxTime = 3
PROPERTIES
    BufferedLinesLeave
    ImplementsLineGroups

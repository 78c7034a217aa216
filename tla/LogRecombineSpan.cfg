SPECIFICATION Spec
CONSTANTS
    s1 = s1
    s2 = s2
    s3 = s3
    Sources = {s1, s2}
    Messages <- MCMessages
    Callers = {c1}
    FlushLoop = FlushLoop
    Stopper = Stopper
    MaxSources = 2
    MaxBatchSize = 9
    GapTimeout = 1
    MaxTimeout = 2
    TickPeriod = 1
    MaxRecords = 4
    MaxCall = 1
    LastArrival = 3
    MaxTime = 5
INVARIANTS
    SpanWithinTimeout

SPECIFICATION Spec
CONSTANTS
    s1 = s1
    s2 = s2
    s3 = s3
    Sources = {s1, s2, s3}
    Messages <- MCMessages
    Callers = {c1, c2}
    FlushLoop = FlushLoop
    Stopper = Stopper
    MaxSources = 2
    MaxBatchSize = 3
    GapTimeout = 1
    MaxTimeout = 1
    TickPeriod = 1
    MaxRecords = 4
    MaxCall = 2
    LastArrival = 2
    MaxTime = 2
SYMMETRY CallerSymmetry
INVARIANTS
    TypeOK
    NothingVanishes
    NothingTwice
    EntriesAreWellFormed
    EntriesDoNotInterleave
    GapsWithinTimeout
    BuffersBounded
    ShutdownLeavesNothing

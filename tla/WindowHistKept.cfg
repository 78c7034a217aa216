\* series.go:59 says that the kept counter point is the newest one.
SPECIFICATION Spec
CONSTANTS
    counter = counter
    gauge = gauge
    plain = plain
    KeepCounter = TRUE
    Series = {counter}
    Route <- MCRoute
    Stopper = Stopper
    EvictAfter = 2
    Readings = {0, 1}
    Epochs = {0}
    MaxLag = 1
    MaxSamples = 3
    LastSample = 3
    MaxTime = 3
INVARIANTS
    KeptCounterIsNewest
CHECK_DEADLOCK FALSE

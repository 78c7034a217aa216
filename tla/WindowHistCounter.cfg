SPECIFICATION FairSpec
CONSTANTS
    counter = counter
    gauge = gauge
    plain = plain
    KeepCounter = FALSE
    Series = {counter}
    Route <- MCRoute
    Stopper = Stopper
    EvictAfter = 2
    Readings = {0, 1, 2}
    Epochs = {0, 1}
    MaxLag = 1
    MaxSamples = 4
    LastSample = 3
    MaxTime = 4
INVARIANTS
    RatesTelescope
PROPERTIES
    ShutdownEnds
    WindowsClose
CHECK_DEADLOCK FALSE

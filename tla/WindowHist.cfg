SPECIFICATION Spec
CONSTANTS
    counter = counter
    gauge = gauge
    plain = plain
    KeepCounter = FALSE
    Series = {gauge, plain}
    Route <- MCRoute
    Stopper = Stopper
    EvictAfter = 2
    Readings = {0}
    Epochs = {0}
    MaxLag = 2
    MaxSamples = 2
    LastSample = 3
    MaxTime = 5
INVARIANTS
    TypeOK
    SamplesAccounted
    CumulativeIsWhole
    LiveSeriesAreRecent
    PlainIsNewest
    ShutdownLeavesNothing
PROPERTIES
    WindowsMoveForward
    ForwardedInOrder
CHECK_DEADLOCK FALSE

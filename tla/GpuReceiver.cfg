SPECIFICATION Spec
CONSTANTS
    Devices = {0}
    Reads <- MCReads
    EccCalls = {"ECCCorrected"}
    IoCalls = {"PCIeReceive"}
    Rates = {2}
    Interval = 1
    MaxErrors = 2
    MaxTime = 4
INVARIANTS
    TypeOK
    ErrorsNotInvented
    StatusIsHonest
    LibraryIsReleased
PROPERTIES
    ErrorsNeverFall
    IoStepsBounded
    LostIsFinal
CHECK_DEADLOCK FALSE

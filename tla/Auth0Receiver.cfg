SPECIFICATION FairSpec
CONSTANTS
    m1 = m1
    m2 = m2
    bad = bad
    r1 = r1
    r2 = r2
    Messages <- MCMessages
    Valid <- MCValid
    Receivers <- MCReceivers
    MaxNumberOfMessages = 2
    MaxCrashes = 1
INVARIANTS
    TypeOK
PROPERTIES
    ImplementsAtLeastOnce
    ValidMessagesArrive
    ShutdownEnds

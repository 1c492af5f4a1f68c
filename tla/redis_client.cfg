SPECIFICATION FairSpec
CONSTANTS
    MaxSinks = 1
    Closer = {t1}
    Settings <- Switched
    Caller = {c1, c2, c3}
    c1 = c1
    c2 = c2
    c3 = c3
    Kinds <- SomeKinds
    RetryLimits = {0, 1}
    MaxDrivers = 2
    MaxFaults = 1
INVARIANTS
    NoDriverLeaks
    RetriesMaskFaults
    SinksAreAccountedFor
PROPERTIES
    CallsSettle
    
CHECK_DEADLOCK FALSE

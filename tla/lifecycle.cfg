SPECIFICATION FairSpec
CONSTANTS
    Disposer = {d1, d2, d3}
    d1 = d1
    Caller = {c1, c2, c3}
    RegistersBack = {d1}
    ClosesBack = {d1}
    MaxRuns = 2
    NoRun = NoRun
    NoDisposer = NoDisposer
    Crash = Crash
INVARIANTS
    TornDownInReverse
    SettledMeansClosed
PROPERTY
    CloseSettles
CHECK_DEADLOCK FALSE

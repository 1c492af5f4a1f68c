SPECIFICATION Spec
CONSTANTS
    Disposer = {d1, d2, d3}
    d1 = d1
    Caller = {c1, c2}
    RegistersBack = {d1}
    ClosesBack = {}
    MaxRuns = 2
    NoRun = NoRun
    NoDisposer = NoDisposer
    Crash = Crash
INVARIANT
    NothingDropped
CHECK_DEADLOCK FALSE

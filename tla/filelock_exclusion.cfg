CONSTANTS
    Proc = {a1, a2, s1}
    Sync = {s1}
    NoLock = NoLock
    Stale = 2
    MaxFaults = 2
    MaxCalls = 1
SPECIFICATION Spec
SYMMETRY Symmetry
INVARIANTS TypeOK ExclusionUnlessRaced TimeoutMeansBusy

CONSTANTS
    Call = {c1, c2, c3}
    Replica = {r1, r2}
    Intent = {i1, i2}
    Unstated = Unstated
    Runtime = {h1}
    NoRuntime = NoRuntime
    NoLease = NoLease
    Ttl = 1
    MaxClock = 2
    MaxFaults = 1
SPECIFICATION Spec
SYMMETRY Symmetry
INVARIANTS TypeOK AcceptedStands
PROPERTIES ReadyKept

CONSTANTS
    Pid = {p1, p2}
    Label = {cli}
    ReadOnly = {}
    StartTicks = TRUE
    HardLinks = {p1, p2}
    NoHolder = NoHolder
    MaxTries = 1
    MaxCrashes = 1
SPECIFICATION SyncSpec
SYMMETRY Symmetry
INVARIANT SyncMutualExclusion

CONSTANTS
    Pid = {p1, p2, p3}
    Label = {cli}
    ReadOnly = {p3}
    StartTicks = TRUE
    HardLinks = {p1}
    NoHolder = NoHolder
    MaxTries = 1
    MaxCrashes = 1
SPECIFICATION BusySpec
INVARIANTS SyncTypeOK ExclusionUnlessMisfired
PROPERTIES CallsTerminate OrphanReclaimed

CONSTANTS
    Command = {c1, c2}
    NoCommand = NoCommand
    Session = {s1, s2}
    MaxConnections = 2
    MaxInventories = 2
    MaxFaults = 1
SPECIFICATION Spec
SYMMETRY Symmetry
INVARIANTS TypeOK OpenAccounted RefreshAlone CompletedSeen

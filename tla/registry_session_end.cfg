CONSTANTS
    Command = {c1, c2}
    NoCommand = NoCommand
    Session = {s1, s2}
    MaxConnections = 1
    MaxInventories = 2
    MaxFaults = 0
SPECIFICATION Spec
SYMMETRY Symmetry
INVARIANTS SessionEndSettles

CONSTANTS
    Ref = {r1, r2}
    Handle = {h1, h2}
    Command = {c1, c2}
    None = None
    Size = {1, 2}
    TerminalSize = 1
    MaxBrainInFlight = 2
    MaxQueuedEvents = 2
    MaxQueuedBytes = 3
    MaxCompletedCommands = 1
    MaxAccepts = 2
    MaxProposals = 2
    MaxEvents = 2
SPECIFICATION Spec
SYMMETRY Symmetry
INVARIANTS TypeOK MapsAgree SettledOnce MemoryExact StreamIntact

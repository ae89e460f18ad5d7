CONSTANTS
    Parts = 2
    Process = {w1, w2, w3}
    NoOp = NoOp
    MaxRequests = 6
    MaxFaults = 2
SPECIFICATION Spec
SYMMETRY Symmetry
INVARIANTS TypeOK OneObject AnswersHold Recoverable ClaimsSettled CollectedWhole

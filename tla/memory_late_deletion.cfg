CONSTANTS
    Checkout = {a, b}
    Page = {p, q}
    MaxClock = 2
    MaxEvents = 3
SPECIFICATION Spec
SYMMETRY Symmetry
CHECK_DEADLOCK FALSE
INVARIANTS NoLateResurrection

CONSTANTS
    Checkout = {a, b}
    Page = {p, q}
    MaxClock = 2
    MaxEvents = 4
SPECIFICATION Spec
SYMMETRY Symmetry
INVARIANTS TypeOK NoResurrection TombstoneEarned
PROPERTIES FastForwardOnly

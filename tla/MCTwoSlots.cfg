SPECIFICATION Spec
CONSTANTS
    Clients = {c1, c2}
    Pools = {p1, p2}
    Conns = {d1, d2, d3, d4}
    Opener = opener
    None = none
    Refused = refused
    Limit = 2
    OpenerCap = 1
    MaxWaits = 1
    Faults = {"refuse", "close"}
SYMMETRY Symmetry
INVARIANTS
    SlotsCounted OvershootBounded
CHECK_DEADLOCK FALSE

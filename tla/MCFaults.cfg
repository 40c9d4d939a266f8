SPECIFICATION Spec
CONSTANTS
    Clients = {c1, c2}
    Pools = {p1, p2}
    Conns = {d1, d2, d3}
    Opener = opener
    None = none
    Refused = refused
    Limit = 1
    OpenerCap = 1
    MaxWaits = 2
    Faults = {"refuse", "break"}
SYMMETRY Symmetry
INVARIANTS
    TypeOK OneHolder InUseIsBorrowed SlotsCounted RequestOrAnswer QuotaFits
PROPERTIES KeepsLedger
CHECK_DEADLOCK FALSE

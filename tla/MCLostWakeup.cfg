SPECIFICATION FairSpec
CONSTANTS
    Clients = {c1, c2}
    Pools = {p1}
    Conns = {d1, d2, d3}
    Opener = opener
    None = none
    Refused = refused
    Limit = 1
    OpenerCap = 1
    MaxWaits = 2
    Faults = {}
PROPERTIES OperationsEnd
CHECK_DEADLOCK FALSE

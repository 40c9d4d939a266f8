SPECIFICATION FairSpec
CONSTANTS
    Clients = {c1, c2}
    Pools = {p1}
    Conns = {d1, d2}
    Opener = opener
    None = none
    Refused = refused
    Limit = 1
    OpenerCap = 1
    MaxWaits = 1
    Faults = {"close", "expire"}
INVARIANTS
    IdleIsEvictable
   
CHECK_DEADLOCK FALSE

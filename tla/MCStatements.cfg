SPECIFICATION Spec
CONSTANTS
    Users = {u1, u2}
    Conns = {d1, d2}
    None = none
    MaxPrepared = 3
    Attempts = 2
SYMMETRY Symmetry
INVARIANTS UsableWhenUsed NothingLeft StaleBounded ClosedInTime
CHECK_DEADLOCK FALSE

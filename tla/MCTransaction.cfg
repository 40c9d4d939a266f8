SPECIFICATION Spec
CONSTANTS
    Users = {u1, u2}
    Tx = tx
    Rows = {r1, r2}
    Stmts = {s1}
    None = none
    Events = {"endTx", "badConn"}
SYMMETRY Symmetry
INVARIANTS
    TypeOK LocksAccounted AloneAtEnd EndsOnce NoUseAfterRelease
CHECK_DEADLOCK FALSE

SPECIFICATION Spec
CONSTANTS
    Users = {u1, u2}
    Tx = tx
    Rows = {r1}
    Stmts = {s1}
    None = none
    Events = {}
INVARIANTS PreparedAreClosed
CHECK_DEADLOCK FALSE

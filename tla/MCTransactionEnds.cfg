SPECIFICATION FairSpec
CONSTANTS
    Users = {u1, u2}
    Tx = tx
    Rows = {r1}
    Stmts = {}
    None = none
    Events = {"endTx", "endQuery"}
PROPERTIES EndsAtLast RowsEnd
CHECK_DEADLOCK FALSE

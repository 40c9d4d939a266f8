------------------------------ MODULE Statements ------------------------------
(***************************************************************************)
(* A statement prepared on a pool.  It is prepared again on every          *)
(* connection it happens to be executed on, and lists the results in css;  *)
(* connections that were closed meanwhile are removed from the list now    *)
(* and then.  Rows and transactions that use the statement are             *)
(* dependencies: it is closed when the last of them and its own are gone,  *)
(* and on a connection that is in use only when that is returned.          *)
(*                                                                         *)
(* The pool is reduced to its connections: free, in use, or closing.  The  *)
(* goroutines execute and query the statement, adopt it in a transaction   *)
(* and close it; a mutex held over several steps is a variable.            *)
(***************************************************************************)
EXTENDS Naturals, Sequences, FiniteSets

CONSTANTS
    Users,       \* goroutines
    Conns,       \* bound: connections opened
    None,        \* no user, no connection
    MaxPrepared, \* bound: driver statements
    Attempts     \* maxBadConnRetries + 1

ASSUME StatementsAssumption ==
    /\ Conns # {} /\ None \notin Users \cup Conns
    /\ MaxPrepared \in Nat \ {0} /\ Attempts \in Nat \ {0}

VARIABLES
    stmt,   \* Stmt: css, closed, lastNumClosed, users inside closemu, mutex
    dep,    \* ConnPool.dep of the statement
    ds,     \* the driverStmts, in the order they were prepared
    conn,   \* the driverConns and where their Close is
    pool,   \* numClosed and the holder of the pool's mutex
    user    \* the goroutines

vars == <<stmt, dep, ds, conn, pool, user>>

\* What can depend on the statement: itself until it is closed, Rows, a
\* transaction's statement.
Own == <<None, "stmt">>

Set(u, record) == user' = [user EXCEPT ![u] = record]
Go(u, pc) == Set(u, [user[u] EXCEPT !.pc = pc])

\* closeDsLocked: the driver's statement is closed once.
DsClosed(d) ==
    IF d.closed THEN d
    ELSE [d EXCEPT !.closed = TRUE, !.late = conn[d.dc].pc \in {"final", "gone"}]
CloseAll(ids) == [i \in DOMAIN ds |-> IF i \in ids THEN DsClosed(ds[i]) ELSE ds[i]]

Prepared(c) == Append(ds, [dc |-> c, closed |-> FALSE, late |-> FALSE])
CanPrepare == Len(ds) < MaxPrepared
Listed(c) == {d \in stmt.css : ds[d].dc = c}

-----------------------------------------------------------------------------
(* removeClosedStmtLocked *)

Threshold == LET t == Cardinality(stmt.css) \div 2 + 1 IN IF t > 10 THEN 10 ELSE t
SweepDue == pool.numClosed - stmt.lastNumClosed >= Threshold
DbmuClosed(c) == conn[c].pc \in {"listed", "closing", "final", "gone"}

\* Mutant: the entry moved into the place of a removed one is not looked at.
RemainingSkipped ==
    LET stale == {d \in stmt.css : DbmuClosed(ds[d].dc)} IN
    IF Cardinality(stale) < 2 THEN stmt.css \ stale
    ELSE (stmt.css \ stale) \cup {CHOOSE d \in stale : TRUE}
Remaining == {d \in stmt.css : ~DbmuClosed(ds[d].dc)}

\* numClosed was read before, and the statement's mutex is held.
Sweep(u) ==
    /\ user[u].pc = "sweep"
    /\ pool.mu = None
    /\ stmt' = [stmt EXCEPT !.css = Remaining, !.lastNumClosed = user[u].seen,
                            !.mu = IF user[u].tx THEN u ELSE None]
    /\ Go(u, IF user[u].tx THEN "txFind" ELSE "conn")
    /\ UNCHANGED <<dep, ds, conn, pool>>

-----------------------------------------------------------------------------
(* ExecContext, QueryContext *)

StartCall(u) ==
    /\ user[u].pc = "idle" /\ ~user[u].tx
    /\ stmt.writer = None
    /\ stmt' = [stmt EXCEPT !.readers = @ \cup {u}]
    /\ \E op \in {"exec", "query"} : Set(u, [user[u] EXCEPT !.pc = "connStmt", !.op = op, !.attempt = 1])
    /\ UNCHANGED <<dep, ds, conn, pool>>

\* connStmt, before the connection is asked for.
ConnStmt(u) ==
    /\ user[u].pc = "connStmt"
    /\ stmt.mu = None
    /\ IF stmt.closed THEN Go(u, "leave") /\ UNCHANGED stmt
       ELSE IF SweepDue
       THEN /\ Set(u, [user[u] EXCEPT !.pc = "sweep", !.seen = pool.numClosed])
            /\ stmt' = [stmt EXCEPT !.mu = u]
       ELSE Go(u, "conn") /\ UNCHANGED stmt
    /\ UNCHANGED <<dep, ds, conn, pool>>

\* conn: a free connection or, the last time always, a new one.
Take(u, pc, tx, new) ==
    /\ pool.mu = None
    /\ \E c \in Conns :
          /\ conn[c].pc \in (IF new THEN {} ELSE {"open"}) \cup {"none"}
          /\ ~conn[c].inUse
          /\ conn' = [conn EXCEPT ![c].pc = "open", ![c].inUse = TRUE]
          /\ Set(u, [user[u] EXCEPT !.pc = pc, !.dc = c, !.tx = tx])
    /\ UNCHANGED <<stmt, dep, ds, pool>>

GetConn(u) == user[u].pc = "conn" /\ Take(u, "find", FALSE, user[u].attempt = Attempts)

NoConn(u) ==
    /\ user[u].pc = "conn"
    /\ Go(u, "leave")
    /\ UNCHANGED <<stmt, dep, ds, conn, pool>>

Find(u) ==
    /\ user[u].pc = "find"
    /\ stmt.mu = None
    /\ IF Listed(user[u].dc) = {} THEN Go(u, "prepare")
       ELSE \E d \in Listed(user[u].dc) : Set(u, [user[u] EXCEPT !.pc = "run", !.ds = d])
    /\ UNCHANGED <<stmt, dep, ds, conn, pool>>

\* prepareOnConnLocked: prepared, kept with the connection and listed.
PrepareOnConn(u, next) ==
    LET c == user[u].dc
        d == Len(ds) + 1
    IN /\ CanPrepare
       /\ ds' = Prepared(c)
       /\ conn' = [conn EXCEPT ![c].openStmt = @ \cup {d}]
       /\ stmt' = [stmt EXCEPT !.css = @ \cup {d}]
       /\ Set(u, [user[u] EXCEPT !.pc = next, !.ds = d])
       /\ UNCHANGED <<dep, pool>>

Prepare(u) ==
    /\ user[u].pc = "prepare"
    /\ stmt.mu = None
    /\ \/ PrepareOnConn(u, "run")
       \/ /\ \E bad \in BOOLEAN : Set(u, [user[u] EXCEPT !.pc = "put", !.bad = bad])
          /\ UNCHANGED <<stmt, dep, ds, conn, pool>>

\* The statement is executed.  Rows become a dependency before closemu is left.
Run(u) ==
    /\ user[u].pc = "run"
    /\ \/ /\ \E bad \in BOOLEAN : Set(u, [user[u] EXCEPT !.pc = "put", !.bad = bad])
          /\ UNCHANGED <<stmt, dep>>
       \/ /\ user[u].op = "query"
          /\ pool.mu = None
          /\ dep' = dep \cup {<<u, "rows">>}
          /\ stmt' = [stmt EXCEPT !.readers = @ \ {u}]
          /\ Set(u, [user[u] EXCEPT !.pc = "rows", !.op = "rows"])
    /\ UNCHANGED <<ds, conn, pool>>

CloseRows(u) ==
    /\ user[u].pc = "rows"
    /\ \E bad \in BOOLEAN : Set(u, [user[u] EXCEPT !.pc = "put", !.bad = bad])
    /\ UNCHANGED <<stmt, dep, ds, conn, pool>>

\* After the connection was returned: another attempt, or the end.
AfterPut(u) ==
    LET again == user[u].op \in {"exec", "query"} /\ user[u].bad /\ user[u].attempt < Attempts
    IN [user[u] EXCEPT !.pc = CASE again -> "connStmt"
                                [] user[u].op = "rows" -> "undep"
                                [] user[u].op = "commit" -> "idle"
                                [] OTHER -> "leave",
                       !.attempt = IF again THEN @ + 1 ELSE @,
                       !.dc = None, !.bad = FALSE, !.tx = FALSE]

\* putConn: what was put off until now is closed, with the pool's mutex held.
Put(u) ==
    /\ user[u].pc = "put"
    /\ pool.mu = None
    /\ LET c == user[u].dc IN
       /\ ds' = CloseAll(conn[c].onPut)
       /\ conn' = [conn EXCEPT ![c].inUse = FALSE, ![c].onPut = {},
                               ![c].pc = IF user[u].bad THEN "closed" ELSE @]
    /\ IF user[u].bad THEN Go(u, "closing") ELSE Set(u, AfterPut(u))
    /\ UNCHANGED <<stmt, dep, pool>>

PutBad(u) ==
    /\ user[u].pc = "closing"
    /\ conn[user[u].dc].pc = "gone"
    /\ Set(u, AfterPut(u))
    /\ UNCHANGED <<stmt, dep, ds, conn, pool>>

Leave(u) ==
    /\ user[u].pc = "leave"
    /\ stmt' = [stmt EXCEPT !.readers = @ \ {u}]
    /\ Go(u, "idle")
    /\ UNCHANGED <<dep, ds, conn, pool>>

-----------------------------------------------------------------------------
(* The Close of a connection, by its last user, or by the cleaner when it is *)
(* free.                                                                     *)

Expire(c) ==
    /\ conn[c].pc = "open" /\ ~conn[c].inUse
    /\ pool.mu = None
    /\ conn' = [conn EXCEPT ![c].pc = "closed"]
    /\ UNCHANGED <<stmt, dep, ds, pool, user>>

\* dbmuClosed is set with the pool's mutex held.
MarkClosed(c) ==
    /\ conn[c].pc = "closed"
    /\ pool.mu = None
    /\ conn' = [conn EXCEPT ![c].pc = "listed"]
    /\ UNCHANGED <<stmt, dep, ds, pool, user>>

\* finalClose: a copy of the open statements, which are closed one by one.
ListOpen(c) ==
    /\ conn[c].pc = "listed"
    /\ conn' = [conn EXCEPT ![c].pc = "closing", ![c].todo = conn[c].openStmt, ![c].openStmt = {}]
    /\ UNCHANGED <<stmt, dep, ds, pool, user>>

CloseOpen(c) ==
    /\ conn[c].pc = "closing"
    /\ \E d \in conn[c].todo :
          /\ ds' = CloseAll({d})
          /\ conn' = [conn EXCEPT ![c].todo = @ \ {d}]
    /\ UNCHANGED <<stmt, dep, pool, user>>

FinalClosed(c) ==
    /\ conn[c].pc = "closing" /\ conn[c].todo = {}
    /\ conn' = [conn EXCEPT ![c].pc = "final"]
    /\ UNCHANGED <<stmt, dep, ds, pool, user>>

CountClosed(c) ==
    /\ conn[c].pc = "final"
    /\ conn' = [conn EXCEPT ![c].pc = "gone"]
    /\ pool' = [pool EXCEPT !.numClosed = @ + 1]
    /\ UNCHANGED <<stmt, dep, ds, user>>

ConnStep(c) ==
    Expire(c) \/ MarkClosed(c) \/ ListOpen(c) \/ CloseOpen(c) \/ FinalClosed(c) \/ CountClosed(c)

-----------------------------------------------------------------------------
(* Closing the statement *)

StartClose(u) ==
    /\ user[u].pc = "idle"
    /\ stmt.writer = None /\ stmt.readers = {}
    /\ stmt' = [stmt EXCEPT !.writer = u]
    /\ Set(u, [user[u] EXCEPT !.pc = "close", !.op = "close"])
    /\ UNCHANGED <<dep, ds, conn, pool>>

\* Mutant: a statement that was closed is closed again.
CloseStmtAgain(u) ==
    /\ user[u].pc = "close"
    /\ stmt.mu = None
    /\ stmt' = [stmt EXCEPT !.closed = TRUE]
    /\ Go(u, "undep")
    /\ UNCHANGED <<dep, ds, conn, pool>>

CloseStmt(u) ==
    /\ user[u].pc = "close"
    /\ stmt.mu = None
    /\ IF stmt.closed
       THEN /\ stmt' = [stmt EXCEPT !.writer = None]
            /\ Go(u, "idle")
       ELSE /\ stmt' = [stmt EXCEPT !.closed = TRUE]
            /\ Go(u, "undep")
    /\ UNCHANGED <<dep, ds, conn, pool>>

Token(u) ==
    CASE user[u].op = "close" -> Own
      [] user[u].op = "rows" -> <<u, "rows">>
      [] OTHER -> <<user[u].dc, "tx">>

\* What follows the removal of a dependency, and the final close it may lead to.
Done(u) ==
    [user[u] EXCEPT !.pc = IF user[u].op = "commit" THEN "put" ELSE "idle",
                    !.ds = 0,
                    !.txs = IF user[u].op = "close" THEN @ ELSE "none",
                    !.txds = IF user[u].op = "close" THEN @ ELSE 0]
Released(u) == IF stmt.writer = u THEN None ELSE stmt.writer

\* removeDep: one that is missing is a panic.
Undep(u) ==
    /\ user[u].pc = "undep"
    /\ pool.mu = None
    /\ IF Token(u) \notin dep THEN Go(u, "panic") /\ UNCHANGED <<stmt, dep>>
       ELSE /\ dep' = dep \ {Token(u)}
            /\ IF dep' = {} THEN Go(u, "final") /\ UNCHANGED stmt
               ELSE /\ Set(u, Done(u))
                    /\ stmt' = [stmt EXCEPT !.writer = Released(u)]
    /\ UNCHANGED <<ds, conn, pool>>

FinalClose(u) ==
    /\ user[u].pc = "final"
    /\ stmt.mu = None
    /\ stmt' = [stmt EXCEPT !.mu = u]
    /\ Set(u, [user[u] EXCEPT !.pc = "unused", !.todo = stmt.css])
    /\ UNCHANGED <<dep, ds, conn, pool>>

\* Mutants: the connection may be in use, or is left to others if it is.
UnusedAtOnce(c, d) == pool.mu = None /\ conn[c].pc \notin {"final", "gone"}
PutOffNever(c, d) == conn
\* noteUnusedDriverStatement closes at once what is on an idle connection, with
\* the pool's mutex held, and puts off the others.
CloseNow(c, d) == ~conn[c].inUse /\ conn[c].pc \notin {"final", "gone"}
PutOff(c, d) == IF conn[c].inUse THEN [conn EXCEPT ![c].onPut = @ \cup {d}] ELSE conn

NoteUnused(u) ==
    /\ user[u].pc = "unused"
    /\ pool.mu = None
    /\ \E d \in user[u].todo :
          LET c == ds[d].dc IN
          IF CloseNow(c, d)
          THEN /\ pool' = [pool EXCEPT !.mu = u]
               /\ Set(u, [user[u] EXCEPT !.pc = "closeDs", !.ds = d])
               /\ UNCHANGED conn
          ELSE /\ conn' = PutOff(c, d)
               /\ Set(u, [user[u] EXCEPT !.pc = "removeOpen", !.ds = d])
               /\ UNCHANGED pool
    /\ UNCHANGED <<stmt, dep, ds>>

CloseDs(u) ==
    /\ user[u].pc = "closeDs"
    /\ ds' = CloseAll({user[u].ds})
    /\ pool' = [pool EXCEPT !.mu = None]
    /\ Go(u, "removeOpen")
    /\ UNCHANGED <<stmt, dep, conn>>

RemoveOpenStmt(u) ==
    /\ user[u].pc = "removeOpen"
    /\ LET d == user[u].ds IN
       /\ conn' = [conn EXCEPT ![ds[d].dc].openStmt = @ \ {d}]
       /\ Set(u, [user[u] EXCEPT !.pc = "unused", !.todo = @ \ {d}])
    /\ UNCHANGED <<stmt, dep, ds, pool>>

AllUnused(u) ==
    /\ user[u].pc = "unused" /\ user[u].todo = {}
    /\ stmt' = [stmt EXCEPT !.css = {}, !.mu = None, !.writer = Released(u)]
    /\ Set(u, Done(u))
    /\ UNCHANGED <<dep, ds, conn, pool>>

-----------------------------------------------------------------------------
(* Transactions that adopt the statement *)

Begin(u) == user[u].pc = "idle" /\ ~user[u].tx /\ Take(u, "idle", TRUE, FALSE)

\* Tx.StmtContext: a closed statement is prepared for the transaction alone.
StmtContext(u) ==
    /\ user[u].pc = "idle" /\ user[u].tx /\ user[u].txs = "none"
    /\ stmt.mu = None
    /\ IF stmt.closed THEN Go(u, "txPrepare") /\ UNCHANGED stmt
       ELSE /\ Set(u, [user[u] EXCEPT !.pc = IF SweepDue THEN "sweep" ELSE "txFind",
                                      !.seen = pool.numClosed])
            /\ stmt' = [stmt EXCEPT !.mu = u]
    /\ UNCHANGED <<dep, ds, conn, pool>>

TxFind(u) ==
    /\ user[u].pc = "txFind"
    /\ stmt' = [stmt EXCEPT !.mu = None]
    /\ IF Listed(user[u].dc) = {} THEN Go(u, "txShare")
       ELSE \E d \in Listed(user[u].dc) : Set(u, [user[u] EXCEPT !.pc = "txDep", !.ds = d])
    /\ UNCHANGED <<dep, ds, conn, pool>>

TxShare(u) ==
    /\ user[u].pc = "txShare"
    /\ stmt.mu = None
    /\ \/ PrepareOnConn(u, "txDep")
       \/ Go(u, "idle") /\ UNCHANGED <<stmt, dep, ds, conn, pool>>

TxPrepare(u) ==
    /\ user[u].pc = "txPrepare"
    /\ \/ /\ CanPrepare
          /\ ds' = Prepared(user[u].dc)
          /\ Set(u, [user[u] EXCEPT !.pc = "idle", !.txds = Len(ds) + 1, !.txs = "own"])
       \/ Go(u, "idle") /\ UNCHANGED ds
    /\ UNCHANGED <<stmt, dep, conn, pool>>

TxDep(u) ==
    /\ user[u].pc = "txDep"
    /\ pool.mu = None
    /\ dep' = dep \cup {<<user[u].dc, "tx">>}
    /\ Set(u, [user[u] EXCEPT !.pc = "idle", !.txds = user[u].ds, !.txs = "parent"])
    /\ UNCHANGED <<stmt, ds, conn, pool>>

\* The transaction's statement is closed: one of the pool's only loses a dependency.
TxClose(u) ==
    /\ user[u].pc = "idle" /\ user[u].txs # "none"
    /\ IF user[u].txs = "parent" THEN Set(u, [user[u] EXCEPT !.op = "txClose", !.pc = "undep"]) /\ UNCHANGED ds
       ELSE /\ Set(u, [user[u] EXCEPT !.txs = "none", !.txds = 0])
            /\ ds' = CloseAll({user[u].txds})
    /\ UNCHANGED <<stmt, dep, conn, pool>>

\* Commit, Rollback: after ErrBadConn the transaction's statement is not closed,
\* otherwise it is, before the connection is returned or, by a rollback, given up.
TxEnd(u) ==
    /\ user[u].pc = "idle" /\ user[u].tx
    /\ \E bad \in BOOLEAN, errBadConn \in BOOLEAN :
          LET v == [user[u] EXCEPT !.op = "commit", !.bad = bad]
              unclosed == [v EXCEPT !.pc = "put", !.txs = "none", !.txds = 0]
          IN /\ errBadConn => bad
             /\ IF user[u].txs = "parent" /\ ~errBadConn THEN Set(u, [v EXCEPT !.pc = "undep"]) /\ UNCHANGED ds
                ELSE /\ Set(u, unclosed)
                     /\ ds' = IF user[u].txs = "own" /\ ~errBadConn THEN CloseAll({user[u].txds}) ELSE ds
    /\ UNCHANGED <<stmt, dep, conn, pool>>

-----------------------------------------------------------------------------
\* The statement has been prepared by prepareDC, on a connection that is free.
Init ==
    /\ \E c \in Conns :
          /\ conn = [x \in Conns |-> [pc |-> IF x = c THEN "open" ELSE "none", inUse |-> FALSE, onPut |-> {},
                                      openStmt |-> IF x = c THEN {1} ELSE {}, todo |-> {}]]
          /\ ds = <<[dc |-> c, closed |-> FALSE, late |-> FALSE]>>
    /\ stmt = [css |-> {1}, closed |-> FALSE, lastNumClosed |-> 0, readers |-> {}, writer |-> None, mu |-> None]
    /\ dep = {Own}
    /\ pool = [numClosed |-> 0, mu |-> None]
    /\ user = [u \in Users |-> [pc |-> "idle", op |-> "exec", dc |-> None, ds |-> 0, attempt |-> 0, bad |-> FALSE,
                                seen |-> 0, todo |-> {}, tx |-> FALSE, txs |-> "none", txds |-> 0]]

CallStep(u) ==
    \/ StartCall(u) \/ ConnStmt(u) \/ Sweep(u) \/ GetConn(u) \/ NoConn(u) \/ Find(u)
    \/ Prepare(u) \/ Run(u) \/ CloseRows(u) \/ Put(u) \/ PutBad(u) \/ Leave(u)
CloseStep(u) ==
    \/ StartClose(u) \/ CloseStmt(u) \/ Undep(u) \/ FinalClose(u)
    \/ NoteUnused(u) \/ CloseDs(u) \/ RemoveOpenStmt(u) \/ AllUnused(u)
TxStep(u) ==
    Begin(u) \/ StmtContext(u) \/ TxFind(u) \/ TxShare(u) \/ TxPrepare(u) \/ TxDep(u) \/ TxClose(u) \/ TxEnd(u)

Next == (\E u \in Users : CallStep(u) \/ CloseStep(u) \/ TxStep(u)) \/ (\E c \in Conns : ConnStep(c))

Spec == Init /\ [][Next]_vars

-----------------------------------------------------------------------------
\* A statement that is executed, whose rows are read, or that a transaction has
\* adopted, is open, and was prepared on the connection that is used.
UsableWhenUsed ==
    \A u \in Users :
        LET uses == (IF user[u].pc \in {"run", "rows"} THEN {user[u].ds} ELSE {})
                    \cup (IF user[u].txs # "none" /\ user[u].pc = "idle" THEN {user[u].txds} ELSE {})
        IN \A d \in uses : /\ ds[d].dc = user[u].dc
                           /\ ~ds[d].closed
                           /\ conn[user[u].dc].pc = "open"

\* Once the statement is closed and nothing uses it, it depends on no more than
\* transactions that ended with ErrBadConn, and if there are none, it has no driver
\* statement left open on a connection, whichever of them prepared or closed it last.
NothingLeft ==
    stmt.closed /\ (\A u \in Users : user[u].pc = "idle" /\ ~user[u].tx) =>
        /\ \A x \in dep : x[2] = "tx" /\ conn[x[1]].pc # "open"
        /\ dep = {} => /\ stmt.css = {}
                      /\ \A d \in DOMAIN ds : ds[d].closed \/ conn[ds[d].dc].pc # "open"

\* Of the connections in css that are closed for good, no more are left in it than
\* were counted since the list was last swept.
StaleBounded ==
    Cardinality({c \in Conns : conn[c].pc = "gone" /\ Listed(c) # {}})
        <= pool.numClosed - stmt.lastNumClosed

\* A driver statement is not closed after its connection was, and a dependency
\* is removed only once.
ClosedInTime ==
    /\ \A d \in DOMAIN ds : ~ds[d].late
    /\ \A u \in Users : user[u].pc # "panic"
=============================================================================

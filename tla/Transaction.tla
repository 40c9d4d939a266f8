---------------------------- MODULE Transaction ----------------------------
(***************************************************************************)
(* One transaction (Tx) on one connection: goroutines that query, execute, *)
(* prepare, read rows and commit or roll back; the goroutine awaitDone of  *)
(* the transaction, and one awaitDone for every Rows that was opened.      *)
(*                                                                         *)
(* Mutexes.  Tx.closemu, Rows.closemu and Stmt.closemu are RWMutexes:      *)
(* Lock() first keeps new readers out and then waits for those inside.     *)
(* dcLock is the mutex of the driverConn, held around every driver call.   *)
(* A goroutine at one of DriverLabels is about to call the driver, and is  *)
(* in the call when it holds dcLock.  Stmt.mu and the unlocking of a mutex *)
(* are part of the step they belong to.                                    *)
(***************************************************************************)
EXTENDS Integers, FiniteSets

CONSTANTS
    Users,    \* goroutines that use the transaction
    Tx,       \* the transaction; also names its goroutine awaitDone
    Rows,     \* Rows that may be opened; each also names its awaitDone
    Stmts,    \* statements that may be prepared
    None,     \* nothing, an unlocked mutex
    Events    \* which of AllEvents the environment may produce

AllEvents == {"endTx",     \* the context given to BeginTx ends
              "endQuery",  \* the context given to a query ends
              "badConn"}   \* COMMIT or ROLLBACK returns ErrBadConn

ASSUME NamesAssumption ==
    /\ Tx \notin Users \cup Rows \cup Stmts
    /\ Users \cap Rows = {} /\ Users \cap Stmts = {} /\ Rows \cap Stmts = {}
    /\ None \notin Users \cup Rows \cup Stmts \cup {Tx}
ASSUME FiniteNames == IsFiniteSet(Users) /\ IsFiniteSet(Rows)
ASSUME EventsAssumption == Events \subseteq AllEvents

\* A statement is tried again as often after ErrBadConn.
maxBadConnRetries == 2

Procs    == Users \cup Rows \cup {Tx}
Closemus == {Tx} \cup Rows \cup Stmts

VARIABLES
    pc,           \* where each goroutine is
    task,         \* what a user does with the connection, or ends it with
    target,       \* the Rows or Stmt a goroutine works on
    via,          \* the statement a user executes, or None
    again,        \* users: how often the driver had to be asked again
    readers,      \* readers of each closemu
    writer,       \* who locks each closemu or waits for its readers, or None
    dcLock,       \* holder of the driverConn's mutex, or None
    stmtsLock,    \* holder of tx.stmts, or None
    done,         \* tx.done
    txCancelled,  \* tx.ctx is done
    rowsState,    \* "new", "open", "closed"
    rowsDone,     \* the context of the Rows' awaitDone is done
    ownStmt,      \* Rows.closeStmt is set
    stmtState,    \* "new", "open", "closed"
    listed,       \* tx.stmts.v
    todo,         \* statements closePrepared still has to close
    outcome,      \* "none", "commit" or "rollback": what was sent
    bad,          \* ... and it returned ErrBadConn
    releases      \* calls of tx.releaseConn

locals     == <<task, target, via, again>>
closemu    == <<readers, writer>>
ending     == <<done, txCancelled>>
result     == <<outcome, bad, releases>>
rows       == <<rowsState, rowsDone, ownStmt>>
statements == <<stmtState, listed, todo>>
vars == <<pc, locals, closemu, dcLock, stmtsLock, ending, rows, statements,
          result>>

\* The state beginDC leaves: a transaction is open, its awaitDone started.
Init ==
    /\ pc = [x \in Procs |-> IF x \in Users THEN "idle"
                             ELSE IF x \in Rows THEN "unborn" ELSE "awaitTx"]
    /\ task = [x \in Procs |-> "rollback"]
    /\ target = [x \in Procs |-> None]
    /\ via = [u \in Users |-> None] /\ again = [u \in Users |-> 0]
    /\ readers = [k \in Closemus |-> 0]
    /\ writer = [k \in Closemus |-> None]
    /\ dcLock = None /\ stmtsLock = None
    /\ done = FALSE /\ txCancelled = FALSE
    /\ rowsState = [r \in Rows |-> "new"]
    /\ rowsDone = [r \in Rows |-> FALSE]
    /\ ownStmt = [r \in Rows |-> FALSE]
    /\ stmtState = [s \in Stmts |-> "new"] /\ listed = {} /\ todo = {}
    /\ outcome = "none" /\ bad = FALSE /\ releases = 0

Goto(x, label) == pc' = [pc EXCEPT ![x] = label]

\* A goroutine's work is done, and its locals are gone; a user may do something
\* else.
Finish(x) ==
    /\ Goto(x, IF x \in Users THEN "idle" ELSE "gone")
    /\ task' = [task EXCEPT ![x] = "rollback"]
    /\ target' = [target EXCEPT ![x] = None]

RLocked(k)  == [readers EXCEPT ![k] = @ + 1]
RUnlocked(K) == [k \in Closemus |-> readers[k] - (IF k \in K THEN 1 ELSE 0)]
Locked(x, k) == [writer EXCEPT ![k] = x]
Unlocked(k)  == [writer EXCEPT ![k] = None]

-----------------------------------------------------------------------------
(* Driver calls. *)

DriverLabels == {"call", "read", "rowsClose", "rowsStmt", "end", "stmtClose"}

InDriver(x, label) == dcLock = x /\ pc[x] = label

EnterDriver(x) ==
    /\ pc[x] \in DriverLabels /\ dcLock = None
    /\ dcLock' = x
    /\ UNCHANGED <<pc, locals, closemu, stmtsLock, ending, rows, statements,
                   result>>

-----------------------------------------------------------------------------
(* Tx.ExecContext, Tx.QueryContext, Tx.PrepareContext, and the same through a  *)
(* statement of the transaction: grabConn, the call, and the release.          *)

StartTask(u) ==
    /\ pc[u] = "idle"
    /\ \E t \in {"exec", "query", "prepare"} : task' = [task EXCEPT ![u] = t]
    /\ Goto(u, "grab")
    /\ UNCHANGED <<target, via, again, closemu, dcLock, stmtsLock, ending,
                   rows, statements, result>>

\* Stmt.ExecContext and Stmt.QueryContext hold the statement's closemu to the
\* end.  A closed statement is an error and changes nothing.
StartStmt(u) ==
    /\ pc[u] = "idle"
    /\ \E s \in listed, t \in {"exec", "query"} :
          /\ stmtState[s] = "open" /\ writer[s] = None
          /\ readers' = RLocked(s)
          /\ via' = [via EXCEPT ![u] = s]
          /\ task' = [task EXCEPT ![u] = t]
    /\ Goto(u, "grab")
    /\ UNCHANGED <<target, again, writer, dcLock, stmtsLock, ending, rows,
                   statements, result>>

\* The user's call returns; K are the closemus it still holds.
Return(u, K) ==
    /\ readers' = RUnlocked(K \cup ({via[u]} \ {None}))
    /\ via' = [via EXCEPT ![u] = None]
    /\ again' = [again EXCEPT ![u] = 0]
    /\ task' = [task EXCEPT ![u] = "rollback"]

GrabConn(u) ==
    /\ pc[u] = "grab" /\ writer[Tx] = None
    /\ readers' = RLocked(Tx)
    /\ Goto(u, "granted")
    /\ UNCHANGED <<locals, writer, dcLock, stmtsLock, ending, rows, statements,
                   result>>

\* The context given to the query was done.
GrabTooLate(u) ==
    /\ pc[u] = "grab" /\ "endQuery" \in Events
    /\ Return(u, {}) /\ Goto(u, "idle")
    /\ UNCHANGED <<target, writer, dcLock, stmtsLock, ending, rows,
                   statements, result>>

\* Mutation: the transaction is not looked at again.
CheckDoneForgotten(u) ==
    /\ pc[u] = "granted"
    /\ Goto(u, "call")
    /\ UNCHANGED <<locals, closemu, dcLock, stmtsLock, ending, rows, statements,
                   result>>

\* isDone is only looked at once closemu is read-locked.
CheckDone(u) ==
    /\ pc[u] = "granted"
    /\ IF done THEN Return(u, {Tx}) /\ Goto(u, "idle")
               ELSE Goto(u, "call") /\ UNCHANGED <<readers, task, via, again>>
    /\ UNCHANGED <<target, writer, dcLock, stmtsLock, ending, rows,
                   statements, result>>

\* The execution is over, or the query or the preparation failed: the release
\* function unlocks closemu.
CallEnds(u) ==
    /\ InDriver(u, "call")
    /\ dcLock' = None
    /\ Return(u, {Tx}) /\ Goto(u, "idle")
    /\ UNCHANGED <<target, writer, stmtsLock, ending, rows, statements,
                   result>>

\* ErrSkip: execDC and queryDC prepare a statement of their own, in another
\* critical section of the connection.
CallSkipped(u) ==
    /\ InDriver(u, "call") /\ task[u] \in {"exec", "query"}
    /\ via[u] = None /\ again[u] = 0
    /\ dcLock' = None
    /\ again' = [again EXCEPT ![u] = 1]
    /\ UNCHANGED <<pc, task, target, via, closemu, stmtsLock, ending, rows,
                   statements, result>>

\* ErrBadConn through a statement: the connection is released and grabbed again.
RetryStmt(u) ==
    /\ InDriver(u, "call") /\ via[u] # None /\ again[u] < maxBadConnRetries
    /\ dcLock' = None
    /\ readers' = RUnlocked({Tx})
    /\ again' = [again EXCEPT ![u] = @ + 1]
    /\ Goto(u, "grab")
    /\ UNCHANGED <<task, target, via, writer, stmtsLock, ending, rows,
                   statements, result>>

\* The connection passes to the Rows, and with it the read lock of tx.closemu;
\* initContextClose starts the Rows' awaitDone.
QueryOpens(u) ==
    /\ InDriver(u, "call") /\ task[u] = "query"
    /\ dcLock' = None
    /\ \E r \in Rows :
          /\ rowsState[r] = "new"
          /\ rowsState' = [rowsState EXCEPT ![r] = "open"]
          /\ ownStmt' = [ownStmt EXCEPT ![r] = via[u] = None /\ again[u] > 0]
          /\ pc' = [pc EXCEPT ![u] = "idle", ![r] = "awaitRows"]
    /\ Return(u, {})
    /\ UNCHANGED <<target, writer, stmtsLock, ending, rowsDone,
                   statements, result>>

\* prepareDC releases the connection before PrepareContext lists the statement.
Prepared(u) ==
    /\ InDriver(u, "call") /\ task[u] = "prepare"
    /\ dcLock' = None
    /\ \E s \in Stmts :
          /\ stmtState[s] = "new"
          /\ stmtState' = [stmtState EXCEPT ![s] = "open"]
          /\ target' = [target EXCEPT ![u] = s]
    /\ Return(u, {Tx}) /\ Goto(u, "list")
    /\ UNCHANGED <<writer, stmtsLock, ending, rows, listed, todo, result>>

ListStmt(u) ==
    /\ pc[u] = "list" /\ stmtsLock = None
    /\ listed' = listed \cup {target[u]}
    /\ Finish(u)
    /\ UNCHANGED <<via, again, closemu, dcLock, stmtsLock, ending,
                   rows, stmtState, todo, result>>

-----------------------------------------------------------------------------
(* Rows: Next and NextResultSet, Close, and awaitDone. *)

\* Closed Rows return at once, which changes nothing.
StartNext(u) ==
    /\ pc[u] = "idle"
    /\ \E r \in Rows :
          /\ rowsState[r] = "open" /\ writer[r] = None
          /\ readers' = RLocked(r)
          /\ target' = [target EXCEPT ![u] = r]
    /\ Goto(u, "read")
    /\ UNCHANGED <<task, via, again, writer, dcLock, stmtsLock, ending, rows,
                   statements, result>>

\* After the last row, or an error, the Rows are closed by the same goroutine.
ReadEnds(u) ==
    /\ InDriver(u, "read")
    /\ dcLock' = None
    /\ readers' = RUnlocked({target[u]})
    /\ \/ Goto(u, "closeRows") /\ UNCHANGED <<task, target>>
       \/ Finish(u)
    /\ UNCHANGED <<via, again, writer, stmtsLock, ending, rows, statements, result>>

StartClose(u) ==
    /\ pc[u] = "idle"
    /\ \E r \in Rows :
          /\ rowsState[r] = "open"
          /\ target' = [target EXCEPT ![u] = r]
    /\ Goto(u, "closeRows")
    /\ UNCHANGED <<task, via, again, closemu, dcLock, stmtsLock, ending, rows,
                   statements, result>>

\* Mutation: the transaction's context is not heeded.
AwaitRowsOnly(r) ==
    /\ pc[r] = "awaitRows" /\ rowsDone[r]
    /\ target' = [target EXCEPT ![r] = r]
    /\ Goto(r, "closeRows")
    /\ UNCHANGED <<task, via, again, closemu, dcLock, stmtsLock, ending, rows,
                   statements, result>>

AwaitRows(r) ==
    /\ pc[r] = "awaitRows" /\ (rowsDone[r] \/ txCancelled)
    /\ target' = [target EXCEPT ![r] = r]
    /\ Goto(r, "closeRows")
    /\ UNCHANGED <<task, via, again, closemu, dcLock, stmtsLock, ending, rows,
                   statements, result>>

LockRows(x) ==
    /\ pc[x] = "closeRows" /\ writer[target[x]] = None
    /\ writer' = Locked(x, target[x])
    /\ Goto(x, "drainRows")
    /\ UNCHANGED <<locals, readers, dcLock, stmtsLock, ending, rows, statements,
                   result>>

\* Mutation: Rows are closed although they are closed already.
CloseRowsAgain(x) ==
    /\ pc[x] = "drainRows" /\ readers[target[x]] = 0
    /\ rowsState' = [rowsState EXCEPT ![target[x]] = "closed"]
    /\ Goto(x, "rowsClose")
    /\ UNCHANGED <<locals, closemu, dcLock, stmtsLock, ending, rowsDone, ownStmt,
                   statements, result>>

CloseRows(x) ==
    LET r == target[x]
    IN  /\ pc[x] = "drainRows" /\ readers[r] = 0
        /\ IF rowsState[r] = "closed"
           THEN /\ writer' = Unlocked(r) /\ Finish(x)
                /\ UNCHANGED rowsState
           ELSE /\ rowsState' = [rowsState EXCEPT ![r] = "closed"]
                /\ Goto(x, "rowsClose") /\ UNCHANGED <<writer, task, target>>
        /\ UNCHANGED <<via, again, readers, dcLock, stmtsLock, ending, rowsDone,
                       ownStmt, statements, result>>

\* rs.cancel() ends the Rows' own context.
RowsiClosed(x) ==
    LET r == target[x]
    IN  /\ InDriver(x, "rowsClose")
        /\ dcLock' = None
        /\ rowsDone' = [rowsDone EXCEPT ![r] = TRUE]
        /\ Goto(x, IF ownStmt[r] THEN "rowsStmt" ELSE "rowsRelease")
        /\ UNCHANGED <<locals, closemu, stmtsLock, ending, rowsState, ownStmt,
                       statements, result>>

CloseStmtClosed(x) ==
    /\ InDriver(x, "rowsStmt")
    /\ dcLock' = None
    /\ Goto(x, "rowsRelease")
    /\ UNCHANGED <<locals, closemu, stmtsLock, ending, rows, statements, result>>

\* Mutation: the transaction's read lock is kept.
ReleaseRowsForgotten(x) ==
    /\ pc[x] = "rowsRelease"
    /\ writer' = Unlocked(target[x])
    /\ Finish(x)
    /\ UNCHANGED <<via, again, readers, dcLock, stmtsLock, ending, rows, statements,
                   result>>

ReleaseRows(x) ==
    /\ pc[x] = "rowsRelease"
    /\ readers' = RUnlocked({Tx})
    /\ writer' = Unlocked(target[x])
    /\ Finish(x)
    /\ UNCHANGED <<via, again, dcLock, stmtsLock, ending, rows, statements, result>>

-----------------------------------------------------------------------------
(* Tx.Commit, Tx.Rollback and awaitDone. *)

\* Commit looks at the context before it touches done.
StartCommit(u) ==
    /\ pc[u] = "idle" /\ ~txCancelled
    /\ task' = [task EXCEPT ![u] = "commit"]
    /\ Goto(u, "swap")
    /\ UNCHANGED <<target, via, again, closemu, dcLock, stmtsLock, ending,
                   rows, statements, result>>

StartRollback(u) ==
    /\ pc[u] = "idle"
    /\ task' = [task EXCEPT ![u] = "rollback"]
    /\ Goto(u, "swap")
    /\ UNCHANGED <<target, via, again, closemu, dcLock, stmtsLock, ending,
                   rows, statements, result>>

AwaitTx ==
    /\ pc[Tx] = "awaitTx" /\ txCancelled
    /\ Goto(Tx, "swap")
    /\ UNCHANGED <<locals, closemu, dcLock, stmtsLock, ending, rows, statements,
                   result>>

\* Mutation: done is set without looking at it.
SwapDoneBlindly(x) ==
    /\ pc[x] = "swap"
    /\ done' = TRUE /\ Goto(x, "cancel")
    /\ UNCHANGED <<locals, closemu, dcLock, stmtsLock, txCancelled, rows,
                   statements, result>>

\* CompareAndSwap(done, 0, 1): one goroutine ends the transaction.
SwapDone(x) ==
    /\ pc[x] = "swap"
    /\ done' = TRUE
    /\ IF done THEN Finish(x) ELSE Goto(x, "cancel") /\ UNCHANGED <<task, target>>
    /\ UNCHANGED <<via, again, closemu, dcLock, stmtsLock, txCancelled, rows,
                   statements, result>>

\* Mutation: tx.cancel is not called.
CancelForgotten(x) ==
    /\ pc[x] = "cancel"
    /\ Goto(x, "lockTx")
    /\ UNCHANGED <<locals, closemu, dcLock, stmtsLock, ending, rows, statements,
                   result>>

\* tx.cancel() makes every awaitDone close its Rows.
Cancel(x) ==
    /\ pc[x] = "cancel"
    /\ txCancelled' = TRUE
    /\ Goto(x, "lockTx")
    /\ UNCHANGED <<locals, closemu, dcLock, stmtsLock, done, rows, statements,
                   result>>

LockTx(x) ==
    /\ pc[x] = "lockTx" /\ writer[Tx] = None
    /\ writer' = Locked(x, Tx)
    /\ Goto(x, "drainTx")
    /\ UNCHANGED <<locals, readers, dcLock, stmtsLock, ending, rows, statements,
                   result>>

\* Mutation: nobody is waited for.
DrainTxNot(x) ==
    /\ pc[x] = "drainTx"
    /\ writer' = Unlocked(Tx)
    /\ Goto(x, "end")
    /\ UNCHANGED <<locals, readers, dcLock, stmtsLock, ending, rows, statements,
                   result>>

\* closemu is unlocked as soon as it was locked: no query is active, and none
\* will find the transaction open.
DrainTx(x) ==
    /\ pc[x] = "drainTx" /\ readers[Tx] = 0
    /\ writer' = Unlocked(Tx)
    /\ Goto(x, "end")
    /\ UNCHANGED <<locals, readers, dcLock, stmtsLock, ending, rows, statements,
                   result>>

\* COMMIT or ROLLBACK; after ErrBadConn the statements are not closed.
EndTx(x) ==
    /\ InDriver(x, "end")
    /\ dcLock' = None
    /\ outcome' = task[x]
    /\ \/ bad' = FALSE /\ Goto(x, "closePrepared")
       \/ bad' = TRUE /\ "badConn" \in Events /\ Goto(x, "release")
    /\ UNCHANGED <<locals, closemu, stmtsLock, ending, rows, statements, releases>>

ClosePrepared(x) ==
    /\ pc[x] = "closePrepared" /\ stmtsLock = None
    /\ stmtsLock' = x
    /\ todo' = listed
    /\ Goto(x, "closeNext")
    /\ UNCHANGED <<locals, closemu, dcLock, ending, rows, stmtState, listed,
                   result>>

CloseNextStmt(x) ==
    /\ pc[x] = "closeNext"
    /\ \E s \in todo :
          /\ todo' = todo \ {s}
          /\ target' = [target EXCEPT ![x] = s]
    /\ Goto(x, "closeStmt")
    /\ UNCHANGED <<task, via, again, closemu, dcLock, stmtsLock, ending, rows,
                   stmtState, listed, result>>

AllPreparedClosed(x) ==
    /\ pc[x] = "closeNext" /\ todo = {}
    /\ stmtsLock' = None
    /\ Goto(x, "release")
    /\ UNCHANGED <<locals, closemu, dcLock, ending, rows, statements, result>>

\* putConn, with ErrBadConn if the driver returned it.
ReleaseConn(x) ==
    /\ pc[x] = "release"
    /\ releases' = releases + 1
    /\ Finish(x)
    /\ UNCHANGED <<via, again, closemu, dcLock, stmtsLock, ending, rows, statements,
                   outcome, bad>>

-----------------------------------------------------------------------------
(* Stmt.Close, called by a user or by closePrepared. *)

StartStmtClose(u) ==
    /\ pc[u] = "idle"
    /\ \E s \in listed :
          /\ stmtState[s] = "open"
          /\ target' = [target EXCEPT ![u] = s]
    /\ Goto(u, "closeStmt")
    /\ UNCHANGED <<task, via, again, closemu, dcLock, stmtsLock, ending, rows,
                   statements, result>>

LockStmt(x) ==
    /\ pc[x] = "closeStmt" /\ writer[target[x]] = None
    /\ writer' = Locked(x, target[x])
    /\ Goto(x, "drainStmt")
    /\ UNCHANGED <<locals, readers, dcLock, stmtsLock, ending, rows, statements,
                   result>>

\* Stmt.Close returns.
AfterStmt(x) ==
    IF stmtsLock = x THEN Goto(x, "closeNext") /\ UNCHANGED <<task, target>>
                     ELSE Finish(x)

CloseStmt(x) ==
    LET s == target[x]
    IN  /\ pc[x] = "drainStmt" /\ readers[s] = 0
        /\ IF stmtState[s] = "closed"
           THEN /\ writer' = Unlocked(s) /\ AfterStmt(x)
                /\ UNCHANGED stmtState
           ELSE /\ stmtState' = [stmtState EXCEPT ![s] = "closed"]
                /\ Goto(x, "stmtClose") /\ UNCHANGED <<writer, task, target>>
        /\ UNCHANGED <<via, again, readers, dcLock, stmtsLock, ending, rows, listed,
                       todo, result>>

StmtClosed(x) ==
    /\ InDriver(x, "stmtClose")
    /\ dcLock' = None
    /\ writer' = Unlocked(target[x])
    /\ AfterStmt(x)
    /\ UNCHANGED <<via, again, readers, stmtsLock, ending, rows, statements, result>>

-----------------------------------------------------------------------------
\* The context given to BeginTx, or to a query, ends.
EndContext ==
    /\ "endTx" \in Events /\ ~txCancelled
    /\ txCancelled' = TRUE
    /\ UNCHANGED <<pc, locals, closemu, dcLock, stmtsLock, done, rows,
                   statements, result>>

EndQueryContext(r) ==
    /\ "endQuery" \in Events /\ rowsState[r] = "open" /\ ~rowsDone[r]
    /\ rowsDone' = [rowsDone EXCEPT ![r] = TRUE]
    /\ UNCHANGED <<pc, locals, closemu, dcLock, stmtsLock, ending, rowsState,
                   ownStmt, statements, result>>

\* What a user may start, and need not.
Start(u) ==
    \/ StartTask(u) \/ StartStmt(u) \/ StartNext(u) \/ StartClose(u)
    \/ StartCommit(u) \/ StartRollback(u) \/ StartStmtClose(u)

CallSteps(u) ==
    \/ GrabConn(u) \/ GrabTooLate(u) \/ CheckDone(u) \/ CallEnds(u)
    \/ CallSkipped(u) \/ RetryStmt(u) \/ QueryOpens(u) \/ Prepared(u) \/ ListStmt(u)
    \/ ReadEnds(u)

RowsSteps(x) ==
    \/ LockRows(x) \/ CloseRows(x) \/ RowsiClosed(x) \/ CloseStmtClosed(x)
    \/ ReleaseRows(x)

EndSteps(x) ==
    \/ SwapDone(x) \/ Cancel(x) \/ LockTx(x) \/ DrainTx(x) \/ EndTx(x)
    \/ ClosePrepared(x) \/ CloseNextStmt(x) \/ AllPreparedClosed(x)
    \/ ReleaseConn(x)

StmtSteps(x) == LockStmt(x) \/ CloseStmt(x) \/ StmtClosed(x)

UserStep(u) == CallSteps(u) \/ RowsSteps(u) \/ EndSteps(u) \/ StmtSteps(u)
                 \/ EnterDriver(u)
TxStep      == AwaitTx \/ EndSteps(Tx) \/ StmtSteps(Tx) \/ EnterDriver(Tx)
RowsStep(r) == AwaitRows(r) \/ RowsSteps(r) \/ EnterDriver(r)

Next ==
    \/ \E u \in Users : Start(u) \/ UserStep(u)
    \/ TxStep
    \/ \E r \in Rows : RowsStep(r) \/ EndQueryContext(r)
    \/ EndContext

Spec == Init /\ [][Next]_vars

(***************************************************************************)
(* A goroutine that can go on does so, mutexes are starvation-free, and a  *)
(* driver call ends.  No user need start anything, close Rows or end the   *)
(* transaction.                                                            *)
(***************************************************************************)
FairSpec ==
    /\ Spec
    /\ \A u \in Users : SF_vars(UserStep(u))
    /\ \A r \in Rows : SF_vars(RowsStep(r))
    /\ SF_vars(TxStep)

-----------------------------------------------------------------------------
(* Properties. *)

UserLabels == {"idle", "grab", "granted", "call", "list", "read"}
RowsLabels == {"closeRows", "drainRows", "rowsClose", "rowsStmt", "rowsRelease"}
EndLabels  == {"swap", "cancel", "lockTx", "drainTx", "end", "closePrepared",
               "closeNext", "release"}
StmtLabels == {"closeStmt", "drainStmt", "stmtClose"}

\* Every variable keeps its type; in particular no closemu is unlocked more
\* often than it was read-locked, which would be a fatal error.
TypeOK ==
    /\ pc \in [Procs -> UserLabels \cup RowsLabels \cup EndLabels \cup StmtLabels
                        \cup {"unborn", "awaitRows", "awaitTx", "gone"}]
    /\ task \in [Procs -> {"exec", "query", "prepare", "commit", "rollback"}]
    /\ target \in [Procs -> Rows \cup Stmts \cup {None}]
    /\ via \in [Users -> Stmts \cup {None}]
    /\ again \in [Users -> 0..maxBadConnRetries]
    /\ readers \in [Closemus -> Nat]
    /\ writer \in [Closemus -> Procs \cup {None}]
    /\ dcLock \in Procs \cup {None} /\ stmtsLock \in Procs \cup {None}
    /\ done \in BOOLEAN /\ txCancelled \in BOOLEAN
    /\ rowsState \in [Rows -> {"new", "open", "closed"}]
    /\ rowsDone \in [Rows -> BOOLEAN] /\ ownStmt \in [Rows -> BOOLEAN]
    /\ stmtState \in [Stmts -> {"new", "open", "closed"}]
    /\ listed \subseteq Stmts /\ todo \subseteq Stmts
    /\ outcome \in {"none", "commit", "rollback"} /\ bad \in BOOLEAN
    /\ releases \in Nat

\* Rows that have not yet unlocked tx.closemu, and users that have locked it.
Unreleased == {r \in Rows :
                 \/ rowsState[r] = "open"
                 \/ \E x \in Procs : target[x] = r
                       /\ pc[x] \in {"rowsClose", "rowsStmt", "rowsRelease"}}
Calling == {u \in Users : pc[u] \in {"granted", "call"}}

\* The read locks of tx.closemu are those of the calls under way and of the
\* Rows not yet released: each of them unlocks it exactly once, although Rows
\* may be closed by several goroutines.
LocksAccounted ==
    readers[Tx] = Cardinality(Calling) + Cardinality(Unreleased)

\* While COMMIT or ROLLBACK is sent no Rows are open, and whoever still has a
\* read lock is about to find the transaction done: no query's packets mix with
\* those of the end, and no rows are read after it.
AloneAtEnd ==
    (\E x \in Procs : pc[x] = "end") =>
       /\ Unreleased = {}
       /\ \A u \in Users : pc[u] # "call"

\* Goroutines that end the transaction; closePrepared keeps tx.stmts locked.
Ending(x) == pc[x] \in EndLabels \ {"swap"} \/ stmtsLock = x

\* The transaction ends once: one of Commit, Rollback and awaitDone sends its
\* command, and only then is the connection given back, once.
EndsOnce ==
    /\ \A x, y \in Procs : Ending(x) /\ Ending(y) => x = y
    /\ releases <= 1
    /\ releases = 1 => outcome # "none" /\ \A x \in Procs : ~Ending(x)

\* Once the connection is back in the pool, where another client may have it,
\* no query, read or close of Rows of this transaction calls the driver.
NoUseAfterRelease ==
    releases > 0 =>
       \A x \in Procs : pc[x] \notin {"call", "read", "rowsClose", "rowsStmt", "end"}

\* An outcome is final.
OutcomeFinal == [][outcome # "none" => UNCHANGED <<outcome, bad>>]_vars

\* A transaction that is being ended, by a call or by its context, does end, and
\* its connection goes back, even if its Rows are never closed by their users.
EndsAtLast == (done \/ txCancelled) ~> releases = 1

\* Rows are closed once their query's context or their transaction ends.
RowsEnd == \A r \in Rows :
    (rowsState[r] = "open" /\ (rowsDone[r] \/ txCancelled))
       ~> (rowsState[r] = "closed" /\ r \notin Unreleased)

\* transaction.go:18-20: the statements prepared for a transaction are closed
\* by Commit or Rollback.
PreparedAreClosed ==
    (releases > 0 /\ ~bad) => \A s \in listed : stmtState[s] # "open"
=============================================================================

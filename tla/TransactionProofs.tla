------------------------- MODULE TransactionProofs -------------------------
(***************************************************************************)
(* The end of a transaction and its mutexes, for any number of users, Rows *)
(* and statements.                                                         *)
(*                                                                         *)
(* The first part: a transaction ends once.  EndsOnce is not inductive:    *)
(* that nobody enters the end twice follows from the flag done, which      *)
(* whoever ends the transaction has set, and that the outcome is known     *)
(* when the connection goes back follows from the order of the steps in    *)
(* between.                                                                *)
(*                                                                         *)
(* The second part: every read lock is given back exactly once, whoever    *)
(* sends COMMIT or ROLLBACK is alone on the connection, and nobody calls   *)
(* the driver for the transaction once the connection is back in the pool. *)
(* The argument counts: the readers of a closemu are as many as the        *)
(* goroutines and Rows inside it, so a writer that has waited for its      *)
(* readers has found nobody inside.  What it found stays true, because     *)
(* whoever comes later finds done set, or the Rows closed.                 *)
(***************************************************************************)
EXTENDS Transaction, FiniteSetTheorems, TLAPS

Labels == UserLabels \cup RowsLabels \cup EndLabels \cup StmtLabels
            \cup {"unborn", "awaitRows", "awaitTx", "gone"}
Tasks  == {"exec", "query", "prepare", "commit", "rollback"}

ControlOK ==
    /\ pc \in [Procs -> Labels] /\ task \in [Procs -> Tasks]
    /\ releases \in Nat /\ stmtsLock \in Procs \cup {None} /\ done \in BOOLEAN

\* Whoever ends the transaction has set done, and so has whoever did.
EndersSetDone ==
    /\ \A x \in Procs : Ending(x) => done
    /\ releases > 0 => done

\* The outcome is known after the command was sent.
OutcomeKnown ==
    \A x \in Procs :
       pc[x] \in {"closePrepared", "closeNext", "release"} \/ stmtsLock = x
          => outcome # "none"

\* tx.stmts is locked exactly in the loop of closePrepared.
StmtsLocked ==
    \A x \in Procs :
       /\ stmtsLock = x => pc[x] \in {"closeNext"} \cup StmtLabels
       /\ pc[x] = "closeNext" => stmtsLock = x

\* The awaitDone of Rows only closes its Rows.
RowsStayOut == \A r \in Rows : pc[r] \notin EndLabels \cup StmtLabels

EndInv == /\ ControlOK /\ EndersSetDone /\ OutcomeKnown /\ StmtsLocked
          /\ RowsStayOut /\ EndsOnce

\* What the invariant reads, and the labels of one who ends the transaction.
shared    == <<done, stmtsLock, outcome, releases>>
EndingNow == EndLabels \ {"swap"}

LEMMA NoneIsNobody == None \notin Procs
BY NamesAssumption DEF Procs

LEMMA EndInit == Init => EndInv
<1> SUFFICES ASSUME Init PROVE EndInv
  OBVIOUS
<1> USE DEF Init
<1>1. \A x \in Procs : pc[x] \in {"idle", "unborn", "awaitTx"}
  BY NamesAssumption DEF Procs
<1>2. ControlOK
  <2>1. pc \in [Procs -> Labels]
    BY DEF Labels, UserLabels
  <2> QED  BY <2>1, NoneIsNobody DEF ControlOK, Tasks
<1>3. \A x \in Procs : ~Ending(x)
  BY <1>1, NoneIsNobody DEF Ending, EndLabels
<1>4. OutcomeKnown /\ StmtsLocked /\ RowsStayOut
  BY <1>1, NoneIsNobody
  DEF OutcomeKnown, StmtsLocked, RowsStayOut, EndLabels, StmtLabels, Procs
<1> QED  BY <1>2, <1>3, <1>4 DEF EndInv, EndersSetDone, EndsOnce

(* Steps away from the end. *)

\* Nobody comes to a label of the end, and the one in closePrepared stays in it.
StaysOut(x) ==
    \/ pc'[x] = pc[x]
    \/ /\ pc'[x] \notin EndingNow
       /\ stmtsLock = x => pc'[x] \in StmtLabels
       /\ x \in Rows => pc'[x] \notin EndLabels \cup StmtLabels

LEMMA EndFrame ==
    ASSUME EndInv, pc' \in [Procs -> Labels], task' \in [Procs -> Tasks],
           UNCHANGED shared, \A x \in Procs : StaysOut(x)
    PROVE  EndInv'
<1> USE DEF EndInv, shared, EndingNow, StaysOut
<1>1. ControlOK'
  BY DEF ControlOK
<1>2. \A x \in Procs : Ending(x)' => Ending(x)
  BY DEF Ending
<1>3. EndersSetDone' /\ EndsOnce'
  BY <1>2 DEF EndersSetDone, EndsOnce
<1>4. OutcomeKnown'
  BY DEF OutcomeKnown, EndLabels
<1>5. StmtsLocked'
  BY DEF StmtsLocked, EndLabels
<1>6. RowsStayOut'
  BY DEF RowsStayOut, Procs
<1> QED  BY <1>1, <1>3, <1>4, <1>5, <1>6

\* One goroutine moves between labels outside the end.
LEMMA EndOneMoves ==
    ASSUME EndInv, NEW x \in Procs, NEW l \in Labels \ EndingNow,
           Goto(x, l), task' \in [Procs -> Tasks], UNCHANGED shared,
           stmtsLock = x => l \in StmtLabels,
           x \in Rows => l \notin EndLabels \cup StmtLabels
    PROVE  EndInv'
<1>1. pc' \in [Procs -> Labels]
  BY DEF EndInv, ControlOK, Goto
<1>2. \A y \in Procs : StaysOut(y)
  BY DEF EndInv, ControlOK, Goto, StaysOut
<1> QED  BY <1>1, <1>2, EndFrame

\* Only one in the loop of closePrepared has tx.stmts locked.
LEMMA NotInLoop ==
    ASSUME EndInv, NEW x \in Procs, pc[x] \notin {"closeNext"} \cup StmtLabels
    PROVE  stmtsLock # x
BY DEF EndInv, StmtsLocked

\* A goroutine outside the end goes to a label all may go to, or returns.
Plain == UserLabels \cup RowsLabels \cup {"gone"}

LEMMA EndPlainMove ==
    ASSUME EndInv, NEW x \in Procs, stmtsLock # x,
           NEW l \in Plain, Goto(x, l), task' \in [Procs -> Tasks],
           UNCHANGED shared
    PROVE  EndInv'
<1>1. l \in Labels \ (EndLabels \cup StmtLabels)
  BY DEF Plain, Labels, UserLabels, RowsLabels, EndLabels, StmtLabels
<1> QED  BY <1>1, EndOneMoves DEF EndingNow

LEMMA EndFinish ==
    ASSUME EndInv, NEW x \in Procs, stmtsLock # x, Finish(x), UNCHANGED shared
    PROVE  EndInv'
<1>1. task' \in [Procs -> Tasks]
  BY DEF EndInv, ControlOK, Finish, Tasks
<1>2. PICK l \in Plain : Goto(x, l)
  BY DEF Finish, Plain, UserLabels
<1> QED  BY <1>1, <1>2, EndPlainMove

LEMMA EndStart ==
    ASSUME EndInv, NEW u \in Users, Start(u)
    PROVE  EndInv'
<1> USE DEF shared, result, ending
<1>0. u \in Procs /\ u \notin Rows
  BY NamesAssumption DEF Procs
<1>1. task' \in [Procs -> Tasks]
  BY <1>0 DEF Start, StartTask, StartStmt, StartNext, StartClose, StartCommit,
              StartRollback, StartStmtClose, EndInv, ControlOK, Tasks
<1>2. pc[u] = "idle" /\ UNCHANGED shared
  BY DEF Start, StartTask, StartStmt, StartNext, StartClose, StartCommit,
         StartRollback, StartStmtClose
<1>3. stmtsLock # u
  BY <1>0, <1>2, NotInLoop DEF StmtLabels
<1>4. PICK l \in {"grab", "read", "closeRows", "swap", "closeStmt"} : Goto(u, l)
  BY DEF Start, StartTask, StartStmt, StartNext, StartClose, StartCommit,
         StartRollback, StartStmtClose
<1>5. l \in Labels \ EndingNow
  BY DEF Labels, UserLabels, RowsLabels, StmtLabels, EndLabels, EndingNow
<1> QED  BY <1>0, <1>1, <1>2, <1>3, <1>4, <1>5, EndOneMoves

LEMMA EndCallSteps ==
    ASSUME EndInv, NEW u \in Users, CallSteps(u)
    PROVE  EndInv'
<1> USE DEF InDriver, shared, result, ending
<1>0. u \in Procs /\ task \in [Procs -> Tasks]
  BY DEF Procs, EndInv, ControlOK
<1>1. \A K : Return(u, K) => task' \in [Procs -> Tasks]
  BY <1>0 DEF Return, Tasks
<1>2. pc[u] \in {"grab", "granted", "call", "list", "read"}
  BY DEF CallSteps, GrabConn, GrabTooLate, CheckDone, CallEnds, CallSkipped,
         RetryStmt, QueryOpens, Prepared, ListStmt, ReadEnds
<1>3. stmtsLock # u
  BY <1>0, <1>2, NotInLoop DEF StmtLabels
<1>4. {"idle", "grab", "granted", "call", "list", "closeRows"} \subseteq Plain
  BY DEF Plain, UserLabels, RowsLabels
<1>5. CASE GrabConn(u)
  BY <1>5, <1>0, <1>3, <1>4, EndPlainMove DEF GrabConn, locals
<1>6. CASE GrabTooLate(u)
  BY <1>6, <1>0, <1>1, <1>3, <1>4, EndPlainMove DEF GrabTooLate
<1>7. CASE CheckDone(u)
  BY <1>7, <1>0, <1>1, <1>3, <1>4, EndPlainMove DEF CheckDone
<1>8. CASE CallEnds(u)
  BY <1>8, <1>0, <1>1, <1>3, <1>4, EndPlainMove DEF CallEnds
<1>9. CASE CallSkipped(u)
  BY <1>9, <1>0, EndFrame DEF CallSkipped, EndInv, ControlOK, StaysOut
<1>10. CASE RetryStmt(u)
  BY <1>10, <1>0, <1>3, <1>4, EndPlainMove DEF RetryStmt
<1>11. CASE QueryOpens(u)
  <2>1. PICK r \in Rows : pc' = [pc EXCEPT ![u] = "idle", ![r] = "awaitRows"]
    BY <1>11 DEF QueryOpens
  <2>2. pc' \in [Procs -> Labels]
    BY <2>1 DEF EndInv, ControlOK, Labels, UserLabels
  <2>3. r \in Procs /\ stmtsLock # r
    <3>1. r \in Procs /\ pc[r] \notin EndLabels \cup StmtLabels
      BY DEF Procs, EndInv, RowsStayOut
    <3> QED  BY <3>1, NotInLoop DEF EndLabels
  <2>4. \A y \in Procs : StaysOut(y)
    BY <1>0, <1>3, <2>1, <2>3
    DEF StaysOut, EndInv, ControlOK, EndingNow, EndLabels, StmtLabels
  <2> QED  BY <1>0, <1>1, <1>11, <2>2, <2>4, EndFrame DEF QueryOpens
<1>12. CASE Prepared(u)
  BY <1>12, <1>0, <1>1, <1>3, <1>4, EndPlainMove DEF Prepared
<1>13. CASE ListStmt(u)
  BY <1>13, <1>0, <1>3, EndFinish DEF ListStmt
<1>14. CASE ReadEnds(u)
  BY <1>14, <1>0, <1>3, <1>4, EndPlainMove, EndFinish DEF ReadEnds
<1> QED  BY <1>5, <1>6, <1>7, <1>8, <1>9, <1>10, <1>11, <1>12, <1>13, <1>14
         DEF CallSteps

LEMMA EndRowsSteps ==
    ASSUME EndInv, NEW x \in Procs, RowsSteps(x)
    PROVE  EndInv'
<1> USE DEF InDriver, shared, result, ending
<1>0. task \in [Procs -> Tasks]
  BY DEF EndInv, ControlOK
<1>1. pc[x] \in RowsLabels
  BY DEF RowsSteps, LockRows, CloseRows, RowsiClosed, CloseStmtClosed, ReleaseRows,
         RowsLabels
<1>2. stmtsLock # x
  BY <1>1, NotInLoop DEF StmtLabels, RowsLabels
<1>3. \A l \in RowsLabels : l \in Plain
  BY DEF Plain
<1>4. CASE LockRows(x)
  BY <1>4, <1>0, <1>2, <1>3, EndPlainMove DEF LockRows, locals, RowsLabels
<1>5. CASE CloseRows(x)
  BY <1>5, <1>0, <1>2, <1>3, EndPlainMove, EndFinish DEF CloseRows, RowsLabels
<1>6. CASE RowsiClosed(x)
  BY <1>6, <1>0, <1>2, <1>3, EndPlainMove DEF RowsiClosed, locals, RowsLabels
<1>7. CASE CloseStmtClosed(x)
  BY <1>7, <1>0, <1>2, <1>3, EndPlainMove DEF CloseStmtClosed, locals, RowsLabels
<1>8. CASE ReleaseRows(x)
  BY <1>8, <1>2, EndFinish DEF ReleaseRows
<1> QED  BY <1>4, <1>5, <1>6, <1>7, <1>8 DEF RowsSteps

LEMMA EndOthers ==
    ASSUME EndInv,
           \/ AwaitTx \/ EndContext
           \/ \E x \in Procs : EnterDriver(x)
           \/ \E r \in Rows : AwaitRows(r) \/ EndQueryContext(r)
    PROVE  EndInv'
<1> USE DEF shared, result, ending
<1>0. task \in [Procs -> Tasks] /\ pc \in [Procs -> Labels]
  BY DEF EndInv, ControlOK
<1>1. CASE AwaitTx
  <2>1. Tx \in Procs /\ Tx \notin Rows
    BY NamesAssumption DEF Procs
  <2>2. stmtsLock # Tx
    BY <1>1, <2>1, NotInLoop DEF AwaitTx, StmtLabels
  <2>3. "swap" \in Labels \ EndingNow
    BY DEF Labels, EndingNow, EndLabels
  <2> QED  BY <1>0, <1>1, <2>1, <2>2, <2>3, EndOneMoves DEF AwaitTx, locals
<1>2. CASE \E r \in Rows : AwaitRows(r)
  <2>1. PICK r \in Rows : AwaitRows(r)
    BY <1>2
  <2>2. r \in Procs /\ stmtsLock # r
    BY <2>1, NotInLoop DEF AwaitRows, StmtLabels, Procs
  <2>3. "closeRows" \in Plain
    BY DEF Plain, RowsLabels
  <2> QED  BY <1>0, <2>1, <2>2, <2>3, EndPlainMove DEF AwaitRows
<1>3. ASSUME UNCHANGED <<pc, locals, shared>> PROVE EndInv'
  BY <1>0, <1>3, EndFrame DEF StaysOut, locals
<1>4. CASE EndContext
  BY <1>3, <1>4 DEF EndContext
<1>5. CASE \E x \in Procs : EnterDriver(x)
  BY <1>3, <1>5 DEF EnterDriver
<1>6. CASE \E r \in Rows : EndQueryContext(r)
  BY <1>3, <1>6 DEF EndQueryContext
<1> QED  BY <1>1, <1>2, <1>4, <1>5, <1>6

(* Steps of the goroutine that ends the transaction. *)

\* Such a goroutine is not the awaitDone of Rows.
LEMMA EnderIsNoRows ==
    ASSUME EndInv, NEW x \in Procs, pc[x] \in EndLabels \cup StmtLabels
    PROVE  x \notin Rows
BY DEF EndInv, RowsStayOut

\* One that is ending the transaction goes on, outside closePrepared.
LEMMA EndGoesOn ==
    ASSUME EndInv, NEW x \in Procs, pc[x] \in EndLabels,
           NEW l \in EndingNow \ {"closeNext"}, Goto(x, l), UNCHANGED task,
           Ending(x), stmtsLock # x, UNCHANGED shared,
           l \in {"closePrepared", "release"} => outcome # "none"
    PROVE  EndInv'
<1> USE DEF EndInv, shared, EndingNow
<1>1. pc' = [pc EXCEPT ![x] = l] /\ pc \in [Procs -> Labels]
  BY DEF Goto, ControlOK
<1>2. ControlOK'
  BY <1>1 DEF ControlOK, Labels
<1>3. \A y \in Procs : Ending(y)' <=> Ending(y)
  BY <1>1 DEF Ending
<1>4. EndersSetDone' /\ EndsOnce'
  BY <1>3 DEF EndersSetDone, EndsOnce
<1>5. OutcomeKnown' /\ StmtsLocked'
  BY <1>1 DEF OutcomeKnown, StmtsLocked
<1>6. RowsStayOut'
  BY <1>1, EnderIsNoRows DEF RowsStayOut, Procs
<1> QED  BY <1>2, <1>4, <1>5, <1>6

LEMMA EndSwap ==
    ASSUME EndInv, NEW x \in Procs, SwapDone(x)
    PROVE  EndInv'
<1>1. pc[x] = "swap" /\ pc \in [Procs -> Labels] /\ task \in [Procs -> Tasks]
  BY DEF SwapDone, EndInv, ControlOK
<1>2. stmtsLock # x /\ x \notin Rows
  BY <1>1, NotInLoop, EnderIsNoRows DEF EndLabels, StmtLabels
<1>3. CASE done
  <2>1. UNCHANGED shared
    BY <1>3 DEF SwapDone, shared, result, EndInv, ControlOK
  <2> QED  BY <1>2, <1>3, <2>1, EndFinish DEF SwapDone
<1>4. CASE ~done
  <2>1. /\ pc' = [pc EXCEPT ![x] = "cancel"] /\ done'
        /\ UNCHANGED <<task, stmtsLock, outcome, releases>>
    BY <1>4 DEF SwapDone, Goto, result
  <2>2. ControlOK'
    BY <1>1, <2>1 DEF ControlOK, EndInv, SwapDone, Labels, EndLabels
  <2>3. releases = 0 /\ \A y \in Procs : ~Ending(y)
    BY <1>4 DEF EndInv, EndersSetDone, ControlOK
  <2>4. \A y \in Procs : Ending(y)' => y = x
    BY <1>1, <2>1, <2>3 DEF Ending
  <2>5. EndersSetDone' /\ EndsOnce'
    BY <2>1, <2>3, <2>4 DEF EndersSetDone, EndsOnce
  <2>6. OutcomeKnown' /\ StmtsLocked' /\ RowsStayOut'
    BY <1>1, <1>2, <2>1
    DEF EndInv, OutcomeKnown, StmtsLocked, RowsStayOut, Procs
  <2> QED  BY <2>2, <2>5, <2>6 DEF EndInv
<1> QED  BY <1>3, <1>4

\* The command is sent before the connection goes back.
LEMMA EndSends ==
    ASSUME EndInv, NEW x \in Procs, EndTx(x)
    PROVE  EndInv'
<1>1. /\ pc[x] = "end" /\ pc \in [Procs -> Labels] /\ task[x] \in Tasks
      /\ UNCHANGED <<task, stmtsLock, done, releases>> /\ outcome' = task[x]
  BY DEF EndTx, InDriver, EndInv, ControlOK, locals, ending
<1>2. PICK l \in {"closePrepared", "release"} : pc' = [pc EXCEPT ![x] = l]
  BY DEF EndTx, Goto
<1>3. ControlOK'
  BY <1>1, <1>2 DEF ControlOK, EndInv, Labels, EndLabels
<1>4. \A y \in Procs : Ending(y)' <=> Ending(y)
  BY <1>1, <1>2 DEF Ending, EndLabels
<1>5. outcome' # "none"
  BY <1>1 DEF Tasks
<1>6. EndersSetDone' /\ EndsOnce'
  BY <1>1, <1>4, <1>5 DEF EndInv, EndersSetDone, EndsOnce
<1>7. stmtsLock # x /\ x \notin Rows
  BY <1>1, NotInLoop, EnderIsNoRows DEF EndLabels, StmtLabels
<1>8. OutcomeKnown' /\ StmtsLocked' /\ RowsStayOut'
  BY <1>1, <1>2, <1>5, <1>7
  DEF EndInv, OutcomeKnown, StmtsLocked, RowsStayOut, Procs
<1> QED  BY <1>3, <1>6, <1>8 DEF EndInv

\* closePrepared locks and unlocks tx.stmts.
LEMMA EndLocksStmts ==
    ASSUME EndInv, NEW x \in Procs, ClosePrepared(x) \/ AllPreparedClosed(x)
    PROVE  EndInv'
<1>1. /\ pc \in [Procs -> Labels] /\ UNCHANGED <<task, done, releases, outcome>>
      /\ pc[x] \in {"closePrepared", "closeNext"}
  BY DEF ClosePrepared, AllPreparedClosed, EndInv, ControlOK, locals, ending, result
<1>2. \/ /\ pc' = [pc EXCEPT ![x] = "closeNext"] /\ pc[x] = "closePrepared"
         /\ stmtsLock = None /\ stmtsLock' = x
      \/ /\ pc' = [pc EXCEPT ![x] = "release"] /\ pc[x] = "closeNext"
         /\ stmtsLock = x /\ stmtsLock' = None
  BY DEF ClosePrepared, AllPreparedClosed, Goto, EndInv, StmtsLocked
<1>3. ControlOK'
  BY <1>1, <1>2 DEF ControlOK, EndInv, Labels, EndLabels
<1>4. Ending(x) /\ Ending(x)'
  BY <1>1, <1>2 DEF Ending, EndLabels
<1>5. \A y \in Procs : Ending(y)' <=> Ending(y)
  BY <1>1, <1>2, <1>4, NoneIsNobody DEF Ending
<1>6. EndersSetDone' /\ EndsOnce'
  BY <1>1, <1>5 DEF EndInv, EndersSetDone, EndsOnce
<1>7. OutcomeKnown'
  BY <1>1, <1>2, NoneIsNobody DEF EndInv, OutcomeKnown
<1>8. StmtsLocked'
  BY <1>1, <1>2, NoneIsNobody DEF EndInv, StmtsLocked
<1>9. RowsStayOut'
  BY <1>1, <1>2, EnderIsNoRows DEF EndInv, RowsStayOut, Procs, EndLabels
<1> QED  BY <1>3, <1>6, <1>7, <1>8, <1>9 DEF EndInv

LEMMA EndReleases ==
    ASSUME EndInv, NEW x \in Procs, ReleaseConn(x)
    PROVE  EndInv'
<1>1. /\ pc[x] = "release" /\ pc \in [Procs -> Labels] /\ task \in [Procs -> Tasks]
      /\ UNCHANGED <<stmtsLock, done, outcome>> /\ releases' = releases + 1
  BY DEF ReleaseConn, EndInv, ControlOK, ending
<1>2. PICK l \in {"idle", "gone"} : pc' = [pc EXCEPT ![x] = l]
  BY DEF ReleaseConn, Finish, Goto
<1>3. ControlOK'
  BY <1>1, <1>2 DEF ControlOK, EndInv, Labels, UserLabels, ReleaseConn, Finish, Tasks
<1>4. Ending(x) /\ stmtsLock # x /\ outcome # "none"
  BY <1>1, NotInLoop DEF Ending, EndLabels, StmtLabels, EndInv, OutcomeKnown
<1>5. releases = 0 /\ done
  BY <1>4 DEF EndInv, EndsOnce, EndersSetDone, ControlOK
<1>6. \A y \in Procs : ~Ending(y)'
  BY <1>1, <1>2, <1>4 DEF EndInv, EndsOnce, Ending, EndLabels
<1>7. EndersSetDone' /\ EndsOnce'
  BY <1>1, <1>4, <1>5, <1>6 DEF EndersSetDone, EndsOnce
<1>8. OutcomeKnown' /\ StmtsLocked' /\ RowsStayOut'
  BY <1>1, <1>2, <1>4
  DEF EndInv, OutcomeKnown, StmtsLocked, RowsStayOut, Procs, EndLabels, StmtLabels
<1> QED  BY <1>3, <1>7, <1>8 DEF EndInv

LEMMA EndEndSteps ==
    ASSUME EndInv, NEW x \in Procs, EndSteps(x)
    PROVE  EndInv'
<1> USE DEF shared, result, ending, locals
<1>1. CASE Cancel(x) \/ LockTx(x) \/ DrainTx(x)
  <2>1. pc[x] \in {"cancel", "lockTx", "drainTx"} /\ UNCHANGED <<shared, task>>
    BY <1>1 DEF Cancel, LockTx, DrainTx
  <2>2. PICK l \in {"lockTx", "drainTx", "end"} : Goto(x, l)
    BY <1>1 DEF Cancel, LockTx, DrainTx
  <2>3. Ending(x) /\ stmtsLock # x /\ pc[x] \in EndLabels
    BY <2>1, NotInLoop DEF Ending, EndLabels, StmtLabels
  <2>4. l \in EndingNow \ {"closeNext"}
    BY DEF EndingNow, EndLabels
  <2> QED  BY <2>1, <2>2, <2>3, <2>4, EndGoesOn
<1>2. CASE CloseNextStmt(x)
  <2>1. /\ pc[x] = "closeNext" /\ Goto(x, "closeStmt")
        /\ UNCHANGED <<task, shared>> /\ task \in [Procs -> Tasks]
    BY <1>2 DEF CloseNextStmt, EndInv, ControlOK
  <2>2. x \notin Rows /\ "closeStmt" \in StmtLabels \ EndingNow
    BY <2>1, EnderIsNoRows DEF EndLabels, StmtLabels, EndingNow
  <2>3. "closeStmt" \in Labels \ EndingNow
    BY <2>2 DEF Labels
  <2> QED  BY <2>1, <2>2, <2>3, EndOneMoves
<1> QED  BY <1>1, <1>2, EndSwap, EndSends, EndLocksStmts, EndReleases DEF EndSteps

\* Stmt.Close returns to closePrepared, or to the user.
LEMMA EndAfterStmt ==
    ASSUME EndInv, NEW x \in Procs, pc[x] \in StmtLabels, AfterStmt(x),
           UNCHANGED shared
    PROVE  EndInv'
<1>1. CASE stmtsLock # x
  BY <1>1, EndFinish DEF AfterStmt
<1>2. CASE stmtsLock = x
  <2> USE DEF EndInv, shared
  <2>1. /\ pc' = [pc EXCEPT ![x] = "closeNext"] /\ UNCHANGED task
        /\ pc \in [Procs -> Labels]
    BY <1>2 DEF AfterStmt, Goto, ControlOK
  <2>2. ControlOK'
    BY <2>1 DEF ControlOK, Labels, EndLabels
  <2>3. \A y \in Procs : Ending(y)' <=> Ending(y)
    BY <1>2, <2>1 DEF Ending
  <2>4. EndersSetDone' /\ EndsOnce'
    BY <2>3 DEF EndersSetDone, EndsOnce
  <2>5. OutcomeKnown' /\ StmtsLocked'
    BY <1>2, <2>1 DEF OutcomeKnown, StmtsLocked
  <2>6. RowsStayOut'
    BY <2>1, EnderIsNoRows DEF RowsStayOut, Procs
  <2> QED  BY <2>2, <2>4, <2>5, <2>6
<1> QED  BY <1>1, <1>2

LEMMA EndStmtSteps ==
    ASSUME EndInv, NEW x \in Procs, StmtSteps(x)
    PROVE  EndInv'
<1> USE DEF shared, result, ending, locals, InDriver
<1>1. pc[x] \in StmtLabels /\ UNCHANGED shared
  BY DEF StmtSteps, LockStmt, CloseStmt, StmtClosed, StmtLabels
<1>2. \/ AfterStmt(x)
      \/ UNCHANGED task /\ \E l \in {"drainStmt", "stmtClose"} : Goto(x, l)
  BY DEF StmtSteps, LockStmt, CloseStmt, StmtClosed
<1>3. CASE AfterStmt(x)
  BY <1>1, <1>3, EndAfterStmt
<1>4. ASSUME UNCHANGED task, NEW l \in {"drainStmt", "stmtClose"}, Goto(x, l)
      PROVE  EndInv'
  <2>1. x \notin Rows /\ l \in StmtLabels /\ l \in Labels \ EndingNow
    BY <1>1, EnderIsNoRows DEF StmtLabels, Labels, EndingNow, EndLabels
  <2>2. task' \in [Procs -> Tasks]
    BY <1>4 DEF EndInv, ControlOK
  <2> QED  BY <1>1, <1>4, <2>1, <2>2, EndOneMoves
<1> QED  BY <1>2, <1>3, <1>4

LEMMA EndStep == EndInv /\ [Next]_vars => EndInv'
<1> SUFFICES ASSUME EndInv, [Next]_vars PROVE EndInv'
  OBVIOUS
<1>1. \A u \in Users : u \in Procs
  BY DEF Procs
<1>2. Tx \in Procs /\ \A r \in Rows : r \in Procs
  BY DEF Procs
<1>3. ASSUME NEW u \in Users, Start(u) \/ UserStep(u) PROVE EndInv'
  BY <1>1, <1>3, EndStart, EndCallSteps, EndRowsSteps, EndEndSteps, EndStmtSteps,
     EndOthers DEF UserStep
<1>4. CASE TxStep
  BY <1>2, <1>4, EndEndSteps, EndStmtSteps, EndOthers DEF TxStep
<1>5. ASSUME NEW r \in Rows, RowsStep(r) \/ EndQueryContext(r) PROVE EndInv'
  BY <1>2, <1>5, EndRowsSteps, EndOthers DEF RowsStep
<1>6. CASE EndContext
  BY <1>6, EndOthers
<1>7. CASE UNCHANGED vars
  <2>1. UNCHANGED <<pc, task, shared>>
    BY <1>7 DEF vars, locals, shared, ending, result
  <2> QED  BY <2>1, EndFrame DEF StaysOut, EndInv, ControlOK
<1> QED  BY <1>3, <1>4, <1>5, <1>6, <1>7 DEF Next

\* Commit, Rollback and awaitDone race to end a transaction: of any number of
\* calls one sends its command, and the connection goes back once, after it.
THEOREM EndsOnceAlways == Spec => []EndsOnce
<1>1. EndInv => EndsOnce
  BY DEF EndInv
<1> QED  BY <1>1, EndInit, EndStep, PTL DEF Spec

-----------------------------------------------------------------------------
(* The mutexes: the parts of the invariant. *)

\* The types of what EndInv does not speak of; those of readers are in Counted.
Types ==
    /\ target \in [Procs -> Rows \cup Stmts \cup {None}]
    /\ via \in [Users -> Stmts \cup {None}]
    /\ again \in [Users -> 0..maxBadConnRetries]
    /\ writer \in [Closemus -> Procs \cup {None}]
    /\ dcLock \in Procs \cup {None} /\ txCancelled \in BOOLEAN
    /\ rowsState \in [Rows -> {"new", "open", "closed"}]
    /\ rowsDone \in [Rows -> BOOLEAN] /\ ownStmt \in [Rows -> BOOLEAN]
    /\ stmtState \in [Stmts -> {"new", "open", "closed"}]
    /\ listed \subseteq Stmts /\ todo \subseteq Stmts
    /\ outcome \in {"none", "commit", "rollback"} /\ bad \in BOOLEAN

\* A user at one of these works on a call of the transaction.
Busy == {"grab", "granted", "call"}
\* Whoever is at one of these closes Rows that were open.
Closers == {"rowsClose", "rowsStmt", "rowsRelease"}

UserPlaces == UserLabels \cup RowsLabels \cup EndLabels \cup StmtLabels
RowsPlaces == RowsLabels \cup {"unborn", "awaitRows", "gone"}
TxPlaces   == EndLabels \cup StmtLabels \cup {"awaitTx", "gone"}

\* A goroutine is where its kind may be, its locals are those of what it does,
\* and the Rows it reads or closes are in a state that allows it.
Placed(x) ==
    /\ x \in Users => pc[x] \in UserPlaces
    /\ x \in Rows => pc[x] \in RowsPlaces
    /\ x = Tx => pc[x] \in TxPlaces
    /\ pc[x] \in RowsLabels \cup {"read"} =>
          target[x] \in Rows /\ rowsState[target[x]] # "new"
    /\ pc[x] \in StmtLabels \cup {"list"} => target[x] \in Stmts
    /\ pc[x] \in Closers => rowsState[target[x]] = "closed"
    /\ pc[x] = "read" => rowsState[target[x]] = "open"
    /\ pc[x] \notin Busy => task[x] \in {"commit", "rollback"}
    /\ x \in Users /\ pc[x] \notin Busy => via[x] = None
    /\ x \in Rows /\ pc[x] # "unborn" => rowsState[x] # "new"

AllPlaced == \A x \in Procs : Placed(x)

\* x has locked closemu k, or waits for its readers.
Holds(x, k) ==
    \/ k = Tx /\ pc[x] = "drainTx"
    \/ k \in Rows /\ target[x] = k /\ pc[x] \in Closers \cup {"drainRows"}
    \/ k \in Stmts /\ target[x] = k /\ pc[x] \in {"drainStmt", "stmtClose"}

Exclusive == \A x \in Procs, k \in Closemus : Holds(x, k) => writer[k] = x

\* User or Rows i has read-locked closemu k.
In(i, k) ==
    \/ i \in Users /\ k = Tx /\ pc[i] \in {"granted", "call"}
    \/ i \in Users /\ k \in Rows /\ pc[i] = "read" /\ target[i] = k
    \/ i \in Users /\ k \in Stmts /\ via[i] = k
    \/ i \in Unreleased /\ k = Tx

Parties   == Users \cup Rows
Inside(k) == {i \in Parties : In(i, k)}

\* No reader is forgotten, and none is counted twice.
Counted ==
    /\ readers \in [Closemus -> Nat]
    /\ \A k \in Closemus : readers[k] = Cardinality(Inside(k))

\* The readers of tx.closemu have been waited for.
Drained ==
    \/ releases > 0
    \/ \E x \in Procs :
          \/ pc[x] \in {"end", "closePrepared", "closeNext", "release"}
          \/ stmtsLock = x

\* From then on no Rows are unreleased and no user calls the driver.
StaysEmpty == Drained => Unreleased = {} /\ \A u \in Users : pc[u] # "call"

LockInv == /\ EndInv /\ Types /\ AllPlaced /\ Exclusive
           /\ Counted /\ StaysEmpty


(* What the invariant says. *)

LEMMA PartiesFinite ==
    /\ IsFiniteSet(Parties)
    /\ \A k : IsFiniteSet(Inside(k))
<1>1. IsFiniteSet(Parties)
  BY FiniteNames, FS_Union DEF Parties
<1> QED  BY <1>1, FS_Subset DEF Inside

LEMMA InsideTx == LockInv => Inside(Tx) = Calling \cup Unreleased
BY NamesAssumption DEF LockInv, Inside, In, Parties, Calling, Unreleased

LEMMA LockInit == Init => LockInv
<1> SUFFICES ASSUME Init PROVE LockInv
  OBVIOUS
<1> USE DEF Init
<1>1. EndInv
  BY EndInit
<1>2. Types
  <2>1. 0 \in 0..maxBadConnRetries
    BY DEF maxBadConnRetries
  <2> QED  BY <2>1 DEF Types
<1>3. \A x \in Procs : pc[x] \in {"idle", "unborn", "awaitTx"}
  BY NamesAssumption DEF Procs
<1>4. AllPlaced
  <2> SUFFICES ASSUME NEW x \in Procs PROVE Placed(x)
    BY DEF AllPlaced
  <2>1. /\ x \in Users => pc[x] = "idle" /\ via[x] = None
        /\ x \in Rows => pc[x] = "unborn"
        /\ x = Tx => pc[x] = "awaitTx"
        /\ task[x] = "rollback"
    BY NamesAssumption DEF Procs
  <2> QED  BY <1>3, <2>1 DEF Placed, UserPlaces, RowsPlaces, TxPlaces, UserLabels,
           RowsLabels, StmtLabels, Closers
<1>5. Exclusive
  BY <1>3 DEF Exclusive, Holds, Closers
<1>6. Unreleased = {}
  BY <1>3 DEF Unreleased
<1>7. \A k : Inside(k) = {}
  BY <1>3, <1>6, NamesAssumption DEF Inside, In, Procs, Parties
<1>8. Counted
  BY <1>7, FS_EmptySet DEF Counted
<1>9. StaysEmpty
  BY <1>3, NoneIsNobody DEF StaysEmpty, Drained
<1> QED  BY <1>1, <1>2, <1>4, <1>5, <1>8, <1>9 DEF LockInv

LEMMA LockTypes == LockInv => TypeOK
<1> SUFFICES ASSUME LockInv PROVE TypeOK
  OBVIOUS
<1> QED  BY DEF LockInv, EndInv, ControlOK, Types, Counted, Labels, Tasks, TypeOK

LEMMA LockCounts == LockInv => LocksAccounted
<1> SUFFICES ASSUME LockInv PROVE LocksAccounted
  OBVIOUS
<1>1. Inside(Tx) = Calling \cup Unreleased
  BY InsideTx
<1>2. IsFiniteSet(Calling) /\ IsFiniteSet(Unreleased)
  BY FiniteNames, FS_Subset DEF Calling, Unreleased
<1>3. Calling \cap Unreleased = {}
  BY NamesAssumption DEF Calling, Unreleased
<1>4. Cardinality(Inside(Tx)) = Cardinality(Calling) + Cardinality(Unreleased)
  <2>1. /\ Cardinality(Calling) \in Nat /\ Cardinality(Unreleased) \in Nat
        /\ Cardinality(Calling \cap Unreleased) = 0
    BY <1>2, <1>3, FS_CardinalityType, FS_EmptySet
  <2>2. Cardinality(Calling \cup Unreleased)
          = Cardinality(Calling) + Cardinality(Unreleased)
              - Cardinality(Calling \cap Unreleased)
    BY <1>2, FS_Union
  <2> QED  BY <1>1, <2>1, <2>2
<1> QED  BY <1>4 DEF LockInv, Counted, Closemus, LocksAccounted

LEMMA LockAlone == LockInv => AloneAtEnd
BY DEF LockInv, StaysEmpty, Drained, AloneAtEnd

LEMMA LockNoUse == LockInv => NoUseAfterRelease
<1> SUFFICES ASSUME LockInv, releases > 0, NEW x \in Procs
             PROVE  pc[x] \notin {"call", "read", "rowsClose", "rowsStmt", "end"}
  BY DEF NoUseAfterRelease
<1>1. Unreleased = {} /\ \A u \in Users : pc[u] # "call"
  BY DEF LockInv, StaysEmpty, Drained
<1>2. Placed(x)
  BY DEF LockInv, AllPlaced
<1>3. pc[x] # "call"
  BY <1>1, <1>2
  DEF Placed, Procs, RowsPlaces, TxPlaces, RowsLabels, EndLabels, StmtLabels
<1>4. pc[x] \notin {"read", "rowsClose", "rowsStmt"}
  BY <1>1, <1>2 DEF Placed, RowsLabels, Unreleased
<1>5. pc[x] # "end"
  <2>1. ~Ending(x)
    BY DEF LockInv, EndInv, ControlOK, EndsOnce
  <2> QED  BY <2>1 DEF Ending, EndLabels
<1> QED  BY <1>3, <1>4, <1>5


(* Types are kept. *)

LEMMA TypesStart ==
    ASSUME LockInv, NEW u \in Users, Start(u)
    PROVE  Types'
<1> USE DEF LockInv, Types, closemu, ending, rows, statements, result
<1>1. CASE StartTask(u) \/ StartCommit(u) \/ StartRollback(u)
  BY <1>1 DEF StartTask, StartCommit, StartRollback
<1>2. CASE StartStmt(u)
  BY <1>2 DEF StartStmt
<1>3. CASE StartNext(u) \/ StartClose(u) \/ StartStmtClose(u)
  BY <1>3 DEF StartNext, StartClose, StartStmtClose
<1> QED  BY <1>1, <1>2, <1>3 DEF Start

LEMMA TypesCallSteps ==
    ASSUME LockInv, NEW u \in Users, CallSteps(u)
    PROVE  Types'
<1> USE DEF LockInv, Types, locals, closemu, ending, rows, statements, result,
            Return, Finish
<1>1. CASE GrabConn(u) \/ GrabTooLate(u) \/ CheckDone(u) \/ CallEnds(u)
  <2>1. 0 \in 0..maxBadConnRetries
    BY DEF maxBadConnRetries
  <2> QED  BY <1>1, <2>1 DEF GrabConn, GrabTooLate, CheckDone, CallEnds
<1>2. CASE CallSkipped(u) \/ RetryStmt(u)
  <2>1. again' \in [Users -> 0..maxBadConnRetries]
    BY <1>2 DEF CallSkipped, RetryStmt, maxBadConnRetries
  <2> QED  BY <1>2, <2>1 DEF CallSkipped, RetryStmt
<1>3. CASE QueryOpens(u) \/ Prepared(u)
  <2>1. 0 \in 0..maxBadConnRetries
    BY DEF maxBadConnRetries
  <2>2. CASE QueryOpens(u)
    <3>1. PICK r \in Rows :
            /\ rowsState' = [rowsState EXCEPT ![r] = "open"]
            /\ ownStmt' = [ownStmt EXCEPT ![r] = via[u] = None /\ again[u] > 0]
      BY <2>2 DEF QueryOpens
    <3>2. (via[u] = None /\ again[u] > 0) \in BOOLEAN
      OBVIOUS
    <3>3. ownStmt' \in [Rows -> BOOLEAN]
      BY <3>1, <3>2, Zenon
    <3> QED  BY <2>1, <2>2, <3>1, <3>3 DEF QueryOpens
  <2> QED  BY <1>3, <2>1, <2>2 DEF Prepared
<1>4. CASE ListStmt(u)
  <2>1. target[u] \in Stmts
    BY <1>4 DEF ListStmt, AllPlaced, Placed, Procs
  <2> QED  BY <1>4, <2>1 DEF ListStmt
<1>5. CASE ReadEnds(u)
  BY <1>5 DEF ReadEnds
<1> QED  BY <1>1, <1>2, <1>3, <1>4, <1>5 DEF CallSteps

LEMMA TypesRowsSteps ==
    ASSUME LockInv, NEW x \in Procs, RowsSteps(x)
    PROVE  Types'
<1> USE DEF LockInv, Types, locals, closemu, ending, rows, statements, result,
            Finish, Locked, Unlocked
<1>1. CASE LockRows(x)
  BY <1>1 DEF LockRows
<1>2. CASE CloseRows(x)
  BY <1>2 DEF CloseRows
<1>3. CASE RowsiClosed(x)
  BY <1>3 DEF RowsiClosed
<1>4. CASE CloseStmtClosed(x) \/ ReleaseRows(x)
  BY <1>4 DEF CloseStmtClosed, ReleaseRows
<1> QED  BY <1>1, <1>2, <1>3, <1>4 DEF RowsSteps

LEMMA TypesEndSteps ==
    ASSUME LockInv, NEW x \in Procs, EndSteps(x)
    PROVE  Types'
<1> USE DEF LockInv, Types, locals, closemu, ending, rows, statements, result,
            Finish, Locked, Unlocked
<1>1. CASE SwapDone(x) \/ Cancel(x)
  BY <1>1 DEF SwapDone, Cancel
<1>2. CASE LockTx(x) \/ DrainTx(x)
  BY <1>2 DEF LockTx, DrainTx
<1>3. CASE EndTx(x)
  <2>1. task[x] \in {"commit", "rollback"}
    BY <1>3 DEF EndTx, InDriver, AllPlaced, Placed, Busy
  <2> QED  BY <1>3, <2>1 DEF EndTx
<1>4. CASE ClosePrepared(x) \/ CloseNextStmt(x) \/ AllPreparedClosed(x)
  BY <1>4 DEF ClosePrepared, CloseNextStmt, AllPreparedClosed
<1>5. CASE ReleaseConn(x)
  BY <1>5 DEF ReleaseConn
<1> QED  BY <1>1, <1>2, <1>3, <1>4, <1>5 DEF EndSteps

LEMMA TypesStmtSteps ==
    ASSUME LockInv, NEW x \in Procs, StmtSteps(x)
    PROVE  Types'
<1> USE DEF LockInv, Types, locals, closemu, ending, rows, statements, result,
            Finish, AfterStmt, Locked, Unlocked
<1>1. CASE LockStmt(x)
  BY <1>1 DEF LockStmt
<1>2. CASE CloseStmt(x)
  BY <1>2 DEF CloseStmt
<1>3. CASE StmtClosed(x)
  BY <1>3 DEF StmtClosed
<1> QED  BY <1>1, <1>2, <1>3 DEF StmtSteps

LEMMA TypesOthers ==
    ASSUME LockInv,
           \/ AwaitTx \/ EndContext \/ UNCHANGED vars
           \/ \E x \in Procs : EnterDriver(x)
           \/ \E r \in Rows : AwaitRows(r) \/ EndQueryContext(r)
    PROVE  Types'
<1> USE DEF LockInv, Types, locals, closemu, ending, rows, statements, result
<1>1. CASE AwaitTx \/ EndContext \/ UNCHANGED vars
  BY <1>1 DEF AwaitTx, EndContext, vars
<1>2. ASSUME NEW x \in Procs, EnterDriver(x) PROVE Types'
  BY <1>2 DEF EnterDriver
<1>3. ASSUME NEW r \in Rows, AwaitRows(r) \/ EndQueryContext(r) PROVE Types'
  BY <1>3 DEF AwaitRows, EndQueryContext
<1> QED  BY <1>1, <1>2, <1>3


(* Everyone is where its kind may be. *)

\* A step is of one goroutine, the start of a Rows' awaitDone excepted.
Untouched(y) ==
    /\ pc'[y] = pc[y] /\ task'[y] = task[y] /\ target'[y] = target[y]
    /\ y \in Users => via'[y] = via[y]

LEMMA StepOfOne ==
    ASSUME LockInv, NEW x \in Procs,
           \/ x \in Users /\ (Start(x) \/ CallSteps(x)) /\ ~QueryOpens(x)
           \/ RowsSteps(x) \/ EndSteps(x) \/ StmtSteps(x) \/ EnterDriver(x)
           \/ x = Tx /\ AwaitTx
           \/ x \in Rows /\ (AwaitRows(x) \/ EndQueryContext(x))
    PROVE  \A y \in Procs \ {x} : Untouched(y)
<1> SUFFICES ASSUME NEW y \in Procs \ {x} PROVE Untouched(y)
  OBVIOUS
<1> USE DEF Untouched, locals, Goto, Finish, Return
<1>0. /\ pc \in [Procs -> Labels] /\ task \in [Procs -> Tasks]
      /\ target \in [Procs -> Rows \cup Stmts \cup {None}]
      /\ via \in [Users -> Stmts \cup {None}]
  BY DEF LockInv, EndInv, ControlOK, Types
<1>1. CASE x \in Users /\ Start(x)
  BY <1>0, <1>1 DEF Start, StartTask, StartStmt, StartNext, StartClose, StartCommit,
                    StartRollback, StartStmtClose
<1>2. CASE x \in Users /\ CallSteps(x) /\ ~QueryOpens(x)
  BY <1>0, <1>2 DEF CallSteps, GrabConn, GrabTooLate, CheckDone, CallEnds,
                    CallSkipped, RetryStmt, Prepared, ListStmt, ReadEnds
<1>3. CASE RowsSteps(x)
  BY <1>0, <1>3 DEF RowsSteps, LockRows, CloseRows, RowsiClosed, CloseStmtClosed,
                    ReleaseRows
<1>4. CASE EndSteps(x)
  BY <1>0, <1>4 DEF EndSteps, SwapDone, Cancel, LockTx, DrainTx, EndTx, ClosePrepared,
                    CloseNextStmt, AllPreparedClosed, ReleaseConn
<1>5. CASE StmtSteps(x)
  BY <1>0, <1>5 DEF StmtSteps, AfterStmt, LockStmt, CloseStmt, StmtClosed
<1>6. CASE EnterDriver(x) \/ (x = Tx /\ AwaitTx)
  BY <1>0, <1>6 DEF EnterDriver, AwaitTx
<1>7. CASE x \in Rows /\ (AwaitRows(x) \/ EndQueryContext(x))
  BY <1>0, <1>7 DEF AwaitRows, EndQueryContext
<1> QED  BY <1>1, <1>2, <1>3, <1>4, <1>5, <1>6, <1>7

LEMMA PlacedByOne ==
    ASSUME LockInv, NEW x \in Procs, \A y \in Procs \ {x} : Untouched(y),
           UNCHANGED rowsState, Placed(x)'
    PROVE  AllPlaced'
BY DEF LockInv, AllPlaced, Placed, Untouched

LEMMA PlacedStart ==
    ASSUME LockInv, NEW u \in Users, Start(u)
    PROVE  AllPlaced'
<1> USE DEF ending, rows, statements, result
<1>1. u \in Procs /\ u \notin Rows /\ u # Tx /\ \A y \in Procs \ {u} : Untouched(y)
  <2>1. u \in Procs /\ u \notin Rows /\ u # Tx
    BY NamesAssumption DEF Procs
  <2>2. ~QueryOpens(u)
    BY DEF Start, StartTask, StartStmt, StartNext, StartClose, StartCommit,
           StartRollback, StartStmtClose, QueryOpens, InDriver
  <2> QED  BY <2>1, <2>2, StepOfOne
<1>2. UNCHANGED rowsState
  BY DEF Start, StartTask, StartStmt, StartNext, StartClose, StartCommit,
         StartRollback, StartStmtClose
<1>3. /\ pc \in [Procs -> Labels] /\ task \in [Procs -> Tasks]
      /\ target \in [Procs -> Rows \cup Stmts \cup {None}]
      /\ via \in [Users -> Stmts \cup {None}] /\ listed \subseteq Stmts
      /\ Placed(u)
  BY <1>1 DEF LockInv, EndInv, ControlOK, Types, AllPlaced
<1>4. pc[u] = "idle" /\ via[u] = None /\ task[u] \in {"commit", "rollback"}
  BY <1>3 DEF Placed, Busy, Start, StartTask, StartStmt, StartNext, StartClose,
              StartCommit, StartRollback, StartStmtClose
<1>5. PICK l \in {"grab", "read", "closeRows", "swap", "closeStmt"} :
        pc' = [pc EXCEPT ![u] = l]
  BY DEF Start, StartTask, StartStmt, StartNext, StartClose, StartCommit,
         StartRollback, StartStmtClose, Goto
<1>6. /\ l = "read" => StartNext(u)
      /\ l = "closeRows" => StartClose(u)
      /\ l = "closeStmt" => StartStmtClose(u)
      /\ l = "swap" => StartCommit(u) \/ StartRollback(u)
  BY <1>1, <1>3, <1>5 DEF Start, StartTask, StartStmt, StartNext, StartClose,
         StartCommit, StartRollback, StartStmtClose, Goto
<1>7. pc'[u] = l /\ l \in UserPlaces
  BY <1>1, <1>3, <1>5 DEF UserPlaces, UserLabels, RowsLabels, EndLabels, StmtLabels
<1>8. Placed(u)'
  <2> USE <1>1, <1>2, <1>3, <1>4, <1>7
      DEF Placed, Busy, Closers, RowsLabels, StmtLabels
  <2>1. CASE l = "grab"
    BY <2>1
  <2>2. CASE l = "read"
    BY <1>6, <2>2 DEF StartNext
  <2>3. CASE l = "closeRows"
    BY <1>6, <2>3 DEF StartClose
  <2>4. CASE l = "closeStmt"
    BY <1>6, <2>4 DEF StartStmtClose
  <2>5. CASE l = "swap"
    BY <1>6, <2>5 DEF StartCommit, StartRollback
  <2> QED  BY <2>1, <2>2, <2>3, <2>4, <2>5
<1> QED  BY <1>1, <1>2, <1>8, PlacedByOne


\* Types of what the steps of one goroutine change.
LEMMA LocalTypes ==
    ASSUME LockInv
    PROVE  /\ pc \in [Procs -> Labels] /\ task \in [Procs -> Tasks]
           /\ target \in [Procs -> Rows \cup Stmts \cup {None}]
           /\ via \in [Users -> Stmts \cup {None}]
           /\ writer \in [Closemus -> Procs \cup {None}]
           /\ rowsState \in [Rows -> {"new", "open", "closed"}]
           /\ listed \subseteq Stmts /\ todo \subseteq Stmts
           /\ \A x \in Procs : Placed(x)
BY DEF LockInv, EndInv, ControlOK, Types, AllPlaced

LEMMA UserIsUser ==
    ASSUME NEW u \in Users
    PROVE  u \in Procs /\ u \notin Rows /\ u # Tx /\ u \notin Stmts
BY NamesAssumption DEF Procs

\* Nobody is inside a closemu without readers.
LEMMA NobodyInside ==
    ASSUME LockInv, NEW k \in Closemus, readers[k] = 0
    PROVE  \A i \in Parties : ~In(i, k)
<1>1. Cardinality(Inside(k)) = 0 /\ IsFiniteSet(Inside(k))
  BY PartiesFinite DEF LockInv, Counted
<1>2. Inside(k) = {}
  BY <1>1, FS_EmptySet
<1> QED  BY <1>2 DEF Inside

LEMMA PlacedCallSteps ==
    ASSUME LockInv, NEW u \in Users, CallSteps(u), ~QueryOpens(u)
    PROVE  AllPlaced'
<1>1. u \in Procs /\ u \notin Rows /\ u # Tx /\ \A y \in Procs \ {u} : Untouched(y)
  BY UserIsUser, StepOfOne
<1>2. UNCHANGED rowsState
  BY DEF CallSteps, GrabConn, GrabTooLate, CheckDone, CallEnds, CallSkipped,
         RetryStmt, Prepared, ListStmt, ReadEnds, rows
<1>3. Placed(u)'
  <2>0. Placed(u)
    BY <1>1, LocalTypes
  <2>1. pc[u] # "unborn" /\ {"idle", "grab", "granted", "call", "list", "closeRows"}
                              \subseteq UserPlaces
    BY DEF CallSteps, GrabConn, GrabTooLate, CheckDone, CallEnds, CallSkipped,
           RetryStmt, Prepared, ListStmt, ReadEnds, InDriver, UserPlaces, UserLabels,
           RowsLabels
  <2> USE <1>1, <1>2, <2>0, <2>1, LocalTypes
      DEF Placed, Busy, Closers, RowsLabels, StmtLabels, Goto, InDriver, locals
  <2>2. CASE GrabConn(u) \/ CallSkipped(u) \/ RetryStmt(u)
    BY <2>2 DEF GrabConn, CallSkipped, RetryStmt
  <2>3. ASSUME NEW K, Return(u, K), Goto(u, "idle") PROVE Placed(u)'
    BY <2>3 DEF Return
  <2>4. CASE GrabTooLate(u) \/ CallEnds(u)
    BY <2>3, <2>4 DEF GrabTooLate, CallEnds
  <2>5. CASE CheckDone(u)
    <3>1. CASE done
      BY <2>3, <2>5, <3>1 DEF CheckDone
    <3>2. CASE ~done
      BY <2>5, <3>2 DEF CheckDone
    <3> QED  BY <3>1, <3>2
  <2>6. CASE Prepared(u)
    BY <2>6 DEF Prepared, Return
  <2>7. CASE ListStmt(u)
    BY <2>7 DEF ListStmt, Finish
  <2>8. CASE ReadEnds(u)
    BY <2>8 DEF ReadEnds, Finish
  <2> QED  BY <2>2, <2>4, <2>5, <2>6, <2>7, <2>8 DEF CallSteps
<1> QED  BY <1>1, <1>2, <1>3, PlacedByOne

\* New Rows: nobody has worked on them, and their awaitDone was unborn.
LEMMA PlacedQueryOpens ==
    ASSUME LockInv, NEW u \in Users, QueryOpens(u)
    PROVE  AllPlaced'
<1> SUFFICES ASSUME NEW y \in Procs PROVE Placed(y)'
  BY DEF AllPlaced
<1>1. PICK r \in Rows :
         /\ rowsState[r] = "new"
         /\ rowsState' = [rowsState EXCEPT ![r] = "open"]
         /\ pc' = [pc EXCEPT ![u] = "idle", ![r] = "awaitRows"]
  BY DEF QueryOpens
<1>2. u \in Procs /\ u \notin Rows /\ u # Tx /\ r \in Procs /\ r \notin Users /\ r # Tx
  BY UserIsUser, NamesAssumption DEF Procs
<1>3. /\ UNCHANGED target /\ task' = [task EXCEPT ![u] = "rollback"]
      /\ via' = [via EXCEPT ![u] = None]
  BY DEF QueryOpens, Return
<1>4. Placed(y)
  BY <1>2, LocalTypes
<1> USE <1>1, <1>2, <1>3, <1>4, LocalTypes
    DEF Placed, Busy, Closers, RowsLabels, StmtLabels
<1>5. CASE y = u
  BY <1>5 DEF UserPlaces, UserLabels
<1>6. CASE y = r
  <2>1. pc[r] = "unborn"
    BY <1>6
  <2> QED  BY <1>6, <2>1 DEF RowsPlaces
<1>7. CASE y # u /\ y # r
  <2>1. pc'[y] = pc[y] /\ task'[y] = task[y] /\ (y \in Users => via'[y] = via[y])
    BY <1>7
  <2>2. pc[y] \in RowsLabels \cup {"read"} => target[y] # r
    OBVIOUS
  <2> QED  BY <2>1, <2>2
<1> QED  BY <1>5, <1>6, <1>7


\* A goroutine that is not working on a call is done, or goes to label l.
LEMMA PlacedFinish ==
    ASSUME LockInv, NEW x \in Procs, pc[x] \notin Busy \cup {"unborn"}, Finish(x),
           UNCHANGED <<via, rowsState>>
    PROVE  Placed(x)'
<1>1. /\ pc'[x] = (IF x \in Users THEN "idle" ELSE "gone") /\ task'[x] = "rollback"
      /\ Placed(x)
  BY LocalTypes DEF Finish, Goto
<1>2. x \in Users => x \notin Rows /\ x # Tx
  BY UserIsUser
<1>3. pc'[x] \in {"idle", "gone"} /\ (pc'[x] = "idle" <=> x \in Users)
  BY <1>1
<1>4. pc'[x] \notin RowsLabels \cup StmtLabels \cup Closers \cup Busy \cup {"read", "list"}
  BY <1>3 DEF RowsLabels, StmtLabels, Closers, Busy
<1>5. /\ x \in Users => pc'[x] \in UserPlaces
      /\ x \in Rows => pc'[x] \in RowsPlaces
      /\ x = Tx => pc'[x] \in TxPlaces
  BY <1>2, <1>3 DEF UserPlaces, UserLabels, RowsPlaces, TxPlaces
<1>6. /\ x \in Users => via'[x] = None
      /\ x \in Rows => rowsState'[x] # "new"
  BY <1>1 DEF Placed
<1> QED  BY <1>1, <1>4, <1>5, <1>6 DEF Placed

LEMMA PlacedGoto ==
    ASSUME LockInv, NEW x \in Procs, pc[x] \notin Busy \cup {"unborn"},
           NEW l \in RowsLabels \cup EndLabels \cup StmtLabels, Goto(x, l),
           UNCHANGED <<task, via>>,
           x \in Rows => l \in RowsLabels /\ rowsState'[x] # "new",
           x = Tx => l \notin RowsLabels,
           l \in RowsLabels => target'[x] \in Rows /\ rowsState'[target'[x]] # "new",
           l \in StmtLabels => target'[x] \in Stmts,
           l \in Closers => rowsState'[target'[x]] = "closed"
    PROVE  Placed(x)'
<1>1. pc'[x] = l /\ Placed(x)
  BY LocalTypes DEF Goto
<1>2. l \notin Busy \cup {"read", "list"}
  BY DEF RowsLabels, EndLabels, StmtLabels, Busy
<1>3. /\ x \in Users => pc'[x] \in UserPlaces
      /\ x \in Rows => pc'[x] \in RowsPlaces
      /\ x = Tx => pc'[x] \in TxPlaces
  BY <1>1 DEF UserPlaces, RowsPlaces, TxPlaces
<1> QED  BY <1>1, <1>2, <1>3 DEF Placed

\* Rows are closed when nobody reads them.
LEMMA PlacedCloseRows ==
    ASSUME LockInv, NEW x \in Procs, CloseRows(x)
    PROVE  AllPlaced'
<1> DEFINE r == target[x]
<1>1. /\ pc[x] = "drainRows" /\ readers[r] = 0 /\ Placed(x) /\ r \in Rows
      /\ rowsState[r] # "new"
  BY LocalTypes DEF CloseRows, Placed, RowsLabels
<1>2. \A y \in Procs \ {x} : Untouched(y)
  BY StepOfOne DEF RowsSteps
<1>3. CASE rowsState[r] = "closed"
  <2>1. UNCHANGED rowsState /\ Finish(x) /\ UNCHANGED via
    BY <1>3 DEF CloseRows
  <2>2. Placed(x)'
    BY <1>1, <2>1, PlacedFinish DEF Busy
  <2> QED  BY <1>2, <2>1, <2>2, PlacedByOne
<1>4. CASE rowsState[r] # "closed"
  <2>1. /\ rowsState' = [rowsState EXCEPT ![r] = "closed"]
        /\ pc' = [pc EXCEPT ![x] = "rowsClose"] /\ UNCHANGED <<task, target, via>>
    BY <1>4 DEF CloseRows, Goto
  <2>2. \A y \in Procs : pc[y] = "read" => target[y] # r
    <3>1. \A y \in Users : pc[y] = "read" => target[y] # r
      BY <1>1, NobodyInside DEF In, Parties, Closemus
    <3>2. \A y \in Procs : pc[y] = "read" => y \in Users
      BY LocalTypes
      DEF Placed, Procs, RowsPlaces, TxPlaces, RowsLabels, EndLabels, StmtLabels
    <3> QED  BY <3>1, <3>2
  <2> SUFFICES ASSUME NEW y \in Procs PROVE Placed(y)'
    BY DEF AllPlaced
  <2>3. Placed(y)
    BY LocalTypes
  <2>4. Placed(x)'
    <3>1. /\ rowsState'[r] = "closed"
          /\ x \in Rows => rowsState'[x] # "new"
      BY <1>1, <2>1, LocalTypes DEF Placed
    <3>2. x # Tx
      BY <1>1 DEF Placed, TxPlaces, EndLabels, StmtLabels
    <3> QED  BY <1>1, <2>1, <3>1, <3>2, PlacedGoto
             DEF Goto, Busy, RowsLabels, StmtLabels
  <2>5. CASE y # x
    BY <1>1, <2>1, <2>2, <2>3, <2>5, LocalTypes
    DEF Placed, Busy, Closers, RowsLabels
  <2> QED  BY <2>4, <2>5
<1> QED  BY <1>3, <1>4

LEMMA PlacedRowsSteps ==
    ASSUME LockInv, NEW x \in Procs, RowsSteps(x)
    PROVE  AllPlaced'
<1>1. CASE CloseRows(x)
  BY <1>1, PlacedCloseRows
<1>2. CASE ~CloseRows(x)
  <2>1. UNCHANGED rowsState
    BY <1>2 DEF RowsSteps, LockRows, RowsiClosed, CloseStmtClosed, ReleaseRows, rows
  <2>2. Placed(x)'
    <3>1. Placed(x) /\ pc[x] \in RowsLabels
      BY LocalTypes DEF RowsSteps, LockRows, CloseRows, RowsiClosed, CloseStmtClosed,
                        ReleaseRows, InDriver, RowsLabels
    <3>2. /\ pc[x] \notin Busy \cup {"unborn"} /\ x # Tx
          /\ target[x] \in Rows /\ rowsState[target[x]] # "new"
          /\ pc[x] \in Closers => rowsState[target[x]] = "closed"
          /\ x \in Rows => rowsState[x] # "new"
      BY <3>1 DEF Placed, Busy, RowsLabels, TxPlaces, EndLabels, StmtLabels
    <3>3. CASE ReleaseRows(x)
      BY <2>1, <3>2, <3>3, PlacedFinish DEF ReleaseRows
    <3>4. CASE ~ReleaseRows(x)
      <4>1. PICK l \in {"drainRows", "rowsStmt", "rowsRelease"} : Goto(x, l)
        BY <1>2, <3>4
        DEF RowsSteps, LockRows, RowsiClosed, CloseStmtClosed
      <4>2. UNCHANGED locals /\ (l \in Closers => pc[x] \in Closers)
        BY <1>2, <3>1, <3>4, <4>1, LocalTypes
        DEF RowsSteps, LockRows, RowsiClosed, CloseStmtClosed, InDriver, Closers, Goto
      <4>3. l \in RowsLabels \ StmtLabels
        BY DEF RowsLabels, StmtLabels
      <4> QED  BY <2>1, <3>2, <4>1, <4>2, <4>3, PlacedGoto DEF locals
    <3> QED  BY <3>3, <3>4
  <2> QED  BY <2>1, <2>2, StepOfOne, PlacedByOne
<1> QED  BY <1>1, <1>2

LEMMA PlacedEndSteps ==
    ASSUME LockInv, NEW x \in Procs, EndSteps(x)
    PROVE  AllPlaced'
<1>1. UNCHANGED rowsState /\ UNCHANGED via
  BY DEF EndSteps, SwapDone, Cancel, LockTx, DrainTx, EndTx, ClosePrepared,
         CloseNextStmt, AllPreparedClosed, ReleaseConn, locals, rows
<1>2. Placed(x) /\ pc[x] \in EndLabels /\ x \notin Rows
  <2>1. Placed(x) /\ pc[x] \in EndLabels
    BY LocalTypes
    DEF EndSteps, SwapDone, Cancel, LockTx, DrainTx, EndTx, ClosePrepared,
        CloseNextStmt, AllPreparedClosed, ReleaseConn, InDriver, EndLabels
  <2> QED  BY <2>1, EnderIsNoRows DEF LockInv
<1> USE <1>1, <1>2, LocalTypes DEF Placed, Busy, Goto, InDriver, locals
<1>3. CASE Finish(x)
  <2>1. Placed(x)'
    BY <1>3, PlacedFinish DEF EndLabels
  <2> QED  BY <2>1, StepOfOne, PlacedByOne
<1>4. CASE ~Finish(x)
  <2>1. UNCHANGED task
    BY <1>4 DEF EndSteps, SwapDone, Cancel, LockTx, DrainTx, EndTx, ClosePrepared,
                CloseNextStmt, AllPreparedClosed, ReleaseConn
  <2>2. PICK l \in EndLabels \cup {"closeStmt"} : Goto(x, l)
    BY <1>4 DEF EndSteps, SwapDone, Cancel, LockTx, DrainTx, EndTx, ClosePrepared,
                CloseNextStmt, AllPreparedClosed, ReleaseConn, EndLabels
  <2>3. l = "closeStmt" => target'[x] \in Stmts
    BY <1>4, <2>2 DEF EndSteps, SwapDone, Cancel, LockTx, DrainTx, EndTx,
       ClosePrepared, CloseNextStmt, AllPreparedClosed, ReleaseConn
  <2>4. l \in EndLabels \cup StmtLabels /\ l \notin RowsLabels \cup Closers
        /\ (l \in StmtLabels => l = "closeStmt")
    BY DEF EndLabels, StmtLabels, RowsLabels, Closers
  <2>5. pc[x] \notin Busy \cup {"unborn"}
    BY DEF EndLabels
  <2>6. Placed(x)'
    BY <2>1, <2>2, <2>3, <2>4, <2>5, PlacedGoto
  <2> QED  BY <2>6, StepOfOne, PlacedByOne
<1> QED  BY <1>3, <1>4

LEMMA PlacedStmtSteps ==
    ASSUME LockInv, NEW x \in Procs, StmtSteps(x)
    PROVE  AllPlaced'
<1>1. UNCHANGED rowsState /\ UNCHANGED via
  BY DEF StmtSteps, LockStmt, CloseStmt, StmtClosed, locals, rows
<1>2. Placed(x) /\ pc[x] \in StmtLabels /\ x \notin Rows
  <2>1. Placed(x) /\ pc[x] \in StmtLabels
    BY LocalTypes DEF StmtSteps, LockStmt, CloseStmt, StmtClosed, InDriver, StmtLabels
  <2> QED  BY <2>1, EnderIsNoRows DEF LockInv
<1>3. pc[x] \notin Busy \cup {"unborn"}
  BY <1>2 DEF StmtLabels, Busy
<1>4. CASE Finish(x)
  <2>1. Placed(x)'
    BY <1>1, <1>3, <1>4, PlacedFinish
  <2> QED  BY <1>1, <2>1, StepOfOne, PlacedByOne
<1>5. CASE ~Finish(x)
  <2>1. UNCHANGED <<task, target>>
    BY <1>5 DEF StmtSteps, LockStmt, CloseStmt, StmtClosed, AfterStmt, locals
  <2>2. PICK l \in {"drainStmt", "stmtClose", "closeNext"} : Goto(x, l)
    BY <1>5 DEF StmtSteps, LockStmt, CloseStmt, StmtClosed, AfterStmt
  <2>3. l \in EndLabels \cup StmtLabels /\ l \notin RowsLabels \cup Closers
    BY DEF EndLabels, StmtLabels, RowsLabels, Closers
  <2>4. target[x] \in Stmts
    BY <1>2 DEF Placed
  <2>5. Placed(x)'
    BY <1>1, <1>2, <1>3, <2>1, <2>2, <2>3, <2>4, PlacedGoto
  <2> QED  BY <1>1, <2>5, StepOfOne, PlacedByOne
<1> QED  BY <1>4, <1>5

LEMMA PlacedOthers ==
    ASSUME LockInv,
           \/ AwaitTx \/ EndContext \/ UNCHANGED vars
           \/ \E x \in Procs : EnterDriver(x)
           \/ \E r \in Rows : AwaitRows(r) \/ EndQueryContext(r)
    PROVE  AllPlaced'
<1>1. ASSUME UNCHANGED <<pc, locals, rowsState>> PROVE AllPlaced'
  BY <1>1, LocalTypes DEF AllPlaced, Placed, locals
<1>2. CASE EndContext \/ UNCHANGED vars
  BY <1>1, <1>2 DEF EndContext, vars, rows
<1>3. CASE \E x \in Procs : EnterDriver(x)
  BY <1>1, <1>3 DEF EnterDriver, rows
<1>4. CASE \E r \in Rows : EndQueryContext(r)
  BY <1>1, <1>4 DEF EndQueryContext
<1>5. CASE AwaitTx
  <2>1. Tx \in Procs /\ Tx \notin Users /\ Tx \notin Rows
    BY NamesAssumption DEF Procs
  <2>2. Placed(Tx)' /\ UNCHANGED rowsState
    BY <1>5, <2>1, LocalTypes
    DEF AwaitTx, Placed, Goto, locals, rows, Busy, Closers, EndLabels, RowsLabels,
        StmtLabels, TxPlaces
  <2> QED  BY <1>5, <2>1, <2>2, StepOfOne, PlacedByOne
<1>6. ASSUME NEW r \in Rows, AwaitRows(r) PROVE AllPlaced'
  <2>1. r \in Procs /\ r \notin Users /\ r # Tx
    BY NamesAssumption DEF Procs
  <2>2. Placed(r)' /\ UNCHANGED rowsState
    BY <1>6, <2>1, LocalTypes
    DEF AwaitRows, Placed, Goto, rows, Busy, Closers, RowsLabels, StmtLabels, RowsPlaces
  <2> QED  BY <1>6, <2>1, <2>2, StepOfOne, PlacedByOne
<1> QED  BY <1>2, <1>3, <1>4, <1>5, <1>6


(* A closemu has one writer. *)

HoldLabels == Closers \cup {"drainTx", "drainRows", "drainStmt", "stmtClose"}

LEMMA ExclusiveByOne ==
    ASSUME LockInv, NEW x \in Procs, \A y \in Procs \ {x} : Untouched(y),
           \A k \in Closemus : writer'[k] = writer[k] \/ writer[k] \in {None, x},
           \A k \in Closemus : Holds(x, k)' => writer'[k] = x
    PROVE  Exclusive'
<1> SUFFICES ASSUME NEW y \in Procs \ {x}, NEW k \in Closemus, Holds(y, k)'
             PROVE  writer'[k] = y
  BY DEF Exclusive
<1>1. writer[k] = y
  BY DEF LockInv, Exclusive, Holds, Untouched
<1> QED  BY <1>1, NoneIsNobody

\* Most steps lock and unlock nothing.
LEMMA ExclusiveKept ==
    ASSUME LockInv, NEW x \in Procs, \A y \in Procs \ {x} : Untouched(y),
           UNCHANGED writer,
           pc'[x] \notin HoldLabels \/ (pc'[x] = pc[x] /\ target'[x] = target[x])
    PROVE  Exclusive'
<1>1. \A k \in Closemus : Holds(x, k)' => Holds(x, k)
  BY DEF Holds, HoldLabels
<1> QED  BY <1>1, ExclusiveByOne DEF LockInv, Exclusive

\* Lock and unlock, at the end of the critical section.
LEMMA ExclusiveLock ==
    ASSUME LockInv, NEW x \in Procs, \A y \in Procs \ {x} : Untouched(y),
           NEW k \in Closemus, writer[k] = None, writer' = Locked(x, k),
           \A j \in Closemus : Holds(x, j)' => j = k
    PROVE  Exclusive'
BY LocalTypes, ExclusiveByOne DEF Locked

LEMMA ExclusiveUnlock ==
    ASSUME LockInv, NEW x \in Procs, \A y \in Procs \ {x} : Untouched(y),
           NEW k \in Closemus, Holds(x, k), writer' = Unlocked(k),
           pc'[x] \notin HoldLabels
    PROVE  Exclusive'
<1>1. writer[k] = x
  BY DEF LockInv, Exclusive
<1>2. \A j \in Closemus : ~Holds(x, j)'
  BY DEF Holds, HoldLabels
<1> QED  BY <1>1, <1>2, LocalTypes, ExclusiveByOne DEF Unlocked

LEMMA ExclusiveStart ==
    ASSUME LockInv, NEW u \in Users, Start(u)
    PROVE  Exclusive'
<1>1. UNCHANGED writer
  BY DEF Start, StartTask, StartStmt, StartNext, StartClose, StartCommit,
         StartRollback, StartStmtClose, closemu
<1>2. pc'[u] \notin HoldLabels /\ ~QueryOpens(u)
  BY LocalTypes, UserIsUser
  DEF Start, StartTask, StartStmt, StartNext, StartClose, StartCommit, StartRollback,
      StartStmtClose, Goto, HoldLabels, Closers, QueryOpens, InDriver
<1> QED  BY <1>1, <1>2, UserIsUser, StepOfOne, ExclusiveKept

LEMMA ExclusiveCallSteps ==
    ASSUME LockInv, NEW u \in Users, CallSteps(u)
    PROVE  Exclusive'
<1>1. UNCHANGED writer
  BY DEF CallSteps, GrabConn, GrabTooLate, CheckDone, CallEnds, CallSkipped,
         RetryStmt, QueryOpens, Prepared, ListStmt, ReadEnds, closemu
<1>2. CASE ~QueryOpens(u)
  <2>1. pc'[u] \notin HoldLabels \/ (pc'[u] = pc[u] /\ target'[u] = target[u])
    BY <1>2, LocalTypes, UserIsUser
    DEF CallSteps, GrabConn, GrabTooLate, CheckDone, CallEnds, CallSkipped, RetryStmt,
        Prepared, ListStmt, ReadEnds, Goto, Finish, HoldLabels, Closers
  <2> QED  BY <1>1, <1>2, <2>1, UserIsUser, StepOfOne, ExclusiveKept
<1>3. CASE QueryOpens(u)
  <2>1. PICK r \in Rows : pc' = [pc EXCEPT ![u] = "idle", ![r] = "awaitRows"]
    BY <1>3 DEF QueryOpens
  <2>2. UNCHANGED target
    BY <1>3 DEF QueryOpens
  <2>3. \A y \in Procs : pc'[y] = pc[y] \/ pc'[y] \notin HoldLabels
    BY <2>1, LocalTypes DEF HoldLabels, Closers
  <2>4. \A y \in Procs, k \in Closemus : Holds(y, k)' => Holds(y, k)
    BY <2>2, <2>3 DEF Holds, HoldLabels
  <2> QED  BY <1>1, <2>4 DEF LockInv, Exclusive
<1> QED  BY <1>2, <1>3

LEMMA ExclusiveRowsSteps ==
    ASSUME LockInv, NEW x \in Procs, RowsSteps(x)
    PROVE  Exclusive'
<1>1. /\ \A y \in Procs \ {x} : Untouched(y)
      /\ pc[x] \in RowsLabels
      /\ target[x] \in Rows /\ target[x] \in Closemus
  <2>1. pc[x] \in RowsLabels
    BY DEF RowsSteps, LockRows, CloseRows, RowsiClosed, CloseStmtClosed, ReleaseRows,
           InDriver, RowsLabels
  <2> QED  BY <2>1, LocalTypes, StepOfOne DEF Placed, Closemus
<1> USE <1>1, LocalTypes DEF Goto
<1>2. CASE LockRows(x)
  <2>1. /\ writer[target[x]] = None /\ writer' = Locked(x, target[x])
        /\ pc'[x] = "drainRows" /\ UNCHANGED target
    BY <1>2 DEF LockRows, locals
  <2>2. \A j \in Closemus : Holds(x, j)' => j = target[x]
    BY <2>1 DEF Holds
  <2> QED  BY <2>1, <2>2, ExclusiveLock
<1>3. ASSUME writer' = Unlocked(target[x]), Finish(x),
             pc[x] \in Closers \cup {"drainRows"}
      PROVE  Exclusive'
  <2>1. Holds(x, target[x]) /\ pc'[x] \notin HoldLabels
    BY <1>3 DEF Finish, Holds, HoldLabels, Closers
  <2> QED  BY <1>3, <2>1, ExclusiveUnlock
<1>4. ASSUME UNCHANGED <<writer, target>>, pc[x] \in Closers \cup {"drainRows"},
             NEW l \in Closers, Goto(x, l)
      PROVE  Exclusive'
  <2>1. \A j \in Closemus : Holds(x, j)' => Holds(x, j)
    BY <1>4, NamesAssumption DEF Holds, Closers
  <2> QED  BY <1>4, <2>1, ExclusiveByOne DEF LockInv, Exclusive
<1>5. CASE CloseRows(x)
  <2>1. CASE rowsState[target[x]] = "closed"
    BY <1>3, <1>5, <2>1 DEF CloseRows
  <2>2. CASE rowsState[target[x]] # "closed"
    BY <1>4, <1>5, <2>2 DEF CloseRows, Closers
  <2> QED  BY <2>1, <2>2
<1>6. CASE RowsiClosed(x) \/ CloseStmtClosed(x)
  <2>1. \E l \in Closers : Goto(x, l)
    BY <1>6 DEF RowsiClosed, CloseStmtClosed, Closers
  <2> QED  BY <1>4, <1>6, <2>1
           DEF RowsiClosed, CloseStmtClosed, InDriver, Closers, locals, closemu
<1>7. CASE ReleaseRows(x)
  BY <1>3, <1>7 DEF ReleaseRows, Closers
<1> QED  BY <1>2, <1>5, <1>6, <1>7 DEF RowsSteps

LEMMA ExclusiveEndSteps ==
    ASSUME LockInv, NEW x \in Procs, EndSteps(x)
    PROVE  Exclusive'
<1>1. /\ \A y \in Procs \ {x} : Untouched(y)
      /\ Tx \in Closemus
      /\ Tx \notin Rows \cup Stmts
  BY StepOfOne, NamesAssumption DEF Closemus
<1> USE <1>1, LocalTypes DEF Goto
<1>2. CASE LockTx(x)
  <2>1. \A j \in Closemus : Holds(x, j)' => j = Tx
    BY <1>2 DEF LockTx, Holds, Closers
  <2> QED  BY <1>2, <2>1, ExclusiveLock DEF LockTx
<1>3. CASE DrainTx(x)
  <2>1. Holds(x, Tx) /\ pc'[x] \notin HoldLabels
    BY <1>3 DEF DrainTx, Holds, HoldLabels, Closers
  <2> QED  BY <1>3, <2>1, ExclusiveUnlock DEF DrainTx
<1>4. CASE ~LockTx(x) /\ ~DrainTx(x)
  <2>1. UNCHANGED writer
    BY <1>4 DEF EndSteps, SwapDone, Cancel, EndTx, ClosePrepared, CloseNextStmt,
                AllPreparedClosed, ReleaseConn, closemu
  <2>2. pc'[x] \notin HoldLabels
    BY <1>4 DEF EndSteps, SwapDone, Cancel, EndTx, ClosePrepared, CloseNextStmt,
                AllPreparedClosed, ReleaseConn, Finish, HoldLabels, Closers
  <2> QED  BY <2>1, <2>2, ExclusiveKept
<1> QED  BY <1>2, <1>3, <1>4

LEMMA ExclusiveStmtSteps ==
    ASSUME LockInv, NEW x \in Procs, StmtSteps(x)
    PROVE  Exclusive'
<1>1. /\ \A y \in Procs \ {x} : Untouched(y)
      /\ pc[x] \in StmtLabels
      /\ target[x] \in Stmts /\ target[x] \in Closemus
  <2>1. pc[x] \in StmtLabels
    BY DEF StmtSteps, LockStmt, CloseStmt, StmtClosed, InDriver, StmtLabels
  <2> QED  BY <2>1, LocalTypes, StepOfOne DEF Placed, Closemus
<1> USE <1>1, LocalTypes DEF Goto
<1>2. CASE LockStmt(x)
  <2>1. /\ writer[target[x]] = None /\ writer' = Locked(x, target[x])
        /\ pc'[x] = "drainStmt" /\ UNCHANGED target
    BY <1>2 DEF LockStmt, locals
  <2>2. \A j \in Closemus : Holds(x, j)' => j = target[x]
    BY <2>1 DEF Holds, Closers
  <2> QED  BY <2>1, <2>2, ExclusiveLock
<1>3. CASE ~LockStmt(x) /\ AfterStmt(x) /\ ~UNCHANGED writer
  <2>1. Holds(x, target[x]) /\ writer' = Unlocked(target[x])
    BY <1>3 DEF StmtSteps, CloseStmt, StmtClosed, InDriver, Holds
  <2>2. pc'[x] \notin HoldLabels
    BY <1>3 DEF AfterStmt, Finish, HoldLabels, Closers
  <2> QED  BY <2>1, <2>2, ExclusiveUnlock
<1>4. CASE ~LockStmt(x) /\ UNCHANGED writer
  <2>1. \A j \in Closemus : Holds(x, j)' => Holds(x, j)
    BY <1>4 DEF StmtSteps, CloseStmt, StmtClosed, AfterStmt, Finish, InDriver, Holds,
                Closers
  <2> QED  BY <1>4, <2>1, ExclusiveByOne DEF LockInv, Exclusive
<1> QED  BY <1>2, <1>3, <1>4 DEF StmtSteps, CloseStmt, StmtClosed

LEMMA ExclusiveOthers ==
    ASSUME LockInv,
           \/ AwaitTx \/ EndContext \/ UNCHANGED vars
           \/ \E x \in Procs : EnterDriver(x)
           \/ \E r \in Rows : AwaitRows(r) \/ EndQueryContext(r)
    PROVE  Exclusive'
<1>1. ASSUME UNCHANGED <<pc, target, writer>> PROVE Exclusive'
  BY <1>1 DEF LockInv, Exclusive, Holds
<1>2. CASE EndContext \/ UNCHANGED vars
  BY <1>1, <1>2 DEF EndContext, vars, locals, closemu
<1>3. CASE \E x \in Procs : EnterDriver(x)
  BY <1>1, <1>3 DEF EnterDriver, locals, closemu
<1>4. CASE \E r \in Rows : EndQueryContext(r)
  BY <1>1, <1>4 DEF EndQueryContext, locals, closemu
<1>5. CASE AwaitTx
  BY <1>5, StepOfOne, ExclusiveKept, LocalTypes
  DEF Procs, AwaitTx, Goto, closemu, HoldLabels, Closers
<1>6. ASSUME NEW r \in Rows, AwaitRows(r) PROVE Exclusive'
  BY <1>6, StepOfOne, ExclusiveKept, LocalTypes
  DEF Procs, AwaitRows, Goto, closemu, HoldLabels, Closers
<1> QED  BY <1>2, <1>3, <1>4, <1>5, <1>6


(* Readers are counted. *)

LEMMA CountedKept ==
    ASSUME LockInv, UNCHANGED readers,
           \A i \in Parties, k \in Closemus : In(i, k)' <=> In(i, k)
    PROVE  Counted'
<1>1. \A k \in Closemus : Inside(k)' = Inside(k)
  BY DEF Inside
<1> QED  BY <1>1 DEF LockInv, Counted

\* i comes into k, and read-locks it.
LEMMA CountedEnter ==
    ASSUME LockInv, NEW i \in Parties, NEW k \in Closemus, readers' = RLocked(k),
           ~In(i, k), In(i, k)',
           \A j \in Parties, m \in Closemus : j # i \/ m # k => (In(j, m)' <=> In(j, m))
    PROVE  Counted'
<1>1. readers \in [Closemus -> Nat] /\ \A m \in Closemus : readers[m] = Cardinality(Inside(m))
  BY DEF LockInv, Counted
<1>2. Inside(k)' = Inside(k) \cup {i} /\ i \notin Inside(k)
  BY DEF Inside
<1>3. \A m \in Closemus \ {k} : Inside(m)' = Inside(m)
  BY DEF Inside
<1>4. Cardinality(Inside(k)') = Cardinality(Inside(k)) + 1
  BY <1>2, PartiesFinite, FS_AddElement
<1>5. readers'[k] = readers[k] + 1 /\ \A m \in Closemus \ {k} : readers'[m] = readers[m]
  BY <1>1 DEF RLocked
<1>6. readers' \in [Closemus -> Nat]
  BY <1>1 DEF RLocked
<1> QED  BY <1>1, <1>3, <1>4, <1>5, <1>6 DEF Counted

\* i leaves the closemus of K, and unlocks each of them once.
LEMMA CountedLeave ==
    ASSUME LockInv, NEW i \in Parties, NEW K, readers' = RUnlocked(K),
           \A k \in Closemus : k \in K => In(i, k) /\ ~In(i, k)',
           \A j \in Parties, m \in Closemus :
              j # i \/ m \notin K => (In(j, m)' <=> In(j, m))
    PROVE  Counted'
<1>1. readers \in [Closemus -> Nat] /\ \A m \in Closemus : readers[m] = Cardinality(Inside(m))
  BY DEF LockInv, Counted
<1>2. \A k \in Closemus : k \notin K => Inside(k)' = Inside(k) /\ readers'[k] = readers[k]
  BY <1>1 DEF Inside, RUnlocked
<1>3. ASSUME NEW k \in Closemus, k \in K
      PROVE  readers'[k] = Cardinality(Inside(k)') /\ readers'[k] \in Nat
  <2>1. Inside(k)' = Inside(k) \ {i} /\ i \in Inside(k)
    BY <1>3 DEF Inside
  <2>2. Cardinality(Inside(k)') = Cardinality(Inside(k)) - 1
    BY <2>1, PartiesFinite, FS_RemoveElement
  <2>3. Cardinality(Inside(k)') \in Nat
    BY <2>1, PartiesFinite, FS_RemoveElement, FS_CardinalityType
  <2>4. readers'[k] = readers[k] - 1
    BY <1>3 DEF RUnlocked
  <2> QED  BY <1>1, <2>2, <2>3, <2>4
<1>4. readers' = [k \in Closemus |-> readers'[k]]
  BY DEF RUnlocked
<1>5. readers' \in [Closemus -> Nat]
  BY <1>1, <1>2, <1>3, <1>4
<1> QED  BY <1>1, <1>2, <1>3, <1>5 DEF Counted

LEMMA UnreleasedKept ==
    ASSUME LockInv, NEW x \in Procs, \A y \in Procs \ {x} : Untouched(y),
           UNCHANGED rowsState,
           \/ pc[x] \notin Closers /\ pc'[x] \notin Closers
           \/ pc[x] \in Closers /\ pc'[x] \in Closers /\ target'[x] = target[x]
    PROVE  Unreleased' = Unreleased
<1>1. \A r \in Rows :
         (\E y \in Procs : target'[y] = r /\ pc'[y] \in Closers)
           <=> (\E y \in Procs : target[y] = r /\ pc[y] \in Closers)
  BY DEF Untouched
<1> QED  BY <1>1 DEF Unreleased, Closers

LEMMA InKept ==
    ASSUME LockInv, NEW x \in Procs, \A y \in Procs \ {x} : Untouched(y),
           Unreleased' = Unreleased
    PROVE  \A i \in Parties, k \in Closemus :
              i # x \/ i \notin Users => (In(i, k)' <=> In(i, k))
BY DEF In, Untouched, Procs

\* A step between places where no closemu is read-locked.
LEMMA CountedQuiet ==
    ASSUME LockInv, NEW x \in Procs, \A y \in Procs \ {x} : Untouched(y),
           UNCHANGED <<readers, via, rowsState>>,
           pc[x] \notin {"granted", "call", "read"} \cup Closers,
           pc'[x] \notin {"granted", "call", "read"} \cup Closers
    PROVE  Counted'
<1>1. Unreleased' = Unreleased
  BY UnreleasedKept
<1>2. \A i \in Parties, k \in Closemus :
         i # x \/ i \notin Users => (In(i, k)' <=> In(i, k))
  BY <1>1, InKept
<1>3. \A k \in Closemus : In(x, k)' <=> In(x, k)
  BY <1>1 DEF In
<1> QED  BY <1>2, <1>3, CountedKept


LEMMA CountedStart ==
    ASSUME LockInv, NEW u \in Users, Start(u)
    PROVE  Counted'
<1>1. /\ u \in Procs /\ u \in Parties /\ u \notin Rows /\ u # Tx /\ u \notin Stmts
      /\ Placed(u)
  BY UserIsUser, LocalTypes DEF Parties
<1>2. pc[u] = "idle" /\ ~QueryOpens(u)
  BY DEF Start, StartTask, StartStmt, StartNext, StartClose, StartCommit,
         StartRollback, StartStmtClose, QueryOpens, InDriver
<1>3. \A y \in Procs \ {u} : Untouched(y)
  BY <1>1, <1>2, StepOfOne
<1>4. UNCHANGED rowsState
  BY DEF Start, StartTask, StartStmt, StartNext, StartClose, StartCommit,
         StartRollback, StartStmtClose, rows
<1>5. pc'[u] \notin Closers
  BY <1>1, LocalTypes
  DEF Start, StartTask, StartStmt, StartNext, StartClose, StartCommit, StartRollback,
      StartStmtClose, Goto, Closers
<1>6. Unreleased' = Unreleased /\ via[u] = None
  BY <1>1, <1>2, <1>3, <1>4, <1>5, UnreleasedKept DEF Closers, Placed, Busy
<1>7. \A i \in Parties \ {u}, k \in Closemus : In(i, k)' <=> In(i, k)
  BY <1>1, <1>3, <1>6, InKept
<1>8. \A k \in Closemus : ~In(u, k)
  BY <1>1, <1>2, <1>6, NamesAssumption DEF In, Unreleased
<1>9. CASE StartStmt(u)
  <2>1. PICK s \in listed : readers' = RLocked(s) /\ via' = [via EXCEPT ![u] = s]
    BY <1>9 DEF StartStmt
  <2>2. s \in Stmts /\ s \in Closemus /\ s # Tx /\ s \notin Rows
    BY <2>1, LocalTypes, NamesAssumption DEF Closemus
  <2>3. pc'[u] = "grab" /\ via'[u] = s
    BY <1>1, <1>9, <2>1, LocalTypes DEF StartStmt, Goto
  <2>4. \A k \in Closemus : In(u, k)' <=> k = s
    BY <1>1, <1>6, <2>2, <2>3 DEF In, Unreleased
  <2> QED  BY <1>1, <1>7, <1>8, <2>1, <2>2, <2>4, CountedEnter
<1>10. CASE StartNext(u)
  <2>1. PICK r \in Rows : readers' = RLocked(r) /\ target' = [target EXCEPT ![u] = r]
    BY <1>10 DEF StartNext
  <2>2. r \in Closemus
    BY DEF Closemus
  <2>3. pc'[u] = "read" /\ via'[u] = None /\ target'[u] = r
    BY <1>1, <1>6, <1>10, <2>1, LocalTypes DEF StartNext, Goto
  <2>4. \A k \in Closemus : In(u, k)' <=> k = r
    BY <1>1, <1>6, <2>1, <2>3, NamesAssumption DEF In, Unreleased
  <2> QED  BY <1>1, <1>7, <1>8, <2>1, <2>2, <2>4, CountedEnter
<1>11. CASE ~StartStmt(u) /\ ~StartNext(u)
  <2>1. UNCHANGED <<readers, via>>
    BY <1>11 DEF Start, StartTask, StartClose, StartCommit, StartRollback,
                 StartStmtClose, closemu
  <2>2. pc'[u] \notin {"granted", "call", "read"} \cup Closers
    BY <1>1, <1>11, LocalTypes
    DEF Start, StartTask, StartClose, StartCommit, StartRollback, StartStmtClose,
        Goto, Closers
  <2> QED  BY <1>1, <1>2, <1>3, <1>4, <2>1, <2>2, CountedQuiet DEF Closers
<1> QED  BY <1>9, <1>10, <1>11

\* A call returns: the user leaves its statement, and tx.closemu if it had it.
LEMMA CountedReturn ==
    ASSUME LockInv, NEW u \in Users, \A y \in Procs \ {u} : Untouched(y),
           UNCHANGED rowsState, NEW K, Return(u, K), pc[u] \in Busy,
           K = IF pc[u] = "grab" THEN {} ELSE {Tx},
           pc'[u] \in {"idle", "list"}
    PROVE  Counted'
<1>1. /\ u \in Procs /\ u \in Parties /\ u \notin Rows /\ u # Tx /\ u \notin Stmts
      /\ via[u] \in Stmts \cup {None} /\ via'[u] = None
  BY UserIsUser, LocalTypes DEF Parties, Return
<1>2. Unreleased' = Unreleased
  BY <1>1, UnreleasedKept DEF Busy, Closers
<1>3. \A i \in Parties \ {u}, k \in Closemus : In(i, k)' <=> In(i, k)
  BY <1>1, <1>2, InKept
<1>4. \A k \in Closemus : ~In(u, k)'
  BY <1>1, <1>2, NamesAssumption DEF In, Unreleased
<1>5. \A k \in Closemus : In(u, k) <=> k \in K \cup ({via[u]} \ {None})
  BY <1>1, NamesAssumption DEF In, Unreleased, Busy, Closemus
<1>6. readers' = RUnlocked(K \cup ({via[u]} \ {None}))
  BY DEF Return
<1> QED  BY <1>1, <1>3, <1>4, <1>5, <1>6, CountedLeave

\* The read lock of tx.closemu passes to the Rows.
LEMMA CountedQueryOpens ==
    ASSUME LockInv, NEW u \in Users, QueryOpens(u)
    PROVE  Counted'
<1>1. PICK r \in Rows :
         /\ rowsState[r] = "new"
         /\ rowsState' = [rowsState EXCEPT ![r] = "open"]
         /\ pc' = [pc EXCEPT ![u] = "idle", ![r] = "awaitRows"]
  BY DEF QueryOpens
<1>2. /\ u \in Procs /\ u \in Parties /\ u \notin Rows /\ u # Tx /\ u \notin Stmts
      /\ via[u] \in Stmts \cup {None} /\ pc[u] = "call" /\ r \in Procs /\ r \in Parties
  BY UserIsUser, LocalTypes DEF Parties, QueryOpens, InDriver, Procs
<1>3. /\ UNCHANGED target /\ via' = [via EXCEPT ![u] = None]
      /\ readers' = RUnlocked({via[u]} \ {None})
  BY DEF QueryOpens, Return
<1>4. readers \in [Closemus -> Nat] /\ \A m \in Closemus : readers[m] = Cardinality(Inside(m))
  BY DEF LockInv, Counted
<1>5. \A y \in Procs \ {u, r} : pc'[y] = pc[y] /\ (y \in Users => via'[y] = via[y])
  BY <1>1, <1>3, LocalTypes
<1>6. \A y \in Procs : target[y] = r => pc[y] \notin Closers
  BY <1>1, LocalTypes DEF Placed, Closers, RowsLabels
<1>7. r \notin Unreleased
  BY <1>1, <1>6 DEF Unreleased, Closers
<1>8. Unreleased' = Unreleased \cup {r}
  <2>1. \A q \in Rows \ {r} : rowsState'[q] = rowsState[q]
    BY <1>1, LocalTypes
  <2>2. pc'[u] \notin Closers /\ pc'[r] \notin Closers /\ pc[u] \notin Closers
    BY <1>1, <1>2, LocalTypes DEF Closers
  <2>3. pc[r] \notin Closers
    BY <1>1, <1>2, LocalTypes DEF Placed, Closers
  <2>4. \A q \in Rows :
           (\E y \in Procs : target'[y] = q /\ pc'[y] \in Closers)
             <=> (\E y \in Procs : target[y] = q /\ pc[y] \in Closers)
    BY <1>3, <1>5, <2>2, <2>3
  <2>5. rowsState'[r] = "open"
    BY <1>1, LocalTypes
  <2> QED  BY <2>1, <2>4, <2>5 DEF Unreleased, Closers
<1>9. \A i \in Parties \ {u, r}, k \in Closemus : In(i, k)' <=> In(i, k)
  BY <1>3, <1>5, <1>8 DEF In, Parties, Procs
<1>10. \A k \in Closemus : ~In(u, k)'
  <2>1. pc'[u] \notin {"granted", "call", "read"} /\ via'[u] = None
    BY <1>1, <1>2, <1>3, LocalTypes
  <2> QED  BY <1>2, <2>1, NamesAssumption DEF In, Unreleased
<1>11. \A k \in Closemus : In(u, k) <=> k \in {Tx} \cup ({via[u]} \ {None})
  BY <1>2, NamesAssumption DEF In, Unreleased, Closemus
<1>12. \A k \in Closemus : ~In(r, k) /\ (In(r, k)' <=> k = Tx)
  <2>1. r \notin Users
    BY NamesAssumption
  <2> QED  BY <1>7, <1>8, <2>1 DEF In
<1>13. ASSUME NEW k \in Closemus
       PROVE  readers'[k] = Cardinality(Inside(k)') /\ readers'[k] \in Nat
  <2>1. CASE k = Tx
    <3>1. Inside(Tx)' = (Inside(Tx) \ {u}) \cup {r} /\ u \in Inside(Tx)
      BY <1>2, <1>9, <1>10, <1>11, <1>12, <2>1 DEF Inside
    <3>2. /\ Cardinality(Inside(Tx) \ {u}) = Cardinality(Inside(Tx)) - 1
          /\ IsFiniteSet(Inside(Tx) \ {u})
      BY <3>1, PartiesFinite, FS_RemoveElement
    <3>3. r \notin Inside(Tx) \ {u}
      BY <1>12, <2>1 DEF Inside
    <3>4. Cardinality(Inside(Tx)') = Cardinality(Inside(Tx) \ {u}) + 1
      BY <3>1, <3>2, <3>3, FS_AddElement
    <3>5. readers'[Tx] = readers[Tx] /\ readers[Tx] = Cardinality(Inside(Tx))
          /\ readers[Tx] \in Nat
      <4>1. Tx \notin {via[u]} \ {None}
        BY <1>2, NamesAssumption
      <4> QED  BY <1>3, <1>4, <2>1, <4>1 DEF RUnlocked
    <3> QED  BY <2>1, <3>2, <3>4, <3>5
  <2>2. CASE k # Tx /\ k = via[u] /\ via[u] # None
    <3>1. Inside(k)' = Inside(k) \ {u} /\ u \in Inside(k)
      BY <1>2, <1>9, <1>10, <1>11, <1>12, <2>2 DEF Inside
    <3>2. Cardinality(Inside(k)') = Cardinality(Inside(k)) - 1
      BY <3>1, PartiesFinite, FS_RemoveElement
    <3>3. Cardinality(Inside(k)') \in Nat
      BY <3>1, PartiesFinite, FS_RemoveElement, FS_CardinalityType
    <3>4. readers'[k] = readers[k] - 1
      BY <1>3, <2>2 DEF RUnlocked
    <3> QED  BY <1>4, <3>2, <3>3, <3>4
  <2>3. CASE k # Tx /\ k \notin {via[u]} \ {None}
    <3>1. Inside(k)' = Inside(k)
      BY <1>2, <1>9, <1>10, <1>11, <1>12, <2>3 DEF Inside
    <3> QED  BY <1>3, <1>4, <2>3, <3>1 DEF RUnlocked
  <2> QED  BY <2>1, <2>2, <2>3
<1>14. readers' \in [Closemus -> Nat]
  <2>1. readers' = [k \in Closemus |-> readers'[k]]
    BY <1>3 DEF RUnlocked
  <2> QED  BY <1>13, <2>1
<1> QED  BY <1>13, <1>14 DEF Counted


LEMMA CountedCallSteps ==
    ASSUME LockInv, NEW u \in Users, CallSteps(u)
    PROVE  Counted'
<1>1. CASE QueryOpens(u)
  BY <1>1, CountedQueryOpens
<1>2. CASE ~QueryOpens(u)
  <2>1. /\ u \in Procs /\ u \in Parties /\ u \notin Rows /\ u # Tx /\ u \notin Stmts
        /\ Placed(u)
    BY UserIsUser, LocalTypes DEF Parties
  <2>2. \A y \in Procs \ {u} : Untouched(y)
    BY <1>2, <2>1, StepOfOne
  <2>3. UNCHANGED rowsState
    BY <1>2 DEF CallSteps, GrabConn, GrabTooLate, CheckDone, CallEnds, CallSkipped,
                RetryStmt, Prepared, ListStmt, ReadEnds, rows
  <2>4. pc[u] \notin Closers /\ pc'[u] \notin Closers
    BY <1>2, <2>1, LocalTypes
    DEF CallSteps, GrabConn, GrabTooLate, CheckDone, CallEnds, CallSkipped, RetryStmt,
        Prepared, ListStmt, ReadEnds, InDriver, Goto, Finish, Closers
  <2>5. Unreleased' = Unreleased
    BY <2>1, <2>2, <2>3, <2>4, UnreleasedKept
  <2>6. \A i \in Parties \ {u}, k \in Closemus : In(i, k)' <=> In(i, k)
    BY <2>1, <2>2, <2>5, InKept
  <2> USE <2>1, LocalTypes DEF Goto, InDriver
  <2>7. CASE GrabConn(u)
    <3>1. /\ pc[u] = "grab" /\ pc'[u] = "granted" /\ UNCHANGED via
          /\ readers' = RLocked(Tx)
      BY <2>7 DEF GrabConn, locals
    <3>2. \A k \in Closemus : k # Tx => (In(u, k)' <=> In(u, k))
      BY <2>5, <3>1 DEF In
    <3>3. ~In(u, Tx) /\ In(u, Tx)' /\ Tx \in Closemus
      BY <2>5, <3>1, NamesAssumption DEF In, Unreleased, Closemus
    <3> QED  BY <2>6, <3>1, <3>2, <3>3, CountedEnter
  <2>8. CASE GrabTooLate(u) \/ CallEnds(u) \/ Prepared(u)
    <3>1. PICK K : Return(u, K) /\ K = IF pc[u] = "grab" THEN {} ELSE {Tx}
      BY <2>8 DEF GrabTooLate, CallEnds, Prepared
    <3>2. pc[u] \in Busy /\ pc'[u] \in {"idle", "list"}
      BY <2>8 DEF GrabTooLate, CallEnds, Prepared, Busy
    <3> QED  BY <2>2, <2>3, <3>1, <3>2, CountedReturn
  <2>9. CASE CheckDone(u)
    <3>1. CASE done
      BY <2>2, <2>3, <2>9, <3>1, CountedReturn DEF CheckDone, Busy
    <3>2. CASE ~done
      <4>1. /\ pc[u] = "granted" /\ pc'[u] = "call" /\ UNCHANGED <<readers, via>>
        BY <2>9, <3>2 DEF CheckDone
      <4>2. \A k \in Closemus : In(u, k)' <=> In(u, k)
        BY <2>5, <4>1 DEF In
      <4> QED  BY <2>6, <4>1, <4>2, CountedKept
    <3> QED  BY <3>1, <3>2
  <2>10. CASE CallSkipped(u)
    <3>1. UNCHANGED <<pc, via, target, readers>>
      BY <2>10 DEF CallSkipped, closemu
    <3>2. \A k \in Closemus : In(u, k)' <=> In(u, k)
      BY <2>5, <3>1 DEF In
    <3> QED  BY <2>6, <3>1, <3>2, CountedKept
  <2>11. CASE RetryStmt(u)
    <3>1. /\ pc[u] = "call" /\ pc'[u] = "grab" /\ UNCHANGED via
          /\ readers' = RUnlocked({Tx})
      BY <2>11 DEF RetryStmt
    <3>2. \A k \in Closemus : k # Tx => (In(u, k)' <=> In(u, k))
      BY <2>5, <3>1 DEF In
    <3>3. In(u, Tx) /\ ~In(u, Tx)'
      BY <2>5, <3>1, NamesAssumption DEF In, Unreleased, Closemus
    <3> QED  BY <2>6, <3>1, <3>2, <3>3, CountedLeave
  <2>12. CASE ListStmt(u)
    <3>1. UNCHANGED <<readers, via>> /\ pc'[u] = "idle" /\ pc[u] = "list"
      BY <2>12 DEF ListStmt, Finish, closemu
    <3> QED  BY <2>2, <2>3, <3>1, CountedQuiet DEF Closers
  <2>13. CASE ReadEnds(u)
    <3>1. /\ pc[u] = "read" /\ pc'[u] \in {"closeRows", "idle"} /\ UNCHANGED via
          /\ readers' = RUnlocked({target[u]})
      BY <2>13 DEF ReadEnds, Finish
    <3>2. via[u] = None /\ target[u] \in Rows /\ target[u] \in Closemus
      BY <3>1 DEF Placed, Busy, Closemus
    <3>3. \A k \in Closemus : (In(u, k) <=> k = target[u]) /\ ~In(u, k)'
      BY <2>5, <3>1, <3>2, NamesAssumption DEF In, Unreleased
    <3> QED  BY <2>6, <3>1, <3>3, CountedLeave
  <2> QED  BY <1>2, <2>7, <2>8, <2>9, <2>10, <2>11, <2>12, <2>13 DEF CallSteps
<1> QED  BY <1>1, <1>2

\* Rows are unreleased until the goroutine that closes them releases them.
LEMMA UnreleasedWhenClosed ==
    ASSUME LockInv, NEW x \in Procs, CloseRows(x), rowsState[target[x]] # "closed"
    PROVE  Unreleased' = Unreleased
<1>0. PICK r \in Rows : r = target[x]
  BY LocalTypes DEF CloseRows, Placed, RowsLabels
<1>1. rowsState[r] = "open"
  BY <1>0, LocalTypes DEF CloseRows, Placed, RowsLabels
<1>2. /\ rowsState' = [rowsState EXCEPT ![r] = "closed"]
      /\ pc[x] = "drainRows" /\ pc' = [pc EXCEPT ![x] = "rowsClose"] /\ UNCHANGED target
  BY <1>0 DEF CloseRows, Goto
<1>3. \A q \in Rows \ {r} : rowsState'[q] = rowsState[q]
  BY <1>2, LocalTypes
<1>4. \A q \in Rows \ {r} :
         (\E y \in Procs : target'[y] = q /\ pc'[y] \in Closers)
           <=> (\E y \in Procs : target[y] = q /\ pc[y] \in Closers)
  BY <1>0, <1>2, LocalTypes
<1>5. target'[x] = r /\ pc'[x] \in Closers
  BY <1>0, <1>2, LocalTypes DEF Closers
<1> QED  BY <1>1, <1>3, <1>4, <1>5 DEF Unreleased, Closers

LEMMA CountedCloseRows ==
    ASSUME LockInv, NEW x \in Procs, CloseRows(x), rowsState[target[x]] # "closed"
    PROVE  Counted'
<1>1. /\ pc[x] = "drainRows" /\ pc' = [pc EXCEPT ![x] = "rowsClose"]
      /\ UNCHANGED <<readers, target, via>>
  BY DEF CloseRows, Goto
<1>2. \A y \in Users : {pc[y], pc'[y]} \cap {"granted", "call", "read"} = {}
                          \/ pc'[y] = pc[y]
  BY <1>1, LocalTypes
<1>3. \A i \in Parties, k \in Closemus : In(i, k)' <=> In(i, k)
  BY <1>1, <1>2, UnreleasedWhenClosed DEF In
<1> QED  BY <1>1, <1>3, CountedKept

LEMMA CountedReleaseRows ==
    ASSUME LockInv, NEW x \in Procs, ReleaseRows(x)
    PROVE  Counted'
<1>0. PICK r \in Rows : r = target[x]
  BY LocalTypes DEF ReleaseRows, Placed, RowsLabels
<1>1. /\ pc[x] = "rowsRelease" /\ target[x] = r /\ r \in Closemus /\ r \notin Users
      /\ rowsState[r] = "closed" /\ r \in Parties
  BY <1>0, LocalTypes, NamesAssumption
  DEF ReleaseRows, Placed, Closers, Closemus, Parties
<1>2. /\ UNCHANGED <<rowsState, via>> /\ readers' = RUnlocked({Tx})
      /\ pc'[x] \in {"idle", "gone"}
  BY LocalTypes DEF ReleaseRows, Finish, Goto, rows
<1>3. \A y \in Procs \ {x} : Untouched(y)
  BY StepOfOne DEF RowsSteps
<1>4. \A y \in Procs \ {x} : pc[y] \in Closers => target[y] # r
  <2>1. ASSUME NEW y \in Procs, pc[y] \in Closers, target[y] = r PROVE writer[r] = y
    BY <1>1, <2>1 DEF LockInv, Exclusive, Holds
  <2>2. writer[r] = x
    BY <1>1, <2>1 DEF Closers
  <2> QED  BY <2>1, <2>2
<1>5. r \in Unreleased
  BY <1>1 DEF Unreleased
<1>6. Unreleased' = Unreleased \ {r}
  <2>1. \A q \in Rows \ {r} :
           (\E y \in Procs : target'[y] = q /\ pc'[y] \in Closers)
             <=> (\E y \in Procs : target[y] = q /\ pc[y] \in Closers)
    BY <1>1, <1>2, <1>3 DEF Untouched, Closers
  <2>2. ~\E y \in Procs : target'[y] = r /\ pc'[y] \in Closers
    BY <1>2, <1>3, <1>4 DEF Untouched, Closers
  <2> QED  BY <1>1, <1>2, <2>1, <2>2 DEF Unreleased, Closers
<1>7. \A i \in Users, k \in Closemus : In(i, k)' <=> In(i, k)
  <2>1. \A i \in Users : i \in Procs /\ i \notin Rows
    BY UserIsUser
  <2>2. \A i \in Users : i # x => Untouched(i)
    BY <1>3, <2>1
  <2> QED  BY <1>1, <1>2, <2>1, <2>2 DEF In, Untouched, Unreleased
<1>8. \A q \in Rows, k \in Closemus :
         q # r \/ k \notin {Tx} => (In(q, k)' <=> In(q, k))
  BY <1>6, NamesAssumption DEF In
<1>9. \A k \in Closemus : k \in {Tx} => In(r, k) /\ ~In(r, k)'
  BY <1>1, <1>5, <1>6 DEF In
<1> QED  BY <1>1, <1>2, <1>7, <1>8, <1>9, CountedLeave DEF Parties

LEMMA CountedRowsSteps ==
    ASSUME LockInv, NEW x \in Procs, RowsSteps(x)
    PROVE  Counted'
<1>1. \A y \in Procs \ {x} : Untouched(y)
  BY StepOfOne
<1> USE LocalTypes DEF Goto, InDriver
<1>2. CASE LockRows(x)
  <2>1. /\ UNCHANGED <<readers, via, rowsState>>
        /\ pc[x] = "closeRows" /\ pc'[x] = "drainRows"
    BY <1>2 DEF LockRows, locals, rows
  <2> QED  BY <1>1, <2>1, CountedQuiet DEF Closers
<1>3. CASE CloseRows(x) /\ rowsState[target[x]] = "closed"
  <2>1. /\ UNCHANGED <<readers, via, rowsState>>
        /\ pc[x] = "drainRows" /\ pc'[x] \in {"idle", "gone"}
    BY <1>3 DEF CloseRows, Finish
  <2> QED  BY <1>1, <2>1, CountedQuiet DEF Closers
<1>4. CASE CloseRows(x) /\ rowsState[target[x]] # "closed"
  BY <1>4, CountedCloseRows
<1>5. CASE RowsiClosed(x) \/ CloseStmtClosed(x)
  <2>1. /\ UNCHANGED <<readers, via, rowsState, target>>
        /\ pc[x] \in Closers /\ pc'[x] \in Closers
    BY <1>5 DEF RowsiClosed, CloseStmtClosed, locals, closemu, rows, Closers
  <2>2. Unreleased' = Unreleased
    BY <1>1, <2>1, UnreleasedKept
  <2>3. \A k \in Closemus : x \in Users => (In(x, k)' <=> In(x, k))
    BY <2>1, <2>2 DEF In, Closers
  <2> QED  BY <1>1, <2>1, <2>2, <2>3, InKept, CountedKept
<1>6. CASE ReleaseRows(x)
  BY <1>6, CountedReleaseRows
<1> QED  BY <1>2, <1>3, <1>4, <1>5, <1>6 DEF RowsSteps

LEMMA CountedOtherSteps ==
    ASSUME LockInv, NEW x \in Procs,
           EndSteps(x) \/ StmtSteps(x) \/ EnterDriver(x) \/ (x = Tx /\ AwaitTx)
             \/ (x \in Rows /\ (AwaitRows(x) \/ EndQueryContext(x)))
    PROVE  Counted'
<1>1. \A y \in Procs \ {x} : Untouched(y)
  BY StepOfOne
<1>2. UNCHANGED <<readers, via, rowsState>>
  BY DEF EndSteps, SwapDone, Cancel, LockTx, DrainTx, EndTx, ClosePrepared,
         CloseNextStmt, AllPreparedClosed, ReleaseConn, StmtSteps, LockStmt, CloseStmt,
         StmtClosed, EnterDriver, AwaitTx, AwaitRows, EndQueryContext, locals, closemu,
         rows
<1>3. CASE EnterDriver(x) \/ (x \in Rows /\ EndQueryContext(x))
  <2>1. UNCHANGED <<pc, target>>
    BY <1>3 DEF EnterDriver, EndQueryContext, locals
  <2>2. Unreleased' = Unreleased
    BY <1>2, <2>1 DEF Unreleased
  <2> QED  BY <1>2, <2>1, <2>2, CountedKept DEF In
<1>4. CASE ~EnterDriver(x) /\ ~(x \in Rows /\ EndQueryContext(x))
  <2>1. {pc[x], pc'[x]} \subseteq EndLabels \cup StmtLabels
            \cup {"idle", "gone", "awaitTx", "awaitRows", "closeRows"}
    <3>1. CASE EndSteps(x)
      BY <3>1, LocalTypes
      DEF EndSteps, SwapDone, Cancel, LockTx, DrainTx, EndTx, ClosePrepared,
          CloseNextStmt, AllPreparedClosed, ReleaseConn, Finish, Goto, InDriver,
          EndLabels, StmtLabels
    <3>2. CASE StmtSteps(x)
      BY <3>2, LocalTypes
      DEF StmtSteps, LockStmt, CloseStmt, StmtClosed, AfterStmt, Finish, Goto,
          InDriver, EndLabels, StmtLabels
    <3>3. CASE (x = Tx /\ AwaitTx) \/ (x \in Rows /\ AwaitRows(x))
      BY <3>3, LocalTypes DEF AwaitTx, AwaitRows, Goto, EndLabels
    <3> QED  BY <1>4, <3>1, <3>2, <3>3
  <2>2. \A l \in {pc[x], pc'[x]} : l \notin {"granted", "call", "read"} \cup Closers
    BY <2>1 DEF EndLabels, StmtLabels, Closers
  <2> QED  BY <1>1, <1>2, <2>2, CountedQuiet
<1> QED  BY <1>3, <1>4

(* No one is inside once the readers have been waited for. *)

LEMMA EmptyKept ==
    ASSUME LockInv, Drained' => Drained, Unreleased' \subseteq Unreleased,
           \A u \in Users : pc'[u] = "call" => pc[u] = "call"
    PROVE  StaysEmpty'
BY DEF LockInv, StaysEmpty

\* Whoever waited for the readers has set done, so a call finds it set.
LEMMA DrainedIsDone == LockInv /\ Drained => done
BY DEF LockInv, EndInv, EndersSetDone, Drained, Ending, EndLabels


DrainedLabels == {"end", "closePrepared", "closeNext", "release"}

LEMMA DrainedKept ==
    ASSUME LockInv, NEW x \in Procs, \A y \in Procs \ {x} : Untouched(y),
           UNCHANGED <<releases, stmtsLock>>, pc'[x] \notin DrainedLabels
    PROVE  Drained' => Drained
BY DEF Drained, DrainedLabels, Untouched

\* A step of one goroutine that does not come to the drained labels.
LEMMA EmptyByOne ==
    ASSUME LockInv, NEW x \in Procs, \A y \in Procs \ {x} : Untouched(y),
           UNCHANGED <<releases, stmtsLock>>, pc'[x] \notin DrainedLabels,
           Unreleased' \subseteq Unreleased, pc'[x] # "call" \/ pc[x] = "call"
    PROVE  StaysEmpty'
<1>1. \A u \in Users : pc'[u] = "call" => pc[u] = "call"
  BY UserIsUser DEF Untouched
<1> QED  BY <1>1, DrainedKept, EmptyKept

LEMMA EmptyStart ==
    ASSUME LockInv, NEW u \in Users, Start(u)
    PROVE  StaysEmpty'
<1>1. pc[u] = "idle" /\ UNCHANGED <<releases, stmtsLock, rowsState>> /\ ~QueryOpens(u)
  BY DEF Start, StartTask, StartStmt, StartNext, StartClose, StartCommit,
         StartRollback, StartStmtClose, QueryOpens, InDriver, result, rows
<1>2. pc'[u] \in {"grab", "read", "closeRows", "swap", "closeStmt"}
  BY LocalTypes, UserIsUser
  DEF Start, StartTask, StartStmt, StartNext, StartClose, StartCommit, StartRollback,
      StartStmtClose, Goto
<1>3. u \in Procs /\ \A y \in Procs \ {u} : Untouched(y)
  BY <1>1, UserIsUser, StepOfOne
<1>4. Unreleased' = Unreleased
  BY <1>1, <1>2, <1>3, UnreleasedKept DEF Closers
<1> QED  BY <1>1, <1>2, <1>3, <1>4, EmptyByOne DEF DrainedLabels

\* A call that finds the transaction open, or opens Rows: nobody has yet waited.
LEMMA EmptyCallSteps ==
    ASSUME LockInv, NEW u \in Users, CallSteps(u)
    PROVE  StaysEmpty'
<1>1. u \in Procs /\ UNCHANGED <<releases, stmtsLock>>
  BY UserIsUser
  DEF CallSteps, GrabConn, GrabTooLate, CheckDone, CallEnds, CallSkipped, RetryStmt,
      QueryOpens, Prepared, ListStmt, ReadEnds, result
<1>2. CASE QueryOpens(u)
  <2>1. ~Drained
    BY <1>2 DEF QueryOpens, InDriver, LockInv, StaysEmpty
  <2>2. \A y \in Procs : pc'[y] = pc[y] \/ pc'[y] \in {"idle", "awaitRows"}
    BY <1>2, LocalTypes DEF QueryOpens
  <2>3. ~Drained'
    BY <1>1, <2>1, <2>2 DEF Drained
  <2> QED  BY <2>3 DEF StaysEmpty
<1>3. CASE ~QueryOpens(u)
  <2>1. \A y \in Procs \ {u} : Untouched(y)
    BY <1>1, <1>3, StepOfOne
  <2>2. /\ pc[u] \in {"grab", "granted", "call", "list", "read"}
        /\ pc'[u] \in {"idle", "grab", "granted", "call", "list", "closeRows"}
        /\ UNCHANGED rowsState
    BY <1>1, <1>3, LocalTypes
    DEF CallSteps, GrabConn, GrabTooLate, CheckDone, CallEnds, CallSkipped, RetryStmt,
        Prepared, ListStmt, ReadEnds, InDriver, Goto, Finish, rows
  <2>3. Unreleased' = Unreleased
    BY <1>1, <2>1, <2>2, UnreleasedKept DEF Closers
  <2>4. CASE pc'[u] # "call" \/ pc[u] = "call"
    BY <1>1, <2>1, <2>2, <2>3, <2>4, EmptyByOne DEF DrainedLabels
  <2>5. CASE pc'[u] = "call" /\ pc[u] # "call"
    <3>1. ~done
      BY <1>1, <1>3, <2>5, LocalTypes
      DEF CallSteps, GrabConn, GrabTooLate, CheckDone, CallEnds, CallSkipped,
          RetryStmt, Prepared, ListStmt, ReadEnds, InDriver, Goto, Finish
    <3>2. ~Drained'
      BY <1>1, <2>1, <2>2, <3>1, DrainedKept, DrainedIsDone DEF DrainedLabels
    <3> QED  BY <3>2 DEF StaysEmpty
  <2> QED  BY <2>4, <2>5
<1> QED  BY <1>2, <1>3

LEMMA EmptyRowsSteps ==
    ASSUME LockInv, NEW x \in Procs, RowsSteps(x)
    PROVE  StaysEmpty'
<1>1. \A y \in Procs \ {x} : Untouched(y)
  BY StepOfOne
<1>2. UNCHANGED <<releases, stmtsLock>>
  BY DEF RowsSteps, LockRows, CloseRows, RowsiClosed, CloseStmtClosed, ReleaseRows,
         result
<1>3. pc'[x] \in Closers \cup {"drainRows", "idle", "gone"}
  BY LocalTypes
  DEF RowsSteps, LockRows, CloseRows, RowsiClosed, CloseStmtClosed, ReleaseRows,
      Goto, Finish, Closers
<1>4. Unreleased' \subseteq Unreleased
  <2>1. CASE CloseRows(x) /\ rowsState[target[x]] # "closed"
    BY <2>1, UnreleasedWhenClosed
  <2>2. CASE ~(CloseRows(x) /\ rowsState[target[x]] # "closed")
    <3>1. UNCHANGED rowsState
      BY <2>2 DEF RowsSteps, LockRows, CloseRows, RowsiClosed, CloseStmtClosed,
                  ReleaseRows, rows
    <3>2. pc'[x] \in Closers => pc[x] \in Closers /\ target'[x] = target[x]
      BY <2>2, LocalTypes
      DEF RowsSteps, LockRows, CloseRows, RowsiClosed, CloseStmtClosed, ReleaseRows,
          InDriver, Goto, Finish, Closers, locals
    <3>3. \A y \in Procs : pc'[y] \in Closers =>
                              pc[y] \in Closers /\ target'[y] = target[y]
      BY <1>1, <3>2 DEF Untouched
    <3> QED  BY <3>1, <3>3 DEF Unreleased, Closers
  <2> QED  BY <2>1, <2>2
<1> QED  BY <1>1, <1>2, <1>3, <1>4, EmptyByOne DEF Closers, DrainedLabels

\* The readers of tx.closemu have been waited for, and there are none.
LEMMA EmptyDrainTx ==
    ASSUME LockInv, NEW x \in Procs, DrainTx(x)
    PROVE  StaysEmpty'
<1>1. /\ readers[Tx] = 0 /\ pc[x] = "drainTx" /\ pc'[x] = "end" /\ UNCHANGED rowsState
      /\ Tx \in Closemus
  BY LocalTypes DEF DrainTx, Goto, rows, Closemus
<1>2. \A y \in Procs \ {x} : Untouched(y)
  BY StepOfOne DEF EndSteps
<1>3. \A i \in Parties : ~In(i, Tx)
  BY <1>1, NobodyInside
<1>4. Unreleased = {} /\ \A u \in Users : pc[u] # "call"
  BY <1>3 DEF In, Parties, Unreleased
<1>5. Unreleased' = Unreleased
  BY <1>1, <1>2, UnreleasedKept DEF Closers
<1>6. \A u \in Users : pc'[u] # "call"
  BY <1>1, <1>2, <1>4, UserIsUser DEF Untouched
<1> QED  BY <1>4, <1>5, <1>6 DEF StaysEmpty

LEMMA EmptyEndSteps ==
    ASSUME LockInv, NEW x \in Procs, EndSteps(x)
    PROVE  StaysEmpty'
<1>1. \A y \in Procs \ {x} : Untouched(y)
  BY StepOfOne
<1>2. /\ UNCHANGED rowsState /\ pc[x] \in EndLabels
      /\ pc'[x] \in EndLabels \cup {"closeStmt", "idle", "gone"}
  BY LocalTypes
  DEF EndSteps, SwapDone, Cancel, LockTx, DrainTx, EndTx, ClosePrepared, CloseNextStmt,
      AllPreparedClosed, ReleaseConn, InDriver, Goto, Finish, EndLabels, locals, rows
<1>3. Unreleased' = Unreleased
  BY <1>1, <1>2, UnreleasedKept DEF Closers, EndLabels
<1>4. pc'[x] # "call" /\ \A u \in Users : pc'[u] = "call" => pc[u] = "call"
  BY <1>1, <1>2, UserIsUser DEF Untouched, EndLabels
<1>5. CASE SwapDone(x) \/ Cancel(x) \/ LockTx(x)
  <2>1. UNCHANGED <<releases, stmtsLock>> /\ pc'[x] \notin DrainedLabels
    BY <1>5, LocalTypes DEF SwapDone, Cancel, LockTx, Goto, Finish, result,
                            DrainedLabels
  <2> QED  BY <1>1, <1>3, <1>4, <2>1, EmptyByOne
<1>6. CASE DrainTx(x)
  BY <1>6, EmptyDrainTx
<1>7. CASE EndTx(x) \/ ClosePrepared(x) \/ CloseNextStmt(x) \/ AllPreparedClosed(x)
             \/ ReleaseConn(x)
  <2>1. Drained
    BY <1>7 DEF EndTx, ClosePrepared, CloseNextStmt, AllPreparedClosed, ReleaseConn,
                InDriver, Drained
  <2> QED  BY <1>3, <1>4, <2>1, EmptyKept
<1> QED  BY <1>5, <1>6, <1>7 DEF EndSteps

LEMMA EmptyOtherSteps ==
    ASSUME LockInv, NEW x \in Procs,
           StmtSteps(x) \/ EnterDriver(x) \/ (x = Tx /\ AwaitTx)
             \/ (x \in Rows /\ (AwaitRows(x) \/ EndQueryContext(x)))
    PROVE  StaysEmpty'
<1>1. \A y \in Procs \ {x} : Untouched(y)
  BY StepOfOne
<1>2. UNCHANGED <<releases, stmtsLock>>
  BY DEF StmtSteps, LockStmt, CloseStmt, StmtClosed, EnterDriver, AwaitTx, AwaitRows,
         EndQueryContext, result
<1>3. CASE EnterDriver(x) \/ (x \in Rows /\ EndQueryContext(x))
  <2>1. UNCHANGED <<pc, target>>
    BY <1>3 DEF EnterDriver, EndQueryContext, locals
  <2>2. UNCHANGED rowsState
    BY <1>3 DEF EnterDriver, EndQueryContext, rows
  <2>3. Unreleased' = Unreleased /\ (Drained' <=> Drained)
    BY <1>2, <2>1, <2>2 DEF Unreleased, Drained
  <2> QED  BY <2>1, <2>3, EmptyKept
<1>4. CASE StmtSteps(x) \/ (x = Tx /\ AwaitTx) \/ (x \in Rows /\ AwaitRows(x))
  <2>1. /\ UNCHANGED rowsState
        /\ pc[x] \in StmtLabels \cup {"awaitTx", "awaitRows"}
        /\ pc'[x] \in StmtLabels \cup {"swap", "closeRows", "idle", "gone", "closeNext"}
        /\ pc'[x] = "closeNext" => stmtsLock = x
    BY <1>4, LocalTypes
    DEF StmtSteps, LockStmt, CloseStmt, StmtClosed, AfterStmt, AwaitTx, AwaitRows,
        Goto, Finish, InDriver, StmtLabels, rows
  <2>2. Unreleased' = Unreleased
    BY <1>1, <2>1, UnreleasedKept DEF Closers, StmtLabels
  <2>3. Drained' => Drained
    BY <1>1, <1>2, <2>1 DEF Drained, Untouched, StmtLabels
  <2>4. \A u \in Users : pc'[u] = "call" => pc[u] = "call"
    BY <1>1, <2>1, UserIsUser DEF Untouched, StmtLabels
  <2> QED  BY <2>2, <2>3, <2>4, EmptyKept
<1> QED  BY <1>3, <1>4

(* The whole invariant. *)

LEMMA LockStep == LockInv /\ [Next]_vars => LockInv'
<1> SUFFICES ASSUME LockInv, [Next]_vars PROVE LockInv'
  OBVIOUS
<1> USE DEF LockInv
<1>1. EndInv'
  BY EndStep
<1>2. /\ \A u \in Users : u \in Procs
      /\ Tx \in Procs /\ \A r \in Rows : r \in Procs
  BY DEF Procs
<1>3. ASSUME NEW u \in Users, Start(u) PROVE LockInv'
  BY <1>1, <1>3, TypesStart, PlacedStart, ExclusiveStart, CountedStart, EmptyStart
<1>4. ASSUME NEW u \in Users, CallSteps(u) PROVE LockInv'
  BY <1>1, <1>4, TypesCallSteps, PlacedCallSteps, PlacedQueryOpens, ExclusiveCallSteps,
     CountedCallSteps, EmptyCallSteps
<1>5. ASSUME NEW x \in Procs, RowsSteps(x) PROVE LockInv'
  BY <1>1, <1>5, TypesRowsSteps, PlacedRowsSteps, ExclusiveRowsSteps,
     CountedRowsSteps, EmptyRowsSteps
<1>6. ASSUME NEW x \in Procs, EndSteps(x) PROVE LockInv'
  BY <1>1, <1>6, TypesEndSteps, PlacedEndSteps, ExclusiveEndSteps,
     CountedOtherSteps, EmptyEndSteps
<1>7. ASSUME NEW x \in Procs, StmtSteps(x) PROVE LockInv'
  BY <1>1, <1>7, TypesStmtSteps, PlacedStmtSteps, ExclusiveStmtSteps,
     CountedOtherSteps, EmptyOtherSteps
<1>8. ASSUME NEW x \in Procs, EnterDriver(x) PROVE LockInv'
  BY <1>1, <1>8, TypesOthers, PlacedOthers, ExclusiveOthers, CountedOtherSteps,
     EmptyOtherSteps
<1>9. CASE AwaitTx
  BY <1>1, <1>2, <1>9, TypesOthers, PlacedOthers, ExclusiveOthers, CountedOtherSteps,
     EmptyOtherSteps
<1>10. ASSUME NEW r \in Rows, AwaitRows(r) \/ EndQueryContext(r) PROVE LockInv'
  BY <1>1, <1>2, <1>10, TypesOthers, PlacedOthers, ExclusiveOthers, CountedOtherSteps,
     EmptyOtherSteps
<1>11. CASE EndContext \/ UNCHANGED vars
  <2>1. UNCHANGED <<pc, target, via, readers, rowsState, releases, stmtsLock>>
    BY <1>11 DEF EndContext, vars, locals, closemu, rows, result
  <2>2. Unreleased' = Unreleased /\ (Drained' <=> Drained)
    BY <2>1 DEF Unreleased, Drained
  <2>3. Counted'
    BY <2>1, <2>2, CountedKept DEF In
  <2>4. StaysEmpty'
    BY <2>1, <2>2, EmptyKept
  <2> QED  BY <1>1, <1>11, <2>3, <2>4, TypesOthers, PlacedOthers, ExclusiveOthers
<1>12. ASSUME NEW u \in Users, UserStep(u) PROVE LockInv'
  BY <1>2, <1>4, <1>5, <1>6, <1>7, <1>8, <1>12 DEF UserStep
<1>13. CASE TxStep
  BY <1>2, <1>6, <1>7, <1>8, <1>9, <1>13 DEF TxStep
<1>14. ASSUME NEW r \in Rows, RowsStep(r) PROVE LockInv'
  BY <1>2, <1>5, <1>8, <1>10, <1>14 DEF RowsStep
<1> QED  BY <1>3, <1>10, <1>11, <1>12, <1>13, <1>14 DEF Next

LEMMA LockAlways == Spec => []LockInv
BY LockInit, LockStep, PTL DEF Spec

\* Every variable keeps its type.  The part that takes an argument is that
\* readers stay natural numbers: RUnlock is never called on a closemu that is
\* not read-locked, which would end the program.
THEOREM TxTypeCorrect == Spec => []TypeOK
BY LockAlways, LockTypes, PTL

\* Tx.closemu is read-locked once for every call under way and for every Rows
\* not yet released: however many goroutines close the same Rows - Rows.Close,
\* Rows.Next at the end, the Rows' awaitDone - releaseConn runs once.
THEOREM ReadLocksAccounted == Spec => []LocksAccounted
BY LockAlways, LockCounts, PTL

\* Tx.Commit, Tx.Rollback and the transaction's awaitDone wait for the readers of
\* closemu before they send COMMIT or ROLLBACK: they are then alone.
THEOREM EnderIsAlone == Spec => []AloneAtEnd
BY LockAlways, LockAlone, PTL

\* After releaseConn put the connection back into the pool, nobody queries, reads
\* or closes Rows of the transaction on it.
THEOREM ReleasedIsUnused == Spec => []NoUseAfterRelease
BY LockAlways, LockNoUse, PTL


(* The outcome is final. *)

\* On the way to the command: the outcome is not known yet.
BeforeSent == {"cancel", "lockTx", "drainTx", "end"}
SentOnce ==
    outcome # "none" => done /\ \A x \in Procs : pc[x] \notin BeforeSent

\* COMMIT or ROLLBACK is sent by the one that ends the transaction.
LEMMA SentByEndTx ==
    ASSUME LockInv, SentOnce, NEW x \in Procs, EndTx(x)
    PROVE  outcome = "none" /\ SentOnce'
<1>1. /\ pc[x] = "end" /\ pc'[x] \in {"closePrepared", "release"} /\ UNCHANGED done
      /\ \A y \in Procs \ {x} : Untouched(y)
  BY LocalTypes, StepOfOne DEF EndTx, EndSteps, InDriver, Goto, ending
<1>2. done /\ \A y \in Procs : Ending(y) => y = x
  BY <1>1 DEF LockInv, EndInv, EndersSetDone, EndsOnce, Ending, EndLabels
<1>3. \A y \in Procs : pc'[y] \notin BeforeSent
  BY <1>1, <1>2 DEF Untouched, Ending, BeforeSent, EndLabels
<1> QED  BY <1>1, <1>2, <1>3 DEF SentOnce, BeforeSent

LEMMA SentKept ==
    ASSUME LockInv, SentOnce, NEW x \in Procs, \A y \in Procs \ {x} : Untouched(y),
           UNCHANGED outcome, done => done',
           pc'[x] \in BeforeSent => ~done \/ pc[x] \in BeforeSent
    PROVE  SentOnce'
BY DEF SentOnce, Untouched

LEMMA SentByOne ==
    ASSUME LockInv, SentOnce, NEW x \in Procs,
           \/ x \in Users /\ (Start(x) \/ CallSteps(x)) /\ ~QueryOpens(x)
           \/ RowsSteps(x) \/ EndSteps(x) \/ StmtSteps(x) \/ EnterDriver(x)
           \/ x = Tx /\ AwaitTx
           \/ x \in Rows /\ (AwaitRows(x) \/ EndQueryContext(x)),
           ~EndTx(x)
    PROVE  SentOnce' /\ UNCHANGED <<outcome, bad>>
<1>1. \A y \in Procs \ {x} : Untouched(y)
  BY StepOfOne
<1> USE LocalTypes DEF Goto, Finish, InDriver, BeforeSent, ending, result, locals
<1>2. CASE x \in Users /\ Start(x)
  <2>1. /\ UNCHANGED <<outcome, bad, done>>
        /\ pc'[x] \notin BeforeSent
    BY <1>2 DEF Start, StartTask, StartStmt, StartNext, StartClose, StartCommit,
                StartRollback, StartStmtClose
  <2> QED  BY <1>1, <2>1, SentKept
<1>3. CASE x \in Users /\ CallSteps(x) /\ ~QueryOpens(x)
  <2>1. /\ UNCHANGED <<outcome, bad, done>>
        /\ pc'[x] \notin BeforeSent
    BY <1>3 DEF CallSteps, GrabConn, GrabTooLate, CheckDone, CallEnds, CallSkipped,
                RetryStmt, Prepared, ListStmt, ReadEnds
  <2> QED  BY <1>1, <2>1, SentKept
<1>4. CASE RowsSteps(x)
  <2>1. /\ UNCHANGED <<outcome, bad, done>>
        /\ pc'[x] \notin BeforeSent
    BY <1>4 DEF RowsSteps, LockRows, CloseRows, RowsiClosed, CloseStmtClosed,
                ReleaseRows
  <2> QED  BY <1>1, <2>1, SentKept
<1>5. CASE EndSteps(x)
  <2>1. UNCHANGED <<outcome, bad>> /\ (done => done')
    BY <1>5 DEF EndSteps, SwapDone, Cancel, LockTx, DrainTx, ClosePrepared,
                CloseNextStmt, AllPreparedClosed, ReleaseConn
  <2>2. pc'[x] \in BeforeSent => ~done \/ pc[x] \in BeforeSent
    BY <1>5 DEF EndSteps, SwapDone, Cancel, LockTx, DrainTx, ClosePrepared,
                CloseNextStmt, AllPreparedClosed, ReleaseConn
  <2> QED  BY <1>1, <2>1, <2>2, SentKept
<1>6. CASE StmtSteps(x)
  <2>1. /\ UNCHANGED <<outcome, bad, done>>
        /\ pc'[x] \notin BeforeSent
    BY <1>6 DEF StmtSteps, LockStmt, CloseStmt, StmtClosed, AfterStmt
  <2> QED  BY <1>1, <2>1, SentKept
<1>7. CASE EnterDriver(x) \/ (x \in Rows /\ EndQueryContext(x))
  <2>1. UNCHANGED <<outcome, bad, done, pc>>
    BY <1>7 DEF EnterDriver, EndQueryContext
  <2> QED  BY <1>1, <2>1, SentKept
<1>8. CASE (x = Tx /\ AwaitTx) \/ (x \in Rows /\ AwaitRows(x))
  <2>1. /\ UNCHANGED <<outcome, bad, done>>
        /\ pc'[x] \notin BeforeSent
    BY <1>8 DEF AwaitTx, AwaitRows
  <2> QED  BY <1>1, <2>1, SentKept
<1> QED  BY <1>2, <1>3, <1>4, <1>5, <1>6, <1>7, <1>8

LEMMA SentStep ==
    ASSUME LockInv, SentOnce, [Next]_vars
    PROVE  SentOnce' /\ (outcome # "none" => UNCHANGED <<outcome, bad>>)
<1>1. /\ \A u \in Users : u \in Procs
      /\ Tx \in Procs /\ \A r \in Rows : r \in Procs
  BY DEF Procs
<1>2. CASE \E x \in Procs : EndTx(x)
  BY <1>2, SentByEndTx
<1>3. CASE \E u \in Users : QueryOpens(u)
  <2>1. PICK u \in Users : QueryOpens(u)
    BY <1>3
  <2>2. UNCHANGED <<outcome, bad, done>>
    BY <2>1 DEF QueryOpens, result, ending
  <2>3. \A y \in Procs : pc'[y] = pc[y] \/ pc'[y] \notin BeforeSent
    BY <2>1, LocalTypes DEF QueryOpens, BeforeSent
  <2> QED  BY <2>2, <2>3 DEF SentOnce
<1>4. CASE EndContext \/ UNCHANGED vars
  <2>1. UNCHANGED <<outcome, bad, done, pc>>
    BY <1>4 DEF EndContext, vars, result, ending
  <2> QED  BY <2>1 DEF SentOnce
<1>5. ASSUME ~\E x \in Procs : EndTx(x), ~\E u \in Users : QueryOpens(u),
             ~(EndContext \/ UNCHANGED vars)
      PROVE  SentOnce' /\ (outcome # "none" => UNCHANGED <<outcome, bad>>)
  <2>1. \/ \E u \in Users : Start(u) \/ UserStep(u)
        \/ TxStep
        \/ \E r \in Rows : RowsStep(r) \/ EndQueryContext(r)
    BY <1>5 DEF Next
  <2>2. CASE \E u \in Users : Start(u) \/ UserStep(u)
    BY <1>1, <1>5, <2>2, SentByOne DEF UserStep
  <2>3. CASE TxStep
    BY <1>1, <1>5, <2>3, SentByOne DEF TxStep
  <2>4. CASE \E r \in Rows : RowsStep(r) \/ EndQueryContext(r)
    BY <1>1, <1>5, <2>4, SentByOne DEF RowsStep
  <2> QED  BY <2>1, <2>2, <2>3, <2>4
<1> QED  BY <1>2, <1>3, <1>4, <1>5

\* A transaction that was committed is not rolled back after it, nor sent a
\* second command, by Tx.Rollback, Tx.Commit or awaitDone.
THEOREM OutcomeIsFinal == Spec => OutcomeFinal
<1>1. Init => SentOnce
  BY DEF Init, SentOnce
<1>2. LockInv /\ SentOnce /\ [Next]_vars => SentOnce'
  BY SentStep
<1>3. LockInv /\ SentOnce /\ [Next]_vars
         => [outcome # "none" => UNCHANGED <<outcome, bad>>]_vars
  BY SentStep
<1> QED  BY <1>1, <1>2, <1>3, LockAlways, PTL DEF Spec, OutcomeFinal

=============================================================================

--------------------------- MODULE WatcherProofs ---------------------------
(***************************************************************************)
(* The watcher goroutine keeps to the call that is running, for any number *)
(* of calls, any configuration and any server.                             *)
(*                                                                         *)
(* WatcherInStep is not inductive: that a new call finds the connection    *)
(* unwatched follows from the way every call ends, and that depends on     *)
(* where a call of each kind may be.  Most steps of the client leave the   *)
(* watch alone; they are treated together (Undisturbed).                   *)
(***************************************************************************)
EXTENDS MySQLConn, TLAPS

\* The variables are the records they are.
ConnShape ==
    /\ conn = [closed |-> conn.closed, closech |-> conn.closech, canceled |-> conn.canceled,
               watching |-> conn.watching, reset |-> conn.reset, more |-> conn.more,
               seq |-> conn.seq]
    /\ conn.closed \in BOOLEAN /\ conn.closech \in BOOLEAN
    /\ conn.canceled \in BOOLEAN /\ conn.watching \in BOOLEAN
CallShape == call = [kind |-> call.kind, id |-> call.id, ctx |-> call.ctx, todo |-> call.todo]
RowsShape ==
    /\ rows = [open |-> rows.open, mc |-> rows.mc, done |-> rows.done, binary |-> rows.binary]
    /\ rows.open \in BOOLEAN
WatcherShape == watcher = [pc |-> watcher.pc, ctx |-> watcher.ctx, chan |-> watcher.chan]
Shapes == ConnShape /\ CallShape /\ RowsShape /\ WatcherShape

\* A watcher that has a context has taken it from the channel, and one that is
\* closing the connection has marked it.
Resting == {"none", "idle", "gone"}
WatcherOK ==
    /\ watcher.pc \in Resting => watcher.ctx = Background
    /\ watcher.pc \notin Resting => watcher.ctx # Background /\ watcher.chan = Background
    /\ watcher.pc \in {"closech", "closenet"} => conn.closed
    /\ conn.closech => conn.closed

\* Where no context is watched: between the calls, in those without a context,
\* and after finish.
Unwatched ==
    \/ pc = "contextCheck"
    \/ pc = "idle" /\ ~rows.open
    \/ call.kind \in {"commit", "rollback", "stmtClose"}
    \/ call.kind = "close" /\ pc # "closeFinish"
UnwatchedOK == Unwatched /\ ~conn.closed => ~conn.watching

\* Where a query may be, and what it has left to send.
QueryPcs == {"watch", "check", "write", "unanswered", "header", "columns", "rows",
             "nextResultSet", "infileData", "infileEnd", "infileAbort", "infileOK", "infileSkip",
             "finish", "idle", "gone"}
LongDataTodos == {<<"longData", "execute">>, <<"longData", "argError">>}
QueryTodos == LongDataTodos \cup {<<"query">>, <<"execute">>, <<"argError">>}
PlacesOK ==
    /\ call.kind \in QueryKinds =>
          /\ pc \in QueryPcs
          /\ call.todo \in QueryTodos
          /\ pc = "unanswered" => call.todo \in LongDataTodos
    /\ call.kind \in {"next", "nextResult"} => rows.open
    /\ pc = "watch" => call.kind \in ContextKinds \cup {"connect"}
    /\ pc = "dial" => call.kind = "connect" /\ watcher.pc = "none"

WatchInv == Shapes /\ WatcherOK /\ WatcherInStep /\ UnwatchedOK /\ PlacesOK

-----------------------------------------------------------------------------
(* Steps that leave the watch alone *)

\* The connection is watched as before, and closed at most.
ConnKept ==
    /\ ConnShape'
    /\ conn'.watching = conn.watching /\ conn'.canceled = conn.canceled
    /\ conn.closed => conn'.closed
    /\ conn'.closech => conn.closech \/ conn'.closed

\* The call goes on at pc', or has returned.
CallKept ==
    /\ CallShape'
    /\ call'.kind = call.kind /\ call'.ctx = call.ctx
    /\ pc' \notin {"dial", "watch", "contextCheck"}
    /\ pc' = "idle" => rows'.open \/ call.kind \in {"commit", "rollback", "stmtClose", "close"}
    /\ call.kind \in QueryKinds =>
          /\ pc' \in QueryPcs
          /\ call'.todo \in QueryTodos
          /\ pc' = "unanswered" => call'.todo \in LongDataTodos
RowsKept == RowsShape' /\ (rows.open => rows'.open)

\* What such a step keeps.
Keeps == WatchInv' /\ conn'.canceled = conn.canceled

LEMMA Undisturbed ==
    ASSUME WatchInv, ConnKept, CallKept, RowsKept, UNCHANGED watcher, pc # "closeFinish"
    PROVE  Keeps
<1> USE DEF Keeps, WatchInv, ConnKept, CallKept, RowsKept
<1>1. Shapes'
  BY DEF Shapes, WatcherShape
<1>2. WatcherOK' /\ WatcherInStep'
  BY DEF Shapes, ConnShape, WatcherOK, WatcherInStep
<1>3. UnwatchedOK'
  BY DEF Shapes, ConnShape, RowsShape, UnwatchedOK, Unwatched
<1>4. PlacesOK'
  BY DEF PlacesOK
<1> QED  BY <1>1, <1>2, <1>3, <1>4

\* What a call returns when it fails.
Errors == {"noWrite", "invalid", "ctx", "badConn", "sync", "local", "tooLarge", "err",
           "malformed", "eof"}
Fails == \E e \in Errors : Return(e)

\* A query has one command to send, and is not the choice of a character set.
LEMMA ReturnKeeps ==
    ASSUME WatchInv, NEW e, Return(e), pc # "dial",
           \/ e \in Errors
           \/ call.kind \notin QueryKinds
           \/ rows'.open,
           rows.open => rows'.open
    PROVE  CallKept
<1>1. call.kind \in QueryKinds => ~CharsetLeft
  BY DEF WatchInv, PlacesOK, QueryTodos, LongDataTodos, CharsetLeft
<1>2. CASE e # "ok" /\ CharsetLeft
  BY <1>1, <1>2 DEF Return, WatchInv, Shapes, CallShape, CallKept
<1>3. CASE ~(e # "ok" /\ CharsetLeft)
  <2>1. pc' = After(e) /\ UNCHANGED call
    BY <1>3 DEF Return
  <2>2. call.kind \in {"next", "nextResult"} => rows'.open
    BY DEF WatchInv, PlacesOK
  <2>3. e \in Errors => e # "ok"
    BY DEF Errors
  <2>4. After(e) \in {"idle", "abandon", "finish"}
    BY DEF After
  <2>5. After(e) = "abandon" => call.kind \notin QueryKinds
    BY DEF After, QueryKinds
  <2>6. After(e) = "idle" => rows'.open \/ call.kind \in {"commit", "rollback", "stmtClose", "close"}
    BY <2>2, <2>3 DEF After, QueryKinds
  <2> QED  BY <2>1, <2>4, <2>5, <2>6 DEF CallKept, QueryPcs, WatchInv, Shapes, CallShape, PlacesOK
<1> QED  BY <1>2, <1>3

LEMMA GoOnKeeps ==
    ASSUME WatchInv, NEW next, GoOn(next),
           next \notin {"dial", "watch", "contextCheck", "idle"},
           call.kind \in QueryKinds => next \in QueryPcs \ {"unanswered"}
    PROVE  CallKept
BY DEF GoOn, CallKept, WatchInv, Shapes, CallShape, PlacesOK

LEMMA FailsKeeps ==
    ASSUME WatchInv, Fails, pc # "dial", RowsKept
    PROVE  CallKept
BY ReturnKeeps DEF Fails, RowsKept

\* Writing a packet, by the connection c as writeCommandPacket prepares it, and
\* failing to read one.
Same(c) ==
    /\ c = [closed |-> c.closed, closech |-> c.closech, canceled |-> c.canceled,
            watching |-> c.watching, reset |-> c.reset, more |-> c.more, seq |-> c.seq]
    /\ c.closed = conn.closed /\ c.closech = conn.closech
    /\ c.canceled = conn.canceled /\ c.watching = conn.watching

LEMMA SameCleaned ==
    ASSUME ConnShape, NEW c, Same(c), conn' = Cleanup([c EXCEPT !.reset = FALSE])
    PROVE  ConnKept
<1>1. CASE conn.closed
  BY <1>1 DEF Cleanup, ConnShape, Same, ConnKept
<1>2. CASE ~conn.closed
  BY <1>2 DEF Cleanup, ConnShape, Same, ConnKept
<1> QED  BY <1>1, <1>2

LEMMA Writes ==
    ASSUME WatchInv, NEW c, Same(c), NEW m, NEW next, WritePacket(c, m, next)
    PROVE  ConnKept /\ (GoOn(next) \/ Fails)
<1>0. ConnShape
  BY DEF WatchInv, Shapes
<1>1. CASE CheckFails(c)
  BY <1>0, <1>1, SameCleaned DEF CheckFails, Fails, Errors
<1>2. CASE WriteSucceeds(c, m, next)
  <2>1. conn' = [c EXCEPT !.reset = FALSE, !.seq = @ + 1] /\ GoOn(next)
    BY <1>2 DEF WriteSucceeds
  <2> QED  BY <1>0, <2>1 DEF ConnShape, Same, ConnKept
<1>3. CASE NothingWritten(c)
  <2>1. conn' = [c EXCEPT !.reset = FALSE] /\ Fails
    BY <1>3 DEF NothingWritten, Fails, Errors
  <2> QED  BY <1>0, <2>1 DEF ConnShape, Same, ConnKept
<1>4. CASE PartlyWritten(c)
  <2>1. Fails
    BY <1>4 DEF PartlyWritten, Fails, Errors
  <2>2. CASE c.canceled
    <3>1. conn' = [c EXCEPT !.reset = FALSE]
      BY <1>4, <2>2 DEF PartlyWritten
    <3> QED  BY <1>0, <2>1, <3>1 DEF ConnShape, Same, ConnKept
  <2>3. CASE ~c.canceled
    BY <1>0, <1>4, <2>1, <2>3, SameCleaned DEF PartlyWritten
  <2> QED  BY <2>2, <2>3
<1> QED  BY <1>1, <1>2, <1>3, <1>4 DEF WritePacket

LEMMA Busy ==
    ASSUME WatchInv, BusyBuffer
    PROVE  ConnKept /\ Fails
BY DEF BusyBuffer, WatchInv, Shapes, ConnShape, ConnKept, Fails, Errors

LEMMA Numbers ==
    ASSUME WatchInv, NEW s
    PROVE  Same(conn) /\ Same([conn EXCEPT !.seq = s])
BY DEF WatchInv, Shapes, ConnShape, Same

LEMMA Commanded ==
    ASSUME WatchInv, NEW kind, NEW next, WriteCommand(kind, next)
    PROVE  ConnKept /\ (GoOn(next) \/ Fails)
<1>1. CASE BusyBuffer
  BY <1>1, Busy
<1>2. CASE ~BusyBuffer
  <2>1. PICK m : WritePacket([conn EXCEPT !.seq = 0], m, next)
    BY <1>2 DEF WriteCommand
  <2>2. Same([conn EXCEPT !.seq = 0])
    BY Numbers
  <2> QED  BY <2>1, <2>2, Writes
<1> QED  BY <1>1, <1>2

LEMMA ReadingFails ==
    ASSUME WatchInv, ReadFails \/ OutOfSync
    PROVE  ConnKept /\ Fails
<1> USE DEF WatchInv, Shapes, ConnShape, ConnKept, Fails, Errors
<1>1. CASE ReadFails
  BY <1>1 DEF ReadFails, Cleanup
<1>2. CASE OutOfSync
  BY <1>2 DEF OutOfSync
<1> QED  BY <1>1, <1>2

\* Reading a packet.
LEMMA Reads ==
    ASSUME WatchInv, NEW b,
           conn' = Counted(conn) \/ conn' = [Counted(conn) EXCEPT !.more = b] \/ UNCHANGED conn
    PROVE  ConnKept
BY DEF WatchInv, Shapes, ConnShape, ConnKept, Counted

LEMMA RowsStay ==
    ASSUME WatchInv, NEW b, NEW d,
           \/ UNCHANGED rows
           \/ rows' = [rows EXCEPT !.mc = b]
           \/ rows' = [rows EXCEPT !.done = d]
           \/ rows' = [rows EXCEPT !.mc = b, !.done = d]
           \/ rows' = [rows EXCEPT !.done = d, !.mc = b]
    PROVE  RowsKept
BY DEF WatchInv, Shapes, RowsShape, RowsKept

LEMMA CommandDoneKeeps ==
    ASSUME WatchInv, CommandDone, call.kind \notin QueryKinds, pc # "dial", RowsKept
    PROVE  CallKept
<1>1. CASE Return("ok")
  BY <1>1, ReturnKeeps DEF RowsKept
<1>2. CASE ~Return("ok")
  <2>1. PICK t : call' = [call EXCEPT !.todo = t]
    BY <1>2 DEF CommandDone
  <2>2. pc' \in {"check", "write"}
    BY <1>2 DEF CommandDone
  <2> QED  BY <2>1, <2>2 DEF WatchInv, Shapes, CallShape, CallKept
<1> QED  BY <1>1, <1>2

LEMMA AfterResultKeeps ==
    ASSUME WatchInv, NEW more, AfterResult(more), pc \in {"header", "infileOK", "rows"}
    PROVE  CallKept /\ RowsKept
<1>1. CASE Iterating /\ call.kind = "stmtQuery"
  <2>1. Return("ok") /\ rows' = [rows EXCEPT !.open = TRUE, !.done = TRUE, !.binary = TRUE]
    BY <1>1 DEF AfterResult
  <2>2. RowsKept /\ rows'.open
    BY <2>1 DEF WatchInv, Shapes, RowsShape, RowsKept
  <2> QED  BY <2>1, <2>2, ReturnKeeps
<1>2. CASE Iterating /\ call.kind # "stmtQuery"
  <2>1. GoOn("nextResultSet") /\ rows' = [rows EXCEPT !.mc = TRUE, !.done = TRUE]
    BY <1>2 DEF AfterResult
  <2> QED  BY <2>1, GoOnKeeps, RowsStay DEF QueryPcs
<1>3. CASE ~Iterating
  <2>1. UNCHANGED rows /\ (GoOn("header") \/ CommandDone) /\ call.kind \notin QueryKinds
    BY <1>3 DEF AfterResult, Iterating
  <2>2. RowsKept
    BY <2>1, RowsStay
  <2> QED  BY <2>1, <2>2, GoOnKeeps, CommandDoneKeeps
<1> QED  BY <1>1, <1>2, <1>3

-----------------------------------------------------------------------------
(* The steps of the calls *)

SendingSteps ==
    CheckClosed \/ WriteQuery \/ WriteUnanswered \/ Unanswered \/ ArgumentError
    \/ InfileRequest \/ InfileData \/ InfileEnd \/ InfileSkip

LEMMA Sending ==
    ASSUME WatchInv, SendingSteps
    PROVE  Keeps /\ ConnKept
<1> SUFFICES ConnKept /\ CallKept /\ RowsKept /\ UNCHANGED watcher /\ pc # "closeFinish"
  BY Undisturbed
<1>0. UNCHANGED <<rows, watcher>> /\ RowsKept
  <2>1. UNCHANGED <<rows, watcher>>
    BY DEF SendingSteps, CheckClosed, WriteQuery, WriteUnanswered, Unanswered, ArgumentError,
           InfileRequest, InfileData, InfileEnd, InfileSkip, Rest
  <2> QED  BY <2>1, RowsStay
<1>1. CASE CheckClosed
  <2>1. pc = "check" /\ UNCHANGED conn /\ (Fails \/ GoOn("write"))
    BY <1>1 DEF CheckClosed, Fails, Errors
  <2> QED  BY <1>0, <2>1, Reads, FailsKeeps, GoOnKeeps DEF QueryPcs
<1>2. CASE WriteQuery
  <2>1. pc = "write"
    BY <1>2 DEF WriteQuery
  <2>2. CASE WriteCommand(Head(call.todo), AfterCommand(Head(call.todo)))
    <3> DEFINE next == AfterCommand(Head(call.todo))
    <3>1. ConnKept /\ (GoOn(next) \/ Fails)
      BY <2>2, Commanded
    <3>2. next \in {"pong", "prepared", "header"}
      BY DEF AfterCommand
    <3>3. call.kind \in QueryKinds => next = "header"
      <4>1. call.kind \in QueryKinds =>
               Head(call.todo) \in {"query", "execute", "longData", "argError"}
        BY DEF WatchInv, PlacesOK, QueryTodos, LongDataTodos
      <4> QED  BY <4>1 DEF AfterCommand
    <3>4. next \in {"pong", "prepared", "header"} /\ next # "unanswered" /\ next # "dial"
          /\ next # "watch" /\ next # "contextCheck" /\ next # "idle"
      BY <3>2
    <3> HIDE DEF next
    <3> QED  BY <1>0, <2>1, <3>1, <3>3, <3>4, FailsKeeps, GoOnKeeps DEF QueryPcs
  <2>3. CASE Return("tooLarge") /\ UNCHANGED conn
    BY <1>0, <2>1, <2>3, Reads, FailsKeeps DEF Fails, Errors
  <2> QED  BY <1>2, <2>2, <2>3 DEF WriteQuery
<1>3. CASE WriteUnanswered
  <2>1. /\ pc = "write" /\ Head(call.todo) \in {"longData", "stmtClose"}
        /\ WriteCommand(Head(call.todo), "unanswered")
    BY <1>3 DEF WriteUnanswered
  <2>2. ConnKept /\ (GoOn("unanswered") \/ Fails)
    BY <2>1, Commanded
  <2>3. call.kind \in QueryKinds => call.todo \in LongDataTodos
    BY <2>1 DEF WatchInv, PlacesOK, QueryTodos, LongDataTodos
  <2>4. GoOn("unanswered") => CallKept
    BY <2>3 DEF GoOn, CallKept, WatchInv, Shapes, CallShape, PlacesOK, QueryPcs
  <2> QED  BY <1>0, <2>1, <2>2, <2>4, FailsKeeps
<1>4. CASE Unanswered
  <2>1. pc = "unanswered" /\ UNCHANGED conn
    BY <1>4 DEF Unanswered
  <2>2. CASE call.kind = "stmtClose"
    <3>1. Return("ok") /\ call.kind \notin QueryKinds
      BY <1>4, <2>2 DEF Unanswered, QueryKinds
    <3> QED  BY <1>0, <2>1, <3>1, Reads, ReturnKeeps
  <2>3. CASE call.kind # "stmtClose"
    <3>1. PICK t : t = Tail(call.todo) /\ call' = [call EXCEPT !.todo = t] /\ pc' = "write"
      BY <1>4, <2>3 DEF Unanswered
    <3>2. call.kind \in QueryKinds => t \in QueryTodos
      <4>1. Tail(<<"longData", "execute">>) = <<"execute">>
            /\ Tail(<<"longData", "argError">>) = <<"argError">>
        OBVIOUS
      <4>2. call.kind \in QueryKinds => t \in {<<"execute">>, <<"argError">>}
        BY <2>1, <3>1, <4>1 DEF WatchInv, PlacesOK, LongDataTodos
      <4> QED  BY <4>2 DEF QueryTodos
    <3>3. CallKept
      BY <3>1, <3>2 DEF WatchInv, Shapes, CallShape, CallKept, QueryPcs
    <3> QED  BY <1>0, <2>1, <3>3, Reads
  <2> QED  BY <2>2, <2>3
<1>5. CASE ArgumentError
  <2>1. pc = "write" /\ UNCHANGED conn /\ Fails
    BY <1>5 DEF ArgumentError, Fails, Errors
  <2> QED  BY <1>0, <2>1, Reads, FailsKeeps
<1>6. CASE InfileRequest
  <2>1. /\ pc = "header" /\ conn' = Counted(conn)
        /\ \E next \in {"infileData", "infileEnd", "infileAbort"} : GoOn(next)
    BY <1>6 DEF InfileRequest
  <2> QED  BY <1>0, <2>1, Reads, GoOnKeeps DEF QueryPcs
<1>7. CASE InfileData
  <2>1. pc = "infileData"
    BY <1>7 DEF InfileData
  <2>2. PICK next \in {"infileEnd", "infileAbort"} : WritePacket(conn, Upload("data"), next)
    BY <1>7 DEF InfileData
  <2>3. ConnKept /\ (GoOn(next) \/ Fails)
    BY <2>2, Writes, Numbers
  <2> QED  BY <1>0, <2>1, <2>3, FailsKeeps, GoOnKeeps DEF QueryPcs
<1>8. CASE InfileEnd
  <2> DEFINE next == IF pc = "infileEnd" THEN "infileOK" ELSE "infileSkip"
  <2>1. pc \in {"infileEnd", "infileAbort"} /\ WritePacket(conn, Upload("empty"), next)
    BY <1>8 DEF InfileEnd
  <2>2. ConnKept /\ (GoOn(next) \/ Fails)
    BY <2>1, Writes, Numbers
  <2>3. next \in {"infileOK", "infileSkip"}
    OBVIOUS
  <2> HIDE DEF next
  <2> QED  BY <1>0, <2>1, <2>2, <2>3, FailsKeeps, GoOnKeeps DEF QueryPcs
<1>9. CASE InfileSkip
  <2>1. pc = "infileSkip" /\ conn' = Counted(conn) /\ Fails
    BY <1>9 DEF InfileSkip, Fails, Errors
  <2> QED  BY <1>0, <2>1, Reads, FailsKeeps
<1> QED  BY <1>1, <1>2, <1>3, <1>4, <1>5, <1>6, <1>7, <1>8, <1>9 DEF SendingSteps

ReadingSteps ==
    OkPacket \/ Pong \/ Header \/ Columns \/ SkipRow \/ RowsEnd \/ ErrorPacket
    \/ Prepared \/ Definitions \/ CommandFails

LEMMA ReadingKeeps ==
    ASSUME WatchInv, ReadingSteps
    PROVE  Keeps /\ ConnKept
<1> SUFFICES ConnKept /\ CallKept /\ RowsKept /\ UNCHANGED watcher /\ pc # "closeFinish"
  BY Undisturbed
<1>0. UNCHANGED watcher /\ pc \in Reading
  BY DEF ReadingSteps, OkPacket, Pong, Header, Columns, SkipRow, RowsEnd, ErrorPacket, Prepared,
         Definitions, CommandFails, Rest, Reading
<1>a. pc # "closeFinish" /\ pc # "dial"
  BY <1>0 DEF Reading
<1>b. call.kind \in QueryKinds => pc \in QueryPcs
  BY DEF WatchInv, PlacesOK
<1>1. CASE OkPacket
  <2>1. /\ pc \in {"header", "infileOK"} /\ AfterResult(NextPacket.more)
        /\ conn' = [Counted(conn) EXCEPT !.more = NextPacket.more]
    BY <1>1 DEF OkPacket
  <2> QED  BY <1>0, <1>a, <2>1, Reads, AfterResultKeeps
<1>2. CASE Pong \/ Prepared \/ Definitions
  <2>1. /\ pc \in {"pong", "prepared", "definitions", "moreDefinitions"}
        /\ conn' = Counted(conn) \/ conn' = [Counted(conn) EXCEPT !.more = NextPacket.more]
        /\ UNCHANGED rows
        /\ Return("ok") \/ GoOn("definitions") \/ GoOn("moreDefinitions")
    BY <1>2 DEF Pong, Prepared, Definitions, Receive, Expect
  <2>2. call.kind \notin QueryKinds
    BY <1>b, <2>1 DEF QueryPcs
  <2> QED  BY <1>0, <1>a, <2>1, <2>2, Reads, RowsStay, ReturnKeeps, GoOnKeeps DEF RowsKept
<1>3. CASE Header
  <2>1. conn' = Counted(conn) /\ GoOn("columns") /\ UNCHANGED rows
    BY <1>3 DEF Header
  <2> QED  BY <1>0, <1>a, <2>1, Reads, RowsStay, GoOnKeeps DEF QueryPcs
<1>4. CASE Columns
  <2>1. conn' = Counted(conn) \/ conn' = [Counted(conn) EXCEPT !.more = NextPacket.more]
    BY <1>4 DEF Columns
  <2>2. CASE Iterating
    <3>1. /\ Return("ok")
          /\ rows' = [open |-> TRUE, mc |-> TRUE, done |-> FALSE,
                      binary |-> rows.binary \/ call.kind = "stmtQuery"]
      BY <1>4, <2>2 DEF Columns
    <3>2. RowsKept /\ rows'.open
      BY <3>1 DEF RowsShape, RowsKept
    <3> QED  BY <1>0, <1>a, <2>1, <3>1, <3>2, Reads, ReturnKeeps
  <2>3. CASE ~Iterating
    <3>1. UNCHANGED rows /\ (GoOn("variable") \/ GoOn("rows")) /\ call.kind \notin QueryKinds
      BY <1>4, <2>3 DEF Columns, Iterating
    <3> QED  BY <1>0, <1>a, <2>1, <3>1, Reads, RowsStay, GoOnKeeps
  <2> QED  BY <2>2, <2>3
<1>5. CASE SkipRow
  <2>1. conn' = Counted(conn) /\ UNCHANGED <<pc, call, rows>> /\ pc = "rows"
    BY <1>5 DEF SkipRow, clientVars
  <2>2. CallKept
    BY <2>1 DEF CallKept, WatchInv, Shapes, CallShape, PlacesOK
  <2> QED  BY <1>0, <1>a, <2>1, <2>2, Reads, RowsStay
<1>6. CASE RowsEnd
  <2>1. /\ pc = "rows" /\ AfterResult(NextPacket.more)
        /\ conn' = [Counted(conn) EXCEPT !.more = NextPacket.more]
    BY <1>6 DEF RowsEnd
  <2> QED  BY <1>0, <1>a, <2>1, Reads, AfterResultKeeps
<1>7. CASE ErrorPacket
  <2>1. /\ Fails /\ rows' = [rows EXCEPT !.mc = @ /\ pc # "row"]
        /\ conn' = Cleanup(conn) \/ conn' = Counted(conn)
    BY <1>7 DEF ErrorPacket, Fails, Errors
  <2>2. ConnKept
    BY <2>1, Reads DEF Cleanup, WatchInv, Shapes, ConnShape, ConnKept
  <2> QED  BY <1>0, <1>a, <2>1, <2>2, RowsStay, FailsKeeps
<1>8. CASE CommandFails
  <2>1. UNCHANGED rows /\ (ReadFails \/ OutOfSync)
    BY <1>8 DEF CommandFails
  <2> QED  BY <1>0, <1>a, <2>1, ReadingFails, RowsStay, FailsKeeps
<1> QED  BY <1>1, <1>2, <1>3, <1>4, <1>5, <1>6, <1>7, <1>8 DEF ReadingSteps

IteratingSteps == NextRow \/ Row \/ NextResultSet \/ CloseRows

LEMMA IteratingKeeps ==
    ASSUME WatchInv, IteratingSteps
    PROVE  Keeps /\ ConnKept
<1> SUFFICES ConnKept /\ CallKept /\ RowsKept /\ UNCHANGED watcher /\ pc # "closeFinish"
  BY Undisturbed
<1>0. UNCHANGED watcher /\ pc \in {"nextRow", "row", "nextResultSet", "closeRows"}
  BY DEF IteratingSteps, NextRow, Row, NextResultSet, CloseRows, Rest
<1>1. call.kind \in QueryKinds => pc = "nextResultSet"
  BY <1>0 DEF WatchInv, PlacesOK, QueryPcs
<1>2. ConnError \in Errors
  BY DEF ConnError, Errors
<1>3. CASE NextRow
  <2>1. UNCHANGED <<conn, rows>> /\ pc = "nextRow" /\ (Fails \/ GoOn("row"))
    BY <1>2, <1>3 DEF NextRow, Fails, Errors
  <2> QED  BY <1>0, <1>1, <2>1, Reads, RowsStay, FailsKeeps, GoOnKeeps
<1>4. CASE Row
  <2>1. /\ pc = "row"
        /\ conn' = Counted(conn) \/ conn' = [Counted(conn) EXCEPT !.more = NextPacket.more]
        /\ Return("ok") \/ Return("eof") \/ Return("malformed")
        /\ \/ UNCHANGED rows
           \/ rows' = [rows EXCEPT !.done = TRUE, !.mc = NextPacket.more]
           \/ rows' = [rows EXCEPT !.mc = FALSE]
    BY <1>4 DEF Row
  <2> QED  BY <1>0, <1>1, <2>1, Reads, RowsStay, ReturnKeeps DEF RowsKept
<1>5. CASE NextResultSet
  <2>1. UNCHANGED conn /\ pc = "nextResultSet"
    BY <1>5 DEF NextResultSet
  <2>2. CASE rows' = [rows EXCEPT !.open = TRUE, !.mc = FALSE] /\ (Return("ok") \/ Return("eof"))
    <3>1. RowsKept /\ rows'.open
      BY <2>2 DEF WatchInv, Shapes, RowsShape, RowsKept
    <3> QED  BY <1>0, <2>1, <2>2, <3>1, Reads, ReturnKeeps
  <2>3. CASE Fails /\ UNCHANGED rows
    BY <1>0, <2>1, <2>3, Reads, RowsStay, FailsKeeps
  <2>4. CASE (GoOn("header") \/ GoOn("rows")) /\ (UNCHANGED rows \/ rows' = [rows EXCEPT !.done = FALSE])
    BY <1>0, <2>1, <2>4, Reads, RowsStay, GoOnKeeps DEF QueryPcs
  <2> QED  BY <1>2, <1>5, <2>2, <2>3, <2>4 DEF NextResultSet, Fails
<1>6. CASE CloseRows
  <2>1. /\ UNCHANGED <<conn, rows>> /\ pc = "closeRows"
        /\ Return("ok") \/ Fails \/ GoOn("rows") \/ GoOn("header")
    BY <1>2, <1>6 DEF CloseRows, Fails
  <2> QED  BY <1>0, <1>1, <2>1, Reads, RowsStay, FailsKeeps, ReturnKeeps, GoOnKeeps DEF RowsKept
<1> QED  BY <1>3, <1>4, <1>5, <1>6 DEF IteratingSteps

LEMMA Cleaned ==
    ASSUME WatchInv, conn' = Cleanup(conn)
    PROVE  ConnKept
BY DEF Cleanup, WatchInv, Shapes, ConnShape, ConnKept

HandshakeSteps ==
    \/ Greeting \/ StartTls \/ TlsHandshake \/ Respond \/ AuthResult
    \/ AuthAnswer \/ AskKey \/ Key \/ AuthOK \/ Variable \/ Abandon

LEMMA HandshakeKeeps ==
    ASSUME WatchInv, HandshakeSteps
    PROVE  Keeps /\ ConnKept
<1> SUFFICES ConnKept /\ CallKept /\ RowsKept /\ UNCHANGED watcher /\ pc # "closeFinish"
  BY Undisturbed
<1>0. /\ UNCHANGED <<rows, watcher>>
      /\ pc \in {"greeting", "tls", "tlsHandshake", "respond", "authResult", "authSwitched",
                 "switchAnswer", "fullAnswer", "askKey", "key", "authOK", "variable", "abandon"}
  BY DEF HandshakeSteps, Greeting, StartTls, TlsHandshake, Respond, AuthResult, AuthAnswer, AskKey,
         Key, AuthOK, Variable, Abandon, Rest
<1>1. call.kind \notin QueryKinds
  BY <1>0 DEF WatchInv, PlacesOK, QueryPcs
<1>2. RowsKept /\ pc # "dial" /\ pc # "closeFinish"
  BY <1>0, RowsStay
<1>3. CASE Greeting \/ AuthResult \/ Key \/ AuthOK \/ Variable
  <2>1. /\ conn' = Counted(conn) \/ conn' = [Counted(conn) EXCEPT !.more = FALSE]
        /\ \/ Return("ok") \/ Return("err") \/ Return("local")
           \/ \E next \in {"tls", "respond", "write", "switchAnswer", "fullAnswer", "authOK",
                           "askKey", "rows"} : GoOn(next)
    BY <1>3 DEF Greeting, AuthResult, Key, AuthOK, Variable, Authenticated
  <2> QED  BY <1>0, <1>1, <1>2, <2>1, Reads, ReturnKeeps, GoOnKeeps DEF RowsKept
<1>4. CASE StartTls \/ Respond \/ AuthAnswer
  <2>1. \/ BusyBuffer
        \/ \E next \in {"tlsHandshake", "authResult", "authSwitched", "authOK"} :
           \E m \in {Upload("sslRequest"), Upload("response"), Upload("authData")} :
              WritePacket(conn, m, next)
    BY <1>4 DEF StartTls, Respond, AuthAnswer
  <2>2. CASE BusyBuffer
    BY <1>0, <1>2, <2>2, Busy, FailsKeeps
  <2>3. CASE ~BusyBuffer
    <3>1. PICK next \in {"tlsHandshake", "authResult", "authSwitched", "authOK"} :
             \E m \in {Upload("sslRequest"), Upload("response"), Upload("authData")} :
                WritePacket(conn, m, next)
      BY <2>1, <2>3
    <3>2. ConnKept /\ (GoOn(next) \/ Fails)
      BY <3>1, Writes, Numbers
    <3> QED  BY <1>0, <1>1, <1>2, <3>2, FailsKeeps, GoOnKeeps
  <2> QED  BY <2>2, <2>3
<1>5. CASE TlsHandshake
  <2>1. UNCHANGED conn /\ (Return("local") \/ GoOn("respond"))
    BY <1>5 DEF TlsHandshake
  <2> QED  BY <1>0, <1>1, <1>2, <2>1, Reads, ReturnKeeps, GoOnKeeps DEF RowsKept
<1>6. CASE AskKey
  <2>1. GoOn("key") /\ (UNCHANGED conn \/ conn' = Cleanup(conn) \/ conn' = Counted(conn))
    BY <1>6 DEF AskKey
  <2> QED  BY <1>0, <1>1, <1>2, <2>1, Reads, Cleaned, GoOnKeeps
<1>7. CASE Abandon
  <2>1. GoOn("finish") /\ conn' = Cleanup(conn)
    BY <1>7 DEF Abandon
  <2> QED  BY <1>0, <1>1, <1>2, <2>1, Cleaned, GoOnKeeps
<1> QED  BY <1>3, <1>4, <1>5, <1>6, <1>7 DEF HandshakeSteps

-----------------------------------------------------------------------------
(* Steps that change the watch, or what it is for *)

LEMMA DialKeeps ==
    ASSUME WatchInv, Dial
    PROVE  Keeps
<1>1. /\ pc = "dial" /\ pc' \in {"gone", "watch"} /\ UNCHANGED <<call, rows, conn>>
      /\ UNCHANGED watcher \/ watcher' = [watcher EXCEPT !.pc = "idle"]
  BY DEF Dial
<1>2. call.kind = "connect" /\ watcher.pc = "none"
  BY <1>1 DEF WatchInv, PlacesOK
<1> USE DEF WatchInv, Shapes
<1>3. ConnShape' /\ CallShape' /\ RowsShape' /\ WatcherShape'
  BY <1>1 DEF ConnShape, CallShape, RowsShape, WatcherShape
<1>4. WatcherOK' /\ WatcherInStep'
  BY <1>1, <1>2 DEF WatcherShape, WatcherOK, WatcherInStep, Resting
<1>5. UnwatchedOK' /\ PlacesOK'
  BY <1>1, <1>2 DEF UnwatchedOK, Unwatched, PlacesOK, QueryKinds
<1> QED  BY <1>1, <1>3, <1>4, <1>5 DEF Keeps

LEMMA WatchCancelKeeps ==
    ASSUME WatchInv, WatchCancel
    PROVE  Keeps
<1>1. pc = "watch" /\ UNCHANGED rows
  BY DEF WatchCancel
<1>2. call.kind \in ContextKinds \cup {"connect"}
  BY <1>1 DEF WatchInv, PlacesOK
<1>3. RowsKept
  BY <1>1, RowsStay
<1>4. /\ AfterWatch \in {"greeting", "write", "check"}
      /\ call.kind \in QueryKinds => AfterWatch \in {"write", "check"}
  BY DEF AfterWatch, QueryKinds
<1>5. GoOn(AfterWatch) => CallKept
  BY <1>4, GoOnKeeps DEF QueryPcs
<1>6. CASE conn.watching
  <2>1. conn' = Cleanup(conn) /\ GoOn(AfterWatch) /\ UNCHANGED watcher
    BY <1>6 DEF WatchCancel
  <2> QED  BY <1>1, <1>3, <1>5, <2>1, Cleaned, Undisturbed
<1>7. CASE ~conn.watching /\ call.ctx \in ended
  <2>1. /\ UNCHANGED <<call, conn, watcher>>
        /\ pc' = IF call.kind = "connect" THEN "abandon" ELSE "idle"
    BY <1>7 DEF WatchCancel
  <2> USE DEF WatchInv, Shapes
  <2>2. ConnShape' /\ CallShape' /\ RowsShape' /\ WatcherShape' /\ WatcherOK' /\ WatcherInStep'
    BY <1>1, <2>1 DEF ConnShape, CallShape, RowsShape, WatcherShape, WatcherOK, WatcherInStep
  <2>3. UnwatchedOK'
    BY <1>7, <2>1 DEF UnwatchedOK
  <2>4. PlacesOK'
    BY <1>1, <2>1 DEF PlacesOK, QueryKinds, QueryPcs
  <2> QED  BY <2>1, <2>2, <2>3, <2>4 DEF Keeps
<1>8. CASE ~conn.watching /\ call.ctx \notin ended
  <2>1. GoOn(AfterWatch)
    BY <1>8 DEF WatchCancel
  <2>2. CASE call.ctx = Background
    <3>1. UNCHANGED <<conn, watcher>>
      BY <1>8, <2>2 DEF WatchCancel
    <3> QED  BY <1>1, <1>3, <1>5, <2>1, <3>1, Reads, Undisturbed
  <2>3. CASE call.ctx # Background
    <3>1. /\ conn' = [conn EXCEPT !.watching = TRUE]
          /\ watcher' = [watcher EXCEPT !.chan = call.ctx]
      BY <1>8, <2>3 DEF WatchCancel
    <3>2. pc' = AfterWatch /\ UNCHANGED <<call, rows>>
      BY <1>1, <2>1 DEF GoOn
    <3> USE DEF WatchInv, Shapes
    <3>3. ConnShape' /\ CallShape' /\ RowsShape' /\ WatcherShape'
      BY <3>1, <3>2 DEF ConnShape, CallShape, RowsShape, WatcherShape
    <3>4. watcher.pc \in Resting /\ watcher.ctx = Background
      BY <1>8 DEF WatcherInStep, WatcherOK, Resting
    <3>5. WatcherOK' /\ WatcherInStep'
      BY <2>3, <3>1, <3>2, <3>4 DEF ConnShape, WatcherShape, WatcherOK, WatcherInStep, Resting
    <3>6. UnwatchedOK'
      BY <1>2, <1>4, <3>2 DEF UnwatchedOK, Unwatched, ContextKinds
    <3>7. PlacesOK'
      BY <1>4, <3>2 DEF PlacesOK, QueryPcs
    <3> QED  BY <3>1, <3>3, <3>5, <3>6, <3>7 DEF Keeps, ConnShape
  <2> QED  BY <2>2, <2>3
<1> QED  BY <1>6, <1>7, <1>8

LEMMA PrecheckKeeps ==
    ASSUME WatchInv, Precheck
    PROVE  Keeps
<1>1. pc = "precheck" /\ UNCHANGED <<conn, rows, watcher>>
  BY DEF Precheck, Rest
<1>2. call.kind \notin QueryKinds
  BY <1>1 DEF WatchInv, PlacesOK, QueryPcs
<1>3. RowsKept
  BY <1>1, RowsStay
<1>4. CASE Fails
  BY <1>1, <1>3, <1>4, Reads, FailsKeeps, Undisturbed
<1>5. CASE GoOn("write")
  BY <1>1, <1>2, <1>3, <1>5, Reads, GoOnKeeps, Undisturbed
<1>6. CASE call.kind \in ContextKinds /\ GoOn("watch")
  <2>1. pc' = "watch" /\ UNCHANGED call
    BY <1>6 DEF GoOn
  <2> USE DEF WatchInv, Shapes
  <2>2. ConnShape' /\ CallShape' /\ RowsShape' /\ WatcherShape' /\ WatcherOK' /\ WatcherInStep'
    BY <1>1, <2>1 DEF ConnShape, CallShape, RowsShape, WatcherShape, WatcherOK, WatcherInStep
  <2>3. UnwatchedOK' /\ PlacesOK'
    BY <1>1, <1>2, <1>6, <2>1 DEF UnwatchedOK, Unwatched, PlacesOK, ContextKinds
  <2> QED  BY <1>1, <2>2, <2>3 DEF Keeps
<1> QED  BY <1>4, <1>5, <1>6 DEF Precheck, Fails, Errors

LEMMA ContextCheckKeeps ==
    ASSUME WatchInv, ContextCheck
    PROVE  Keeps
<1>1. /\ pc = "contextCheck" /\ pc' = "idle" /\ UNCHANGED <<call, rows, watcher>>
      /\ UNCHANGED conn \/ conn' = [conn EXCEPT !.seq = 1]
  BY DEF ContextCheck, Rest
<1>2. call.kind \notin QueryKinds
  BY <1>1 DEF WatchInv, PlacesOK, QueryPcs
<1> USE DEF WatchInv, Shapes
<1>3. /\ ConnShape' /\ conn'.closed = conn.closed /\ conn'.closech = conn.closech
      /\ conn'.watching = conn.watching /\ conn'.canceled = conn.canceled
  BY <1>1 DEF ConnShape
<1>4. CallShape' /\ RowsShape' /\ WatcherShape' /\ WatcherOK' /\ WatcherInStep'
  BY <1>1, <1>3 DEF CallShape, RowsShape, WatcherShape, WatcherOK, WatcherInStep
<1>5. UnwatchedOK'
  BY <1>1, <1>3 DEF UnwatchedOK, Unwatched
<1>6. PlacesOK'
  BY <1>1, <1>2 DEF PlacesOK
<1> QED  BY <1>3, <1>4, <1>5, <1>6 DEF Keeps

\* finish leaves no context watched, unless the connection is closed.
LEMMA FinishWatchKeeps ==
    ASSUME WatchInv, FinishWatch, UNCHANGED <<call, rows>>
    PROVE  /\ Shapes' /\ WatcherOK' /\ WatcherInStep'
           /\ ~conn'.closed => ~conn'.watching
           /\ conn'.canceled = conn.canceled
<1> USE DEF WatchInv, Shapes
<1>1. CASE UNCHANGED <<conn, watcher>> /\ (~conn.watching \/ conn.closech)
  BY <1>1 DEF ConnShape, CallShape, RowsShape, WatcherShape, WatcherOK, WatcherInStep
<1>2. CASE /\ watcher.pc = "watch"
           /\ conn' = [conn EXCEPT !.watching = FALSE]
           /\ watcher' = [watcher EXCEPT !.pc = "idle", !.ctx = Background]
  <2>1. Shapes'
    BY <1>2 DEF ConnShape, CallShape, RowsShape, WatcherShape
  <2>2. watcher.chan = Background
    BY <1>2 DEF WatcherOK, Resting
  <2> QED  BY <1>2, <2>1, <2>2 DEF ConnShape, WatcherShape, WatcherOK, WatcherInStep, Resting
<1> QED  BY <1>1, <1>2 DEF FinishWatch

LEMMA FinishKeeps ==
    ASSUME WatchInv, Finish \/ CloseFinish
    PROVE  Keeps
<1>1. FinishWatch /\ UNCHANGED <<call, rows>>
  BY DEF Finish, CloseFinish
<1>2. /\ pc' \in {"contextCheck", "gone", "idle", "closeRows"}
      /\ call.kind \in QueryKinds => pc' \in QueryPcs
  <2>1. CASE Finish
    BY <2>1 DEF Finish, QueryKinds, QueryPcs
  <2>2. CASE CloseFinish
    BY <2>2 DEF CloseFinish, WatchInv, PlacesOK, QueryPcs
  <2> QED  BY <2>1, <2>2
<1>3. UnwatchedOK'
  BY <1>1, FinishWatchKeeps DEF UnwatchedOK
<1>4. PlacesOK'
  BY <1>1, <1>2 DEF WatchInv, PlacesOK
<1> QED  BY <1>1, <1>3, <1>4, FinishWatchKeeps DEF Keeps, WatchInv

\* Between the calls only a closed connection is still watched.
LEMMA IdleUnwatched ==
    ASSUME WatchInv, pc = "idle", ~rows.open
    PROVE  ~conn.closed => ~conn.watching
BY DEF WatchInv, UnwatchedOK, Unwatched

LEMMA StartCallKeeps ==
    ASSUME WatchInv, StartCall
    PROVE  Keeps
<1>1. PICK kind \in Kinds :
      \E ctx, todo, reset :
         /\ todo \in Commands(kind)
         /\ call' = [kind |-> kind, id |-> call.id + 1, ctx |-> ctx, todo |-> todo]
         /\ conn' = [conn EXCEPT !.reset = reset]
         /\ pc' \in {"idle", IF kind \in {"ping", "begin", "commit", "rollback", "stmtClose"}
                             THEN "precheck" ELSE "watch"}
  BY DEF StartCall
<1>2. PICK ctx, todo, reset :
         /\ todo \in Commands(kind)
         /\ call' = [kind |-> kind, id |-> call.id + 1, ctx |-> ctx, todo |-> todo]
         /\ conn' = [conn EXCEPT !.reset = reset]
         /\ pc' \in {"idle", IF kind \in {"ping", "begin", "commit", "rollback", "stmtClose"}
                             THEN "precheck" ELSE "watch"}
  BY <1>1
<1>3. /\ pc = "idle" /\ ~rows.open /\ UNCHANGED watcher
      /\ rows' = [open |-> FALSE, mc |-> FALSE, done |-> FALSE, binary |-> FALSE]
  BY DEF StartCall, Rest
<1>4. kind \in {"exec", "query", "ping", "prepare", "stmtExec", "stmtQuery", "stmtClose",
                "begin", "commit", "rollback"}
  BY KindsAssumption
<1>5. kind \in QueryKinds => todo \in QueryTodos
  <2>1. CASE kind = "query"
    BY <1>2, <2>1 DEF Commands, QueryTodos
  <2>2. CASE kind = "stmtQuery"
    BY <1>2, <2>2 DEF Commands, QueryTodos, LongDataTodos
  <2> QED  BY <2>1, <2>2 DEF QueryKinds
<1>6. ~conn.closed => ~conn.watching
  BY <1>3, IdleUnwatched
<1> USE DEF WatchInv, Shapes
<1>7. /\ ConnShape' /\ conn'.closed = conn.closed /\ conn'.closech = conn.closech
      /\ conn'.watching = conn.watching /\ conn'.canceled = conn.canceled
  BY <1>2 DEF ConnShape
<1>8. CallShape' /\ RowsShape' /\ WatcherShape' /\ WatcherOK'
  BY <1>2, <1>3, <1>7 DEF CallShape, RowsShape, WatcherShape, WatcherOK
<1>9. WatcherInStep' /\ UnwatchedOK'
  BY <1>3, <1>6, <1>7 DEF WatcherInStep, UnwatchedOK
<1>10. PlacesOK'
  <2>1. call'.kind = kind /\ call'.todo = todo
    BY <1>2
  <2>2. pc' = "idle" \/ pc' = "precheck" \/ pc' = "watch"
    BY <1>2
  <2>3. kind \in QueryKinds => pc' \in QueryPcs /\ pc' # "unanswered"
    BY <1>2 DEF QueryKinds, QueryPcs
  <2>4. kind \notin {"next", "nextResult"}
    BY <1>4
  <2>5. pc' = "watch" => kind \in ContextKinds
    BY <1>2, <1>4 DEF ContextKinds
  <2> HIDE DEF WatchInv
  <2> QED  BY <1>5, <2>1, <2>2, <2>3, <2>4, <2>5 DEF PlacesOK
<1> QED  BY <1>7, <1>8, <1>9, <1>10 DEF Keeps

LEMMA StartRowsCallKeeps ==
    ASSUME WatchInv, StartRowsCall
    PROVE  Keeps
<1>1. PICK kind \in {"next", "nextResult", "close"} :
         /\ call' = [call EXCEPT !.kind = kind]
         /\ \/ kind # "close" /\ UNCHANGED rows
            \/ /\ kind = "close" /\ pc' = "closeFinish"
               /\ rows' = [rows EXCEPT !.open = FALSE]
  BY DEF StartRowsCall
<1>2. /\ UNCHANGED <<conn, watcher>> /\ rows.open
      /\ pc' \in {"nextRow", "nextResultSet", "closeFinish"}
  BY DEF StartRowsCall, Rest
<1> USE DEF WatchInv, Shapes
<1>3. call' = [call EXCEPT !.kind = kind] /\ call'.kind = kind /\ call'.ctx = call.ctx
  BY <1>1 DEF CallShape
<1>4. /\ RowsShape'
      /\ \/ kind \in {"next", "nextResult"} /\ rows'.open
         \/ kind = "close" /\ pc' = "closeFinish"
  BY <1>1, <1>2 DEF RowsShape
<1>5. ConnShape' /\ CallShape' /\ WatcherShape' /\ WatcherOK' /\ WatcherInStep'
  BY <1>2, <1>3 DEF ConnShape, CallShape, WatcherShape, WatcherOK, WatcherInStep
<1>6. UnwatchedOK' /\ PlacesOK'
  BY <1>2, <1>3, <1>4 DEF UnwatchedOK, Unwatched, PlacesOK, QueryKinds
<1> QED  BY <1>2, <1>4, <1>5, <1>6 DEF Keeps

LEMMA CloseConnKeeps ==
    ASSUME WatchInv, CloseConn
    PROVE  Keeps
<1>1. /\ conn' = Cleanup(conn) /\ pc = "idle" /\ pc' = "gone" /\ UNCHANGED <<call, rows, watcher>>
  BY DEF CloseConn, Rest
<1>2. ConnKept
  BY <1>1, Cleaned
<1>3. conn'.closed
  BY <1>1 DEF Cleanup, WatchInv, Shapes, ConnShape
<1> USE DEF WatchInv, Shapes, ConnKept
<1>4. CallShape' /\ RowsShape' /\ WatcherShape' /\ WatcherOK' /\ WatcherInStep' /\ UnwatchedOK'
  BY <1>1, <1>2, <1>3 DEF CallShape, RowsShape, WatcherShape, WatcherOK, WatcherInStep, UnwatchedOK
<1>5. PlacesOK'
  BY <1>1 DEF PlacesOK, QueryPcs
<1> QED  BY <1>2, <1>4, <1>5 DEF Keeps

-----------------------------------------------------------------------------
(* The watcher's own steps, and those of the others *)

\* A context closes the connection it is watched for.
InTime ==
    ~conn.closed /\ ~conn.canceled /\ conn'.canceled
    => call.ctx \in ended /\ (pc # "idle" \/ rows.open)

LEMMA WatcherKeeps ==
    ASSUME WatchInv, WatcherStep
    PROVE  WatchInv' /\ InTime
<1> USE DEF WatchInv, Shapes
<1>1. UNCHANGED <<pc, call, rows>>
  BY DEF WatcherStep, WatcherTakes, WatcherStops, WatcherCancels, WatcherSetsClosed,
         WatcherClosesChannel, WatcherClosesNet, OtherThanWatcher, clientVars
<1>2. CallShape' /\ RowsShape' /\ PlacesOK'
  <2>1. watcher'.pc # watcher.pc => watcher.pc # "none"
    BY DEF WatcherStep, WatcherTakes, WatcherStops, WatcherCancels, WatcherSetsClosed,
           WatcherClosesChannel, WatcherClosesNet
  <2> QED  BY <1>1, <2>1 DEF CallShape, RowsShape, PlacesOK
<1>3. SUFFICES ConnShape' /\ WatcherShape' /\ WatcherOK' /\ WatcherInStep' /\ UnwatchedOK' /\ InTime
  BY <1>2
<1>4. CASE WatcherTakes
  <2>1. /\ watcher.pc = "idle" /\ watcher.chan # Background /\ UNCHANGED conn
        /\ watcher' = [pc |-> "watch", ctx |-> watcher.chan, chan |-> Background]
    BY <1>4 DEF WatcherTakes
  <2>2. watcher.ctx = Background /\ conn.watching
    BY <2>1 DEF WatcherOK, WatcherInStep, Resting
  <2>3. WatcherShape' /\ WatcherOK' /\ WatcherInStep'
    BY <1>1, <2>1, <2>2 DEF WatcherShape, WatcherOK, WatcherInStep, Resting
  <2> QED  BY <1>1, <2>1, <2>3 DEF ConnShape, UnwatchedOK, Unwatched, InTime
<1>5. CASE WatcherStops
  <2>1. /\ conn.closech /\ UNCHANGED conn
        /\ watcher' = [watcher EXCEPT !.pc = "gone", !.ctx = Background]
    BY <1>5 DEF WatcherStops
  <2>2. WatcherShape' /\ WatcherOK' /\ WatcherInStep'
    BY <2>1 DEF WatcherShape, WatcherOK, WatcherInStep, Resting
  <2> QED  BY <1>1, <2>1, <2>2 DEF ConnShape, UnwatchedOK, Unwatched, InTime
<1>6. CASE WatcherCancels
  <2>1. /\ watcher.pc = "watch" /\ watcher.ctx \in ended
        /\ conn' = [conn EXCEPT !.canceled = TRUE]
        /\ watcher' = [watcher EXCEPT !.pc = "trySet"]
    BY <1>6 DEF WatcherCancels
  <2>2. conn.watching /\ watcher.ctx # Background /\ watcher.chan = Background
    BY <2>1 DEF WatcherOK, WatcherInStep, Resting
  <2>3. /\ ConnShape' /\ conn'.closed = conn.closed /\ conn'.closech = conn.closech
        /\ conn'.watching = conn.watching
    BY <2>1 DEF ConnShape
  <2>4. WatcherShape' /\ WatcherOK' /\ WatcherInStep'
    BY <1>1, <2>1, <2>2, <2>3 DEF WatcherShape, WatcherOK, WatcherInStep, Resting
  <2>5. UnwatchedOK'
    BY <1>1, <2>3 DEF UnwatchedOK, Unwatched
  <2>6. ~conn.closed => watcher.ctx = call.ctx
    BY <2>2 DEF WatcherInStep
  <2>7. InTime
    BY <2>1, <2>2, <2>6, IdleUnwatched DEF InTime
  <2> QED  BY <2>3, <2>4, <2>5, <2>7
<1>7. CASE WatcherSetsClosed
  <2>1. /\ watcher.pc = "trySet" /\ conn' = [conn EXCEPT !.closed = TRUE]
        /\ \/ conn.closed /\ watcher' = [watcher EXCEPT !.pc = "idle", !.ctx = Background]
           \/ watcher' = [watcher EXCEPT !.pc = "closech"]
    BY <1>7 DEF WatcherSetsClosed
  <2>2. conn.watching
    BY <2>1 DEF WatcherInStep
  <2>3. /\ ConnShape' /\ conn'.closed /\ conn'.closech = conn.closech
        /\ conn'.watching = conn.watching /\ conn'.canceled = conn.canceled
    BY <2>1 DEF ConnShape
  <2>4. WatcherShape' /\ WatcherOK' /\ WatcherInStep'
    BY <2>1, <2>2, <2>3 DEF WatcherShape, WatcherOK, WatcherInStep, Resting
  <2> QED  BY <2>3, <2>4 DEF UnwatchedOK, InTime
<1>8. CASE WatcherClosesChannel \/ WatcherClosesNet
  <2>1. /\ watcher.pc \in {"closech", "closenet"}
        /\ UNCHANGED conn \/ (watcher.pc = "closech" /\ conn' = [conn EXCEPT !.closech = TRUE])
        /\ \/ watcher' = [watcher EXCEPT !.pc = "closenet"]
           \/ watcher' = [watcher EXCEPT !.pc = "idle", !.ctx = Background]
    BY <1>8 DEF WatcherClosesChannel, WatcherClosesNet
  <2>2. conn.watching /\ conn.closed
    BY <2>1 DEF WatcherInStep, WatcherOK
  <2>3. /\ ConnShape' /\ conn'.closed = conn.closed
        /\ conn'.watching = conn.watching /\ conn'.canceled = conn.canceled
    BY <2>1 DEF ConnShape
  <2>4. WatcherShape' /\ WatcherOK' /\ WatcherInStep'
    BY <2>1, <2>2, <2>3 DEF WatcherShape, WatcherOK, WatcherInStep, Resting
  <2> QED  BY <2>2, <2>3, <2>4 DEF UnwatchedOK, InTime
<1> QED  BY <1>4, <1>5, <1>6, <1>7, <1>8 DEF WatcherStep

LEMMA OthersKeep ==
    ASSUME WatchInv, UNCHANGED <<pc, call, rows, conn, watcher>>
    PROVE  Keeps
BY DEF Keeps, WatchInv, Shapes, ConnShape, CallShape, RowsShape, WatcherShape, WatcherOK,
       WatcherInStep, UnwatchedOK, Unwatched, PlacesOK

LEMMA WatchInit ==
    ASSUME Init
    PROVE  WatchInv
<1>1. Shapes /\ WatcherOK /\ WatcherInStep /\ UnwatchedOK
  BY DEF Init, Shapes, ConnShape, CallShape, RowsShape, WatcherShape, WatcherOK, WatcherInStep,
         UnwatchedOK, Resting
<1>2. call.kind = "connect" /\ pc = "dial" /\ watcher.pc = "none"
  BY DEF Init
<1>3. PlacesOK
  BY <1>2 DEF PlacesOK, QueryKinds
<1> QED  BY <1>1, <1>3 DEF WatchInv

LEMMA WatchStep ==
    ASSUME WatchInv, [Next]_vars
    PROVE  WatchInv' /\ InTime
<1>1. Keeps => WatchInv' /\ InTime
  BY DEF Keeps, InTime
<1>2. CASE ConnectStep
  <2>1. HandshakeSteps \/ Dial
    BY <1>2 DEF ConnectStep, HandshakeSteps
  <2> QED  BY <1>1, <2>1, HandshakeKeeps, DialKeeps
<1>3. CASE CallStep
  <2>1. \/ SendingSteps \/ ReadingSteps \/ IteratingSteps
        \/ WatchCancel \/ Precheck \/ ContextCheck \/ Finish \/ CloseFinish
    BY <1>3 DEF CallStep, SendingSteps, ReadingSteps, IteratingSteps
  <2> QED  BY <1>1, <2>1, Sending, ReadingKeeps, IteratingKeeps, WatchCancelKeeps, PrecheckKeeps,
              ContextCheckKeeps, FinishKeeps
<1>4. CASE UserStep
  BY <1>1, <1>4, StartCallKeeps, StartRowsCallKeeps, CloseConnKeeps DEF UserStep
<1>5. CASE WatcherStep
  BY <1>5, WatcherKeeps
<1>6. CASE ServerStep
  <2>1. UNCHANGED <<clientVars, conn, watcher>>
    BY <1>6 DEF ServerStep, ServerGreets, ServerAuthenticates, ServerHangsUp, ServerAnswers,
                ServerTakes, ServerLoads, ServerQuits
  <2> QED  BY <1>1, <2>1, OthersKeep DEF clientVars
<1>7. CASE Surroundings
  <2>1. UNCHANGED <<clientVars, conn, watcher>>
    BY <1>7 DEF Surroundings, Break, EndContext
  <2> QED  BY <1>1, <2>1, OthersKeep DEF clientVars
<1>8. CASE UNCHANGED vars
  BY <1>1, <1>8, OthersKeep DEF vars, clientVars
<1> QED  BY <1>2, <1>3, <1>4, <1>5, <1>6, <1>7, <1>8 DEF Next, ClientStep

-----------------------------------------------------------------------------
\* The watcher holds the context of the call that is running, or none: watchCancel
\* and finish hand the goroutine of startWatcher over from one call to the next.
THEOREM WatcherKeepsStep == Spec => []WatcherInStep
<1>1. WatchInv => WatcherInStep
  BY DEF WatchInv
<1> QED  BY <1>1, WatchInit, WatchStep, PTL DEF Spec

\* The end of a context closes an open connection (cancel) only during the call,
\* or the Rows, the context was given to: never under a later call.
THEOREM NoLateCancel == Spec => CancelledInTime
<1>1. WatchInv /\ [Next]_vars
      => [~conn.closed /\ ~conn.canceled /\ conn'.canceled
          => call.ctx \in ended /\ (pc # "idle" \/ rows.open)]_vars
  BY WatchStep DEF InTime
<1> QED  BY <1>1, WatchInit, WatchStep, PTL DEF Spec, CancelledInTime
=============================================================================

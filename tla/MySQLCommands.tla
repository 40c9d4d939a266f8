---------------------------- MODULE MySQLCommands ----------------------------
(***************************************************************************)
(* The commands of a connection and the server's answers to them: Exec,    *)
(* Query and the Rows it returns, Prepare, statements with long data,      *)
(* Begin, Commit, Rollback, Ping, and LOAD DATA LOCAL INFILE, which turns  *)
(* the direction of the data around.                                       *)
(*                                                                         *)
(* An answer is OK, an error, or a result set: a header, the column        *)
(* definitions ("columns" stands for all of them with their EOF), rows and *)
(* an EOF or an error.  OK and EOF say whether another result follows.     *)
(***************************************************************************)
EXTENDS MySQLWire

ExecKinds == {"exec", "stmtExec", "begin", "commit", "rollback"}
QueryKinds == {"query", "stmtQuery"}
StmtKinds == {"stmtExec", "stmtQuery", "stmtClose"}
ContextKinds == {"exec", "query", "ping", "prepare", "stmtExec", "stmtQuery", "begin"}

\* exec, Rows.Close and handleParams read all results; query and NextResultSet
\* stop at one that has rows.
Iterating == call.kind \in QueryKinds \cup {"next", "nextResult"}

Rest == <<watcher, srv, ended, history>>

-----------------------------------------------------------------------------
(* Starting a call *)

\* The commands of a call, in order.
Commands(kind) ==
    CASE kind \in {"exec", "query"} -> {<<"query">>}
      [] kind \in {"stmtExec", "stmtQuery"} ->
            {<<"execute">>, <<"longData", "execute">>, <<"longData", "argError">>, <<"argError">>}
      [] kind = "begin" -> {<<"begin">>, <<"set", "begin">>}
      [] kind \in {"commit", "rollback"} -> {<<"end">>}
      [] OTHER -> {<<kind>>}

Possible(kind) ==
    /\ kind \in {"commit", "rollback"} => session.tx
    /\ kind = "begin" => ~session.tx
    /\ kind \in StmtKinds => session.stmt
    /\ kind = "prepare" => ~session.stmt

\* The pool calls ResetSession when it takes the connection, which is not the
\* case in a transaction, for a statement of the same checkout, or for the first
\* call on a new connection.  A connection that is bad is not used again.
StartCall ==
    /\ pc = "idle"
    /\ ~rows.open
    /\ call.id < MaxCalls
    /\ res = "badConn" => session.tx
    /\ \E kind \in Kinds :
       \E ctx \in IF kind \in ContextKinds THEN {Background, call.id + 1} ELSE {Background} :
       \E checkout \in {c \in BOOLEAN : IF c THEN ~session.tx
                                        ELSE session.tx \/ session.stmt \/ call.id = 1} :
       \E todo \in Commands(kind) :
          /\ Possible(kind)
          /\ "longData" \in Features \/ todo[1] \notin {"longData", "argError"}
          /\ call' = [kind |-> kind, id |-> call.id + 1, ctx |-> ctx, todo |-> todo]
          /\ conn' = [conn EXCEPT !.reset = @ \/ (checkout /\ ~conn.closed)]
          /\ IF checkout /\ conn.closed
             THEN res' = "badConn" /\ pc' = "idle"
             ELSE /\ res' = "running"
                  /\ pc' = IF kind \in {"ping", "begin", "commit", "rollback", "stmtClose"}
                           THEN "precheck" ELSE "watch"
    /\ rows' = [open |-> FALSE, mc |-> FALSE, done |-> FALSE, binary |-> FALSE]
    /\ UNCHANGED <<session, wire, Rest>>

\* Ping, BeginTx, Commit, Rollback and Stmt.Close look at closed first.
Precheck ==
    /\ pc = "precheck"
    /\ IF conn.closed
       THEN Return(IF call.kind \in {"commit", "rollback"} THEN "invalid" ELSE "badConn")
       ELSE GoOn(IF call.kind \in ContextKinds THEN "watch" ELSE "write")
    /\ session' = IF conn.closed /\ call.kind \in {"commit", "rollback"}
                  THEN [session EXCEPT !.tx = FALSE] ELSE session
    /\ UNCHANGED <<rows, conn, wire, Rest>>

CheckClosed ==
    /\ pc = "check"
    /\ IF conn.closed THEN Return("badConn") ELSE GoOn("write")
    /\ UNCHANGED <<rows, session, conn, wire, Rest>>

-----------------------------------------------------------------------------
(* Sending the command *)

AfterCommand(cmd) ==
    CASE cmd = "ping" -> "pong" [] cmd = "prepare" -> "prepared" [] OTHER -> "header"

WriteQuery ==
    /\ pc = "write"
    /\ Head(call.todo) \notin {"longData", "argError", "stmtClose"}
    /\ \/ WriteCommand(Head(call.todo), AfterCommand(Head(call.todo)))
       \/ /\ "tooLarge" \in Features
          /\ Head(call.todo) \in {"query", "prepare", "execute"}
          /\ Return("tooLarge")
          /\ UNCHANGED <<conn, wire>>
    /\ session' = [session EXCEPT !.tx = @ /\ call.kind \notin {"commit", "rollback"}]
    /\ UNCHANGED <<rows, Rest>>

\* writeCommandLongData and Stmt.Close: commands that are not answered.
WriteUnanswered ==
    /\ pc = "write"
    /\ Head(call.todo) \in {"longData", "stmtClose"}
    /\ WriteCommand(Head(call.todo), "unanswered")
    /\ session' = [session EXCEPT !.stmt = @ /\ call.kind # "stmtClose"]
    /\ UNCHANGED <<rows, Rest>>

Unanswered ==
    /\ pc = "unanswered"
    /\ IF call.kind = "stmtClose" THEN Return("ok")
       ELSE /\ call' = [call EXCEPT !.todo = Tail(@)]
            /\ pc' = "write"
            /\ UNCHANGED res
    /\ UNCHANGED <<rows, session, conn, wire, Rest>>

\* An argument that cannot be written ends the call, whatever was sent before.
ArgumentError ==
    /\ pc = "write"
    /\ Head(call.todo) = "argError"
    /\ Return("local")
    /\ UNCHANGED <<rows, session, conn, wire, Rest>>

-----------------------------------------------------------------------------
(* Reading results *)

\* All results of the command have been read: the next command, or the end.
\* One accepted character set is enough.
CommandDone ==
    LET todo == IF CharsetLeft THEN Tail(Tail(call.todo)) ELSE Tail(call.todo)
    IN IF todo = <<>> THEN Return("ok")
       ELSE /\ call' = [call EXCEPT !.todo = todo]
            /\ pc' = IF todo = <<"begin">> THEN "check" ELSE "write"
            /\ UNCHANGED res

\* Mutant: further results are forgotten.
AfterResultOnly(more) ==
    IF Iterating
    THEN GoOn("nextResultSet") /\ rows' = [rows EXCEPT !.mc = TRUE, !.done = TRUE]
    ELSE CommandDone /\ UNCHANGED rows

\* After a result without rows, or the end of rows that are skipped.
AfterResult(more) ==
    IF Iterating
    THEN IF call.kind = "stmtQuery"
         THEN Return("ok") /\ rows' = [rows EXCEPT !.open = TRUE, !.done = TRUE, !.binary = TRUE]
         ELSE GoOn("nextResultSet") /\ rows' = [rows EXCEPT !.mc = TRUE, !.done = TRUE]
    ELSE /\ IF more THEN GoOn("header") ELSE CommandDone
         /\ UNCHANGED rows

\* handleOkPacket, where a result may start or a LOAD DATA ends.
OkPacket ==
    /\ pc \in {"header", "infileOK"}
    /\ Receive({"ok"})
    /\ conn' = [Counted(conn) EXCEPT !.more = NextPacket.more]
    /\ session' = [session EXCEPT !.tx = @ \/ Head(call.todo) = "begin"]
    /\ AfterResult(NextPacket.more)
    /\ UNCHANGED Rest

Pong ==
    /\ pc = "pong"
    /\ Receive({"ok"})
    /\ conn' = [Counted(conn) EXCEPT !.more = NextPacket.more]
    /\ Return("ok")
    /\ UNCHANGED <<rows, session, Rest>>

Header ==
    /\ pc = "header"
    /\ Receive({"header"})
    /\ conn' = Counted(conn)
    /\ GoOn("columns")
    /\ UNCHANGED <<rows, session, Rest>>

\* readColumns leaves the status alone, readUntilEOF does not.
Columns ==
    /\ pc = "columns"
    /\ Receive({"columns"})
    /\ IF Iterating
       THEN /\ conn' = Counted(conn)
            /\ rows' = [open |-> TRUE, mc |-> TRUE, done |-> FALSE,
                        binary |-> rows.binary \/ call.kind = "stmtQuery"]
            /\ Return("ok")
       ELSE /\ conn' = [Counted(conn) EXCEPT !.more = NextPacket.more]
            /\ GoOn(IF Head(call.todo) = "sysvar" THEN "variable" ELSE "rows")
            /\ UNCHANGED rows
    /\ UNCHANGED <<session, Rest>>

\* readUntilEOF
SkipRow ==
    /\ pc = "rows"
    /\ Receive({"row"})
    /\ conn' = Counted(conn)
    /\ UNCHANGED <<clientVars, Rest>>

RowsEnd ==
    /\ pc = "rows"
    /\ Receive({"eof"})
    /\ conn' = [Counted(conn) EXCEPT !.more = NextPacket.more]
    /\ AfterResult(NextPacket.more)
    /\ UNCHANGED <<session, Rest>>

\* handleErrorPacket: a server that became read-only is left, if configured.
ErrorPacket ==
    /\ pc \in {"header", "rows", "row", "pong", "prepared", "infileOK"}
    /\ Expect({"err", "readOnly"})
    /\ \E w \in Filled :
          IF NextPacket.kind = "readOnly" /\ "rejectReadOnly" \in Features
          THEN /\ wire' = Quit(conn, w)
               /\ conn' = Cleanup(conn)
               /\ Return("badConn")
          ELSE wire' = w /\ conn' = Counted(conn) /\ Return("err")
    /\ rows' = [rows EXCEPT !.mc = @ /\ pc # "row"]
    /\ UNCHANGED <<session, Rest>>
-----------------------------------------------------------------------------
(* Prepare *)

\* readPrepareResultPacket: definitions of parameters and of columns follow,
\* each kind if there are any.
Prepared ==
    /\ pc = "prepared"
    /\ Receive({"prep0", "prep1", "prep2"})
    /\ conn' = Counted(conn)
    /\ CASE NextPacket.kind = "prep0" -> Return("ok")
         [] NextPacket.kind = "prep1" -> GoOn("definitions")
         [] NextPacket.kind = "prep2" -> GoOn("moreDefinitions")
    /\ UNCHANGED <<rows, session, Rest>>

Definitions ==
    /\ pc \in {"definitions", "moreDefinitions"}
    /\ Receive({"columns"})
    /\ conn' = [Counted(conn) EXCEPT !.more = NextPacket.more]
    /\ IF pc = "definitions" THEN Return("ok") ELSE GoOn("definitions")
    /\ UNCHANGED <<rows, session, Rest>>

\* PrepareContext, after finish: a statement prepared too late is closed.
ContextCheck ==
    /\ pc = "contextCheck"
    /\ pc' = "idle"
    /\ IF call.ctx \in ended
       THEN /\ res' = "ctx"
            /\ UNCHANGED session
            /\ IF conn.closed THEN UNCHANGED <<conn, wire>>
               ELSE /\ conn' = [conn EXCEPT !.seq = 1]
                    /\ wire' = IF wire.net = "up" /\ wire.buf = <<>>
                               THEN [wire EXCEPT !.out = Append(@, [kind |-> "stmtClose",
                                                                    cmd |-> call.id, seq |-> 0])]
                               ELSE wire
       ELSE /\ session' = [session EXCEPT !.stmt = TRUE]
            /\ UNCHANGED <<res, conn, wire>>
    /\ UNCHANGED <<call, rows, Rest>>

\* finish, deferred or called by PrepareContext and by a failed query.
Finish ==
    /\ pc = "finish"
    /\ FinishWatch
    /\ pc' = CASE call.kind = "prepare" /\ res = "ok" -> "contextCheck"
               [] call.kind = "connect" /\ res # "ok" -> "gone"
               [] OTHER -> "idle"
    /\ UNCHANGED <<call, res, rows, session, wire, srv, ended, history>>

-----------------------------------------------------------------------------
(* Rows *)

\* cpool closes the Rows after an error and after the last row; a user may ask
\* for a row again after the last one of a result ("again").
MayIterate == res = "ok" \/ (res = "eof" /\ rows.mc /\ call.kind = "next")

StartRowsCall ==
    /\ pc = "idle"
    /\ rows.open
    /\ \/ /\ MayIterate
          /\ res = "eof" => "again" \in Features
          /\ call' = [call EXCEPT !.kind = "next"]
          /\ pc' = "nextRow"
          /\ UNCHANGED rows
       \/ /\ MayIterate
          /\ call' = [call EXCEPT !.kind = "nextResult"]
          /\ pc' = "nextResultSet"
          /\ UNCHANGED rows
       \/ /\ call' = [call EXCEPT !.kind = "close"]
          /\ pc' = "closeFinish"
          /\ rows' = [rows EXCEPT !.open = FALSE]
    /\ UNCHANGED <<res, session, conn, wire, Rest>>

\* Next, up to the read: textRows look at done, binaryRows do not.
NextRow ==
    /\ pc = "nextRow"
    /\ IF ~rows.mc \/ (rows.done /\ ~rows.binary /\ ~conn.closed) THEN Return("eof")
       ELSE IF conn.closed THEN Return(ConnError)
       ELSE GoOn("row")
    /\ UNCHANGED <<rows, session, conn, wire, Rest>>

\* readRow.  A binary row starts like an OK packet, and what is neither a row
\* nor an EOF is taken for an error.
Row ==
    /\ pc = "row"
    /\ Receive({"row", "eof", "ok"})
    /\ CASE NextPacket.kind = "row" \/ (NextPacket.kind = "ok" /\ rows.binary) ->
              /\ conn' = Counted(conn)
              /\ Return("ok")
              /\ UNCHANGED rows
         [] NextPacket.kind = "eof" ->
              /\ conn' = [Counted(conn) EXCEPT !.more = NextPacket.more]
              /\ rows' = [rows EXCEPT !.done = TRUE, !.mc = NextPacket.more]
              /\ Return("eof")
         [] OTHER ->
              /\ conn' = Counted(conn)
              /\ rows' = [rows EXCEPT !.mc = FALSE]
              /\ Return("malformed")
    /\ UNCHANGED <<session, Rest>>

\* nextResultSet
NextResultSet ==
    /\ pc = "nextResultSet"
    /\ IF ~rows.mc \/ (~conn.closed /\ rows.done /\ ~conn.more)
       THEN /\ rows' = [rows EXCEPT !.open = TRUE, !.mc = FALSE]
            /\ Return(IF call.kind = "query" THEN "ok" ELSE "eof")
       ELSE IF conn.closed THEN Return(ConnError) /\ UNCHANGED rows
       ELSE IF rows.done THEN GoOn("header") /\ rows' = [rows EXCEPT !.done = FALSE]
       ELSE GoOn("rows") /\ UNCHANGED rows
    /\ UNCHANGED <<session, conn, wire, Rest>>

\* Mutant: the watch goes on after the Rows are closed.
CloseFinishForgotten ==
    /\ pc = "closeFinish"
    /\ pc' = "closeRows"
    /\ UNCHANGED <<call, res, rows, session, conn, watcher, wire, srv, ended, history>>

\* Rows.Close stops the watching first and then reads what is left.
CloseFinish ==
    /\ pc = "closeFinish"
    /\ FinishWatch
    /\ pc' = "closeRows"
    /\ UNCHANGED <<call, res, rows, session, wire, srv, ended, history>>

\* Mutant: unread rows stay unread.
CloseRowsUnread ==
    /\ pc = "closeRows"
    /\ Return("ok")
    /\ UNCHANGED <<rows, session, conn, wire, Rest>>

CloseRows ==
    /\ pc = "closeRows"
    /\ IF ~rows.mc THEN Return("ok")
       ELSE IF conn.closed THEN Return(ConnError)
       ELSE IF ~rows.done THEN GoOn("rows")
       ELSE IF conn.more THEN GoOn("header")
       ELSE Return("ok")
    /\ UNCHANGED <<rows, session, conn, wire, Rest>>

-----------------------------------------------------------------------------
(* LOAD DATA LOCAL INFILE *)

\* handleInFileRequest: the source may be missing, empty, or fail after a part.
InfileRequest ==
    /\ pc = "header"
    /\ Receive({"infile"})
    /\ conn' = Counted(conn)
    /\ \E next \in {"infileData", "infileEnd", "infileAbort"} : GoOn(next)
    /\ UNCHANGED <<rows, session, Rest>>

Upload(kind) == [kind |-> kind, cmd |-> call.id, seq |-> conn.seq]

\* One packet stands for all of the content.
InfileData ==
    /\ pc = "infileData"
    /\ \E next \in {"infileEnd", "infileAbort"} : WritePacket(conn, Upload("data"), next)
    /\ UNCHANGED <<rows, session, Rest>>

\* The empty packet that ends the content is sent even if there was an error.
InfileEnd ==
    /\ pc \in {"infileEnd", "infileAbort"}
    /\ WritePacket(conn, Upload("empty"), IF pc = "infileEnd" THEN "infileOK" ELSE "infileSkip")
    /\ UNCHANGED <<rows, session, Rest>>

\* After a local error the answer is read and its status is not looked at.
InfileSkip ==
    /\ pc = "infileSkip"
    /\ Receive({"ok", "err"})
    /\ conn' = Counted(conn)
    /\ Return("local")
    /\ UNCHANGED <<rows, session, Rest>>

-----------------------------------------------------------------------------
(* Failures, for every pc that reads *)

Reading == {"header", "columns", "variable", "rows", "row", "pong", "prepared", "definitions",
            "moreDefinitions", "infileOK", "infileSkip", "greeting", "authResult", "authSwitched",
            "key", "authOK"}

CommandFails ==
    /\ pc \in Reading
    /\ ReadFails \/ OutOfSync
    /\ UNCHANGED <<rows, session, Rest>>

\* The pool closes an idle connection.
CloseConn ==
    /\ pc = "idle"
    /\ ~rows.open
    /\ ~session.tx
    /\ conn' = Cleanup(conn)
    /\ wire' = Quit(conn, wire)
    /\ pc' = "gone"
    /\ UNCHANGED <<call, res, rows, session, Rest>>
=============================================================================

------------------------------ MODULE MySQLWire ------------------------------
(***************************************************************************)
(* One connection of package mysql and what every operation of it is made  *)
(* of: reading and writing packets, closing the connection, the watcher    *)
(* goroutine that closes it when the context of the operation ends, and    *)
(* the network.  MySQLConnect and MySQLCommands add the operations,        *)
(* MySQLConn puts them together.                                           *)
(*                                                                         *)
(* The client is one goroutine at a time: package cpool calls a connection *)
(* with its driverConn locked.  pc says where it is in the current call.   *)
(* The server is not part of the program: it answers as the protocol has   *)
(* it.  A packet is its kind, whether the server announces more results,   *)
(* its sequence number and, for the properties only, the call it answers.  *)
(***************************************************************************)
EXTENDS Naturals, Sequences, FiniteSets

CONSTANTS
    MaxCalls,  \* bound: calls of the driver, Connect included
    Kinds,     \* the calls the pool makes on the connection
    Features,  \* what configuration, server and statements make possible
    Faults     \* what may go wrong around the connection

ASSUME BoundAssumption == MaxCalls \in Nat \ {0}
ASSUME KindsAssumption ==
    Kinds \subseteq {"exec", "query", "ping", "prepare", "stmtExec", "stmtQuery", "stmtClose",
                     "begin", "commit", "rollback"}

VARIABLES
    pc,        \* where the client is in its call
    call,      \* the call: kind, number, its context, the commands left to send
    res,       \* what the last call returned
    rows,      \* the driver's Rows and what cpool keeps of them
    session,   \* prepared statement and transaction on the connection
    conn,      \* mysqlConn: closed, closech, canceled, watching, reset, status, sequence
    watcher,   \* the watcher goroutine and its channel
    wire,      \* the network and the read buffer
    srv,       \* the server
    ended,     \* contexts that have ended
    history    \* calls the server has begun, and those it has carried out

clientVars == <<pc, call, res, rows, session>>
vars == <<clientVars, conn, watcher, wire, srv, ended, history>>

Calls == 1 .. MaxCalls
\* The plugin when the server names none, and when it no longer matters.
DefaultPlugin == "native"
\* A context without Done channel, which is not watched.
Background == 0

-----------------------------------------------------------------------------
(* Closing *)

\* Mutant: cleanup tells the watcher but does not mark the connection.
CleanupUnmarked(c) == [c EXCEPT !.closech = TRUE]
\* cleanup: only the first caller closes the channel and the network.
Cleanup(c) == IF c.closed THEN c ELSE [c EXCEPT !.closed = TRUE, !.closech = TRUE]
CutOff(c, w) == IF c.closed THEN w ELSE [w EXCEPT !.net = "closed", !.in = <<>>]

\* Close: COM_QUIT, if it can be written, before cleanup.
Quit(c, w) ==
    IF ~c.closed /\ w.net = "up" /\ w.buf = <<>>
    THEN CutOff(c, [w EXCEPT !.out = Append(@, [kind |-> "quit", cmd |-> call.id, seq |-> 0])])
    ELSE CutOff(c, w)

\* error: why a closed connection cannot be used.
ConnError == IF conn.canceled THEN "ctx" ELSE "invalid"

-----------------------------------------------------------------------------
(* Returning from a call *)

\* Mutant: a connection that fails while the answer is awaited counts as bad too.
MarkBadConnAlways(e) == IF e \in {"noWrite", "invalid"} THEN "badConn" ELSE e

\* errBadConnNoWrite becomes ErrBadConn where the caller applies markBadConn:
\* not to what reading a later result, or the result of a statement, returns.
\* A greeting that cannot be read is ErrBadConn: nothing was asked yet.  After a
\* local error in LOAD DATA that error is returned.
MarkBadConn(e) ==
    IF pc = "infileSkip" THEN "local" ELSE
    IF \/ e = "noWrite" /\ (pc = "write" \/ call.kind = "exec" \/ (call.kind = "query" /\ ~rows.mc))
       \/ e = "invalid" /\ pc = "greeting"
       \/ call.kind = "prepare" /\ pc = "write" /\ e # "ok"
    THEN "badConn" ELSE e

\* Where the client is when its call has the result e.  A call that is watched
\* ends with finish, but a query that succeeds leaves that to Rows.Close, and a
\* failed Connect closes the connection first.
After(e) ==
    IF call.kind \in {"next", "nextResult", "close", "commit", "rollback", "stmtClose"}
       \/ (call.kind \in {"query", "stmtQuery"} /\ e = "ok") THEN "idle"
    ELSE IF call.kind = "connect" /\ e # "ok" THEN "abandon"
    ELSE "finish"

\* handleParams, on an authenticated connection, tries the next character set
\* when one is refused.
CharsetLeft ==
    session.auth /\ Len(call.todo) > 1 /\ call.todo[1] = "names" /\ call.todo[2] = "names"

Return(e) ==
    IF e # "ok" /\ CharsetLeft
    THEN /\ call' = [call EXCEPT !.todo = Tail(@)]
         /\ pc' = "write"
         /\ UNCHANGED res
    ELSE /\ res' = MarkBadConn(e)
         /\ pc' = After(e)
         /\ UNCHANGED call

GoOn(next) == pc' = next /\ UNCHANGED <<call, res>>

-----------------------------------------------------------------------------
(* readPacket *)

Readable ==
    \/ wire.buf # <<>>
    \/ wire.net # "closed" /\ wire.in # <<>>
NextPacket == IF wire.buf # <<>> THEN Head(wire.buf) ELSE Head(wire.in)

\* fill reads what has arrived, at least the packet that is needed.
Filled ==
    IF wire.buf # <<>> THEN {[wire EXCEPT !.buf = Tail(@)]}
    ELSE {[wire EXCEPT !.buf = SubSeq(wire.in, 2, k),
                       !.in = SubSeq(wire.in, k + 1, Len(wire.in))] : k \in 1 .. Len(wire.in)}

\* The next packet is one of these kinds and has the expected number.
Expect(kinds) ==
    /\ Readable
    /\ NextPacket.kind \in kinds
    /\ NextPacket.seq = conn.seq

Receive(kinds) == Expect(kinds) /\ wire' \in Filled

Counted(c) == [c EXCEPT !.seq = @ + 1]

\* A packet with another number: ErrPktSync.  Its header is taken, and the
\* rest of it stays in the buffer: every later read is out of step as well.
OutOfSync ==
    /\ Readable
    /\ NextPacket.seq # conn.seq
    /\ wire' \in IF wire.buf # <<>> THEN {wire}
                ELSE {[wire EXCEPT !.buf = SubSeq(wire.in, 1, k),
                                   !.in = SubSeq(wire.in, k + 1, Len(wire.in))] : k \in 1 .. Len(wire.in)}
    /\ Return("sync")
    /\ UNCHANGED conn

\* Nothing more can be read, or the read timeout passes.  With the context
\* ended the connection is left to the watcher, else Close.
ReadFails ==
    /\ wire.buf = <<>>
    /\ \/ wire.net = "closed"
       \/ wire.net = "broken" /\ wire.in = <<>>
       \/ "timeout" \in Faults
    /\ IF conn.canceled
       THEN Return("ctx") /\ UNCHANGED <<conn, wire>>
       ELSE /\ conn' = Cleanup(conn)
            /\ wire' = Quit(conn, wire)
            /\ Return("invalid")

-----------------------------------------------------------------------------
(* writePacket *)

\* The first write after ResetSession looks for unexpected data or the end of
\* the stream: what is on its way may or may not have arrived.
CheckFails(c) ==
    /\ c.reset
    /\ "livenessCheck" \in Features
    /\ wire.net # "up" \/ wire.in # <<>>
    /\ conn' = Cleanup([c EXCEPT !.reset = FALSE])
    /\ wire' = Quit(c, wire)
    /\ Return("badConn")

WriteSucceeds(c, m, next) ==
    /\ wire.net # "closed"
    /\ wire' = [wire EXCEPT !.out = IF wire.net = "up" THEN Append(@, m) ELSE @]
    /\ conn' = [c EXCEPT !.reset = FALSE, !.seq = @ + 1]
    /\ GoOn(next)

\* The network refuses the first byte, or the packet after some of it.
NothingWritten(c) ==
    /\ wire.net # "up"
    /\ Return(IF c.canceled THEN "ctx" ELSE "noWrite")
    /\ conn' = [c EXCEPT !.reset = FALSE]
    /\ UNCHANGED wire

PartlyWritten(c) ==
    /\ wire.net # "up"
    /\ Return(IF c.canceled THEN "ctx" ELSE "invalid")
    /\ conn' = IF c.canceled THEN [c EXCEPT !.reset = FALSE] ELSE Cleanup([c EXCEPT !.reset = FALSE])
    /\ wire' = IF c.canceled THEN wire ELSE CutOff(c, wire)

\* The packet m, written by the connection c; the client goes on at next.
WritePacket(c, m, next) ==
    \/ CheckFails(c)
    \/ WriteSucceeds(c, m, next)
    \/ NothingWritten(c)
    \/ PartlyWritten(c)

\* takeBuffer refuses while unread data is buffered: ErrBusyBuffer.
BusyBuffer ==
    /\ wire.buf # <<>>
    /\ Return("noWrite")
    /\ UNCHANGED <<conn, wire>>

\* writeCommandPacket: a command starts a new sequence.
WriteCommand(kind, next) ==
    \/ BusyBuffer
    \/ /\ wire.buf = <<>>
       /\ WritePacket([conn EXCEPT !.seq = 0], [kind |-> kind, cmd |-> call.id, seq |-> 0], next)

-----------------------------------------------------------------------------
(* The watcher *)

\* What follows the watch: Exec, Query, Prepare and begin look at closed, exec
\* and Ping do not.
AfterWatch ==
    IF call.kind = "connect" THEN "greeting"
    ELSE IF Head(call.todo) \in {"ping", "set"} THEN "write" ELSE "check"

\* watchCancel.  A connection still watched is one whose last watch ended with
\* closech; the send is to a channel with room for one context.
WatchCancel ==
    /\ pc = "watch"
    /\ IF conn.watching
       THEN /\ conn' = Cleanup(conn)
            /\ wire' = CutOff(conn, wire)
            /\ GoOn(AfterWatch)
            /\ UNCHANGED watcher
       ELSE IF call.ctx \in ended
       THEN /\ res' = "ctx"
            /\ pc' = IF call.kind = "connect" THEN "abandon" ELSE "idle"
            /\ UNCHANGED <<call, conn, wire, watcher>>
       ELSE /\ GoOn(AfterWatch)
            /\ UNCHANGED wire
            /\ IF call.ctx = Background THEN UNCHANGED <<conn, watcher>>
               ELSE /\ watcher.chan = Background
                    /\ conn' = [conn EXCEPT !.watching = TRUE]
                    /\ watcher' = [watcher EXCEPT !.chan = call.ctx]
    /\ UNCHANGED <<rows, session, srv, ended, history>>

\* Mutant: the watcher is not told that the operation has ended.
FinishUnannounced ==
    /\ conn' = [conn EXCEPT !.watching = FALSE]
    /\ UNCHANGED watcher

\* Mutant: finish waits for the watcher alone.
FinishDeaf ==
    \/ ~conn.watching /\ UNCHANGED <<conn, watcher>>
    \/ /\ conn.watching
       /\ watcher.pc = "watch"
       /\ conn' = [conn EXCEPT !.watching = FALSE]
       /\ watcher' = [watcher EXCEPT !.pc = "idle", !.ctx = Background]

\* finish: the handshake with the watcher, or closech.
FinishWatch ==
    \/ /\ ~conn.watching
       /\ UNCHANGED <<conn, watcher>>
    \/ /\ conn.watching
       /\ watcher.pc = "watch"
       /\ conn' = [conn EXCEPT !.watching = FALSE]
       /\ watcher' = [watcher EXCEPT !.pc = "idle", !.ctx = Background]
    \/ /\ conn.watching
       /\ conn.closech
       /\ UNCHANGED <<conn, watcher>>

OtherThanWatcher == <<clientVars, srv, ended, history>>

WatcherTakes ==
    /\ watcher.pc = "idle"
    /\ watcher.chan # Background
    /\ watcher' = [pc |-> "watch", ctx |-> watcher.chan, chan |-> Background]
    /\ UNCHANGED <<conn, wire, OtherThanWatcher>>

\* Mutant: while it watches a context the watcher does not listen to closech.
WatcherStopsIdle ==
    /\ watcher.pc = "idle"
    /\ conn.closech
    /\ watcher' = [watcher EXCEPT !.pc = "gone"]
    /\ UNCHANGED <<conn, wire, OtherThanWatcher>>

WatcherStops ==
    /\ watcher.pc \in {"idle", "watch"}
    /\ conn.closech
    /\ watcher' = [watcher EXCEPT !.pc = "gone", !.ctx = Background]
    /\ UNCHANGED <<conn, wire, OtherThanWatcher>>

\* cancel, then the steps of cleanup.
WatcherCancels ==
    /\ watcher.pc = "watch"
    /\ watcher.ctx \in ended
    /\ conn' = [conn EXCEPT !.canceled = TRUE]
    /\ watcher' = [watcher EXCEPT !.pc = "trySet"]
    /\ UNCHANGED <<wire, OtherThanWatcher>>

WatcherSetsClosed ==
    /\ watcher.pc = "trySet"
    /\ conn' = [conn EXCEPT !.closed = TRUE]
    /\ watcher' = IF conn.closed THEN [watcher EXCEPT !.pc = "idle", !.ctx = Background]
                  ELSE [watcher EXCEPT !.pc = "closech"]
    /\ UNCHANGED <<wire, OtherThanWatcher>>

WatcherClosesChannel ==
    /\ watcher.pc = "closech"
    /\ conn' = [conn EXCEPT !.closech = TRUE]
    /\ watcher' = [watcher EXCEPT !.pc = "closenet"]
    /\ UNCHANGED <<wire, OtherThanWatcher>>

\* Mutant: the network stays open.
WatcherClosesNothing ==
    /\ watcher.pc = "closenet"
    /\ watcher' = [watcher EXCEPT !.pc = "idle", !.ctx = Background]
    /\ UNCHANGED <<conn, wire, OtherThanWatcher>>

WatcherClosesNet ==
    /\ watcher.pc = "closenet"
    /\ wire' = [wire EXCEPT !.net = "closed", !.in = <<>>]
    /\ watcher' = [watcher EXCEPT !.pc = "idle", !.ctx = Background]
    /\ UNCHANGED <<conn, OtherThanWatcher>>

WatcherStep ==
    \/ WatcherTakes \/ WatcherStops \/ WatcherCancels
    \/ WatcherSetsClosed \/ WatcherClosesChannel \/ WatcherClosesNet

-----------------------------------------------------------------------------
(* The surroundings *)

\* The context of a call ends, while the call runs or any time after.
EndContext(c) ==
    /\ "cancel" \in Faults
    /\ c \notin ended
    /\ c <= call.id
    /\ ended' = ended \cup {c}
    /\ UNCHANGED <<clientVars, conn, watcher, wire, srv, history>>

\* The server, or the network, drops the connection; what is on its way either
\* direction may be lost.
Break ==
    /\ "break" \in Faults
    /\ wire.net = "up"
    /\ \E out \in {<<>>, wire.out} : \E k \in 0 .. Len(wire.in) :
          wire' = [wire EXCEPT !.net = "broken", !.out = out, !.in = SubSeq(@, 1, k)]
    /\ UNCHANGED <<clientVars, conn, watcher, srv, ended, history>>

\* The server writes a script of packets in answer to the message m.
Numbered(script, m) ==
    [i \in DOMAIN script |-> [kind |-> script[i].kind, more |-> script[i].more,
                              cmd |-> m.cmd, seq |-> m.seq + i]]
Answer(m, script) ==
    wire' = [wire EXCEPT !.out = Tail(@),
                         !.in = IF wire.net = "up" THEN @ \o Numbered(script, m) ELSE @]
=============================================================================

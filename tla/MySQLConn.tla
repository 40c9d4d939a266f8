------------------------------ MODULE MySQLConn ------------------------------
(***************************************************************************)
(* A connection of package mysql from Connect to Close: the client's calls *)
(* (MySQLConnect, MySQLCommands), the watcher goroutine and the network    *)
(* (MySQLWire), and the server (MySQLServer).                              *)
(***************************************************************************)
EXTENDS MySQLConnect, MySQLServer

Init ==
    /\ pc = "dial"
    /\ \E ctx \in {Background, 1} :
          call = [kind |-> "connect", id |-> 1, ctx |-> ctx, todo |-> ConnectCommands]
    /\ res = "running"
    /\ rows = [open |-> FALSE, mc |-> FALSE, done |-> FALSE, binary |-> FALSE]
    /\ \E secret \in Secrets :
          session = [stmt |-> FALSE, tx |-> FALSE, plugin |-> DefaultPlugin, auth |-> FALSE,
                     secret |-> secret]
    /\ conn = [closed |-> FALSE, closech |-> FALSE, canceled |-> FALSE, watching |-> FALSE,
               reset |-> FALSE, more |-> FALSE, seq |-> 0]
    /\ watcher = [pc |-> "none", ctx |-> Background, chan |-> Background]
    /\ wire = [net |-> "none", in |-> <<>>, buf |-> <<>>, out |-> <<>>]
    /\ srv = [pc |-> "connected", plugin |-> DefaultPlugin, long |-> 0]
    /\ ended = {}
    /\ history = [begun |-> {}, done |-> {}]

CallStep ==
    \/ WatchCancel \/ Precheck \/ CheckClosed \/ WriteQuery \/ WriteUnanswered \/ Unanswered
    \/ ArgumentError \/ OkPacket \/ Pong \/ Header \/ Columns \/ SkipRow \/ RowsEnd
    \/ ErrorPacket \/ Prepared \/ Definitions \/ ContextCheck \/ Finish \/ NextRow \/ Row
    \/ NextResultSet \/ CloseFinish \/ CloseRows \/ InfileRequest \/ InfileData \/ InfileEnd
    \/ InfileSkip \/ CommandFails

ClientStep == ConnectStep \/ CallStep
UserStep == StartCall \/ StartRowsCall \/ CloseConn
ServerStep ==
    \/ ServerGreets(Plugins) \/ ServerAuthenticates(Plugins) \/ ServerHangsUp
    \/ ServerAnswers \/ ServerTakes \/ ServerLoads \/ ServerQuits
Surroundings == Break \/ \E c \in Calls : EndContext(c)

Next == ClientStep \/ UserStep \/ WatcherStep \/ ServerStep \/ Surroundings

Spec == Init /\ [][Next]_vars

\* A goroutine that can go on does; the server need not answer, nor a user call.
FairSpec == Spec /\ WF_vars(ClientStep) /\ WF_vars(WatcherStep)

\* The server answers.
Served == WF_vars(ServerStep)

-----------------------------------------------------------------------------
ClientPcs ==
    Reading \cup {"dial", "watch", "tls", "tlsHandshake", "respond", "switchAnswer", "fullAnswer", "askKey",
                  "abandon", "finish", "idle", "gone", "precheck", "check", "write", "unanswered",
                  "contextCheck", "nextRow", "nextResultSet", "closeFinish", "closeRows",
                  "infileData", "infileEnd", "infileAbort"}

TypeOK ==
    /\ pc \in ClientPcs
    /\ call.id \in Calls
    /\ call.ctx \in {Background} \cup Calls
    /\ conn.seq \in Nat
    /\ wire.net \in {"none", "up", "broken", "closed"}
    /\ watcher.pc \in {"none", "idle", "watch", "trySet", "closech", "closenet", "gone"}
    /\ {watcher.ctx, watcher.chan} \subseteq {Background} \cup Calls
    /\ ended \subseteq Calls
    /\ history.done \subseteq history.begun
    /\ conn.closech => conn.closed
    /\ pc = "write" => call.todo # <<>>

\* A call never reads what the server sent for another one.
OwnAnswers == pc \in Reading /\ Readable => NextPacket.cmd = call.id

\* When a call has returned and no Rows are open, nothing of it is left on a
\* connection that is still used: no packet unread and no command unanswered.
NothingOutstanding ==
    pc = "idle" /\ ~rows.open /\ ~conn.closed /\ ~conn.canceled /\ wire.net = "up"
    => /\ wire.buf = <<>>
       /\ wire.in = <<>>
       /\ srv.pc \in {"ready", "closing"}
       /\ \A i \in DOMAIN wire.out : wire.out[i].kind \in Silent

\* A call that returned ErrBadConn, which the pool repeats on another
\* connection, was not carried out and will not be.
RetrySafe ==
    pc = "idle" /\ res = "badConn"
    => /\ call.id \notin history.done
       /\ call.kind \in Lasting =>
            \A i \in DOMAIN wire.out : wire.out[i].cmd = call.id => wire.out[i].kind \in Silent \cup {"quit"}

\* The watcher holds the context of the call that is running, or none.
WatcherInStep ==
    /\ ~conn.watching => watcher.chan = Background /\ watcher.pc \in {"none", "idle", "gone"}
    /\ conn.watching /\ ~conn.closed =>
          /\ watcher.chan # Background \/ watcher.pc \in {"watch", "trySet"}
          /\ {watcher.chan, watcher.ctx} = {Background, call.ctx}

\* An open connection is closed by the end of a context only during the call, or the
\* Rows, the context was given to.
CancelledInTime ==
    [][~conn.closed /\ ~conn.canceled /\ conn'.canceled
       => call.ctx \in ended /\ (pc # "idle" \/ rows.open)]_vars

\* Connect succeeds only with a server that has accepted the client, and one
\* that fails leaves no connection behind: it is closed, or the watcher is about to.
ConnectedOrClosed ==
    /\ call.kind = "connect" /\ res = "ok" => session.auth /\ srv.pc \in {"ready", "gone"}
    /\ call.kind = "connect" /\ pc = "gone" /\ res # "ok" =>
          wire.net \in {"none", "closed"} \/ watcher.pc \in {"closech", "closenet"}

\* Once its context has ended, a watched call returns, even if the server is
\* silent.
Watched == pc \in Reading /\ call.kind \notin {"next", "nextResult", "close", "commit", "rollback"}
CancelEndsCall == Watched /\ call.ctx \in ended ~> pc \in {"idle", "gone"}

\* The watcher goroutine ends when the connection is closed.
WatcherEnds == conn.closech ~> watcher.pc = "gone"

\* With a server that answers, every call but Rows.Close returns: none waits for the
\* watcher, or reads a packet that the protocol does not provide.
AnsweredCallsReturn ==
    Served => (pc \notin {"idle", "gone"} /\ call.kind # "close" ~> pc \in {"idle", "gone"})

\* And so does Rows.Close.
CloseReturns == Served => (pc = "closeFinish" ~> pc \in {"idle", "gone"})
=============================================================================

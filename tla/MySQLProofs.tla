----------------------------- MODULE MySQLProofs -----------------------------
(***************************************************************************)
(* The type invariant of a connection, and what Connect promises, for any  *)
(* number of calls, any configuration and any server.                      *)
(*                                                                         *)
(* Both need to know where a call of each kind may be and what it has left *)
(* to send.  A Connect that fails has closed its connection: that needs    *)
(* besides who cuts off a connection that is marked as closed.  One that   *)
(* succeeds was accepted by the server: that needs what packets may be on  *)
(* their way before.  The invariant of WatcherProofs is part of this one.  *)
(***************************************************************************)
EXTENDS WatcherProofs, SequenceTheorems

(* The parts of the invariant *)

Nets == {"none", "up", "broken", "closed"}
PacketKinds ==
    {"ok", "err", "readOnly", "header", "columns", "row", "eof", "infile", "prep0", "prep1", "prep2",
     "greeting", "switch", "moreFast", "moreFull", "moreKey", "key"}
AnyPacket == [kind : PacketKinds, more : BOOLEAN, cmd : Nat, seq : Nat]
\* The messages of Connect, and those of the other calls.
Setup == {"sysvar", "names", "params"}
SetupKinds == Setup \cup {"sslRequest", "response", "authData", "keyRequest", "data", "empty", "quit"}
CommandKinds == {"query", "execute", "longData", "begin", "set", "end", "ping", "prepare", "stmtClose"}
AnyMessage == [kind : SetupKinds \cup CommandKinds, cmd : Nat, seq : Nat]

\* What the server is doing before and after it has accepted the client.
Early    == {"connected", "response", "switchData", "fullData", "closing"}
Accepted == {"ready", "infile", "gone"}

WireType ==
    /\ wire = [net |-> wire.net, in |-> wire.in, buf |-> wire.buf, out |-> wire.out]
    /\ wire.net \in Nets
    /\ wire.in \in Seq(AnyPacket) /\ wire.buf \in Seq(AnyPacket) /\ wire.out \in Seq(AnyMessage)
SrvType ==
    /\ srv = [pc |-> srv.pc, plugin |-> srv.plugin, long |-> srv.long]
    /\ srv.pc \in Early \cup Accepted
SessionType ==
    /\ session = [stmt |-> session.stmt, tx |-> session.tx, plugin |-> session.plugin,
                  auth |-> session.auth, secret |-> session.secret]
    /\ session.auth \in BOOLEAN
HistoryType ==
    /\ history = [begun |-> history.begun, done |-> history.done]
    /\ history.done \subseteq history.begun
WatcherType ==
    /\ watcher.pc \in {"none", "idle", "watch", "trySet", "closech", "closenet", "gone"}
    /\ {watcher.ctx, watcher.chan} \subseteq {Background} \cup Calls
    /\ ended \subseteq Calls
EnvTypes == WireType /\ SrvType /\ SessionType /\ HistoryType /\ WatcherType

\* What a call has left to send.
Todos == QueryTodos \cup {<<"begin">>, <<"set", "begin">>, <<"end">>, <<"ping">>, <<"prepare">>,
                          <<"stmtClose">>}
CallType ==
    /\ pc \in ClientPcs /\ conn.seq \in Nat
    /\ call.id \in Calls /\ call.ctx \in {Background} \cup Calls
    /\ call.kind = "connect" => call.todo \in Seq(Setup)
    /\ call.kind # "connect" =>
          call.todo \in Todos /\ (call.todo = <<"stmtClose">> => call.kind = "stmtClose")
    /\ pc = "unanswered" => call.kind = "stmtClose" \/ call.todo \in LongDataTodos
    /\ rows.open \/ pc = "nextResultSet" => Iterating

\* Where Connect is before the server has accepted it, and where after that.
Greeted == {"greeting", "tls", "tlsHandshake", "respond", "authResult", "authSwitched",
            "switchAnswer", "fullAnswer", "askKey", "key", "authOK"}
SettingUp == {"write", "header", "columns", "variable", "rows", "infileData", "infileEnd",
              "infileAbort", "infileOK", "infileSkip"}
ConnectOK ==
    call.kind = "connect" =>
       /\ pc \in {"dial", "watch", "abandon", "finish", "idle", "gone"} \cup Greeted \cup SettingUp
       /\ pc \in SettingUp => session.auth /\ call.todo # << >>
       /\ res = "ok" => session.auth
       /\ pc = "idle" => res = "ok"
       /\ pc = "finish" /\ res # "ok" => conn.closed
       /\ pc = "gone" /\ res # "ok" => conn.closed \/ wire.net \in {"none", "closed"}

\* A connection that is closed is cut off, or the watcher is about to do that.
CutOffOK ==
    /\ conn.closed => wire.net = "closed" \/ watcher.pc \in {"closech", "closenet"}
    /\ pc = "dial" => ~conn.closed /\ wire.net = "none"

\* An OK of the server comes from one that has accepted the client, and as long as Connect
\* runs no query is on its way.
NotOk == {p \in AnyPacket : p.kind # "ok"}
SetupMessage == {m \in AnyMessage : m.kind \in SetupKinds}
AcceptedOK ==
    /\ session.auth => srv.pc \in Accepted
    /\ srv.pc \in Early => wire.in \in Seq(NotOk) /\ wire.buf \in Seq(NotOk)
    /\ call.kind = "connect" => srv.pc # "infile" /\ wire.out \in Seq(SetupMessage)

CallInv == WatchInv /\ EnvTypes /\ CallType /\ ConnectOK /\ CutOffOK /\ AcceptedOK

-----------------------------------------------------------------------------
(* Reading and writing packets *)

\* What may be sent in the current call, and the network and the buffer after a
\* step of the client: what was in order stays so.
Sent == {m \in AnyMessage : m.cmd = call.id /\ (call.kind = "connect" => m \in SetupMessage)}
WireShape(w) == w = [net |-> w.net, in |-> w.in, buf |-> w.buf, out |-> w.out]
Delivered(w) ==
    /\ \A S \in SUBSET AnyPacket :
          wire.in \in Seq(S) /\ wire.buf \in Seq(S) => w.in \in Seq(S) /\ w.buf \in Seq(S)
    /\ wire.in = <<>> => w.in = <<>>
Incoming(w) == WireShape(w) /\ w.net = wire.net /\ w.out = wire.out /\ Delivered(w)
WireMoved ==
    /\ WireShape(wire') /\ Delivered(wire')
    /\ wire'.net \in {wire.net, "closed"}
    /\ wire'.net = "closed" => wire.net = "closed" \/ wire'.in = <<>>
    /\ conn'.closed => conn.closed \/ wire'.net = "closed"
    /\ conn'.seq \in Nat
    /\ \E m \in Sent : wire'.out \in {wire.out, <<>>, Append(wire.out, m)}

LEMMA Parts ==
    ASSUME NEW S, NEW s \in Seq(S), NEW k \in 0 .. Len(s), NEW i \in {1, 2}
    PROVE  /\ SubSeq(s, i, k) \in Seq(S)
           /\ SubSeq(s, k + 1, Len(s)) \in Seq(S)
<1>1. Len(s) \in Nat /\ \A j \in 1 .. Len(s) : s[j] \in S
  BY LenProperties, ElementOfSeq
<1>2. SubSeq(s, i, k) \in Seq(S)
  <2>1. \A j \in i .. k : s[j] \in S
    BY <1>1
  <2> QED  BY <1>1, <2>1, SubSeqProperties
<1>3. SubSeq(s, k + 1, Len(s)) \in Seq(S)
  <2>1. \A j \in (k + 1) .. Len(s) : s[j] \in S
    BY <1>1
  <2> QED  BY <1>1, <2>1, SubSeqProperties
<1> QED  BY <1>2, <1>3

LEMMA KeptIncoming ==
    ASSUME WireType
    PROVE  Incoming(wire)
BY DEF WireType, Incoming, WireShape, Delivered

\* fill delivers what has arrived, in order.
LEMMA FilledIncoming ==
    ASSUME WireType, Readable, NEW w \in Filled
    PROVE  Incoming(w)
<1>1. CASE wire.buf # <<>>
  <2>1. w = [wire EXCEPT !.buf = Tail(@)]
    BY <1>1 DEF Filled
  <2>2. \A S : wire.buf \in Seq(S) => Tail(wire.buf) \in Seq(S)
    BY <1>1, HeadTailProperties
  <2> QED  BY <2>1, <2>2 DEF WireType, Incoming, WireShape, Delivered
<1>2. CASE wire.buf = <<>>
  <2>1. PICK k \in 1 .. Len(wire.in) :
           w = [wire EXCEPT !.buf = SubSeq(wire.in, 2, k), !.in = SubSeq(wire.in, k + 1, Len(wire.in))]
    BY <1>2 DEF Filled
  <2>2. \A S : wire.in \in Seq(S) =>
           SubSeq(wire.in, 2, k) \in Seq(S) /\ SubSeq(wire.in, k + 1, Len(wire.in)) \in Seq(S)
    <3> SUFFICES ASSUME NEW S, wire.in \in Seq(S)
                 PROVE  SubSeq(wire.in, 2, k) \in Seq(S)
                        /\ SubSeq(wire.in, k + 1, Len(wire.in)) \in Seq(S)
      OBVIOUS
    <3>1. k \in 0 .. Len(wire.in)
      OBVIOUS
    <3> QED  BY <3>1, Parts
  <2>3. wire.in # <<>>
    BY EmptySeq
  <2> QED  BY <2>1, <2>2, <2>3 DEF WireType, Incoming, WireShape, Delivered
<1> QED  BY <1>1, <1>2

\* What is read is a packet, and no OK before the server has accepted the client.
LEMMA NextIsPacket ==
    ASSUME WireType, SrvType, AcceptedOK, Readable
    PROVE  /\ NextPacket \in AnyPacket
           /\ NextPacket.kind = "ok" => srv.pc \in Accepted
<1>1. \A S : wire.in \in Seq(S) /\ wire.buf \in Seq(S) => NextPacket \in S
  <2> SUFFICES ASSUME NEW S, wire.in \in Seq(S), wire.buf \in Seq(S)
               PROVE  NextPacket \in S
    OBVIOUS
  <2>1. wire.buf # <<>> \/ wire.in # <<>>
    BY DEF Readable
  <2> QED  BY <2>1, HeadTailProperties DEF NextPacket
<1>2. NextPacket \in AnyPacket
  BY <1>1 DEF WireType
<1>3. srv.pc \in Early => NextPacket \in NotOk
  BY <1>1 DEF AcceptedOK
<1> QED  BY <1>2, <1>3 DEF NotOk, SrvType

Message(kind, s) == [kind |-> kind, cmd |-> call.id, seq |-> s]

LEMMA SentOK ==
    ASSUME CallType, NEW kind \in SetupKinds \cup CommandKinds, NEW s \in Nat,
           kind \in SetupKinds \/ call.kind # "connect"
    PROVE  Message(kind, s) \in Sent
<1>1. call.id \in Nat
  BY BoundAssumption DEF CallType, Calls
<1>2. Message(kind, s) \in AnyMessage
  BY <1>1 DEF AnyMessage, Message
<1>3. Message(kind, s).kind = kind /\ Message(kind, s).cmd = call.id
  BY DEF Message
<1>4. call.kind = "connect" => Message(kind, s) \in SetupMessage
  <2> SUFFICES ASSUME call.kind = "connect"
               PROVE  Message(kind, s) \in SetupMessage
    OBVIOUS
  <2>1. kind \in SetupKinds
    OBVIOUS
  <2> QED  BY <1>2, <1>3, <2>1 DEF SetupMessage
<1> QED  BY <1>2, <1>3, <1>4 DEF Sent

LEMMA QuitOK ==
    ASSUME CallType
    PROVE  Message("quit", 0) \in Sent
<1>1. "quit" \in SetupKinds /\ 0 \in Nat
  BY DEF SetupKinds
<1> QED  BY <1>1, SentOK

\* The connection goes on, or is cut off with or without a COM_QUIT before.
LEMMA StaysUp ==
    ASSUME ConnShape, CallType, WireType, NEW w, Incoming(w), wire' = w, conn'.seq \in Nat,
           conn'.closed = conn.closed
    PROVE  WireMoved
<1>1. \E m \in Sent : wire'.out \in {wire.out, <<>>, Append(wire.out, m)}
  BY QuitOK DEF Incoming
<1> QED  BY <1>1 DEF WireMoved, Incoming, Delivered, WireShape

LEMMA IsCutOff ==
    ASSUME ConnShape, CallType, WireType, NEW w, Incoming(w), NEW c, c.closed = conn.closed,
           wire' = CutOff(c, w) \/ wire' = Quit(c, w), conn'.seq \in Nat
    PROVE  WireMoved
<1> DEFINE quit == Message("quit", 0)
<1>1. quit \in Sent
  BY QuitOK
<1>2. \/ conn.closed /\ wire' = w
      \/ wire' = [w EXCEPT !.net = "closed", !.in = <<>>]
      \/ wire' = [[w EXCEPT !.out = Append(@, quit)] EXCEPT !.net = "closed", !.in = <<>>]
  BY DEF CutOff, Quit, Message
<1> HIDE DEF quit
<1>3. CASE conn.closed /\ wire' = w
  <2>1. \E m \in Sent : wire'.out \in {wire.out, <<>>, Append(wire.out, m)}
    BY <1>1, <1>3 DEF Incoming
  <2> QED  BY <1>3, <2>1 DEF WireMoved, Incoming, Delivered, WireShape
<1>4. CASE wire' = [w EXCEPT !.net = "closed", !.in = <<>>]
           \/ wire' = [[w EXCEPT !.out = Append(@, quit)] EXCEPT !.net = "closed", !.in = <<>>]
  <2>1. wire'.net = "closed" /\ wire'.in = <<>> /\ wire'.buf = w.buf /\ WireShape(wire')
        /\ (wire'.out = w.out \/ wire'.out = Append(w.out, quit))
    BY <1>4 DEF Incoming, WireShape
  <2>2. \E m \in Sent : wire'.out \in {wire.out, <<>>, Append(wire.out, m)}
    BY <1>1, <2>1 DEF Incoming
  <2>3. Delivered(wire')
    BY <2>1, EmptySeq DEF Incoming, Delivered
  <2> QED  BY <2>1, <2>2, <2>3 DEF WireMoved
<1> QED  BY <1>2, <1>3, <1>4

LEMMA WritesMove ==
    ASSUME ConnShape, CallType, WireType, NEW c, Same(c), c.seq \in Nat, NEW m \in Sent, NEW next,
           WritePacket(c, m, next)
    PROVE  WireMoved
<1>1. Incoming(wire)
  BY KeptIncoming
<1> DEFINE d == [c EXCEPT !.reset = FALSE]
<1>2. d.closed = conn.closed /\ d.seq = c.seq /\ c.closed = conn.closed
  BY DEF Same
<1>3. Cleanup(d).seq = c.seq
  BY DEF Same, Cleanup
<1>4. CASE CheckFails(c)
  <2>1. conn' = Cleanup(d) /\ wire' = Quit(c, wire)
    BY <1>4 DEF CheckFails
  <2> QED  BY <1>1, <1>2, <1>3, <2>1, IsCutOff
<1>5. CASE WriteSucceeds(c, m, next)
  <2>1. /\ conn' = [c EXCEPT !.reset = FALSE, !.seq = @ + 1]
        /\ wire' = wire \/ wire' = [wire EXCEPT !.out = Append(@, m)]
    BY <1>5 DEF WriteSucceeds, WireType
  <2>2. conn'.seq \in Nat /\ conn'.closed = conn.closed
    BY <2>1 DEF Same
  <2>3. CASE wire' = wire
    BY <1>1, <2>2, <2>3, StaysUp
  <2>4. CASE wire' = [wire EXCEPT !.out = Append(@, m)]
    <3>1. /\ WireShape(wire') /\ wire'.net = wire.net /\ wire'.in = wire.in /\ wire'.buf = wire.buf
          /\ wire'.out = Append(wire.out, m)
      BY <2>4 DEF WireType, WireShape
    <3> QED  BY <2>2, <3>1 DEF WireMoved, Delivered
  <2> QED  BY <2>1, <2>3, <2>4
<1>6. CASE NothingWritten(c)
  <2>1. conn' = d /\ wire' = wire
    BY <1>6 DEF NothingWritten
  <2> QED  BY <1>1, <1>2, <2>1, StaysUp
<1>7. CASE PartlyWritten(c)
  <2>1. \/ conn' = d /\ wire' = wire
        \/ conn' = Cleanup(d) /\ wire' = CutOff(c, wire)
    BY <1>7 DEF PartlyWritten
  <2> QED  BY <1>1, <1>2, <1>3, <2>1, StaysUp, IsCutOff
<1> QED  BY <1>4, <1>5, <1>6, <1>7 DEF WritePacket

LEMMA BusyMoves ==
    ASSUME ConnShape, CallType, WireType, UNCHANGED <<conn, wire>>
    PROVE  WireMoved
BY KeptIncoming, StaysUp DEF CallType

LEMMA CommandedMoves ==
    ASSUME WatchInv, CallType, WireType, NEW kind, NEW next, WriteCommand(kind, next),
           (kind \in CommandKinds /\ call.kind # "connect") \/ kind \in Setup
    PROVE  WireMoved
<1>1. ConnShape
  BY DEF WatchInv, Shapes
<1>2. CASE BusyBuffer
  BY <1>1, <1>2, BusyMoves DEF BusyBuffer
<1>3. CASE ~BusyBuffer
  <2> DEFINE c == [conn EXCEPT !.seq = 0]
  <2>1. WritePacket(c, Message(kind, 0), next)
    BY <1>3 DEF WriteCommand, Message
  <2>2. Same(c) /\ c.seq \in Nat
    BY <1>1, Numbers DEF ConnShape
  <2>3. Message(kind, 0) \in Sent
    <3>1. kind \in SetupKinds \cup CommandKinds /\ 0 \in Nat
          /\ (kind \in SetupKinds \/ call.kind # "connect")
      BY DEF SetupKinds
    <3> QED  BY <3>1, SentOK
  <2> HIDE DEF c
  <2> QED  BY <1>1, <2>1, <2>2, <2>3, WritesMove
<1> QED  BY <1>2, <1>3

LEMMA UploadMoves ==
    ASSUME WatchInv, CallType, WireType, NEW kind, NEW next, WritePacket(conn, Upload(kind), next),
           kind \in SetupKinds
    PROVE  WireMoved
<1>1. ConnShape /\ Same(conn) /\ conn.seq \in Nat
  BY Numbers DEF WatchInv, Shapes, CallType
<1>2. Message(kind, conn.seq) \in Sent
  BY <1>1, SentOK
<1>3. Upload(kind) = Message(kind, conn.seq)
  BY DEF Upload, Message
<1>4. WritePacket(conn, Message(kind, conn.seq), next)
  BY <1>3
<1> QED  BY <1>1, <1>2, <1>4, WritesMove

LEMMA CountedOK ==
    ASSUME WatchInv, CallType, NEW b,
           conn' = Counted(conn) \/ conn' = [Counted(conn) EXCEPT !.more = b] \/ UNCHANGED conn
    PROVE  conn'.closed = conn.closed /\ conn'.seq \in Nat
<1>1. ConnShape /\ conn.seq \in Nat
  BY DEF WatchInv, Shapes, CallType
<1>2. /\ Counted(conn).seq \in Nat /\ [Counted(conn) EXCEPT !.more = b].seq \in Nat
      /\ Counted(conn).closed = conn.closed /\ [Counted(conn) EXCEPT !.more = b].closed = conn.closed
  BY <1>1 DEF ConnShape, Counted
<1> QED  BY <1>1, <1>2

LEMMA ReceiveMoves ==
    ASSUME WatchInv, CallType, WireType, NEW kinds, Receive(kinds), NEW b,
           conn' = Counted(conn) \/ conn' = [Counted(conn) EXCEPT !.more = b]
    PROVE  WireMoved
<1>1. Readable /\ wire' \in Filled
  BY DEF Receive, Expect
<1>2. Incoming(wire')
  BY <1>1, FilledIncoming
<1> QED  BY <1>2, CountedOK, StaysUp DEF WatchInv, Shapes

LEMMA CleanedSeq ==
    ASSUME ConnShape, CallType
    PROVE  Cleanup(conn).seq \in Nat
BY DEF ConnShape, CallType, Cleanup

LEMMA ReadingFailsMoves ==
    ASSUME WatchInv, CallType, WireType, ReadFails \/ OutOfSync
    PROVE  WireMoved
<1>1. ConnShape /\ Incoming(wire)
  BY KeptIncoming DEF WatchInv, Shapes
<1>2. CASE ReadFails
  <2>1. UNCHANGED <<conn, wire>> \/ (conn' = Cleanup(conn) /\ wire' = Quit(conn, wire))
    BY <1>2 DEF ReadFails
  <2> QED  BY <1>1, <2>1, BusyMoves, CleanedSeq, IsCutOff
<1>3. CASE OutOfSync
  <2>1. UNCHANGED conn
    BY <1>3 DEF OutOfSync
  <2>2. CASE wire.buf # <<>>
    <3>1. wire' = wire
      BY <1>3, <2>2 DEF OutOfSync
    <3> QED  BY <1>1, <2>1, <3>1, BusyMoves
  <2>3. CASE wire.buf = <<>>
    <3>1. PICK k \in 1 .. Len(wire.in) :
             wire' = [wire EXCEPT !.buf = SubSeq(wire.in, 1, k),
                                  !.in = SubSeq(wire.in, k + 1, Len(wire.in))]
      BY <1>3, <2>3 DEF OutOfSync
    <3>2. \A S : wire.in \in Seq(S) =>
             SubSeq(wire.in, 1, k) \in Seq(S) /\ SubSeq(wire.in, k + 1, Len(wire.in)) \in Seq(S)
      <4> SUFFICES ASSUME NEW S, wire.in \in Seq(S)
                   PROVE  SubSeq(wire.in, 1, k) \in Seq(S)
                          /\ SubSeq(wire.in, k + 1, Len(wire.in)) \in Seq(S)
        OBVIOUS
      <4>1. k \in 0 .. Len(wire.in)
        OBVIOUS
      <4> QED  BY <4>1, Parts
    <3>3. wire.in # <<>>
      BY EmptySeq
    <3>4. Incoming(wire')
      BY <3>1, <3>2, <3>3 DEF WireType, Incoming, WireShape, Delivered
    <3> QED  BY <1>1, <2>1, <3>4, StaysUp DEF CallType
  <2> QED  BY <2>2, <2>3
<1> QED  BY <1>2, <1>3

-----------------------------------------------------------------------------
(* How a call goes on *)

CallMoved ==
    /\ pc' \in ClientPcs \ {"dial"}
    /\ call'.id = call.id /\ call'.kind = call.kind /\ call'.ctx = call.ctx
    /\ call.kind # "connect" =>
          call'.todo \in Todos /\ (call'.todo = <<"stmtClose">> => call.todo = <<"stmtClose">>)
    /\ pc' = "unanswered" => call.kind = "stmtClose" \/ call'.todo \in LongDataTodos
    /\ call.kind = "connect" =>
          /\ call'.todo \in Seq(Setup)
          /\ pc' \in {"abandon", "finish"} \cup Greeted \cup SettingUp
          /\ pc' \in SettingUp => session'.auth /\ call'.todo # <<>>
          /\ res' = "ok" => session'.auth
          /\ pc' = "finish" /\ res' # "ok" => conn'.closed
SessionMoved ==
    /\ SessionType'
    /\ session.auth => session'.auth
    /\ session'.auth => session.auth \/ srv.pc \in Accepted
RowsMoved == rows'.open \/ pc' = "nextResultSet" => Iterating
ClientMoves == WireMoved /\ CallMoved /\ SessionMoved /\ RowsMoved

LEMMA OutStays ==
    ASSUME NEW S, wire.out \in Seq(S), NEW m \in S,
           wire'.out \in {wire.out, <<>>, Append(wire.out, m)}
    PROVE  wire'.out \in Seq(S)
<1>1. Append(wire.out, m) \in Seq(S) /\ <<>> \in Seq(S)
  OBVIOUS
<1> QED  BY <1>1

\* A step of the client keeps the invariant.
LEMMA ClientKeeps ==
    ASSUME CallInv, WatchInv', ClientMoves, UNCHANGED <<watcher, srv, ended, history>>
    PROVE  CallInv'
<1> USE DEF CallInv, EnvTypes, ClientMoves
<1>1. PICK m \in Sent : wire'.out \in {wire.out, <<>>, Append(wire.out, m)}
  BY DEF WireMoved
<1>2. WireType'
  <2>1. wire'.out \in Seq(AnyMessage)
    BY <1>1, OutStays DEF Sent, WireType
  <2>2. wire'.in \in Seq(AnyPacket) /\ wire'.buf \in Seq(AnyPacket)
    <3>1. AnyPacket \in SUBSET AnyPacket
      OBVIOUS
    <3> QED  BY <3>1 DEF WireMoved, Delivered, WireType
  <2> QED  BY <2>1, <2>2 DEF WireMoved, WireShape, WireType, Nets
<1>3. SrvType' /\ SessionType' /\ HistoryType' /\ WatcherType'
  BY DEF SrvType, HistoryType, WatcherType, SessionMoved
<1>4. CallType'
  <2>1. pc' \in ClientPcs /\ conn'.seq \in Nat /\ call'.id \in Calls /\ call'.ctx \in {Background} \cup Calls
    BY DEF CallType, CallMoved, WireMoved
  <2>2. call'.kind = "connect" => call'.todo \in Seq(Setup)
    BY DEF CallMoved
  <2>3. call'.kind # "connect" =>
           call'.todo \in Todos /\ (call'.todo = <<"stmtClose">> => call'.kind = "stmtClose")
    BY DEF CallType, CallMoved
  <2>4. pc' = "unanswered" => call'.kind = "stmtClose" \/ call'.todo \in LongDataTodos
    BY DEF CallMoved
  <2>5. rows'.open \/ pc' = "nextResultSet" => Iterating'
    BY DEF CallMoved, RowsMoved, Iterating
  <2> QED  BY <2>1, <2>2, <2>3, <2>4, <2>5 DEF CallType
<1>5. ConnectOK'
  <2> SUFFICES ASSUME call.kind = "connect"
               PROVE  ConnectOK'
    BY DEF CallMoved, ConnectOK
  <2>1. /\ pc' \in {"abandon", "finish"} \cup Greeted \cup SettingUp
        /\ pc' \in SettingUp => session'.auth /\ call'.todo # <<>>
        /\ res' = "ok" => session'.auth
        /\ pc' = "finish" /\ res' # "ok" => conn'.closed
    BY DEF CallMoved
  <2>2. pc' \notin {"idle", "gone"}
    BY <2>1 DEF Greeted, SettingUp
  <2> QED  BY <2>1, <2>2 DEF ConnectOK
<1>6. CutOffOK'
  <2>1. pc' # "dial"
    BY DEF CallMoved
  <2> QED  BY <2>1 DEF WireMoved, CutOffOK
<1>7. AcceptedOK'
  <2>1. session'.auth => srv'.pc \in Accepted
    BY DEF SessionMoved, AcceptedOK
  <2>2. srv'.pc \in Early => wire'.in \in Seq(NotOk) /\ wire'.buf \in Seq(NotOk)
    <3>1. NotOk \in SUBSET AnyPacket
      BY DEF NotOk
    <3> QED  BY <3>1 DEF WireMoved, Delivered, AcceptedOK
  <2>3. call'.kind = "connect" => srv'.pc # "infile" /\ wire'.out \in Seq(SetupMessage)
    BY <1>1, OutStays DEF Sent, CallMoved, AcceptedOK
  <2> QED  BY <2>1, <2>2, <2>3 DEF AcceptedOK
<1> QED  BY <1>2, <1>3, <1>4, <1>5, <1>6, <1>7

LEMMA SessionStays ==
    ASSUME SessionType, NEW b,
           UNCHANGED session \/ session' = [session EXCEPT !.tx = b] \/ session' = [session EXCEPT !.stmt = b]
           \/ session' = [session EXCEPT !.plugin = b]
    PROVE  SessionMoved
BY DEF SessionType, SessionMoved

LEMMA RowsNotOpened ==
    ASSUME CallInv, rows'.open => rows.open, pc' # "nextResultSet"
    PROVE  RowsMoved
BY DEF CallInv, CallType, RowsMoved

\* What a call other than Connect has left is never a choice of character sets.
LEMMA TodosFacts ==
    ASSUME NEW t \in Todos
    PROVE  /\ t # <<>>
           /\ Head(t) \in CommandKinds \cup {"argError"}
           /\ t[1] # "names"
           /\ Tail(t) = <<>> \/ Tail(t) \in Todos \ {<<"stmtClose">>}
           /\ Head(t) = "stmtClose" => t = <<"stmtClose">>
           /\ Head(t) = "longData" => t \in LongDataTodos
           /\ t \in LongDataTodos => Tail(t) \in Todos \ {<<"stmtClose">>}
<1> DEFINE Short == {"query", "execute", "argError", "begin", "end", "ping", "prepare", "stmtClose"}
           Long == {<<"longData", "execute">>, <<"longData", "argError">>, <<"set", "begin">>}
<1>1. (\E c \in Short : t = <<c>>) \/ t \in Long
  BY DEF Todos, QueryTodos, LongDataTodos
<1>2. ASSUME NEW c \in Short, t = <<c>>
      PROVE  t # <<>> /\ Head(t) = c /\ t[1] = c /\ Tail(t) = <<>>
  BY <1>2
<1>3. \A c \in Short : <<c>> \notin LongDataTodos
  BY DEF LongDataTodos
<1>4. CASE \E c \in Short : t = <<c>>
  BY <1>2, <1>3, <1>4 DEF CommandKinds
<1>5. CASE t = <<"longData", "execute">>
  BY <1>5 DEF CommandKinds, LongDataTodos, Todos, QueryTodos
<1>6. CASE t = <<"longData", "argError">>
  BY <1>6 DEF CommandKinds, LongDataTodos, Todos, QueryTodos
<1>7. CASE t = <<"set", "begin">>
  <2>1. t \notin LongDataTodos
    BY <1>7 DEF LongDataTodos
  <2> QED  BY <1>7, <2>1 DEF CommandKinds, Todos
<1> QED  BY <1>1, <1>4, <1>5, <1>6, <1>7

LEMMA SetupFacts ==
    ASSUME NEW t \in Seq(Setup), t # <<>>
    PROVE  Head(t) \in Setup /\ Tail(t) \in Seq(Setup)
BY HeadTailProperties

\* Where a call of Connect is decides whether the server has accepted the client.
LEMMA ConnectPlaces ==
    ASSUME CallInv, call.kind = "connect"
    PROVE  /\ pc \in {"dial", "watch", "abandon", "finish", "idle", "gone"} \cup Greeted \cup SettingUp
           /\ pc \in SettingUp => session.auth /\ call.todo # <<>>
           /\ call.todo \in Seq(Setup)
           /\ res = "ok" => session.auth
BY DEF CallInv, ConnectOK, CallType

LEMMA CharsetsLeft ==
    ASSUME CallInv, CharsetLeft
    PROVE  /\ call.kind = "connect" /\ session.auth
           /\ Tail(call.todo) \in Seq(Setup) /\ Tail(call.todo) # <<>>
           /\ Tail(Tail(call.todo)) \in Seq(Setup)
<1>1. session.auth /\ Len(call.todo) > 1 /\ call.todo[1] = "names"
  BY DEF CharsetLeft
<1>2. call.kind = "connect"
  BY <1>1, TodosFacts DEF CallInv, CallType
<1>3. call.todo \in Seq(Setup)
  BY <1>2 DEF CallInv, CallType
<1>4. Tail(call.todo) \in Seq(Setup) /\ Len(Tail(call.todo)) = Len(call.todo) - 1
  BY <1>1, <1>3, HeadTailProperties, EmptySeq
<1>5. Tail(call.todo) # <<>>
  <2> DEFINE n == Len(call.todo)
             m == Len(Tail(call.todo))
  <2>1. n \in Nat /\ n > 1 /\ m = n - 1
    BY <1>1, <1>3, <1>4, LenProperties
  <2>2. m # 0
    <3> HIDE DEF n, m
    <3> QED  BY <2>1
  <2>3. Len(<<>>) = 0
    BY EmptySeq
  <2> QED  BY <2>2, <2>3
<1> QED  BY <1>1, <1>2, <1>4, <1>5, HeadTailProperties

LEMMA ReturnMoves ==
    ASSUME CallInv, NEW e \in Errors \cup {"ok"}, Return(e), session.auth => session'.auth,
           e = "ok" => pc # "infileSkip" /\ (call.kind = "connect" => session'.auth)
    PROVE  CallMoved
<1>1. CASE e # "ok" /\ CharsetLeft
  <2>1. call' = [call EXCEPT !.todo = Tail(call.todo)] /\ pc' = "write" /\ res' = res
    BY <1>1 DEF Return
  <2>2. /\ call'.todo = Tail(call.todo) /\ call'.id = call.id /\ call'.kind = call.kind
        /\ call'.ctx = call.ctx
    BY <2>1 DEF CallInv, WatchInv, Shapes, CallShape
  <2>3. "write" \in ClientPcs /\ "write" \in SettingUp
    BY DEF ClientPcs, SettingUp
  <2> QED  BY <1>1, <2>1, <2>2, <2>3, CharsetsLeft, ConnectPlaces DEF CallMoved
<1>2. CASE ~(e # "ok" /\ CharsetLeft)
  <2>1. res' = MarkBadConn(e) /\ pc' = After(e) /\ UNCHANGED call
    BY <1>2 DEF Return
  <2>2. MarkBadConn(e) = "ok" <=> e = "ok"
    BY DEF MarkBadConn
  <2>3. After(e) \in {"idle", "abandon", "finish"}
    BY DEF After
  <2>4. call.kind = "connect" => After(e) = IF e = "ok" THEN "finish" ELSE "abandon"
    BY DEF After
  <2>5. {"idle", "abandon", "finish"} \subseteq ClientPcs \ {"dial", "unanswered"}
    BY DEF ClientPcs
  <2>6. {"abandon", "finish"} \cap SettingUp = {}
    BY DEF SettingUp
  <2>7. pc' \in ClientPcs \ {"dial", "unanswered"}
    BY <2>1, <2>3, <2>5
  <2>8. call.kind = "connect" => pc' \in {"abandon", "finish"} \ SettingUp /\ (res' = "ok" => session'.auth)
        /\ (pc' = "finish" => res' = "ok")
    BY <2>1, <2>2, <2>4, <2>6
  <2>9. call'.kind # "connect" => call'.todo \in Todos
    BY <2>1 DEF CallInv, CallType
  <2> QED  BY <2>1, <2>7, <2>8, <2>9, ConnectPlaces DEF CallMoved
<1> QED  BY <1>1, <1>2

LEMMA FailsMoves ==
    ASSUME CallInv, Fails, session.auth => session'.auth
    PROVE  CallMoved
<1>1. PICK e \in Errors : Return(e)
  BY DEF Fails
<1>2. e # "ok"
  BY DEF Errors
<1> QED  BY <1>1, <1>2, ReturnMoves

LEMMA GoOnMoves ==
    ASSUME CallInv, NEW next \in ClientPcs \ {"dial"}, GoOn(next), session.auth => session'.auth,
           next = "unanswered" => call.kind = "stmtClose" \/ call.todo \in LongDataTodos,
           call.kind = "connect" =>
              \/ next \in {"abandon"} \cup Greeted
              \/ next = "finish" /\ conn'.closed
              \/ next \in SettingUp /\ session'.auth /\ call.todo # <<>>
    PROVE  CallMoved
<1>1. pc' = next /\ UNCHANGED <<call, res>>
  BY DEF GoOn
<1>2. call.kind # "connect" => call.todo \in Todos
  BY DEF CallInv, CallType
<1>3. SettingUp \cap ({"abandon", "finish"} \cup Greeted) = {} /\ "finish" \notin Greeted \cup SettingUp
  BY DEF SettingUp, Greeted
<1> QED  BY <1>1, <1>2, <1>3, ConnectPlaces DEF CallMoved

LEMMA CommandDoneMoves ==
    ASSUME CallInv, CommandDone, pc \in {"header", "infileOK", "rows"}, session.auth => session'.auth
    PROVE  CallMoved
<1>1. call.kind = "connect" => session.auth /\ call.todo # <<>> /\ call.todo \in Seq(Setup)
  BY ConnectPlaces DEF SettingUp
<1>2. CASE Return("ok")
  BY <1>1, <1>2, ReturnMoves
<1>3. CASE ~Return("ok")
  <2> DEFINE todo == IF CharsetLeft THEN Tail(Tail(call.todo)) ELSE Tail(call.todo)
  <2>1. /\ todo # <<>> /\ call' = [call EXCEPT !.todo = todo]
        /\ pc' = IF todo = <<"begin">> THEN "check" ELSE "write"
        /\ res' = res
    BY <1>3 DEF CommandDone
  <2>2. call.kind = "connect" => todo \in Seq(Setup)
    BY <1>1, CharsetsLeft, SetupFacts
  <2>3. call.kind # "connect" => todo \in Todos \ {<<"stmtClose">>}
    <3> SUFFICES ASSUME call.kind # "connect"
                 PROVE  todo \in Todos \ {<<"stmtClose">>}
      OBVIOUS
    <3>1. ~CharsetLeft /\ call.todo \in Todos
      BY CharsetsLeft DEF CallInv, CallType
    <3> QED  BY <2>1, <3>1, TodosFacts
  <2>4. <<"begin">> \notin Seq(Setup)
    BY ElementOfSeq DEF Setup
  <2> HIDE DEF todo
  <2>5. /\ call'.todo = todo /\ call'.id = call.id /\ call'.kind = call.kind
        /\ call'.ctx = call.ctx
    BY <2>1 DEF CallInv, WatchInv, Shapes, CallShape
  <2>6. pc' \in {"check", "write"} /\ (call.kind = "connect" => pc' = "write")
    BY <2>1, <2>2, <2>4
  <2>7. {"check", "write"} \subseteq ClientPcs \ {"dial", "unanswered"} /\ "write" \in SettingUp
    BY DEF ClientPcs, SettingUp
  <2>8. pc' \in ClientPcs \ {"dial", "unanswered"}
    BY <2>6, <2>7
  <2>9. call.kind = "connect" =>
           /\ call'.todo \in Seq(Setup) /\ call'.todo # <<>>
           /\ pc' \in SettingUp /\ pc' # "finish" /\ session'.auth
    BY <1>1, <2>1, <2>2, <2>5, <2>6, <2>7
  <2> QED  BY <2>3, <2>5, <2>8, <2>9 DEF CallMoved
<1> QED  BY <1>2, <1>3

LEMMA AfterResultMoves ==
    ASSUME CallInv, NEW more, AfterResult(more), pc \in {"header", "infileOK", "rows"},
           session.auth => session'.auth
    PROVE  CallMoved /\ RowsMoved
<1>1. CASE Iterating /\ call.kind = "stmtQuery"
  <2>1. Return("ok")
    BY <1>1 DEF AfterResult
  <2> QED  BY <1>1, <2>1, ReturnMoves DEF RowsMoved
<1>2. CASE Iterating /\ call.kind # "stmtQuery"
  <2>1. GoOn("nextResultSet")
    BY <1>2 DEF AfterResult
  <2>2. call.kind # "connect" /\ "nextResultSet" \in ClientPcs
    BY <1>2 DEF Iterating, QueryKinds, ClientPcs
  <2> QED  BY <1>2, <2>1, <2>2, GoOnMoves DEF RowsMoved
<1>3. CASE ~Iterating
  <2>1. UNCHANGED rows /\ (GoOn("header") \/ CommandDone)
    BY <1>3 DEF AfterResult
  <2>2. "header" \in ClientPcs \cap SettingUp
    BY DEF ClientPcs, Reading, SettingUp
  <2>3. call.kind = "connect" => session.auth /\ call.todo # <<>>
    BY ConnectPlaces DEF SettingUp
  <2>4. CallMoved
    BY <2>1, <2>2, <2>3, GoOnMoves, CommandDoneMoves
  <2>5. ~rows.open
    BY <1>3 DEF CallInv, CallType
  <2>6. pc' # "nextResultSet"
    BY <2>1 DEF GoOn, CommandDone, Return, After
  <2> QED  BY <2>1, <2>4, <2>5, <2>6 DEF RowsMoved
<1> QED  BY <1>1, <1>2, <1>3

-----------------------------------------------------------------------------
(* The steps of the calls *)

LEMMA PlacesOf ==
    ASSUME CallInv,
           pc \in {"precheck", "check", "unanswered", "pong", "prepared", "definitions", "moreDefinitions",
                   "contextCheck", "nextRow", "row", "nextResultSet", "closeFinish", "closeRows"}
    PROVE  call.kind # "connect"
BY ConnectPlaces DEF Greeted, SettingUp

LEMMA SendingMoves ==
    ASSUME CallInv, WatchInv', SendingSteps
    PROVE  CallInv' /\ ClientMoves
<1>0. UNCHANGED <<rows, watcher, srv, ended, history>>
  BY DEF SendingSteps, CheckClosed, WriteQuery, WriteUnanswered, Unanswered, ArgumentError,
         InfileRequest, InfileData, InfileEnd, InfileSkip, Rest
<1>a. WatchInv /\ ConnShape /\ CallType /\ WireType /\ SessionType
  BY DEF CallInv, EnvTypes, WatchInv, Shapes
<1>b. pc \in {"write", "header", "infileData", "infileEnd", "infileAbort", "infileSkip"} =>
         (call.kind = "connect" => session.auth /\ call.todo # <<>> /\ call.todo \in Seq(Setup))
  BY ConnectPlaces DEF SettingUp
<1> SUFFICES WireMoved /\ CallMoved /\ SessionMoved /\ pc' # "nextResultSet"
  BY <1>0, RowsNotOpened, ClientKeeps DEF ClientMoves
<1>c. ASSUME Fails
      PROVE  pc' # "nextResultSet"
  BY <1>c DEF Fails, Return, After
<1>d. ASSUME NEW next, GoOn(next), next # "nextResultSet"
      PROVE  pc' # "nextResultSet"
  BY <1>d DEF GoOn
<1>1. CASE CheckClosed
  <2>1. pc = "check" /\ UNCHANGED <<conn, wire, session>> /\ (Fails \/ GoOn("write"))
    BY <1>1 DEF CheckClosed, Fails, Errors
  <2>2. "write" \in ClientPcs
    BY DEF ClientPcs
  <2>3. CallMoved
    BY <2>1, <2>2, PlacesOf, FailsMoves, GoOnMoves
  <2> QED  BY <1>a, <1>c, <1>d, <2>1, <2>3, BusyMoves, SessionStays
<1>2. CASE WriteQuery
  <2> DEFINE kind == Head(call.todo)
             next == AfterCommand(kind)
  <2>1. /\ pc = "write" /\ kind \notin {"longData", "argError", "stmtClose"}
        /\ session' = [session EXCEPT !.tx = @ /\ call.kind \notin {"commit", "rollback"}]
    BY <1>2 DEF WriteQuery
  <2>2. SessionMoved /\ session.auth => session'.auth
    BY <1>a, <2>1, SessionStays DEF SessionMoved
  <2>3. SessionMoved
    BY <1>a, <2>1, SessionStays
  <2>4. (kind \in CommandKinds /\ call.kind # "connect") \/ kind \in Setup
    BY <1>a, <1>b, <2>1, TodosFacts, SetupFacts DEF CallType
  <2>5. next \in {"pong", "prepared", "header"} /\ (kind \in Setup => next = "header")
    BY DEF AfterCommand, Setup
  <2>6. CASE WriteCommand(kind, next)
    <3> HIDE DEF next, kind
    <3>1. WireMoved
      BY <1>a, <2>4, <2>6, CommandedMoves
    <3>2. GoOn(next) \/ Fails
      BY <1>a, <2>6, Commanded
    <3>3. {"pong", "prepared", "header"} \subseteq ClientPcs \ {"dial", "unanswered", "nextResultSet"}
          /\ "header" \in SettingUp
      BY DEF ClientPcs, Reading, SettingUp
    <3>4. next \in ClientPcs \ {"dial", "unanswered", "nextResultSet"}
      BY <2>5, <3>3
    <3>5. call.kind = "connect" => next \in SettingUp /\ session'.auth /\ call.todo # <<>>
      <4>1. call.kind = "connect" => kind \in Setup
        BY <1>b, <2>1, SetupFacts DEF kind
      <4> QED  BY <1>b, <2>1, <2>3, <2>5, <3>3, <4>1 DEF SessionMoved
    <3>6. CallMoved
      BY <2>3, <3>2, <3>4, <3>5, FailsMoves, GoOnMoves DEF SessionMoved
    <3> QED  BY <1>c, <1>d, <2>3, <3>1, <3>2, <3>4, <3>6
  <2>7. CASE Return("tooLarge") /\ UNCHANGED <<conn, wire>>
    <3>1. Fails
      BY <2>7 DEF Fails, Errors
    <3>2. CallMoved
      BY <2>3, <3>1, FailsMoves DEF SessionMoved
    <3> QED  BY <1>a, <1>c, <2>3, <2>7, <3>1, <3>2, BusyMoves
  <2> QED  BY <1>2, <2>6, <2>7 DEF WriteQuery
<1>3. CASE WriteUnanswered
  <2> DEFINE kind == Head(call.todo)
  <2>1. /\ pc = "write" /\ kind \in {"longData", "stmtClose"} /\ WriteCommand(kind, "unanswered")
        /\ session' = [session EXCEPT !.stmt = @ /\ call.kind # "stmtClose"]
    BY <1>3 DEF WriteUnanswered
  <2>2. SessionMoved
    BY <1>a, <2>1, SessionStays
  <2>3. call.kind # "connect"
    BY <1>b, <2>1, SetupFacts DEF Setup
  <2>4. call.kind = "stmtClose" \/ call.todo \in LongDataTodos
    BY <1>a, <2>1, <2>3, TodosFacts DEF CallType
  <2> HIDE DEF kind
  <2>5. kind \in CommandKinds
    BY <2>1 DEF CommandKinds
  <2>6. WireMoved /\ (GoOn("unanswered") \/ Fails)
    BY <1>a, <2>1, <2>3, <2>5, Commanded, CommandedMoves
  <2>7. "unanswered" \in ClientPcs
    BY DEF ClientPcs
  <2>8. CallMoved
    BY <2>2, <2>3, <2>4, <2>6, <2>7, FailsMoves, GoOnMoves DEF SessionMoved
  <2> QED  BY <1>c, <1>d, <2>2, <2>6, <2>8
<1>4. CASE Unanswered
  <2>1. pc = "unanswered" /\ UNCHANGED <<conn, wire, session>>
    BY <1>4 DEF Unanswered
  <2>2. WireMoved /\ SessionMoved /\ call.kind # "connect"
    BY <1>a, <2>1, BusyMoves, SessionStays, PlacesOf
  <2>3. CASE call.kind = "stmtClose"
    <3>1. Return("ok")
      BY <1>4, <2>3 DEF Unanswered
    <3>2. CallMoved
      BY <2>1, <2>2, <3>1, ReturnMoves
    <3> QED  BY <2>2, <3>1, <3>2 DEF Return, After
  <2>4. CASE call.kind # "stmtClose"
    <3>1. call' = [call EXCEPT !.todo = Tail(@)] /\ pc' = "write" /\ res' = res
      BY <1>4, <2>4 DEF Unanswered
    <3>2. Tail(call.todo) \in Todos \ {<<"stmtClose">>}
      <4>1. call.todo \in LongDataTodos /\ call.todo \in Todos
        BY <1>a, <2>1, <2>2, <2>4 DEF CallType
      <4> QED  BY <4>1, TodosFacts
    <3>3. /\ call'.todo = Tail(call.todo) /\ call'.id = call.id /\ call'.kind = call.kind
          /\ call'.ctx = call.ctx
      BY <1>a, <3>1 DEF WatchInv, Shapes, CallShape
    <3>4. "write" \in ClientPcs
      BY DEF ClientPcs
    <3> QED  BY <2>2, <3>1, <3>2, <3>3, <3>4 DEF CallMoved
  <2> QED  BY <2>3, <2>4
<1>5. CASE ArgumentError
  <2>1. UNCHANGED <<conn, wire, session>> /\ Fails
    BY <1>5 DEF ArgumentError, Fails, Errors
  <2>2. CallMoved
    BY <2>1, FailsMoves
  <2> QED  BY <1>a, <1>c, <2>1, <2>2, BusyMoves, SessionStays
<1>6. CASE InfileRequest
  <2>1. /\ pc = "header" /\ Receive({"infile"}) /\ conn' = Counted(conn) /\ UNCHANGED session
        /\ \E next \in {"infileData", "infileEnd", "infileAbort"} : GoOn(next)
    BY <1>6 DEF InfileRequest
  <2>2. {"infileData", "infileEnd", "infileAbort"}
           \subseteq (ClientPcs \cap SettingUp) \ {"dial", "unanswered", "nextResultSet"}
    BY DEF ClientPcs, SettingUp
  <2>3. PICK next \in (ClientPcs \cap SettingUp) \ {"dial", "unanswered", "nextResultSet"} : GoOn(next)
    BY <2>1, <2>2
  <2>4. CallMoved
    BY <1>b, <2>1, <2>3, GoOnMoves
  <2> QED  BY <1>a, <1>d, <2>1, <2>3, <2>4, ReceiveMoves, SessionStays
<1>7. CASE InfileData \/ InfileEnd
  <2>1. /\ pc \in {"infileData", "infileEnd", "infileAbort"} /\ UNCHANGED session
        /\ \E kind \in {"data", "empty"} :
           \E next \in {"infileEnd", "infileAbort", "infileOK", "infileSkip"} :
              WritePacket(conn, Upload(kind), next)
    BY <1>7 DEF InfileData, InfileEnd
  <2>2. PICK kind \in {"data", "empty"} :
           \E next \in {"infileEnd", "infileAbort", "infileOK", "infileSkip"} :
              WritePacket(conn, Upload(kind), next)
    BY <2>1
  <2>3. PICK next \in {"infileEnd", "infileAbort", "infileOK", "infileSkip"} :
           WritePacket(conn, Upload(kind), next)
    BY <2>2
  <2>4. kind \in SetupKinds
    BY DEF SetupKinds
  <2>5. WireMoved /\ (GoOn(next) \/ Fails)
    BY <1>a, <2>3, <2>4, UploadMoves, Writes, Numbers
  <2>6. {"infileEnd", "infileAbort", "infileOK", "infileSkip"}
           \subseteq (ClientPcs \cap SettingUp) \ {"dial", "unanswered", "nextResultSet"}
    BY DEF ClientPcs, Reading, SettingUp
  <2>7. next \in (ClientPcs \cap SettingUp) \ {"dial", "unanswered", "nextResultSet"}
    BY <2>6
  <2>8. CallMoved
    BY <1>b, <2>1, <2>5, <2>7, FailsMoves, GoOnMoves
  <2> QED  BY <1>a, <1>c, <1>d, <2>1, <2>5, <2>7, <2>8, SessionStays
<1>8. CASE InfileSkip
  <2>1. Receive({"ok", "err"}) /\ conn' = Counted(conn) /\ UNCHANGED session /\ Fails
    BY <1>8 DEF InfileSkip, Fails, Errors
  <2>2. CallMoved
    BY <2>1, FailsMoves
  <2> QED  BY <1>a, <1>c, <2>1, <2>2, ReceiveMoves, SessionStays
<1> QED  BY <1>1, <1>2, <1>3, <1>4, <1>5, <1>6, <1>7, <1>8 DEF SendingSteps

LEMMA ReadingMoves ==
    ASSUME CallInv, WatchInv', ReadingSteps
    PROVE  CallInv' /\ ClientMoves
<1>0. UNCHANGED <<watcher, srv, ended, history>>
  BY DEF ReadingSteps, OkPacket, Pong, Header, Columns, SkipRow, RowsEnd, ErrorPacket, Prepared,
         Definitions, CommandFails, Rest
<1>a. WatchInv /\ ConnShape /\ CallType /\ WireType /\ SessionType /\ SrvType /\ AcceptedOK
      /\ RowsShape
  BY DEF CallInv, EnvTypes, WatchInv, Shapes
<1>b. pc \in {"header", "columns", "rows", "infileOK"} =>
         (call.kind = "connect" => session.auth /\ call.todo # <<>>)
  BY ConnectPlaces DEF SettingUp
<1> SUFFICES WireMoved /\ CallMoved /\ SessionMoved /\ RowsMoved
  BY <1>0, ClientKeeps DEF ClientMoves
<1>c. ASSUME NEW e \in Errors \cup {"ok"}, Return(e)
      PROVE  pc' # "nextResultSet"
  BY <1>c DEF Return, After
<1>d. ASSUME NEW next, GoOn(next), next # "nextResultSet"
      PROVE  pc' # "nextResultSet"
  BY <1>d DEF GoOn
<1>1. CASE OkPacket
  <2>1. /\ pc \in {"header", "infileOK"} /\ Receive({"ok"}) /\ AfterResult(NextPacket.more)
        /\ conn' = [Counted(conn) EXCEPT !.more = NextPacket.more]
        /\ session' = [session EXCEPT !.tx = @ \/ Head(call.todo) = "begin"]
    BY <1>1 DEF OkPacket
  <2>2. SessionMoved
    BY <1>a, <2>1, SessionStays
  <2> QED  BY <1>a, <2>1, <2>2, ReceiveMoves, AfterResultMoves DEF SessionMoved
<1>2. CASE Pong \/ Prepared \/ Definitions
  <2>1. /\ pc \in {"pong", "prepared", "definitions", "moreDefinitions"}
        /\ \E kinds : Receive(kinds)
        /\ conn' = Counted(conn) \/ conn' = [Counted(conn) EXCEPT !.more = NextPacket.more]
        /\ UNCHANGED <<rows, session>>
        /\ Return("ok") \/ GoOn("definitions") \/ GoOn("moreDefinitions")
    BY <1>2 DEF Pong, Prepared, Definitions, Receive, Expect
  <2>2. WireMoved /\ SessionMoved /\ call.kind # "connect"
    BY <1>a, <2>1, ReceiveMoves, SessionStays, PlacesOf
  <2>3. {"definitions", "moreDefinitions"} \subseteq ClientPcs
    BY DEF ClientPcs, Reading
  <2>4. CallMoved
    BY <2>1, <2>2, <2>3, ReturnMoves, GoOnMoves
  <2>5. pc' # "nextResultSet"
    BY <1>c, <1>d, <2>1
  <2> QED  BY <2>1, <2>2, <2>4, <2>5, RowsNotOpened
<1>3. CASE Header
  <2>1. /\ pc = "header" /\ Receive({"header"}) /\ conn' = Counted(conn) /\ GoOn("columns")
        /\ UNCHANGED <<rows, session>>
    BY <1>3 DEF Header
  <2>2. "columns" \in ClientPcs \cap SettingUp
    BY DEF ClientPcs, Reading, SettingUp
  <2>3. CallMoved
    BY <1>b, <2>1, <2>2, GoOnMoves
  <2> QED  BY <1>a, <1>d, <2>1, <2>3, ReceiveMoves, SessionStays, RowsNotOpened
<1>4. CASE Columns
  <2>1. /\ pc = "columns" /\ Receive({"columns"}) /\ UNCHANGED session
        /\ conn' = Counted(conn) \/ conn' = [Counted(conn) EXCEPT !.more = NextPacket.more]
    BY <1>4 DEF Columns
  <2>2. WireMoved /\ SessionMoved
    BY <1>a, <2>1, ReceiveMoves, SessionStays
  <2>3. CASE Iterating
    <3>1. Return("ok")
      BY <1>4, <2>3 DEF Columns
    <3>2. call.kind # "connect"
      BY <2>3 DEF Iterating, QueryKinds
    <3> QED  BY <2>1, <2>2, <2>3, <3>1, <3>2, ReturnMoves DEF RowsMoved
  <2>4. CASE ~Iterating
    <3>1. UNCHANGED rows /\ (GoOn("variable") \/ GoOn("rows"))
      BY <1>4, <2>4 DEF Columns
    <3>2. {"variable", "rows"} \subseteq ClientPcs \cap SettingUp
      BY DEF ClientPcs, Reading, SettingUp
    <3>3. CallMoved
      BY <1>b, <2>1, <3>1, <3>2, GoOnMoves
    <3> QED  BY <1>d, <2>2, <3>1, <3>3, RowsNotOpened
  <2> QED  BY <2>3, <2>4
<1>5. CASE SkipRow
  <2>1. pc = "rows" /\ Receive({"row"}) /\ conn' = Counted(conn) /\ UNCHANGED <<pc, call, res, rows, session>>
    BY <1>5 DEF SkipRow, clientVars
  <2>2. "rows" \in ClientPcs \cap SettingUp
    BY DEF ClientPcs, Reading, SettingUp
  <2>3. GoOn("rows")
    BY <2>1 DEF GoOn
  <2>4. CallMoved
    BY <1>b, <2>1, <2>2, <2>3, GoOnMoves
  <2> QED  BY <1>a, <1>d, <2>1, <2>3, <2>4, ReceiveMoves, SessionStays, RowsNotOpened
<1>6. CASE RowsEnd
  <2>1. /\ pc = "rows" /\ Receive({"eof"}) /\ AfterResult(NextPacket.more) /\ UNCHANGED session
        /\ conn' = [Counted(conn) EXCEPT !.more = NextPacket.more]
    BY <1>6 DEF RowsEnd
  <2> QED  BY <1>a, <2>1, ReceiveMoves, AfterResultMoves, SessionStays
<1>7. CASE ErrorPacket
  <2>1. PICK w \in Filled :
           \/ wire' = Quit(conn, w) /\ conn' = Cleanup(conn) /\ Return("badConn")
           \/ wire' = w /\ conn' = Counted(conn) /\ Return("err")
    BY <1>7 DEF ErrorPacket
  <2>2. /\ Expect({"err", "readOnly"}) /\ rows' = [rows EXCEPT !.mc = @ /\ pc # "row"]
        /\ UNCHANGED session
    BY <1>7 DEF ErrorPacket
  <2>3. Incoming(w)
    BY <1>a, <2>2, FilledIncoming DEF Expect
  <2>4. WireMoved
    BY <1>a, <2>1, <2>3, CleanedSeq, CountedOK, StaysUp, IsCutOff
  <2>5. Fails
    BY <2>1 DEF Fails, Errors
  <2>6. SessionMoved /\ CallMoved
    BY <1>a, <2>2, <2>5, SessionStays, FailsMoves
  <2>7. rows'.open = rows.open
    BY <1>a, <2>2 DEF RowsShape
  <2> QED  BY <1>c, <2>4, <2>5, <2>6, <2>7, RowsNotOpened DEF Fails
<1>8. CASE CommandFails
  <2>1. UNCHANGED <<rows, session>> /\ (ReadFails \/ OutOfSync)
    BY <1>8 DEF CommandFails
  <2>2. Fails
    BY <1>a, <2>1, ReadingFails
  <2>3. CallMoved
    BY <2>1, <2>2, FailsMoves
  <2> QED  BY <1>a, <1>c, <2>1, <2>2, <2>3, ReadingFailsMoves, SessionStays, RowsNotOpened DEF Fails
<1> QED  BY <1>1, <1>2, <1>3, <1>4, <1>5, <1>6, <1>7, <1>8 DEF ReadingSteps

LEMMA IteratingMoves ==
    ASSUME CallInv, WatchInv', IteratingSteps
    PROVE  CallInv' /\ ClientMoves
<1>0. UNCHANGED <<session, watcher, srv, ended, history>>
      /\ pc \in {"nextRow", "row", "nextResultSet", "closeRows"}
  BY DEF IteratingSteps, NextRow, Row, NextResultSet, CloseRows, Rest
<1>a. WatchInv /\ ConnShape /\ CallType /\ WireType /\ SessionType /\ RowsShape
  BY DEF CallInv, EnvTypes, WatchInv, Shapes
<1>b. SessionMoved /\ call.kind # "connect"
  BY <1>0, <1>a, SessionStays, PlacesOf
<1>c. ConnError \in Errors /\ {"eof", "malformed"} \subseteq Errors
  BY DEF ConnError, Errors
<1>d. {"row", "header", "rows"} \subseteq ClientPcs \ {"dial", "unanswered", "nextResultSet"}
  BY DEF ClientPcs, Reading
<1>e. \/ \E e \in Errors \cup {"ok"} : Return(e)
      \/ \E next \in {"row", "header", "rows"} : GoOn(next)
  <2>1. CASE NextRow
    BY <1>c, <2>1 DEF NextRow
  <2>2. CASE Row
    BY <1>c, <2>2 DEF Row
  <2>3. CASE NextResultSet
    BY <1>c, <2>3 DEF NextResultSet
  <2>4. CASE CloseRows
    BY <1>c, <2>4 DEF CloseRows
  <2> QED  BY <2>1, <2>2, <2>3, <2>4 DEF IteratingSteps
<1>1. CallMoved
  BY <1>0, <1>b, <1>d, <1>e, ReturnMoves, GoOnMoves
<1>2. pc' # "nextResultSet"
  BY <1>e DEF GoOn, Return, After
<1>3. WireMoved
  <2>1. CASE NextRow \/ NextResultSet \/ CloseRows
    BY <1>a, <2>1, BusyMoves DEF NextRow, NextResultSet, CloseRows
  <2>2. CASE Row
    <3>1. /\ Receive({"row", "eof", "ok"})
          /\ conn' = Counted(conn) \/ conn' = [Counted(conn) EXCEPT !.more = NextPacket.more]
      BY <2>2 DEF Row
    <3> QED  BY <1>a, <3>1, ReceiveMoves
  <2> QED  BY <2>1, <2>2 DEF IteratingSteps
<1>4. RowsMoved
  <2>1. CASE NextRow \/ CloseRows
    BY <1>2, <2>1, RowsNotOpened DEF NextRow, CloseRows
  <2>2. CASE Row
    <3>1. \/ UNCHANGED rows
          \/ rows' = [rows EXCEPT !.done = TRUE, !.mc = NextPacket.more]
          \/ rows' = [rows EXCEPT !.mc = FALSE]
      BY <2>2 DEF Row
    <3>2. rows'.open = rows.open
      BY <1>a, <3>1 DEF RowsShape
    <3> QED  BY <1>2, <3>2, RowsNotOpened
  <2>3. CASE NextResultSet
    <3>1. pc = "nextResultSet"
      BY <2>3 DEF NextResultSet
    <3> QED  BY <1>a, <3>1 DEF CallType, RowsMoved
  <2> QED  BY <2>1, <2>2, <2>3 DEF IteratingSteps
<1> QED  BY <1>0, <1>1, <1>3, <1>4, <1>b, ClientKeeps DEF ClientMoves

-----------------------------------------------------------------------------
(* The steps of Connect *)

LEMMA AcceptedMoves ==
    ASSUME CallInv, Readable, NextPacket.kind = "ok", Authenticated, pc # "infileSkip"
    PROVE  CallMoved /\ SessionMoved /\ pc' # "nextResultSet"
<1>1. srv.pc \in Accepted /\ SessionType
  BY NextIsPacket DEF CallInv, EnvTypes
<1>2. /\ session' = [session EXCEPT !.auth = TRUE, !.plugin = DefaultPlugin, !.secret = "none"]
      /\ IF call.todo = <<>> THEN Return("ok") ELSE GoOn("write")
  BY DEF Authenticated
<1>3. SessionMoved /\ session'.auth
  BY <1>1, <1>2 DEF SessionType, SessionMoved
<1>4. "write" \in ClientPcs \cap SettingUp
  BY DEF ClientPcs, SettingUp
<1>5. CallMoved
  BY <1>2, <1>3, <1>4, ReturnMoves, GoOnMoves
<1>6. pc' # "nextResultSet"
  BY <1>2 DEF GoOn, Return, After
<1> QED  BY <1>3, <1>5, <1>6

LEMMA HandshakeMoves ==
    ASSUME CallInv, WatchInv', HandshakeSteps
    PROVE  CallInv' /\ ClientMoves
<1>0. /\ UNCHANGED <<rows, watcher, srv, ended, history>>
      /\ pc \in {"greeting", "tls", "tlsHandshake", "respond", "authResult", "authSwitched",
                 "switchAnswer", "fullAnswer", "askKey", "key", "authOK", "variable", "abandon"}
  BY DEF HandshakeSteps, Greeting, StartTls, TlsHandshake, Respond, AuthResult, AuthAnswer, AskKey,
         Key, AuthOK, Variable, Abandon, Rest
<1>a. WatchInv /\ ConnShape /\ CallType /\ WireType /\ SessionType
  BY DEF CallInv, EnvTypes, WatchInv, Shapes
<1> SUFFICES WireMoved /\ CallMoved /\ SessionMoved /\ pc' # "nextResultSet"
  BY <1>0, RowsNotOpened, ClientKeeps DEF ClientMoves
<1>b. ASSUME NEW e \in {"err", "local"}, Return(e), session.auth => session'.auth
      PROVE  CallMoved /\ pc' # "nextResultSet"
  <2>1. Fails
    BY <1>b DEF Fails, Errors
  <2> QED  BY <1>b, <2>1, FailsMoves DEF Return, After
<1>c. Fails => pc' # "nextResultSet"
  BY DEF Fails, Return, After
<1>d. {"tls", "tlsHandshake", "respond", "authResult", "authSwitched", "switchAnswer", "fullAnswer",
       "authOK", "askKey", "key"} \subseteq (ClientPcs \cap Greeted) \ {"dial", "unanswered", "nextResultSet"}
  BY DEF ClientPcs, Reading, Greeted
<1>e. ASSUME NEW next \in {"tls", "tlsHandshake", "respond", "authResult", "authSwitched", "switchAnswer",
                           "fullAnswer", "authOK", "askKey", "key"},
             GoOn(next), session.auth => session'.auth
      PROVE  CallMoved /\ pc' # "nextResultSet"
  BY <1>d, <1>e, GoOnMoves DEF GoOn
<1>1. CASE Greeting
  <2>1. /\ Receive({"greeting", "err"}) /\ conn' = Counted(conn)
        /\ \/ \E next \in {"tls", "respond"} : GoOn(next)
           \/ \E e \in {"err", "local"} : Return(e)
    BY <1>1 DEF Greeting
  <2>2. UNCHANGED session \/ \E p : session' = [session EXCEPT !.plugin = p]
    BY <1>1 DEF Greeting
  <2>3. SessionMoved
    BY <1>a, <2>2, SessionStays
  <2> QED  BY <1>a, <1>b, <1>e, <2>1, <2>3, ReceiveMoves DEF SessionMoved
<1>2. CASE StartTls \/ Respond \/ AuthAnswer
  <2>1. UNCHANGED session
    BY <1>2 DEF StartTls, Respond, AuthAnswer
  <2>2. CASE BusyBuffer
    <3>1. Fails /\ WireMoved
      BY <1>a, <2>2, Busy, BusyMoves DEF BusyBuffer
    <3> QED  BY <1>a, <1>c, <2>1, <3>1, FailsMoves, SessionStays
  <2>3. CASE ~BusyBuffer
    <3>1. PICK kind \in {"sslRequest", "response", "authData"} :
             \E next \in {"tlsHandshake", "authResult", "authSwitched", "authOK"} :
                WritePacket(conn, Upload(kind), next)
      BY <1>2, <2>3 DEF StartTls, Respond, AuthAnswer
    <3>2. PICK next \in {"tlsHandshake", "authResult", "authSwitched", "authOK"} :
             WritePacket(conn, Upload(kind), next)
      BY <3>1
    <3>3. kind \in SetupKinds
      BY DEF SetupKinds
    <3>4. WireMoved /\ (GoOn(next) \/ Fails)
      BY <1>a, <3>2, <3>3, UploadMoves, Writes, Numbers
    <3> QED  BY <1>a, <1>c, <1>e, <2>1, <3>4, FailsMoves, SessionStays
  <2> QED  BY <2>2, <2>3
<1>3. CASE TlsHandshake
  <2>1. /\ UNCHANGED <<session, conn>>
        /\ \/ Return("local") /\ UNCHANGED wire
           \/ wire' = [wire EXCEPT !.out = <<>>] /\ GoOn("respond")
    BY <1>3 DEF TlsHandshake
  <2>2. WireMoved
    <3>1. CASE UNCHANGED wire
      BY <1>a, <2>1, <3>1, BusyMoves
    <3>2. CASE wire' = [wire EXCEPT !.out = <<>>]
      BY <1>a, <2>1, <3>2, QuitOK DEF WireType, CallType, WireMoved, WireShape, Delivered
    <3> QED  BY <2>1, <3>1, <3>2
  <2> QED  BY <1>a, <1>b, <1>e, <2>1, <2>2, SessionStays
<1>4. CASE AuthResult
  <2>1. /\ Receive({"ok", "err", "switch", "moreFast", "moreFull", "moreKey"})
        /\ conn' = [Counted(conn) EXCEPT !.more = FALSE]
    BY <1>4 DEF AuthResult
  <2>2. WireMoved
    BY <1>a, <2>1, ReceiveMoves
  <2>3. \/ NextPacket.kind = "ok" /\ Authenticated
        \/ /\ UNCHANGED session \/ \E p : session' = [session EXCEPT !.plugin = p]
           /\ \/ \E next \in {"switchAnswer", "authOK", "askKey", "fullAnswer"} : GoOn(next)
              \/ \E e \in {"err", "local"} : Return(e)
    BY <1>4 DEF AuthResult
  <2>4. CASE NextPacket.kind = "ok" /\ Authenticated
    BY <1>0, <2>1, <2>2, <2>4, AcceptedMoves DEF Receive, Expect
  <2>5. CASE /\ UNCHANGED session \/ \E p : session' = [session EXCEPT !.plugin = p]
             /\ \/ \E next \in {"switchAnswer", "authOK", "askKey", "fullAnswer"} : GoOn(next)
                \/ \E e \in {"err", "local"} : Return(e)
    <3>1. SessionMoved
      BY <1>a, <2>5, SessionStays
    <3> QED  BY <1>b, <1>e, <2>2, <2>5, <3>1 DEF SessionMoved
  <2> QED  BY <2>3, <2>4, <2>5
<1>5. CASE AskKey
  <2>1. GoOn("key") /\ UNCHANGED session
    BY <1>5 DEF AskKey
  <2>2. WireMoved
    <3>1. CASE UNCHANGED <<conn, wire>>
      BY <1>a, <3>1, BusyMoves
    <3>2. CASE conn' = Cleanup(conn) /\ wire' = CutOff(conn, wire)
      BY <1>a, <3>2, CleanedSeq, KeptIncoming, IsCutOff
    <3>3. CASE /\ conn' = Counted(conn)
               /\ UNCHANGED wire \/ wire' = [wire EXCEPT !.out = Append(@, Upload("keyRequest"))]
      <4>1. conn'.closed = conn.closed /\ conn'.seq \in Nat
        BY <1>a, <3>3, CountedOK
      <4>2. CASE UNCHANGED wire
        BY <1>a, <4>1, <4>2, KeptIncoming, StaysUp
      <4>3. CASE wire' = [wire EXCEPT !.out = Append(@, Upload("keyRequest"))]
        <5>1. Message("keyRequest", conn.seq) \in Sent /\ Upload("keyRequest") = Message("keyRequest", conn.seq)
          <6>1. "keyRequest" \in SetupKinds /\ conn.seq \in Nat
            BY <1>a DEF SetupKinds, CallType
          <6> QED  BY <1>a, <6>1, SentOK DEF Upload, Message
        <5>2. /\ WireShape(wire') /\ wire'.net = wire.net /\ wire'.in = wire.in /\ wire'.buf = wire.buf
              /\ wire'.out = Append(wire.out, Upload("keyRequest"))
          BY <1>a, <4>3 DEF WireType, WireShape
        <5> QED  BY <4>1, <5>1, <5>2 DEF WireMoved, Delivered
      <4> QED  BY <3>3, <4>2, <4>3
    <3>4. \/ UNCHANGED <<conn, wire>>
          \/ conn' = Cleanup(conn) /\ wire' = CutOff(conn, wire)
          \/ /\ conn' = Counted(conn)
             /\ UNCHANGED wire \/ wire' = [wire EXCEPT !.out = Append(@, Upload("keyRequest"))]
      BY <1>5, <1>a DEF AskKey, WireType
    <3> QED  BY <3>1, <3>2, <3>3, <3>4
  <2> QED  BY <1>a, <1>e, <2>1, <2>2, SessionStays
<1>6. CASE Key
  <2>1. Receive({"key"}) /\ conn' = Counted(conn) /\ GoOn("fullAnswer") /\ UNCHANGED session
    BY <1>6 DEF Key
  <2> QED  BY <1>a, <1>e, <2>1, ReceiveMoves, SessionStays
<1>7. CASE AuthOK
  <2>1. /\ Receive({"ok", "err"}) /\ conn' = Counted(conn)
        /\ (NextPacket.kind = "ok" /\ Authenticated) \/ (Return("err") /\ UNCHANGED session)
    BY <1>7 DEF AuthOK
  <2>2. WireMoved
    BY <1>a, <2>1, ReceiveMoves
  <2>3. CASE NextPacket.kind = "ok" /\ Authenticated
    BY <1>0, <2>1, <2>2, <2>3, AcceptedMoves DEF Receive, Expect
  <2>4. CASE Return("err") /\ UNCHANGED session
    BY <1>a, <1>b, <2>2, <2>4, SessionStays
  <2> QED  BY <2>1, <2>3, <2>4
<1>8. CASE Variable
  <2>1. pc = "variable" /\ Receive({"row"}) /\ conn' = Counted(conn) /\ GoOn("rows") /\ UNCHANGED session
    BY <1>8 DEF Variable
  <2>2. "rows" \in ClientPcs \cap SettingUp
    BY DEF ClientPcs, Reading, SettingUp
  <2>3. call.kind = "connect" => session.auth /\ call.todo # <<>>
    BY <2>1, ConnectPlaces DEF SettingUp
  <2>4. CallMoved
    BY <2>1, <2>2, <2>3, GoOnMoves
  <2> QED  BY <1>a, <2>1, <2>4, ReceiveMoves, SessionStays DEF GoOn
<1>9. CASE Abandon
  <2>1. /\ conn' = Cleanup(conn)
        /\ wire' = Quit(conn, wire) \/ wire' = CutOff(conn, wire)
        /\ GoOn("finish") /\ UNCHANGED session
    BY <1>9 DEF Abandon
  <2>2. WireMoved
    BY <1>a, <2>1, CleanedSeq, KeptIncoming, IsCutOff
  <2>3. conn'.closed
    BY <1>a, <2>1 DEF Cleanup, ConnShape
  <2>4. "finish" \in ClientPcs
    BY DEF ClientPcs
  <2>5. CallMoved
    BY <2>1, <2>3, <2>4, GoOnMoves
  <2> QED  BY <1>a, <2>1, <2>2, <2>5, SessionStays DEF GoOn
<1> QED  BY <1>1, <1>2, <1>3, <1>4, <1>5, <1>6, <1>7, <1>8, <1>9 DEF HandshakeSteps

-----------------------------------------------------------------------------
(* Steps that change the watch, or the call *)

LEMMA OthersStay ==
    ASSUME CallInv, WatchInv', UNCHANGED <<wire, srv, session, ended, history>>,
           CallType', ConnectOK', conn'.closed = conn.closed, pc' # "dial",
           call'.kind = "connect" => call.kind = "connect",
           {watcher'.ctx, watcher'.chan} \subseteq {Background} \cup Calls,
           \/ watcher'.pc = watcher.pc
           \/ watcher.pc \in {"idle", "watch"} /\ watcher'.pc \in {"idle", "watch", "gone"}
    PROVE  CallInv'
<1> USE DEF CallInv, EnvTypes
<1>1. WireType' /\ SrvType' /\ SessionType' /\ HistoryType'
  BY DEF WireType, SrvType, SessionType, HistoryType
<1>2. WatcherType'
  BY DEF WatcherType
<1>3. CutOffOK' /\ AcceptedOK'
  BY DEF CutOffOK, AcceptedOK
<1> QED  BY <1>1, <1>2, <1>3

LEMMA DialMoves ==
    ASSUME CallInv, WatchInv', Dial
    PROVE  CallInv'
<1>1. /\ pc = "dial" /\ UNCHANGED <<call, rows, session, conn, srv, ended, history>>
      /\ \/ res' = "err" /\ pc' = "gone" /\ UNCHANGED <<wire, watcher>>
         \/ /\ wire' = [wire EXCEPT !.net = "up"]
            /\ watcher' = [watcher EXCEPT !.pc = "idle"]
            /\ pc' = "watch" /\ UNCHANGED res
  BY DEF Dial
<1>2. ~conn.closed /\ wire.net = "none"
  BY <1>1 DEF CallInv, CutOffOK
<1>3. call.kind = "connect" /\ "gone" \in ClientPcs /\ "watch" \in ClientPcs
  BY <1>1 DEF CallInv, WatchInv, PlacesOK, ClientPcs
<1> USE DEF CallInv, EnvTypes
<1>4. WireType' /\ wire'.in = wire.in /\ wire'.buf = wire.buf /\ wire'.out = wire.out
      /\ (pc' = "gone" => wire'.net = "none")
  BY <1>1, <1>2 DEF WireType, Nets
<1>5. SrvType' /\ SessionType' /\ HistoryType' /\ WatcherType'
  BY <1>1 DEF SrvType, SessionType, HistoryType, WatcherType, WatchInv, Shapes, WatcherShape
<1>6. CallType' /\ ConnectOK'
  BY <1>1, <1>3, <1>4 DEF CallType, ConnectOK, Iterating, SettingUp, Greeted
<1>7. CutOffOK' /\ AcceptedOK'
  BY <1>1, <1>2, <1>4 DEF CutOffOK, AcceptedOK
<1> QED  BY <1>4, <1>5, <1>6, <1>7

LEMMA WatchCancelMoves ==
    ASSUME CallInv, WatchInv', WatchCancel
    PROVE  CallInv'
<1>1. pc = "watch" /\ UNCHANGED <<rows, session, srv, ended, history>>
  BY DEF WatchCancel
<1>a. WatchInv /\ ConnShape /\ CallType /\ WireType /\ SessionType
  BY DEF CallInv, EnvTypes, WatchInv, Shapes
<1>2. GoOn(AfterWatch) => CallMoved /\ SessionMoved /\ RowsMoved
  <2> SUFFICES ASSUME GoOn(AfterWatch)
               PROVE  CallMoved /\ SessionMoved /\ RowsMoved
    OBVIOUS
  <2>1. AfterWatch \in {"greeting", "write", "check"} /\ (call.kind = "connect" => AfterWatch = "greeting")
    BY DEF AfterWatch
  <2>2. {"greeting", "write", "check"} \subseteq ClientPcs \ {"dial", "unanswered", "nextResultSet"}
        /\ "greeting" \in Greeted
    BY DEF ClientPcs, Reading, Greeted
  <2>3. AfterWatch \in ClientPcs \ {"dial", "unanswered", "nextResultSet"}
    BY <2>1, <2>2
  <2>4. CallMoved
    BY <1>1, <2>1, <2>2, <2>3, GoOnMoves
  <2> QED  BY <1>1, <1>a, <2>3, <2>4, SessionStays, RowsNotOpened DEF GoOn
<1>3. CASE conn.watching
  <2>1. conn' = Cleanup(conn) /\ wire' = CutOff(conn, wire) /\ GoOn(AfterWatch) /\ UNCHANGED watcher
    BY <1>3 DEF WatchCancel
  <2>2. WireMoved
    BY <1>a, <2>1, CleanedSeq, KeptIncoming, IsCutOff
  <2> QED  BY <1>1, <1>2, <2>1, <2>2, ClientKeeps DEF ClientMoves
<1>4. CASE ~conn.watching /\ call.ctx \in ended
  <2>1. /\ UNCHANGED <<call, conn, wire, watcher>> /\ res' = "ctx"
        /\ pc' = IF call.kind = "connect" THEN "abandon" ELSE "idle"
    BY <1>4 DEF WatchCancel
  <2>2. "abandon" \in ClientPcs /\ "idle" \in ClientPcs /\ "abandon" \notin SettingUp
    BY DEF ClientPcs, SettingUp
  <2>3. CallType' /\ ConnectOK'
    BY <1>1, <1>a, <2>1, <2>2 DEF CallType, ConnectOK, Iterating
  <2> QED  BY <1>1, <2>1, <2>3, OthersStay DEF CallInv, EnvTypes, WatcherType
<1>5. CASE ~conn.watching /\ call.ctx \notin ended
  <2>1. GoOn(AfterWatch) /\ UNCHANGED wire
    BY <1>5 DEF WatchCancel
  <2>2. CASE call.ctx = Background
    <3>1. UNCHANGED <<conn, watcher>>
      BY <1>5, <2>2 DEF WatchCancel
    <3> QED  BY <1>1, <1>2, <1>a, <2>1, <3>1, BusyMoves, ClientKeeps DEF ClientMoves
  <2>3. CASE call.ctx # Background
    <3>1. /\ conn' = [conn EXCEPT !.watching = TRUE]
          /\ watcher' = [watcher EXCEPT !.chan = call.ctx]
      BY <1>5, <2>3 DEF WatchCancel
    <3>2. conn'.closed = conn.closed /\ conn'.seq = conn.seq
      BY <1>a, <3>1 DEF ConnShape
    <3>3. {watcher'.ctx, watcher'.chan} \subseteq {Background} \cup Calls /\ watcher'.pc = watcher.pc
      BY <1>a, <3>1 DEF WatchInv, Shapes, WatcherShape, CallInv, EnvTypes, WatcherType, CallType
    <3>4. CallMoved /\ RowsMoved /\ UNCHANGED <<call, res>>
      BY <1>2, <2>1 DEF GoOn
    <3>5. CallType'
      BY <1>1, <1>a, <3>2, <3>4 DEF CallType, CallMoved, RowsMoved, Iterating
    <3>6. ConnectOK'
      <4> SUFFICES ASSUME call.kind = "connect"
                   PROVE  ConnectOK'
        BY <3>4 DEF ConnectOK
      <4>1. pc' = "greeting"
        BY <2>1 DEF GoOn, AfterWatch
      <4>2. "greeting" \in Greeted \ SettingUp
        BY DEF Greeted, SettingUp
      <4> QED  BY <1>1, <3>4, <4>1, <4>2 DEF CallInv, ConnectOK
    <3> QED  BY <1>1, <2>1, <3>2, <3>3, <3>4, <3>5, <3>6, OthersStay DEF CallMoved
  <2> QED  BY <2>2, <2>3
<1> QED  BY <1>3, <1>4, <1>5

LEMMA PrecheckMoves ==
    ASSUME CallInv, WatchInv', Precheck
    PROVE  CallInv'
<1>1. /\ pc = "precheck" /\ UNCHANGED <<rows, conn, wire, watcher, srv, ended, history>>
      /\ UNCHANGED session \/ session' = [session EXCEPT !.tx = FALSE]
      /\ Fails \/ GoOn("watch") \/ GoOn("write")
  BY DEF Precheck, Rest, Fails, Errors
<1>a. WatchInv /\ ConnShape /\ CallType /\ WireType /\ SessionType
  BY DEF CallInv, EnvTypes, WatchInv, Shapes
<1>2. SessionMoved /\ call.kind # "connect" /\ {"watch", "write"} \subseteq ClientPcs
  BY <1>1, <1>a, SessionStays, PlacesOf DEF ClientPcs
<1>3. CallMoved
  BY <1>1, <1>2, FailsMoves, GoOnMoves DEF SessionMoved
<1>4. pc' # "nextResultSet"
  BY <1>1 DEF Fails, Return, After, GoOn
<1> QED  BY <1>1, <1>2, <1>3, <1>4, <1>a, BusyMoves, RowsNotOpened, ClientKeeps DEF ClientMoves

LEMMA ContextCheckMoves ==
    ASSUME CallInv, WatchInv', ContextCheck
    PROVE  CallInv'
<1>1. /\ pc = "contextCheck" /\ pc' = "idle" /\ UNCHANGED <<call, rows, watcher, srv, ended, history>>
      /\ UNCHANGED session \/ session' = [session EXCEPT !.stmt = TRUE]
      /\ UNCHANGED conn \/ conn' = [conn EXCEPT !.seq = 1]
      /\ UNCHANGED wire \/ wire' = [wire EXCEPT !.out = Append(@, Message("stmtClose", 0))]
  BY DEF ContextCheck, Rest, Message
<1>a. WatchInv /\ ConnShape /\ CallType /\ WireType /\ SessionType
  BY DEF CallInv, EnvTypes, WatchInv, Shapes
<1>2. SessionMoved /\ call.kind # "connect" /\ "idle" \in ClientPcs
  BY <1>1, <1>a, SessionStays, PlacesOf DEF ClientPcs
<1>3. CallMoved
  BY <1>1, <1>2, <1>a DEF CallType, CallMoved
<1>4. conn'.closed = conn.closed /\ conn'.seq \in Nat
  BY <1>1, <1>a DEF ConnShape, CallType
<1>5. WireMoved
  <2>1. CASE UNCHANGED wire
    BY <1>4, <1>a, <2>1, KeptIncoming, StaysUp
  <2>2. CASE wire' = [wire EXCEPT !.out = Append(@, Message("stmtClose", 0))]
    <3>1. Message("stmtClose", 0) \in Sent
      <4>1. "stmtClose" \in CommandKinds /\ 0 \in Nat
        BY DEF CommandKinds
      <4> QED  BY <1>2, <1>a, <4>1, SentOK
    <3>2. /\ WireShape(wire') /\ wire'.net = wire.net /\ wire'.in = wire.in /\ wire'.buf = wire.buf
          /\ wire'.out = Append(wire.out, Message("stmtClose", 0))
      BY <1>a, <2>2 DEF WireType, WireShape
    <3> QED  BY <1>4, <3>1, <3>2 DEF WireMoved, Delivered
  <2> QED  BY <1>1, <2>1, <2>2
<1> QED  BY <1>1, <1>2, <1>3, <1>5, RowsNotOpened, ClientKeeps DEF ClientMoves

LEMMA FinishMoves ==
    ASSUME CallInv, WatchInv', Finish \/ CloseFinish
    PROVE  CallInv'
<1>1. FinishWatch /\ UNCHANGED <<call, res, rows, session, wire, srv, ended, history>>
  BY DEF Finish, CloseFinish
<1>a. WatchInv /\ ConnShape /\ CallType
  BY DEF CallInv, EnvTypes, WatchInv, Shapes
<1>2. /\ conn'.closed = conn.closed /\ conn'.seq = conn.seq
      /\ {watcher'.ctx, watcher'.chan} \subseteq {Background} \cup Calls
      /\ \/ watcher'.pc = watcher.pc
         \/ watcher.pc = "watch" /\ watcher'.pc = "idle"
  <2>1. CASE UNCHANGED <<conn, watcher>>
    BY <2>1 DEF CallInv, EnvTypes, WatcherType
  <2>2. CASE /\ watcher.pc = "watch"
             /\ conn' = [conn EXCEPT !.watching = FALSE]
             /\ watcher' = [watcher EXCEPT !.pc = "idle", !.ctx = Background]
    BY <1>a, <2>2 DEF ConnShape, WatchInv, Shapes, WatcherShape, CallInv, EnvTypes, WatcherType
  <2> QED  BY <1>1, <2>1, <2>2 DEF FinishWatch
<1>3. /\ pc' \in {"contextCheck", "gone", "idle", "closeRows"}
      /\ call.kind = "connect" =>
            \/ pc = "finish" /\ pc' = "idle" /\ res = "ok"
            \/ pc = "finish" /\ pc' = "gone" /\ res # "ok"
  <2>1. CASE Finish
    BY <2>1 DEF Finish
  <2>2. CASE CloseFinish
    <3>1. pc = "closeFinish" /\ pc' = "closeRows"
      BY <2>2 DEF CloseFinish
    <3> QED  BY <3>1, PlacesOf
  <2> QED  BY <2>1, <2>2
<1>4. {"contextCheck", "gone", "idle", "closeRows"}
         \subseteq ClientPcs \ {"dial", "unanswered", "nextResultSet"}
  BY DEF ClientPcs, Reading
<1>5. pc' \in ClientPcs \ {"dial", "unanswered", "nextResultSet"}
  BY <1>3, <1>4
<1>6. CallType'
  BY <1>1, <1>2, <1>5, <1>a DEF CallType, Iterating
<1>7. ConnectOK'
  <2> SUFFICES ASSUME call.kind = "connect"
               PROVE  ConnectOK'
    BY <1>1 DEF ConnectOK
  <2>1. {"idle", "gone"} \cap SettingUp = {}
    BY DEF SettingUp
  <2> QED  BY <1>1, <1>2, <1>3, <2>1 DEF CallInv, ConnectOK
<1> QED  BY <1>1, <1>2, <1>5, <1>6, <1>7, OthersStay

LEMMA CommandsFit ==
    ASSUME NEW kind \in Kinds, NEW todo \in Commands(kind)
    PROVE  todo \in Todos /\ (todo = <<"stmtClose">> => kind = "stmtClose") /\ kind # "connect"
<1>1. kind \in {"exec", "query", "ping", "prepare", "stmtExec", "stmtQuery", "stmtClose",
                "begin", "commit", "rollback"}
  BY KindsAssumption
<1>2. CASE kind \in {"exec", "query"}
  <2>1. todo = <<"query">>
    BY <1>2 DEF Commands
  <2> QED  BY <1>2, <2>1 DEF Todos, QueryTodos
<1>3. CASE kind \in {"stmtExec", "stmtQuery"}
  <2>1. todo \in {<<"execute">>, <<"longData", "execute">>, <<"longData", "argError">>, <<"argError">>}
    BY <1>3 DEF Commands
  <2>2. todo # <<"stmtClose">>
    BY <2>1
  <2> QED  BY <1>3, <2>1, <2>2 DEF Todos, QueryTodos, LongDataTodos
<1>4. CASE kind = "begin"
  <2>1. todo \in {<<"begin">>, <<"set", "begin">>}
    BY <1>4 DEF Commands
  <2>2. todo # <<"stmtClose">>
    BY <2>1
  <2> QED  BY <1>4, <2>1, <2>2 DEF Todos
<1>5. CASE kind \in {"commit", "rollback"}
  <2>1. todo = <<"end">>
    BY <1>5 DEF Commands
  <2> QED  BY <1>5, <2>1 DEF Todos
<1>6. CASE kind \in {"ping", "prepare", "stmtClose"}
  <2>1. todo = <<kind>>
    BY <1>6 DEF Commands
  <2>2. kind # "stmtClose" => todo # <<"stmtClose">>
    BY <2>1
  <2> QED  BY <1>6, <2>1, <2>2 DEF Todos
<1> QED  BY <1>1, <1>2, <1>3, <1>4, <1>5, <1>6

LEMMA StartCallMoves ==
    ASSUME CallInv, WatchInv', StartCall
    PROVE  CallInv'
<1>0. PICK kind \in Kinds :
         \E ctx \in {Background, call.id + 1}, checkout \in BOOLEAN, todo \in Commands(kind) :
            /\ call' = [kind |-> kind, id |-> call.id + 1, ctx |-> ctx, todo |-> todo]
            /\ conn' = [conn EXCEPT !.reset = @ \/ (checkout /\ ~conn.closed)]
            /\ pc' \in {"idle", "precheck", "watch"}
  BY DEF StartCall
<1>1. PICK ctx \in {Background, call.id + 1}, todo \in Commands(kind) :
         /\ call' = [kind |-> kind, id |-> call.id + 1, ctx |-> ctx, todo |-> todo]
         /\ conn'.closed = conn.closed /\ conn'.seq = conn.seq
         /\ pc' \in {"idle", "precheck", "watch"}
  BY <1>0 DEF CallInv, WatchInv, Shapes, ConnShape
<1>2. /\ call.id < MaxCalls /\ UNCHANGED <<session, wire, watcher, srv, ended, history>>
      /\ rows' = [open |-> FALSE, mc |-> FALSE, done |-> FALSE, binary |-> FALSE]
  BY DEF StartCall, Rest
<1>3. todo \in Todos /\ (todo = <<"stmtClose">> => kind = "stmtClose") /\ kind # "connect"
  BY <1>1, CommandsFit
<1>4. call.id + 1 \in Calls
  BY <1>2, BoundAssumption DEF CallInv, CallType, Calls
<1>5. {"idle", "precheck", "watch"} \subseteq ClientPcs \ {"dial", "unanswered", "nextResultSet"}
  BY DEF ClientPcs, Reading
<1>6. pc' \in ClientPcs \ {"dial", "unanswered", "nextResultSet"}
  BY <1>1, <1>5
<1>7. CallType'
  BY <1>1, <1>2, <1>3, <1>4, <1>6 DEF CallInv, CallType
<1>8. call'.kind # "connect" /\ ConnectOK'
  BY <1>1, <1>3 DEF ConnectOK
<1> QED  BY <1>1, <1>2, <1>6, <1>7, <1>8, OthersStay DEF CallInv, EnvTypes, WatcherType

LEMMA StartRowsCallMoves ==
    ASSUME CallInv, WatchInv', StartRowsCall
    PROVE  CallInv'
<1>1. PICK kind \in {"next", "nextResult", "close"} :
         /\ call' = [call EXCEPT !.kind = kind]
         /\ pc' \in {"nextRow", "nextResultSet", "closeFinish"}
         /\ \/ kind # "close"
            \/ pc' = "closeFinish" /\ rows' = [rows EXCEPT !.open = FALSE]
  BY DEF StartRowsCall
<1>2. rows.open /\ UNCHANGED <<res, session, conn, wire, watcher, srv, ended, history>>
  BY DEF StartRowsCall, Rest
<1>3. Iterating
  BY <1>2 DEF CallInv, CallType
<1>4. call.kind # "connect" /\ call.kind # "stmtClose"
  BY <1>3 DEF Iterating, QueryKinds
<1>5. /\ call'.kind = kind /\ call'.id = call.id /\ call'.ctx = call.ctx /\ call'.todo = call.todo
  BY <1>1 DEF CallInv, WatchInv, Shapes, CallShape
<1>6. rows'.open \/ pc' = "nextResultSet" => kind # "close"
  BY <1>1 DEF CallInv, WatchInv, Shapes, RowsShape
<1>7. {"nextRow", "nextResultSet", "closeFinish"} \subseteq ClientPcs \ {"dial", "unanswered"}
  BY DEF ClientPcs, Reading
<1>8. pc' \in ClientPcs \ {"dial", "unanswered"}
  BY <1>1, <1>7
<1>9. CallType'
  BY <1>2, <1>4, <1>5, <1>6, <1>8 DEF CallInv, CallType, Iterating
<1>10. call'.kind # "connect" /\ ConnectOK'
  BY <1>1, <1>5 DEF ConnectOK
<1> QED  BY <1>2, <1>8, <1>9, <1>10, OthersStay DEF CallInv, EnvTypes, WatcherType

LEMMA CloseConnMoves ==
    ASSUME CallInv, WatchInv', CloseConn
    PROVE  CallInv'
<1>1. /\ pc = "idle" /\ pc' = "gone" /\ conn' = Cleanup(conn) /\ wire' = Quit(conn, wire)
      /\ UNCHANGED <<call, res, rows, session, watcher, srv, ended, history>>
  BY DEF CloseConn, Rest
<1>a. ConnShape /\ CallType /\ WireType
  BY DEF CallInv, EnvTypes, WatchInv, Shapes
<1>2. WireMoved
  BY <1>1, <1>a, CleanedSeq, KeptIncoming, IsCutOff
<1>3. PICK m \in Sent : wire'.out \in {wire.out, <<>>, Append(wire.out, m)}
  BY <1>2 DEF WireMoved
<1> USE DEF CallInv, EnvTypes
<1>4. WireType'
  <2>1. wire'.out \in Seq(AnyMessage)
    BY <1>3, OutStays DEF Sent, WireType
  <2> QED  BY <1>2, <2>1 DEF WireMoved, WireShape, Delivered, WireType, Nets
<1>5. SrvType' /\ SessionType' /\ HistoryType' /\ WatcherType'
  BY <1>1 DEF SrvType, SessionType, HistoryType, WatcherType
<1>6. CallType' /\ ConnectOK' /\ CutOffOK'
  <2>1. "gone" \in ClientPcs \ {"dial", "unanswered", "nextResultSet"} /\ "gone" \notin SettingUp
    BY DEF ClientPcs, Reading, SettingUp
  <2>2. conn'.closed
    BY <1>1, <1>a DEF Cleanup, ConnShape
  <2> QED  BY <1>1, <1>2, <2>1, <2>2 DEF CallType, ConnectOK, CutOffOK, WireMoved, Iterating
<1>7. AcceptedOK'
  <2>1. call'.kind = "connect" => wire'.out \in Seq(SetupMessage)
    BY <1>1, <1>3, OutStays DEF Sent, AcceptedOK
  <2>2. NotOk \in SUBSET AnyPacket
    BY DEF NotOk
  <2> QED  BY <1>1, <1>2, <2>1, <2>2 DEF AcceptedOK, WireMoved, Delivered
<1> QED  BY <1>4, <1>5, <1>6, <1>7

-----------------------------------------------------------------------------
(* The watcher, the server and the network *)

LEMMA WatcherMoves ==
    ASSUME CallInv, WatchInv', WatcherStep
    PROVE  CallInv'
<1>1. UNCHANGED <<pc, call, res, rows, session, srv, ended, history>>
  BY DEF WatcherStep, WatcherTakes, WatcherStops, WatcherCancels, WatcherSetsClosed,
         WatcherClosesChannel, WatcherClosesNet, OtherThanWatcher, clientVars
<1>a. ConnShape /\ WatcherShape /\ WireType
  BY DEF CallInv, EnvTypes, WatchInv, Shapes
<1>2. watcher.pc # "none" /\ pc # "dial"
  BY DEF WatcherStep, WatcherTakes, WatcherStops, WatcherCancels, WatcherSetsClosed,
         WatcherClosesChannel, WatcherClosesNet, CallInv, WatchInv, PlacesOK
<1>3. \/ UNCHANGED wire
      \/ wire' = [wire EXCEPT !.net = "closed", !.in = <<>>]
  BY DEF WatcherStep, WatcherTakes, WatcherStops, WatcherCancels, WatcherSetsClosed,
         WatcherClosesChannel, WatcherClosesNet
<1>4. /\ WireType' /\ wire'.out = wire.out /\ wire'.buf = wire.buf
      /\ wire'.in \in {wire.in, <<>>} /\ wire'.net \in {wire.net, "closed"}
  BY <1>3, <1>a, EmptySeq DEF WireType, Nets
<1>5. conn'.seq = conn.seq /\ (conn.closed => conn'.closed)
  <2>1. \/ UNCHANGED conn \/ conn' = [conn EXCEPT !.canceled = TRUE]
        \/ conn' = [conn EXCEPT !.closed = TRUE] \/ conn' = [conn EXCEPT !.closech = TRUE]
    BY DEF WatcherStep, WatcherTakes, WatcherStops, WatcherCancels, WatcherSetsClosed,
           WatcherClosesChannel, WatcherClosesNet
  <2> QED  BY <1>a, <2>1 DEF ConnShape
<1> USE DEF CallInv, EnvTypes
<1>6. WatcherType' /\ (conn'.closed => wire'.net = "closed" \/ watcher'.pc \in {"closech", "closenet"})
  <2> USE <1>a, <1>1 DEF ConnShape, WatcherShape, WatcherType, CutOffOK
  <2>1. CASE WatcherTakes
    BY <2>1 DEF WatcherTakes
  <2>2. CASE WatcherStops
    BY <2>2 DEF WatcherStops
  <2>3. CASE WatcherCancels
    BY <2>3 DEF WatcherCancels
  <2>4. CASE WatcherSetsClosed
    BY <2>4 DEF WatcherSetsClosed
  <2>5. CASE WatcherClosesChannel
    BY <2>5 DEF WatcherClosesChannel
  <2>6. CASE WatcherClosesNet
    BY <2>6 DEF WatcherClosesNet, WireType
  <2> QED  BY <2>1, <2>2, <2>3, <2>4, <2>5, <2>6 DEF WatcherStep
<1>7. SrvType' /\ SessionType' /\ HistoryType'
  BY <1>1 DEF SrvType, SessionType, HistoryType
<1>8. CallType' /\ ConnectOK' /\ CutOffOK'
  BY <1>1, <1>2, <1>4, <1>5, <1>6 DEF CallType, ConnectOK, CutOffOK, Iterating
<1>9. AcceptedOK'
  BY <1>1, <1>4, EmptySeq DEF AcceptedOK
<1> QED  BY <1>4, <1>6, <1>7, <1>8, <1>9

Script == [kind : PacketKinds, more : BOOLEAN]

\* A script becomes packets of the same kinds.
LEMMA NumberedPackets ==
    ASSUME NEW script \in Seq(Script), NEW m, m.cmd \in Nat, m.seq \in Int, m.seq + 1 \in Nat
    PROVE  /\ Numbered(script, m) \in Seq(AnyPacket)
           /\ (\A i \in 1 .. Len(script) : script[i].kind # "ok") => Numbered(script, m) \in Seq(NotOk)
<1> DEFINE n == Len(script)
<1>1. n \in Nat /\ DOMAIN script = 1 .. n /\ \A i \in 1 .. n : script[i] \in Script
  BY LenProperties, ElementOfSeq
<1>2. Numbered(script, m) =
         [i \in 1 .. n |-> [kind |-> script[i].kind, more |-> script[i].more,
                            cmd |-> m.cmd, seq |-> m.seq + i]]
  BY <1>1 DEF Numbered
<1> HIDE DEF n
<1>3. ASSUME NEW i \in 1 .. n
      PROVE  [kind |-> script[i].kind, more |-> script[i].more, cmd |-> m.cmd, seq |-> m.seq + i]
                \in AnyPacket
  <2>1. m.seq + i \in Nat
    BY <1>1
  <2>2. script[i].kind \in PacketKinds /\ script[i].more \in BOOLEAN
    BY <1>1 DEF Script
  <2> QED  BY <2>1, <2>2 DEF AnyPacket
<1>4. Numbered(script, m) \in [1 .. n -> AnyPacket]
  BY <1>2, <1>3
<1>5. ASSUME \A i \in 1 .. n : script[i].kind # "ok"
      PROVE  Numbered(script, m) \in [1 .. n -> NotOk]
  BY <1>2, <1>3, <1>5 DEF NotOk
<1> QED  BY <1>1, <1>4, <1>5, SeqDef DEF n


LEMMA OutTaken ==
    ASSUME NEW S, wire.out \in Seq(S), wire.out # <<>>
    PROVE  Head(wire.out) \in S /\ Tail(wire.out) \in Seq(S)
BY HeadTailProperties

LEMMA PacketsOK ==
    ASSUME NEW kind \in PacketKinds, NEW more \in BOOLEAN
    PROVE  /\ Packet(kind, more) \in Script /\ Packet(kind, more).kind = kind
           /\ P(kind) \in Script /\ P(kind).kind = kind
BY DEF Packet, P, Script

LEMMA Scripts ==
    ASSUME NEW a \in Script, NEW b \in Script, NEW c \in Script, NEW d \in Script
    PROVE  /\ <<a>> \in Seq(Script) /\ <<a, b>> \in Seq(Script) /\ <<a, b, c>> \in Seq(Script)
           /\ <<a, b, c, d>> \in Seq(Script)
OBVIOUS

\* The answers of the server to a command, and to one of Connect.
LEMMA AnswersOK ==
    ASSUME NEW kind, NEW script \in Answers(kind)
    PROVE  script \in Seq(Script) /\ (kind \in SetupKinds => script[1].kind # "infile")

<1>1. \A more \in BOOLEAN : \A k \in {"ok", "err", "readOnly", "infile", "prep0", "prep1", "prep2",
                                      "header", "columns", "row", "eof"} :
         P(k) \in Script /\ Packet(k, more) \in Script /\ P(k).kind = k
  BY PacketsOK DEF PacketKinds
<1>2. \A more \in BOOLEAN : ResultSet(more) \in Seq(Script) /\ ResultSet(more)[1].kind = "header"
  BY <1>1, Scripts DEF ResultSet
<1>3. \A k \in {"ok", "err", "readOnly", "infile", "prep0"} :
         <<P(k)>> \in Seq(Script) /\ <<P(k)>>[1].kind = k
  BY <1>1, Scripts
<1>4. \A s \in LastResults : s \in Seq(Script)
  <2>1. <<P("header"), P("columns"), P("err")>> \in Seq(Script)
    BY <1>1, Scripts
  <2> QED  BY <1>2, <1>3, <2>1 DEF LastResults, Results
<1>5. \A s \in Refusals : s \in Seq(Script)
  <2>1. \A s \in Refusals : s = <<P("err")>> \/ s = <<P("readOnly")>>
    BY DEF Refusals
  <2> QED  BY <1>3, <2>1
<1>6. \A s \in QueryAnswers : s \in Seq(Script)
  <2> SUFFICES ASSUME NEW s \in QueryAnswers
               PROVE  s \in Seq(Script)
    OBVIOUS
  <2>1. <<Packet("ok", TRUE)>> \in Seq(Script)
    BY <1>1, Scripts
  <2> DEFINE First == {<<Packet("ok", TRUE)>>, ResultSet(TRUE)}
  <2>2. SeveralAnswers = {first \o second : first \in First, second \in LastResults}
    BY DEF SeveralAnswers
  <2>3. First \subseteq Seq(Script)
    BY <1>2, <2>1
  <2> HIDE DEF First
  <2>4. s \in SeveralAnswers => \E first \in First, second \in LastResults : s = first \o second
    BY <2>2
  <2>5. s \in SeveralAnswers => s \in Seq(Script)
    BY <1>4, <2>3, <2>4, ConcatProperties
  <2>6. s \in LastResults \/ s \in Refusals \/ s = <<P("infile")>> \/ s \in SeveralAnswers
    BY DEF QueryAnswers
  <2> QED  BY <1>3, <1>4, <1>5, <2>5, <2>6
<1>7. \A s \in ExecuteAnswers : s \in Seq(Script)
  <2>1. ResultSet(TRUE) \o <<P("ok")>> \in Seq(Script)
    BY <1>2, <1>3, ConcatProperties
  <2> QED  BY <1>4, <2>1 DEF ExecuteAnswers
<1>8. \A s \in PrepareAnswers : s \in Seq(Script)
  <2>1. <<P("prep1"), P("columns")>> \in Seq(Script)
        /\ <<P("prep2"), P("columns"), P("columns")>> \in Seq(Script)
    BY <1>1, Scripts
  <2> QED  BY <1>3, <2>1 DEF PrepareAnswers
<1>9. CASE kind \in {"query", "execute", "prepare"}
  <2>1. kind \notin SetupKinds
    BY <1>9 DEF SetupKinds, Setup
  <2> QED  BY <1>6, <1>7, <1>8, <1>9, <2>1 DEF Answers
<1>10. CASE kind = "sysvar"
  <2>1. script = ResultSet(FALSE) \/ script = <<P("err")>>
    BY <1>10 DEF Answers
  <2> QED  BY <1>2, <1>3, <2>1
<1>11. CASE kind \notin {"query", "execute", "prepare", "sysvar"}
  <2>1. script = <<P("ok")>> \/ script = <<P("err")>>
    BY <1>11 DEF Answers
  <2> QED  BY <1>3, <2>1
<1> QED  BY <1>9, <1>10, <1>11

\* An answer during the connection phase, and what the server waits for then.
Fits(script, next) ==
    /\ script \in Seq(Script)
    /\ next \in Early \cup {"ready"}
    /\ next \in Early => \A i \in 1 .. Len(script) : script[i].kind # "ok"

LEMMA JudgedFits ==
    ASSUME NEW p, NEW a \in ForPlugin(p) \cup Judged
    PROVE  Fits(a.script, a.next)
<1>1. \A k \in {"ok", "err", "moreFast", "moreFull", "moreKey"} : P(k) \in Script /\ P(k).kind = k
  <2>1. {"ok", "err", "moreFast", "moreFull", "moreKey"} \subseteq PacketKinds
    BY DEF PacketKinds
  <2> QED  BY <2>1, PacketsOK
<1>2. \/ a.script = <<P("ok")>> /\ a.next = "ready"
      \/ a.script = <<P("err")>> /\ a.next = "closing"
      \/ a.script = <<P("moreFast"), P("ok")>> /\ a.next = "ready"
      \/ a.script = <<P("moreFull")>> /\ a.next = "fullData"
      \/ a.script = <<P("moreKey")>> /\ a.next = "fullData"
  BY DEF ForPlugin, Judged
<1>3. CASE a.next = "ready" /\ (a.script = <<P("ok")>> \/ a.script = <<P("moreFast"), P("ok")>>)
  <2>1. a.script \in Seq(Script)
    BY <1>1, <1>3, Scripts
  <2>2. "ready" \notin Early
    BY DEF Early
  <2> QED  BY <1>3, <2>1, <2>2 DEF Fits
<1>4. CASE \E k \in {"err", "moreFull", "moreKey"} : a.script = <<P(k)>> /\ a.next \in {"closing", "fullData"}
  <2>1. PICK k \in {"err", "moreFull", "moreKey"} : a.script = <<P(k)>> /\ a.next \in {"closing", "fullData"}
    BY <1>4
  <2>2. P(k) \in Script /\ P(k).kind # "ok"
    BY <1>1
  <2>3. a.script \in Seq(Script) /\ Len(a.script) = 1 /\ a.script[1] = P(k)
    BY <2>1, <2>2
  <2> QED  BY <2>1, <2>2, <2>3 DEF Fits, Early
<1> QED  BY <1>2, <1>3, <1>4

LEMMA AnswerMoves ==
    ASSUME WireType, AcceptedOK, wire.out # <<>>, NEW script \in Seq(Script), NEW m, m = Head(wire.out),
           Answer(m, script)
    PROVE  /\ WireType' /\ wire'.net = wire.net /\ wire'.buf = wire.buf
           /\ call.kind = "connect" => wire'.out \in Seq(SetupMessage)
           /\ wire.in \in Seq(NotOk) /\ (\A i \in 1 .. Len(script) : script[i].kind # "ok")
              => wire'.in \in Seq(NotOk)
<1> DEFINE new == Numbered(script, m)
<1>1. m \in AnyMessage /\ Tail(wire.out) \in Seq(AnyMessage)
  BY OutTaken DEF WireType
<1>2. m.cmd \in Nat /\ m.seq \in Int /\ m.seq + 1 \in Nat
  BY <1>1 DEF AnyMessage
<1>3. /\ new \in Seq(AnyPacket)
      /\ (\A i \in 1 .. Len(script) : script[i].kind # "ok") => new \in Seq(NotOk)
  BY <1>2, NumberedPackets
<1> HIDE DEF new
<1>4. \/ wire' = [wire EXCEPT !.out = Tail(@)]
      \/ wire' = [wire EXCEPT !.out = Tail(@), !.in = @ \o new]
  BY DEF Answer, WireType, new
<1>5. /\ wire' = [net |-> wire.net, in |-> wire'.in, buf |-> wire.buf, out |-> Tail(wire.out)]
      /\ wire'.in \in {wire.in, wire.in \o new}
  BY <1>4 DEF WireType
<1>6. wire.in \o new \in Seq(AnyPacket)
  BY <1>3, ConcatProperties DEF WireType
<1>7. wire.in \in Seq(NotOk) /\ new \in Seq(NotOk) => wire.in \o new \in Seq(NotOk)
  BY ConcatProperties
<1>8. call.kind = "connect" => Tail(wire.out) \in Seq(SetupMessage)
  BY OutTaken DEF AcceptedOK
<1>9. wire'.net = wire.net /\ wire'.buf = wire.buf /\ wire'.out = Tail(wire.out) /\ WireShape(wire')
  BY <1>5 DEF WireShape
<1>10. WireType'
  BY <1>1, <1>5, <1>6, <1>9 DEF WireType, WireShape
<1>11. wire.in \in Seq(NotOk) /\ (\A i \in 1 .. Len(script) : script[i].kind # "ok")
       => wire'.in \in Seq(NotOk)
  BY <1>3, <1>5, <1>7
<1> QED  BY <1>8, <1>9, <1>10, <1>11

\* A step of the server or of the network.
LEMMA OutsideKeeps ==
    ASSUME CallInv, WatchInv', UNCHANGED <<pc, call, res, rows, session, conn, watcher>>,
           WireType', SrvType', HistoryType', ended' \subseteq Calls,
           wire.net \in {"none", "closed"} => wire'.net = wire.net,
           AcceptedOK'
    PROVE  CallInv'
<1> USE DEF CallInv, EnvTypes
<1>1. SessionType' /\ WatcherType'
  BY DEF SessionType, WatcherType
<1>2. CallType' /\ ConnectOK' /\ CutOffOK'
  BY DEF CallType, ConnectOK, CutOffOK, Iterating
<1> QED  BY <1>1, <1>2

\* Before the server has accepted the client, session.auth is not set.
LEMMA NotYet ==
    ASSUME CallInv, srv.pc \in Early
    PROVE  ~session.auth /\ wire.in \in Seq(NotOk) /\ wire.buf \in Seq(NotOk)
BY DEF CallInv, AcceptedOK, Early, Accepted

LEMMA ServerCommandMoves ==
    ASSUME CallInv, WatchInv', ServerAnswers \/ ServerTakes \/ ServerLoads
    PROVE  CallInv'
<1> DEFINE m == Head(wire.out)
<1>1. UNCHANGED <<pc, call, res, rows, session, conn, watcher, ended>> /\ wire.out # <<>>
      /\ srv.pc \in Accepted
  BY DEF ServerAnswers, ServerTakes, ServerLoads, clientVars, Accepted
<1>a. WireType /\ SrvType /\ SessionType /\ HistoryType /\ AcceptedOK /\ ended \subseteq Calls
  BY DEF CallInv, EnvTypes, WatcherType
<1>2. m \in AnyMessage /\ (call.kind = "connect" => m \in SetupMessage)
  BY <1>1, <1>a, OutTaken DEF WireType, AcceptedOK
<1>3. Accepted \cap Early = {}
  BY DEF Accepted, Early
<1>4. CASE ServerAnswers
  <2>1. PICK script \in Answers(m.kind) :
           /\ Answer(m, script)
           /\ srv' = [srv EXCEPT !.pc = IF script[1].kind = "infile" THEN "infile" ELSE "ready",
                                 !.long = IF m.kind = "execute" THEN 0 ELSE @]
           /\ history' = IF call.kind \in Lasting /\ script[1].kind \in {"ok", "header"}
                         THEN [begun |-> history.begun \cup {m.cmd},
                               done |-> history.done \cup {m.cmd}]
                         ELSE history
    BY <1>4 DEF ServerAnswers
  <2>2. script \in Seq(Script) /\ (m.kind \in SetupKinds => script[1].kind # "infile")
    BY AnswersOK
  <2>3. /\ WireType' /\ wire'.net = wire.net /\ wire'.buf = wire.buf
        /\ call.kind = "connect" => wire'.out \in Seq(SetupMessage)
    BY <1>1, <1>a, <2>1, <2>2, AnswerMoves
  <2>4. srv'.pc \in {"infile", "ready"} /\ (script[1].kind # "infile" => srv'.pc # "infile") /\ SrvType'
    BY <1>a, <2>1 DEF SrvType, Accepted
  <2>5. HistoryType'
    BY <1>a, <2>1 DEF HistoryType
  <2>6. call.kind = "connect" => m.kind \in SetupKinds
    BY <1>2 DEF SetupMessage
  <2>7. AcceptedOK'
    BY <1>1, <1>a, <2>2, <2>3, <2>4, <2>6 DEF AcceptedOK, Accepted, Early
  <2> QED  BY <1>1, <1>a, <2>3, <2>4, <2>5, <2>7, OutsideKeeps
<1>5. CASE ServerTakes
  <2>1. /\ wire' = [wire EXCEPT !.out = Tail(@)]
        /\ srv'.pc = srv.pc /\ SrvType' /\ HistoryType'
    <3>1. /\ wire' = [wire EXCEPT !.out = Tail(@)]
          /\ \/ UNCHANGED srv \/ srv' = [srv EXCEPT !.long = m.cmd] \/ srv' = [srv EXCEPT !.long = 0]
          /\ UNCHANGED history \/ history' = [history EXCEPT !.begun = @ \cup {m.cmd}]
      BY <1>5 DEF ServerTakes
    <3> QED  BY <1>a, <3>1 DEF SrvType, HistoryType
  <2>2. /\ WireType' /\ wire'.net = wire.net
        /\ call.kind = "connect" => wire'.out \in Seq(SetupMessage)
    BY <1>1, <1>a, <2>1, OutTaken DEF WireType, AcceptedOK
  <2>3. AcceptedOK'
    BY <1>1, <1>3, <1>a, <2>1, <2>2 DEF AcceptedOK
  <2> QED  BY <1>1, <1>a, <2>1, <2>2, <2>3, OutsideKeeps
<1>6. CASE ServerLoads
  <2>1. PICK script :
           /\ script \in {<<P("ok")>>, <<P("err")>>, <<Packet("ok", TRUE), P("ok")>>}
           /\ Answer(m, script)
           /\ history' = IF script[1].kind = "ok"
                         THEN [begun |-> history.begun \cup {m.cmd},
                               done |-> history.done \cup {m.cmd}]
                         ELSE history
    BY <1>6 DEF ServerLoads
  <2>2. script \in Seq(Script)
    <3>1. P("ok") \in Script /\ P("err") \in Script /\ Packet("ok", TRUE) \in Script
      BY PacketsOK DEF PacketKinds
    <3> QED  BY <2>1, <3>1, Scripts
  <2>3. /\ WireType' /\ wire'.net = wire.net /\ wire'.buf = wire.buf
        /\ call.kind = "connect" => wire'.out \in Seq(SetupMessage)
    BY <1>1, <1>a, <2>1, <2>2, AnswerMoves
  <2>4. srv'.pc = "ready" /\ SrvType' /\ HistoryType'
    <3>1. srv' = [srv EXCEPT !.pc = "ready"]
      BY <1>6 DEF ServerLoads
    <3> QED  BY <1>a, <2>1, <3>1 DEF SrvType, HistoryType, Accepted
  <2>5. AcceptedOK'
    BY <1>1, <1>a, <2>3, <2>4 DEF AcceptedOK, Accepted, Early
  <2> QED  BY <1>1, <1>a, <2>3, <2>4, <2>5, OutsideKeeps
<1> QED  BY <1>4, <1>5, <1>6

LEMMA ServerEndsMoves ==
    ASSUME CallInv, WatchInv', ServerQuits \/ ServerHangsUp
    PROVE  CallInv'
<1>1. /\ UNCHANGED <<pc, call, res, rows, session, conn, watcher, ended, history>>
      /\ srv' = [srv EXCEPT !.pc = "gone"]
      /\ \/ wire' = [wire EXCEPT !.out = <<>>]
         \/ wire' = [wire EXCEPT !.net = IF @ = "up" THEN "broken" ELSE @, !.out = <<>>]
  BY DEF ServerQuits, ServerHangsUp, clientVars
<1>a. WireType /\ SrvType /\ SessionType /\ HistoryType /\ AcceptedOK /\ ended \subseteq Calls
  BY DEF CallInv, EnvTypes, WatcherType
<1>b. /\ WireShape(wire') /\ wire'.in = wire.in /\ wire'.buf = wire.buf /\ wire'.out = <<>>
      /\ wire'.net \in {wire.net, "broken"} /\ (wire'.net # wire.net => wire.net = "up")
  BY <1>1, <1>a DEF WireType, WireShape
<1>2. /\ WireType' /\ wire'.out = <<>>
      /\ wire'.net \in {wire.net, "broken"} /\ (wire'.net # wire.net => wire.net = "up")
  BY <1>a, <1>b, EmptySeq DEF WireType, WireShape, Nets
<1>3. SrvType' /\ HistoryType' /\ srv'.pc = "gone"
  BY <1>1, <1>a DEF SrvType, HistoryType, Accepted
<1>4. AcceptedOK'
  BY <1>2, <1>3, EmptySeq DEF AcceptedOK, Accepted, Early
<1> QED  BY <1>1, <1>2, <1>3, <1>4, <1>a, OutsideKeeps

LEMMA ServerGreetsMoves ==
    ASSUME CallInv, WatchInv', ServerGreets(Plugins)
    PROVE  CallInv'
<1>1. /\ UNCHANGED <<pc, call, res, rows, session, conn, watcher, ended, history>>
      /\ srv.pc = "connected" /\ wire.net = "up"
  BY DEF ServerGreets, clientVars
<1>a. WireType /\ SrvType /\ SessionType /\ HistoryType /\ AcceptedOK /\ ended \subseteq Calls
  BY DEF CallInv, EnvTypes, WatcherType
<1>2. PICK kind \in {"greeting", "err"} : Send(<<P(kind)>>, 0)
  BY DEF ServerGreets
<1>3. SrvType' /\ srv'.pc \in {"response", "closing"}
  <2>1. \/ \E p : srv' = [srv EXCEPT !.pc = "response", !.plugin = p]
        \/ srv' = [srv EXCEPT !.pc = "closing"]
    BY DEF ServerGreets
  <2> QED  BY <1>a, <2>1 DEF SrvType, Early
<1> DEFINE m == [cmd |-> 1, seq |-> 0 - 1]
           new == Numbered(<<P(kind)>>, m)
<1>4. new \in Seq(AnyPacket) /\ new \in Seq(NotOk)
  <2>1. kind \in PacketKinds
    BY DEF PacketKinds
  <2>2. P(kind) \in Script /\ P(kind).kind = kind
    BY <2>1, PacketsOK
  <2>3. <<P(kind)>> \in Seq(Script) /\ Len(<<P(kind)>>) = 1 /\ <<P(kind)>>[1] = P(kind)
    BY <2>2, Scripts
  <2>4. m.cmd \in Nat /\ m.seq \in Int /\ m.seq + 1 \in Nat
    OBVIOUS
  <2> HIDE DEF m
  <2>5. \A i \in 1 .. Len(<<P(kind)>>) : <<P(kind)>>[i].kind # "ok"
    BY <2>2, <2>3
  <2> QED  BY <2>3, <2>4, <2>5, NumberedPackets
<1>5. wire' = [wire EXCEPT !.in = @ \o new]
  BY <1>2 DEF Send
<1> HIDE DEF m, new
<1>6. wire.in \o new \in Seq(AnyPacket) /\ wire.in \o new \in Seq(NotOk)
  <2>1. wire.in \in Seq(NotOk)
    BY <1>1, NotYet DEF Early
  <2> QED  BY <1>4, <1>a, <2>1, ConcatProperties DEF WireType
<1>7. WireType' /\ wire'.net = wire.net /\ wire'.in = wire.in \o new /\ wire'.buf = wire.buf /\ wire'.out = wire.out
  BY <1>5, <1>6, <1>a DEF WireType
<1>8. AcceptedOK'
  BY <1>1, <1>3, <1>6, <1>7, <1>a, NotYet DEF AcceptedOK, Early
<1> QED  BY <1>1, <1>3, <1>7, <1>8, <1>a, OutsideKeeps DEF HistoryType

LEMMA ServerAuthenticatesMoves ==
    ASSUME CallInv, WatchInv', ServerAuthenticates(Plugins)
    PROVE  CallInv'
<1> DEFINE m == Head(wire.out)
<1>1. /\ UNCHANGED <<pc, call, res, rows, session, conn, watcher, ended, history>>
      /\ wire.out # <<>> /\ srv.pc \in Early
  BY DEF ServerAuthenticates, clientVars, Early
<1>a. WireType /\ SrvType /\ SessionType /\ HistoryType /\ AcceptedOK /\ ended \subseteq Calls
  BY DEF CallInv, EnvTypes, WatcherType
<1>b. \A k \in {"switch", "key"} : Fits(<<P(k)>>, "switchData") /\ Fits(<<P(k)>>, "fullData")
  <2> SUFFICES ASSUME NEW k \in {"switch", "key"}
               PROVE  Fits(<<P(k)>>, "switchData") /\ Fits(<<P(k)>>, "fullData")
    OBVIOUS
  <2>1. k \in PacketKinds
    BY DEF PacketKinds
  <2>2. P(k) \in Script /\ P(k).kind # "ok"
    BY <2>1, PacketsOK
  <2>3. <<P(k)>> \in Seq(Script) /\ Len(<<P(k)>>) = 1 /\ <<P(k)>>[1] = P(k)
    BY <2>2, Scripts
  <2> QED  BY <2>2, <2>3 DEF Fits, Early
<1>2. PICK script, next : Fits(script, next) /\ Answer(m, script) /\ SrvType' /\ srv'.pc = next
  <2> DEFINE stays == {[script |-> a.script, next |-> a.next,
                        plugin |-> IF a.next = "ready" THEN DefaultPlugin ELSE session.plugin] :
                          a \in ForPlugin(session.plugin)}
             switches == {[script |-> <<P("switch")>>, next |-> "switchData", plugin |-> p] : p \in Plugins}
  <2>1. ASSUME NEW a \in stays \cup switches
        PROVE  Fits(a.script, a.next)
    <3>1. CASE a \in stays
      <4>1. PICK b \in ForPlugin(session.plugin) : a.script = b.script /\ a.next = b.next
        BY <3>1
      <4> QED  BY <4>1, JudgedFits
    <3>2. CASE a \in switches
      <4>1. a.script = <<P("switch")>> /\ a.next = "switchData"
        BY <3>2
      <4> QED  BY <1>b, <4>1
    <3> QED  BY <3>1, <3>2
  <2>2. ASSUME NEW next, NEW p, next \in Early \cup {"ready"},
               srv' = [srv EXCEPT !.pc = next, !.plugin = p]
        PROVE  SrvType' /\ srv'.pc = next
    BY <1>a, <2>2 DEF SrvType, Accepted
  <2>3. \/ \E a \in stays \cup switches :
              Answer(m, a.script) /\ srv' = [srv EXCEPT !.pc = a.next, !.plugin = a.plugin]
        \/ srv.pc = "fullData" /\ Answer(m, <<P("key")>>) /\ UNCHANGED srv
        \/ \E a \in Judged :
              Answer(m, a.script) /\ srv' = [srv EXCEPT !.pc = a.next, !.plugin = DefaultPlugin]
    BY DEF ServerAuthenticates
  <2> HIDE DEF stays, switches
  <2>4. CASE \E a \in stays \cup switches :
              Answer(m, a.script) /\ srv' = [srv EXCEPT !.pc = a.next, !.plugin = a.plugin]
    BY <2>1, <2>2, <2>4 DEF Fits
  <2>5. CASE srv.pc = "fullData" /\ Answer(m, <<P("key")>>) /\ UNCHANGED srv
    BY <1>a, <1>b, <2>5 DEF SrvType
  <2>6. CASE \E a \in Judged :
              Answer(m, a.script) /\ srv' = [srv EXCEPT !.pc = a.next, !.plugin = DefaultPlugin]
    BY <2>2, <2>6, JudgedFits DEF Fits
  <2> QED  BY <2>3, <2>4, <2>5, <2>6
<1>3. /\ WireType' /\ wire'.net = wire.net /\ wire'.buf = wire.buf
      /\ call.kind = "connect" => wire'.out \in Seq(SetupMessage)
      /\ next \in Early => wire'.in \in Seq(NotOk)
  BY <1>1, <1>2, <1>a, AnswerMoves, NotYet DEF Fits
<1>4. AcceptedOK'
  BY <1>1, <1>2, <1>3, NotYet DEF AcceptedOK, Fits, Early, Accepted
<1> QED  BY <1>1, <1>2, <1>3, <1>4, <1>a, OutsideKeeps DEF HistoryType

LEMMA SurroundingsMove ==
    ASSUME CallInv, WatchInv', Surroundings
    PROVE  CallInv'
<1>a. WireType /\ SrvType /\ SessionType /\ HistoryType /\ AcceptedOK /\ ended \subseteq Calls
  BY DEF CallInv, EnvTypes, WatcherType
<1>1. CASE Break
  <2>1. /\ wire.net = "up" /\ UNCHANGED <<clientVars, conn, watcher, srv, ended, history>>
        /\ \E out \in {<<>>, wire.out} : \E k \in 0 .. Len(wire.in) :
              wire' = [wire EXCEPT !.net = "broken", !.out = out, !.in = SubSeq(@, 1, k)]
    BY <1>1 DEF Break
  <2>2. PICK out \in {<<>>, wire.out}, k \in 0 .. Len(wire.in) :
           wire' = [wire EXCEPT !.net = "broken", !.out = out, !.in = SubSeq(wire.in, 1, k)]
    BY <2>1
  <2>3. \A S : wire.in \in Seq(S) => SubSeq(wire.in, 1, k) \in Seq(S)
    BY Parts
  <2>4. \A S : wire.out \in Seq(S) => out \in Seq(S)
    BY EmptySeq
  <2>5. wire'.in = SubSeq(wire.in, 1, k) /\ wire'.out = out /\ wire'.buf = wire.buf /\ wire'.net = "broken"
        /\ WireShape(wire')
    BY <1>a, <2>2 DEF WireType, WireShape
  <2>6. WireType'
    BY <1>a, <2>3, <2>4, <2>5 DEF WireType, WireShape, Nets
  <2>7. SrvType' /\ HistoryType'
    BY <1>a, <2>1 DEF SrvType, HistoryType
  <2>8. AcceptedOK'
    BY <1>a, <2>1, <2>3, <2>4, <2>5 DEF AcceptedOK, clientVars
  <2> QED  BY <1>a, <2>1, <2>6, <2>7, <2>8, OutsideKeeps DEF clientVars
<1>2. CASE \E c \in Calls : EndContext(c)
  <2>1. /\ UNCHANGED <<clientVars, conn, watcher, wire, srv, history>> /\ ended' \subseteq Calls
    BY <1>2, <1>a DEF EndContext
  <2>2. WireType' /\ SrvType' /\ HistoryType' /\ AcceptedOK'
    BY <1>a, <2>1 DEF WireType, SrvType, HistoryType, AcceptedOK, clientVars
  <2> QED  BY <2>1, <2>2, OutsideKeeps DEF clientVars
<1> QED  BY <1>1, <1>2 DEF Surroundings

-----------------------------------------------------------------------------
(* The invariant holds *)

LEMMA ConnectIsSetup ==
    /\ ConnectCommands \in Seq(Setup)
    /\ 1 \in Calls
<1>1. /\ <<"sysvar">> \in Seq(Setup) /\ <<"names", "names">> \in Seq(Setup)
      /\ <<"params">> \in Seq(Setup) /\ <<>> \in Seq(Setup)
  BY DEF Setup
<1>2. 1 \in Calls
  BY BoundAssumption DEF Calls
<1> DEFINE a == IF "sysvar" \in Features THEN <<"sysvar">> ELSE <<>>
           b == IF "charsets" \in Features THEN <<"names", "names">> ELSE <<>>
           c == IF "params" \in Features THEN <<"params">> ELSE <<>>
<1>3. a \in Seq(Setup) /\ b \in Seq(Setup) /\ c \in Seq(Setup)
  BY <1>1
<1>4. ConnectCommands = a \o b \o c
  BY DEF ConnectCommands
<1> HIDE DEF a, b, c
<1>5. a \o b \in Seq(Setup)
  BY <1>3, ConcatProperties
<1>6. (a \o b) \o c \in Seq(Setup)
  BY <1>3, <1>5, ConcatProperties
<1> QED  BY <1>2, <1>4, <1>6

LEMMA CallInit ==
    ASSUME Init
    PROVE  CallInv
<1>1. /\ pc = "dial" /\ res = "running" /\ ended = {}
      /\ call.kind = "connect" /\ call.id = 1 /\ call.ctx \in {Background, 1}
      /\ call.todo = ConnectCommands
      /\ conn.closed = FALSE /\ conn.seq = 0 /\ rows.open = FALSE
      /\ session.auth = FALSE /\ srv.pc = "connected"
      /\ wire.net = "none" /\ wire.in = <<>> /\ wire.buf = <<>> /\ wire.out = <<>>
  BY DEF Init
<1>2. WatchInv
  BY WatchInit
<1>3. WireType /\ SrvType /\ SessionType /\ HistoryType /\ WatcherType
  <2>1. WireType
    BY <1>1, EmptySeq DEF Init, WireType, Nets
  <2>2. SrvType /\ SessionType /\ HistoryType
    BY DEF Init, SrvType, SessionType, HistoryType, Early
  <2>3. WatcherType
    BY DEF Init, WatcherType
  <2> QED  BY <2>1, <2>2, <2>3
<1>4. CallType
  <2>1. pc \in ClientPcs
    BY <1>1 DEF ClientPcs
  <2> QED  BY <1>1, <2>1, ConnectIsSetup DEF CallType
<1>5. ConnectOK /\ CutOffOK
  BY <1>1 DEF ConnectOK, CutOffOK, SettingUp
<1>6. AcceptedOK
  BY <1>1, EmptySeq DEF AcceptedOK, Early
<1> QED  BY <1>2, <1>3, <1>4, <1>5, <1>6 DEF CallInv, EnvTypes

LEMMA CallInvStep ==
    ASSUME CallInv, [Next]_vars
    PROVE  CallInv'
<1>1. WatchInv'
  BY WatchStep DEF CallInv
<1>2. CASE ConnectStep
  <2>1. HandshakeSteps \/ Dial
    BY <1>2 DEF ConnectStep, HandshakeSteps
  <2> QED  BY <1>1, <2>1, HandshakeMoves, DialMoves
<1>3. CASE CallStep
  <2>1. \/ SendingSteps \/ ReadingSteps \/ IteratingSteps
        \/ WatchCancel \/ Precheck \/ ContextCheck \/ Finish \/ CloseFinish
    BY <1>3 DEF CallStep, SendingSteps, ReadingSteps, IteratingSteps
  <2> QED  BY <1>1, <2>1, SendingMoves, ReadingMoves, IteratingMoves, WatchCancelMoves,
              PrecheckMoves, ContextCheckMoves, FinishMoves
<1>4. CASE UserStep
  BY <1>1, <1>4, StartCallMoves, StartRowsCallMoves, CloseConnMoves DEF UserStep
<1>5. CASE WatcherStep
  BY <1>1, <1>5, WatcherMoves
<1>6. CASE ServerStep
  BY <1>1, <1>6, ServerGreetsMoves, ServerAuthenticatesMoves, ServerCommandMoves, ServerEndsMoves
     DEF ServerStep
<1>7. CASE Surroundings
  BY <1>1, <1>7, SurroundingsMove
<1>8. CASE UNCHANGED vars
  <2>1. UNCHANGED <<pc, call, res, rows, session, conn, watcher, wire, srv, ended, history>>
    BY <1>8 DEF vars, clientVars
  <2>2. WireType' /\ SrvType' /\ HistoryType' /\ ended' \subseteq Calls /\ AcceptedOK'
    BY <2>1 DEF CallInv, EnvTypes, WireType, SrvType, HistoryType, WatcherType, AcceptedOK
  <2> QED  BY <1>1, <2>1, <2>2, OutsideKeeps
<1> QED  BY <1>2, <1>3, <1>4, <1>5, <1>6, <1>7, <1>8 DEF Next, ClientStep

-----------------------------------------------------------------------------
\* The connection's state keeps its types; of them, two that are not just types: the
\* channel closech is closed by cleanup after the closed flag was set, and a call that
\* is about to write has a command left.
THEOREM MySQLTypeCorrect == Spec => []TypeOK
<1>1. CallInv => TypeOK
  <2> SUFFICES ASSUME CallInv  PROVE TypeOK
    OBVIOUS
  <2>1. /\ pc \in ClientPcs /\ conn.seq \in Nat
        /\ call.id \in Calls /\ call.ctx \in {Background} \cup Calls
    BY DEF CallInv, CallType
  <2>2. /\ wire.net \in {"none", "up", "broken", "closed"}
        /\ watcher.pc \in {"none", "idle", "watch", "trySet", "closech", "closenet", "gone"}
        /\ {watcher.ctx, watcher.chan} \subseteq {Background} \cup Calls
        /\ ended \subseteq Calls
        /\ history.done \subseteq history.begun
    BY DEF CallInv, EnvTypes, WireType, Nets, WatcherType, HistoryType
  <2>3. conn.closech => conn.closed
    BY DEF CallInv, WatchInv, WatcherOK
  <2>4. pc = "write" => call.todo # <<>>
    <3>1. CASE call.kind = "connect"
      BY <3>1 DEF CallInv, ConnectOK, SettingUp
    <3>2. CASE call.kind # "connect"
      BY <3>2, TodosFacts DEF CallInv, CallType
    <3> QED  BY <3>1, <3>2
  <2> QED  BY <2>1, <2>2, <2>3, <2>4 DEF TypeOK
<1> QED  BY <1>1, CallInit, CallInvStep, PTL DEF Spec

\* Connect (connector.go) returns a connection only if the server has accepted the
\* client, and when it fails has closed the one it dialled, itself or by the watcher
\* that cancel has made close it.
THEOREM ConnectEnds == Spec => []ConnectedOrClosed
<1>1. CallInv => ConnectedOrClosed
  <2> SUFFICES ASSUME CallInv, call.kind = "connect"
               PROVE  /\ res = "ok" => session.auth /\ srv.pc \in {"ready", "gone"}
                      /\ pc = "gone" /\ res # "ok" =>
                            wire.net \in {"none", "closed"} \/ watcher.pc \in {"closech", "closenet"}
    BY DEF ConnectedOrClosed
  <2>1. res = "ok" => session.auth /\ srv.pc \in {"ready", "gone"}
    BY DEF CallInv, ConnectOK, AcceptedOK, Accepted
  <2>2. pc = "gone" /\ res # "ok" =>
           wire.net \in {"none", "closed"} \/ watcher.pc \in {"closech", "closenet"}
    BY DEF CallInv, ConnectOK, CutOffOK
  <2> QED  BY <2>1, <2>2
<1> QED  BY <1>1, CallInit, CallInvStep, PTL DEF Spec
=============================================================================

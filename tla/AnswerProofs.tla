----------------------------- MODULE AnswerProofs -----------------------------
(***************************************************************************)
(* A call of a connection reads the answers to its own commands only,      *)
(* leaves nothing of them behind, and has had no effect where it returned  *)
(* ErrBadConn.  The server is assumed to send no second result after the   *)
(* OK for an upload: the code does not read one after a local error.       *)
(***************************************************************************)
EXTENDS MySQLProofs

\* What has been sent to the client and not been read, in order.
Stream == wire.buf \o wire.in

\* Where the client is in the middle of an exchange with the server, and where nothing is
\* claimed any more: the connection is closed, or will be before its next use.
Uploading == {"infileData", "infileEnd", "infileAbort"}
Writing == {"write", "unanswered", "tls", "tlsHandshake", "respond", "switchAnswer", "fullAnswer",
            "askKey"} \cup Uploading
Excused ==
    \/ pc \in {"abandon", "gone"}
    \/ call.kind = "connect" /\ conn.canceled
    \/ /\ pc \notin Reading \cup Writing
       /\ conn.closed \/ (conn.canceled /\ res \notin {"ok", "eof", "running"})

(* What the client may read *)

\* The next packet, by what the client waits for.  For the Rows it depends on what has been
\* read of them.
Starts == {"ok", "err", "header"}
InRows == {"row", "eof", "err"}
Greetings == {"greeting", "ok", "err", "switch", "moreFast", "moreFull", "moreKey", "key"}
ByRows == IF ~rows.mc THEN {} ELSE IF ~rows.done THEN InRows ELSE IF conn.more THEN Starts ELSE {}
RowsPlaces == {"row", "nextRow", "nextResultSet", "closeFinish", "closeRows"}
Expected ==
    CASE pc = "header" -> Starts \cup {"readOnly", "infile"}
      [] pc = "columns" -> {"columns"}
      [] pc \in {"rows", "variable"} -> InRows
      [] pc \in {"pong", "infileOK", "infileSkip"} -> {"ok", "err"}
      [] pc = "prepared" -> {"prep0", "prep1", "prep2", "err"}
      [] pc \in {"definitions", "moreDefinitions"} -> {"columns"}
      [] pc \in RowsPlaces \/ (pc = "idle" /\ rows.open) -> ByRows
      [] pc \in {"greeting", "authResult", "authSwitched", "key", "authOK"}
         \/ (pc = "watch" /\ call.kind = "connect") -> Greetings
      [] OTHER -> {}

\* What may follow in the same answer.  The definitions of a statement are counted.
Follows(p, q) ==
    \/ p.kind = "header" /\ q.kind = "columns"
    \/ p.kind = "columns" /\ q.kind \in {"row", "err"}
    \/ p.kind = "row" /\ q.kind = "eof"
    \/ p.kind \in {"ok", "eof"} /\ p.more /\ q.kind \in Starts
    \/ p.kind = "moreFast" /\ q.kind = "ok"
Ordered(s) == \A i \in 1 .. Len(s) : i + 1 \in 1 .. Len(s) => Follows(s[i], s[i + 1])
DefinitionsLeft(s) ==
    IF pc = "definitions" THEN 1
    ELSE IF pc = "moreDefinitions" \/ s[1].kind = "prep1" THEN 2
    ELSE IF s[1].kind = "prep2" THEN 3 ELSE 1
\* Where an OK is the last packet of the answer.
OneResult ==
    call.kind \in {"connect", "ping", "stmtExec", "stmtQuery"} \/ rows.binary \/ pc = "infileSkip"
NoMore(s) == \A i \in 1 .. Len(s) : s[i].kind = "ok" => ~s[i].more
Mine(s) == \A i \in 1 .. Len(s) : s[i].cmd = call.id /\ s[i].seq + 1 = conn.seq + i
Defining(s) == Len(s) <= DefinitionsLeft(s) /\ \A i \in 2 .. Len(s) : s[i].kind = "columns"
Expects(s) ==
    s # <<>> =>
       /\ s[1].kind \in Expected
       /\ Mine(s)
       /\ call.kind = "prepare" => Defining(s)
       /\ call.kind # "prepare" => Ordered(s)
       /\ OneResult => NoMore(s)

(* What the server may have to answer *)

Wanted ==
    CASE pc \in {"header", "pong", "prepared"} -> Head(call.todo)
      [] pc \in {"infileOK", "infileSkip"} -> "empty"
      [] pc = "tlsHandshake" -> "sslRequest"
      [] pc = "authResult" -> "response"
      [] pc = "key" -> "keyRequest"
      [] pc \in {"authSwitched", "authOK"} -> "authData"
      [] OTHER -> "none"
Asked(m) == m.kind = Wanted /\ m.cmd = call.id /\ m.seq + 1 = conn.seq
OutOK ==
    \A i \in 1 .. Len(wire.out) :
       \/ wire.out[i].kind \in Silent
       \/ i = Len(wire.out) /\ Asked(wire.out[i]) /\ Stream = <<>>

\* The server waits for the content of a file only if the client is about to send it.
Uploads ==
    \/ pc \in Uploading
    \/ pc \in {"infileOK", "infileSkip"} /\ Stream = <<>>
    \/ pc = "header" /\ Stream # <<>> /\ Stream[1].kind = "infile"
HasOk(s) == \E i \in 1 .. Len(s) : s[i].kind = "ok"
SrvOK ==
    /\ srv.pc # "gone"
    /\ srv.pc = "infile" => Uploads
    /\ srv.pc = "connected" =>
          /\ Stream = <<>> /\ wire.out = <<>> /\ conn.seq = 0
          /\ call.kind = "connect" /\ pc \in {"watch", "greeting"}
    /\ ~session.auth /\ srv.pc = "ready" => HasOk(Stream)

StreamOK == ~Excused => Expects(Stream) /\ (wire.net = "up" => OutOK /\ SrvOK)

(* What a call has left to send, and where it may be, by its kind *)

RowsKinds == {"next", "nextResult", "close"}
AllKinds ==
    {"connect", "exec", "query", "ping", "prepare", "stmtExec", "stmtQuery", "stmtClose",
     "begin", "commit", "rollback"} \cup RowsKinds
TodosOf(kind) ==
    CASE kind \in {"exec", "query"} -> {<<"query">>}
      [] kind \in {"stmtExec", "stmtQuery"} -> LongDataTodos \cup {<<"execute">>, <<"argError">>}
      [] kind \in RowsKinds -> {<<"query">>, <<"execute">>}
      [] kind \in {"commit", "rollback"} -> {<<"end">>}
      [] kind = "begin" -> {<<"begin">>, <<"set", "begin">>}
      [] kind = "ping" -> {<<"ping">>}
      [] kind = "prepare" -> {<<"prepare">>}
      [] OTHER -> {<<"stmtClose">>}
TodoOK ==
    /\ call.kind \in AllKinds
    /\ call.kind # "connect" => call.todo \in TodosOf(call.kind)
    /\ call.kind \in {"stmtExec", "stmtQuery"} /\ (rows.open \/ pc \in Reading \cup Uploading)
       => call.todo = <<"execute">>
    /\ rows.binary => call.todo = <<"execute">>
DefiningPlaces == {"prepared", "definitions", "moreDefinitions"}
ByKindOK ==
    /\ call.kind = "prepare" =>
          pc \in {"watch", "check", "write", "finish", "contextCheck", "idle", "gone"} \cup DefiningPlaces
    /\ pc \in DefiningPlaces => call.kind = "prepare"
    /\ pc = "pong" => call.kind = "ping"
    /\ call.kind = "stmtQuery" => pc \notin {"rows", "nextResultSet"}
    /\ pc \in {"nextRow", "row"} => call.kind = "next"
    /\ pc \in {"closeFinish", "closeRows"} => call.kind = "close"
    /\ pc = "row" => rows.mc /\ (rows.done => rows.binary)
\* A call goes on as long as nothing has failed.
ResOK ==
    pc \notin {"idle", "gone", "abandon", "finish"} /\ call.kind # "close"
    => res \in {"ok", "eof", "running"}
PlaceInv == TodoOK /\ ByKindOK /\ ResOK

\* Where the connection is not closed by the watcher, and what is left when it is.
QuietOK ==
    /\ conn.canceled /\ ~conn.closed => watcher.pc = "trySet"
    /\ watcher.pc \in {"trySet", "closech", "closenet"} => conn.canceled
    /\ pc \in {"dial", "precheck", "watch"} /\ ~conn.closed => ~conn.watching
    /\ pc = "watch" /\ call.kind \in {"connect", "ping", "begin"} => ~conn.closed
    /\ wire.net = "closed" => wire.in = <<>>

\* Connect is the first call; nothing of another one is on the connection then.
PacketOf1 == {p \in AnyPacket : p.cmd = 1}
MessageOf1 == {m \in AnyMessage : m.cmd = 1}
ConnectFirst ==
    /\ call.kind = "connect" =>
          /\ call.id = 1 /\ wire.out \in Seq(MessageOf1)
          /\ wire.in \in Seq(PacketOf1) /\ wire.buf \in Seq(PacketOf1)
    /\ call.kind # "connect" => session.auth
    /\ pc \in Greeted \cup {"dial"} \/ (pc = "watch" /\ call.kind = "connect") => ~session.auth
    /\ pc = "dial" => /\ wire.net = "none" /\ Stream = <<>> /\ wire.out = <<>>
                      /\ srv.pc = "connected" /\ conn.seq = 0

AnswerInv == StreamOK /\ PlaceInv /\ QuietOK /\ ConnectFirst

-----------------------------------------------------------------------------
(* The stream of packets *)

Begins(s, t) == Len(s) <= Len(t) /\ \A i \in 1 .. Len(s) : s[i] = t[i]

LEMMA StreamType ==
    ASSUME WireType
    PROVE  /\ Stream \in Seq(AnyPacket) /\ Len(Stream) \in Nat
           /\ Stream = <<>> <=> Len(Stream) = 0
           /\ Stream = <<>> <=> wire.buf = <<>> /\ wire.in = <<>>
           /\ \A i \in 1 .. Len(Stream) : Stream[i] \in AnyPacket
<1>1. wire.buf \in Seq(AnyPacket) /\ wire.in \in Seq(AnyPacket)
  BY DEF WireType
<1>2. Stream \in Seq(AnyPacket) /\ (Stream = <<>> <=> wire.buf = <<>> /\ wire.in = <<>>)
  BY <1>1, ConcatProperties, ConcatEqualIffEmpty DEF Stream
<1> QED  BY <1>2, EmptySeq, LenProperties, ElementOfSeq

\* A packet is read off the front, whether it was buffered or not.
LEMMA StreamTaken ==
    ASSUME WireType, Readable, NEW w \in Filled
    PROVE  /\ Stream # <<>> /\ NextPacket = Stream[1]
           /\ w.buf \o w.in = Tail(Stream)
           /\ w.out = wire.out /\ w.net = wire.net /\ w.in \in Seq(AnyPacket) /\ w.buf \in Seq(AnyPacket)
<1> DEFINE b == wire.buf
           c == wire.in
<1>1. b \in Seq(AnyPacket) /\ c \in Seq(AnyPacket)
  BY DEF WireType
<1>a. Incoming(w)
  BY FilledIncoming
<1>b. w.out = wire.out /\ w.net = wire.net /\ w.in \in Seq(AnyPacket) /\ w.buf \in Seq(AnyPacket)
  BY <1>1, <1>a DEF Incoming, Delivered
<1>2. CASE b # <<>>
  <2>1. w.buf = Tail(b) /\ w.in = c
    BY <1>2 DEF Filled, WireType
  <2>2. NextPacket = Head(b)
    BY <1>2 DEF NextPacket
  <2> HIDE DEF b, c
  <2>3. b = <<Head(b)>> \o Tail(b) /\ Head(b) \in AnyPacket /\ Tail(b) \in Seq(AnyPacket)
    <3>1. b = SubSeq(b, 1, Len(b)) /\ Tail(b) = SubSeq(b, 2, Len(b)) /\ Len(b) \in Nat \ {0}
      BY <1>1, <1>2, SubSeqFull, TailIsSubSeq, EmptySeq
    <3>2. SubSeq(b, 1, Len(b)) = <<b[1]>> \o SubSeq(b, 1 + 1, Len(b))
      BY <1>1, <3>1, SubSeqRecursiveFirst
    <3> QED  BY <1>1, <1>2, <3>1, <3>2, HeadTailProperties
  <2>4. b \o c = <<Head(b)>> \o (Tail(b) \o c)
    BY <1>1, <2>3, ConcatAssociative
  <2>5. Tail(b) \o c \in Seq(AnyPacket)
    BY <1>1, <2>3, ConcatProperties
  <2>6. Tail(<<Head(b)>> \o (Tail(b) \o c)) = Tail(b) \o c
        /\ (<<Head(b)>> \o (Tail(b) \o c))[1] = Head(b)
    BY <2>3, <2>5
  <2>7. Stream = b \o c
    BY DEF Stream, b, c
  <2>8. Stream # <<>>
    BY <1>1, <1>2, <2>7, ConcatEqualIffEmpty
  <2> QED  BY <1>b, <2>1, <2>2, <2>4, <2>6, <2>7, <2>8
<1>3. CASE b = <<>>
  <2>1. PICK k \in 1 .. Len(c) : w.buf = SubSeq(c, 2, k) /\ w.in = SubSeq(c, k + 1, Len(c))
    BY <1>3 DEF Filled, WireType
  <2>2. NextPacket = Head(c) /\ c # <<>>
    BY <1>3 DEF NextPacket, Readable
  <2>3. Stream = b \o c
    BY DEF Stream
  <2> HIDE DEF b, c
  <2>4. Len(c) \in Nat /\ 2 \in 1 .. Len(c) + 1 /\ k \in 2 - 1 .. Len(c) /\ Len(c) \in k .. Len(c)
    <3>1. Len(c) \in Nat
      BY <1>1, LenProperties
    <3> QED  BY <3>1, <2>1
  <2>5. SubSeq(c, 2, k) \o SubSeq(c, k + 1, Len(c)) = SubSeq(c, 2, Len(c))
    BY <1>1, <2>4, ConcatAdjacentSubSeq
  <2>6. Stream = c
    BY <1>1, <1>3, <2>3, ConcatEmptySeq
  <2>7. Head(c) = c[1] /\ Tail(c) = SubSeq(c, 2, Len(c))
    BY <1>1, <2>2, TailIsSubSeq
  <2> QED  BY <1>b, <2>1, <2>2, <2>5, <2>6, <2>7
<1> QED  BY <1>2, <1>3

LEMMA TailFacts ==
    ASSUME NEW S, NEW s \in Seq(S), s # <<>>
    PROVE  /\ Tail(s) \in Seq(S) /\ Len(s) \in Nat /\ Len(s) >= 1
           /\ Len(Tail(s)) = Len(s) - 1 /\ Len(Tail(s)) \in Nat
           /\ \A i \in 1 .. Len(Tail(s)) : Tail(s)[i] = s[i + 1] /\ i + 1 \in 1 .. Len(s)
           /\ Tail(s) # <<>> => Len(s) >= 2 /\ Tail(s)[1] = s[2] /\ 2 \in 1 .. Len(s)
<1>1. Tail(s) \in Seq(S) /\ Len(s) \in Nat \ {0} /\ Len(Tail(s)) = Len(s) - 1
      /\ \A i \in 1 .. Len(Tail(s)) : Tail(s)[i] = s[i + 1]
  BY HeadTailProperties, EmptySeq
<1>2. Len(s) >= 1 /\ Len(Tail(s)) \in Nat
  BY <1>1
<1>3. \A i \in 1 .. Len(Tail(s)) : Tail(s)[i] = s[i + 1] /\ i + 1 \in 1 .. Len(s)
  BY <1>1
<1>4. Tail(s) # <<>> => Len(s) >= 2 /\ Tail(s)[1] = s[2] /\ 2 \in 1 .. Len(s)
  <2> SUFFICES ASSUME Tail(s) # <<>>
               PROVE  Len(s) >= 2 /\ Tail(s)[1] = s[2] /\ 2 \in 1 .. Len(s)
    OBVIOUS
  <2>1. Len(Tail(s)) \in Nat \ {0}
    BY <1>1, EmptySeq
  <2>2. 1 \in 1 .. Len(Tail(s))
    BY <2>1
  <2>3. Tail(s)[1] = s[1 + 1] /\ 1 + 1 \in 1 .. Len(s)
    BY <1>3, <2>2
  <2> QED  BY <1>1, <2>3
<1> QED  BY <1>1, <1>2, <1>3, <1>4

-----------------------------------------------------------------------------
(* What a step does to the stream *)

\* Nothing is left, on a connection that is lost.
LEMMA StreamLost ==
    ASSUME Stream' = <<>>, wire'.net # "up"
    PROVE  StreamOK'
BY DEF StreamOK, Expects

\* A packet is read: the next one is expected then.
LEMMA PacketRead ==
    ASSUME WireType, conn.seq \in Nat, StreamOK, ~Excused, Stream # <<>>, Stream' = Tail(Stream),
           conn'.seq = conn.seq + 1, call'.id = call.id, call'.kind = call.kind,
           wire'.out = wire.out, wire'.net = "up" => wire.net = "up", UNCHANGED srv,
           session.auth => session'.auth,
           Stream[1].kind = "ok" => session'.auth,
           Uploads => Uploads',
           Stream' # <<>> => /\ Stream[2].kind \in Expected'
                             /\ OneResult' => OneResult
                             /\ call.kind = "prepare" => DefinitionsLeft(Stream)' = DefinitionsLeft(Stream) - 1
    PROVE  StreamOK'
<1> DEFINE t == Tail(Stream)
<1>1. Stream \in Seq(AnyPacket) /\ Len(Stream) \in Nat /\ \A i \in 1 .. Len(Stream) : Stream[i] \in AnyPacket
  BY StreamType
<1>2. /\ Len(t) = Len(Stream) - 1 /\ Len(t) \in Nat /\ Len(Stream) >= 1
      /\ \A i \in 1 .. Len(t) : t[i] = Stream[i + 1] /\ i + 1 \in 1 .. Len(Stream)
      /\ t # <<>> => Len(Stream) >= 2 /\ t[1] = Stream[2] /\ 2 \in 1 .. Len(Stream)
  BY <1>1, TailFacts
<1>3. Expects(Stream) /\ (wire.net = "up" => OutOK /\ SrvOK)
  BY DEF StreamOK
<1>4. Stream' = t
  OBVIOUS
<1> HIDE DEF t
<1>5. Expects(Stream)'
  <2> SUFFICES ASSUME t # <<>>
               PROVE  /\ Stream'[1].kind \in Expected' /\ Mine(Stream)'
                      /\ call.kind = "prepare" => Defining(Stream)'
                      /\ call.kind # "prepare" => Ordered(Stream)'
                      /\ OneResult' => NoMore(Stream)'
    BY <1>4 DEF Expects
  <2>1. Stream'[1].kind \in Expected'
    BY <1>2, <1>4
  <2>2. Mine(Stream)'
    <3>1. \A i \in 1 .. Len(Stream) : Stream[i].cmd = call.id /\ Stream[i].seq + 1 = conn.seq + i
      BY <1>3 DEF Expects, Mine
    <3>2. ASSUME NEW i \in 1 .. Len(t)
          PROVE  t[i].cmd = call.id /\ t[i].seq + 1 = conn.seq + 1 + i
      <4>1. Stream[i + 1].cmd = call.id /\ Stream[i + 1].seq + 1 = conn.seq + (i + 1) /\ t[i] = Stream[i + 1]
        BY <1>2, <3>1
      <4>2. i \in Nat
        BY <1>2
      <4>3. \A a, b \in Nat : a + (b + 1) = a + 1 + b
        OBVIOUS
      <4> HIDE DEF t
      <4> QED  BY <4>1, <4>2, <4>3, Zenon
    <3> QED  BY <1>4, <3>2 DEF Mine
  <2>3. call.kind = "prepare" => Defining(Stream)'
    <3> SUFFICES ASSUME call.kind = "prepare"
                 PROVE  Defining(Stream)'
      OBVIOUS
    <3>1. Len(Stream) <= DefinitionsLeft(Stream) /\ \A i \in 2 .. Len(Stream) : Stream[i].kind = "columns"
      BY <1>3 DEF Expects, Defining
    <3>2. DefinitionsLeft(Stream)' = DefinitionsLeft(Stream) - 1
      BY <1>4
    <3>3. DefinitionsLeft(Stream) \in Nat
      BY DEF DefinitionsLeft
    <3>4. Len(t) <= DefinitionsLeft(Stream)'
      BY <1>1, <1>2, <3>1, <3>2, <3>3
    <3>5. \A i \in 2 .. Len(t) : t[i].kind = "columns"
      <4> SUFFICES ASSUME NEW i \in 2 .. Len(t)
                   PROVE  t[i].kind = "columns"
        OBVIOUS
      <4>1. i \in 1 .. Len(t) /\ i + 1 \in 2 .. Len(Stream)
        BY <1>2
      <4> QED  BY <1>2, <3>1, <4>1
    <3> QED  BY <1>4, <3>4, <3>5 DEF Defining, DefinitionsLeft
  <2>4. call.kind # "prepare" => Ordered(Stream)'
    <3> SUFFICES ASSUME call.kind # "prepare", NEW i \in 1 .. Len(t), i + 1 \in 1 .. Len(t)
                 PROVE  Follows(t[i], t[i + 1])
      BY <1>4 DEF Ordered, Follows
    <3>1. i + 1 \in 1 .. Len(Stream) /\ (i + 1) + 1 \in 1 .. Len(Stream) /\ t[i] = Stream[i + 1]
          /\ t[i + 1] = Stream[(i + 1) + 1]
      BY <1>2
    <3> QED  BY <1>3, <3>1 DEF Expects, Ordered
  <2>5. OneResult' => NoMore(Stream)'
    <3> SUFFICES ASSUME OneResult'
                 PROVE  NoMore(Stream)'
      OBVIOUS
    <3>1. NoMore(Stream)
      BY <1>3, <1>4 DEF Expects
    <3>2. ASSUME NEW i \in 1 .. Len(t), t[i].kind = "ok"
          PROVE  ~t[i].more
      <4>1. t[i] = Stream[i + 1] /\ i + 1 \in 1 .. Len(Stream)
        BY <1>2
      <4> QED  BY <3>1, <3>2, <4>1 DEF NoMore
    <3> QED  BY <1>4, <3>2 DEF NoMore
  <2> QED  BY <2>1, <2>2, <2>3, <2>4, <2>5
<1>6. wire'.net = "up" => OutOK'
  BY <1>3 DEF OutOK
<1>7. wire'.net = "up" => SrvOK'
  <2> SUFFICES ASSUME wire'.net = "up"
               PROVE  SrvOK'
    OBVIOUS
  <2>1. SrvOK
    BY <1>3
  <2>2. ~session'.auth /\ srv.pc = "ready" => HasOk(Stream)'
    <3> SUFFICES ASSUME ~session'.auth, srv.pc = "ready"
                 PROVE  HasOk(t)
      BY <1>4 DEF HasOk
    <3>1. PICK i \in 1 .. Len(Stream) : Stream[i].kind = "ok"
      BY <2>1 DEF SrvOK, HasOk
    <3>2. i # 1
      BY <3>1
    <3>3. i \in Nat /\ i >= 1 /\ i <= Len(Stream) /\ Len(t) = Len(Stream) - 1 /\ Len(Stream) \in Nat
      BY <1>1, <1>2
    <3>4. i - 1 \in 1 .. Len(t) /\ (i - 1) + 1 = i
      BY <3>2, <3>3
    <3>5. t[i - 1] = Stream[i]
      BY <1>2, <3>4
    <3> QED  BY <3>1, <3>4, <3>5 DEF HasOk
  <2> QED  BY <2>1, <2>2 DEF SrvOK
<1> QED  BY <1>5, <1>6, <1>7 DEF StreamOK

\* No packet is read or lost: what is expected is still expected.
LEMMA StreamStays ==
    ASSUME ~Excused' => ~Excused, StreamOK, Stream' = Stream,
           Stream # <<>> => /\ Stream[1].kind \in Expected => Stream[1].kind \in Expected'
                            /\ call'.id = call.id /\ conn'.seq = conn.seq
                            /\ call'.kind = "prepare" <=> call.kind = "prepare"
                            /\ call.kind = "prepare" => pc' = pc
                            /\ OneResult' => OneResult,
           ~Excused' /\ wire'.net = "up" => OutOK' /\ SrvOK'
    PROVE  StreamOK'
<1> SUFFICES ASSUME ~Excused'
             PROVE  Expects(Stream)' /\ (wire'.net = "up" => OutOK' /\ SrvOK')
  BY DEF StreamOK
<1>1. Expects(Stream)
  BY DEF StreamOK
<1>2. Expects(Stream)'
  <2> SUFFICES ASSUME Stream # <<>>
               PROVE  Expects(Stream)'
    BY DEF Expects
  <2>1. Mine(Stream)' /\ (OneResult' => NoMore(Stream)') /\ Stream[1].kind \in Expected'
    BY <1>1 DEF Expects, Mine, NoMore
  <2>2. call.kind = "prepare" => Defining(Stream)'
    BY <1>1 DEF Expects, Defining, DefinitionsLeft
  <2>3. call.kind # "prepare" => Ordered(Stream)'
    BY <1>1 DEF Expects, Ordered, Follows
  <2> QED  BY <2>1, <2>2, <2>3 DEF Expects
<1> QED  BY <1>2

\* Where the client waits for no packet, none is on its way, and no command waits for its
\* answer.
AllSilent(s) == \A i \in 1 .. Len(s) : s[i].kind \in Silent
Quiet == Stream = <<>> /\ (wire.net = "up" => AllSilent(wire.out) /\ SrvOK)

LEMMA ExpectsNothing ==
    /\ pc \in (Writing \ {"tlsHandshake"})
              \cup {"precheck", "check", "contextCheck", "finish", "dial", "abandon", "gone"}
       => Expected = {} /\ Wanted = "none"
    /\ pc = "idle" /\ ~rows.open => Expected = {} /\ Wanted = "none"
    /\ pc = "watch" /\ call.kind # "connect" => Expected = {} /\ Wanted = "none"
    /\ pc = "tlsHandshake" => Expected = {} /\ Wanted = "sslRequest"
    /\ pc \in RowsPlaces \/ (pc = "idle" /\ rows.open) => Expected = ByRows
    /\ pc \in (RowsPlaces \cup {"idle", "watch"}) => Wanted = "none"
<1>1. pc \in (Writing \ {"tlsHandshake"})
              \cup {"precheck", "check", "contextCheck", "finish", "dial", "abandon", "gone"}
       => Expected = {} /\ Wanted = "none"
  BY DEF Writing, Uploading, Expected, Wanted, RowsPlaces
<1>2. /\ pc = "idle" /\ ~rows.open => Expected = {} /\ Wanted = "none"
      /\ pc = "watch" /\ call.kind # "connect" => Expected = {} /\ Wanted = "none"
      /\ pc = "tlsHandshake" => Expected = {} /\ Wanted = "sslRequest"
  BY DEF Expected, Wanted, RowsPlaces
<1>3. /\ pc \in RowsPlaces \/ (pc = "idle" /\ rows.open) => Expected = ByRows
      /\ pc \in (RowsPlaces \cup {"idle", "watch"}) => Wanted = "none"
  BY DEF Expected, Wanted, RowsPlaces
<1> QED  BY <1>1, <1>2, <1>3

LEMMA NotAsked ==
    ASSUME WireType, OutOK, Wanted = "none"
    PROVE  AllSilent(wire.out)
<1>1. \A i \in 1 .. Len(wire.out) : wire.out[i] \in AnyMessage
  BY ElementOfSeq DEF WireType
<1>2. "none" \notin SetupKinds \cup CommandKinds
  BY DEF SetupKinds, Setup, CommandKinds
<1>3. \A i \in 1 .. Len(wire.out) : wire.out[i].kind # "none"
  BY <1>1, <1>2 DEF AnyMessage
<1> QED  BY <1>3 DEF OutOK, Asked, AllSilent

LEMMA QuietAt ==
    ASSUME StreamOK, ~Excused, WireType, Expected = {}, Wanted = "none"
    PROVE  Quiet
BY NotAsked DEF StreamOK, Expects, Quiet

\* A message is sent.
LEMMA OutSent ==
    ASSUME WireType, AllSilent(wire.out), NEW m \in AnyMessage, wire'.out = Append(wire.out, m)
    PROVE  /\ m.kind \in Silent => AllSilent(wire'.out)
           /\ Stream' = <<>> /\ m.kind = Wanted' /\ m.cmd = call'.id /\ m.seq + 1 = conn'.seq => OutOK'
<1>1. /\ Len(Append(wire.out, m)) = Len(wire.out) + 1 /\ Len(wire.out) \in Nat
      /\ \A i \in 1 .. Len(wire.out) : Append(wire.out, m)[i] = wire.out[i]
      /\ Append(wire.out, m)[Len(wire.out) + 1] = m
  BY AppendProperties, LenProperties DEF WireType
<1> DEFINE out == wire'.out
           n == Len(wire.out)
<1>2. Len(out) = n + 1 /\ n \in Nat /\ (\A i \in 1 .. n : out[i].kind \in Silent) /\ out[n + 1] = m
  BY <1>1 DEF AllSilent
<1> HIDE DEF out, n
<1>3. \A i \in 1 .. Len(out) : i \in 1 .. n \/ i = n + 1
  BY <1>2
<1>4. m.kind \in Silent => AllSilent(out)
  BY <1>2, <1>3 DEF AllSilent
<1>5. Stream' = <<>> /\ m.kind = Wanted' /\ m.cmd = call'.id /\ m.seq + 1 = conn'.seq
      => \A i \in 1 .. Len(out) :
            \/ out[i].kind \in Silent
            \/ /\ i = Len(out) /\ Stream' = <<>>
               /\ out[i].kind = Wanted' /\ out[i].cmd = call'.id /\ out[i].seq + 1 = conn'.seq
  BY <1>2, <1>3
<1> QED  BY <1>4, <1>5 DEF OutOK, Asked, out

\* A step from one such place to another place, or to one that reads.
LEMMA QuietStep ==
    ASSUME Quiet, Stream' = <<>>, UNCHANGED srv, session.auth => session'.auth,
           ~(call.kind = "connect" /\ pc \in {"watch", "greeting"}),
           wire'.net = "up" => wire.net = "up" /\ OutOK' /\ (Uploads => Uploads')
    PROVE  StreamOK'
<1>1. Expects(Stream)'
  BY DEF Expects
<1>2. ASSUME wire'.net = "up"
      PROVE  SrvOK'
  <2>1. SrvOK /\ Stream = <<>>
    BY <1>2 DEF Quiet
  <2>2. ~HasOk(Stream)
    <3>1. Len(<<>>) = 0
      OBVIOUS
    <3> QED  BY <2>1, <3>1 DEF HasOk
  <2>3. srv.pc # "connected" /\ ~(~session'.auth /\ srv.pc = "ready")
    BY <2>1, <2>2 DEF SrvOK
  <2> QED  BY <1>2, <2>1, <2>3 DEF SrvOK
<1> QED  BY <1>1, <1>2 DEF StreamOK

LEMMA SilentOK ==
    ASSUME AllSilent(wire.out)'
    PROVE  OutOK'
BY DEF AllSilent, OutOK

-----------------------------------------------------------------------------
(* The steps of a call *)

Inv == CallInv /\ AnswerInv
ClientSteps == SendingSteps \/ ReadingSteps \/ IteratingSteps \/ HandshakeSteps

\* What every one of them leaves alone.
Goes ==
    /\ WatchInv /\ EnvTypes /\ CallType /\ WatchInv' /\ EnvTypes' /\ CallType'
    /\ conn.closed => conn'.closed
    /\ conn'.canceled = conn.canceled /\ conn'.watching = conn.watching
    /\ call'.id = call.id /\ call'.kind = call.kind /\ call'.ctx = call.ctx
    /\ session.auth => session'.auth
    /\ UNCHANGED <<watcher, srv, ended, history>>

LEMMA StepFacts ==
    ASSUME CallInv, WatchInv', ClientSteps
    PROVE  Goes /\ ConnKept /\ ClientMoves /\ CallInv'
<1>1. WatchInv
  BY DEF CallInv
<1>2. ConnKept
  BY <1>1, Sending, ReadingKeeps, IteratingKeeps, HandshakeKeeps DEF ClientSteps
<1>3. ClientMoves /\ CallInv'
  BY SendingMoves, ReadingMoves, IteratingMoves, HandshakeMoves DEF ClientSteps
<1>4. UNCHANGED watcher
  BY DEF ClientSteps, SendingSteps, ReadingSteps, IteratingSteps, HandshakeSteps, Rest,
         CheckClosed, WriteQuery, WriteUnanswered, Unanswered, ArgumentError,
         InfileRequest, InfileData, InfileEnd, InfileSkip,
         OkPacket, Pong, Header, Columns, SkipRow, RowsEnd, ErrorPacket, Prepared, Definitions,
         CommandFails, NextRow, Row, NextResultSet, CloseRows,
         Greeting, StartTls, TlsHandshake, Respond, AuthResult, AuthAnswer, AskKey, Key, AuthOK,
         Variable, Abandon
<1>5. UNCHANGED <<srv, ended, history>>
  BY DEF ClientSteps, SendingSteps, ReadingSteps, IteratingSteps, HandshakeSteps, Rest,
         CheckClosed, WriteQuery, WriteUnanswered, Unanswered, ArgumentError,
         InfileRequest, InfileData, InfileEnd, InfileSkip,
         OkPacket, Pong, Header, Columns, SkipRow, RowsEnd, ErrorPacket, Prepared, Definitions,
         CommandFails, NextRow, Row, NextResultSet, CloseRows,
         Greeting, StartTls, TlsHandshake, Respond, AuthResult, AuthAnswer, AskKey, Key, AuthOK,
         Variable, Abandon
<1> QED
  BY <1>1, <1>2, <1>3, <1>4, <1>5 DEF Goes, ConnKept, ClientMoves, CallMoved, SessionMoved, CallInv

\* A watched connection is the only one that can be closed by the watcher.
LEMMA NotCanceled ==
    ASSUME WatchInv, QuietOK, ~conn.closed, ~conn.watching
    PROVE  ~conn.canceled
BY DEF WatchInv, WatcherInStep, QuietOK

\* Once excused, a connection in use stays so.
LEMMA ExcusedStays ==
    ASSUME Goes, ResOK, QuietOK, pc \notin {"idle", "gone", "abandon", "finish", "closeFinish"},
           pc \notin Reading \cup Writing /\ conn.closed => pc' \notin Reading \cup Writing
    PROVE  ~Excused' => ~Excused
<1>1. ASSUME pc \notin Reading \cup Writing, conn.canceled, res \notin {"ok", "eof", "running"}
      PROVE  conn.closed
  <2>1. call.kind = "close"
    BY <1>1 DEF ResOK
  <2>2. ~conn.closed => ~conn.watching
    BY <2>1 DEF Goes, WatchInv, UnwatchedOK, Unwatched
  <2> QED  BY <1>1, <2>2, NotCanceled DEF Goes
<1> QED  BY <1>1 DEF Goes, Excused

LEMMA Returned ==
    ASSUME CallInv, NEW e, Return(e)
    PROVE  \/ e # "ok" /\ call.kind = "connect" /\ pc' = "write" /\ res' = res /\ CharsetLeft
              /\ session.auth
           \/ pc' = After(e) /\ pc' \in {"idle", "abandon", "finish"} /\ res' = MarkBadConn(e) /\ call' = call
              /\ (call.kind = "connect" => pc' = IF e = "ok" THEN "finish" ELSE "abandon")
<1>1. CASE e # "ok" /\ CharsetLeft
  BY <1>1, CharsetsLeft DEF Return
<1>2. CASE ~(e # "ok" /\ CharsetLeft)
  BY <1>2 DEF Return, After
<1> QED  BY <1>1, <1>2

\* Closing the connection leaves nothing to read but what is in the buffer.
LEMMA CutOffStream ==
    ASSUME WireType, NEW c, wire' = CutOff(c, wire) \/ wire' = Quit(c, wire), Stream = <<>>
    PROVE  Stream' = <<>> /\ (~c.closed => wire'.net = "closed") /\ (c.closed => wire' = wire)
<1>1. wire.buf = <<>> /\ wire.in = <<>>
  BY StreamType
<1>2. wire'.buf = <<>> /\ wire'.in = <<>>
  BY <1>1 DEF CutOff, Quit, WireType
<1>3. <<>> \o <<>> = <<>>
  OBVIOUS
<1>4. Stream' = <<>>
  BY <1>2, <1>3 DEF Stream
<1>5. (~c.closed => wire'.net = "closed") /\ (c.closed => wire' = wire)
  BY DEF CutOff, Quit, WireType
<1> QED  BY <1>4, <1>5

LEMMA PacketWritten ==
    ASSUME CallInv, Goes, StreamOK, Quiet, pc \in Writing, NEW c, NEW m \in AnyMessage, NEW next,
           WritePacket(c, m, next), c.seq \in Nat, m.cmd = call.id, m.seq = c.seq,
           c = [closed |-> c.closed, closech |-> c.closech, canceled |-> c.canceled,
                watching |-> c.watching, reset |-> c.reset, more |-> c.more, seq |-> c.seq],
           GoOn(next) => m.kind \in Silent \/ m.kind = Wanted',
           GoOn(next) /\ Uploads => Uploads'
    PROVE  StreamOK'
<1>1. WireType /\ Stream = <<>> /\ session.auth => session'.auth
  BY DEF Goes, EnvTypes, Quiet
<1>a. WireType /\ Stream = <<>> /\ wire.buf = <<>> /\ wire.in = <<>>
  BY StreamType DEF Goes, EnvTypes, Quiet
<1>b. ~(call.kind = "connect" /\ pc \in {"watch", "greeting"})
  BY DEF Writing, Uploading
<1>2. CASE CheckFails(c)
  <2>1. wire.net # "up" /\ wire' = Quit(c, wire)
    BY <1>2, <1>a DEF CheckFails
  <2>2. Stream' = <<>> /\ wire'.net # "up"
    BY <1>a, <2>1, CutOffStream
  <2> QED  BY <2>2, StreamLost
<1>3. CASE WriteSucceeds(c, m, next)
  <2>1. /\ wire' = [wire EXCEPT !.out = IF wire.net = "up" THEN Append(@, m) ELSE @]
        /\ conn' = [c EXCEPT !.reset = FALSE, !.seq = @ + 1] /\ GoOn(next)
    BY <1>3 DEF WriteSucceeds
  <2>2. /\ wire'.net = wire.net /\ wire'.in = wire.in /\ wire'.buf = wire.buf
        /\ (wire.net = "up" => wire'.out = Append(wire.out, m))
    BY <1>a, <2>1 DEF WireType
  <2>3. Stream' = <<>>
    BY <1>a, <2>2 DEF Stream
  <2>4. conn'.seq = c.seq + 1 /\ call' = call
    BY <2>1 DEF GoOn
  <2>5. wire.net = "up" => OutOK'
    <3> SUFFICES ASSUME wire.net = "up"
                 PROVE  OutOK'
      OBVIOUS
    <3>1. AllSilent(wire.out) /\ wire'.out = Append(wire.out, m)
      BY <2>2 DEF Quiet
    <3>2. m.kind \in Silent \/ (m.kind = Wanted' /\ m.cmd = call'.id /\ m.seq + 1 = conn'.seq)
      BY <2>1, <2>4
    <3>3. CASE m.kind \in Silent
      <4>1. AllSilent(wire'.out)
        BY <1>a, <3>1, <3>3, OutSent
      <4>2. AllSilent(wire.out)'
        BY <4>1 DEF AllSilent
      <4> QED  BY <4>2, SilentOK
    <3>4. CASE m.kind = Wanted' /\ m.cmd = call'.id /\ m.seq + 1 = conn'.seq
      BY <1>a, <2>3, <3>1, <3>4, OutSent
    <3> QED  BY <3>2, <3>3, <3>4
  <2> QED  BY <1>b, <2>1, <2>2, <2>3, <2>5, QuietStep DEF Goes
<1>4. CASE NothingWritten(c) \/ PartlyWritten(c)
  <2>1. wire.net # "up" /\ (wire' = wire \/ wire' = CutOff(c, wire))
    BY <1>4 DEF NothingWritten, PartlyWritten
  <2>2. CASE wire' = wire
    BY <1>a, <2>1, <2>2, StreamLost DEF Stream
  <2>3. CASE wire' = CutOff(c, wire)
    <3>1. Stream' = <<>> /\ wire'.net # "up"
      BY <1>a, <2>1, <2>3, CutOffStream
    <3> QED  BY <3>1, StreamLost
  <2> QED  BY <2>1, <2>2, <2>3
<1> QED  BY <1>2, <1>3, <1>4 DEF WritePacket

\* A command starts a new sequence.
LEMMA CommandWritten ==
    ASSUME CallInv, Goes, StreamOK, Quiet, pc = "write", NEW kind, NEW next, WriteCommand(kind, next),
           (kind \in CommandKinds /\ call.kind # "connect") \/ kind \in Setup,
           GoOn(next) => kind \in Silent \/ kind = Wanted'
    PROVE  StreamOK'
<1> DEFINE c == [conn EXCEPT !.seq = 0]
           m == Message(kind, 0)
<1>1. wire.buf = <<>>
  BY StreamType DEF Goes, EnvTypes, Quiet
<1>2. WritePacket(c, m, next)
  BY <1>1 DEF WriteCommand, BusyBuffer, Message
<1>3. Same(c) /\ c.seq = 0
  BY Numbers DEF CallInv, WatchInv, Shapes, ConnShape
<1>4. m \in AnyMessage /\ m.cmd = call.id /\ m.seq = 0 /\ m.kind = kind
  <2>1. kind \in SetupKinds \cup CommandKinds /\ 0 \in Nat
        /\ (kind \in SetupKinds \/ call.kind # "connect")
    BY DEF SetupKinds
  <2>2. m \in Sent
    BY <2>1, SentOK DEF CallInv
  <2> QED  BY <2>2 DEF Sent, Message
<1>5. ~Uploads
  BY DEF Uploads, Uploading
<1>6. pc \in Writing
  BY DEF Writing
<1> HIDE DEF c, m
<1> QED  BY <1>2, <1>3, <1>4, <1>5, <1>6, PacketWritten DEF Same

LEMMA UploadWritten ==
    ASSUME CallInv, Goes, StreamOK, Quiet, pc \in Writing, NEW kind \in SetupKinds, NEW next,
           WritePacket(conn, Upload(kind), next),
           GoOn(next) => kind \in Silent \/ kind = Wanted',
           GoOn(next) /\ Uploads => Uploads'
    PROVE  StreamOK'
<1> DEFINE m == Message(kind, conn.seq)
<1>1. Upload(kind) = m /\ WritePacket(conn, m, next)
  BY DEF Upload, Message
<1>2. conn.seq \in Nat /\ Same(conn)
  BY Numbers DEF CallInv, CallType
<1>3. m \in AnyMessage /\ m.cmd = call.id /\ m.seq = conn.seq /\ m.kind = kind
  <2>1. m \in Sent
    BY <1>2, SentOK DEF CallInv
  <2> QED  BY <2>1 DEF Sent, Message
<1> HIDE DEF m
<1> QED  BY <1>1, <1>2, <1>3, PacketWritten DEF Same

-----------------------------------------------------------------------------
(* Reading *)

LEMMA FirstPacket ==
    ASSUME WireType, Readable
    PROVE  Stream # <<>> /\ NextPacket = Stream[1]
<1>1. \E w : w \in Filled
  <2>1. CASE wire.buf # <<>>
    BY <2>1 DEF Filled
  <2>2. CASE wire.buf = <<>>
    <3>1. wire.in # <<>> /\ wire.in \in Seq(AnyPacket)
      BY <2>2 DEF Readable, WireType
    <3>2. 1 \in 1 .. Len(wire.in)
      BY <3>1, EmptySeq, LenProperties
    <3> DEFINE f(k) == [wire EXCEPT !.buf = SubSeq(wire.in, 2, k), !.in = SubSeq(wire.in, k + 1, Len(wire.in))]
               n == Len(wire.in)
    <3>3. Filled = {f(k) : k \in 1 .. n}
      BY <2>2 DEF Filled
    <3> HIDE DEF f, n
    <3>4. f(1) \in {f(k) : k \in 1 .. n}
      BY <3>2 DEF n
    <3> QED  BY <3>3, <3>4
  <2> QED  BY <2>1, <2>2
<1> QED  BY <1>1, StreamTaken

\* The packet that can be read is the one that is expected.
LEMMA OnReading ==
    ASSUME Inv, Goes, pc \in Reading, ~Excused'
    PROVE  /\ ~Excused /\ WireType /\ conn.seq \in Nat
           /\ Readable => /\ Stream # <<>> /\ NextPacket = Stream[1] /\ NextPacket.kind \in Expected
                          /\ NextPacket.seq = conn.seq
<1>1. pc \notin {"idle", "gone", "abandon", "finish", "closeFinish"}
  BY DEF Reading
<1>2. ~Excused
  BY <1>1, ExcusedStays DEF Inv, AnswerInv, PlaceInv
<1>3. WireType /\ conn.seq \in Nat
  BY DEF Goes, EnvTypes, CallType
<1>4. ASSUME Readable
      PROVE  /\ Stream # <<>> /\ NextPacket = Stream[1] /\ NextPacket.kind \in Expected
             /\ NextPacket.seq = conn.seq
  <2>1. Stream # <<>> /\ NextPacket = Stream[1]
    BY <1>3, <1>4, FirstPacket
  <2>2. Stream[1].kind \in Expected /\ Mine(Stream)
    BY <1>2, <2>1 DEF Inv, AnswerInv, StreamOK, Expects
  <2>3. 1 \in 1 .. Len(Stream) /\ Stream[1] \in AnyPacket
    BY <1>3, <2>1, StreamType
  <2>4. Stream[1].seq + 1 = conn.seq + 1 /\ Stream[1].seq \in Nat
    BY <2>2, <2>3 DEF Mine, AnyPacket
  <2> QED  BY <1>3, <2>1, <2>2, <2>4
<1> QED  BY <1>2, <1>3, <1>4

ByPlace ==
    /\ pc = "header" => Expected = Starts \cup {"readOnly", "infile"}
    /\ pc = "columns" => Expected = {"columns"}
    /\ pc \in {"rows", "variable"} => Expected = InRows
    /\ pc \in {"pong", "infileOK", "infileSkip"} => Expected = {"ok", "err"}
    /\ pc = "prepared" => Expected = {"prep0", "prep1", "prep2", "err"}
    /\ pc \in {"definitions", "moreDefinitions"} => Expected = {"columns"}
    /\ pc \in RowsPlaces \/ (pc = "idle" /\ rows.open) => Expected = ByRows
    /\ pc \in {"greeting", "authResult", "authSwitched", "key", "authOK"}
       \/ (pc = "watch" /\ call.kind = "connect") => Expected = Greetings
LEMMA ExpectedAt == ByPlace
<1>1. /\ pc = "header" => Expected = Starts \cup {"readOnly", "infile"}
      /\ pc = "columns" => Expected = {"columns"}
      /\ pc \in {"rows", "variable"} => Expected = InRows
      /\ pc \in {"pong", "infileOK", "infileSkip"} => Expected = {"ok", "err"}
  BY DEF Expected, RowsPlaces
<1>2. /\ pc = "prepared" => Expected = {"prep0", "prep1", "prep2", "err"}
      /\ pc \in {"definitions", "moreDefinitions"} => Expected = {"columns"}
      /\ pc \in RowsPlaces \/ (pc = "idle" /\ rows.open) => Expected = ByRows
  BY DEF Expected, RowsPlaces
<1>3. pc \in {"greeting", "authResult", "authSwitched", "key", "authOK"}
      \/ (pc = "watch" /\ call.kind = "connect") => Expected = Greetings
  BY DEF Expected, RowsPlaces
<1> QED  BY <1>1, <1>2, <1>3 DEF ByPlace

LEMMA ExpectedNext == ByPlace'
BY ExpectedAt, PTL

\* What follows it.
Second == Stream[2]
LEMMA NextRead ==
    ASSUME Inv, Goes, pc \in Reading, ~Excused', Readable
    PROVE  /\ wire' \in Filled => Stream' = Tail(Stream) /\ wire'.out = wire.out /\ wire'.net = wire.net
           /\ Tail(Stream) # <<>> =>
                /\ call.kind # "prepare" => Follows(NextPacket, Second)
                /\ call.kind = "prepare" => Second.kind = "columns" /\ DefinitionsLeft(Stream) >= 2
                /\ OneResult /\ NextPacket.kind = "ok" => ~NextPacket.more
<1>1. ~Excused /\ WireType /\ Stream # <<>> /\ NextPacket = Stream[1]
  BY OnReading
<1>2. wire' \in Filled => Stream' = Tail(Stream) /\ wire'.out = wire.out /\ wire'.net = wire.net
  BY <1>1, StreamTaken DEF Stream
<1>3. /\ call.kind = "prepare" => Defining(Stream)
      /\ call.kind # "prepare" => Ordered(Stream)
      /\ OneResult => NoMore(Stream)
  BY <1>1 DEF Inv, AnswerInv, StreamOK, Expects
<1>4. ASSUME Tail(Stream) # <<>>
      PROVE  /\ call.kind # "prepare" => Follows(NextPacket, Second)
             /\ call.kind = "prepare" => Second.kind = "columns" /\ DefinitionsLeft(Stream) >= 2
             /\ OneResult /\ NextPacket.kind = "ok" => ~NextPacket.more
  <2>1. Stream \in Seq(AnyPacket) /\ Len(Stream) \in Nat
    BY <1>1, StreamType
  <2>2. Len(Stream) >= 2 /\ 2 \in 1 .. Len(Stream)
    BY <1>1, <1>4, <2>1, TailFacts
  <2>3. 1 \in 1 .. Len(Stream) /\ 1 + 1 \in 1 .. Len(Stream) /\ 2 \in 2 .. Len(Stream)
    BY <2>1, <2>2
  <2>4. call.kind # "prepare" => Follows(NextPacket, Second)
    BY <1>1, <1>3, <2>3 DEF Ordered, Second
  <2>5. DefinitionsLeft(Stream) \in Nat
    BY DEF DefinitionsLeft
  <2>6. call.kind = "prepare" => Second.kind = "columns" /\ DefinitionsLeft(Stream) >= 2
    BY <1>3, <2>1, <2>2, <2>3, <2>5 DEF Defining, Second
  <2>7. OneResult /\ NextPacket.kind = "ok" => ~NextPacket.more
    BY <1>1, <1>3, <2>3 DEF NoMore
  <2> QED  BY <2>4, <2>6, <2>7
<1> QED  BY <1>2, <1>4

LEMMA PacketTaken ==
    ASSUME Inv, Goes, pc \in Reading, ~Excused', Readable, wire' \in Filled,
           conn'.seq = conn.seq + 1,
           NextPacket.kind = "ok" => session'.auth,
           NextPacket.kind = "infile" => pc' \in Uploading,
           Stream' # <<>> => /\ Second.kind \in Expected'
                             /\ OneResult' => OneResult
                             /\ call.kind = "prepare" => DefinitionsLeft(Stream)' = DefinitionsLeft(Stream) - 1
    PROVE  StreamOK'
<1>1. ~Excused /\ WireType /\ conn.seq \in Nat /\ Stream # <<>> /\ NextPacket = Stream[1]
  BY OnReading
<1>2. Stream' = Tail(Stream) /\ wire'.out = wire.out /\ wire'.net = wire.net
  BY NextRead
<1>3. Uploads => Uploads'
  <2>1. pc \notin Uploading
    BY DEF Reading, Uploading
  <2> QED  BY <1>1, <2>1 DEF Uploads
<1> QED  BY <1>1, <1>2, <1>3, PacketRead DEF Inv, AnswerInv, Goes, Second

\* An OK is read by a client that the server has accepted, except in Connect.
LEMMA ReadAuth ==
    ASSUME Inv, pc \in Reading \ Greeted
    PROVE  session.auth
<1>1. CASE call.kind = "connect"
  <2>1. pc \in SettingUp
    BY <1>1, ConnectPlaces DEF Inv, Reading
  <2> QED  BY <1>1, <2>1, ConnectPlaces DEF Inv
<1>2. CASE call.kind # "connect"
  BY <1>2 DEF Inv, AnswerInv, ConnectFirst
<1> QED  BY <1>1, <1>2

LEMMA CountedSeq ==
    ASSUME WatchInv, NEW b
    PROVE  Counted(conn).seq = conn.seq + 1 /\ [Counted(conn) EXCEPT !.more = b].seq = conn.seq + 1
           /\ [Counted(conn) EXCEPT !.more = b].more = b
BY DEF WatchInv, Shapes, ConnShape, Counted

\* No packet follows an error.
LEMMA LastPacket ==
    ASSUME Inv, Goes, pc \in Reading, ~Excused', Readable,
           \/ NextPacket.kind \in {"err", "readOnly", "infile", "greeting", "switch", "moreFull", "moreKey", "key"}
              /\ call.kind # "prepare"
           \/ NextPacket.kind = "err" /\ pc = "prepared"
           \/ NextPacket.kind = "prep0" /\ pc = "prepared"
           \/ pc = "definitions"
           \/ NextPacket.kind = "ok" /\ call.kind # "prepare" /\ (OneResult \/ ~NextPacket.more)
           \/ NextPacket.kind = "eof" /\ call.kind # "prepare" /\ ~NextPacket.more
    PROVE  Tail(Stream) = <<>> /\ (wire' \in Filled => Stream' = <<>>)
<1>1. NextPacket = Stream[1]
  BY OnReading
<1>2. pc = "definitions" => call.kind = "prepare"
  BY DEF Inv, AnswerInv, PlaceInv, ByKindOK, DefiningPlaces
<1>3. pc = "definitions" => DefinitionsLeft(Stream) = 1
  BY DEF DefinitionsLeft
<1>4. NextPacket.kind \in {"err", "prep0"} /\ pc = "prepared" => DefinitionsLeft(Stream) = 1
  BY <1>1 DEF DefinitionsLeft
<1>5. ASSUME call.kind # "prepare", Follows(NextPacket, Second)
      PROVE  /\ NextPacket.kind \notin {"err", "readOnly", "infile", "greeting", "switch", "moreFull",
                                        "moreKey", "key", "prep0"}
             /\ NextPacket.kind \in {"ok", "eof"} => NextPacket.more
  BY <1>5 DEF Follows
<1>6. Tail(Stream) # <<>> =>
         /\ call.kind # "prepare" => Follows(NextPacket, Second)
         /\ call.kind = "prepare" => DefinitionsLeft(Stream) >= 2
         /\ OneResult /\ NextPacket.kind = "ok" => ~NextPacket.more
  BY NextRead
<1>7. Tail(Stream) = <<>>
  BY <1>2, <1>3, <1>4, <1>5, <1>6
<1> QED  BY <1>7, NextRead

LEMMA LastTaken ==
    ASSUME Inv, Goes, pc \in Reading, ~Excused', Readable, wire' \in Filled,
           conn'.seq = conn.seq + 1, NextPacket.kind = "ok" => session'.auth, NextPacket.kind # "infile",
           Stream' = <<>>
    PROVE  StreamOK'
BY PacketTaken

\* Where a packet that is not the last of an answer leaves the client.
LEMMA NotPrepare ==
    ASSUME Inv, pc \in Reading, pc \notin DefiningPlaces
    PROVE  call.kind # "prepare"
BY DEF Inv, AnswerInv, PlaceInv, ByKindOK, Reading

LEMMA ByRowsExpected ==
    ASSUME pc \in RowsPlaces \/ (pc = "idle" /\ rows.open)
    PROVE  Expected = ByRows
BY ExpectsNothing

LEMMA ResultRead ==
    ASSUME Inv, Goes, ~Excused', Readable, wire' \in Filled, pc \in {"header", "infileOK", "rows"},
           NextPacket.kind = "ok" \/ (NextPacket.kind = "eof" /\ pc = "rows"), session'.auth,
           conn'.seq = conn.seq + 1, conn'.more = NextPacket.more, AfterResult(NextPacket.more)
    PROVE  StreamOK'
<1>1. pc \in Reading /\ pc \notin DefiningPlaces
  BY DEF Reading, DefiningPlaces
<1>2. call.kind # "prepare"
  BY <1>1, NotPrepare
<1>3. CASE Stream' = <<>>
  BY <1>1, <1>3, LastTaken
<1>4. CASE Stream' # <<>>
  <2>1. Follows(NextPacket, Second) /\ (OneResult /\ NextPacket.kind = "ok" => ~NextPacket.more)
    BY <1>1, <1>2, <1>4, NextRead
  <2>2. NextPacket.more /\ Second.kind \in Starts
    BY <2>1 DEF Follows
  <2>3. call.kind # "stmtQuery"
    BY <2>1, <2>2 DEF OneResult, Inv, AnswerInv, PlaceInv, ByKindOK
  <2>4. RowsShape
    BY DEF Goes, WatchInv, Shapes
  <2>5. CASE Iterating
    <3>1. GoOn("nextResultSet") /\ rows' = [rows EXCEPT !.mc = TRUE, !.done = TRUE]
      BY <2>3, <2>5 DEF AfterResult
    <3>2. rows'.mc /\ rows'.done /\ rows'.binary = rows.binary
      BY <2>4, <3>1 DEF RowsShape
    <3>3. pc' = "nextResultSet" /\ call' = call
      BY <3>1 DEF GoOn
    <3>4. Expected' = ByRows'
      BY <3>3 DEF Expected, RowsPlaces
    <3>5. ByRows' = Starts
      BY <2>2, <3>2 DEF ByRows, Starts
    <3> QED  BY <1>1, <1>2, <2>2, <3>2, <3>3, <3>4, <3>5, PacketTaken DEF OneResult
  <2>6. CASE ~Iterating
    <3>1. GoOn("header") /\ UNCHANGED rows
      BY <2>2, <2>6 DEF AfterResult
    <3>2. pc' = "header" /\ call' = call
      BY <3>1 DEF GoOn
    <3>3. Second.kind \in Expected'
      BY <2>2, <3>2, ExpectedNext DEF ByPlace
    <3> QED  BY <1>1, <1>2, <3>1, <3>2, <3>3, PacketTaken DEF OneResult
  <2> QED  BY <2>5, <2>6
<1> QED  BY <1>3, <1>4

\* Nothing can be read.
Ends == {"ok", "eof", "running"}
LEMMA FailsToRead ==
    ASSUME Inv, Goes, ~Excused', CommandFails
    PROVE  StreamOK'
<1>1. pc \in Reading /\ (ReadFails \/ OutOfSync)
  BY DEF CommandFails
<1>2. ~Excused /\ WireType /\ (Readable => NextPacket.seq = conn.seq)
  BY <1>1, OnReading
<1>3. ReadFails
  <2>1. OutOfSync => Readable /\ NextPacket.seq # conn.seq
    BY Zenon DEF OutOfSync
  <2> QED  BY <1>1, <1>2, <2>1
<1>4. CASE conn.canceled
  <2>1. Return("ctx") /\ UNCHANGED <<conn, wire>>
    BY <1>3, <1>4 DEF ReadFails
  <2>2. call.kind # "connect" /\ conn'.canceled
    BY <1>2, <1>4, <2>1 DEF Excused
  <2>3. pc' = After("ctx") /\ pc' \in {"idle", "abandon", "finish"} /\ res' = MarkBadConn("ctx")
    BY <2>1, <2>2, Returned DEF Inv
  <2>4. res' \notin Ends /\ pc' \notin Reading \cup Writing
    BY <2>3 DEF MarkBadConn, Ends, Reading, Writing, Uploading
  <2> QED  BY <2>2, <2>4 DEF Excused, Ends
<1>5. CASE ~conn.canceled
  <2>1. conn' = Cleanup(conn) /\ wire' = Quit(conn, wire) /\ Return("invalid") /\ wire.buf = <<>>
    BY <1>3, <1>5 DEF ReadFails
  <2>2. conn'.closed
    BY <2>1 DEF Cleanup, Goes, WatchInv, Shapes, ConnShape
  <2>3. pc' \notin {"abandon", "finish", "idle"}
    BY <2>2 DEF Excused, Reading, Writing, Uploading
  <2>4. CASE conn.closed
    <3>1. wire.net = "closed" /\ wire.in = <<>>
      BY <1>5, <2>4 DEF Inv, CallInv, CutOffOK, AnswerInv, QuietOK
    <3>2. Stream = <<>>
      BY <1>2, <2>1, <3>1, StreamType
    <3>3. Stream' = <<>> /\ wire'.net # "up"
      BY <1>2, <2>1, <2>4, <3>1, <3>2, CutOffStream
    <3> QED  BY <3>3, StreamLost
  <2>5. CASE ~conn.closed
    <3>1. wire'.net = "closed" /\ wire'.in = <<>> /\ wire'.buf = <<>>
      BY <1>2, <2>1, <2>5 DEF Quit, CutOff, WireType
    <3>2. <<>> \o <<>> = <<>>
      OBVIOUS
    <3> QED  BY <3>1, <3>2, StreamLost DEF Stream
  <2> QED  BY <2>4, <2>5
<1> QED  BY <1>4, <1>5

\* An error is the last packet, whatever the client does then.
LEMMA ErrorRead ==
    ASSUME Inv, Goes, ~Excused', ErrorPacket
    PROVE  StreamOK'
<1>1. /\ pc \in {"header", "rows", "row", "pong", "prepared", "infileOK"}
      /\ Readable /\ NextPacket.kind \in {"err", "readOnly"}
  BY DEF ErrorPacket, Expect
<1>2. pc \in Reading
  BY <1>1 DEF Reading
<1>3. WireType /\ NextPacket = Stream[1] /\ NextPacket.kind \in Expected /\ Stream # <<>>
  BY <1>1, <1>2, OnReading
<1>4. PICK w \in Filled :
         \/ wire' = Quit(conn, w) /\ conn' = Cleanup(conn) /\ Return("badConn")
         \/ wire' = w /\ conn' = Counted(conn) /\ Return("err")
  BY DEF ErrorPacket
<1>5. (NextPacket.kind = "readOnly" => pc = "header") /\ (call.kind = "prepare" => pc = "prepared")
  BY <1>1, <1>2, <1>3, NotPrepare DEF Expected, Starts, InRows, RowsPlaces, ByRows, DefiningPlaces
<1>6. CASE wire' = w /\ conn' = Counted(conn)
  <2>1. Stream' = <<>>
    BY <1>1, <1>2, <1>5, <1>6, LastPacket
  <2>2. conn'.seq = conn.seq + 1
    BY <1>6, CountedSeq DEF Goes
  <2> QED  BY <1>1, <1>2, <1>6, <2>1, <2>2, LastTaken
<1>7. CASE wire' = Quit(conn, w) /\ conn' = Cleanup(conn) /\ Return("badConn")
  <2>1. conn'.closed
    BY <1>7 DEF Cleanup, Goes, WatchInv, Shapes, ConnShape
  <2>2. pc' \notin {"abandon", "finish", "idle"}
    BY <2>1 DEF Excused, Reading, Writing, Uploading
  <2>3. call.kind = "connect" /\ pc' = "write"
    BY <1>7, <2>2, Returned DEF Inv
  <2>4. ~conn.canceled
    BY <1>2, <2>3, OnReading DEF Excused
  <2>5. w.buf \o w.in = <<>> /\ w.in \in Seq(AnyPacket) /\ w.buf \in Seq(AnyPacket) /\ w.net = wire.net
    BY <1>1, <1>2, <1>3, <1>5, LastPacket, StreamTaken
  <2>6. w.buf = <<>> /\ w.in = <<>> /\ WireShape(w)
    <3>1. Incoming(w)
      BY <1>1, <1>3, FilledIncoming
    <3> QED  BY <2>5, <3>1, ConcatEqualIffEmpty DEF Incoming
  <2>7. wire'.buf = <<>> /\ wire'.in = <<>> /\ wire'.net # "up"
    <3>1. conn.closed => wire.net = "closed"
      BY <2>4 DEF Inv, CallInv, CutOffOK, AnswerInv, QuietOK
    <3> QED  BY <1>7, <2>5, <2>6, <3>1 DEF Quit, CutOff, WireShape
  <2>8. <<>> \o <<>> = <<>>
    OBVIOUS
  <2> QED  BY <2>7, <2>8, StreamLost DEF Stream
<1> QED  BY <1>4, <1>6, <1>7

ReadingOn == OkPacket \/ Pong \/ Header \/ Columns \/ SkipRow \/ RowsEnd \/ Prepared \/ Definitions
             \/ Row \/ Variable \/ InfileRequest \/ InfileSkip

LEMMA OneResultStays ==
    ASSUME call'.kind = call.kind, rows'.binary = rows.binary, pc' # "infileSkip"
    PROVE  OneResult' => OneResult
BY DEF OneResult

LEMMA ReadingOnOK ==
    ASSUME Inv, Goes, ~Excused', ReadingOn
    PROVE  StreamOK'
<1>a. WatchInv /\ RowsShape /\ PlaceInv /\ call'.kind = call.kind
  BY DEF Goes, WatchInv, Shapes, Inv, AnswerInv
<1>b. ASSUME pc \in Reading, Readable, wire' \in Filled, conn'.seq = conn.seq + 1,
             NextPacket.kind = "ok" => session'.auth, NextPacket.kind # "infile",
             rows'.binary = rows.binary, pc' # "infileSkip", call.kind # "prepare",
             Tail(Stream) # <<>> => (Follows(NextPacket, Second) => Second.kind \in Expected')
      PROVE  StreamOK'
  <2>1. OneResult' => OneResult
    BY <1>a, <1>b, OneResultStays
  <2>2. Stream' = Tail(Stream) /\ (Tail(Stream) # <<>> => Follows(NextPacket, Second))
    BY <1>b, NextRead
  <2> QED  BY <1>b, <2>1, <2>2, PacketTaken
<1>c. ASSUME pc \in Reading \ Greeted
      PROVE  session'.auth
  BY <1>c, ReadAuth DEF Goes
<1>1. CASE OkPacket \/ RowsEnd
  <2>1. /\ pc \in {"header", "infileOK", "rows"} /\ Readable /\ wire' \in Filled
        /\ NextPacket.kind = "ok" \/ (NextPacket.kind = "eof" /\ pc = "rows")
        /\ conn' = [Counted(conn) EXCEPT !.more = NextPacket.more] /\ AfterResult(NextPacket.more)
    BY <1>1 DEF OkPacket, RowsEnd, Receive, Expect
  <2>2. pc \in Reading \ Greeted
    BY <2>1 DEF Reading, Greeted
  <2> QED  BY <1>a, <1>c, <2>1, <2>2, CountedSeq, ResultRead
<1>2. CASE Pong
  <2>1. /\ pc = "pong" /\ Readable /\ wire' \in Filled /\ NextPacket.kind = "ok" /\ UNCHANGED rows
        /\ conn' = [Counted(conn) EXCEPT !.more = NextPacket.more]
    BY <1>2 DEF Pong, Receive, Expect
  <2>2. pc \in Reading \ Greeted /\ call.kind # "prepare" /\ OneResult
    BY <1>a, <2>1 DEF Reading, Greeted, PlaceInv, ByKindOK, DefiningPlaces, OneResult
  <2>3. Stream' = <<>>
    BY <2>1, <2>2, LastPacket
  <2> QED  BY <1>a, <1>c, <2>1, <2>2, <2>3, CountedSeq, LastTaken
<1>3. CASE Header
  <2>1. /\ pc = "header" /\ Readable /\ wire' \in Filled /\ NextPacket.kind = "header"
        /\ conn' = Counted(conn) /\ GoOn("columns") /\ UNCHANGED rows
    BY <1>3 DEF Header, Receive, Expect
  <2>2. pc \in Reading /\ call.kind # "prepare" /\ conn'.seq = conn.seq + 1
    BY <1>a, <2>1, CountedSeq DEF Reading, PlaceInv, ByKindOK, DefiningPlaces
  <2>3. Expected' = {"columns"} /\ pc' = "columns"
    BY <2>1, ExpectedNext DEF GoOn, ByPlace
  <2>4. Follows(NextPacket, Second) => Second.kind = "columns"
    BY <2>1 DEF Follows
  <2> QED  BY <1>b, <2>1, <2>2, <2>3, <2>4
<1>4. CASE Columns
  <2>1. /\ pc = "columns" /\ Readable /\ wire' \in Filled /\ NextPacket.kind = "columns"
        /\ conn' = Counted(conn) \/ conn' = [Counted(conn) EXCEPT !.more = NextPacket.more]
    BY <1>4 DEF Columns, Receive, Expect
  <2>2. pc \in Reading /\ call.kind # "prepare" /\ conn'.seq = conn.seq + 1
    BY <1>a, <2>1, CountedSeq DEF Reading, PlaceInv, ByKindOK, DefiningPlaces
  <2>3. Follows(NextPacket, Second) => Second.kind \in InRows
    BY <2>1 DEF Follows, InRows
  <2>4. CASE Iterating
    <3>1. /\ Return("ok")
          /\ rows' = [open |-> TRUE, mc |-> TRUE, done |-> FALSE,
                      binary |-> rows.binary \/ call.kind = "stmtQuery"]
      BY <1>4, <2>4 DEF Columns
    <3>2. pc' = "idle"
      BY <2>4, <3>1 DEF Return, After, Iterating, QueryKinds
    <3>3. Expected' = InRows
      <4>1. Expected' = ByRows'
        BY <3>1, <3>2, ExpectedNext DEF ByPlace
      <4> QED  BY <3>1, <4>1 DEF ByRows
    <3>4. OneResult' => OneResult
      BY <1>a, <3>1, <3>2 DEF OneResult
    <3>5. Stream' = Tail(Stream) /\ (Tail(Stream) # <<>> => Follows(NextPacket, Second))
      BY <2>1, <2>2, NextRead
    <3> QED  BY <2>1, <2>2, <2>3, <3>3, <3>4, <3>5, PacketTaken
  <2>5. CASE ~Iterating
    <3>1. UNCHANGED rows /\ (GoOn("variable") \/ GoOn("rows"))
      BY <1>4, <2>5 DEF Columns
    <3>2. pc' \in {"variable", "rows"}
      BY <3>1 DEF GoOn
    <3>3. Expected' = InRows /\ pc' # "infileSkip"
      BY <3>2, ExpectedNext DEF ByPlace
    <3> QED  BY <1>b, <2>1, <2>2, <2>3, <3>1, <3>3
  <2> QED  BY <2>4, <2>5
<1>5. CASE SkipRow \/ Variable
  <2>1. /\ pc \in {"rows", "variable"} /\ Readable /\ wire' \in Filled /\ NextPacket.kind = "row"
        /\ conn' = Counted(conn) /\ pc' = "rows" /\ UNCHANGED rows
    BY <1>5 DEF SkipRow, Variable, Receive, Expect, GoOn, clientVars
  <2>2. pc \in Reading /\ call.kind # "prepare" /\ conn'.seq = conn.seq + 1
    BY <1>a, <2>1, CountedSeq DEF Reading, PlaceInv, ByKindOK, DefiningPlaces
  <2>3. Expected' = InRows
    BY <2>1, ExpectedNext DEF ByPlace
  <2>4. Follows(NextPacket, Second) => Second.kind \in InRows
    BY <2>1 DEF Follows, InRows
  <2> QED  BY <1>b, <2>1, <2>2, <2>3, <2>4
<1>6. CASE Prepared
  <2>1. /\ pc = "prepared" /\ Readable /\ wire' \in Filled /\ conn' = Counted(conn) /\ UNCHANGED rows
        /\ \/ NextPacket.kind = "prep0"
           \/ NextPacket.kind = "prep1" /\ GoOn("definitions")
           \/ NextPacket.kind = "prep2" /\ GoOn("moreDefinitions")
    BY <1>6 DEF Prepared, Receive, Expect
  <2>2. pc \in Reading /\ conn'.seq = conn.seq + 1 /\ call.kind = "prepare"
    BY <1>a, <2>1, CountedSeq DEF Reading, PlaceInv, ByKindOK, DefiningPlaces
  <2>3. NextPacket = Stream[1]
    BY <2>1, <2>2, OnReading
  <2>4. CASE NextPacket.kind = "prep0"
    <3>1. Stream' = <<>>
      BY <2>1, <2>2, <2>4, LastPacket
    <3> QED  BY <2>1, <2>2, <2>4, <3>1, LastTaken
  <2>5. CASE NextPacket.kind # "prep0"
    <3>1. /\ pc' \in {"definitions", "moreDefinitions"}
          /\ NextPacket.kind = "prep1" => pc' = "definitions"
          /\ NextPacket.kind = "prep2" => pc' = "moreDefinitions"
          /\ NextPacket.kind \in {"prep1", "prep2"}
      BY <2>1, <2>5 DEF GoOn
    <3>2. Expected' = {"columns"}
      BY <3>1, ExpectedNext DEF ByPlace
    <3>3. DefinitionsLeft(Stream)' = DefinitionsLeft(Stream) - 1
      BY <2>1, <2>3, <3>1 DEF DefinitionsLeft
    <3>4. OneResult' => OneResult
      BY <1>a, <2>1, <3>1, OneResultStays
    <3>5. Stream' # <<>> => Second.kind = "columns"
      BY <2>1, <2>2, NextRead
    <3> QED  BY <2>1, <2>2, <2>5, <3>1, <3>2, <3>3, <3>4, <3>5, PacketTaken
  <2> QED  BY <2>4, <2>5
<1>7. CASE Definitions
  <2>1. /\ pc \in {"definitions", "moreDefinitions"} /\ Readable /\ wire' \in Filled
        /\ NextPacket.kind = "columns" /\ UNCHANGED rows
        /\ conn' = [Counted(conn) EXCEPT !.more = NextPacket.more]
        /\ pc # "definitions" => GoOn("definitions")
    BY <1>7 DEF Definitions, Receive, Expect
  <2>2. pc \in Reading /\ conn'.seq = conn.seq + 1 /\ call.kind = "prepare"
    BY <1>a, <2>1, CountedSeq DEF Reading, PlaceInv, ByKindOK, DefiningPlaces
  <2>3. CASE pc = "definitions"
    <3>1. Stream' = <<>>
      BY <2>1, <2>2, <2>3, LastPacket
    <3> QED  BY <2>1, <2>2, <3>1, LastTaken
  <2>4. CASE pc # "definitions"
    <3>1. pc' = "definitions" /\ pc = "moreDefinitions"
      BY <2>1, <2>4 DEF GoOn
    <3>2. Expected' = {"columns"}
      BY <3>1, ExpectedNext DEF ByPlace
    <3>3. DefinitionsLeft(Stream)' = DefinitionsLeft(Stream) - 1
      BY <3>1 DEF DefinitionsLeft
    <3>4. OneResult' => OneResult
      BY <1>a, <2>1, <3>1, OneResultStays
    <3>5. Stream' # <<>> => Second.kind = "columns"
      BY <2>1, <2>2, NextRead
    <3> QED  BY <2>1, <2>2, <3>1, <3>2, <3>3, <3>4, <3>5, PacketTaken
  <2> QED  BY <2>3, <2>4
<1>8. CASE Row
  <2>1. /\ pc = "row" /\ Readable /\ wire' \in Filled /\ NextPacket.kind \in {"row", "eof", "ok"}
    BY <1>8 DEF Row, Receive, Expect
  <2>2. /\ pc \in Reading /\ pc \in Reading \ Greeted /\ call.kind = "next"
        /\ rows.mc /\ (rows.done => rows.binary) /\ rows.open
    BY <1>a, <2>1 DEF Reading, Greeted, PlaceInv, ByKindOK, WatchInv, PlacesOK
  <2>3. NextPacket.kind \in ByRows
    <3>1. Expected = ByRows
      BY <2>1, ExpectedAt DEF ByPlace, RowsPlaces
    <3> QED  BY <2>1, <2>2, <3>1, OnReading
  <2>4. NextPacket.kind = "ok" => rows.done /\ rows.binary
    BY <2>2, <2>3 DEF ByRows, InRows
  <2>5. NextPacket.kind = "row" => ~rows.done
    BY <2>3 DEF ByRows, Starts
  <2>6. CASE NextPacket.kind = "ok"
    <3>1. conn' = Counted(conn)
      BY <1>8, <2>4, <2>6 DEF Row
    <3>2. Stream' = <<>>
      BY <2>1, <2>2, <2>4, <2>6, LastPacket DEF OneResult
    <3> QED  BY <1>a, <1>c, <2>1, <2>2, <2>6, <3>1, <3>2, CountedSeq, LastTaken
  <2>7. CASE NextPacket.kind = "row"
    <3>1. conn' = Counted(conn) /\ Return("ok") /\ UNCHANGED rows
      BY <1>8, <2>7 DEF Row
    <3>2. pc' = "idle"
      BY <2>2, <3>1 DEF Return, After
    <3>3. Expected' = InRows
      <4>1. Expected' = ByRows'
        BY <2>2, <3>1, <3>2, ExpectedNext DEF ByPlace
      <4> QED  BY <2>2, <2>5, <2>7, <3>1, <4>1 DEF ByRows
    <3>4. Follows(NextPacket, Second) => Second.kind \in InRows
      BY <2>7 DEF Follows, InRows
    <3> QED  BY <1>a, <1>b, <2>1, <2>2, <2>7, <3>1, <3>2, <3>3, <3>4, CountedSeq
  <2>8. CASE NextPacket.kind = "eof"
    <3>1. /\ conn' = [Counted(conn) EXCEPT !.more = NextPacket.more]
          /\ rows' = [rows EXCEPT !.done = TRUE, !.mc = NextPacket.more] /\ Return("eof")
      BY <1>8, <2>8 DEF Row
    <3>2. /\ rows'.open /\ rows'.done /\ rows'.mc = NextPacket.more /\ rows'.binary = rows.binary
      BY <1>a, <2>2, <3>1 DEF RowsShape
    <3>3. pc' = "idle"
      BY <2>2, <3>1, Returned DEF Inv, After
    <3>4. conn'.more = NextPacket.more /\ conn'.seq = conn.seq + 1
      BY <1>a, <3>1, CountedSeq
    <3>5. NextPacket.more => Expected' = Starts
      <4>1. Expected' = ByRows'
        BY <3>2, <3>3, ExpectedNext DEF ByPlace
      <4> QED  BY <3>2, <3>4, <4>1 DEF ByRows
    <3>6. Follows(NextPacket, Second) => NextPacket.more /\ Second.kind \in Starts
      BY <2>8 DEF Follows
    <3> QED  BY <1>b, <2>1, <2>2, <2>8, <3>2, <3>3, <3>4, <3>5, <3>6
  <2> QED  BY <2>1, <2>6, <2>7, <2>8
<1>9. CASE InfileRequest
  <2>1. /\ pc = "header" /\ Readable /\ wire' \in Filled /\ NextPacket.kind = "infile"
        /\ conn' = Counted(conn) /\ UNCHANGED rows
        /\ \E next \in {"infileData", "infileEnd", "infileAbort"} : GoOn(next)
    BY <1>9 DEF InfileRequest, Receive, Expect
  <2>2. pc \in Reading /\ call.kind # "prepare"
    BY <1>a, <2>1 DEF Reading, PlaceInv, ByKindOK, DefiningPlaces
  <2>3. pc' \in Uploading
    BY <2>1 DEF GoOn, Uploading
  <2>4. Stream' = <<>>
    BY <2>1, <2>2, LastPacket
  <2> QED  BY <1>a, <2>1, <2>2, <2>3, <2>4, CountedSeq, PacketTaken
<1>10. CASE InfileSkip
  <2>1. /\ pc = "infileSkip" /\ Readable /\ wire' \in Filled /\ NextPacket.kind \in {"ok", "err"}
        /\ conn' = Counted(conn)
    BY <1>10 DEF InfileSkip, Receive, Expect
  <2>2. pc \in Reading /\ pc \in Reading \ Greeted /\ call.kind # "prepare" /\ OneResult
    BY <1>a, <2>1 DEF Reading, Greeted, PlaceInv, ByKindOK, DefiningPlaces, OneResult
  <2>3. Stream' = <<>>
    BY <2>1, <2>2, LastPacket
  <2> QED  BY <1>a, <1>c, <2>1, <2>2, <2>3, CountedSeq, LastTaken
<1> QED  BY <1>1, <1>2, <1>3, <1>4, <1>5, <1>6, <1>7, <1>8, <1>9, <1>10 DEF ReadingOn

\* The packets of the connection phase.
LEMMA GreetedOK ==
    ASSUME Inv, Goes, ~Excused', Greeting \/ AuthResult \/ Key \/ AuthOK
    PROVE  StreamOK'
<1>1. /\ pc \in {"greeting", "authResult", "authSwitched", "key", "authOK"} /\ Readable /\ wire' \in Filled
      /\ conn' = Counted(conn) \/ conn' = [Counted(conn) EXCEPT !.more = FALSE]
      /\ NextPacket.kind = "ok" => Authenticated
      /\ NextPacket.kind = "moreFast" => GoOn("authOK")
      /\ NextPacket.kind \in {"greeting", "ok", "err", "switch", "moreFast", "moreFull", "moreKey", "key"}
      /\ UNCHANGED rows
  <2>1. CASE Greeting
    BY <2>1 DEF Greeting, Receive, Expect
  <2>2. CASE AuthResult
    BY <2>2 DEF AuthResult, Receive, Expect
  <2>3. CASE Key
    BY <2>3 DEF Key, Receive, Expect
  <2>4. CASE AuthOK
    BY <2>4 DEF AuthOK, Receive, Expect
  <2> QED  BY <2>1, <2>2, <2>3, <2>4
<1>2. pc \in Reading /\ conn'.seq = conn.seq + 1
  BY <1>1, CountedSeq DEF Reading, Goes
<1>3. call.kind = "connect"
  BY <1>1 DEF Inv, AnswerInv, ConnectFirst, Greeted
<1>4. Authenticated => session'.auth
  BY DEF Authenticated, Goes, EnvTypes, SessionType
<1>5. CASE NextPacket.kind # "moreFast"
  <2>1. Stream' = <<>>
    BY <1>1, <1>2, <1>3, <1>5, LastPacket DEF OneResult
  <2> QED  BY <1>1, <1>2, <1>4, <2>1, LastTaken
<1>6. CASE NextPacket.kind = "moreFast"
  <2>1. pc' = "authOK" /\ call' = call
    BY <1>1, <1>6 DEF GoOn
  <2>2. Expected' = Greetings
    BY <2>1, ExpectedNext DEF ByPlace
  <2>3. Stream' # <<>> => Follows(NextPacket, Second)
    BY <1>1, <1>2, <1>3, NextRead
  <2>4. Follows(NextPacket, Second) => Second.kind \in Greetings
    BY <1>6 DEF Follows, Greetings
  <2>5. OneResult
    BY <1>3 DEF OneResult
  <2> QED  BY <1>1, <1>2, <1>3, <1>6, <2>2, <2>3, <2>4, <2>5, PacketTaken
<1> QED  BY <1>5, <1>6

-----------------------------------------------------------------------------
(* Writing *)

LEMMA QuietNow ==
    ASSUME Inv, Goes, pc \in Writing \ {"tlsHandshake"}, ~Excused'
    PROVE  ~Excused /\ Quiet /\ WireType /\ Stream = <<>> /\ wire.buf = <<>>
<1>1. pc \notin {"idle", "gone", "abandon", "finish", "closeFinish"} /\ pc \in Reading \cup Writing
  BY DEF Writing, Uploading
<1>2. ~Excused
  BY <1>1, ExcusedStays DEF Inv, AnswerInv, PlaceInv
<1>3. Expected = {} /\ Wanted = "none"
  BY ExpectsNothing
<1>4. WireType
  BY DEF Goes, EnvTypes
<1>5. Quiet
  BY <1>2, <1>3, <1>4, QuietAt DEF Inv, AnswerInv
<1> QED  BY <1>2, <1>4, <1>5, StreamType DEF Quiet

LEMMA QuietStays ==
    ASSUME Quiet, UNCHANGED <<wire, srv>>, session.auth => session'.auth,
           pc \notin Uploading \cup {"infileOK", "infileSkip", "greeting"},
           ~(call.kind = "connect" /\ pc = "watch")
    PROVE  StreamOK'
<1>1. Stream = <<>> /\ Stream' = <<>> /\ ~Uploads
  BY DEF Quiet, Stream, Uploads
<1>2. ASSUME wire'.net = "up"
      PROVE  OutOK'
  BY <1>2, SilentOK DEF Quiet, AllSilent
<1> QED  BY <1>1, <1>2, QuietStep

\* Whatever happens to a packet that is written, nothing to read appears.
LEMMA StillNothing ==
    ASSUME WireType, Stream = <<>>, NEW c, NEW m, NEW next, WritePacket(c, m, next)
    PROVE  Stream' = <<>>
<1>1. wire.buf = <<>> /\ wire.in = <<>>
  BY StreamType
<1>2. wire' = Quit(c, wire) \/ wire' = CutOff(c, wire) => Stream' = <<>>
  BY CutOffStream
<1>3. CASE WriteSucceeds(c, m, next)
  <2>1. wire'.buf = wire.buf /\ wire'.in = wire.in
    BY <1>3 DEF WriteSucceeds, WireType
  <2> QED  BY <2>1 DEF Stream
<1>4. CASE UNCHANGED wire
  BY <1>4 DEF Stream
<1> QED  BY <1>2, <1>3, <1>4 DEF WritePacket, CheckFails, NothingWritten, PartlyWritten

LEMMA WritingOK ==
    ASSUME Inv, Goes, ~Excused', pc = "write", WriteQuery \/ WriteUnanswered \/ ArgumentError
    PROVE  StreamOK'
<1> DEFINE kind == Head(call.todo)
           next == AfterCommand(kind)
<1>1. Quiet /\ StreamOK /\ CallInv /\ (session.auth => session'.auth) /\ UNCHANGED srv
  BY QuietNow DEF Inv, AnswerInv, Writing, Goes
<1>2. CASE UNCHANGED wire
  BY <1>1, <1>2, QuietStays DEF Uploading
<1>3. (kind \in CommandKinds /\ call.kind # "connect") \/ kind \in Setup \/ kind = "argError"
  <2>1. call.kind = "connect" => kind \in Setup
    <3>1. call.kind = "connect" => call.todo \in Seq(Setup) /\ call.todo # <<>>
      BY <1>1, ConnectPlaces DEF SettingUp
    <3> QED  BY <3>1, SetupFacts
  <2>2. call.kind # "connect" => kind \in CommandKinds \cup {"argError"}
    BY TodosFacts DEF Goes, CallType
  <2> QED  BY <2>1, <2>2
<1>4. CASE WriteQuery /\ WriteCommand(kind, next)
  <2>1. kind # "argError"
    BY <1>4 DEF WriteQuery
  <2>2. GoOn(next) => kind = Wanted'
    <3>1. next \in {"pong", "prepared", "header"}
      BY DEF AfterCommand
    <3>2. GoOn(next) => pc' \in {"pong", "prepared", "header"} /\ call' = call
      BY <3>1 DEF GoOn
    <3> QED  BY <3>2 DEF Wanted
  <2> HIDE DEF kind, next
  <2> QED  BY <1>1, <1>3, <1>4, <2>1, <2>2, CommandWritten
<1>5. CASE WriteUnanswered
  <2>1. kind \in {"longData", "stmtClose"} /\ WriteCommand(kind, "unanswered")
    BY <1>5 DEF WriteUnanswered
  <2>2. kind \in Silent /\ kind # "argError"
    BY <2>1 DEF Silent
  <2> HIDE DEF kind
  <2> QED  BY <1>1, <1>3, <2>1, <2>2, CommandWritten
<1> QED  BY <1>2, <1>4, <1>5 DEF WriteQuery, ArgumentError

LEMMA UploadingOK ==
    ASSUME Inv, Goes, ~Excused', InfileData \/ InfileEnd \/ StartTls \/ Respond \/ AuthAnswer
    PROVE  StreamOK'
<1>1. /\ pc \in {"infileData", "infileEnd", "infileAbort", "tls", "respond", "switchAnswer", "fullAnswer"}
  BY DEF InfileData, InfileEnd, StartTls, Respond, AuthAnswer
<1>2. pc \in Writing \ {"tlsHandshake"} /\ pc \in Writing
  BY <1>1 DEF Writing, Uploading
<1>3. Quiet /\ StreamOK /\ CallInv /\ WireType /\ Stream = <<>> /\ wire.buf = <<>>
  BY <1>2, QuietNow DEF Inv, AnswerInv
<1>4. ~BusyBuffer
  BY <1>3, Zenon DEF BusyBuffer
<1>5. \A next : GoOn(next) => pc' = next
  BY DEF GoOn
<1>6. CASE InfileData
  <2>1. PICK next \in {"infileEnd", "infileAbort"} : WritePacket(conn, Upload("data"), next)
    BY <1>6 DEF InfileData
  <2>2. "data" \in SetupKinds /\ "data" \in Silent
    BY DEF SetupKinds, Silent
  <2>3. GoOn(next) => Uploads'
    BY <1>5 DEF Uploads, Uploading
  <2> QED  BY <1>2, <1>3, <2>1, <2>2, <2>3, UploadWritten
<1>7. CASE InfileEnd
  <2> DEFINE next == IF pc = "infileEnd" THEN "infileOK" ELSE "infileSkip"
  <2>1. WritePacket(conn, Upload("empty"), next)
    BY <1>7 DEF InfileEnd
  <2>2. Stream' = <<>>
    BY <1>3, <2>1, StillNothing
  <2>3. "empty" \in SetupKinds
    BY DEF SetupKinds
  <2>4. GoOn(next) => pc' \in {"infileOK", "infileSkip"}
    BY <1>5
  <2>5. GoOn(next) => Uploads' /\ "empty" = Wanted'
    BY <2>2, <2>4 DEF Uploads, Wanted
  <2> HIDE DEF next
  <2> QED  BY <1>2, <1>3, <2>1, <2>3, <2>5, UploadWritten
<1>8. CASE StartTls \/ Respond \/ AuthAnswer
  <2>1. \/ /\ pc = "tls" /\ WritePacket(conn, Upload("sslRequest"), "tlsHandshake")
        \/ /\ pc = "respond" /\ WritePacket(conn, Upload("response"), "authResult")
        \/ /\ pc = "switchAnswer" /\ WritePacket(conn, Upload("authData"), "authSwitched")
        \/ /\ pc = "fullAnswer" /\ WritePacket(conn, Upload("authData"), "authOK")
    <3>1. CASE StartTls
      BY <1>4, <3>1 DEF StartTls
    <3>2. CASE Respond
      BY <1>4, <3>2 DEF Respond
    <3>3. CASE AuthAnswer
      BY <1>4, <3>3 DEF AuthAnswer
    <3> QED  BY <1>8, <3>1, <3>2, <3>3
  <2>2. ~Uploads
    BY <1>3, <2>1 DEF Uploads, Uploading
  <2>3. {"sslRequest", "response", "authData"} \subseteq SetupKinds
    BY DEF SetupKinds
  <2>4. /\ GoOn("tlsHandshake") => "sslRequest" = Wanted'
        /\ GoOn("authResult") => "response" = Wanted'
        /\ GoOn("authSwitched") \/ GoOn("authOK") => "authData" = Wanted'
    BY <1>5 DEF Wanted
  <2>5. CASE pc = "tls" /\ WritePacket(conn, Upload("sslRequest"), "tlsHandshake")
    BY <1>2, <1>3, <2>2, <2>3, <2>4, <2>5, UploadWritten
  <2>6. CASE pc = "respond" /\ WritePacket(conn, Upload("response"), "authResult")
    BY <1>2, <1>3, <2>2, <2>3, <2>4, <2>6, UploadWritten
  <2>7. CASE pc = "switchAnswer" /\ WritePacket(conn, Upload("authData"), "authSwitched")
    BY <1>2, <1>3, <2>2, <2>3, <2>4, <2>7, UploadWritten
  <2>8. CASE pc = "fullAnswer" /\ WritePacket(conn, Upload("authData"), "authOK")
    BY <1>2, <1>3, <2>2, <2>3, <2>4, <2>8, UploadWritten
  <2> QED  BY <2>1, <2>5, <2>6, <2>7, <2>8
<1> QED  BY <1>6, <1>7, <1>8

LEMMA TlsOK ==
    ASSUME Inv, Goes, ~Excused', TlsHandshake
    PROVE  StreamOK'
<1>1. pc = "tlsHandshake" /\ UNCHANGED <<session, conn, srv>>
  BY DEF TlsHandshake, Rest
<1>2. pc \notin {"idle", "gone", "abandon", "finish", "closeFinish"} /\ pc \in Reading \cup Writing
  BY <1>1 DEF Writing
<1>3. ~Excused
  BY <1>2, ExcusedStays DEF Inv, AnswerInv, PlaceInv
<1>4. call.kind = "connect" /\ ~session.auth
  BY <1>1 DEF Inv, AnswerInv, ConnectFirst, Greeted
<1>5. Stream = <<>> /\ (wire.net = "up" => SrvOK)
  <2>1. Expected = {}
    BY <1>1, ExpectsNothing
  <2> QED  BY <1>3, <2>1 DEF Inv, AnswerInv, StreamOK, Expects
<1>6. CASE Return("local")
  <2>1. pc' = "abandon"
    BY <1>4, <1>6, Returned DEF Inv, CharsetLeft
  <2> QED  BY <2>1 DEF Excused
<1>7. CASE wire.net = "up" /\ wire' = [wire EXCEPT !.out = <<>>] /\ GoOn("respond")
  <2>1. wire'.out = <<>> /\ wire'.buf = wire.buf /\ wire'.in = wire.in /\ WireType
    BY <1>7 DEF Goes, EnvTypes, WireType
  <2>2. Stream' = <<>>
    BY <1>5, <2>1 DEF Stream
  <2>3. Len(<<>>) = 0
    OBVIOUS
  <2>4. OutOK' /\ Expects(Stream)'
    BY <2>1, <2>2, <2>3 DEF OutOK, Expects
  <2>5. SrvOK'
    <3>1. SrvOK /\ ~Uploads /\ ~HasOk(Stream)
      BY <1>1, <1>5, <1>7, <2>3 DEF Uploads, Uploading, HasOk
    <3> QED  BY <1>1, <1>4, <3>1 DEF SrvOK
  <2> QED  BY <2>4, <2>5 DEF StreamOK
<1> QED  BY <1>6, <1>7 DEF TlsHandshake

LEMMA AskKeyOK ==
    ASSUME Inv, Goes, ~Excused', AskKey
    PROVE  StreamOK'
<1>1. pc = "askKey" /\ pc' = "key" /\ call' = call /\ UNCHANGED <<session, srv>>
  BY DEF AskKey, GoOn, Rest
<1>2. Quiet /\ StreamOK /\ WireType /\ Stream = <<>> /\ conn.seq \in Nat
  BY <1>1, QuietNow DEF Inv, AnswerInv, Writing, Goes, CallType
<1>3. CASE wire.net # "up" /\ UNCHANGED wire
  BY <1>2, <1>3, StreamLost DEF Stream
<1>4. CASE wire.net # "up" /\ wire' = CutOff(conn, wire)
  <2>1. Stream' = <<>> /\ wire'.net # "up"
    BY <1>2, <1>4, CutOffStream
  <2> QED  BY <2>1, StreamLost
<1>5. CASE /\ conn' = Counted(conn)
           /\ wire' = [wire EXCEPT !.out = IF wire.net = "up" THEN Append(@, Upload("keyRequest")) ELSE @]
  <2> DEFINE m == Message("keyRequest", conn.seq)
  <2>1. m \in AnyMessage /\ m.kind = "keyRequest" /\ m.cmd = call.id /\ m.seq = conn.seq
    <3>1. "keyRequest" \in SetupKinds
      BY DEF SetupKinds
    <3>2. m \in Sent
      BY <1>2, <3>1, SentOK DEF Inv, CallInv
    <3> QED  BY <3>2 DEF Sent, Message
  <2>2. Upload("keyRequest") = m
    BY DEF Upload, Message
  <2>3. /\ wire'.net = wire.net /\ wire'.in = wire.in /\ wire'.buf = wire.buf
        /\ (wire.net = "up" => wire'.out = Append(wire.out, m))
    BY <1>2, <1>5, <2>2 DEF WireType
  <2>4. Stream' = <<>> /\ conn'.seq = conn.seq + 1
    BY <1>2, <1>5, <2>3, CountedSeq DEF Stream, Goes
  <2>5. Wanted' = "keyRequest"
    BY <1>1 DEF Wanted
  <2> HIDE DEF m
  <2>6. wire.net = "up" => OutOK'
    BY <1>1, <1>2, <2>1, <2>3, <2>4, <2>5, OutSent DEF Quiet
  <2>7. ~Uploads /\ ~(call.kind = "connect" /\ pc \in {"watch", "greeting"})
    BY <1>1 DEF Uploads, Uploading
  <2> QED  BY <1>1, <1>2, <2>3, <2>4, <2>6, <2>7, QuietStep
<1> QED  BY <1>3, <1>4, <1>5 DEF AskKey

LEMMA CheckedOK ==
    ASSUME Inv, Goes, ~Excused', CheckClosed \/ Unanswered
    PROVE  StreamOK'
<1>1. /\ pc \in {"check", "unanswered"} /\ UNCHANGED <<session, conn, wire, srv>>
  BY DEF CheckClosed, Unanswered, Rest
<1>2. pc = "check" /\ conn.closed => pc' \notin Reading \cup Writing
  <2> SUFFICES ASSUME pc = "check", conn.closed
               PROVE  pc' \notin Reading \cup Writing
    OBVIOUS
  <2>1. Return("badConn") /\ call.kind # "connect"
    BY PlacesOf DEF CheckClosed, Unanswered, Inv
  <2>2. pc' \in {"idle", "abandon", "finish"}
    BY <2>1, Returned DEF Inv
  <2> QED  BY <2>2 DEF Reading, Writing, Uploading
<1>3. pc \notin {"idle", "gone", "abandon", "finish", "closeFinish"}
      /\ (pc = "unanswered" => pc \in Reading \cup Writing)
  BY <1>1 DEF Writing
<1>4. ~Excused
  BY <1>1, <1>2, <1>3, ExcusedStays DEF Inv, AnswerInv, PlaceInv
<1>5. Expected = {} /\ Wanted = "none"
  BY <1>1, ExpectsNothing DEF Writing
<1>6. Quiet
  BY <1>4, <1>5, QuietAt DEF Inv, AnswerInv, Goes, EnvTypes
<1> QED  BY <1>1, <1>6, QuietStays DEF Uploading

-----------------------------------------------------------------------------
(* Rows *)

\* Between two reads of the Rows nothing changes on the connection.
LEMMA RowsStep ==
    ASSUME Inv, ~Excused' => ~Excused, pc \in RowsPlaces \/ (pc = "idle" /\ rows.open), pc # "row",
           call.kind # "connect", call.kind # "prepare", call'.kind # "prepare",
           call'.id = call.id, conn'.seq = conn.seq, rows'.binary = rows.binary, pc' # "infileSkip",
           call'.kind = call.kind \/ call'.kind \in RowsKinds,
           session.auth => session'.auth, UNCHANGED <<wire, srv>>,
           ~Excused' => ByRows \subseteq Expected'
    PROVE  StreamOK'
<1>1. StreamOK /\ WireType /\ session.auth
  BY DEF Inv, AnswerInv, CallInv, EnvTypes, ConnectFirst
<1>2. Expected = ByRows /\ Wanted = "none" /\ ~Uploads
  BY ExpectsNothing DEF RowsPlaces, Uploads, Uploading
<1>3. OneResult' => OneResult
  BY DEF OneResult, RowsKinds
<1>4. UNCHANGED Stream
  BY DEF Stream
<1>5. ASSUME ~Excused', wire'.net = "up"
      PROVE  OutOK' /\ SrvOK'
  <2>1. OutOK /\ SrvOK
    BY <1>1, <1>5 DEF StreamOK
  <2>2. AllSilent(wire.out)
    BY <1>1, <1>2, <2>1, NotAsked
  <2>3. AllSilent(wire.out)'
    BY <2>2 DEF AllSilent
  <2>4. SrvOK'
    BY <1>1, <1>2, <2>1 DEF SrvOK
  <2> QED  BY <2>3, <2>4, SilentOK
<1>6. CASE Excused'
  BY <1>6 DEF StreamOK
<1>7. CASE ~Excused'
  BY <1>1, <1>2, <1>3, <1>4, <1>5, <1>7, StreamStays
<1> QED  BY <1>6, <1>7

LEMMA IteratingOK ==
    ASSUME Inv, Goes, ~Excused', NextRow \/ NextResultSet \/ CloseRows
    PROVE  StreamOK'
<1>1. pc \in {"nextRow", "nextResultSet", "closeRows"} /\ UNCHANGED <<session, conn, wire, srv>>
  BY DEF NextRow, NextResultSet, CloseRows, Rest
<1>2. call.kind # "connect" /\ call.kind # "prepare"
  BY <1>1, PlacesOf DEF Inv, AnswerInv, PlaceInv, ByKindOK, DefiningPlaces
<1>3. RowsShape /\ WatchInv
  BY DEF Goes, WatchInv, Shapes
<1>4. rows'.binary = rows.binary
  <2>1. UNCHANGED rows \/ rows' = [rows EXCEPT !.open = TRUE, !.mc = FALSE] \/ rows' = [rows EXCEPT !.done = FALSE]
    BY DEF NextRow, NextResultSet, CloseRows
  <2> QED  BY <1>3, <2>1 DEF RowsShape
<1>5. ASSUME NEW e, Return(e)
      PROVE  pc' = After(e) /\ pc' \notin Reading \cup Writing /\ pc' # "infileSkip"
  BY <1>2, <1>5, Returned DEF Inv, Reading, Writing, Uploading
<1>6. \A next : GoOn(next) => pc' = next
  BY DEF GoOn
<1>7. conn.closed => \E e : Return(e)
  BY DEF NextRow, NextResultSet, CloseRows
<1>8. ~conn.closed
  <2>1. conn.closed => pc' \notin Reading \cup Writing
    BY <1>5, <1>7
  <2> QED  BY <1>1, <2>1 DEF Excused
<1>9. ~Excused
  BY <1>1, <1>8, ExcusedStays DEF Inv, AnswerInv, PlaceInv
<1>10. ByRows \subseteq Expected' /\ pc' # "infileSkip"
  <2>1. CASE NextRow
    <3>1. call.kind = "next" /\ rows.open /\ UNCHANGED rows
      BY <1>1, <1>3, <2>1 DEF NextRow, Inv, AnswerInv, PlaceInv, ByKindOK, WatchInv, PlacesOK
    <3>2. Return("eof") \/ GoOn("row")
      BY <1>8, <2>1 DEF NextRow
    <3>3. pc' \in {"idle", "row"}
      BY <1>5, <1>6, <3>1, <3>2 DEF After
    <3>4. Expected' = ByRows'
      BY <3>1, <3>3, ExpectedNext DEF ByPlace, RowsPlaces
    <3> QED  BY <1>1, <3>1, <3>3, <3>4 DEF ByRows
  <2>2. CASE NextResultSet
    <3>1. CASE ~rows.mc \/ (rows.done /\ ~conn.more)
      <4>1. Return(IF call.kind = "query" THEN "ok" ELSE "eof")
        BY <1>8, <2>2, <3>1 DEF NextResultSet
      <4> QED  BY <1>5, <3>1, <4>1 DEF ByRows
    <3>2. CASE rows.mc /\ rows.done /\ conn.more
      <4>1. pc' = "header"
        BY <1>6, <1>8, <2>2, <3>2 DEF NextResultSet
      <4> QED  BY <3>2, <4>1, ExpectedNext DEF ByPlace, ByRows
    <3>3. CASE rows.mc /\ ~rows.done
      <4>1. pc' = "rows"
        BY <1>6, <1>8, <2>2, <3>3 DEF NextResultSet
      <4> QED  BY <3>3, <4>1, ExpectedNext DEF ByPlace, ByRows
    <3> QED  BY <3>1, <3>2, <3>3
  <2>3. CASE CloseRows
    <3>1. CASE ~rows.mc \/ (rows.done /\ ~conn.more)
      <4>1. Return("ok")
        BY <1>8, <2>3, <3>1 DEF CloseRows
      <4> QED  BY <1>5, <3>1, <4>1 DEF ByRows
    <3>2. CASE rows.mc /\ rows.done /\ conn.more
      <4>1. pc' = "header"
        BY <1>6, <1>8, <2>3, <3>2 DEF CloseRows
      <4> QED  BY <3>2, <4>1, ExpectedNext DEF ByPlace, ByRows
    <3>3. CASE rows.mc /\ ~rows.done
      <4>1. pc' = "rows"
        BY <1>6, <1>8, <2>3, <3>3 DEF CloseRows
      <4> QED  BY <3>3, <4>1, ExpectedNext DEF ByPlace, ByRows
    <3> QED  BY <3>1, <3>2, <3>3
  <2> QED  BY <2>1, <2>2, <2>3
<1>11. pc \in RowsPlaces /\ pc # "row"
  BY <1>1 DEF RowsPlaces
<1> QED  BY <1>1, <1>2, <1>4, <1>9, <1>10, <1>11, RowsStep DEF Goes

\* The steps of the calls that leave the watch alone.
LEMMA ClientStream ==
    ASSUME Inv, Goes, ClientSteps
    PROVE  StreamOK'
<1>1. CASE Excused'
  BY <1>1 DEF StreamOK
<1>2. CASE ~Excused'
  <2>1. ~Abandon
    <3>1. Abandon => conn'.closed /\ pc' = "finish"
      BY DEF Abandon, GoOn, Cleanup, Goes, WatchInv, Shapes, ConnShape
    <3> QED  BY <1>2, <3>1 DEF Excused, Reading, Writing, Uploading
  <2>2. \/ ReadingOn \/ ErrorPacket \/ CommandFails
        \/ Greeting \/ AuthResult \/ Key \/ AuthOK
        \/ WriteQuery \/ WriteUnanswered \/ ArgumentError
        \/ InfileData \/ InfileEnd \/ StartTls \/ Respond \/ AuthAnswer
        \/ TlsHandshake \/ AskKey \/ CheckClosed \/ Unanswered
        \/ NextRow \/ NextResultSet \/ CloseRows
    BY <2>1 DEF ClientSteps, SendingSteps, ReadingSteps, IteratingSteps, HandshakeSteps, ReadingOn
  <2>3. WriteQuery \/ WriteUnanswered \/ ArgumentError => pc = "write"
    BY DEF WriteQuery, WriteUnanswered, ArgumentError
  <2> QED  BY <1>2, <2>2, <2>3, ReadingOnOK, ErrorRead, FailsToRead, GreetedOK, WritingOK, UploadingOK, TlsOK,
              AskKeyOK, CheckedOK, IteratingOK
<1> QED  BY <1>1, <1>2

-----------------------------------------------------------------------------
(* Between the calls, and where a watch starts or ends *)

LEMMA RowsCallOK ==
    ASSUME Inv, StartRowsCall
    PROVE  StreamOK'
<1>1. /\ pc = "idle" /\ rows.open /\ UNCHANGED <<res, session, conn, wire, srv>>
      /\ pc' \in {"nextRow", "nextResultSet", "closeFinish"}
  BY DEF StartRowsCall, Rest
<1>2. call'.id = call.id /\ call'.kind \in RowsKinds
  BY DEF StartRowsCall, RowsKinds, Inv, CallInv, WatchInv, Shapes, CallShape
<1>3. rows'.binary = rows.binary /\ rows'.mc = rows.mc /\ rows'.done = rows.done
  BY DEF StartRowsCall, Inv, CallInv, WatchInv, Shapes, RowsShape
<1>4. call.kind # "connect" /\ call.kind # "prepare" /\ call'.kind # "connect" /\ call'.kind # "prepare"
  BY <1>1, <1>2 DEF Inv, CallInv, CallType, Iterating, QueryKinds, RowsKinds
<1>5. ~Excused' => ~Excused
  BY <1>1, <1>4 DEF Excused, Reading, Writing, Uploading
<1>6. Expected' = ByRows' /\ ByRows' = ByRows
  BY <1>1, <1>3, ExpectedNext DEF ByPlace, RowsPlaces, ByRows
<1> QED  BY <1>1, <1>2, <1>3, <1>4, <1>5, <1>6, RowsStep

\* finish leaves what is written and read alone.
LEMMA WatchFinished ==
    ASSUME WatchInv, FinishWatch
    PROVE  conn'.closed = conn.closed /\ conn'.canceled = conn.canceled /\ conn'.seq = conn.seq
           /\ conn'.more = conn.more
BY DEF WatchInv, Shapes, ConnShape, FinishWatch

LEMMA CloseFinishOK ==
    ASSUME Inv, CloseFinish
    PROVE  StreamOK'
<1>1. /\ pc = "closeFinish" /\ pc' = "closeRows" /\ UNCHANGED <<call, res, rows, session, wire, srv>>
      /\ FinishWatch
  BY DEF CloseFinish
<1>2. /\ conn'.closed = conn.closed /\ conn'.canceled = conn.canceled /\ conn'.seq = conn.seq
      /\ conn'.more = conn.more
  BY <1>1, WatchFinished DEF Inv, CallInv
<1>3. call.kind # "connect" /\ call.kind # "prepare"
  BY <1>1 DEF Inv, AnswerInv, PlaceInv, ByKindOK
<1>4. ~Excused' => ~Excused
  BY <1>1, <1>2 DEF Excused, Reading, Writing, Uploading
<1>5. Expected' = ByRows' /\ ByRows' = ByRows /\ pc \in RowsPlaces
  BY <1>1, <1>2, ExpectedNext DEF ByPlace, RowsPlaces, ByRows
<1> QED  BY <1>1, <1>2, <1>3, <1>4, <1>5, RowsStep

LEMMA FinishOK ==
    ASSUME Inv, Finish
    PROVE  StreamOK'
<1>1. /\ pc = "finish" /\ pc' \in {"contextCheck", "gone", "idle"}
      /\ UNCHANGED <<call, res, rows, session, wire, srv>> /\ FinishWatch
  BY DEF Finish
<1>2. conn'.closed = conn.closed /\ conn'.canceled = conn.canceled
  BY <1>1, WatchFinished DEF Inv, CallInv
<1>3. CASE Excused'
  BY <1>3 DEF StreamOK
<1>4. CASE ~Excused'
  <2>1. ~Excused
    BY <1>1, <1>2, <1>4 DEF Excused, Reading, Writing, Uploading
  <2>2. Quiet
    BY <1>1, <2>1, ExpectsNothing, QuietAt DEF Inv, AnswerInv, CallInv, EnvTypes
  <2> QED  BY <1>1, <2>2, QuietStays DEF Uploading
<1> QED  BY <1>3, <1>4

\* A connection in use whose context is not watched has not been canceled.
LEMMA NotExcused ==
    ASSUME Inv, pc \notin {"abandon", "gone"}, ~conn.closed, ~conn.watching
    PROVE  ~Excused
BY NotCanceled DEF Inv, CallInv, AnswerInv, Excused

LEMMA ContextCheckOK ==
    ASSUME Inv, ContextCheck
    PROVE  StreamOK'
<1>1. /\ pc = "contextCheck" /\ pc' = "idle" /\ UNCHANGED <<call, rows, srv>>
      /\ conn'.closed = conn.closed /\ session'.auth = session.auth
  BY DEF ContextCheck, Rest, Inv, CallInv, WatchInv, Shapes, ConnShape, EnvTypes, SessionType
<1>2. CASE conn.closed
  BY <1>1, <1>2 DEF StreamOK, Excused, Reading, Writing, Uploading
<1>3. CASE ~conn.closed
  <2>1. ~conn.watching
    BY <1>1, <1>3 DEF Inv, CallInv, WatchInv, UnwatchedOK, Unwatched
  <2>2. Quiet /\ WireType
    BY <1>1, <1>3, <2>1, NotExcused, ExpectsNothing, QuietAt DEF Inv, AnswerInv, CallInv, EnvTypes
  <2>3. CASE UNCHANGED wire
    BY <1>1, <2>2, <2>3, QuietStays DEF Uploading
  <2> DEFINE m == [kind |-> "stmtClose", cmd |-> call.id, seq |-> 0]
  <2>4. CASE wire' = [wire EXCEPT !.out = Append(@, m)]
    <3>1. m \in AnyMessage /\ m.kind \in Silent
      BY DEF AnyMessage, CommandKinds, Silent, Inv, CallInv, CallType, Calls
    <3>2. wire'.out = Append(wire.out, m) /\ wire'.net = wire.net /\ wire'.in = wire.in /\ wire'.buf = wire.buf
      BY <2>2, <2>4 DEF WireType
    <3> HIDE DEF m
    <3>3. Stream' = <<>>
      BY <2>2, <3>2 DEF Stream, Quiet
    <3>4. wire'.net = "up" => OutOK'
      <4>1. wire.net = "up" => AllSilent(wire.out)
        BY <2>2 DEF Quiet
      <4>2. wire.net = "up" => AllSilent(wire'.out)
        BY <2>2, <3>1, <3>2, <4>1, OutSent
      <4> QED  BY <3>2, <4>2, SilentOK DEF AllSilent
    <3>5. ~Uploads
      BY <1>1 DEF Uploads, Uploading
    <3> QED  BY <1>1, <2>2, <3>2, <3>3, <3>4, <3>5, QuietStep
  <2> QED  BY <1>3, <2>3, <2>4 DEF ContextCheck
<1> QED  BY <1>2, <1>3

LEMMA PrecheckOK ==
    ASSUME Inv, Precheck
    PROVE  StreamOK'
<1>1. pc = "precheck" /\ UNCHANGED <<conn, wire, srv>> /\ session'.auth = session.auth
  BY DEF Precheck, Rest, Inv, CallInv, EnvTypes, SessionType
<1>2. CASE conn.closed
  <2>1. \E e : Return(e)
    BY <1>2 DEF Precheck
  <2>2. pc' \in {"idle", "abandon", "finish"}
    <3>1. call.kind # "connect"
      BY <1>1, PlacesOf DEF Inv
    <3> QED  BY <2>1, <3>1, Returned DEF Inv
  <2> QED  BY <1>1, <1>2, <2>2 DEF StreamOK, Excused, Reading, Writing, Uploading
<1>3. CASE ~conn.closed
  <2>1. ~conn.watching
    BY <1>1, <1>3 DEF Inv, AnswerInv, QuietOK
  <2>2. Quiet
    BY <1>1, <1>3, <2>1, NotExcused, ExpectsNothing, QuietAt DEF Inv, AnswerInv, CallInv, EnvTypes
  <2> QED  BY <1>1, <2>2, QuietStays DEF Uploading
<1> QED  BY <1>2, <1>3

\* Ping and begin do not look at closed again: their connection is open.
LEMMA AfterWatchFacts ==
    ASSUME Inv, pc = "watch", call.kind # "connect"
    PROVE  /\ AfterWatch \in {"write", "check"}
           /\ conn.closed => AfterWatch = "check"
<1>1. call.kind \in ContextKinds /\ call.todo \in TodosOf(call.kind)
  BY DEF Inv, CallInv, WatchInv, PlacesOK, AnswerInv, PlaceInv, TodoOK
<1>2. conn.closed => call.kind \notin {"ping", "begin"}
  BY DEF Inv, AnswerInv, QuietOK
<1>3. call.kind \in ContextKinds \ {"ping", "begin"} => Head(call.todo) \notin {"ping", "set"}
  BY <1>1 DEF ContextKinds, TodosOf, LongDataTodos
<1> QED  BY <1>1, <1>2, <1>3 DEF AfterWatch

LEMMA WatchCancelOK ==
    ASSUME Inv, WatchCancel
    PROVE  StreamOK'
<1>1. pc = "watch" /\ UNCHANGED <<session, rows, srv>>
  BY DEF WatchCancel
<1>2. conn.watching => conn.closed
  BY <1>1 DEF Inv, AnswerInv, QuietOK
<1>3. conn'.closed = conn.closed /\ conn'.seq = conn.seq /\ conn'.canceled = conn.canceled
  BY <1>2 DEF WatchCancel, Cleanup, Inv, CallInv, WatchInv, Shapes, ConnShape
<1>4. UNCHANGED wire
  BY <1>2 DEF WatchCancel, CutOff
<1>5. GoOn(AfterWatch) \/ (call' = call /\ pc' = IF call.kind = "connect" THEN "abandon" ELSE "idle")
  BY DEF WatchCancel
<1>6. call' = call
  BY <1>5 DEF GoOn
<1>7. CASE conn.closed
  <2>1. call.kind # "connect"
    BY <1>1, <1>7 DEF Inv, AnswerInv, QuietOK
  <2>2. pc' \in {"check", "idle"}
    BY <1>1, <1>5, <1>7, <2>1, AfterWatchFacts DEF GoOn
  <2> QED  BY <1>3, <1>7, <2>2 DEF StreamOK, Excused, Reading, Writing, Uploading
<1>8. CASE ~conn.closed /\ call.kind # "connect"
  <2>1. Quiet
    BY <1>1, <1>2, <1>8, NotExcused, ExpectsNothing, QuietAt DEF Inv, AnswerInv, CallInv, EnvTypes
  <2> QED  BY <1>1, <1>4, <1>8, <2>1, QuietStays DEF Uploading
<1>9. CASE ~conn.closed /\ call.kind = "connect"
  <2>1. CASE pc' = "abandon"
    BY <2>1 DEF StreamOK, Excused
  <2>2. CASE pc' # "abandon"
    <3>1. pc' = "greeting"
      BY <1>5, <1>9, <2>2 DEF GoOn, AfterWatch
    <3>2. ~Excused /\ StreamOK /\ WireType /\ AcceptedOK
      BY <1>1, <1>2, <1>9, NotExcused DEF Inv, AnswerInv, CallInv, EnvTypes
    <3>3. Expected = Greetings /\ Expected' = Greetings
      BY <1>1, <1>9, <3>1, ExpectedAt, ExpectedNext DEF ByPlace
    <3>4. Stream' = Stream
      BY <1>4 DEF Stream
    <3>5. OneResult' => OneResult
      BY <1>9 DEF OneResult
    <3>6. ASSUME wire'.net = "up"
          PROVE  OutOK' /\ SrvOK'
      <4>1. OutOK /\ SrvOK
        BY <1>4, <3>2, <3>6 DEF StreamOK
      <4>2. AllSilent(wire.out)'
        BY <1>1, <1>4, <3>2, <4>1, NotAsked, ExpectsNothing DEF AllSilent, RowsPlaces
      <4>3. SrvOK'
        BY <1>1, <1>3, <1>4, <1>6, <1>9, <3>1, <3>2, <3>4, <4>1 DEF SrvOK, AcceptedOK
      <4> QED  BY <4>2, <4>3, SilentOK
    <3>7. call.kind # "prepare" /\ call'.kind # "prepare"
      BY <1>6, <1>9
    <3> QED  BY <1>3, <1>6, <3>2, <3>3, <3>4, <3>5, <3>6, <3>7, StreamStays
  <2> QED  BY <2>1, <2>2
<1> QED  BY <1>7, <1>8, <1>9

LEMMA DialOK ==
    ASSUME Inv, Dial
    PROVE  StreamOK'
<1>1. CASE pc' = "gone"
  BY <1>1 DEF StreamOK, Excused
<1>2. CASE pc' = "watch"
  <2>1. /\ pc = "dial" /\ wire' = [wire EXCEPT !.net = "up"] /\ UNCHANGED <<call, rows, session, conn, srv>>
        /\ call.kind = "connect"
    BY <1>2 DEF Dial, Inv, CallInv, WatchInv, PlacesOK
  <2>2. Stream = <<>> /\ wire.out = <<>> /\ srv.pc = "connected" /\ conn.seq = 0
    BY <2>1 DEF Inv, AnswerInv, ConnectFirst
  <2>3. Stream' = <<>> /\ wire'.out = <<>>
    BY <2>1, <2>2 DEF Stream, Inv, CallInv, EnvTypes, WireType
  <2>4. OutOK' /\ SrvOK'
    BY <1>2, <2>1, <2>2, <2>3 DEF OutOK, SrvOK
  <2> QED  BY <2>3, <2>4 DEF StreamOK, Expects
<1> QED  BY <1>1, <1>2 DEF Dial

LEMMA StartCallOK ==
    ASSUME Inv, StartCall
    PROVE  StreamOK'
<1>1. /\ pc = "idle" /\ ~rows.open /\ UNCHANGED <<session, wire, srv>>
      /\ pc' \in {"idle", "precheck", "watch"} /\ conn'.closed = conn.closed
  BY DEF StartCall, Rest, Inv, CallInv, WatchInv, Shapes, ConnShape
<1>2. CASE conn.closed
  BY <1>1, <1>2 DEF StreamOK, Excused, Reading, Writing, Uploading
<1>3. CASE ~conn.closed
  <2>1. ~conn.watching
    BY <1>1, <1>3, IdleUnwatched DEF Inv, CallInv
  <2>2. Quiet
    BY <1>1, <1>3, <2>1, NotExcused, ExpectsNothing, QuietAt DEF Inv, AnswerInv, CallInv, EnvTypes
  <2> QED  BY <1>1, <2>2, QuietStays DEF Uploading
<1> QED  BY <1>2, <1>3

\* The steps that start and end calls and watches.
CallSteps == Dial \/ WatchCancel \/ Precheck \/ ContextCheck \/ Finish \/ CloseFinish
             \/ StartCall \/ StartRowsCall \/ CloseConn
LEMMA CallStream ==
    ASSUME Inv, CallSteps
    PROVE  StreamOK'
<1>1. CloseConn => StreamOK'
  BY DEF CloseConn, StreamOK, Excused
<1> QED  BY <1>1, DialOK, WatchCancelOK, PrecheckOK, ContextCheckOK, FinishOK, CloseFinishOK, StartCallOK,
            RowsCallOK DEF CallSteps

-----------------------------------------------------------------------------
(* The watcher, the contexts and the network *)

\* The client does not move: at most its connection is closed or canceled.
ClientRests ==
    /\ UNCHANGED <<pc, call, res, rows, session>>
    /\ conn'.seq = conn.seq /\ conn'.more = conn.more
    /\ conn.closed => conn'.closed
    /\ conn.canceled => conn'.canceled
LEMMA StillExcused ==
    ASSUME ClientRests
    PROVE  (~Excused' => ~Excused) /\ Expected' = Expected
BY DEF ClientRests, Excused, Expected, ByRows

LEMMA SameStream ==
    ASSUME ClientRests, UNCHANGED <<wire, srv>>, StreamOK
    PROVE  StreamOK'
<1>1. Expected' = Expected /\ (~Excused' => ~Excused)
  BY StillExcused
<1>2. Stream' = Stream
  BY DEF Stream
<1>3. OneResult' => OneResult
  BY DEF OneResult, ClientRests
<1>4. ASSUME ~Excused', wire'.net = "up"
      PROVE  OutOK' /\ SrvOK'
  <2>1. OutOK /\ SrvOK
    BY <1>1, <1>4 DEF StreamOK
  <2>2. OutOK'
    BY <1>2, <2>1 DEF OutOK, Asked, Wanted, ClientRests
  <2>3. SrvOK'
    BY <1>2, <2>1 DEF SrvOK, Uploads, ClientRests
  <2> QED  BY <2>2, <2>3
<1> QED  BY <1>1, <1>2, <1>3, <1>4, StreamStays DEF ClientRests

\* What was on its way may be lost from some packet on.
LEMMA Shorter ==
    ASSUME ClientRests, StreamOK, WireType, WireType', Begins(Stream', Stream), wire'.net # "up"
    PROVE  StreamOK'
<1>1. SUFFICES ASSUME ~Excused', Stream' # <<>>
               PROVE  Expects(Stream)'
  BY DEF StreamOK, Expects
<1>2. /\ Len(Stream) \in Nat /\ Len(Stream') \in Nat /\ Len(Stream') <= Len(Stream)
      /\ \A i \in 1 .. Len(Stream') : Stream'[i] = Stream[i] /\ i \in 1 .. Len(Stream)
      /\ Len(Stream') >= 1
  <2>1. /\ Stream \in Seq(AnyPacket) /\ Len(Stream) \in Nat
        /\ Stream = <<>> <=> Len(Stream) = 0
    BY StreamType
  <2>2. Stream' \in Seq(AnyPacket)
    <3>1. wire'.buf \in Seq(AnyPacket) /\ wire'.in \in Seq(AnyPacket) /\ Stream' = wire'.buf \o wire'.in
      BY DEF WireType, AnyPacket, PacketKinds, Stream
    <3> QED  BY <3>1, ConcatProperties
  <2>3. Len(Stream') \in Nat /\ (Stream' = <<>> <=> Len(Stream') = 0)
    BY <2>2, EmptySeq, LenProperties
  <2> QED  BY <1>1, <2>1, <2>3 DEF Begins
<1>3. /\ ~Excused /\ Expected' = Expected /\ Stream # <<>> /\ Stream'[1] = Stream[1]
  BY <1>1, <1>2, StillExcused
<1>4. /\ Stream[1].kind \in Expected /\ Mine(Stream) /\ (OneResult => NoMore(Stream))
      /\ call.kind = "prepare" => Defining(Stream)
      /\ call.kind # "prepare" => Ordered(Stream)
  BY <1>3 DEF StreamOK, Expects
<1>5. Mine(Stream)'
  BY <1>2, <1>4 DEF Mine, ClientRests
<1>6. call'.kind = "prepare" => Defining(Stream)'
  <2>1. DefinitionsLeft(Stream)' = DefinitionsLeft(Stream)
    BY <1>3 DEF DefinitionsLeft, ClientRests
  <2>2. DefinitionsLeft(Stream) \in Nat
    BY DEF DefinitionsLeft
  <2> QED  BY <1>2, <1>4, <2>1, <2>2 DEF Defining, ClientRests
<1>7. call'.kind # "prepare" => Ordered(Stream)'
  BY <1>2, <1>4 DEF Ordered, Follows, ClientRests
<1>8. OneResult' => NoMore(Stream)'
  BY <1>2, <1>4 DEF OneResult, NoMore, ClientRests
<1> QED  BY <1>3, <1>4, <1>5, <1>6, <1>7, <1>8 DEF Expects


\* The buffer stays, and what was on its way is lost from some packet on.
LEMMA ConcatBegins ==
    ASSUME NEW S, NEW s \in Seq(S), NEW t \in Seq(S), NEW u \in Seq(S), Begins(u, t)
    PROVE  Begins(s \o u, s \o t)
<1>1. /\ Len(s) \in Nat /\ Len(t) \in Nat /\ Len(u) \in Nat
      /\ Len(s \o u) = Len(s) + Len(u) /\ Len(s \o t) = Len(s) + Len(t)
      /\ \A i \in 1 .. Len(s) + Len(u) : (s \o u)[i] = IF i <= Len(s) THEN s[i] ELSE u[i - Len(s)]
      /\ \A i \in 1 .. Len(s) + Len(t) : (s \o t)[i] = IF i <= Len(s) THEN s[i] ELSE t[i - Len(s)]
  BY ConcatProperties, LenProperties
<1>2. ASSUME NEW i \in 1 .. Len(s) + Len(u)
      PROVE  (s \o u)[i] = (s \o t)[i]
  <2>1. i \in 1 .. Len(s) + Len(t) /\ (i <= Len(s) \/ i - Len(s) \in 1 .. Len(u))
    BY <1>1 DEF Begins
  <2>2. i - Len(s) \in 1 .. Len(u) => u[i - Len(s)] = t[i - Len(s)]
    BY DEF Begins
  <2> QED  BY <1>1, <2>1, <2>2
<1> QED  BY <1>1, <1>2 DEF Begins

LEMMA WatcherStream ==
    ASSUME Inv, WireType', WatcherStep
    PROVE  StreamOK'
<1>1. ClientRests /\ UNCHANGED srv
  BY DEF WatcherStep, WatcherTakes, WatcherStops, WatcherCancels, WatcherSetsClosed, WatcherClosesChannel,
         WatcherClosesNet, OtherThanWatcher, clientVars, ClientRests, Inv, CallInv, WatchInv, Shapes, ConnShape
<1>2. CASE UNCHANGED wire
  BY <1>1, <1>2, SameStream DEF Inv, AnswerInv
<1>3. CASE WatcherClosesNet
  <2>1. wire' = [wire EXCEPT !.net = "closed", !.in = <<>>] /\ WireType
    BY <1>3 DEF WatcherClosesNet, Inv, CallInv, EnvTypes
  <2>2. /\ wire'.net = "closed" /\ wire'.buf = wire.buf /\ wire'.in = <<>>
        /\ wire.buf \in Seq(AnyPacket) /\ wire.in \in Seq(AnyPacket)
    BY <2>1 DEF WireType
  <2>3. Begins(<<>>, wire.in) /\ <<>> \in Seq(AnyPacket)
    BY <2>2, EmptySeq, LenProperties DEF Begins
  <2>4. Begins(Stream', Stream)
    BY <2>2, <2>3, ConcatBegins DEF Stream
  <2> QED  BY <1>1, <2>1, <2>2, <2>4, Shorter DEF Inv, AnswerInv
<1> QED  BY <1>2, <1>3 DEF WatcherStep, WatcherTakes, WatcherStops, WatcherCancels, WatcherSetsClosed,
                          WatcherClosesChannel

LEMMA SurroundingsStream ==
    ASSUME Inv, WireType', Surroundings
    PROVE  StreamOK'
<1>1. ClientRests /\ UNCHANGED srv
  <2>1. Break => UNCHANGED <<clientVars, conn, srv>>
    BY DEF Break
  <2>2. (\E c \in Calls : EndContext(c)) => UNCHANGED <<clientVars, conn, srv>>
    BY DEF EndContext
  <2> QED  BY <2>1, <2>2 DEF Surroundings, clientVars, ClientRests
<1>2. CASE UNCHANGED wire
  BY <1>1, <1>2, SameStream DEF Inv, AnswerInv
<1>3. CASE Break
  <2>a. /\ wire.net = "up" /\ UNCHANGED <<clientVars, conn, watcher, srv, ended, history>>
        /\ \E out \in {<<>>, wire.out} : \E k \in 0 .. Len(wire.in) :
              wire' = [wire EXCEPT !.net = "broken", !.out = out, !.in = SubSeq(@, 1, k)]
    BY <1>3, Zenon DEF Break
  <2>1. PICK out \in {<<>>, wire.out}, k \in 0 .. Len(wire.in) :
             wire' = [wire EXCEPT !.net = "broken", !.out = out, !.in = SubSeq(wire.in, 1, k)]
    BY <2>a, Zenon
  <2>2. /\ wire.buf \in Seq(AnyPacket) /\ wire.in \in Seq(AnyPacket) /\ SubSeq(wire.in, 1, k) \in Seq(AnyPacket)
        /\ wire'.net = "broken" /\ wire'.buf = wire.buf /\ wire'.in = SubSeq(wire.in, 1, k)
    <3>1. WireType
      BY DEF Inv, CallInv, EnvTypes
    <3>2. wire.in \in Seq(AnyPacket)
      BY <3>1 DEF WireType
    <3>3. SubSeq(wire.in, 1, k) \in Seq(AnyPacket)
      BY <3>2, Parts
    <3> QED  BY <2>1, <3>1, <3>2, <3>3 DEF WireType
  <2>3. Begins(SubSeq(wire.in, 1, k), wire.in)
    <3>1. /\ Len(wire.in) \in Nat /\ Len(SubSeq(wire.in, 1, k)) = k
          /\ \A i \in 1 .. k : SubSeq(wire.in, 1, k)[i] = wire.in[i]
      BY <2>2
    <3> QED  BY <3>1 DEF Begins
  <2>4. Begins(Stream', Stream)
    BY <2>2, <2>3, ConcatBegins DEF Stream
  <2> QED  BY <1>1, <2>2, <2>4, Shorter DEF Inv, AnswerInv, CallInv, EnvTypes
<1> QED  BY <1>2, <1>3 DEF Surroundings, EndContext

-----------------------------------------------------------------------------
(* The scripts of the server *)

LEMMA OrderedConcat ==
    ASSUME NEW s \in Seq(Script), NEW t \in Seq(Script), s # <<>>, t # <<>>, Ordered(s), Ordered(t),
           Follows(s[Len(s)], t[1])
    PROVE  Ordered(s \o t) /\ (s \o t)[1] = s[1] /\ s \o t \in Seq(Script) /\ s \o t # <<>>
<1>1. /\ Len(s) \in Nat /\ Len(t) \in Nat /\ Len(s) >= 1 /\ Len(t) >= 1
      /\ s \o t \in Seq(Script) /\ Len(s \o t) = Len(s) + Len(t)
      /\ \A i \in 1 .. Len(s) + Len(t) : (s \o t)[i] = IF i <= Len(s) THEN s[i] ELSE t[i - Len(s)]
  BY ConcatProperties, LenProperties, EmptySeq
<1>2. ASSUME NEW i \in 1 .. Len(s) + Len(t), i + 1 \in 1 .. Len(s) + Len(t)
      PROVE  Follows((s \o t)[i], (s \o t)[i + 1])
  <2>1. CASE i + 1 <= Len(s)
    <3>1. (s \o t)[i] = s[i] /\ (s \o t)[i + 1] = s[i + 1] /\ i \in 1 .. Len(s) /\ i + 1 \in 1 .. Len(s)
      BY <1>1, <1>2, <2>1
    <3> QED  BY <3>1 DEF Ordered
  <2>2. CASE i = Len(s)
    <3>1. (s \o t)[i] = s[Len(s)] /\ (s \o t)[i + 1] = t[1]
      BY <1>1, <1>2, <2>2
    <3> QED  BY <3>1
  <2>3. CASE i > Len(s)
    <3> DEFINE j == i - Len(s)
    <3>1. (s \o t)[i] = t[j] /\ (s \o t)[i + 1] = t[j + 1] /\ j \in 1 .. Len(t) /\ j + 1 \in 1 .. Len(t)
      <4>1. (i + 1) - Len(s) = j + 1 /\ j \in 1 .. Len(t) /\ j + 1 \in 1 .. Len(t)
        BY <1>1, <1>2, <2>3
      <4>2. ~(i <= Len(s)) /\ ~(i + 1 <= Len(s))
        BY <1>1, <1>2, <2>3
      <4>3. (s \o t)[i] = t[i - Len(s)] /\ (s \o t)[i + 1] = t[(i + 1) - Len(s)]
        BY <1>1, <1>2, <4>2, Zenon
      <4> QED  BY <4>1, <4>3
    <3> QED  BY <3>1 DEF Ordered
  <2>4. i + 1 <= Len(s) \/ i = Len(s) \/ i > Len(s)
    <3>1. Len(s) \in Nat /\ Len(s) + Len(t) \in Nat
      BY <1>1
    <3> QED  BY <3>1
  <2> QED  BY <2>1, <2>2, <2>3, <2>4
<1> QED  BY <1>1, <1>2, EmptySeq DEF Ordered

\* The scripts of one result, of packets of any kind.
LEMMA OrderedTuples ==
    ASSUME NEW a \in Script, NEW b \in Script, NEW c \in Script, NEW d \in Script
    PROVE  /\ Ordered(<<a>>)
           /\ Follows(a, b) => Ordered(<<a, b>>)
           /\ Follows(a, b) /\ Follows(b, c) => Ordered(<<a, b, c>>)
           /\ Follows(a, b) /\ Follows(b, c) /\ Follows(c, d) => Ordered(<<a, b, c, d>>)
BY DEF Ordered

\* A script that may be read where the client waits for the start of a result.
Orderly(s, kinds) ==
    s \in Seq(Script) /\ s # <<>> /\ s[1].kind \in kinds /\ Ordered(s)

LEMMA ResultSetOrderly ==
    ASSUME NEW more \in BOOLEAN
    PROVE  /\ Orderly(ResultSet(more), {"header"}) /\ NoMore(ResultSet(more))
           /\ ResultSet(more)[Len(ResultSet(more))] = Packet("eof", more)
<1> DEFINE a == P("header")
           b == P("columns")
           c == P("row")
           d == Packet("eof", more)
<1>1. /\ a \in Script /\ b \in Script /\ c \in Script /\ d \in Script
      /\ a.kind = "header" /\ b.kind = "columns" /\ c.kind = "row" /\ d.kind = "eof"
  BY PacketsOK DEF PacketKinds
<1> HIDE DEF a, b, c, d
<1>2. ResultSet(more) = <<a, b, c, d>>
  BY DEF ResultSet, a, b, c, d
<1>3. Follows(a, b) /\ Follows(b, c) /\ Follows(c, d)
  BY <1>1 DEF Follows
<1>4. <<a, b, c, d>> \in Seq(Script) /\ Ordered(<<a, b, c, d>>)
  BY <1>1, <1>3, OrderedTuples, Scripts
<1>5. NoMore(<<a, b, c, d>>)
  BY <1>1 DEF NoMore
<1>6. <<a, b, c, d>>[Len(<<a, b, c, d>>)] = d /\ <<a, b, c, d>>[1] = a /\ <<a, b, c, d>> # <<>>
  OBVIOUS
<1> QED  BY <1>1, <1>2, <1>4, <1>5, <1>6 DEF Orderly, d

LEMMA NoMoreConcat ==
    ASSUME NEW s \in Seq(Script), NEW t \in Seq(Script), NoMore(s), NoMore(t)
    PROVE  NoMore(s \o t)
<1>1. /\ Len(s) \in Nat /\ Len(t) \in Nat /\ Len(s \o t) = Len(s) + Len(t)
      /\ \A i \in 1 .. Len(s) + Len(t) : (s \o t)[i] = IF i <= Len(s) THEN s[i] ELSE t[i - Len(s)]
  BY ConcatProperties, LenProperties
<1>2. ASSUME NEW i \in 1 .. Len(s) + Len(t), (s \o t)[i].kind = "ok"
      PROVE  ~(s \o t)[i].more
  <2>1. CASE i <= Len(s)
    <3>1. (s \o t)[i] = s[i] /\ i \in 1 .. Len(s)
      BY <1>1, <2>1
    <3> QED  BY <1>2, <3>1 DEF NoMore
  <2>2. CASE ~(i <= Len(s))
    <3>1. (s \o t)[i] = t[i - Len(s)]
      BY <1>1, <2>2, Zenon
    <3>2. i - Len(s) \in 1 .. Len(t)
      BY <1>1, <2>2
    <3> QED  BY <1>2, <3>1, <3>2 DEF NoMore
  <2> QED  BY <2>1, <2>2
<1> QED  BY <1>1, <1>2 DEF NoMore

\* A single packet.
LEMMA SingleOrderly ==
    ASSUME NEW kind \in PacketKinds, NEW more \in BOOLEAN
    PROVE  /\ Orderly(<<Packet(kind, more)>>, {kind})
           /\ kind = "ok" => (NoMore(<<Packet(kind, more)>>) <=> ~more)
           /\ kind # "ok" => NoMore(<<Packet(kind, more)>>)
<1> DEFINE a == Packet(kind, more)
<1>1. a \in Script /\ a.kind = kind /\ a.more = more
  BY PacketsOK DEF Packet
<1> HIDE DEF a
<1>2. <<a>> \in Seq(Script) /\ Ordered(<<a>>)
  BY <1>1, Scripts, OrderedTuples
<1>3. NoMore(<<a>>) <=> (a.kind = "ok" => ~a.more)
  BY DEF NoMore
<1>4. <<a>>[1] = a /\ <<a>> # <<>>
  OBVIOUS
<1> QED  BY <1>1, <1>2, <1>3, <1>4 DEF Orderly, a

LEMMA OnePacket ==
    ASSUME NEW kind \in PacketKinds
    PROVE  Orderly(<<P(kind)>>, {kind}) /\ NoMore(<<P(kind)>>)
BY SingleOrderly DEF P

LEMMA LastResultsOrderly ==
    ASSUME NEW script \in LastResults
    PROVE  Orderly(script, Starts) /\ NoMore(script)
<1>1. {"ok", "err", "header", "columns"} \subseteq PacketKinds /\ Starts = {"ok", "err", "header"}
  BY DEF PacketKinds, Starts
<1>2. CASE script = <<P("ok")>> \/ script = <<P("err")>>
  BY <1>1, <1>2, OnePacket DEF Orderly
<1>3. CASE script = ResultSet(FALSE)
  BY <1>1, <1>3, ResultSetOrderly DEF Orderly
<1>4. CASE script = <<P("header"), P("columns"), P("err")>>
  <2> DEFINE a == P("header")
             b == P("columns")
             c == P("err")
  <2>1. a \in Script /\ b \in Script /\ c \in Script /\ a.kind = "header" /\ b.kind = "columns" /\ c.kind = "err"
    BY <1>1, PacketsOK
  <2> HIDE DEF a, b, c
  <2>2. Ordered(<<a, b, c>>) /\ <<a, b, c>> \in Seq(Script)
    <3>1. Follows(a, b) /\ Follows(b, c)
      BY <2>1 DEF Follows
    <3> QED  BY <2>1, <3>1, OrderedTuples, Scripts
  <2>3. NoMore(<<a, b, c>>)
    BY <2>1 DEF NoMore
  <2>4. script = <<a, b, c>>
    BY <1>4 DEF a, b, c
  <2> QED  BY <1>1, <2>1, <2>2, <2>3, <2>4 DEF Orderly
<1> QED  BY <1>2, <1>3, <1>4 DEF LastResults, Results

LEMMA SeveralOrderly ==
    ASSUME NEW first \in {<<Packet("ok", TRUE)>>, ResultSet(TRUE)}, NEW second \in LastResults
    PROVE  Orderly(first \o second, Starts)
<1>1. Orderly(second, Starts)
  BY LastResultsOrderly
<1>2. Orderly(first, Starts)
  <2>1. Orderly(<<Packet("ok", TRUE)>>, {"ok"})
    <3>1. "ok" \in PacketKinds
      BY DEF PacketKinds
    <3> QED  BY <3>1, SingleOrderly
  <2>2. Orderly(ResultSet(TRUE), {"header"})
    BY ResultSetOrderly
  <2>3. ASSUME NEW s, Orderly(s, {"ok"}) \/ Orderly(s, {"header"})
        PROVE  Orderly(s, Starts)
    BY <2>3 DEF Orderly, Starts
  <2> QED  BY <2>1, <2>2, <2>3
<1>3. first[Len(first)] \in {Packet("ok", TRUE), Packet("eof", TRUE)}
  <2>1. <<Packet("ok", TRUE)>>[Len(<<Packet("ok", TRUE)>>)] = Packet("ok", TRUE)
    OBVIOUS
  <2> QED  BY <2>1, ResultSetOrderly
<1>4. Follows(first[Len(first)], second[1])
  BY <1>1, <1>3 DEF Follows, Orderly, Packet
<1> QED  BY <1>1, <1>2, <1>4, OrderedConcat DEF Orderly

LEMMA AnswersOrderly ==
    ASSUME NEW kind, NEW script \in Answers(kind), kind # "prepare"
    PROVE  /\ Orderly(script, Starts \cup {"readOnly", "infile"})
           /\ kind # "query" => NoMore(script)
           /\ kind \notin {"query", "execute", "sysvar"} => Orderly(script, {"ok", "err"})
<1>1. {"ok", "err", "readOnly", "infile"} \subseteq PacketKinds
  BY DEF PacketKinds
<1>2. ASSUME Orderly(script, Starts)
      PROVE  Orderly(script, Starts \cup {"readOnly", "infile"})
  BY <1>2 DEF Orderly
<1>3. CASE kind = "query"
  <2>1. CASE script \in LastResults
    BY <1>2, <1>3, <2>1, LastResultsOrderly
  <2>2. CASE script \in Refusals \/ script = <<P("infile")>>
    <3>1. script \in {<<P("err")>>, <<P("readOnly")>>, <<P("infile")>>}
      BY <2>2 DEF Refusals
    <3> QED  BY <1>1, <1>3, <3>1, OnePacket DEF Orderly, Starts
  <2>3. CASE script \in SeveralAnswers
    <3> DEFINE First == {<<Packet("ok", TRUE)>>, ResultSet(TRUE)}
    <3>a. SeveralAnswers = {first \o second : first \in First, second \in LastResults}
      BY DEF SeveralAnswers
    <3>b. \A first \in First, second \in LastResults : Orderly(first \o second, Starts)
      BY SeveralOrderly
    <3> HIDE DEF First
    <3>1. PICK first \in First, second \in LastResults : script = first \o second
      BY <2>3, <3>a
    <3>2. Orderly(script, Starts)
      BY <3>1, <3>b
    <3> QED  BY <1>2, <1>3, <3>2
  <2>4. script \in QueryAnswers
    BY <1>3 DEF Answers
  <2>5. script \in LastResults \/ script \in Refusals \/ script = <<P("infile")>> \/ script \in SeveralAnswers
    BY <2>4, Zenon DEF QueryAnswers
  <2> QED  BY <2>1, <2>2, <2>3, <2>5
<1>4. CASE kind = "execute"
  <2>1. CASE script \in LastResults
    BY <1>2, <1>4, <2>1, LastResultsOrderly
  <2>2. CASE script = ResultSet(TRUE) \o <<P("ok")>>
    <3>1. <<P("ok")>> \in LastResults
      BY DEF LastResults, Results
    <3>2. Orderly(script, Starts)
      BY <2>2, <3>1, SeveralOrderly
    <3>3. NoMore(script)
      BY <1>1, <2>2, ResultSetOrderly, OnePacket, NoMoreConcat DEF Orderly
    <3> QED  BY <1>2, <1>4, <3>2, <3>3
  <2> QED  BY <1>4, <2>1, <2>2 DEF Answers, ExecuteAnswers
<1>5. CASE kind = "sysvar"
  <2>1. script \in LastResults
    BY <1>5 DEF Answers, LastResults, Results
  <2> QED  BY <1>2, <1>5, <2>1, LastResultsOrderly
<1>6. CASE kind \notin {"query", "execute", "sysvar"}
  <2>1. script \in {<<P("ok")>>, <<P("err")>>}
    BY <1>6 DEF Answers
  <2>2. Orderly(script, {"ok", "err"}) /\ NoMore(script)
    BY <1>1, <2>1, OnePacket DEF Orderly
  <2> QED  BY <1>6, <2>2 DEF Orderly, Starts
<1> QED  BY <1>3, <1>4, <1>5, <1>6

-----------------------------------------------------------------------------
(* The server *)

\* A message that is answered is the one the client waits for an answer to.
LEMMA Asking ==
    ASSUME Inv, ~Excused, wire.net = "up", wire.out # <<>>, Head(wire.out).kind \notin Silent
    PROVE  Asked(Head(wire.out)) /\ Stream = <<>> /\ Tail(wire.out) = <<>> /\ Head(wire.out) \in AnyMessage
<1>1. OutOK /\ wire.out \in Seq(AnyMessage)
  BY DEF Inv, AnswerInv, StreamOK, CallInv, EnvTypes, WireType
<1>2. Len(wire.out) \in Nat /\ Len(wire.out) >= 1 /\ Head(wire.out) = wire.out[1] /\ Head(wire.out) \in AnyMessage
  BY <1>1, HeadTailProperties
<1>3. 1 = Len(wire.out) /\ Asked(Head(wire.out)) /\ Stream = <<>>
  <2>1. 1 \in 1 .. Len(wire.out) /\ wire.out[1].kind \notin Silent
    BY <1>2
  <2>2. 1 = Len(wire.out) /\ Asked(wire.out[1]) /\ Stream = <<>>
    BY <1>1, <2>1, Zenon DEF OutOK
  <2> QED  BY <1>2, <2>2
<1>4. Tail(wire.out) = <<>>
  <2>1. Tail(wire.out) \in Seq(AnyMessage) /\ Len(Tail(wire.out)) = 0
    BY <1>1, <1>3, TailFacts
  <2> QED  BY <2>1, EmptySeq
<1> QED  BY <1>2, <1>3, <1>4

LEMMA NumberedFacts ==
    ASSUME NEW script \in Seq(Script), NEW m \in AnyMessage
    PROVE  /\ Len(Numbered(script, m)) = Len(script) /\ Numbered(script, m) \in Seq(AnyPacket)
           /\ \A i \in 1 .. Len(script) :
                 /\ Numbered(script, m)[i].kind = script[i].kind /\ Numbered(script, m)[i].more = script[i].more
                 /\ Numbered(script, m)[i].cmd = m.cmd /\ Numbered(script, m)[i].seq = m.seq + i
<1>1. m.cmd \in Nat /\ m.seq \in Nat
  BY DEF AnyMessage
<1>2. Numbered(script, m) \in Seq(AnyPacket)
  BY <1>1, NumberedPackets
<1>3. DOMAIN script = 1 .. Len(script)
  BY LenProperties
<1>4. Len(Numbered(script, m)) = Len(script)
  BY <1>2, <1>3, LenProperties DEF Numbered
<1> QED  BY <1>2, <1>3, <1>4 DEF Numbered

\* The step of a server that answers a message with a script.
LEMMA Answered ==
    ASSUME Inv, ClientRests, UNCHANGED clientVars, ~Excused, wire.net = "up", wire.out # <<>>,
           Head(wire.out).kind \notin Silent,
           NEW script \in Seq(Script), Answer(Head(wire.out), script),
           script # <<>>, script[1].kind \in Expected,
           call.kind = "prepare" => Defining(script),
           call.kind # "prepare" => Ordered(script),
           OneResult => NoMore(script),
           srv'.pc \notin {"gone", "connected"},
           srv'.pc = "infile" => pc = "header" /\ script[1].kind = "infile",
           ~session.auth /\ srv'.pc = "ready" => HasOk(script)
    PROVE  StreamOK'
<1> DEFINE m == Head(wire.out)
           n == Numbered(script, m)
<1>1. Asked(m) /\ Stream = <<>> /\ Tail(wire.out) = <<>> /\ m \in AnyMessage /\ WireType
  BY Asking DEF Inv, CallInv, EnvTypes
<1>2. /\ wire'.out = <<>> /\ wire'.net = "up" /\ wire'.buf = <<>> /\ wire'.in = <<>> \o n
  <2>1. wire.buf = <<>> /\ wire.in = <<>>
    BY <1>1, StreamType
  <2> HIDE DEF n
  <2>2. wire' = [wire EXCEPT !.out = Tail(wire.out), !.in = wire.in \o n]
    BY DEF Answer, m, n
  <2> QED  BY <1>1, <2>1, <2>2 DEF WireType
<1>3. /\ n \in Seq(AnyPacket) /\ Len(n) = Len(script) /\ Len(script) \in Nat /\ Len(script) >= 1
      /\ \A i \in 1 .. Len(script) :
            /\ n[i].kind = script[i].kind /\ n[i].more = script[i].more
            /\ n[i].cmd = m.cmd /\ n[i].seq = m.seq + i
  BY <1>1, NumberedFacts, LenProperties, EmptySeq
<1>4. m.cmd = call.id /\ m.seq + 1 = conn.seq /\ m.seq \in Nat
  BY <1>1 DEF Asked, AnyMessage
<1> HIDE DEF m, n
<1>5. Stream' = n
  BY <1>2, <1>3, ConcatEmptySeq DEF Stream
<1>6. Expected' = Expected
  BY StillExcused
<1>7. Mine(Stream)'
  <2> SUFFICES ASSUME NEW i \in 1 .. Len(n)
               PROVE  n[i].cmd = call'.id /\ n[i].seq + 1 = conn'.seq + i
    BY <1>5 DEF Mine
  <2>1. n[i].cmd = m.cmd /\ n[i].seq = m.seq + i
    BY <1>3
  <2>2. call'.id = call.id /\ conn'.seq = conn.seq
    BY DEF ClientRests
  <2>3. m.seq + i + 1 = conn.seq + i
    BY <1>4
  <2> QED  BY <1>4, <2>1, <2>2, <2>3
<1>8. call'.kind = "prepare" => Defining(Stream)'
  <2>1. DefinitionsLeft(Stream)' = DefinitionsLeft(script)
    BY <1>3, <1>5 DEF DefinitionsLeft, ClientRests
  <2> QED  BY <1>3, <1>5, <2>1 DEF Defining, ClientRests
<1>9. call'.kind # "prepare" => Ordered(Stream)'
  <2>1. \A i \in 1 .. Len(script) : \A j \in 1 .. Len(script) : Follows(script[i], script[j]) => Follows(n[i], n[j])
    BY <1>3 DEF Follows
  <2> QED  BY <1>3, <1>5, <2>1 DEF Ordered, ClientRests
<1>10. OneResult' => NoMore(Stream)'
  BY <1>3, <1>5 DEF OneResult, NoMore, ClientRests
<1>11. Expects(Stream)'
  BY <1>3, <1>5, <1>6, <1>7, <1>8, <1>9, <1>10 DEF Expects
<1>12. OutOK'
  BY <1>2 DEF OutOK
<1>13. SrvOK'
  <2>1. HasOk(script) => HasOk(Stream)'
    BY <1>3, <1>5 DEF HasOk
  <2>2. srv'.pc = "infile" => Uploads'
    <3>1. srv'.pc = "infile" => pc' = "header" /\ Stream' # <<>> /\ Stream'[1].kind = "infile"
      BY <1>3, <1>5, LenProperties, EmptySeq DEF ClientRests
    <3> QED  BY <3>1 DEF Uploads
  <2> QED  BY <2>1, <2>2 DEF SrvOK, ClientRests
<1> QED  BY <1>11, <1>12, <1>13 DEF StreamOK

\* Nothing is claimed of a server that can no longer be reached.
LEMMA Unread ==
    ASSUME ClientRests, StreamOK, Stream' = Stream, wire'.net # "up"
    PROVE  StreamOK'
<1>1. Expected' = Expected /\ (~Excused' => ~Excused)
  BY StillExcused
<1>2. OneResult' => OneResult
  BY DEF OneResult, ClientRests
<1> QED  BY <1>1, <1>2, StreamStays DEF ClientRests

LEMMA AnswerUnread ==
    ASSUME WireType, NEW script, NEW m, Answer(m, script), wire.net # "up"
    PROVE  Stream' = Stream /\ wire'.net # "up"
<1>1. wire' = [wire EXCEPT !.out = Tail(@)]
  BY DEF Answer, WireType
<1> QED  BY <1>1 DEF WireType, Stream

LEMMA WantedPlaces ==
    /\ Wanted # "none" =>
          pc \in {"header", "pong", "prepared", "infileOK", "infileSkip", "tlsHandshake", "authResult", "key",
                  "authSwitched", "authOK"}
    /\ pc \in {"header", "pong", "prepared"} => Wanted = Head(call.todo)
    /\ pc \in {"infileOK", "infileSkip"} => Wanted = "empty"
    /\ pc = "tlsHandshake" => Wanted = "sslRequest"
    /\ pc = "authResult" => Wanted = "response"
    /\ pc = "key" => Wanted = "keyRequest"
    /\ pc \in {"authSwitched", "authOK"} => Wanted = "authData"
BY DEF Wanted

\* The command that waits for its answer where the answer to a command is read.
LEMMA HeadOfTodo ==
    ASSUME Inv, pc \in {"header", "pong", "prepared"}
    PROVE  /\ Head(call.todo) \in Setup \cup CommandKinds \cup {"argError"}
           /\ pc = "header" => /\ call.kind # "prepare" /\ Head(call.todo) # "prepare"
                               /\ OneResult => Head(call.todo) # "query"
           /\ pc = "pong" => Head(call.todo) = "ping" /\ call.kind # "prepare"
           /\ pc = "prepared" => Head(call.todo) = "prepare" /\ call.kind = "prepare" /\ ~OneResult
<1>1. ByKindOK /\ TodoOK /\ CallInv /\ pc \in Reading
  BY DEF Inv, AnswerInv, PlaceInv, Reading
<1>2. CASE call.kind = "connect"
  <2>1. call.todo \in Seq(Setup) /\ pc = "header" /\ call.todo # <<>>
    BY <1>1, <1>2, ConnectPlaces DEF SettingUp, Greeted
  <2>2. Head(call.todo) \in Setup
    BY <2>1, SetupFacts
  <2> QED  BY <1>2, <2>1, <2>2 DEF Setup
<1>3. CASE call.kind # "connect"
  <2>1. call.todo \in TodosOf(call.kind) /\ call.kind \in AllKinds
    BY <1>1, <1>3 DEF TodoOK
  <2>2. Head(call.todo) \in CommandKinds \cup {"argError"}
    BY <1>1, <1>3, TodosFacts DEF CallInv, CallType
  <2>3. CASE pc = "header"
    <3>1. call.kind # "prepare"
      BY <1>1, <2>3 DEF ByKindOK, DefiningPlaces
    <3>2. Head(call.todo) # "prepare"
      BY <2>1, <3>1 DEF TodosOf, AllKinds, LongDataTodos, RowsKinds
    <3>3. OneResult => call.kind = "ping" \/ call.todo = <<"execute">>
      BY <1>1, <1>3, <2>3 DEF OneResult, TodoOK
    <3>4. call.kind = "ping" => call.todo = <<"ping">>
      BY <2>1 DEF TodosOf, RowsKinds
    <3> QED  BY <2>2, <2>3, <3>1, <3>2, <3>3, <3>4
  <2>4. CASE pc = "pong"
    <3>1. call.kind = "ping" /\ call.todo = <<"ping">>
      BY <1>1, <2>1, <2>4 DEF ByKindOK, TodosOf, RowsKinds
    <3> QED  BY <2>2, <2>4, <3>1
  <2>5. CASE pc = "prepared"
    <3>1. call.kind = "prepare" /\ call.todo = <<"prepare">>
      BY <1>1, <2>1, <2>5 DEF ByKindOK, DefiningPlaces, TodosOf, RowsKinds
    <3>2. ~OneResult
      BY <1>1, <2>5, <3>1 DEF OneResult, TodoOK
    <3> QED  BY <2>2, <2>5, <3>1, <3>2
  <2> QED  BY <2>3, <2>4, <2>5
<1> QED  BY <1>2, <1>3

LEMMA PrepareAnswersFit ==
    ASSUME NEW script \in PrepareAnswers, pc = "prepared"
    PROVE  /\ script \in Seq(Script) /\ script # <<>> /\ script[1].kind \in {"prep0", "prep1", "prep2", "err"}
           /\ Defining(script)
<1> DEFINE p0 == P("prep0")
           p1 == P("prep1")
           p2 == P("prep2")
           c == P("columns")
           e == P("err")
<1>1. /\ p0 \in Script /\ p1 \in Script /\ p2 \in Script /\ c \in Script /\ e \in Script
      /\ p0.kind = "prep0" /\ p1.kind = "prep1" /\ p2.kind = "prep2" /\ c.kind = "columns" /\ e.kind = "err"
  BY PacketsOK DEF PacketKinds
<1>2. script \in {<<p0>>, <<p1, c>>, <<p2, c, c>>, <<e>>}
  BY DEF PrepareAnswers
<1> HIDE DEF p0, p1, p2, c, e
<1>3. script \in Seq(Script)
  BY <1>1, <1>2, Scripts
<1>4. CASE script = <<p0>> \/ script = <<e>>
  <2>1. Len(script) = 1 /\ script[1].kind \in {"prep0", "err"} /\ script # <<>>
    BY <1>1, <1>4
  <2> QED  BY <1>3, <2>1 DEF Defining, DefinitionsLeft
<1>5. CASE script = <<p1, c>>
  <2>1. Len(script) = 2 /\ script[1].kind = "prep1" /\ script[2].kind = "columns" /\ script # <<>>
    BY <1>1, <1>5
  <2>2. DefinitionsLeft(script) = 2
    BY <2>1 DEF DefinitionsLeft
  <2> QED  BY <1>3, <2>1, <2>2 DEF Defining
<1>6. CASE script = <<p2, c, c>>
  <2>1. /\ Len(script) = 3 /\ script[1].kind = "prep2" /\ script # <<>>
        /\ script[2].kind = "columns" /\ script[3].kind = "columns"
    BY <1>1, <1>6
  <2>2. DefinitionsLeft(script) = 3
    BY <2>1 DEF DefinitionsLeft
  <2> QED  BY <1>3, <2>1, <2>2 DEF Defining
<1> QED  BY <1>2, <1>4, <1>5, <1>6

LEMMA ServerAnswersOK ==
    ASSUME Inv, ServerAnswers
    PROVE  StreamOK'
<1> DEFINE m == Head(wire.out)
<1>1. /\ srv.pc = "ready" /\ wire.out # <<>> /\ m.kind \notin Silent \cup {"quit"}
      /\ ClientRests /\ UNCHANGED clientVars
  BY DEF ServerAnswers, clientVars, ClientRests
<1>2. PICK script \in Answers(m.kind) :
         /\ Answer(m, script)
         /\ srv'.pc = IF script[1].kind = "infile" THEN "infile" ELSE "ready"
  <2>1. \E script \in Answers(m.kind) :
           /\ Answer(m, script)
           /\ srv' = [srv EXCEPT !.pc = IF script[1].kind = "infile" THEN "infile" ELSE "ready",
                                 !.long = IF m.kind = "execute" THEN 0 ELSE @]
    BY Zenon DEF ServerAnswers
  <2> HIDE DEF m
  <2> QED  BY <2>1 DEF Inv, CallInv, EnvTypes, SrvType
<1>3. StreamOK /\ WireType
  BY DEF Inv, AnswerInv, CallInv, EnvTypes
<1>4. CASE Excused'
  BY <1>4 DEF StreamOK
<1>5. CASE wire.net # "up"
  <2>1. Stream' = Stream /\ wire'.net # "up"
    BY <1>2, <1>3, <1>5, AnswerUnread
  <2> QED  BY <1>1, <1>3, <2>1, Unread
<1>6. CASE ~Excused' /\ wire.net = "up"
  <2>1. ~Excused
    BY <1>1, <1>6, StillExcused
  <2>2. Asked(m) /\ Stream = <<>> /\ m \in AnyMessage
    BY <1>1, <1>6, <2>1, Asking
  <2>3. session.auth
    <3>1. SrvOK /\ ~HasOk(Stream)
      BY <1>3, <1>6, <2>1, <2>2 DEF StreamOK, HasOk
    <3> QED  BY <1>1, <3>1 DEF SrvOK
  <2>4. pc \in {"header", "pong", "prepared", "infileOK", "infileSkip"}
    <3>1. m.kind = Wanted /\ "none" \notin SetupKinds \cup CommandKinds
      BY <2>2 DEF Asked, SetupKinds, Setup, CommandKinds
    <3>2. Wanted # "none"
      BY <2>2, <3>1 DEF AnyMessage
    <3>3. pc \notin Greeted
      BY <2>3 DEF Inv, AnswerInv, ConnectFirst
    <3> QED  BY <3>2, <3>3, WantedPlaces DEF Greeted
  <2>5. srv'.pc \notin {"gone", "connected"} /\ (srv'.pc = "infile" => script[1].kind = "infile")
    BY <1>2
  <2> HIDE DEF m
  <2>6. CASE pc = "prepared"
    <3>1. m.kind = "prepare" /\ call.kind = "prepare" /\ ~OneResult
      BY <2>2, <2>6, HeadOfTodo, WantedPlaces DEF Asked
    <3>2. script \in PrepareAnswers
      BY <1>2, <3>1 DEF Answers
    <3>3. /\ script \in Seq(Script) /\ script # <<>> /\ script[1].kind \in {"prep0", "prep1", "prep2", "err"}
          /\ Defining(script)
      BY <2>6, <3>2, PrepareAnswersFit
    <3>4. Expected = {"prep0", "prep1", "prep2", "err"}
      BY <2>6, ExpectedAt DEF ByPlace
    <3> QED  BY <1>1, <1>2, <1>6, <2>1, <2>3, <2>5, <3>1, <3>3, <3>4, Answered DEF m
  <2>7. CASE pc # "prepared"
    <3>1. /\ m.kind # "prepare" /\ call.kind # "prepare"
          /\ pc = "header" => (OneResult => m.kind # "query")
          /\ pc # "header" => m.kind \in {"ping", "empty"}
      <4>1. pc \in {"infileOK", "infileSkip"} => call.kind # "prepare"
        BY NotPrepare DEF Reading, DefiningPlaces
      <4> QED  BY <2>2, <2>4, <2>7, <4>1, HeadOfTodo, WantedPlaces DEF Asked
    <3>2. /\ Orderly(script, Starts \cup {"readOnly", "infile"})
          /\ m.kind # "query" => NoMore(script)
          /\ m.kind \notin {"query", "execute", "sysvar"} => Orderly(script, {"ok", "err"})
      BY <1>2, <3>1, AnswersOrderly
    <3>3. script \in Seq(Script) /\ script # <<>> /\ Ordered(script) /\ (OneResult => NoMore(script))
      BY <3>1, <3>2 DEF Orderly
    <3>4. script[1].kind \in Expected /\ (script[1].kind = "infile" => pc = "header")
      <4>1. CASE pc = "header"
        <5>1. Expected = Starts \cup {"readOnly", "infile"}
          BY <4>1, ExpectedAt DEF ByPlace
        <5> QED  BY <3>2, <4>1, <5>1 DEF Orderly
      <4>2. CASE pc # "header"
        <5>1. Expected = {"ok", "err"}
          BY <2>4, <2>7, <4>2, ExpectedAt DEF ByPlace
        <5>2. script[1].kind \in {"ok", "err"}
          BY <3>1, <3>2, <4>2 DEF Orderly
        <5> QED  BY <5>1, <5>2
      <4> QED  BY <4>1, <4>2
    <3> QED  BY <1>1, <1>2, <1>6, <2>1, <2>3, <2>5, <3>1, <3>3, <3>4, Answered DEF m
  <2> QED  BY <2>6, <2>7
<1> QED  BY <1>4, <1>5, <1>6

\* The end of a file is answered by one packet.
LEMMA ServerLoadsOK ==
    ASSUME Inv, "multiInfile" \notin Features, ServerLoads
    PROVE  StreamOK'
<1> DEFINE m == Head(wire.out)
<1>1. /\ srv.pc = "infile" /\ wire.out # <<>> /\ m.kind = "empty" /\ srv'.pc = "ready"
      /\ ClientRests /\ UNCHANGED clientVars
  BY DEF ServerLoads, clientVars, ClientRests, Inv, CallInv, EnvTypes, SrvType
<1>2. PICK script \in {<<P("ok")>>, <<P("err")>>} : Answer(m, script)
  <2>1. \E script \in {<<P("ok")>>, <<P("err")>>}
                      \cup IF "multiInfile" \in Features THEN {<<Packet("ok", TRUE), P("ok")>>} ELSE {} :
             Answer(m, script)
    BY Zenon DEF ServerLoads
  <2> QED  BY <2>1, Zenon
<1>3. StreamOK /\ WireType
  BY DEF Inv, AnswerInv, CallInv, EnvTypes
<1>4. CASE Excused'
  BY <1>4 DEF StreamOK
<1>5. CASE wire.net # "up"
  <2>1. Stream' = Stream /\ wire'.net # "up"
    BY <1>2, <1>3, <1>5, AnswerUnread
  <2> QED  BY <1>1, <1>3, <2>1, Unread
<1>6. CASE ~Excused' /\ wire.net = "up"
  <2>1. ~Excused
    BY <1>1, <1>6, StillExcused
  <2>2. m.kind \notin Silent
    BY <1>1 DEF Silent
  <2>3. Asked(m) /\ Stream = <<>>
    BY <1>1, <1>6, <2>1, <2>2, Asking
  <2>4. pc \in {"infileOK", "infileSkip"}
    <3>1. Wanted = "empty"
      BY <1>1, <2>3 DEF Asked
    <3>2. "empty" \notin Setup \cup CommandKinds \cup {"argError"}
      BY DEF Setup, CommandKinds
    <3>3. pc \notin {"header", "pong", "prepared"}
      BY <3>1, <3>2, HeadOfTodo, WantedPlaces
    <3> QED  BY <3>1, <3>3, WantedPlaces
  <2>5. session.auth
    BY <1>1 DEF Inv, CallInv, AcceptedOK, AnswerInv, ConnectFirst
  <2>6. call.kind # "prepare" /\ Expected = {"ok", "err"}
    BY <2>4, NotPrepare, ExpectedAt DEF Reading, DefiningPlaces, ByPlace
  <2>7. script \in Seq(Script) /\ script # <<>> /\ script[1].kind \in {"ok", "err"} /\ Ordered(script) /\ NoMore(script)
    <3>1. {"ok", "err"} \subseteq PacketKinds
      BY DEF PacketKinds
    <3> QED  BY <1>2, <3>1, OnePacket DEF Orderly
  <2> HIDE DEF m
  <2> QED  BY <1>1, <1>2, <1>6, <2>1, <2>2, <2>5, <2>6, <2>7, Answered DEF m
<1> QED  BY <1>4, <1>5, <1>6

LEMMA ServerTakesOK ==
    ASSUME Inv, ServerTakes
    PROVE  StreamOK'
<1>1. /\ srv.pc \in {"ready", "infile"} /\ wire.out # <<>> /\ wire' = [wire EXCEPT !.out = Tail(@)]
      /\ ClientRests /\ UNCHANGED clientVars
  BY DEF ServerTakes, clientVars, ClientRests
<1>2. srv'.pc = srv.pc
  <2>1. \/ srv' = [srv EXCEPT !.long = Head(wire.out).cmd] \/ srv' = [srv EXCEPT !.long = 0] \/ srv' = srv
    BY DEF ServerTakes
  <2> QED  BY <2>1 DEF Inv, CallInv, EnvTypes, SrvType
<1>3. StreamOK /\ WireType
  BY DEF Inv, AnswerInv, CallInv, EnvTypes
<1>4. wire'.net = wire.net /\ wire'.in = wire.in /\ wire'.buf = wire.buf /\ wire'.out = Tail(wire.out)
  BY <1>1, <1>3 DEF WireType
<1>5. Stream' = Stream
  BY <1>4 DEF Stream
<1>6. ASSUME ~Excused', wire'.net = "up"
      PROVE  OutOK' /\ SrvOK'
  <2>1. OutOK /\ SrvOK
    BY <1>1, <1>3, <1>4, <1>6, StillExcused DEF StreamOK
  <2> DEFINE s == wire.out
  <2>2. /\ Len(s) \in Nat /\ Len(Tail(s)) = Len(s) - 1
        /\ \A i \in 1 .. Len(Tail(s)) : Tail(s)[i] = s[i + 1] /\ i + 1 \in 1 .. Len(s)
    BY <1>1, <1>3, TailFacts DEF WireType
  <2>3. OutOK'
    <3>1. SUFFICES ASSUME NEW i \in 1 .. Len(wire'.out), wire'.out[i].kind \notin Silent
                   PROVE  i = Len(wire'.out) /\ Asked(wire.out[i])' /\ Stream' = <<>>
      BY DEF OutOK
    <3>2. wire'.out[i] = s[i + 1] /\ i + 1 \in 1 .. Len(s)
      BY <1>4, <2>2
    <3>3. i + 1 = Len(s) /\ Asked(s[i + 1]) /\ Stream = <<>>
      BY <2>1, <3>1, <3>2 DEF OutOK
    <3>4. Asked(wire.out[i])'
      BY <1>1, <3>2, <3>3 DEF Asked, Wanted, ClientRests
    <3>5. i = Len(wire'.out)
      <4>1. i \in Nat
        OBVIOUS
      <4> HIDE DEF s
      <4> QED  BY <1>4, <2>2, <3>3, <4>1 DEF s
    <3> QED  BY <1>5, <3>3, <3>4, <3>5
  <2>4. SrvOK'
    BY <1>1, <1>2, <1>5, <2>1 DEF SrvOK, Uploads, ClientRests
  <2> QED  BY <2>3, <2>4
<1>7. Expected' = Expected /\ (OneResult' => OneResult) /\ (~Excused' => ~Excused)
  BY <1>1, StillExcused DEF OneResult, ClientRests
<1> QED  BY <1>1, <1>3, <1>5, <1>6, <1>7, StreamStays DEF ClientRests

\* A connection that is used has not been quit, and one that has been refused is lost.
LEMMA ServerEndsOK ==
    ASSUME Inv, ServerQuits \/ ServerHangsUp
    PROVE  StreamOK'
<1>1. ClientRests /\ StreamOK /\ WireType
  BY DEF ServerQuits, ServerHangsUp, clientVars, ClientRests, Inv, AnswerInv, CallInv, EnvTypes
<1>2. Stream' = Stream
  BY <1>1 DEF ServerQuits, ServerHangsUp, Stream, WireType
<1>3. CASE ServerHangsUp
  <2>1. wire'.net # "up"
    BY <1>1, <1>3 DEF ServerHangsUp, WireType
  <2> QED  BY <1>1, <1>2, <2>1, Unread
<1>4. CASE ServerQuits /\ wire.net # "up"
  <2>1. wire'.net # "up"
    BY <1>1, <1>4 DEF ServerQuits, WireType
  <2> QED  BY <1>1, <1>2, <2>1, Unread
<1>5. CASE ServerQuits /\ wire.net = "up"
  <2>1. CASE Excused'
    BY <2>1 DEF StreamOK
  <2>2. CASE ~Excused'
    <3>1. ~Excused
      BY <1>1, <2>2, StillExcused
    <3>2. wire.out # <<>> /\ Head(wire.out).kind = "quit"
      BY <1>5 DEF ServerQuits
    <3>3. Asked(Head(wire.out))
      BY <1>5, <3>1, <3>2, Asking DEF Silent
    <3>4. Wanted = "quit"
      BY <3>2, <3>3 DEF Asked
    <3>5. "quit" \notin Setup \cup CommandKinds \cup {"argError"}
      BY DEF Setup, CommandKinds
    <3> QED  BY <3>4, <3>5, HeadOfTodo, WantedPlaces
  <2> QED  BY <2>1, <2>2
<1> QED  BY <1>3, <1>4, <1>5

\* The answers of the connection phase.
Handed(script, next) ==
    /\ Orderly(script, Greetings) /\ NoMore(script)
    /\ next \in {"switchData", "fullData", "closing", "ready"}
    /\ next = "ready" => HasOk(script)

LEMMA HandedOne ==
    ASSUME NEW kind \in {"ok", "err", "switch", "moreFull", "moreKey", "key"},
           NEW next \in {"switchData", "fullData", "closing", "ready"}, next = "ready" => kind = "ok"
    PROVE  Handed(<<P(kind)>>, next)
<1>1. kind \in PacketKinds /\ kind \in Greetings
  BY DEF PacketKinds, Greetings
<1>2. Orderly(<<P(kind)>>, {kind}) /\ NoMore(<<P(kind)>>)
  BY <1>1, OnePacket
<1>3. P(kind).kind = kind
  BY <1>1, PacketsOK
<1>4. kind = "ok" => HasOk(<<P(kind)>>)
  BY <1>3 DEF HasOk
<1> QED  BY <1>1, <1>2, <1>4 DEF Handed, Orderly

LEMMA JudgedHanded ==
    ASSUME NEW p, NEW a \in ForPlugin(p) \cup Judged
    PROVE  Handed(a.script, a.next)
<1>1. a.script = <<P("moreFast"), P("ok")>> /\ a.next = "ready" => Handed(a.script, a.next)
  <2> DEFINE b == P("moreFast")
             c == P("ok")
  <2>1. b \in Script /\ c \in Script /\ b.kind = "moreFast" /\ c.kind = "ok" /\ ~c.more
    BY PacketsOK DEF PacketKinds, P, Packet
  <2> HIDE DEF b, c
  <2>2. Follows(b, c) /\ b.kind \in Greetings
    BY <2>1 DEF Follows, Greetings
  <2>3. <<b, c>> \in Seq(Script) /\ Ordered(<<b, c>>)
    BY <2>1, <2>2, Scripts, OrderedTuples
  <2>4. NoMore(<<b, c>>)
    BY <2>1 DEF NoMore
  <2>5. HasOk(<<b, c>>)
    BY <2>1 DEF HasOk
  <2>6. <<b, c>>[1] = b /\ <<b, c>> # <<>>
    OBVIOUS
  <2>7. Handed(<<b, c>>, "ready")
    BY <2>2, <2>3, <2>4, <2>5, <2>6 DEF Handed, Orderly
  <2> QED  BY <2>7 DEF b, c
<1>2. \/ a.script = <<P("moreFast"), P("ok")>> /\ a.next = "ready"
      \/ \E kind \in {"ok", "err", "switch", "moreFull", "moreKey", "key"} :
            /\ a.script = <<P(kind)>> /\ a.next \in {"switchData", "fullData", "closing", "ready"}
            /\ a.next = "ready" => kind = "ok"
  BY DEF ForPlugin, Judged
<1> QED  BY <1>1, <1>2, HandedOne

LEMMA Judging ==
    ASSUME Inv, ServerAuthenticates(Plugins)
    PROVE  \E script, next : Handed(script, next) /\ Answer(Head(wire.out), script) /\ srv'.pc = next
<1> DEFINE m == Head(wire.out)
<1> DEFINE stays == {[script |-> a.script, next |-> a.next,
                      plugin |-> IF a.next = "ready" THEN DefaultPlugin ELSE session.plugin] :
                        a \in ForPlugin(session.plugin)}
           switches == {[script |-> <<P("switch")>>, next |-> "switchData", plugin |-> p] : p \in Plugins}
<1>1. ASSUME NEW a \in stays \cup switches
      PROVE  Handed(a.script, a.next)
  <2>1. CASE a \in stays
    <3>1. PICK b \in ForPlugin(session.plugin) : a.script = b.script /\ a.next = b.next
      BY <2>1
    <3> QED  BY <3>1, JudgedHanded
  <2>2. CASE a \in switches
    <3>1. a.script = <<P("switch")>> /\ a.next = "switchData"
      BY <2>2
    <3> QED  BY <3>1, HandedOne
  <2> QED  BY <2>1, <2>2
<1>2. ASSUME NEW next, NEW p, srv' = [srv EXCEPT !.pc = next, !.plugin = p]
      PROVE  srv'.pc = next
  BY <1>2 DEF Inv, CallInv, EnvTypes, SrvType
<1>3. \/ \E a \in stays \cup switches :
            Answer(m, a.script) /\ srv' = [srv EXCEPT !.pc = a.next, !.plugin = a.plugin]
      \/ srv.pc = "fullData" /\ Answer(m, <<P("key")>>) /\ UNCHANGED srv
      \/ \E a \in Judged :
            Answer(m, a.script) /\ srv' = [srv EXCEPT !.pc = a.next, !.plugin = DefaultPlugin]
  BY DEF ServerAuthenticates
<1> HIDE DEF stays, switches
<1>4. CASE \E a \in stays \cup switches :
            Answer(m, a.script) /\ srv' = [srv EXCEPT !.pc = a.next, !.plugin = a.plugin]
  BY <1>1, <1>2, <1>4
<1>5. CASE srv.pc = "fullData" /\ Answer(m, <<P("key")>>) /\ UNCHANGED srv
  BY <1>5, HandedOne
<1>6. CASE \E a \in Judged :
            Answer(m, a.script) /\ srv' = [srv EXCEPT !.pc = a.next, !.plugin = DefaultPlugin]
  BY <1>2, <1>6, JudgedHanded
<1> QED  BY <1>3, <1>4, <1>5, <1>6

LEMMA ServerAuthenticatesOK ==
    ASSUME Inv, ServerAuthenticates(Plugins)
    PROVE  StreamOK'
<1> DEFINE m == Head(wire.out)
<1>1. /\ wire.out # <<>> /\ m.kind \in {"response", "authData", "keyRequest"}
      /\ ClientRests /\ UNCHANGED clientVars
  BY DEF ServerAuthenticates, clientVars, ClientRests
<1>2. PICK script, next : Handed(script, next) /\ Answer(m, script) /\ srv'.pc = next
  BY Judging
<1>3. StreamOK /\ WireType
  BY DEF Inv, AnswerInv, CallInv, EnvTypes
<1>4. CASE Excused'
  BY <1>4 DEF StreamOK
<1>5. CASE wire.net # "up"
  <2>1. Stream' = Stream /\ wire'.net # "up"
    BY <1>2, <1>3, <1>5, AnswerUnread
  <2> QED  BY <1>1, <1>3, <2>1, Unread
<1>6. CASE ~Excused' /\ wire.net = "up"
  <2>1. ~Excused
    BY <1>1, <1>6, StillExcused
  <2>2. m.kind \notin Silent
    BY <1>1 DEF Silent
  <2>3. Asked(m)
    BY <1>1, <1>6, <2>1, <2>2, Asking
  <2>4. pc \in {"authResult", "key", "authSwitched", "authOK"}
    <3>1. Wanted \in {"response", "authData", "keyRequest"}
      BY <1>1, <2>3 DEF Asked
    <3>2. {"response", "authData", "keyRequest"} \cap (Setup \cup CommandKinds \cup {"argError"}) = {}
      BY DEF Setup, CommandKinds
    <3>3. pc \notin {"header", "pong", "prepared"}
      BY <3>1, <3>2, HeadOfTodo, WantedPlaces
    <3> QED  BY <3>1, <3>3, WantedPlaces
  <2>5. call.kind # "prepare" /\ Expected = Greetings
    BY <2>4, NotPrepare, ExpectedAt DEF Reading, DefiningPlaces, ByPlace
  <2>6. script \in Seq(Script) /\ script # <<>> /\ script[1].kind \in Greetings /\ Ordered(script) /\ NoMore(script)
    BY <1>2 DEF Handed, Orderly
  <2>7. srv'.pc \notin {"gone", "connected", "infile"} /\ (srv'.pc = "ready" => HasOk(script))
    BY <1>2 DEF Handed
  <2> HIDE DEF m
  <2> QED  BY <1>1, <1>2, <1>6, <2>1, <2>2, <2>5, <2>6, <2>7, Answered DEF m
<1> QED  BY <1>4, <1>5, <1>6

\* The greeting, or a refusal, is the first packet, and number 0.
LEMMA ServerGreetsOK ==
    ASSUME Inv, ServerGreets(Plugins)
    PROVE  StreamOK'
<1>1. srv.pc = "connected" /\ wire.net = "up" /\ ClientRests
  BY DEF ServerGreets, clientVars, ClientRests
<1>2. PICK kind \in {"greeting", "err"} : Send(<<P(kind)>>, 0)
  BY DEF ServerGreets
<1>3. srv'.pc \in {"response", "closing"}
  <2>1. \/ \E p : srv' = [srv EXCEPT !.pc = "response", !.plugin = p]
        \/ srv' = [srv EXCEPT !.pc = "closing"]
    BY DEF ServerGreets
  <2> QED  BY <2>1 DEF Inv, CallInv, EnvTypes, SrvType
<1>4. StreamOK /\ WireType /\ ConnectFirst
  BY DEF Inv, AnswerInv, CallInv, EnvTypes
<1>5. CASE Excused'
  BY <1>5 DEF StreamOK
<1>6. CASE ~Excused'
  <2>1. ~Excused /\ Expected' = Expected
    BY <1>1, <1>6, StillExcused
  <2>2. /\ Stream = <<>> /\ wire.out = <<>> /\ conn.seq = 0 /\ call.kind = "connect" /\ pc \in {"watch", "greeting"}
    BY <1>1, <1>4, <2>1 DEF StreamOK, SrvOK
  <2>3. call.id = 1
    BY <1>4, <2>2 DEF ConnectFirst
  <2>4. Expected = Greetings
    BY <2>2, ExpectedAt DEF ByPlace
  <2> DEFINE m == [cmd |-> 1, seq |-> 0 - 1]
             new == Numbered(<<P(kind)>>, m)
             p == [kind |-> P(kind).kind, more |-> P(kind).more, cmd |-> 1, seq |-> 0]
  <2>5. new = <<p>> /\ p.kind = kind /\ p.cmd = 1 /\ p.seq = 0 /\ p \in AnyPacket
    <3>1. kind \in PacketKinds
      BY DEF PacketKinds
    <3>2. P(kind) \in Script /\ P(kind).kind = kind
      BY <3>1, PacketsOK
    <3>3. DOMAIN <<P(kind)>> = 1 .. 1 /\ <<P(kind)>>[1] = P(kind) /\ m.cmd = 1 /\ m.seq + 1 = 0
      OBVIOUS
    <3>4. new = [i \in 1 .. 1 |-> p]
      BY <3>3 DEF Numbered
    <3> QED  BY <3>1, <3>2, <3>4 DEF Script, AnyPacket
  <2> HIDE DEF p
  <2>6. wire'.buf = <<>> /\ wire'.in = <<>> \o new /\ wire'.out = <<>>
    <3>1. wire.buf = <<>> /\ wire.in = <<>>
      BY <1>4, <2>2, StreamType
    <3> HIDE DEF new
    <3>2. wire' = [wire EXCEPT !.in = wire.in \o new]
      BY <1>2 DEF Send, new
    <3> QED  BY <1>4, <2>2, <3>1, <3>2 DEF WireType
  <2> HIDE DEF m
  <2>7. Stream' = <<p>>
    <3>1. <<p>> \in Seq(AnyPacket)
      BY <2>5
    <3> QED  BY <2>5, <2>6, <3>1, ConcatEmptySeq DEF Stream
  <2>8. Expects(Stream)'
    <3>1. p.kind \in Greetings
      BY <2>5 DEF Greetings
    <3>2. Mine(Stream)'
      BY <1>1, <2>2, <2>3, <2>5, <2>7 DEF Mine, ClientRests
    <3>3. NoMore(Stream)'
      BY <2>5, <2>7, <1>2 DEF NoMore
    <3>4. Ordered(Stream)'
      BY <2>7 DEF Ordered
    <3>5. call'.kind # "prepare"
      BY <1>1, <2>2 DEF ClientRests
    <3> QED  BY <2>1, <2>4, <2>7, <3>1, <3>2, <3>3, <3>4, <3>5 DEF Expects
  <2>9. OutOK' /\ SrvOK'
    BY <1>3, <2>6 DEF OutOK, SrvOK
  <2> QED  BY <2>8, <2>9 DEF StreamOK
<1> QED  BY <1>5, <1>6

LEMMA ServerStream ==
    ASSUME Inv, "multiInfile" \notin Features, ServerStep
    PROVE  StreamOK'
BY ServerGreetsOK, ServerAuthenticatesOK, ServerEndsOK, ServerAnswersOK, ServerTakesOK, ServerLoadsOK
   DEF ServerStep

-----------------------------------------------------------------------------
(* What a call has left to send, and where it may be *)

\* Rows are opened, and found to be binary, where a statement's answer is read.
RowsFit ==
    /\ rows'.open /\ call.kind \in {"stmtExec", "stmtQuery"} => rows.open \/ pc \in Reading
    /\ rows'.binary => rows.binary \/ (call.kind = "stmtQuery" /\ pc \in Reading)
\* After a step of the client the call is not before its watch again.
Placed ==
    /\ PlaceInv'
    /\ pc' \notin {"precheck", "watch", "dial"}
    /\ pc' \in Greeted => ~session'.auth

LEMMA ExecuteOnly ==
    ASSUME Inv, RowsFit
    PROVE  /\ rows'.binary => call.todo = <<"execute">>
           /\ rows'.open /\ call.kind \in {"stmtExec", "stmtQuery"} => call.todo = <<"execute">>
BY DEF RowsFit, Inv, AnswerInv, PlaceInv, TodoOK

\* A call that has returned.
LEMMA ReturnPlaced ==
    ASSUME Inv, Goes, RowsFit, NEW e, Return(e), pc \notin {"idle", "gone", "abandon", "finish"}
    PROVE  Placed
<1>1. PlaceInv /\ CallInv /\ (rows'.binary => call.todo = <<"execute">>)
      /\ (rows'.open /\ call.kind \in {"stmtExec", "stmtQuery"} => call.todo = <<"execute">>)
  BY ExecuteOnly DEF Inv, AnswerInv
<1>2. CASE e # "ok" /\ call.kind = "connect" /\ pc' = "write" /\ res' = res
  <2>1. ~rows'.binary
    <3>1. call.todo # <<"execute">>
      <4>1. call.todo \in Seq(Setup)
        BY <1>1, <1>2, ConnectPlaces
      <4>2. <<"execute">> \notin Seq(Setup)
        BY ElementOfSeq DEF Setup
      <4> QED  BY <4>1, <4>2
    <3> QED  BY <1>1, <3>1
  <2>2. TodoOK'
    BY <1>1, <1>2, <2>1 DEF Goes, PlaceInv, TodoOK
  <2>3. ByKindOK' /\ ResOK'
    BY <1>1, <1>2 DEF Goes, PlaceInv, ByKindOK, ResOK, DefiningPlaces
  <2> QED  BY <1>2, <2>2, <2>3 DEF Placed, PlaceInv, Greeted
<1>3. CASE pc' = After(e) /\ pc' \in {"idle", "abandon", "finish"} /\ call' = call
           /\ (call.kind = "connect" => pc' = IF e = "ok" THEN "finish" ELSE "abandon")
  <2>1. call.kind = "prepare" => pc' = "finish"
    BY <1>3 DEF After
  <2>2. TodoOK'
    BY <1>1, <1>3 DEF PlaceInv, TodoOK, Reading, Uploading
  <2>3. ByKindOK' /\ ResOK'
    BY <1>1, <1>3, <2>1 DEF PlaceInv, ByKindOK, ResOK, DefiningPlaces
  <2> QED  BY <1>3, <2>2, <2>3 DEF Placed, PlaceInv, Greeted
<1> QED  BY <1>1, <1>2, <1>3, Returned

LEMMA FailsPlaced ==
    ASSUME Inv, Goes, RowsFit, Fails, pc \notin {"idle", "gone", "abandon", "finish"}
    PROVE  Placed
BY ReturnPlaced DEF Fails

\* A call that goes on.
LEMMA GoOnPlaced ==
    ASSUME Inv, Goes, RowsFit, NEW next, GoOn(next),
           next = "finish" \/ pc \notin {"idle", "gone", "abandon", "finish"},
           next \notin {"precheck", "watch", "dial", "nextRow", "closeFinish", "closeRows", "idle", "gone"},
           call.kind = "prepare" => next \in {"write"} \cup DefiningPlaces,
           next \in DefiningPlaces => call.kind = "prepare",
           next = "pong" => call.kind = "ping",
           call.kind = "stmtQuery" => next \notin {"rows", "nextResultSet"},
           next = "row" => call.kind = "next" /\ rows'.mc /\ (rows'.done => rows'.binary),
           call.kind \in {"stmtExec", "stmtQuery"} /\ next \in Reading \cup Uploading
              => call.todo = <<"execute">>,
           next \in Greeted => ~session'.auth
    PROVE  Placed
<1>1. PlaceInv /\ CallInv /\ (rows'.binary => call.todo = <<"execute">>)
      /\ (rows'.open /\ call.kind \in {"stmtExec", "stmtQuery"} => call.todo = <<"execute">>)
  BY ExecuteOnly DEF Inv, AnswerInv
<1>2. pc' = next /\ call' = call /\ res' = res
  BY DEF GoOn
<1>3. TodoOK'
  BY <1>1, <1>2 DEF PlaceInv, TodoOK
<1>4. ByKindOK'
  BY <1>1, <1>2 DEF PlaceInv, ByKindOK
<1>5. ResOK'
  BY <1>1, <1>2 DEF PlaceInv, ResOK
<1> QED  BY <1>2, <1>3, <1>4, <1>5 DEF Placed, PlaceInv

\* A call that goes on with its next command.
LEMMA NextTodoPlaced ==
    ASSUME Inv, Goes, NEW t, call' = [call EXCEPT !.todo = t], pc' \in {"check", "write"}, res' = res,
           pc \notin {"idle", "gone", "abandon", "finish"},
           call.kind # "prepare", call.kind # "connect" => t \in TodosOf(call.kind),
           rows'.open => call.kind \notin {"stmtExec", "stmtQuery"}, ~rows'.binary
    PROVE  Placed
<1>1. PlaceInv
  BY DEF Inv, AnswerInv
<1>2. call'.todo = t /\ call'.kind = call.kind
  BY DEF Goes, WatchInv, Shapes, CallShape
<1>3. TodoOK'
  BY <1>1, <1>2 DEF PlaceInv, TodoOK, Reading, Uploading
<1>4. ByKindOK' /\ ResOK'
  BY <1>1, <1>2 DEF PlaceInv, ByKindOK, ResOK, DefiningPlaces
<1> QED  BY <1>3, <1>4 DEF Placed, PlaceInv, Greeted

\* Where nothing is read the Rows stay as they are.
LEMMA RowsUnread ==
    ASSUME UNCHANGED rows
    PROVE  RowsFit
BY DEF RowsFit

\* The command that is written next.
LEMMA HeadOfWritten ==
    ASSUME Inv, pc = "write"
    PROVE  /\ Head(call.todo) = "prepare" <=> call.kind = "prepare"
           /\ Head(call.todo) = "ping" => call.kind = "ping"
           /\ call.kind \in {"stmtExec", "stmtQuery"} /\ Head(call.todo) \notin {"longData", "argError"}
              => call.todo = <<"execute">>
<1>1. CallInv /\ TodoOK
  BY DEF Inv, AnswerInv, PlaceInv
<1>2. CASE call.kind = "connect"
  <2>1. call.todo \in Seq(Setup) /\ call.todo # <<>>
    BY <1>1, <1>2, ConnectPlaces DEF SettingUp
  <2>2. Head(call.todo) \in Setup
    BY <2>1, SetupFacts
  <2> QED  BY <1>2, <2>2 DEF Setup
<1>3. CASE call.kind # "connect"
  <2>1. call.todo \in TodosOf(call.kind) /\ call.kind \in AllKinds
    BY <1>1, <1>3 DEF TodoOK
  <2> QED  BY <2>1 DEF TodosOf, AllKinds, RowsKinds, LongDataTodos
<1> QED  BY <1>2, <1>3

\* A step that returns, fails or goes on without reading.
LEMMA SendingPlaced ==
    ASSUME Inv, Goes, SendingSteps
    PROVE  Placed
<1>1. /\ UNCHANGED <<rows>>
      /\ pc \in {"check", "write", "unanswered", "header", "infileData", "infileEnd", "infileAbort", "infileSkip"}
  BY DEF SendingSteps, CheckClosed, WriteQuery, WriteUnanswered, Unanswered, ArgumentError,
         InfileRequest, InfileData, InfileEnd, InfileSkip
<1>2. RowsFit /\ pc \notin {"idle", "gone", "abandon", "finish"} /\ WatchInv
  BY <1>1, RowsUnread DEF Goes
<1>3. TodoOK /\ ByKindOK /\ CallInv
  BY DEF Inv, AnswerInv, PlaceInv
<1>4. CASE CheckClosed
  <2>1. Return("badConn") \/ GoOn("write")
    BY <1>4 DEF CheckClosed
  <2> QED  BY <1>2, <2>1, ReturnPlaced, GoOnPlaced DEF DefiningPlaces, Greeted, Reading, Uploading
<1>5. CASE WriteQuery
  <2> DEFINE next == AfterCommand(Head(call.todo))
  <2>1. pc = "write" /\ Head(call.todo) \notin {"longData", "argError", "stmtClose"}
    BY <1>5 DEF WriteQuery
  <2>2. GoOn(next) \/ Fails \/ Return("tooLarge")
    BY <1>2, <1>5, Commanded DEF WriteQuery
  <2>3. /\ next \in {"pong", "prepared", "header"}
        /\ next = "prepared" <=> Head(call.todo) = "prepare"
        /\ next = "pong" => Head(call.todo) = "ping"
    BY DEF AfterCommand
  <2> HIDE DEF next
  <2>4. /\ next = "prepared" <=> call.kind = "prepare"
        /\ next = "pong" => call.kind = "ping"
        /\ call.kind \in {"stmtExec", "stmtQuery"} => call.todo = <<"execute">>
    BY <2>1, <2>3, HeadOfWritten
  <2>5. GoOn(next) => Placed
    BY <1>2, <2>3, <2>4, GoOnPlaced DEF DefiningPlaces, Greeted
  <2> QED  BY <1>2, <2>2, <2>5, ReturnPlaced, FailsPlaced
<1>6. CASE WriteUnanswered
  <2>1. /\ pc = "write" /\ Head(call.todo) \in {"longData", "stmtClose"}
        /\ GoOn("unanswered") \/ Fails
    BY <1>2, <1>6, Commanded DEF WriteUnanswered
  <2>2. call.kind # "prepare"
    BY <2>1, HeadOfWritten
  <2> QED
    BY <1>2, <2>1, <2>2, FailsPlaced, GoOnPlaced DEF DefiningPlaces, Greeted, Reading, Uploading
<1>7. CASE Unanswered
  <2>1. pc = "unanswered"
    BY <1>7 DEF Unanswered
  <2>2. CASE call.kind = "stmtClose"
    <3>1. Return("ok")
      BY <1>7, <2>2 DEF Unanswered
    <3> QED  BY <1>2, <3>1, ReturnPlaced
  <2>3. CASE call.kind # "stmtClose"
    <3>1. PICK t : t = Tail(call.todo) /\ call' = [call EXCEPT !.todo = t] /\ pc' = "write" /\ res' = res
      BY <1>7, <2>3 DEF Unanswered
    <3>2. call.todo \in LongDataTodos
      BY <1>3, <2>1, <2>3 DEF CallInv, CallType
    <3>3. Tail(<<"longData", "execute">>) = <<"execute">>
          /\ Tail(<<"longData", "argError">>) = <<"argError">>
      OBVIOUS
    <3>4. t \in {<<"execute">>, <<"argError">>}
      BY <3>1, <3>2, <3>3 DEF LongDataTodos
    <3>5. call.todo # <<"execute">>
      BY <3>2 DEF LongDataTodos
    <3>6. call.kind \in {"connect", "stmtExec", "stmtQuery"}
      BY <1>3, <3>2 DEF TodoOK, TodosOf, AllKinds, RowsKinds, LongDataTodos
    <3>7. call.kind # "connect"
      BY <1>3, <2>1, PlacesOf
    <3>8. call.kind # "connect" => t \in TodosOf(call.kind)
      <4>1. TodosOf(call.kind) = LongDataTodos \cup {<<"execute">>, <<"argError">>}
        BY <3>6, <3>7 DEF TodosOf, RowsKinds
      <4> QED  BY <3>4, <4>1
    <3>9. (rows'.open => call.kind \notin {"stmtExec", "stmtQuery"}) /\ ~rows'.binary
      BY <1>1, <1>3, <3>5 DEF TodoOK
    <3> QED  BY <1>2, <3>1, <3>6, <3>8, <3>9, NextTodoPlaced
  <2> QED  BY <2>2, <2>3
<1>8. CASE ArgumentError \/ InfileSkip
  <2>1. Return("local")
    BY <1>8 DEF ArgumentError, InfileSkip
  <2> QED  BY <1>2, <2>1, ReturnPlaced
<1>9. CASE InfileRequest \/ InfileData \/ InfileEnd
  <2>1. pc \in {"header"} \cup Uploading
    BY <1>9 DEF InfileRequest, InfileData, InfileEnd, Uploading
  <2>2. \/ \E next \in Uploading : GoOn(next)
        \/ \E kind : \E next \in Uploading \cup {"infileOK", "infileSkip"} : WritePacket(conn, Upload(kind), next)
    BY <1>9 DEF InfileRequest, InfileData, InfileEnd, Uploading
  <2>3. Fails \/ \E next \in Uploading \cup {"infileOK", "infileSkip"} : GoOn(next)
    BY <1>2, <2>2, Writes, Numbers
  <2>4. call.kind # "prepare" /\ pc \in Reading \cup Uploading
    BY <1>3, <2>1 DEF ByKindOK, DefiningPlaces, Uploading, Reading
  <2>5. call.kind \in {"stmtExec", "stmtQuery"} => call.todo = <<"execute">>
    BY <1>3, <2>4 DEF TodoOK
  <2>6. ASSUME NEW next \in Uploading \cup {"infileOK", "infileSkip"}, GoOn(next)
        PROVE  Placed
    BY <1>2, <2>4, <2>5, <2>6, GoOnPlaced DEF DefiningPlaces, Greeted, Uploading
  <2> QED  BY <1>2, <2>3, <2>6, FailsPlaced
<1> QED  BY <1>4, <1>5, <1>6, <1>7, <1>8, <1>9 DEF SendingSteps

\* All results of a command have been read.
LEMMA CommandDonePlaced ==
    ASSUME Inv, Goes, CommandDone, UNCHANGED rows, ~Iterating, pc \in {"header", "infileOK", "rows"}
    PROVE  Placed
<1> DEFINE t == IF CharsetLeft THEN Tail(Tail(call.todo)) ELSE Tail(call.todo)
<1>1. /\ TodoOK /\ ByKindOK /\ CallInv /\ RowsFit /\ ~rows.open
      /\ pc \notin {"idle", "gone", "abandon", "finish"} /\ pc \in Reading /\ call.kind # "prepare"
  <2>1. TodoOK /\ ByKindOK /\ CallInv /\ RowsFit
    BY RowsUnread DEF Inv, AnswerInv, PlaceInv
  <2> QED  BY <2>1 DEF CallInv, CallType, Reading, ByKindOK, DefiningPlaces
<1>2. CASE t = <<>>
  <2>1. Return("ok")
    BY <1>2 DEF CommandDone
  <2> QED  BY <1>1, <2>1, ReturnPlaced
<1>3. CASE t # <<>>
  <2>1. call' = [call EXCEPT !.todo = t] /\ pc' \in {"check", "write"} /\ res' = res
    BY <1>3 DEF CommandDone
  <2>2. CASE call.kind = "connect"
    <3>1. call.todo # <<"execute">>
      <4>1. call.todo \in Seq(Setup)
        BY <1>1, <2>2, ConnectPlaces
      <4>2. <<"execute">> \notin Seq(Setup)
        BY ElementOfSeq DEF Setup
      <4> QED  BY <4>1, <4>2
    <3>2. ~rows'.binary
      BY <1>1, <3>1 DEF TodoOK
    <3> HIDE DEF t
    <3> QED  BY <1>1, <2>1, <2>2, <3>2, NextTodoPlaced
  <2>3. CASE call.kind # "connect"
    <3>1. t = Tail(call.todo)
      BY <1>1, <2>3, CharsetsLeft
    <3>2. call.todo \in TodosOf(call.kind) /\ call.kind \in AllKinds
      BY <1>1, <2>3 DEF TodoOK
    <3>3. call.todo \notin {<<"query">>, <<"execute">>, <<"argError">>, <<"end">>, <<"begin">>, <<"ping">>,
                            <<"prepare">>, <<"stmtClose">>}
      <4>1. \A x : Tail(<<x>>) = <<>>
        OBVIOUS
      <4>2. \A x : call.todo # <<x>>
        BY <1>3, <3>1, <4>1
      <4> QED  BY <4>2
    <3>4. CASE call.kind \in {"stmtExec", "stmtQuery"}
      BY <1>1, <3>3, <3>4 DEF TodoOK
    <3>5. CASE call.kind \notin {"stmtExec", "stmtQuery"}
      <4>1. call.kind = "begin" /\ call.todo = <<"set", "begin">>
        <5>1. call.kind \in {"exec", "query"} => call.todo = <<"query">>
          BY <3>2 DEF TodosOf, RowsKinds
        <5>2. call.kind \in RowsKinds => call.todo \in {<<"query">>, <<"execute">>}
          BY <3>2 DEF TodosOf, RowsKinds
        <5>3. call.kind \in {"commit", "rollback"} => call.todo = <<"end">>
          BY <3>2 DEF TodosOf, RowsKinds
        <5>4. /\ call.kind = "begin" => call.todo \in {<<"begin">>, <<"set", "begin">>}
              /\ call.kind = "ping" => call.todo = <<"ping">>
              /\ call.kind = "prepare" => call.todo = <<"prepare">>
              /\ call.kind = "stmtClose" => call.todo = <<"stmtClose">>
          BY <3>2 DEF TodosOf, RowsKinds
        <5> QED  BY <2>3, <3>2, <3>3, <3>5, <5>1, <5>2, <5>3, <5>4 DEF AllKinds
      <4>2. t = <<"begin">>
        BY <3>1, <4>1
      <4> HIDE DEF t
      <4>3. t \in TodosOf(call.kind)
        BY <4>1, <4>2 DEF TodosOf, RowsKinds
      <4>4. ~rows'.binary
        BY <1>1, <4>1 DEF TodoOK
      <4> QED  BY <1>1, <2>1, <2>3, <3>5, <4>3, <4>4, NextTodoPlaced
    <3> QED  BY <3>4, <3>5
  <2> QED  BY <2>2, <2>3
<1> QED  BY <1>2, <1>3

LEMMA AfterResultPlaced ==
    ASSUME Inv, Goes, NEW more, AfterResult(more), pc \in {"header", "infileOK", "rows"}
    PROVE  Placed
<1>1. /\ TodoOK /\ ByKindOK /\ RowsShape
      /\ pc \notin {"idle", "gone", "abandon", "finish"} /\ pc \in Reading /\ call.kind # "prepare"
  <2>1. TodoOK /\ ByKindOK /\ RowsShape
    BY DEF Inv, AnswerInv, PlaceInv, Goes, WatchInv, Shapes
  <2> QED  BY <2>1 DEF Reading, ByKindOK, DefiningPlaces
<1>2. CASE Iterating /\ call.kind = "stmtQuery"
  <2>1. Return("ok")
    BY <1>2 DEF AfterResult
  <2>2. RowsFit
    BY <1>1, <1>2 DEF RowsFit
  <2> QED  BY <1>1, <2>1, <2>2, ReturnPlaced
<1>3. CASE Iterating /\ call.kind # "stmtQuery"
  <2>1. GoOn("nextResultSet") /\ rows' = [rows EXCEPT !.mc = TRUE, !.done = TRUE]
    BY <1>3 DEF AfterResult
  <2>2. RowsFit
    BY <1>1, <2>1 DEF RowsFit, RowsShape
  <2> QED
    BY <1>1, <1>3, <2>1, <2>2, GoOnPlaced DEF DefiningPlaces, Greeted, Reading, Uploading
<1>4. CASE ~Iterating
  <2>1. UNCHANGED rows /\ (GoOn("header") \/ CommandDone)
    BY <1>4 DEF AfterResult
  <2>2. GoOn("header") => Placed
    <3>1. call.kind \in {"stmtExec", "stmtQuery"} => call.todo = <<"execute">>
      BY <1>1 DEF TodoOK
    <3> QED  BY <1>1, <2>1, <3>1, RowsUnread, GoOnPlaced DEF DefiningPlaces, Greeted
  <2> QED  BY <1>4, <2>1, <2>2, CommandDonePlaced
<1> QED  BY <1>2, <1>3, <1>4

LEMMA ReadingPlaced ==
    ASSUME Inv, Goes, ReadingSteps
    PROVE  Placed
<1>1. pc \in Reading
  BY DEF ReadingSteps, OkPacket, Pong, Header, Columns, SkipRow, RowsEnd, ErrorPacket, Prepared,
         Definitions, CommandFails, Reading
<1>2. /\ TodoOK /\ ByKindOK /\ RowsShape /\ WatchInv
      /\ pc \notin {"idle", "gone", "abandon", "finish"} /\ (pc \notin DefiningPlaces => call.kind # "prepare")
      /\ call.kind \in {"stmtExec", "stmtQuery"} => call.todo = <<"execute">>
  <2>1. TodoOK /\ ByKindOK /\ RowsShape /\ WatchInv
    BY DEF Inv, AnswerInv, PlaceInv, Goes, WatchInv, Shapes
  <2> QED  BY <1>1, <2>1 DEF Reading, ByKindOK, TodoOK
<1>3. CASE OkPacket \/ RowsEnd
  BY <1>3, AfterResultPlaced DEF OkPacket, RowsEnd
<1>4. CASE Pong \/ Prepared \/ Definitions
  <2>1. UNCHANGED rows /\ (Return("ok") \/ (pc \in DefiningPlaces /\ \E next \in DefiningPlaces : GoOn(next)))
    BY <1>4 DEF Pong, Prepared, Definitions, DefiningPlaces, Receive, Expect
  <2>2. ASSUME NEW next \in DefiningPlaces, GoOn(next), pc \in DefiningPlaces
        PROVE  Placed
    <3>1. call.kind = "prepare"
      BY <1>2, <2>2 DEF ByKindOK
    <3> QED  BY <1>2, <2>1, <2>2, <3>1, RowsUnread, GoOnPlaced DEF DefiningPlaces, Greeted
  <2> QED  BY <1>2, <2>1, <2>2, RowsUnread, ReturnPlaced
<1>5. CASE Header
  <2>1. pc = "header" /\ UNCHANGED rows /\ GoOn("columns")
    BY <1>5 DEF Header
  <2> QED  BY <1>2, <2>1, RowsUnread, GoOnPlaced DEF DefiningPlaces, Greeted
<1>6. CASE Columns
  <2>1. pc = "columns"
    BY <1>6 DEF Columns
  <2>2. CASE Iterating
    <3>1. Return("ok") /\ rows' = [open |-> TRUE, mc |-> TRUE, done |-> FALSE,
                                   binary |-> rows.binary \/ call.kind = "stmtQuery"]
      BY <1>6, <2>2 DEF Columns
    <3>2. RowsFit
      BY <1>1, <3>1 DEF RowsFit
    <3> QED  BY <1>2, <3>1, <3>2, ReturnPlaced
  <2>3. CASE ~Iterating
    <3>1. UNCHANGED rows /\ (GoOn("variable") \/ GoOn("rows"))
      BY <1>6, <2>3 DEF Columns
    <3>2. call.kind # "stmtQuery"
      BY <2>3 DEF Iterating, QueryKinds
    <3> QED  BY <1>2, <2>1, <3>1, <3>2, RowsUnread, GoOnPlaced DEF DefiningPlaces, Greeted
  <2> QED  BY <2>2, <2>3
<1>7. CASE SkipRow
  <2>1. pc = "rows" /\ UNCHANGED rows /\ GoOn("rows")
    BY <1>7 DEF SkipRow, clientVars, GoOn
  <2>2. call.kind # "stmtQuery"
    BY <1>2, <2>1 DEF ByKindOK
  <2> QED  BY <1>2, <2>1, <2>2, RowsUnread, GoOnPlaced DEF DefiningPlaces, Greeted
<1>8. CASE ErrorPacket
  <2>1. rows' = [rows EXCEPT !.mc = @ /\ pc # "row"] /\ (Return("badConn") \/ Return("err"))
    BY <1>8 DEF ErrorPacket
  <2>2. RowsFit
    BY <1>2, <2>1 DEF RowsFit, RowsShape
  <2> QED  BY <1>2, <2>1, <2>2, ReturnPlaced
<1>9. CASE CommandFails
  <2>1. UNCHANGED rows /\ Fails
    BY <1>2, <1>9, ReadingFails DEF CommandFails
  <2> QED  BY <1>2, <2>1, RowsUnread, FailsPlaced
<1> QED  BY <1>3, <1>4, <1>5, <1>6, <1>7, <1>8, <1>9 DEF ReadingSteps

\* Rows are iterated, and closed, by calls of their own.
LEMMA IteratingPlaced ==
    ASSUME Inv, Goes, IteratingSteps
    PROVE  Placed
<1>1. pc \in {"nextRow", "row", "nextResultSet", "closeRows"}
  BY DEF IteratingSteps, NextRow, Row, NextResultSet, CloseRows
<1>2. /\ TodoOK /\ ByKindOK /\ RowsShape /\ WatchInv
      /\ pc \notin {"idle", "gone", "abandon", "finish"} /\ call.kind \notin {"prepare", "stmtQuery", "stmtExec"}
  <2>1. TodoOK /\ ByKindOK /\ RowsShape /\ WatchInv /\ CallInv
    BY DEF Inv, AnswerInv, PlaceInv, Goes, WatchInv, Shapes
  <2>2. call.kind # "stmtExec"
    <3>1. pc = "nextResultSet" => Iterating
      BY <2>1 DEF CallInv, CallType
    <3> QED  BY <1>1, <2>1, <3>1 DEF ByKindOK, Iterating, QueryKinds
  <2> QED  BY <1>1, <2>1, <2>2 DEF ByKindOK, DefiningPlaces
<1>3. CASE NextRow
  <2>1. UNCHANGED rows /\ \E e : Return(e) \/ (GoOn("row") /\ rows.mc /\ (rows.done => rows.binary))
    <3>1. ~conn.closed \/ conn.closed
      OBVIOUS
    <3> QED  BY <1>3, <3>1 DEF NextRow
  <2>2. call.kind = "next"
    BY <1>2, <1>3 DEF NextRow, ByKindOK
  <2>3. GoOn("row") /\ rows.mc /\ (rows.done => rows.binary) => Placed
    BY <1>2, <2>1, <2>2, RowsUnread, GoOnPlaced DEF DefiningPlaces, Greeted
  <2> QED  BY <1>2, <2>1, <2>3, RowsUnread, ReturnPlaced
<1>4. CASE Row
  <2>1. /\ \E e : Return(e)
        /\ \/ UNCHANGED rows
           \/ rows' = [rows EXCEPT !.done = TRUE, !.mc = NextPacket.more]
           \/ rows' = [rows EXCEPT !.mc = FALSE]
    BY <1>4 DEF Row
  <2>2. RowsFit
    BY <1>2, <2>1 DEF RowsFit, RowsShape
  <2> QED  BY <1>2, <2>1, <2>2, ReturnPlaced
<1>5. CASE NextResultSet
  <2>1. RowsFit
    BY <1>2, <1>5 DEF NextResultSet, RowsFit, RowsShape
  <2>2. (\E e : Return(e)) \/ GoOn("header") \/ GoOn("rows")
    BY <1>5 DEF NextResultSet
  <2>3. GoOn("header") \/ GoOn("rows") => Placed
    BY <1>2, <2>1, GoOnPlaced DEF DefiningPlaces, Greeted
  <2> QED  BY <1>2, <2>1, <2>2, <2>3, ReturnPlaced
<1>6. CASE CloseRows
  <2>1. UNCHANGED rows /\ ((\E e : Return(e)) \/ GoOn("header") \/ GoOn("rows"))
    BY <1>6 DEF CloseRows
  <2>2. GoOn("header") \/ GoOn("rows") => Placed
    BY <1>2, <2>1, RowsUnread, GoOnPlaced DEF DefiningPlaces, Greeted
  <2> QED  BY <1>2, <2>1, <2>2, RowsUnread, ReturnPlaced
<1> QED  BY <1>3, <1>4, <1>5, <1>6 DEF IteratingSteps

\* What a step of the handshake does to the session, and where it leads.
LEMMA HandshakePlaced ==
    ASSUME Inv, Goes, HandshakeSteps
    PROVE  Placed
<1>1. UNCHANGED rows /\ pc \in Greeted \cup {"variable", "abandon"}
  BY DEF HandshakeSteps, Greeting, StartTls, TlsHandshake, Respond, AuthResult, AuthAnswer, AskKey,
         Key, AuthOK, Variable, Abandon, Greeted
<1>2. /\ RowsFit /\ WatchInv /\ EnvTypes /\ ByKindOK /\ ConnectFirst
      /\ pc \notin {"idle", "gone", "finish"}
      /\ call.kind \notin {"prepare", "stmtQuery"}
  <2>1. RowsFit /\ WatchInv /\ EnvTypes /\ ByKindOK /\ PlacesOK /\ ConnectFirst
    BY <1>1, RowsUnread DEF Inv, AnswerInv, PlaceInv, Goes, WatchInv
  <2> QED  BY <1>1, <2>1 DEF Greeted, ByKindOK, DefiningPlaces, PlacesOK, QueryKinds, QueryPcs
<1>3. pc \in Greeted => call.kind = "connect" /\ ~session.auth
  BY <1>2 DEF ConnectFirst
<1>4. ASSUME NEW next, GoOn(next), pc # "abandon",
             next \in Greeted \cup {"write", "rows"}, next \in Greeted => pc \in Greeted /\ session'.auth = session.auth,
             next = "rows" => pc = "variable", next = "write" => pc \in Greeted
      PROVE  Placed
  <2>1. call.kind \in {"stmtExec", "stmtQuery"} /\ next \in Reading \cup Uploading => call.todo = <<"execute">>
    <3>1. pc \in Greeted => call.kind = "connect"
      BY <1>3
    <3>2. pc = "variable" => pc \in Reading
      BY DEF Reading
    <3> QED  BY <1>1, <1>4, <3>1, <3>2 DEF Inv, AnswerInv, PlaceInv, TodoOK
  <2>2. next \notin DefiningPlaces \cup {"precheck", "watch", "dial", "nextRow", "closeFinish", "closeRows", "idle",
                                         "gone", "pong", "nextResultSet", "row", "finish"}
    BY <1>4 DEF Greeted, DefiningPlaces
  <2> QED  BY <1>2, <1>3, <1>4, <2>1, <2>2, GoOnPlaced
<1>5. ASSUME NEW e, Return(e), pc # "abandon"
      PROVE  Placed
  BY <1>2, <1>5, ReturnPlaced
<1>6. CASE Abandon
  <2>1. GoOn("finish")
    BY <1>6 DEF Abandon
  <2> QED  BY <1>2, <2>1, GoOnPlaced DEF DefiningPlaces, Greeted, Reading, Uploading
<1>7. CASE Greeting
  <2>1. /\ pc = "greeting"
        /\ (\E e : Return(e)) \/ \E next \in {"tls", "respond"} : GoOn(next)
        /\ UNCHANGED session \/ \E p : session' = [session EXCEPT !.plugin = p]
    BY <1>7 DEF Greeting
  <2>2. session'.auth = session.auth
    BY <1>2, <2>1 DEF EnvTypes, SessionType
  <2> QED  BY <1>4, <1>5, <2>1, <2>2 DEF Greeted
<1>8. CASE StartTls \/ Respond \/ AuthAnswer
  <2>1. /\ pc \in {"tls", "respond", "switchAnswer", "fullAnswer"} /\ UNCHANGED session
        /\ \/ BusyBuffer
           \/ \E kind : \E next \in {"tlsHandshake", "authResult", "authSwitched", "authOK"} :
                 WritePacket(conn, Upload(kind), next)
    BY <1>8 DEF StartTls, Respond, AuthAnswer
  <2>2. Fails \/ \E next \in {"tlsHandshake", "authResult", "authSwitched", "authOK"} : GoOn(next)
    BY <1>2, <2>1, Busy, Writes, Numbers
  <2> QED  BY <1>2, <1>4, <2>1, <2>2, FailsPlaced DEF Greeted
<1>9. CASE TlsHandshake \/ AskKey \/ Key
  <2>1. /\ pc \in {"tlsHandshake", "askKey", "key"} /\ UNCHANGED session
        /\ Return("local") \/ \E next \in {"respond", "key", "fullAnswer"} : GoOn(next)
    BY <1>9 DEF TlsHandshake, AskKey, Key
  <2> QED  BY <1>4, <1>5, <2>1 DEF Greeted
<1>10. CASE Variable
  <2>1. pc = "variable" /\ GoOn("rows")
    BY <1>10 DEF Variable
  <2> QED  BY <1>4, <2>1 DEF Greeted
<1>11. CASE AuthResult \/ AuthOK
  <2>1. /\ pc \in {"authResult", "authSwitched", "authOK"}
        /\ \/ Authenticated
           \/ \E e : Return(e)
           \/ /\ \E next \in {"switchAnswer", "authOK", "askKey", "fullAnswer"} : GoOn(next)
              /\ UNCHANGED session \/ \E p : session' = [session EXCEPT !.plugin = p]
    BY <1>11 DEF AuthResult, AuthOK
  <2>2. CASE Authenticated
    BY <1>4, <1>5, <2>1, <2>2 DEF Authenticated, Greeted
  <2>3. (UNCHANGED session \/ \E p : session' = [session EXCEPT !.plugin = p]) => session'.auth = session.auth
    BY <1>2 DEF EnvTypes, SessionType
  <2> QED  BY <1>4, <1>5, <2>1, <2>2, <2>3 DEF Greeted
<1> QED  BY <1>6, <1>7, <1>8, <1>9, <1>10, <1>11 DEF HandshakeSteps

\* What is written and read while Connect is running belongs to it.
LEMMA WireOf1 ==
    ASSUME ConnectFirst, WireMoved, call.kind = "connect"
    PROVE  /\ call.id = 1 /\ wire'.out \in Seq(MessageOf1)
           /\ wire'.in \in Seq(PacketOf1) /\ wire'.buf \in Seq(PacketOf1)
<1>1. /\ call.id = 1 /\ wire.out \in Seq(MessageOf1)
      /\ wire.in \in Seq(PacketOf1) /\ wire.buf \in Seq(PacketOf1)
  BY DEF ConnectFirst
<1>2. PICK m \in Sent : wire'.out \in {wire.out, <<>>, Append(wire.out, m)}
  BY DEF WireMoved
<1>3. m \in MessageOf1
  BY <1>1 DEF Sent, MessageOf1
<1>4. wire'.out \in Seq(MessageOf1)
  BY <1>1, <1>2, <1>3, OutStays
<1>5. PacketOf1 \in SUBSET AnyPacket
  BY DEF PacketOf1
<1>6. wire'.in \in Seq(PacketOf1) /\ wire'.buf \in Seq(PacketOf1)
  BY <1>1, <1>5 DEF WireMoved, Delivered
<1> QED  BY <1>1, <1>4, <1>6

\* Every step of a call that leaves the watch alone keeps the invariant.
LEMMA ClientAnswers ==
    ASSUME Inv, WatchInv', ClientSteps
    PROVE  AnswerInv'
<1>1. Goes /\ ClientMoves /\ CallInv /\ AnswerInv
  BY StepFacts DEF Inv
<1>2. StreamOK'
  BY <1>1, ClientStream
<1>3. Placed
  BY <1>1, SendingPlaced, ReadingPlaced, IteratingPlaced, HandshakePlaced DEF ClientSteps
<1>4. QuietOK'
  <2>1. wire'.net = "closed" => wire'.in = <<>>
    BY <1>1 DEF ClientMoves, WireMoved, Delivered, AnswerInv, QuietOK
  <2> QED  BY <1>1, <1>3, <2>1 DEF Goes, AnswerInv, QuietOK, Placed
<1>5. ConnectFirst'
  <2>1. call'.id = call.id /\ call'.kind = call.kind /\ (session.auth => session'.auth)
    BY <1>1 DEF Goes
  <2>2. ASSUME call.kind = "connect"
        PROVE  /\ call.id = 1 /\ wire'.out \in Seq(MessageOf1)
               /\ wire'.in \in Seq(PacketOf1) /\ wire'.buf \in Seq(PacketOf1)
    BY <1>1, <2>2, WireOf1 DEF ClientMoves, AnswerInv
  <2>3. call.kind # "connect" => session'.auth
    BY <1>1, <2>1 DEF AnswerInv, ConnectFirst
  <2> QED  BY <1>3, <2>1, <2>2, <2>3 DEF ConnectFirst, Placed
<1> QED  BY <1>2, <1>3, <1>4, <1>5 DEF AnswerInv, Placed

-----------------------------------------------------------------------------
(* Where a call is when it starts and ends, and what is on the connection *)

\* Beside what may be read.
Rests == PlaceInv /\ QuietOK /\ ConnectFirst

LEMMA DialRests ==
    ASSUME Inv, Dial
    PROVE  Rests'
<1>1. /\ pc = "dial" /\ pc' \in {"gone", "watch"} /\ UNCHANGED <<call, rows, session, conn, srv>>
      /\ pc' = "watch" => UNCHANGED res
      /\ wire'.net = wire.net \/ wire'.net = "up"
      /\ wire'.in = wire.in /\ wire'.buf = wire.buf /\ wire'.out = wire.out
      /\ watcher'.pc \in {watcher.pc, "idle"}
  BY DEF Dial, Inv, CallInv, EnvTypes, WireType, WatchInv, Shapes, WatcherShape
<1>2. call.kind = "connect" /\ watcher.pc = "none" /\ ~conn.closed
  BY <1>1 DEF Inv, CallInv, WatchInv, PlacesOK, CutOffOK
<1>3. PlaceInv /\ QuietOK /\ ConnectFirst
  BY DEF Inv, AnswerInv
<1>4. PlaceInv'
  BY <1>1, <1>2, <1>3 DEF PlaceInv, TodoOK, ByKindOK, ResOK, Reading, Uploading, DefiningPlaces
<1>5. QuietOK'
  BY <1>1, <1>2, <1>3 DEF QuietOK
<1>6. ConnectFirst'
  BY <1>1, <1>2, <1>3 DEF ConnectFirst, Greeted
<1> QED  BY <1>4, <1>5, <1>6 DEF Rests

LEMMA WatchCancelRests ==
    ASSUME Inv, WatchCancel
    PROVE  Rests'
<1>1. pc = "watch" /\ UNCHANGED <<session, rows, srv>> /\ PlaceInv /\ QuietOK /\ ConnectFirst
  BY DEF WatchCancel, Inv, AnswerInv
<1>2. conn.watching => conn.closed
  BY <1>1 DEF QuietOK
<1>3. conn'.closed = conn.closed /\ conn'.canceled = conn.canceled /\ watcher'.pc = watcher.pc
  BY <1>2 DEF WatchCancel, Cleanup, Inv, CallInv, WatchInv, Shapes, ConnShape, WatcherShape
<1>4. UNCHANGED wire
  BY <1>2 DEF WatchCancel, CutOff
<1>5. /\ call' = call
      /\ pc' \in {"greeting", "write", "check", "abandon", "idle"}
      /\ pc' \in {"greeting", "abandon"} => call.kind = "connect"
      /\ pc' \notin {"abandon", "idle"} => res' = res
  BY DEF WatchCancel, GoOn, AfterWatch
<1>6. PlaceInv'
  <2>1. TodoOK'
    BY <1>1, <1>5 DEF PlaceInv, TodoOK, Reading, Uploading
  <2>2. ByKindOK' /\ ResOK'
    BY <1>1, <1>5 DEF PlaceInv, ByKindOK, ResOK, DefiningPlaces
  <2> QED  BY <2>1, <2>2 DEF PlaceInv
<1>7. QuietOK'
  BY <1>1, <1>3, <1>4, <1>5 DEF QuietOK
<1>8. ConnectFirst'
  BY <1>1, <1>4, <1>5 DEF ConnectFirst, Greeted
<1> QED  BY <1>6, <1>7, <1>8 DEF Rests

LEMMA PrecheckRests ==
    ASSUME Inv, Precheck
    PROVE  Rests'
<1>1. pc = "precheck" /\ UNCHANGED <<rows, conn, wire, watcher, srv>> /\ session'.auth = session.auth
  BY DEF Precheck, Rest, Inv, CallInv, EnvTypes, SessionType
<1>2. PlaceInv /\ QuietOK /\ ConnectFirst /\ call.kind # "connect"
  BY <1>1, PlacesOf DEF Inv, AnswerInv
<1>3. call.kind # "prepare"
  BY <1>1, <1>2 DEF PlaceInv, ByKindOK, DefiningPlaces
<1>4. /\ call' = call /\ pc' \in {"idle", "abandon", "finish", "watch", "write"}
      /\ pc' \in {"watch", "write"} => res' = res /\ ~conn.closed
  <2>1. CASE conn.closed
    <3>1. \E e : Return(e)
      BY <2>1 DEF Precheck
    <3> QED  BY <1>2, <3>1, Returned DEF Inv
  <2>2. CASE ~conn.closed
    BY <2>2 DEF Precheck, GoOn
  <2> QED  BY <2>1, <2>2
<1>5. PlaceInv'
  <2>1. TodoOK'
    BY <1>1, <1>2, <1>4 DEF PlaceInv, TodoOK, Reading, Uploading
  <2>2. ByKindOK' /\ ResOK'
    BY <1>1, <1>2, <1>3, <1>4 DEF PlaceInv, ByKindOK, ResOK, DefiningPlaces
  <2> QED  BY <2>1, <2>2 DEF PlaceInv
<1>6. QuietOK'
  BY <1>1, <1>2, <1>4 DEF QuietOK
<1>7. ConnectFirst'
  BY <1>1, <1>2, <1>4 DEF ConnectFirst, Greeted
<1> QED  BY <1>5, <1>6, <1>7 DEF Rests

LEMMA ContextCheckRests ==
    ASSUME Inv, ContextCheck
    PROVE  Rests'
<1>1. /\ pc = "contextCheck" /\ pc' = "idle" /\ UNCHANGED <<call, rows, srv, watcher>>
      /\ conn'.closed = conn.closed /\ conn'.canceled = conn.canceled /\ session'.auth = session.auth
  BY DEF ContextCheck, Rest, Inv, CallInv, WatchInv, Shapes, ConnShape, EnvTypes, SessionType
<1>2. wire'.net = wire.net /\ wire'.in = wire.in
  <2> DEFINE m == [kind |-> "stmtClose", cmd |-> call.id, seq |-> 0]
  <2>1. UNCHANGED wire \/ wire' = [wire EXCEPT !.out = Append(@, m)]
    BY DEF ContextCheck
  <2> HIDE DEF m
  <2> QED  BY <2>1 DEF Inv, CallInv, EnvTypes, WireType
<1>3. PlaceInv /\ QuietOK /\ ConnectFirst /\ call.kind # "connect"
  BY <1>1, PlacesOf DEF Inv, AnswerInv
<1>4. PlaceInv'
  BY <1>1, <1>3 DEF PlaceInv, TodoOK, ByKindOK, ResOK, Reading, Uploading, DefiningPlaces
<1>5. QuietOK'
  BY <1>1, <1>2, <1>3 DEF QuietOK
<1>6. ConnectFirst'
  BY <1>1, <1>3 DEF ConnectFirst, Greeted
<1> QED  BY <1>4, <1>5, <1>6 DEF Rests

\* What finish leaves of the watch.
LEMMA FinishedQuiet ==
    ASSUME Inv, FinishWatch, UNCHANGED wire, pc' \notin {"dial", "precheck", "watch"}
    PROVE  QuietOK'
<1>1. QuietOK /\ WatchInv
  BY DEF Inv, AnswerInv, CallInv
<1>2. conn'.closed = conn.closed /\ conn'.canceled = conn.canceled
  BY <1>1, WatchFinished
<1>3. watcher'.pc = watcher.pc \/ (watcher.pc = "watch" /\ watcher'.pc = "idle")
  BY <1>1 DEF FinishWatch, WatchInv, Shapes, WatcherShape
<1> QED  BY <1>1, <1>2, <1>3 DEF QuietOK

LEMMA FinishRests ==
    ASSUME Inv, Finish \/ CloseFinish
    PROVE  Rests'
<1>1. /\ UNCHANGED <<call, res, rows, session, wire, srv>> /\ FinishWatch
      /\ \/ pc = "finish" /\ pc' \in {"contextCheck", "gone", "idle"}
            /\ (pc' = "contextCheck" => call.kind = "prepare" /\ res = "ok")
         \/ pc = "closeFinish" /\ pc' = "closeRows"
  BY DEF Finish, CloseFinish
<1>2. PlaceInv /\ ConnectFirst
  BY DEF Inv, AnswerInv
<1>3. PlaceInv'
  <2>1. TodoOK'
    BY <1>1, <1>2 DEF PlaceInv, TodoOK, Reading, Uploading
  <2>2. ByKindOK' /\ ResOK'
    BY <1>1, <1>2 DEF PlaceInv, ByKindOK, ResOK, DefiningPlaces
  <2> QED  BY <2>1, <2>2 DEF PlaceInv
<1>4. QuietOK'
  BY <1>1, FinishedQuiet
<1>5. ConnectFirst'
  BY <1>1, <1>2 DEF ConnectFirst, Greeted
<1> QED  BY <1>3, <1>4, <1>5 DEF Rests

LEMMA StartCallRests ==
    ASSUME Inv, StartCall
    PROVE  Rests'
<1>1. PICK kind \in Kinds : \E todo \in Commands(kind) :
         /\ call'.kind = kind /\ call'.todo = todo
         /\ pc' \in {"idle", "precheck", "watch"}
         /\ pc' = "watch" => kind \notin {"ping", "begin"}
         /\ pc' = "precheck" => kind # "prepare"
         /\ pc' # "idle" => res' = "running"
  BY DEF StartCall
<1>2. /\ pc = "idle" /\ ~rows.open /\ UNCHANGED <<session, wire, srv, watcher>>
      /\ rows' = [open |-> FALSE, mc |-> FALSE, done |-> FALSE, binary |-> FALSE]
      /\ conn'.closed = conn.closed /\ conn'.canceled = conn.canceled /\ conn'.watching = conn.watching
  BY DEF StartCall, Rest, Inv, CallInv, WatchInv, Shapes, ConnShape
<1>3. QuietOK /\ ConnectFirst /\ CallInv
  BY DEF Inv, AnswerInv
<1>4. kind \in AllKinds /\ kind \notin RowsKinds \cup {"connect"} /\ call'.todo \in TodosOf(kind)
  BY <1>1, KindsAssumption DEF Commands, TodosOf, AllKinds, RowsKinds, LongDataTodos
<1>5. PlaceInv'
  <2>1. TodoOK'
    <3>1. pc' \notin Reading \cup Uploading
      BY <1>1 DEF Reading, Uploading
    <3>2. ~rows'.open /\ ~rows'.binary
      BY <1>2
    <3>3. call'.kind \in AllKinds /\ call'.todo \in TodosOf(call'.kind)
      BY <1>1, <1>4
    <3> QED  BY <3>1, <3>2, <3>3 DEF TodoOK
  <2>2. ByKindOK' /\ ResOK'
    BY <1>1 DEF ByKindOK, ResOK, DefiningPlaces
  <2> QED  BY <2>1, <2>2 DEF PlaceInv
<1>6. QuietOK'
  <2>1. ~conn.closed => ~conn.watching
    BY <1>2, <1>3, IdleUnwatched DEF CallInv
  <2>2. pc' = "watch" => call'.kind \notin {"connect", "ping", "begin"}
    BY <1>1, <1>4
  <2> QED  BY <1>1, <1>2, <1>3, <2>1, <2>2 DEF QuietOK
<1>7. ConnectFirst'
  <2>1. session.auth
    BY <1>2, <1>3 DEF CallInv, ConnectOK, ConnectFirst
  <2> QED  BY <1>1, <1>2, <1>4, <2>1 DEF ConnectFirst, Greeted
<1> QED  BY <1>5, <1>6, <1>7 DEF Rests

LEMMA RowsCallRests ==
    ASSUME Inv, StartRowsCall
    PROVE  Rests'
<1>1. /\ pc = "idle" /\ rows.open /\ UNCHANGED <<res, session, conn, wire, srv, watcher>>
      /\ call'.todo = call.todo /\ rows'.binary = rows.binary
      /\ \/ pc' = "nextRow" /\ call'.kind = "next" /\ res \in {"ok", "eof"}
         \/ pc' = "nextResultSet" /\ call'.kind = "nextResult" /\ res \in {"ok", "eof"}
         \/ pc' = "closeFinish" /\ call'.kind = "close"
  BY DEF StartRowsCall, Rest, MayIterate, Inv, CallInv, WatchInv, Shapes, CallShape, RowsShape
<1>2. PlaceInv /\ QuietOK /\ ConnectFirst
  BY DEF Inv, AnswerInv
<1>3. call.kind \in {"query", "stmtQuery", "next", "nextResult"}
  BY <1>1 DEF Inv, CallInv, CallType, Iterating, QueryKinds
<1>4. call.todo \in {<<"query">>, <<"execute">>}
  <2>1. call.kind # "stmtQuery" => call.todo \in TodosOf(call.kind)
    BY <1>2, <1>3 DEF PlaceInv, TodoOK
  <2>2. call.kind = "stmtQuery" => call.todo = <<"execute">>
    BY <1>1, <1>2 DEF PlaceInv, TodoOK
  <2> QED  BY <1>3, <2>1, <2>2 DEF TodosOf, RowsKinds
<1>5. PlaceInv'
  <2>1. TodoOK'
    <3>1. call'.kind \in RowsKinds
      BY <1>1 DEF RowsKinds
    <3>2. call'.todo \in TodosOf(call'.kind) /\ call'.kind \in AllKinds
      BY <1>1, <1>4, <3>1 DEF TodosOf, RowsKinds, AllKinds
    <3>3. rows'.binary => call'.todo = <<"execute">>
      BY <1>1, <1>2 DEF PlaceInv, TodoOK
    <3> QED  BY <1>1, <3>1, <3>2, <3>3 DEF TodoOK, RowsKinds
  <2>2. ByKindOK' /\ ResOK'
    BY <1>1 DEF ByKindOK, ResOK, DefiningPlaces
  <2> QED  BY <2>1, <2>2 DEF PlaceInv
<1>6. QuietOK'
  BY <1>1, <1>2 DEF QuietOK
<1>7. ConnectFirst'
  BY <1>1, <1>2, <1>3 DEF ConnectFirst, Greeted
<1> QED  BY <1>5, <1>6, <1>7 DEF Rests

LEMMA CloseConnRests ==
    ASSUME Inv, CloseConn
    PROVE  Rests'
<1>1. /\ pc = "idle" /\ pc' = "gone" /\ UNCHANGED <<call, res, rows, session, srv, watcher>>
      /\ conn' = Cleanup(conn) /\ wire' = Quit(conn, wire)
  BY DEF CloseConn, Rest
<1>2. /\ PlaceInv /\ QuietOK /\ ConnectFirst /\ ConnShape /\ CallType /\ WireType
  BY DEF Inv, AnswerInv, CallInv, WatchInv, Shapes, EnvTypes
<1>3. conn'.canceled = conn.canceled /\ (conn.closed => conn'.closed) /\ conn'.seq \in Nat
  BY <1>1, <1>2, CleanedSeq DEF Cleanup, ConnShape
<1>4. WireMoved
  BY <1>1, <1>2, <1>3, KeptIncoming, IsCutOff
<1>5. PlaceInv'
  BY <1>1, <1>2 DEF PlaceInv, TodoOK, ByKindOK, ResOK, Reading, Uploading, DefiningPlaces
<1>6. QuietOK'
  <2>1. wire'.net = "closed" => wire'.in = <<>>
    BY <1>2, <1>4 DEF WireMoved, Delivered, QuietOK
  <2> QED  BY <1>1, <1>2, <1>3, <2>1 DEF QuietOK
<1>7. ConnectFirst'
  <2>1. call.kind = "connect" => /\ call.id = 1 /\ wire'.out \in Seq(MessageOf1)
                                 /\ wire'.in \in Seq(PacketOf1) /\ wire'.buf \in Seq(PacketOf1)
    BY <1>2, <1>4, WireOf1
  <2> QED  BY <1>1, <1>2, <2>1 DEF ConnectFirst, Greeted
<1> QED  BY <1>5, <1>6, <1>7 DEF Rests

LEMMA CallAnswers ==
    ASSUME Inv, CallSteps
    PROVE  AnswerInv'
<1>1. StreamOK'
  BY CallStream
<1>2. Rests'
  BY DialRests, WatchCancelRests, PrecheckRests, ContextCheckRests, FinishRests, StartCallRests, RowsCallRests,
     CloseConnRests DEF CallSteps
<1> QED  BY <1>1, <1>2 DEF AnswerInv, Rests

-----------------------------------------------------------------------------
(* The steps of the watcher, of the server and of the surroundings *)

LEMMA WatcherAnswers ==
    ASSUME Inv, WatchInv', WireType', WatcherStep
    PROVE  AnswerInv'
<1>1. /\ UNCHANGED <<pc, call, res, rows, session, srv>>
      /\ conn'.seq = conn.seq /\ conn'.watching = conn.watching
      /\ UNCHANGED wire \/ wire' = [wire EXCEPT !.net = "closed", !.in = <<>>]
  BY DEF WatcherStep, WatcherTakes, WatcherStops, WatcherCancels, WatcherSetsClosed, WatcherClosesChannel,
         WatcherClosesNet, OtherThanWatcher, clientVars, Inv, CallInv, WatchInv, Shapes, ConnShape
<1>2. PlaceInv /\ QuietOK /\ ConnectFirst /\ WatchInv /\ WireType
  BY DEF Inv, AnswerInv, CallInv, EnvTypes
<1>3. PlaceInv'
  BY <1>1, <1>2 DEF PlaceInv, TodoOK, ByKindOK, ResOK
<1>4. QuietOK'
  <2>1. wire'.net = "closed" => wire'.in = <<>>
    BY <1>1, <1>2 DEF QuietOK, WireType
  <2>2. \/ conn'.closed = conn.closed
        \/ watcher.pc = "trySet" /\ conn'.closed
    BY DEF WatcherStep, WatcherTakes, WatcherStops, WatcherCancels, WatcherSetsClosed, WatcherClosesChannel,
           WatcherClosesNet, Inv, CallInv, WatchInv, Shapes, ConnShape
  <2>3. \/ conn'.canceled = conn.canceled /\ watcher'.pc \notin {"trySet", "closech"}
           /\ (watcher'.pc = "closenet" => watcher.pc = "closech") /\ (watcher.pc = "trySet" => conn'.closed)
        \/ conn'.canceled /\ watcher'.pc = "trySet"
        \/ conn'.canceled = conn.canceled /\ watcher.pc = "trySet" /\ watcher'.pc = "closech" /\ conn'.closed
    <3>1. ConnShape /\ WatcherShape
      BY <1>2 DEF WatchInv, Shapes
    <3>2. WatcherCancels \/ WatcherSetsClosed
          => \/ conn'.canceled /\ watcher'.pc = "trySet"
             \/ /\ conn'.canceled = conn.canceled /\ conn'.closed /\ watcher.pc = "trySet"
                /\ watcher'.pc \in {"idle", "closech"}
      BY <3>1 DEF WatcherCancels, WatcherSetsClosed, ConnShape, WatcherShape
    <3>3. WatcherTakes
          => conn'.canceled = conn.canceled /\ watcher.pc = "idle" /\ watcher'.pc = "watch"
      BY DEF WatcherTakes
    <3>4. WatcherStops
          => conn'.canceled = conn.canceled /\ watcher.pc \in {"idle", "watch"} /\ watcher'.pc = "gone"
      BY <3>1 DEF WatcherStops, WatcherShape
    <3>5. WatcherClosesChannel
          => conn'.canceled = conn.canceled /\ watcher.pc = "closech" /\ watcher'.pc = "closenet"
      BY <3>1 DEF WatcherClosesChannel, ConnShape, WatcherShape
    <3>6. WatcherClosesNet
          => conn'.canceled = conn.canceled /\ watcher.pc = "closenet" /\ watcher'.pc = "idle"
      BY <3>1 DEF WatcherClosesNet, WatcherShape
    <3> QED  BY <3>2, <3>3, <3>4, <3>5, <3>6 DEF WatcherStep
  <2>4. watcher.pc = "trySet" /\ ~conn.closed => pc # "watch"
    BY <1>2 DEF QuietOK, WatchInv, WatcherInStep
  <2> QED  BY <1>1, <1>2, <2>1, <2>2, <2>3, <2>4 DEF QuietOK
<1>5. ConnectFirst'
  <2>1. UNCHANGED wire \/ (wire'.in = <<>> /\ wire'.buf = wire.buf /\ wire'.out = wire.out /\ wire'.net = "closed")
    BY <1>1, <1>2 DEF WireType
  <2>2. call.kind = "connect" => /\ wire'.out \in Seq(MessageOf1)
                                 /\ wire'.in \in Seq(PacketOf1) /\ wire'.buf \in Seq(PacketOf1)
    BY <1>2, <2>1, EmptySeq DEF ConnectFirst
  <2>3. pc = "dial" => UNCHANGED wire
    <3>1. pc = "dial" => watcher.pc = "none"
      BY <1>2 DEF WatchInv, PlacesOK
    <3> QED  BY <3>1 DEF WatcherStep, WatcherTakes, WatcherStops, WatcherCancels, WatcherSetsClosed,
                         WatcherClosesChannel, WatcherClosesNet
  <2> QED  BY <1>1, <1>2, <2>2, <2>3 DEF ConnectFirst, Stream
<1>6. StreamOK'
  BY WatcherStream
<1> QED  BY <1>3, <1>4, <1>5, <1>6 DEF AnswerInv

\* A step of the server or of the network, but for what may be read.
LEMMA OutsideRests ==
    ASSUME Inv, UNCHANGED <<pc, call, res, rows, session, conn, watcher>>,
           wire'.net = "closed" => wire.net = "closed" /\ wire'.in = wire.in,
           pc = "dial" => UNCHANGED wire /\ srv'.pc = srv.pc,
           call.kind = "connect" => /\ wire'.out \in Seq(MessageOf1)
                                    /\ wire'.in \in Seq(PacketOf1) /\ wire'.buf \in Seq(PacketOf1)
    PROVE  Rests'
<1>1. PlaceInv /\ QuietOK /\ ConnectFirst
  BY DEF Inv, AnswerInv
<1>2. PlaceInv'
  BY <1>1 DEF PlaceInv, TodoOK, ByKindOK, ResOK
<1>3. QuietOK'
  BY <1>1 DEF QuietOK
<1>4. ConnectFirst'
  BY <1>1 DEF ConnectFirst, Stream
<1> QED  BY <1>2, <1>3, <1>4 DEF Rests

\* The server answers a command of Connect with packets of Connect.
LEMMA NumberedOf1 ==
    ASSUME NEW script \in Seq(Script), NEW m, m.cmd = 1, m.seq \in Int, m.seq + 1 \in Nat
    PROVE  Numbered(script, m) \in Seq(PacketOf1)
<1> DEFINE s == Numbered(script, m)
<1>1. s \in Seq(AnyPacket)
  BY NumberedPackets
<1>2. DOMAIN s = 1 .. Len(script) /\ \A i \in 1 .. Len(script) : s[i].cmd = 1
  <2>1. DOMAIN script = 1 .. Len(script)
    BY LenProperties
  <2> QED  BY <2>1 DEF Numbered
<1> HIDE DEF s
<1>3. Len(s) \in Nat /\ s = [i \in 1 .. Len(s) |-> s[i]] /\ \A i \in 1 .. Len(s) : s[i] \in AnyPacket
  BY <1>1, LenProperties, ElementOfSeq
<1>4. \A i \in 1 .. Len(s) : s[i] \in PacketOf1
  BY <1>1, <1>2, <1>3, LenProperties DEF PacketOf1
<1>5. s \in [1 .. Len(s) -> PacketOf1]
  BY <1>3, <1>4
<1>6. s \in Seq(PacketOf1)
  BY <1>3, <1>5, SeqDef
<1> QED  BY <1>6 DEF s

LEMMA AnsweringRests ==
    ASSUME Inv, UNCHANGED <<pc, call, res, rows, session, conn, watcher>>, wire.out # <<>>,
           NEW script \in Seq(Script), Answer(Head(wire.out), script)
    PROVE  Rests'
<1> DEFINE m == Head(wire.out)
           new == Numbered(script, m)
<1>1. WireType /\ ConnectFirst
  BY DEF Inv, CallInv, EnvTypes, AnswerInv
<1>2. pc # "dial"
  BY <1>1 DEF ConnectFirst
<1>3. call.kind = "connect" => m \in MessageOf1 /\ Tail(wire.out) \in Seq(MessageOf1)
  BY <1>1, OutTaken DEF ConnectFirst
<1>4. call.kind = "connect" => new \in Seq(PacketOf1)
  <2>1. m \in MessageOf1 => m.cmd = 1 /\ m.seq \in Int /\ m.seq + 1 \in Nat
    BY DEF MessageOf1, AnyMessage
  <2> QED  BY <1>3, <2>1, NumberedOf1
<1> HIDE DEF new
<1>5. \/ wire' = [wire EXCEPT !.out = Tail(@)]
      \/ wire.net = "up" /\ wire' = [wire EXCEPT !.out = Tail(@), !.in = @ \o new]
  BY <1>1 DEF Answer, WireType, new
<1>6. /\ wire'.net = wire.net /\ wire'.buf = wire.buf /\ wire'.out = Tail(wire.out)
      /\ wire'.in = wire.in \/ (wire.net = "up" /\ wire'.in = wire.in \o new)
  BY <1>1, <1>5 DEF WireType
<1>7. call.kind = "connect" => wire.in \o new \in Seq(PacketOf1)
  BY <1>1, <1>4, ConcatProperties DEF ConnectFirst
<1> QED  BY <1>1, <1>2, <1>3, <1>6, <1>7, OutsideRests DEF ConnectFirst

LEMMA ServerRests ==
    ASSUME Inv, ServerStep
    PROVE  Rests'
<1>1. UNCHANGED <<pc, call, res, rows, session, conn, watcher>>
  BY DEF ServerStep, ServerGreets, ServerAuthenticates, ServerHangsUp, ServerAnswers, ServerTakes, ServerLoads,
         ServerQuits, clientVars
<1>2. WireType /\ ConnectFirst
  BY DEF Inv, CallInv, EnvTypes, AnswerInv
<1>3. CASE ServerGreets(Plugins)
  <2>1. PICK kind \in {"greeting", "err"} : Send(<<P(kind)>>, 0)
    BY <1>3 DEF ServerGreets
  <2> DEFINE m == [cmd |-> 1, seq |-> 0 - 1]
             new == Numbered(<<P(kind)>>, m)
  <2>2. new \in Seq(PacketOf1)
    <3>1. kind \in PacketKinds
      BY DEF PacketKinds
    <3>2. <<P(kind)>> \in Seq(Script)
      BY <3>1, PacketsOK, Scripts
    <3>3. m.cmd = 1 /\ m.seq \in Int /\ m.seq + 1 \in Nat
      OBVIOUS
    <3> HIDE DEF m
    <3> QED  BY <3>2, <3>3, NumberedOf1
  <2> HIDE DEF new
  <2>3. wire' = [wire EXCEPT !.in = @ \o new]
    BY <2>1 DEF Send, new
  <2>4. wire'.net = wire.net /\ wire'.in = wire.in \o new /\ wire'.buf = wire.buf /\ wire'.out = wire.out
    BY <1>2, <2>3 DEF WireType
  <2>5. wire.net = "up"
    BY <1>3 DEF ServerGreets
  <2>6. call.kind = "connect" => wire.in \o new \in Seq(PacketOf1)
    BY <1>2, <2>2, ConcatProperties DEF ConnectFirst
  <2> QED  BY <1>1, <1>2, <2>4, <2>5, <2>6, OutsideRests DEF ConnectFirst
<1>4. CASE ServerAuthenticates(Plugins)
  <2>1. wire.out # <<>>
    BY <1>4 DEF ServerAuthenticates
  <2>2. PICK script : script \in Seq(Script) /\ Answer(Head(wire.out), script)
    BY <1>4, Judging DEF Handed, Orderly
  <2> QED  BY <1>1, <2>1, <2>2, AnsweringRests
<1>5. CASE ServerAnswers
  <2>1. wire.out # <<>> /\ \E script \in Answers(Head(wire.out).kind) : Answer(Head(wire.out), script)
    BY <1>5 DEF ServerAnswers
  <2> QED  BY <1>1, <2>1, AnswersOK, AnsweringRests
<1>6. CASE ServerLoads
  <2>1. PICK script \in {<<P("ok")>>, <<P("err")>>, <<Packet("ok", TRUE), P("ok")>>} :
           wire.out # <<>> /\ Answer(Head(wire.out), script)
    BY <1>6 DEF ServerLoads
  <2>2. P("ok") \in Script /\ P("err") \in Script /\ Packet("ok", TRUE) \in Script
    BY PacketsOK DEF PacketKinds
  <2>3. script \in Seq(Script)
    BY <2>2, Scripts
  <2> QED  BY <1>1, <2>1, <2>3, AnsweringRests
<1>7. CASE ServerTakes
  <2>1. wire.out # <<>> /\ wire' = [wire EXCEPT !.out = Tail(@)]
    BY <1>7 DEF ServerTakes
  <2>2. wire'.net = wire.net /\ wire'.in = wire.in /\ wire'.buf = wire.buf /\ wire'.out = Tail(wire.out)
    BY <1>2, <2>1 DEF WireType
  <2>3. call.kind = "connect" => Tail(wire.out) \in Seq(MessageOf1)
    BY <1>2, <2>1, OutTaken DEF ConnectFirst
  <2> QED  BY <1>1, <1>2, <2>1, <2>2, <2>3, OutsideRests DEF ConnectFirst
<1>8. CASE ServerQuits \/ ServerHangsUp
  <2>1. /\ wire'.in = wire.in /\ wire'.buf = wire.buf /\ wire'.out = <<>>
        /\ wire'.net = wire.net \/ wire'.net = "broken"
    BY <1>2, <1>8 DEF ServerQuits, ServerHangsUp, WireType
  <2>2. pc # "dial"
    BY <1>2, <1>8 DEF ServerQuits, ServerHangsUp, ConnectFirst
  <2> QED  BY <1>1, <1>2, <2>1, <2>2, EmptySeq, OutsideRests DEF ConnectFirst
<1> QED  BY <1>3, <1>4, <1>5, <1>6, <1>7, <1>8 DEF ServerStep

LEMMA SurroundingsRest ==
    ASSUME Inv, Surroundings
    PROVE  Rests'
<1>1. WireType /\ ConnectFirst
  BY DEF Inv, CallInv, EnvTypes, AnswerInv
<1>2. CASE Break
  <2>1. /\ wire.net = "up" /\ UNCHANGED <<pc, call, res, rows, session, conn, watcher, srv>>
        /\ \E out \in {<<>>, wire.out} : \E k \in 0 .. Len(wire.in) :
              wire' = [wire EXCEPT !.net = "broken", !.out = out, !.in = SubSeq(@, 1, k)]
    BY <1>2 DEF Break, clientVars
  <2>2. PICK out \in {<<>>, wire.out}, k \in 0 .. Len(wire.in) :
           wire' = [wire EXCEPT !.net = "broken", !.out = out, !.in = SubSeq(wire.in, 1, k)]
    BY <2>1
  <2>3. wire'.net = "broken" /\ wire'.in = SubSeq(wire.in, 1, k) /\ wire'.buf = wire.buf /\ wire'.out = out
    BY <1>1, <2>2 DEF WireType
  <2>4. call.kind = "connect" => SubSeq(wire.in, 1, k) \in Seq(PacketOf1) /\ out \in Seq(MessageOf1)
    BY <1>1, Parts, EmptySeq DEF ConnectFirst
  <2> QED  BY <1>1, <2>1, <2>3, <2>4, OutsideRests DEF ConnectFirst
<1>3. CASE \E c \in Calls : EndContext(c)
  <2>1. UNCHANGED <<pc, call, res, rows, session, conn, watcher, wire, srv>>
    BY <1>3 DEF EndContext, clientVars
  <2> QED  BY <1>1, <2>1, OutsideRests DEF ConnectFirst
<1> QED  BY <1>2, <1>3 DEF Surroundings

-----------------------------------------------------------------------------
(* The invariant holds *)

LEMMA AnswerInit ==
    ASSUME Init
    PROVE  AnswerInv
<1>1. /\ pc = "dial" /\ res = "running" /\ call.kind = "connect" /\ call.id = 1
      /\ ~rows.open /\ ~rows.binary /\ ~session.auth /\ srv.pc = "connected" /\ conn.seq = 0
      /\ ~conn.closed /\ ~conn.canceled /\ ~conn.watching /\ watcher.pc = "none"
      /\ wire.net = "none" /\ wire.in = <<>> /\ wire.buf = <<>> /\ wire.out = <<>>
  BY DEF Init
<1>2. Stream = <<>>
  <2>1. <<>> \in Seq(AnyPacket)
    BY EmptySeq
  <2> QED  BY <1>1, <2>1, ConcatEmptySeq DEF Stream
<1>3. StreamOK
  BY <1>1, <1>2 DEF StreamOK, Expects
<1>4. PlaceInv
  BY <1>1 DEF PlaceInv, TodoOK, ByKindOK, ResOK, AllKinds, Reading, Uploading, DefiningPlaces
<1>5. QuietOK
  BY <1>1 DEF QuietOK
<1>6. ConnectFirst
  BY <1>1, <1>2, EmptySeq DEF ConnectFirst
<1> QED  BY <1>3, <1>4, <1>5, <1>6 DEF AnswerInv

LEMMA InvInit ==
    ASSUME Init
    PROVE  Inv
BY CallInit, AnswerInit DEF Inv

LEMMA InvStep ==
    ASSUME "multiInfile" \notin Features, Inv, [Next]_vars
    PROVE  Inv'
<1>1. CallInv' /\ WatchInv' /\ WireType'
  BY CallInvStep DEF Inv, CallInv, EnvTypes
<1>2. CASE ConnectStep \/ CallStep
  <2>1. ClientSteps \/ CallSteps
    BY <1>2 DEF ConnectStep, CallStep, ClientSteps, CallSteps, SendingSteps, ReadingSteps, IteratingSteps,
                HandshakeSteps
  <2> QED  BY <1>1, <2>1, ClientAnswers, CallAnswers DEF Inv
<1>3. CASE UserStep
  <2>1. CallSteps
    BY <1>3 DEF UserStep, CallSteps
  <2> QED  BY <1>1, <2>1, CallAnswers DEF Inv
<1>4. CASE WatcherStep
  BY <1>1, <1>4, WatcherAnswers DEF Inv
<1>5. CASE ServerStep
  BY <1>1, <1>5, ServerStream, ServerRests DEF Inv, AnswerInv, Rests
<1>6. CASE Surroundings
  BY <1>1, <1>6, SurroundingsStream, SurroundingsRest DEF Inv, AnswerInv, Rests
<1>7. CASE UNCHANGED vars
  <2>1. UNCHANGED <<pc, call, res, rows, session, conn, watcher, wire, srv>>
    BY <1>7 DEF vars, clientVars
  <2>2. StreamOK'
    BY <2>1, SameStream DEF Inv, AnswerInv, ClientRests
  <2>3. Rests'
    BY <2>1, OutsideRests DEF Inv, AnswerInv, ConnectFirst
  <2> QED  BY <1>1, <2>2, <2>3 DEF Inv, AnswerInv, Rests
<1> QED  BY <1>2, <1>3, <1>4, <1>5, <1>6, <1>7 DEF Next, ClientStep

LEMMA InvHolds ==
    ASSUME "multiInfile" \notin Features
    PROVE  Spec => []Inv
<1>1. Inv /\ [Next]_vars => Inv'
  BY InvStep
<1> QED  BY <1>1, InvInit, PTL DEF Spec

-----------------------------------------------------------------------------
(* What it says *)

\* readPacket (packets.go) hands a call only packets the server has sent to answer one of
\* the commands of that call: none is left over from a call before, whatever statements
\* were abandoned, whatever was cancelled and wherever a result set was left.
THEOREM AnswersAreOwn ==
    ASSUME "multiInfile" \notin Features
    PROVE  Spec => []OwnAnswers
<1>1. Inv => OwnAnswers
  <2> SUFFICES ASSUME Inv, pc \in Reading, Readable
               PROVE  NextPacket.cmd = call.id
    BY DEF OwnAnswers
  <2>1. WireType /\ StreamOK /\ ConnectFirst
    BY DEF Inv, CallInv, EnvTypes, AnswerInv
  <2>2. Stream # <<>> /\ NextPacket = Stream[1] /\ 1 \in 1 .. Len(Stream)
    BY <2>1, FirstPacket, StreamType
  <2>3. CASE Excused
    <3>1. call.kind = "connect"
      BY <2>3 DEF Excused, Reading
    <3>2. /\ wire.in \in Seq(PacketOf1) /\ wire.buf \in Seq(PacketOf1) /\ call.id = 1
      BY <2>1, <3>1 DEF ConnectFirst
    <3>3. Stream \in Seq(PacketOf1)
      BY <3>2, ConcatProperties DEF Stream
    <3>4. Stream[1] \in PacketOf1
      BY <2>2, <3>3, ElementOfSeq
    <3> QED  BY <2>2, <3>2, <3>4 DEF PacketOf1
  <2>4. CASE ~Excused
    BY <2>1, <2>2, <2>4 DEF StreamOK, Expects, Mine
  <2> QED  BY <2>3, <2>4
<1> QED  BY <1>1, InvHolds, PTL

\* A call that has returned without Rows leaves nothing on a connection that is used again:
\* no packet in the buffer or on its way, no command the server has still to answer, and no
\* upload it waits for.
THEOREM NothingIsLeft ==
    ASSUME "multiInfile" \notin Features
    PROVE  Spec => []NothingOutstanding
<1>1. Inv => NothingOutstanding
  <2> SUFFICES ASSUME Inv, pc = "idle", ~rows.open, ~conn.closed, ~conn.canceled, wire.net = "up"
               PROVE  /\ wire.buf = <<>> /\ wire.in = <<>>
                      /\ srv.pc \in {"ready", "closing"}
                      /\ \A i \in DOMAIN wire.out : wire.out[i].kind \in Silent
    BY DEF NothingOutstanding
  <2>1. CallInv /\ WireType /\ SrvType /\ AcceptedOK /\ ConnectOK /\ StreamOK /\ ConnectFirst
    BY DEF Inv, CallInv, EnvTypes, AnswerInv
  <2>2. ~Excused
    BY DEF Excused
  <2>3. Expected = {} /\ Wanted = "none"
    BY ExpectsNothing
  <2>4. Quiet /\ SrvOK
    BY <2>1, <2>2, <2>3, QuietAt DEF StreamOK
  <2>5. Stream = <<>> /\ AllSilent(wire.out)
    BY <2>4 DEF Quiet
  <2>6. session.auth
    BY <2>1 DEF ConnectOK, ConnectFirst
  <2>7. srv.pc = "ready"
    BY <2>1, <2>4, <2>5, <2>6 DEF SrvOK, Uploads, Uploading, AcceptedOK, Accepted
  <2>8. DOMAIN wire.out = 1 .. Len(wire.out)
    BY <2>1, LenProperties DEF WireType
  <2> QED  BY <2>1, <2>5, <2>7, <2>8, StreamType DEF AllSilent
<1> QED  BY <1>1, InvHolds, PTL

-----------------------------------------------------------------------------
(* Which calls may be repeated *)

\* The calls whose repetition would be noticed, and those for their Rows.
Fetching == Lasting \cup RowsKinds
\* Before the command has been written, and in an upload, which the server carries out at
\* its end.
Before == {"precheck", "watch", "check", "write", "unanswered"} \cup Uploading

\* Messages the server may carry out something for.
Loud(m) == m.kind \notin Silent \cup {"quit"}
OwnLoud(i) == wire.out[i].cmd = call.id /\ Loud(wire.out[i])
Unsent == call.id \notin history.done /\ \A i \in 1 .. Len(wire.out) : ~OwnLoud(i)
Passing == Stream # <<>> /\ ~Excused
Repeating == {"readOnly", "infile"}

OneByOne ==
    /\ \A d \in history.done : d \in Nat /\ d <= call.id
    /\ \A i \in 1 .. Len(wire.out) : wire.out[i].cmd <= call.id
\* Only the end of an upload follows the command.
Once ==
    \A i \in 1 .. Len(wire.out) : OwnLoud(i) =>
       \/ wire.out[i].kind = "empty"
       \/ call.id \notin history.done /\ \A j \in 1 .. Len(wire.out) : OwnLoud(j) => j = i
NoEmpty == \A i \in 1 .. Len(wire.out) : wire.out[i].cmd = call.id => wire.out[i].kind # "empty"
OtherOK ==
    /\ call.id \notin history.done /\ NoEmpty
    /\ pc \notin Uploading
    /\ Passing => Stream[1].kind # "infile"
LastingOK ==
    /\ pc \in Before => Unsent
    /\ Passing /\ Stream[1].kind \in Repeating => Unsent
OnRowsOK ==
    /\ pc \notin Before
    /\ Passing => Stream[1].kind \notin Repeating
    /\ ~Excused /\ wire.net = "up" => AllSilent(wire.out)
RetryInv ==
    /\ OneByOne
    /\ call.kind \notin Fetching \cup {"connect"} => OtherOK
    /\ call.kind \in Fetching => Once /\ (res = "badConn" => Unsent)
    /\ call.kind \in Lasting => LastingOK
    /\ call.kind \in RowsKinds => OnRowsOK

\* Nothing that would be carried out is sent.
Hushed ==
    \/ wire'.out = wire.out
    \/ \E m \in AnyMessage :
          /\ wire'.out = Append(wire.out, m) /\ m.cmd = call.id /\ ~Loud(m)
          /\ wire'.net = "up" => m.kind \in Silent

LEMMA OutAppended ==
    ASSUME WireType, NEW m \in AnyMessage, wire'.out = Append(wire.out, m)
    PROVE  /\ Len(wire.out) \in Nat /\ Len(wire'.out) = Len(wire.out) + 1
           /\ \A i \in 1 .. Len(wire.out) : i \in 1 .. Len(wire'.out) /\ wire'.out[i] = wire.out[i]
           /\ wire'.out[Len(wire.out) + 1] = m
           /\ \A i \in 1 .. Len(wire'.out) : i \in 1 .. Len(wire.out) \/ i = Len(wire.out) + 1
<1> DEFINE s == wire.out
           t == wire'.out
<1>1. /\ Len(s) \in Nat /\ Len(t) = Len(s) + 1
      /\ \A i \in 1 .. Len(s) : t[i] = s[i]
      /\ t[Len(s) + 1] = m
  BY AppendProperties, LenProperties DEF WireType
<1> HIDE DEF s, t
<1>2. /\ \A i \in 1 .. Len(s) : i \in 1 .. Len(t)
      /\ \A i \in 1 .. Len(t) : i \in 1 .. Len(s) \/ i = Len(s) + 1
  BY <1>1
<1> QED  BY <1>1, <1>2 DEF s, t

LEMMA HushedKeeps ==
    ASSUME WireType, CallType, Hushed, call'.id = call.id, UNCHANGED history
    PROVE  /\ Unsent => Unsent'
           /\ Once => Once'
           /\ OneByOne => OneByOne'
           /\ NoEmpty => NoEmpty'
           /\ wire'.net = "up" /\ AllSilent(wire.out) => AllSilent(wire.out)'
<1>1. CASE wire'.out = wire.out
  BY <1>1 DEF Unsent, Once, OneByOne, NoEmpty, AllSilent, OwnLoud
<1>2. CASE wire'.out # wire.out
  <2>1. PICK m \in AnyMessage :
           /\ wire'.out = Append(wire.out, m) /\ m.cmd = call.id /\ ~Loud(m)
           /\ wire'.net = "up" => m.kind \in Silent
    BY <1>2 DEF Hushed
  <2> DEFINE n == Len(wire.out)
  <2>2. /\ \A i \in 1 .. n : i \in 1 .. Len(wire'.out) /\ wire'.out[i] = wire.out[i]
        /\ wire'.out[n + 1] = m
        /\ \A i \in 1 .. Len(wire'.out) : i \in 1 .. n \/ i = n + 1
    BY <2>1, OutAppended
  <2>3. call.id \in Nat /\ m.kind # "empty"
    BY <2>1 DEF CallType, Calls, Loud, Silent
  <2> HIDE DEF n
  <2>4. ASSUME NEW i \in 1 .. Len(wire'.out), OwnLoud(i)'
        PROVE  i \in 1 .. n /\ OwnLoud(i)
    BY <2>1, <2>2, <2>4 DEF OwnLoud
  <2>5. (Unsent => Unsent') /\ (Once => Once')
    BY <2>2, <2>4 DEF Unsent, Once, n
  <2>6. OneByOne => OneByOne'
    BY <2>1, <2>2, <2>3 DEF OneByOne, n
  <2>7. NoEmpty => NoEmpty'
    BY <2>2, <2>3 DEF NoEmpty, n
  <2>8. wire'.net = "up" /\ AllSilent(wire.out) => AllSilent(wire.out)'
    BY <2>1, <2>2 DEF AllSilent, n
  <2> QED  BY <2>5, <2>6, <2>7, <2>8
<1> QED  BY <1>1, <1>2

\* A message is sent for the first time.
LEMMA LoudKeeps ==
    ASSUME WireType, CallType, NEW m \in AnyMessage, m.cmd = call.id, wire'.out = Append(wire.out, m),
           call'.id = call.id, UNCHANGED history
    PROVE  /\ Unsent => Once'
           /\ OneByOne => OneByOne'
           /\ NoEmpty /\ m.kind # "empty" => NoEmpty'
<1> DEFINE n == Len(wire.out)
<1>1. /\ \A i \in 1 .. n : i \in 1 .. Len(wire'.out) /\ wire'.out[i] = wire.out[i]
      /\ wire'.out[n + 1] = m
      /\ \A i \in 1 .. Len(wire'.out) : i \in 1 .. n \/ i = n + 1
  BY OutAppended
<1>2. call.id \in Nat
  BY DEF CallType, Calls
<1> HIDE DEF n
<1>3. Unsent => \A i \in 1 .. Len(wire'.out) : OwnLoud(i)' => i = n + 1
  BY <1>1 DEF Unsent, OwnLoud, n
<1>4. Unsent => Once'
  BY <1>3 DEF Unsent, Once
<1>5. OneByOne => OneByOne'
  BY <1>1, <1>2 DEF OneByOne, n
<1>6. NoEmpty /\ m.kind # "empty" => NoEmpty'
  BY <1>1 DEF NoEmpty, n
<1> QED  BY <1>4, <1>5, <1>6

\* Messages are taken from the front.
Shifted ==
    \E n \in Nat : \A i \in 1 .. Len(wire'.out) : i + n \in 1 .. Len(wire.out) /\ wire'.out[i] = wire.out[i + n]

\* A step of the watcher, the server or the network.
LEMMA OutsideRetry ==
    ASSUME RetryInv, Shifted, UNCHANGED <<pc, call, res>>, ~Excused' => ~Excused,
           \A d \in history'.done : d \in Nat /\ d <= call.id,
           call.id \in history'.done /\ call.id \notin history.done =>
              /\ call.kind \in Fetching /\ ~Unsent
              /\ \A i \in 1 .. Len(wire'.out) : OwnLoud(i)' => wire'.out[i].kind = "empty",
           Passing' /\ Stream'[1].kind \in Repeating =>
              \/ Passing /\ Stream[1] = Stream'[1]
              \/ call.kind = "connect"
              \/ call.kind \in Lasting /\ Unsent'
              \/ call.kind \notin Fetching /\ Stream'[1].kind = "readOnly",
           wire'.net = "up" => wire.net = "up"
    PROVE  RetryInv'
<1>1. PICK n \in Nat : \A i \in 1 .. Len(wire'.out) :
                          i + n \in 1 .. Len(wire.out) /\ wire'.out[i] = wire.out[i + n]
  BY DEF Shifted
<1>2. \A i \in 1 .. Len(wire'.out) : OwnLoud(i)' => OwnLoud(i + n)
  BY <1>1 DEF OwnLoud
<1>3. OneByOne'
  BY <1>1 DEF RetryInv, OneByOne
<1>4. Unsent => Unsent'
  BY <1>1, <1>2 DEF Unsent
<1>5. ASSUME call.kind \notin Fetching \cup {"connect"}
      PROVE  OtherOK'
  <2>1. OtherOK
    BY <1>5 DEF RetryInv
  <2>2. NoEmpty'
    BY <1>1, <2>1 DEF OtherOK, NoEmpty
  <2>3. Passing' => Stream'[1].kind # "infile"
    BY <1>5, <2>1 DEF OtherOK, Repeating, Fetching
  <2> QED  BY <1>5, <2>1, <2>2, <2>3 DEF OtherOK
<1>6. ASSUME call.kind \in Fetching
      PROVE  Once'
  <2>1. Once
    BY <1>6 DEF RetryInv
  <2>2. SUFFICES ASSUME NEW i \in 1 .. Len(wire'.out), OwnLoud(i)', wire'.out[i].kind # "empty"
                 PROVE  /\ call.id \notin history'.done
                        /\ \A j \in 1 .. Len(wire'.out) : OwnLoud(j)' => j = i
    BY DEF Once
  <2>3. i + n \in 1 .. Len(wire.out) /\ OwnLoud(i + n) /\ wire.out[i + n].kind # "empty"
    BY <1>1, <1>2, <2>2
  <2>4. call.id \notin history.done /\ \A j \in 1 .. Len(wire.out) : OwnLoud(j) => j = i + n
    BY <2>1, <2>3 DEF Once
  <2>5. call.id \notin history'.done
    BY <2>2, <2>4
  <2>6. ASSUME NEW j \in 1 .. Len(wire'.out), OwnLoud(j)'
        PROVE  j = i
    <3>1. j + n = i + n
      BY <1>1, <1>2, <2>4, <2>6
    <3> QED  BY <3>1
  <2> QED  BY <2>5, <2>6
<1>7. ASSUME call.kind \in Lasting
      PROVE  LastingOK'
  <2>1. LastingOK /\ call.kind \in Fetching /\ call.kind # "connect"
    BY <1>7 DEF RetryInv, Fetching, Lasting
  <2> QED  BY <1>4, <2>1 DEF LastingOK
<1>8. ASSUME call.kind \in RowsKinds
      PROVE  OnRowsOK'
  <2>1. OnRowsOK /\ call.kind \in Fetching /\ call.kind \notin Lasting /\ call.kind # "connect"
    BY <1>8 DEF RetryInv, Fetching, RowsKinds, Lasting
  <2>2. ~Excused' /\ wire'.net = "up" => AllSilent(wire.out)'
    BY <1>1, <2>1 DEF OnRowsOK, AllSilent
  <2> QED  BY <2>1, <2>2 DEF OnRowsOK
<1> QED  BY <1>3, <1>4, <1>5, <1>6, <1>7, <1>8 DEF RetryInv

(* The steps of the watcher, of the server and of the surroundings *)

LEMMA OneTaken ==
    ASSUME WireType, wire.out # <<>>, wire'.out = Tail(wire.out)
    PROVE  /\ 1 \in 1 .. Len(wire.out) /\ Head(wire.out) = wire.out[1] /\ Head(wire.out) \in AnyMessage
           /\ \A i \in 1 .. Len(wire'.out) : i + 1 \in 1 .. Len(wire.out) /\ wire'.out[i] = wire.out[i + 1]
           /\ Shifted
<1>1. /\ Len(wire.out) \in Nat /\ Len(wire.out) >= 1
      /\ \A i \in 1 .. Len(wire'.out) : i + 1 \in 1 .. Len(wire.out) /\ wire'.out[i] = wire.out[i + 1]
  BY TailFacts DEF WireType
<1>2. 1 \in 1 .. Len(wire.out)
  BY <1>1
<1>3. Head(wire.out) = wire.out[1] /\ wire.out[1] \in AnyMessage
  BY <1>2, ElementOfSeq DEF WireType
<1> QED  BY <1>1, <1>2, <1>3 DEF Shifted

\* What is carried out has been sent; at most the end of an upload is left of it.
LEMMA Carried ==
    ASSUME WireType, wire.out # <<>>, wire'.out = Tail(wire.out), UNCHANGED call, Once, OwnLoud(1)
    PROVE  /\ ~Unsent
           /\ \A i \in 1 .. Len(wire'.out) : OwnLoud(i)' => wire'.out[i].kind = "empty"
<1>1. /\ 1 \in 1 .. Len(wire.out)
      /\ \A i \in 1 .. Len(wire'.out) : i + 1 \in 1 .. Len(wire.out) /\ wire'.out[i] = wire.out[i + 1]
  BY OneTaken
<1>2. ASSUME NEW i \in 1 .. Len(wire'.out), OwnLoud(i)', wire'.out[i].kind # "empty"
      PROVE  FALSE
  <2>1. i + 1 \in 1 .. Len(wire.out) /\ OwnLoud(i + 1) /\ wire.out[i + 1].kind # "empty"
    BY <1>1, <1>2 DEF OwnLoud
  <2>2. 1 = i + 1
    BY <1>1, <2>1 DEF Once
  <2> QED  BY <2>2
<1> QED  BY <1>1, <1>2 DEF Unsent

\* What was first in the stream is still first, or everything is gone.
LEMMA FirstKept ==
    ASSUME WireType, WireType', Begins(Stream', Stream), Stream' # <<>>
    PROVE  Stream # <<>> /\ Stream[1] = Stream'[1]
<1>1. /\ Len(Stream) \in Nat /\ Len(Stream)' \in Nat /\ (Stream = <<>> <=> Len(Stream) = 0)
      /\ (Stream' = <<>> <=> Len(Stream)' = 0)
  <2>1. /\ wire.buf \in Seq(AnyPacket) /\ wire.in \in Seq(AnyPacket)
        /\ wire'.buf \in Seq(AnyPacket) /\ wire'.in \in Seq(AnyPacket)
    BY DEF WireType
  <2>2. Stream \in Seq(AnyPacket) /\ Stream' \in Seq(AnyPacket)
    BY <2>1, ConcatProperties DEF Stream
  <2> QED  BY <2>2, LenProperties, EmptySeq
<1>2. Len(Stream') <= Len(Stream) /\ \A i \in 1 .. Len(Stream') : Stream'[i] = Stream[i]
  BY DEF Begins
<1> QED  BY <1>1, <1>2

\* What arrives is last.
LEMMA Lengthened ==
    ASSUME WireType, NEW new \in Seq(AnyPacket), wire'.buf = wire.buf, wire'.in = wire.in \o new
    PROVE  /\ Stream = <<>> => Stream' = new
           /\ Stream # <<>> => Stream'[1] = Stream[1]
<1>1. /\ wire.buf \in Seq(AnyPacket) /\ wire.in \in Seq(AnyPacket) /\ wire.in \o new \in Seq(AnyPacket)
      /\ Stream' = wire.buf \o (wire.in \o new)
  BY ConcatProperties DEF WireType, Stream
<1>2. Stream = <<>> => Stream' = new
  <2>1. <<>> \o new = new
    BY ConcatEmptySeq
  <2> QED  BY <1>1, <2>1, StreamType
<1>3. Begins(Stream, Stream')
  <2>1. /\ Len(wire.in) \in Nat /\ Len(new) \in Nat /\ Len(wire.in \o new) = Len(wire.in) + Len(new)
        /\ \A i \in 1 .. Len(wire.in) : (wire.in \o new)[i] = wire.in[i]
    BY <1>1, ConcatProperties, LenProperties
  <2>2. Begins(wire.in, wire.in \o new)
    BY <2>1 DEF Begins
  <2> QED  BY <1>1, <2>2, ConcatBegins DEF Stream
<1>4. Stream # <<>> => Stream'[1] = Stream[1]
  <2>1. Stream # <<>> => 1 \in 1 .. Len(Stream)
    BY StreamType
  <2> QED  BY <1>3, <2>1 DEF Begins
<1> QED  BY <1>2, <1>4

LEMMA WatcherRetry ==
    ASSUME Inv, RetryInv, WireType', WatcherStep
    PROVE  RetryInv'
<1>1. ClientRests /\ UNCHANGED history
  BY DEF WatcherStep, WatcherTakes, WatcherStops, WatcherCancels, WatcherSetsClosed, WatcherClosesChannel,
         WatcherClosesNet, OtherThanWatcher, clientVars, ClientRests, Inv, CallInv, WatchInv, Shapes, ConnShape
<1>2. WireType
  BY DEF Inv, CallInv, EnvTypes
<1>3. UNCHANGED wire \/ (wire'.in = <<>> /\ wire'.buf = wire.buf /\ wire'.out = wire.out /\ wire'.net = "closed")
  BY <1>2 DEF WatcherStep, WatcherTakes, WatcherStops, WatcherCancels, WatcherSetsClosed, WatcherClosesChannel,
              WatcherClosesNet, WireType
<1>4. Begins(Stream', Stream)
  <2>1. wire.buf \in Seq(AnyPacket) /\ wire.in \in Seq(AnyPacket)
    BY <1>2 DEF WireType
  <2>2. Begins(<<>>, wire.in) /\ Begins(wire.in, wire.in) /\ <<>> \in Seq(AnyPacket)
    BY <2>1, EmptySeq, LenProperties DEF Begins
  <2> QED  BY <1>3, <2>1, <2>2, ConcatBegins DEF Stream
<1>5. (~Excused' => ~Excused) /\ UNCHANGED <<pc, call, res>>
  BY <1>1, StillExcused DEF ClientRests
<1>6. Passing' => Passing /\ Stream[1] = Stream'[1]
  BY <1>2, <1>4, <1>5, FirstKept DEF Passing
<1>7. Shifted
  <2>1. \A i \in 1 .. Len(wire'.out) : i + 0 \in 1 .. Len(wire.out) /\ wire'.out[i] = wire.out[i + 0]
    BY <1>3
  <2> QED  BY <2>1 DEF Shifted
<1>8. \A d \in history'.done : d \in Nat /\ d <= call.id
  BY <1>1 DEF RetryInv, OneByOne
<1> QED  BY <1>1, <1>3, <1>5, <1>6, <1>7, <1>8, OutsideRetry

LEMMA SurroundingsRetry ==
    ASSUME Inv, RetryInv, WireType', Surroundings
    PROVE  RetryInv'
<1>1. ClientRests /\ UNCHANGED history
  <2>1. Break => UNCHANGED <<clientVars, conn, history>>
    BY DEF Break
  <2>2. (\E c \in Calls : EndContext(c)) => UNCHANGED <<clientVars, conn, history>>
    BY DEF EndContext
  <2> QED  BY <2>1, <2>2 DEF Surroundings, clientVars, ClientRests
<1>2. WireType /\ wire.buf \in Seq(AnyPacket) /\ wire.in \in Seq(AnyPacket)
  BY DEF Inv, CallInv, EnvTypes, WireType
<1>3. \/ UNCHANGED wire
      \/ /\ wire'.buf = wire.buf /\ Begins(wire'.in, wire.in) /\ wire'.in \in Seq(AnyPacket)
         /\ wire'.out \in {<<>>, wire.out} /\ wire'.net = "broken"
  <2>1. CASE Break
    <3>1. \E out \in {<<>>, wire.out} : \E k \in 0 .. Len(wire.in) :
             wire' = [wire EXCEPT !.net = "broken", !.out = out, !.in = SubSeq(@, 1, k)]
      BY <2>1, Zenon DEF Break
    <3>2. PICK out \in {<<>>, wire.out}, k \in 0 .. Len(wire.in) :
             wire' = [wire EXCEPT !.net = "broken", !.out = out, !.in = SubSeq(wire.in, 1, k)]
      BY <3>1, Zenon
    <3>3. /\ wire'.net = "broken" /\ wire'.buf = wire.buf /\ wire'.in = SubSeq(wire.in, 1, k)
          /\ wire'.out = out
      BY <1>2, <3>2 DEF WireType
    <3>4. SubSeq(wire.in, 1, k) \in Seq(AnyPacket)
      BY <1>2, Parts
    <3>5. /\ Len(wire.in) \in Nat /\ Len(SubSeq(wire.in, 1, k)) = k
          /\ \A i \in 1 .. k : SubSeq(wire.in, 1, k)[i] = wire.in[i]
      BY <1>2
    <3>6. Begins(SubSeq(wire.in, 1, k), wire.in)
      BY <3>5 DEF Begins
    <3> QED  BY <3>3, <3>4, <3>6
  <2>2. CASE \E c \in Calls : EndContext(c)
    BY <2>2 DEF EndContext
  <2> QED  BY <2>1, <2>2 DEF Surroundings
<1>4. Begins(Stream', Stream)
  <2>1. Begins(wire.in, wire.in)
    BY <1>2, LenProperties DEF Begins
  <2> QED  BY <1>2, <1>3, <2>1, ConcatBegins DEF Stream
<1>5. (~Excused' => ~Excused) /\ UNCHANGED <<pc, call, res>>
  BY <1>1, StillExcused DEF ClientRests
<1>6. Passing' => Passing /\ Stream[1] = Stream'[1]
  BY <1>2, <1>4, <1>5, FirstKept DEF Passing
<1>7. Shifted
  <2>1. wire'.out = wire.out \/ wire'.out = <<>>
    BY <1>3
  <2>2. \A i \in 1 .. Len(wire'.out) : i + 0 \in 1 .. Len(wire.out) /\ wire'.out[i] = wire.out[i + 0]
    BY <2>1
  <2> QED  BY <2>2 DEF Shifted
<1>8. \A d \in history'.done : d \in Nat /\ d <= call.id
  BY <1>1 DEF RetryInv, OneByOne
<1> QED  BY <1>1, <1>3, <1>5, <1>6, <1>7, <1>8, OutsideRetry

\* A server that has not accepted the client speaks to Connect.
LEMMA EarlyRetry ==
    ASSUME Inv, RetryInv, ClientRests, UNCHANGED history, srv.pc \in Early, Shifted,
           wire'.net = "up" => wire.net = "up"
    PROVE  RetryInv'
<1>1. call.kind = "connect"
  <2>1. ~session.auth
    BY DEF Inv, CallInv, AcceptedOK, Early, Accepted
  <2> QED  BY <2>1 DEF Inv, AnswerInv, ConnectFirst
<1>2. (~Excused' => ~Excused) /\ UNCHANGED <<pc, call, res>>
  BY StillExcused DEF ClientRests
<1>3. \A d \in history'.done : d \in Nat /\ d <= call.id
  BY DEF RetryInv, OneByOne
<1> QED  BY <1>1, <1>2, <1>3, OutsideRetry

\* Only a text command of exec or query may be refused or ask for a file.
LEMMA RepeatingAnswers ==
    ASSUME NEW kind, NEW script \in Answers(kind), script[1].kind \in Repeating
    PROVE  kind = "query"
<1>1. CASE kind = "prepare"
  <2>1. script \in PrepareAnswers
    BY <1>1 DEF Answers
  <2>2. script[1].kind \notin Repeating
    BY <2>1 DEF PrepareAnswers, P, Packet, Repeating
  <2> QED  BY <2>2
<1>2. CASE kind = "execute"
  <2>1. CASE script \in LastResults
    BY <2>1, LastResultsOrderly DEF Orderly, Starts, Repeating
  <2>2. CASE script = ResultSet(TRUE) \o <<P("ok")>>
    <3>1. <<P("ok")>> \in LastResults
      BY DEF LastResults, Results
    <3> QED  BY <2>2, <3>1, SeveralOrderly DEF Orderly, Starts, Repeating
  <2> QED  BY <1>2, <2>1, <2>2 DEF Answers, ExecuteAnswers
<1>3. CASE kind = "sysvar"
  <2>1. script = ResultSet(FALSE) \/ script = <<P("err")>>
    BY <1>3 DEF Answers
  <2>2. script[1].kind \notin Repeating
    BY <2>1 DEF ResultSet, P, Packet, Repeating
  <2> QED  BY <2>2
<1>4. CASE kind \notin {"query", "prepare", "execute", "sysvar"}
  <2>1. Orderly(script, {"ok", "err"})
    BY <1>4, AnswersOrderly
  <2> QED  BY <2>1 DEF Orderly, Repeating
<1> QED  BY <1>1, <1>2, <1>3, <1>4

\* What is answered has been sent before.
LEMMA AnswerArrives ==
    ASSUME Inv, ClientRests, UNCHANGED clientVars, wire.out # <<>>,
           NEW script \in Seq(Script), script # <<>>, Answer(Head(wire.out), script)
    PROVE  /\ wire'.net = wire.net /\ wire'.out = Tail(wire.out)
           /\ Passing' => \/ Passing /\ Stream[1] = Stream'[1]
                          \/ ~Excused /\ wire.net = "up" /\ Stream = <<>> /\ Stream'[1].kind = script[1].kind
<1> DEFINE m == Head(wire.out)
           new == Numbered(script, m)
<1>1. WireType /\ (~Excused' => ~Excused)
  BY StillExcused DEF Inv, CallInv, EnvTypes
<1>2. m \in AnyMessage
  <2>1. \A s \in Seq(AnyMessage) : s # <<>> => Head(s) \in AnyMessage
    OBVIOUS
  <2> QED  BY <1>1, <2>1 DEF WireType
<1>3. new \in Seq(AnyPacket) /\ new[1].kind = script[1].kind
  <2>1. 1 \in 1 .. Len(script)
    BY EmptySeq
  <2> HIDE DEF m
  <2> QED  BY <1>2, <2>1, NumberedFacts
<1> HIDE DEF new
<1>4. \/ wire' = [wire EXCEPT !.out = Tail(@)]
      \/ wire.net = "up" /\ wire' = [wire EXCEPT !.out = Tail(@), !.in = @ \o new]
  BY <1>1 DEF Answer, WireType, new
<1>5. /\ wire'.net = wire.net /\ wire'.buf = wire.buf /\ wire'.out = Tail(wire.out)
      /\ wire'.in = wire.in \/ (wire.net = "up" /\ wire'.in = wire.in \o new)
  BY <1>1, <1>4 DEF WireType
<1>6. CASE wire'.in = wire.in
  BY <1>1, <1>5, <1>6 DEF Stream, Passing
<1>7. CASE wire.net = "up" /\ wire'.in = wire.in \o new
  BY <1>1, <1>3, <1>5, <1>7, Lengthened DEF Passing
<1> QED  BY <1>5, <1>6, <1>7

LEMMA ServerAnswersRetry ==
    ASSUME Inv, RetryInv, ServerAnswers
    PROVE  RetryInv'
<1> DEFINE m == Head(wire.out)
<1>1. /\ wire.out # <<>> /\ Loud(m) /\ ClientRests /\ UNCHANGED clientVars /\ UNCHANGED <<pc, call, res>>
  BY DEF ServerAnswers, clientVars, ClientRests, Loud
<1>2. PICK script \in Answers(m.kind) :
         /\ Answer(m, script)
         /\ \/ history'.done = history.done \cup {m.cmd} /\ call.kind \in Lasting
               /\ script[1].kind \notin Repeating
            \/ history' = history
  <2>1. PICK script \in Answers(m.kind) :
           /\ Answer(m, script)
           /\ history' = IF call.kind \in Lasting /\ script[1].kind \in {"ok", "header"}
                         THEN [begun |-> history.begun \cup {m.cmd}, done |-> history.done \cup {m.cmd}]
                         ELSE history
    BY Zenon DEF ServerAnswers
  <2> QED  BY <2>1 DEF Repeating
<1>3. WireType /\ OneByOne
  BY DEF Inv, CallInv, EnvTypes, RetryInv
<1>4. script \in Seq(Script) /\ script # <<>>
  <2>1. m.kind = "prepare" => script \in Seq(Script) /\ script # <<>>
    <3>1. \A s \in PrepareAnswers : s # <<>>
      BY DEF PrepareAnswers
    <3> HIDE DEF m
    <3> QED  BY <1>2, <3>1, AnswersOK DEF Answers
  <2>2. m.kind # "prepare" => script \in Seq(Script) /\ script # <<>>
    BY <1>2, AnswersOrderly DEF Orderly
  <2> QED  BY <2>1, <2>2
<1>5. /\ wire'.net = wire.net /\ wire'.out = Tail(wire.out)
      /\ Passing' => \/ Passing /\ Stream[1] = Stream'[1]
                     \/ ~Excused /\ wire.net = "up" /\ Stream'[1].kind = script[1].kind
  BY <1>1, <1>2, <1>4, AnswerArrives
<1>6. m = wire.out[1] /\ m \in AnyMessage /\ 1 \in 1 .. Len(wire.out) /\ Shifted
  BY <1>1, <1>3, <1>5, OneTaken
<1>7. (~Excused' => ~Excused) /\ call.id \in Nat
  BY <1>1, StillExcused DEF Inv, CallInv, CallType, Calls
<1>8. \A d \in history'.done : d \in Nat /\ d <= call.id
  <2>1. m.cmd \in Nat /\ m.cmd <= call.id
    <3>1. \A x \in AnyMessage : x.cmd \in Nat
      BY DEF AnyMessage
    <3> QED  BY <1>3, <1>6, <3>1 DEF OneByOne
  <2>2. history'.done = history.done \/ history'.done = history.done \cup {m.cmd}
    BY <1>2
  <2> QED  BY <1>3, <2>1, <2>2 DEF OneByOne
<1>9. ASSUME call.id \in history'.done, call.id \notin history.done
      PROVE  /\ call.kind \in Fetching /\ ~Unsent
             /\ \A i \in 1 .. Len(wire'.out) : OwnLoud(i)' => wire'.out[i].kind = "empty"
  <2>1. call.kind \in Fetching /\ m.cmd = call.id
    BY <1>2, <1>9 DEF Fetching
  <2>2. OwnLoud(1) /\ Once
    BY <1>1, <1>6, <2>1 DEF OwnLoud, RetryInv
  <2> QED  BY <1>1, <1>3, <1>5, <2>1, <2>2, Carried
<1>10. ASSUME ~Excused, wire.net = "up", script[1].kind \in Repeating
       PROVE  call.kind = "connect" \/ (call.kind \in Lasting /\ Unsent')
  <2>1. m.kind = "query" /\ history' = history
    BY <1>2, <1>10, RepeatingAnswers
  <2>2. Asked(m) /\ Tail(wire.out) = <<>>
    BY <1>1, <1>10, <2>1, Asking DEF Silent
  <2>3. Head(call.todo) = "query"
    <3>1. Wanted = "query"
      BY <2>1, <2>2 DEF Asked
    <3> QED  BY <3>1, WantedPlaces
  <2>4. CASE call.kind \in RowsKinds
    <3>1. AllSilent(wire.out)
      BY <1>10, <2>4 DEF RetryInv, OnRowsOK
    <3> QED  BY <1>6, <2>1, <3>1 DEF AllSilent, Silent
  <2>5. CASE call.kind \in {"exec", "query", "stmtExec", "stmtQuery", "commit"}
    <3>1. OwnLoud(1) /\ Once
      BY <1>1, <1>6, <2>2, <2>5 DEF OwnLoud, RetryInv, Asked, Fetching, Lasting
    <3>2. call.id \notin history.done
      BY <1>6, <2>1, <3>1 DEF Once
    <3>3. wire'.out = <<>> /\ Len(<<>>) = 0
      BY <1>5, <2>2
    <3>4. Unsent'
      BY <1>1, <2>1, <3>2, <3>3 DEF Unsent
    <3> QED  BY <2>5, <3>4 DEF Lasting
  <2>6. CASE call.kind \notin RowsKinds \cup {"exec", "query", "stmtExec", "stmtQuery", "commit", "connect"}
    <3>1. call.kind \in AllKinds /\ call.todo \in TodosOf(call.kind)
      BY <2>6 DEF Inv, AnswerInv, PlaceInv, TodoOK
    <3>2. Head(call.todo) # "query"
      BY <2>6, <3>1 DEF AllKinds, TodosOf, RowsKinds
    <3> QED  BY <2>3, <3>2
  <2> QED  BY <2>4, <2>5, <2>6
<1> QED  BY <1>1, <1>5, <1>6, <1>7, <1>8, <1>9, <1>10, OutsideRetry

LEMMA ServerLoadsRetry ==
    ASSUME Inv, RetryInv, "multiInfile" \notin Features, ServerLoads
    PROVE  RetryInv'
<1> DEFINE m == Head(wire.out)
<1>1. /\ wire.out # <<>> /\ m.kind = "empty" /\ Loud(m) /\ srv.pc = "infile"
      /\ ClientRests /\ UNCHANGED clientVars /\ UNCHANGED <<pc, call, res>>
  BY DEF ServerLoads, clientVars, ClientRests, Loud, Silent
<1>2. PICK script \in {<<P("ok")>>, <<P("err")>>} :
         /\ Answer(m, script)
         /\ history'.done = history.done \cup {m.cmd} \/ history' = history
  <2>1. \E script \in {<<P("ok")>>, <<P("err")>>}
                      \cup IF "multiInfile" \in Features THEN {<<Packet("ok", TRUE), P("ok")>>} ELSE {} :
           /\ Answer(m, script)
           /\ history' = IF script[1].kind = "ok"
                         THEN [begun |-> history.begun \cup {m.cmd}, done |-> history.done \cup {m.cmd}]
                         ELSE history
    BY Zenon DEF ServerLoads
  <2>2. PICK script \in {<<P("ok")>>, <<P("err")>>} :
           /\ Answer(m, script)
           /\ history' = IF script[1].kind = "ok"
                         THEN [begun |-> history.begun \cup {m.cmd}, done |-> history.done \cup {m.cmd}]
                         ELSE history
    BY <2>1, Zenon
  <2> QED  BY <2>2
<1>3. WireType /\ OneByOne
  BY DEF Inv, CallInv, EnvTypes, RetryInv
<1>4. script \in Seq(Script) /\ script # <<>> /\ script[1].kind \notin Repeating
  <2>1. {"ok", "err"} \subseteq PacketKinds
    BY DEF PacketKinds
  <2> QED  BY <1>2, <2>1, OnePacket DEF Orderly, Repeating
<1>5. /\ wire'.net = wire.net /\ wire'.out = Tail(wire.out)
      /\ Passing' /\ Stream'[1].kind \in Repeating => Passing /\ Stream[1] = Stream'[1]
  BY <1>1, <1>2, <1>4, AnswerArrives
<1>6. m = wire.out[1] /\ m \in AnyMessage /\ 1 \in 1 .. Len(wire.out) /\ Shifted
  BY <1>1, <1>3, <1>5, OneTaken
<1>7. (~Excused' => ~Excused) /\ call.kind # "connect"
  BY <1>1, StillExcused DEF Inv, CallInv, AcceptedOK
<1>8. \A d \in history'.done : d \in Nat /\ d <= call.id
  <2>1. m.cmd \in Nat /\ m.cmd <= call.id
    <3>1. \A x \in AnyMessage : x.cmd \in Nat
      BY DEF AnyMessage
    <3> QED  BY <1>3, <1>6, <3>1 DEF OneByOne
  <2>2. history'.done = history.done \/ history'.done = history.done \cup {m.cmd}
    BY <1>2
  <2> QED  BY <1>3, <2>1, <2>2 DEF OneByOne
<1>9. ASSUME call.id \in history'.done, call.id \notin history.done
      PROVE  /\ call.kind \in Fetching /\ ~Unsent
             /\ \A i \in 1 .. Len(wire'.out) : OwnLoud(i)' => wire'.out[i].kind = "empty"
  <2>1. m.cmd = call.id
    BY <1>2, <1>9
  <2>2. call.kind \in Fetching
    BY <1>1, <1>6, <1>7, <2>1 DEF RetryInv, OtherOK, NoEmpty
  <2>3. OwnLoud(1) /\ Once
    BY <1>1, <1>6, <2>1, <2>2 DEF OwnLoud, RetryInv
  <2> QED  BY <1>1, <1>3, <1>5, <2>2, <2>3, Carried
<1> QED  BY <1>1, <1>5, <1>6, <1>7, <1>8, <1>9, OutsideRetry

LEMMA ServerRetry ==
    ASSUME Inv, RetryInv, "multiInfile" \notin Features, ServerStep
    PROVE  RetryInv'
<1>1. ClientRests /\ WireType
  BY DEF ServerStep, ServerGreets, ServerAuthenticates, ServerHangsUp, ServerAnswers, ServerTakes, ServerLoads,
         ServerQuits, clientVars, ClientRests, Inv, CallInv, EnvTypes
<1>2. (~Excused' => ~Excused) /\ UNCHANGED <<pc, call, res>>
  BY <1>1, StillExcused DEF ClientRests
<1>3. CASE ServerAnswers
  BY <1>3, ServerAnswersRetry
<1>4. CASE ServerLoads
  BY <1>4, ServerLoadsRetry
<1>5. CASE ServerGreets(Plugins)
  <2>1. PICK kind \in {"greeting", "err"} : Send(<<P(kind)>>, 0)
    BY <1>5 DEF ServerGreets
  <2>2. wire'.out = wire.out /\ wire'.net = wire.net
    <3> DEFINE new == Numbered(<<P(kind)>>, [cmd |-> 1, seq |-> 0 - 1])
    <3>1. wire' = [wire EXCEPT !.in = @ \o new]
      BY <2>1 DEF Send
    <3> HIDE DEF new
    <3> QED  BY <1>1, <3>1 DEF WireType
  <2>3. \A i \in 1 .. Len(wire'.out) : i + 0 \in 1 .. Len(wire.out) /\ wire'.out[i] = wire.out[i + 0]
    BY <2>2
  <2>4. srv.pc \in Early /\ UNCHANGED history
    BY <1>5 DEF ServerGreets, Early
  <2> QED  BY <1>1, <2>2, <2>3, <2>4, EarlyRetry DEF Shifted
<1>6. CASE ServerAuthenticates(Plugins)
  <2>1. wire.out # <<>> /\ UNCHANGED history /\ srv.pc \in Early
    BY <1>6 DEF ServerAuthenticates, Early
  <2>2. PICK script : Answer(Head(wire.out), script)
    BY <1>6, Judging
  <2>3. wire'.out = Tail(wire.out) /\ wire'.net = wire.net
    <3> DEFINE new == Numbered(script, Head(wire.out))
    <3>1. \E in : wire' = [wire EXCEPT !.out = Tail(@), !.in = in]
      BY <2>2 DEF Answer
    <3> QED  BY <1>1, <3>1 DEF WireType
  <2> QED  BY <1>1, <2>1, <2>3, OneTaken, EarlyRetry
<1>7. CASE ServerHangsUp
  <2>1. wire'.out = <<>> /\ (wire'.net = "up" => wire.net = "up") /\ srv.pc \in Early /\ UNCHANGED history
    BY <1>1, <1>7 DEF ServerHangsUp, WireType, Early
  <2>2. Shifted
    <3>1. \A i \in 1 .. Len(wire'.out) : i + 0 \in 1 .. Len(wire.out) /\ wire'.out[i] = wire.out[i + 0]
      BY <2>1
    <3> QED  BY <3>1 DEF Shifted
  <2> QED  BY <1>1, <2>1, <2>2, EarlyRetry
<1>8. CASE ServerTakes \/ ServerQuits
  <2>1. /\ wire'.net = wire.net /\ wire'.in = wire.in /\ wire'.buf = wire.buf /\ wire.out # <<>>
        /\ wire'.out = Tail(wire.out) \/ wire'.out = <<>>
    BY <1>1, <1>8 DEF ServerTakes, ServerQuits, WireType
  <2>2. history'.done = history.done
    <3>1. \/ UNCHANGED history
          \/ history' = [history EXCEPT !.begun = @ \cup {Head(wire.out).cmd}]
      BY <1>8 DEF ServerTakes, ServerQuits
    <3> QED  BY <3>1 DEF Inv, CallInv, EnvTypes, HistoryType
  <2>3. Passing' => Passing /\ Stream'[1] = Stream[1]
    BY <1>2, <2>1 DEF Passing, Stream
  <2>4. Shifted
    <3>1. CASE wire'.out = <<>>
      <4>1. \A i \in 1 .. Len(wire'.out) : i + 0 \in 1 .. Len(wire.out) /\ wire'.out[i] = wire.out[i + 0]
        BY <3>1
      <4> QED  BY <4>1 DEF Shifted
    <3> QED  BY <1>1, <2>1, <3>1, OneTaken
  <2>5. \A d \in history'.done : d \in Nat /\ d <= call.id
    BY <2>2 DEF RetryInv, OneByOne
  <2> QED  BY <1>2, <2>1, <2>2, <2>3, <2>4, <2>5, OutsideRetry
<1> QED  BY <1>3, <1>4, <1>5, <1>6, <1>7, <1>8 DEF ServerStep

(* The steps of the client *)

Harmless == Passing => Stream[1].kind \notin Repeating

LEMMA OtherKinds ==
    /\ "connect" \notin Fetching /\ Lasting \subseteq Fetching /\ RowsKinds \subseteq Fetching
    /\ Fetching \ RowsKinds = Lasting
    /\ {"exec", "query", "stmtExec", "stmtQuery", "commit", "next", "nextResult", "close"} = Fetching
BY DEF Fetching, Lasting, RowsKinds

\* Only where a result may start the server may refuse, or ask for a file.
AtResult == pc = "header"

LEMMA HarmlessAt == Inv => AtResult \/ Harmless
<1> SUFFICES ASSUME Inv, pc # "header", Passing
             PROVE  Stream[1].kind \notin Repeating
  BY DEF Harmless, AtResult
<1>1. Stream[1].kind \in Expected
  BY DEF Inv, AnswerInv, StreamOK, Passing, Expects
<1>2. Expected \cap Repeating = {}
  BY DEF Expected, ByRows, Starts, InRows, Greetings, Repeating
<1> QED  BY <1>1, <1>2

LEMMA HarmlessNext ==
    ASSUME Inv', pc' # "header"
    PROVE  Harmless'
<1>1. Inv' => AtResult' \/ Harmless'
  BY HarmlessAt, PTL
<1> QED  BY <1>1 DEF AtResult

\* While the command has not been written nothing of the call is with the server.
LEMMA UnsentBefore ==
    ASSUME RetryInv, pc \in Before, call.kind # "connect"
    PROVE  call.kind \notin RowsKinds /\ (call.kind \in Fetching => Unsent)
BY OtherKinds DEF RetryInv, LastingOK, OnRowsOK

LEMMA ConnectRetry ==
    ASSUME Inv, RetryInv, call.kind = "connect", call'.kind = "connect", call'.id = call.id, UNCHANGED history,
           NEW m \in AnyMessage, m.cmd = call.id, wire'.out \in {wire.out, <<>>, Append(wire.out, m)}
    PROVE  RetryInv'
<1>1. WireType /\ CallType /\ OneByOne
  BY DEF Inv, CallInv, EnvTypes, RetryInv
<1>2. OneByOne'
  <2>1. CASE wire'.out = Append(wire.out, m)
    <3>1. /\ \A i \in 1 .. Len(wire.out) : wire'.out[i] = wire.out[i]
          /\ wire'.out[Len(wire.out) + 1] = m
          /\ \A i \in 1 .. Len(wire'.out) : i \in 1 .. Len(wire.out) \/ i = Len(wire.out) + 1
      BY <1>1, <2>1, OutAppended
    <3>2. call.id \in Nat
      BY <1>1 DEF CallType, Calls
    <3> QED  BY <1>1, <3>1, <3>2 DEF OneByOne
  <2>2. CASE wire'.out = wire.out \/ wire'.out = <<>>
    BY <1>1, <2>2 DEF OneByOne
  <2> QED  BY <2>1, <2>2
<1>3. "connect" \notin Lasting \cup RowsKinds \cup Fetching
  BY OtherKinds
<1> QED  BY <1>2, <1>3 DEF RetryInv

\* Nothing is sent that would be carried out.
LEMMA HushedRetry ==
    ASSUME Inv, RetryInv, Hushed, call.kind # "connect", call'.id = call.id, call'.kind = call.kind,
           UNCHANGED history, Harmless',
           call.kind \in Fetching /\ (pc' \in Before \/ (res' = "badConn" /\ res # "badConn")) => Unsent,
           pc' \in Uploading => pc \in Uploading \/ call.kind \in Fetching,
           call.kind \in RowsKinds =>
              pc' \notin Before /\ (~Excused' /\ wire'.net = "up" => ~Excused /\ wire.net = "up")
    PROVE  RetryInv'
<1>1. WireType /\ CallType
  BY DEF Inv, CallInv, EnvTypes
<1>2. /\ Unsent => Unsent'
      /\ Once => Once'
      /\ OneByOne => OneByOne'
      /\ NoEmpty => NoEmpty'
      /\ wire'.net = "up" /\ AllSilent(wire.out) => AllSilent(wire.out)'
  BY <1>1, HushedKeeps
<1>3. OneByOne'
  BY <1>2 DEF RetryInv
<1>4. call.kind \notin Fetching \cup {"connect"} => OtherOK'
  BY <1>2 DEF RetryInv, OtherOK, Harmless, Repeating
<1>5. call.kind \in Fetching => Once' /\ (res' = "badConn" => Unsent')
  BY <1>2 DEF RetryInv
<1>6. call.kind \in Lasting => LastingOK'
  BY <1>2, OtherKinds DEF LastingOK, Harmless
<1>7. call.kind \in RowsKinds => OnRowsOK'
  BY <1>2 DEF RetryInv, OnRowsOK, Harmless
<1> QED  BY <1>3, <1>4, <1>5, <1>6, <1>7 DEF RetryInv

\* The command is sent, or the end of an upload.
LEMMA SpokenRetry ==
    ASSUME Inv, RetryInv, call.kind # "connect", UNCHANGED <<call, res, history>>, Harmless',
           NEW m \in AnyMessage, m.cmd = call.id, wire'.out = Append(wire.out, m),
           pc \in Before, pc' \notin Before, call.kind \notin Fetching => m.kind # "empty"
    PROVE  RetryInv'
<1>1. WireType /\ CallType
  BY DEF Inv, CallInv, EnvTypes
<1>2. /\ Unsent => Once'
      /\ OneByOne => OneByOne'
      /\ NoEmpty /\ m.kind # "empty" => NoEmpty'
  BY <1>1, LoudKeeps
<1>3. call.kind \notin RowsKinds /\ (call.kind \in Fetching => Unsent)
  BY UnsentBefore
<1>4. call.kind \in Fetching => res' # "badConn"
  <2>1. ResOK
    BY DEF Inv, AnswerInv, PlaceInv
  <2>2. pc \notin {"idle", "gone", "abandon", "finish"}
    BY DEF Before, Uploading
  <2>3. call.kind \in Fetching => call.kind # "close"
    BY <1>3 DEF RowsKinds
  <2> QED  BY <2>1, <2>2, <2>3 DEF ResOK
<1>5. OneByOne'
  BY <1>2 DEF RetryInv
<1>6. call.kind \notin Fetching \cup {"connect"} => OtherOK'
  <2>1. pc' \notin Uploading
    BY DEF Before
  <2> QED  BY <1>2, <2>1 DEF RetryInv, OtherOK, Harmless, Repeating
<1>7. call.kind \in Lasting => LastingOK'
  BY DEF LastingOK, Harmless
<1> QED  BY <1>2, <1>3, <1>4, <1>5, <1>6, <1>7 DEF RetryInv

LEMMA QuitHushed ==
    ASSUME WireType, CallType, NEW w, WireShape(w), w.out = wire.out, w.net = wire.net, NEW c,
           wire' = CutOff(c, w) \/ wire' = Quit(c, w)
    PROVE  Hushed /\ (wire'.net = "up" => wire.net = "up")
<1> DEFINE m == Message("quit", 0)
<1>1. m \in AnyMessage /\ m.cmd = call.id /\ ~Loud(m)
  <2>1. m \in Sent /\ m.kind = "quit"
    BY QuitOK DEF Message
  <2> QED  BY <2>1 DEF Sent, Loud
<1>2. \/ wire' = w
      \/ wire' = [w EXCEPT !.net = "closed", !.in = <<>>]
      \/ wire' = [[w EXCEPT !.out = Append(@, m)] EXCEPT !.net = "closed", !.in = <<>>]
  BY DEF CutOff, Quit, Message
<1> HIDE DEF m
<1>3. /\ wire'.out = wire.out \/ (wire'.out = Append(wire.out, m) /\ wire'.net = "closed")
      /\ wire'.net = wire.net \/ wire'.net = "closed"
  BY <1>2 DEF WireShape
<1> QED  BY <1>1, <1>3 DEF Hushed

LEMMA WriteHushed ==
    ASSUME WireType, CallType, NEW c, NEW m \in AnyMessage, m.cmd = call.id, NEW next, WritePacket(c, m, next)
    PROVE  /\ wire'.net = "up" => wire.net = "up"
           /\ \/ Hushed /\ \E e : Return(e)
              \/ Hushed /\ GoOn(next)
              \/ m.kind \notin Silent /\ wire'.out = Append(wire.out, m) /\ GoOn(next)
<1>1. WireShape(wire)
  BY DEF WireType, WireShape
<1>2. CASE WriteSucceeds(c, m, next)
  <2>1. GoOn(next) /\ wire' = [wire EXCEPT !.out = IF wire.net = "up" THEN Append(@, m) ELSE @]
    BY <1>2 DEF WriteSucceeds
  <2>2. wire'.net = wire.net /\ (wire'.out = wire.out \/ wire'.out = Append(wire.out, m))
    BY <1>1, <2>1 DEF WireShape
  <2> QED  BY <2>1, <2>2 DEF Hushed, Loud
<1>3. CASE ~WriteSucceeds(c, m, next)
  <2>1. UNCHANGED wire \/ wire' = Quit(c, wire) \/ wire' = CutOff(c, wire)
    BY <1>3 DEF WritePacket, CheckFails, NothingWritten, PartlyWritten
  <2>2. \E e : Return(e)
    BY <1>3, Zenon DEF WritePacket, CheckFails, NothingWritten, PartlyWritten
  <2>3. Hushed /\ (wire'.net = "up" => wire.net = "up")
    BY <1>1, <2>1, QuitHushed DEF Hushed
  <2> QED  BY <2>2, <2>3
<1> QED  BY <1>2, <1>3

\* What a call returns when nothing was refused.
LEMMA NotBad ==
    ASSUME NEW e, e \notin {"noWrite", "badConn"}, pc \notin {"write", "greeting"}
    PROVE  MarkBadConn(e) # "badConn"
BY DEF MarkBadConn

\* Where the client goes on after a return, unless it tries another character set.
LEMMA ReturnedTo ==
    ASSUME Inv, call.kind # "connect", NEW e, Return(e)
    PROVE  pc' \in {"idle", "abandon", "finish"} /\ res' = MarkBadConn(e) /\ call' = call
BY Returned DEF Inv

\* A step before the command is written.
LEMMA BeforeRetry ==
    ASSUME Inv, RetryInv, Hushed, call.kind # "connect", call'.id = call.id, call'.kind = call.kind,
           UNCHANGED history, Harmless', pc \in Before, pc' \in Uploading => pc \in Uploading
    PROVE  RetryInv'
BY UnsentBefore, HushedRetry

\* A step of reading, or of the Rows.
LEMMA AfterRetry ==
    ASSUME Inv, Goes, RetryInv, Hushed, call.kind # "connect", Harmless', wire'.net = "up" => wire.net = "up",
           pc \notin {"idle", "gone", "abandon", "finish", "closeFinish"},
           pc \notin Reading \cup Writing /\ conn.closed => pc' \notin Reading \cup Writing,
           pc' \notin Before \/ call.kind \notin Fetching, pc' \notin Uploading,
           res' = "badConn" /\ call.kind \in Fetching => res = "badConn" \/ Unsent
    PROVE  RetryInv'
<1>1. ~Excused' => ~Excused
  BY ExcusedStays DEF Inv, AnswerInv, PlaceInv
<1>2. call'.id = call.id /\ call'.kind = call.kind /\ UNCHANGED history
  BY DEF Goes
<1> QED  BY <1>1, <1>2, OtherKinds, HushedRetry

\* The steps before the command is written, but for the writing of it.
LEMMA WaitingRetry ==
    ASSUME Inv, Inv', Goes, RetryInv, call.kind # "connect", CheckClosed \/ Unanswered \/ ArgumentError
    PROVE  RetryInv'
<1>1. /\ pc \in {"check", "unanswered", "write"} /\ UNCHANGED wire
      /\ pc' = "write" \/ \E e : Return(e)
  BY DEF CheckClosed, Unanswered, ArgumentError, GoOn
<1>2. pc' \in {"write", "idle", "abandon", "finish"}
  BY <1>1, ReturnedTo
<1>3. Harmless'
  BY <1>2, HarmlessNext
<1>4. pc \in Before /\ pc' \notin Uploading
  BY <1>1, <1>2 DEF Before, Uploading
<1> QED  BY <1>1, <1>3, <1>4, BeforeRetry DEF Hushed, Goes

LEMMA CommandMessage ==
    ASSUME Inv, pc = "write", call.kind # "connect", Head(call.todo) # "argError"
    PROVE  /\ [kind |-> Head(call.todo), cmd |-> call.id, seq |-> 0] \in AnyMessage
           /\ Head(call.todo) \in CommandKinds
<1> DEFINE kind == Head(call.todo)
<1>1. CallType
  BY DEF Inv, CallInv
<1>2. kind \in CommandKinds
  <2>1. kind \in CommandKinds \cup {"argError"}
    BY <1>1, TodosFacts DEF CallType
  <2> QED  BY <2>1
<1> HIDE DEF kind
<1>3. Message(kind, 0) \in Sent
  BY <1>1, <1>2, SentOK
<1>4. [kind |-> kind, cmd |-> call.id, seq |-> 0] = Message(kind, 0)
  BY DEF Message
<1> QED  BY <1>2, <1>3, <1>4 DEF Sent, kind

LEMMA WritingRetry ==
    ASSUME Inv, Inv', Goes, RetryInv, call.kind # "connect", WriteQuery \/ WriteUnanswered
    PROVE  RetryInv'
<1> DEFINE kind == Head(call.todo)
           m == [kind |-> kind, cmd |-> call.id, seq |-> 0]
<1>1. pc = "write" /\ pc \in Before /\ WireType /\ CallType /\ UNCHANGED history
  BY DEF WriteQuery, WriteUnanswered, Before, Goes, EnvTypes
<1>2. CASE UNCHANGED wire /\ \E e : Return(e)
  <2>1. pc' \in {"idle", "abandon", "finish"}
    BY <1>2, ReturnedTo
  <2>2. Harmless' /\ pc' \notin Uploading
    BY <2>1, HarmlessNext DEF Uploading
  <2> QED  BY <1>1, <1>2, <2>2, BeforeRetry DEF Hushed, Goes
<1>3. ASSUME NEW next, kind # "argError", wire.buf = <<>>,
             WritePacket([conn EXCEPT !.seq = 0], m, next),
             (next = "unanswered" /\ kind \in Silent) \/ next = AfterCommand(kind)
      PROVE  RetryInv'
  <2>1. m \in AnyMessage /\ m.cmd = call.id /\ m.kind = kind /\ kind \in CommandKinds
    BY <1>1, <1>3, CommandMessage
  <2>2. next \in {"unanswered", "pong", "prepared", "header"}
    BY <1>3 DEF AfterCommand
  <2> DEFINE c == [conn EXCEPT !.seq = 0]
  <2>a. WritePacket(c, m, next)
    BY <1>3
  <2> HIDE DEF m, kind, c
  <2>3. /\ \/ Hushed /\ \E e : Return(e)
           \/ Hushed /\ GoOn(next)
           \/ m.kind \notin Silent /\ wire'.out = Append(wire.out, m) /\ GoOn(next)
    BY <1>1, <2>1, <2>a, WriteHushed
  <2>4. (GoOn(next) => pc' = next /\ UNCHANGED <<call, res>>)
        /\ ((\E e : Return(e)) => pc' \in {"idle", "abandon", "finish"})
    BY ReturnedTo DEF GoOn
  <2>5. Harmless'
    <3>1. CASE Excused'
      BY <3>1 DEF Harmless, Passing
    <3>2. CASE ~Excused'
      <4>1. Stream = <<>>
        BY <1>1, <3>2, QuietNow DEF Writing
      <4>2. Stream' = <<>>
        BY <1>1, <2>a, <4>1, StillNothing
      <4> QED  BY <4>2 DEF Harmless, Passing
    <3> QED  BY <3>1, <3>2
  <2>6. pc' \in {"idle", "abandon", "finish", "unanswered", "pong", "prepared", "header"}
    BY <2>2, <2>3, <2>4
  <2>7. CASE Hushed
    BY <1>1, <2>5, <2>6, <2>7, BeforeRetry DEF Goes, Uploading
  <2>8. CASE m.kind \notin Silent /\ wire'.out = Append(wire.out, m) /\ GoOn(next)
    <3>1. next # "unanswered"
      BY <1>3, <2>1, <2>8 DEF AfterCommand
    <3>2. pc' \notin Before
      BY <2>2, <2>4, <2>8, <3>1 DEF Before, Uploading
    <3>3. m.kind # "empty"
      BY <2>1 DEF CommandKinds
    <3> QED  BY <1>1, <2>1, <2>4, <2>5, <2>8, <3>2, <3>3, SpokenRetry
  <2> QED  BY <2>3, <2>7, <2>8
<1>4. CASE WriteQuery
  <2>1. kind # "argError"
    BY <1>4 DEF WriteQuery
  <2>2. \/ UNCHANGED wire /\ \E e : Return(e)
        \/ wire.buf = <<>> /\ WritePacket([conn EXCEPT !.seq = 0], m, AfterCommand(kind))
    BY <1>4, Zenon DEF WriteQuery, WriteCommand, BusyBuffer
  <2> QED  BY <1>2, <1>3, <2>1, <2>2
<1>5. CASE WriteUnanswered
  <2>1. kind # "argError" /\ kind \in Silent
    BY <1>5 DEF WriteUnanswered, Silent
  <2>2. \/ UNCHANGED wire /\ \E e : Return(e)
        \/ wire.buf = <<>> /\ WritePacket([conn EXCEPT !.seq = 0], m, "unanswered")
    BY <1>5, Zenon DEF WriteUnanswered, WriteCommand, BusyBuffer
  <2> QED  BY <1>2, <1>3, <2>1, <2>2
<1> QED  BY <1>4, <1>5

LEMMA UploadingRetry ==
    ASSUME Inv, Inv', Goes, RetryInv, call.kind # "connect", InfileData \/ InfileEnd
    PROVE  RetryInv'
<1>1. /\ pc \in Uploading /\ pc \in Before /\ WireType /\ CallType /\ UNCHANGED history /\ conn.seq \in Nat
  BY DEF InfileData, InfileEnd, Uploading, Before, Goes, EnvTypes, CallType
<1>2. call.kind \in Fetching
  BY <1>1 DEF RetryInv, OtherOK
<1>3. PICK kind \in {"data", "empty"}, next \in {"infileEnd", "infileAbort", "infileOK", "infileSkip"} :
         /\ WritePacket(conn, Upload(kind), next)
         /\ kind = "empty" => next \in {"infileOK", "infileSkip"}
  <2>1. InfileData => \E next \in {"infileEnd", "infileAbort"} : WritePacket(conn, Upload("data"), next)
    BY DEF InfileData
  <2>2. InfileEnd => \E next \in {"infileOK", "infileSkip"} : WritePacket(conn, Upload("empty"), next)
    BY DEF InfileEnd
  <2> QED  BY <2>1, <2>2
<1> DEFINE m == Message(kind, conn.seq)
<1>4. m \in AnyMessage /\ m.cmd = call.id /\ m.kind = kind
  <2>1. kind \in SetupKinds
    BY DEF SetupKinds
  <2>2. m \in Sent
    BY <1>1, <2>1, SentOK
  <2> QED  BY <2>2 DEF Sent, Message
<1>5. Upload(kind) = m
  BY DEF Upload, Message
<1> HIDE DEF m
<1>6. /\ \/ Hushed /\ \E e : Return(e)
         \/ Hushed /\ GoOn(next)
         \/ m.kind \notin Silent /\ wire'.out = Append(wire.out, m) /\ GoOn(next)
  BY <1>1, <1>3, <1>4, <1>5, WriteHushed
<1>7. (GoOn(next) => pc' = next /\ UNCHANGED <<call, res>>)
      /\ ((\E e : Return(e)) => pc' \in {"idle", "abandon", "finish"})
  BY ReturnedTo DEF GoOn
<1>8. Harmless'
  BY <1>6, <1>7, HarmlessNext
<1>9. CASE Hushed
  BY <1>1, <1>8, <1>9, BeforeRetry DEF Goes
<1>10. CASE m.kind \notin Silent /\ wire'.out = Append(wire.out, m) /\ GoOn(next)
  <2>1. pc' \notin Before
    BY <1>3, <1>4, <1>7, <1>10 DEF Silent, Before, Uploading
  <2> QED  BY <1>1, <1>2, <1>4, <1>7, <1>8, <1>10, <2>1, SpokenRetry
<1> QED  BY <1>6, <1>9, <1>10

\* While the answer is read nothing is sent but a COM_QUIT.
LEMMA ReadHushed ==
    ASSUME Inv, pc \in Reading, Readable, wire' \in Filled
    PROVE  Hushed /\ (wire'.net = "up" => wire.net = "up")
BY StreamTaken DEF Hushed, Inv, CallInv, EnvTypes

\* What a call that was begun has left after its command.
LEMMA DoneReturns ==
    ASSUME Inv, call.kind # "connect", call.kind \in Fetching, CommandDone, pc \in {"header", "infileOK", "rows"}
    PROVE  Return("ok")
<1>1. TodoOK
  BY DEF Inv, AnswerInv, PlaceInv
<1>2. call.todo \in {<<"query">>, <<"execute">>, <<"end">>}
  <2>1. call.kind \in {"stmtExec", "stmtQuery"} => call.todo = <<"execute">>
    BY <1>1 DEF TodoOK, Reading
  <2>2. call.kind \in {"exec", "query"} => call.todo = <<"query">>
    BY <1>1 DEF TodoOK, TodosOf, RowsKinds
  <2>3. call.kind \in RowsKinds => call.todo \in {<<"query">>, <<"execute">>}
    BY <1>1 DEF TodoOK, TodosOf, RowsKinds
  <2>4. call.kind = "commit" => call.todo = <<"end">>
    BY <1>1 DEF TodoOK, TodosOf, RowsKinds
  <2> QED  BY <2>1, <2>2, <2>3, <2>4 DEF Fetching, Lasting
<1>3. Tail(call.todo) = <<>> /\ Len(call.todo) = 1
  <2>1. \A x : Tail(<<x>>) = <<>> /\ Len(<<x>>) = 1
    OBVIOUS
  <2> QED  BY <1>2, <2>1
<1>4. ~CharsetLeft
  BY <1>3 DEF CharsetLeft
<1> QED  BY <1>3, <1>4 DEF CommandDone

\* The steps that read an answer, by where they lead.
LEMMA ReadRetry ==
    ASSUME Inv, Inv', Goes, RetryInv, call.kind # "connect", pc \in Reading, Hushed,
           wire'.net = "up" => wire.net = "up", pc' # "header" \/ Harmless',
           pc' \notin Before \/ call.kind \notin Fetching, pc' \notin Uploading,
           res' = "badConn" => res = "badConn"
    PROVE  RetryInv'
<1>1. Harmless'
  BY HarmlessNext
<1>2. pc \notin {"idle", "gone", "abandon", "finish", "closeFinish"}
  BY DEF Reading
<1> QED  BY <1>1, <1>2, AfterRetry

\* A result that is followed by another one.
LEMMA MoreHarmless ==
    ASSUME Inv, Goes, pc \in {"header", "infileOK", "rows"}, Readable, wire' \in Filled,
           NextPacket.kind \in {"ok", "eof"}
    PROVE  Harmless'
<1> SUFFICES ASSUME Stream' # <<>>, ~Excused'
             PROVE  Stream'[1].kind \notin Repeating
  BY DEF Harmless, Passing
<1>1. pc \in Reading /\ call.kind # "prepare"
  BY NotPrepare DEF Reading, DefiningPlaces
<1>2. Stream' = Tail(Stream)
  BY <1>1, NextRead
<1>3. Stream'[1] = Second
  <2>1. Stream \in Seq(AnyPacket) /\ Stream # <<>>
    BY StreamType, FirstPacket DEF Inv, CallInv, EnvTypes
  <2> QED  BY <1>2, <2>1, TailFacts DEF Second
<1>4. Follows(NextPacket, Second)
  BY <1>1, <1>2, NextRead
<1>5. Second.kind \in Starts
  BY <1>4 DEF Follows
<1> QED  BY <1>3, <1>5 DEF Starts, Repeating

LEMMA AfterResultRetry ==
    ASSUME Inv, Inv', Goes, RetryInv, call.kind # "connect", OkPacket \/ RowsEnd
    PROVE  RetryInv'
<1>1. /\ pc \in {"header", "infileOK", "rows"} /\ pc \in Reading
      /\ Readable /\ wire' \in Filled /\ NextPacket.kind \in {"ok", "eof"}
      /\ AfterResult(NextPacket.more)
  BY DEF OkPacket, RowsEnd, Receive, Expect, Reading
<1>2. Hushed /\ (wire'.net = "up" => wire.net = "up")
  BY <1>1, ReadHushed
<1>3. Harmless'
  BY <1>1, MoreHarmless
<1>4. CASE Return("ok")
  <2>1. pc' \in {"idle", "abandon", "finish"} /\ res' = MarkBadConn("ok")
    BY <1>4, ReturnedTo
  <2>2. res' # "badConn"
    BY <1>1, <2>1, NotBad
  <2> QED  BY <1>1, <1>2, <1>3, <2>1, <2>2, ReadRetry DEF Before, Uploading
<1>5. CASE GoOn("nextResultSet") \/ GoOn("header")
  <2>1. pc' \in {"nextResultSet", "header"} /\ res' = res
    BY <1>5 DEF GoOn
  <2> QED  BY <1>1, <1>2, <1>3, <2>1, ReadRetry DEF Before, Uploading
<1>6. CASE CommandDone /\ ~Return("ok")
  <2>1. pc' \in {"check", "write"} /\ res' = res
    BY <1>6 DEF CommandDone
  <2>2. call.kind \notin Fetching
    BY <1>1, <1>6, DoneReturns
  <2> QED  BY <1>1, <1>2, <1>3, <2>1, <2>2, ReadRetry DEF Uploading
<1> QED  BY <1>1, <1>4, <1>5, <1>6 DEF AfterResult

\* A packet in the middle of a result, or the answer to a ping or to a prepare.
LEMMA MiddleRetry ==
    ASSUME Inv, Inv', Goes, RetryInv, call.kind # "connect",
           Pong \/ Header \/ Columns \/ SkipRow \/ Prepared \/ Definitions \/ Row \/ InfileSkip \/ Variable
    PROVE  RetryInv'
<1>1. pc \in Reading /\ pc \notin {"write", "greeting"} /\ Readable /\ wire' \in Filled
  BY DEF Pong, Header, Columns, SkipRow, Prepared, Definitions, Row, InfileSkip, Variable, Receive, Expect, Reading
<1>2. Hushed /\ (wire'.net = "up" => wire.net = "up")
  BY <1>1, ReadHushed
<1>3. \/ \E e \in {"ok", "eof", "malformed", "local"} : Return(e)
      \/ \E next \in {"columns", "variable", "rows", "definitions", "moreDefinitions"} : GoOn(next)
      \/ pc' = "rows" /\ res' = res
  BY DEF Pong, Header, Columns, SkipRow, Prepared, Definitions, Row, InfileSkip, Variable, clientVars, Receive, Expect
<1>4. /\ pc' \in {"idle", "abandon", "finish", "columns", "variable", "rows", "definitions", "moreDefinitions"}
      /\ res' = "badConn" => res = "badConn"
  <2>1. CASE \E e \in {"ok", "eof", "malformed", "local"} : Return(e)
    <3>1. PICK e \in {"ok", "eof", "malformed", "local"} : Return(e)
      BY <2>1
    <3>2. pc' \in {"idle", "abandon", "finish"} /\ res' = MarkBadConn(e)
      BY <3>1, ReturnedTo
    <3> QED  BY <1>1, <3>2, NotBad
  <2>2. CASE \E next \in {"columns", "variable", "rows", "definitions", "moreDefinitions"} : GoOn(next)
    BY <2>2 DEF GoOn
  <2> QED  BY <1>3, <2>1, <2>2
<1>5. pc' # "header" /\ pc' \notin Before /\ pc' \notin Uploading
  BY <1>4 DEF Before, Uploading
<1> QED  BY <1>1, <1>2, <1>4, <1>5, ReadRetry

\* An answer that cannot be read.
LEMMA FailureRetry ==
    ASSUME Inv, Inv', Goes, RetryInv, call.kind # "connect", CommandFails
    PROVE  RetryInv'
<1>1. pc \in Reading /\ (ReadFails \/ OutOfSync) /\ WireType /\ CallType
  BY DEF CommandFails, Goes, EnvTypes
<1>2. pc \notin {"write", "greeting"}
  BY <1>1 DEF Reading, Inv, AnswerInv, ConnectFirst, Greeted
<1>3. \E e \in {"ctx", "invalid", "sync"} : Return(e)
  BY <1>1 DEF ReadFails, OutOfSync
<1>4. Hushed /\ (wire'.net = "up" => wire.net = "up")
  <2>1. CASE ReadFails
    <3>1. UNCHANGED wire \/ wire' = Quit(conn, wire)
      BY <2>1 DEF ReadFails
    <3>2. WireShape(wire)
      BY <1>1 DEF WireType, WireShape
    <3> QED  BY <1>1, <3>1, <3>2, QuitHushed DEF Hushed
  <2>2. CASE OutOfSync
    <3>1. wire'.out = wire.out /\ wire'.net = wire.net
      BY <1>1, <2>2 DEF OutOfSync, WireType
    <3> QED  BY <3>1 DEF Hushed
  <2> QED  BY <1>1, <2>1, <2>2
<1>5. pc' \in {"idle", "abandon", "finish"} /\ res' # "badConn"
  <2>1. PICK e \in {"ctx", "invalid", "sync"} : Return(e)
    BY <1>3
  <2>2. pc' \in {"idle", "abandon", "finish"} /\ res' = MarkBadConn(e)
    BY <2>1, ReturnedTo
  <2> QED  BY <1>2, <2>2, NotBad
<1> QED  BY <1>1, <1>4, <1>5, ReadRetry DEF Before, Uploading

\* What the server may say where the call would be repeated.
LEMMA RefusedUnsent ==
    ASSUME Inv, Goes, RetryInv, call.kind # "connect", pc \in Reading, Readable, NextPacket.kind \in Repeating
    PROVE  /\ call.kind \in Fetching => Unsent /\ call.kind \notin RowsKinds
           /\ NextPacket.kind = "infile" => call.kind \in Fetching
<1>1. Stream # <<>> /\ NextPacket = Stream[1]
  BY FirstPacket DEF Goes, EnvTypes
<1>2. Passing
  BY <1>1 DEF Passing, Excused, Reading
<1> QED  BY <1>1, <1>2, OtherKinds DEF RetryInv, LastingOK, OnRowsOK, OtherOK

LEMMA ErrorRetry ==
    ASSUME Inv, Inv', Goes, RetryInv, call.kind # "connect", ErrorPacket
    PROVE  RetryInv'
<1>1. /\ pc \in {"header", "rows", "row", "pong", "prepared", "infileOK"} /\ pc \in Reading /\ Readable
      /\ WireType /\ CallType
  BY DEF ErrorPacket, Expect, Reading, Goes, EnvTypes
<1>2. PICK w \in Filled :
         \/ NextPacket.kind = "readOnly" /\ wire' = Quit(conn, w) /\ Return("badConn")
         \/ wire' = w /\ Return("err")
  BY DEF ErrorPacket
<1>3. Hushed /\ (wire'.net = "up" => wire.net = "up")
  <2>1. CASE wire' = w
    BY <1>1, <1>2, <2>1, ReadHushed
  <2>2. CASE wire' = Quit(conn, w)
    <3>1. WireShape(w) /\ w.out = wire.out /\ w.net = wire.net
      BY <1>1, <1>2, FilledIncoming, StreamTaken DEF Incoming
    <3> QED  BY <1>1, <2>2, <3>1, QuitHushed
  <2> QED  BY <1>2, <2>1, <2>2
<1>4. pc' \in {"idle", "abandon", "finish"}
  BY <1>2, ReturnedTo
<1>5. res' = "badConn" /\ call.kind \in Fetching => Unsent
  <2>1. CASE Return("err")
    <3>1. res' = MarkBadConn("err")
      BY <2>1, ReturnedTo
    <3> QED  BY <1>1, <3>1, NotBad
  <2>2. CASE NextPacket.kind = "readOnly"
    BY <1>1, <2>2, RefusedUnsent DEF Repeating
  <2> QED  BY <1>2, <2>1, <2>2
<1>6. Harmless' /\ pc' \notin Before /\ pc' \notin Uploading /\ pc' \notin Reading \cup Writing
  BY <1>4, HarmlessNext DEF Before, Uploading, Reading, Writing
<1>7. pc \notin {"idle", "gone", "abandon", "finish", "closeFinish"}
  BY <1>1
<1> QED  BY <1>3, <1>5, <1>6, <1>7, AfterRetry

LEMMA RequestRetry ==
    ASSUME Inv, Inv', Goes, RetryInv, call.kind # "connect", InfileRequest
    PROVE  RetryInv'
<1>1. pc \in Reading /\ Readable /\ wire' \in Filled /\ NextPacket.kind = "infile"
  BY DEF InfileRequest, Receive, Expect, Reading
<1>2. pc' \in Uploading /\ UNCHANGED <<call, res>>
  BY DEF InfileRequest, GoOn, Uploading
<1>3. Hushed
  BY <1>1, ReadHushed
<1>4. call.kind \in Fetching /\ call.kind \notin RowsKinds /\ Unsent
  BY <1>1, RefusedUnsent DEF Repeating
<1>5. Harmless'
  BY <1>2, HarmlessNext DEF Uploading
<1> QED  BY <1>2, <1>3, <1>4, <1>5, HushedRetry DEF Goes

\* What follows the rows that have been read is the start of another result, or more rows.
LEMMA RowsHarmless ==
    ASSUME Inv, Inv', UNCHANGED wire, pc \in RowsPlaces, ~Excused' => ~Excused
    PROVE  Harmless'
<1>1. Expected = ByRows
  BY ByRowsExpected
<1>2. Expected \cap Repeating = {}
  BY <1>1 DEF ByRows, Starts, InRows, Repeating
<1>3. Stream' = Stream
  BY DEF Stream
<1>4. Passing => Stream[1].kind \in Expected
  BY DEF Inv, AnswerInv, StreamOK, Passing, Expects
<1> QED  BY <1>2, <1>3, <1>4 DEF Harmless, Passing

LEMMA IteratingRetry ==
    ASSUME Inv, Inv', Goes, RetryInv, NextRow \/ NextResultSet \/ CloseRows
    PROVE  RetryInv'
<1>1. pc \in {"nextRow", "nextResultSet", "closeRows"} /\ UNCHANGED <<session, conn, wire, srv>>
  BY DEF NextRow, NextResultSet, CloseRows, Rest
<1>2. call.kind # "connect"
  BY <1>1, PlacesOf DEF Inv
<1>3. \/ \E e \in {"ok", "eof", "ctx", "invalid"} : Return(e)
      \/ ~conn.closed /\ \E next \in {"row", "header", "rows"} : GoOn(next)
  BY DEF NextRow, NextResultSet, CloseRows, ConnError
<1>4. ASSUME NEW e \in {"ok", "eof", "ctx", "invalid"}, Return(e)
      PROVE  pc' \in {"idle", "abandon", "finish"} /\ res' # "badConn"
  <2>1. pc' \in {"idle", "abandon", "finish"} /\ res' = MarkBadConn(e)
    BY <1>2, <1>4, ReturnedTo
  <2> QED  BY <1>1, <2>1, NotBad
<1>5. ASSUME ~conn.closed, NEW next \in {"row", "header", "rows"}, GoOn(next)
      PROVE  pc' \in {"row", "header", "rows"} /\ res' = res
  BY <1>5 DEF GoOn
<1>6. /\ pc' \in {"idle", "abandon", "finish", "row", "header", "rows"}
      /\ res' = "badConn" => res = "badConn"
      /\ conn.closed => pc' \notin Reading \cup Writing
  BY <1>3, <1>4, <1>5 DEF Reading, Writing, Uploading
<1>7. ~Excused' => ~Excused
  BY <1>1, <1>6, ExcusedStays DEF Inv, AnswerInv, PlaceInv
<1>8. Harmless'
  BY <1>1, <1>7, RowsHarmless DEF RowsPlaces
<1>9. pc' \notin Before /\ pc' \notin Uploading
  BY <1>6 DEF Before, Uploading
<1>10. Hushed /\ (wire'.net = "up" => wire.net = "up")
  BY <1>1 DEF Hushed
<1> QED  BY <1>1, <1>2, <1>6, <1>8, <1>9, <1>10, AfterRetry

\* A step of Connect.
LEMMA ConnectingRetry ==
    ASSUME Inv, Goes, ClientMoves, RetryInv, call.kind = "connect"
    PROVE  RetryInv'
<1>1. PICK m \in Sent : wire'.out \in {wire.out, <<>>, Append(wire.out, m)}
  BY DEF ClientMoves, WireMoved
<1>2. m \in AnyMessage /\ m.cmd = call.id
  BY DEF Sent
<1> QED  BY <1>1, <1>2, ConnectRetry DEF Goes

LEMMA ClientRetry ==
    ASSUME Inv, Inv', RetryInv, ClientSteps
    PROVE  RetryInv'
<1>1. Goes /\ ClientMoves
  BY StepFacts DEF Inv, CallInv
<1>2. CASE call.kind = "connect"
  BY <1>1, <1>2, ConnectingRetry
<1>3. CASE call.kind # "connect"
  <2>1. pc \notin Greeted
    BY <1>3 DEF Inv, AnswerInv, ConnectFirst
  <2>2. CASE HandshakeSteps
    <3>1. Variable \/ Abandon
      BY <2>1, <2>2 DEF HandshakeSteps, Greeting, StartTls, TlsHandshake, Respond, AuthResult, AuthAnswer, AskKey,
                        Key, AuthOK, Receive, Expect, Greeted
    <3>2. CASE Variable
      BY <1>1, <1>3, <3>2, MiddleRetry
    <3>3. CASE Abandon
      <4>1. /\ pc' = "finish" /\ UNCHANGED <<call, res>>
            /\ wire' = Quit(conn, wire) \/ wire' = CutOff(conn, wire)
        BY <3>3 DEF Abandon, GoOn
      <4>2. WireType /\ CallType /\ WireShape(wire)
        BY <1>1 DEF Goes, EnvTypes, WireType, WireShape
      <4>3. Hushed
        BY <4>1, <4>2, QuitHushed
      <4>4. conn'.closed
        BY <1>1, <3>3 DEF Abandon, Cleanup, Goes, WatchInv, Shapes, ConnShape
      <4>5. Excused'
        BY <4>1, <4>4 DEF Excused, Reading, Writing, Uploading
      <4>6. Harmless' /\ pc' \notin Before /\ pc' \notin Uploading
        BY <4>1, HarmlessNext DEF Before, Uploading
      <4> QED  BY <1>1, <1>3, <4>1, <4>3, <4>5, <4>6, HushedRetry DEF Goes
    <3> QED  BY <3>1, <3>2, <3>3
  <2>3. CASE SendingSteps
    BY <1>1, <1>3, <2>3, WaitingRetry, WritingRetry, UploadingRetry, RequestRetry, MiddleRetry DEF SendingSteps
  <2>4. CASE ReadingSteps
    BY <1>1, <1>3, <2>4, AfterResultRetry, MiddleRetry, ErrorRetry, FailureRetry DEF ReadingSteps
  <2>5. CASE IteratingSteps
    BY <1>1, <1>3, <2>5, IteratingRetry, MiddleRetry DEF IteratingSteps
  <2> QED  BY <2>2, <2>3, <2>4, <2>5 DEF ClientSteps
<1> QED  BY <1>2, <1>3

(* The other steps of a call, and its beginning *)

LEMMA WatchRetry ==
    ASSUME Inv, Inv', RetryInv, WatchCancel \/ Precheck
    PROVE  RetryInv'
<1>1. pc \in {"watch", "precheck"} /\ pc \in Before /\ UNCHANGED history
  BY DEF WatchCancel, Precheck, Rest, Before
<1>2. call' = call /\ wire' = wire /\ pc' \notin {"header"} \cup Uploading
  <2>1. CASE WatchCancel
    <3>1. pc = "watch" /\ (conn.watching => conn.closed)
      BY <2>1 DEF WatchCancel, Inv, AnswerInv, QuietOK
    <3>2. wire' = wire
      BY <2>1, <3>1 DEF WatchCancel, CutOff
    <3>3. call' = call /\ pc' \in {"greeting", "write", "check", "abandon", "idle"}
      BY <2>1 DEF WatchCancel, GoOn, AfterWatch
    <3> QED  BY <3>2, <3>3 DEF Uploading
  <2>2. CASE Precheck
    <3>1. pc = "precheck" /\ UNCHANGED wire
      BY <2>2 DEF Precheck
    <3>2. call.kind # "connect"
      BY <3>1, PlacesOf DEF Inv
    <3>3. (\E e : Return(e)) \/ \E next \in {"watch", "write"} : GoOn(next)
      BY <2>2 DEF Precheck
    <3>4. call' = call /\ pc' \in {"idle", "abandon", "finish", "watch", "write"}
      BY <3>2, <3>3, ReturnedTo DEF GoOn
    <3> QED  BY <3>1, <3>4 DEF Uploading
  <2> QED  BY <2>1, <2>2
<1>3. Harmless'
  BY <1>2, HarmlessNext
<1>4. CASE call.kind = "connect"
  <2>1. CallType
    BY DEF Inv, CallInv
  <2>2. Message("quit", 0) \in AnyMessage /\ Message("quit", 0).cmd = call.id
    BY <2>1, QuitOK DEF Sent
  <2> QED  BY <1>1, <1>2, <1>4, <2>2, ConnectRetry
<1>5. CASE call.kind # "connect"
  BY <1>1, <1>2, <1>3, <1>5, BeforeRetry DEF Hushed
<1> QED  BY <1>4, <1>5

LEMMA FinishingRetry ==
    ASSUME Inv, Inv', RetryInv, Finish \/ CloseFinish
    PROVE  RetryInv'
<1>1. /\ pc \in {"finish", "closeFinish"} /\ pc' \in {"contextCheck", "gone", "idle", "closeRows"}
      /\ UNCHANGED <<call, res, wire, history>> /\ FinishWatch
  BY DEF Finish, CloseFinish
<1>2. conn'.closed = conn.closed /\ conn'.canceled = conn.canceled
  BY <1>1, WatchFinished DEF Inv, CallInv
<1>3. Harmless'
  BY <1>1, HarmlessNext
<1>4. CASE call.kind = "connect"
  <2>1. CallType
    BY DEF Inv, CallInv
  <2>2. Message("quit", 0) \in AnyMessage /\ Message("quit", 0).cmd = call.id
    BY <2>1, QuitOK DEF Sent
  <2> QED  BY <1>1, <1>4, <2>2, ConnectRetry
<1>5. CASE call.kind # "connect"
  <2>1. ~Excused' => ~Excused
    BY <1>1, <1>2, <1>5 DEF Excused, Reading, Writing, Uploading
  <2>2. pc' \notin Before /\ pc' \notin Uploading
    BY <1>1 DEF Before, Uploading
  <2> QED  BY <1>1, <1>3, <1>5, <2>1, <2>2, HushedRetry DEF Hushed
<1> QED  BY <1>4, <1>5

\* A statement that was prepared too late is closed, which is not answered.
LEMMA ContextRetry ==
    ASSUME Inv, Inv', RetryInv, ContextCheck
    PROVE  RetryInv'
<1> DEFINE m == [kind |-> "stmtClose", cmd |-> call.id, seq |-> 0]
<1>1. /\ pc = "contextCheck" /\ pc' = "idle" /\ UNCHANGED <<call, history>>
      /\ res' = res \/ res' = "ctx"
      /\ UNCHANGED wire \/ wire' = [wire EXCEPT !.out = Append(@, m)]
  BY DEF ContextCheck, Rest
<1>2. WireType /\ CallType /\ call.kind # "connect"
  BY <1>1, PlacesOf DEF Inv, CallInv, EnvTypes
<1>3. conn'.closed = conn.closed /\ conn'.canceled = conn.canceled
  BY DEF ContextCheck, Inv, CallInv, WatchInv, Shapes, ConnShape
<1>4. m \in AnyMessage /\ m.cmd = call.id /\ ~Loud(m) /\ m.kind \in Silent
  <2>1. "stmtClose" \in CommandKinds
    BY DEF CommandKinds
  <2>2. Message("stmtClose", 0) \in Sent
    BY <1>2, <2>1, SentOK
  <2>3. m = Message("stmtClose", 0)
    BY DEF Message
  <2> QED  BY <2>2, <2>3 DEF Sent, Loud, Silent
<1> HIDE DEF m
<1>5. Hushed /\ wire'.net = wire.net
  <2>1. wire'.net = wire.net /\ (wire'.out = wire.out \/ wire'.out = Append(wire.out, m))
    BY <1>1, <1>2 DEF WireType
  <2> QED  BY <1>4, <2>1 DEF Hushed
<1>6. ~Excused' => ~Excused
  BY <1>1, <1>2, <1>3 DEF Excused, Reading, Writing, Uploading
<1>7. Harmless' /\ pc' \notin Before /\ pc' \notin Uploading
  BY <1>1, HarmlessNext DEF Before, Uploading
<1> QED  BY <1>1, <1>2, <1>5, <1>6, <1>7, HushedRetry

LEMMA DialRetry ==
    ASSUME Inv, RetryInv, Dial
    PROVE  RetryInv'
<1>1. pc = "dial" /\ UNCHANGED <<call, history>> /\ wire'.out = wire.out
  BY DEF Dial, Inv, CallInv, EnvTypes, WireType
<1>2. CallType /\ call.kind = "connect"
  BY <1>1 DEF Inv, CallInv, AnswerInv, ConnectFirst
<1>3. Message("quit", 0) \in AnyMessage /\ Message("quit", 0).cmd = call.id
  BY <1>2, QuitOK DEF Sent
<1> QED  BY <1>1, <1>2, <1>3, ConnectRetry

LEMMA CloseConnRetry ==
    ASSUME Inv, Inv', RetryInv, CloseConn
    PROVE  RetryInv'
<1>1. /\ pc = "idle" /\ pc' = "gone" /\ UNCHANGED <<call, res, history>> /\ wire' = Quit(conn, wire)
  BY DEF CloseConn, Rest
<1>2. WireType /\ CallType /\ WireShape(wire)
  BY DEF Inv, CallInv, EnvTypes, WireType, WireShape
<1>3. Hushed
  BY <1>1, <1>2, QuitHushed
<1>4. CASE call.kind = "connect"
  <2>1. CASE wire'.out = wire.out
    <3>1. Message("quit", 0) \in AnyMessage /\ Message("quit", 0).cmd = call.id
      BY <1>2, QuitOK DEF Sent
    <3> QED  BY <1>1, <1>4, <2>1, <3>1, ConnectRetry
  <2>2. CASE wire'.out # wire.out
    <3>1. PICK m \in AnyMessage : wire'.out = Append(wire.out, m) /\ m.cmd = call.id
      BY <1>3, <2>2 DEF Hushed
    <3> QED  BY <1>1, <1>4, <3>1, ConnectRetry
  <2> QED  BY <2>1, <2>2
<1>5. CASE call.kind # "connect"
  <2>1. Excused'
    BY <1>1 DEF Excused
  <2>2. Harmless' /\ pc' \notin Before /\ pc' \notin Uploading
    BY <1>1, HarmlessNext DEF Before, Uploading
  <2> QED  BY <1>1, <1>3, <1>5, <2>1, <2>2, HushedRetry
<1> QED  BY <1>4, <1>5

\* Nothing of a call that has not begun is with the server.
LEMMA StartCallRetry ==
    ASSUME Inv, Inv', RetryInv, StartCall
    PROVE  RetryInv'
<1>1. /\ call'.id = call.id + 1 /\ call'.kind \in Kinds
      /\ pc' \in {"idle", "precheck", "watch"} /\ UNCHANGED <<wire, history>>
  BY DEF StartCall, Rest
<1>2. call.id \in Nat /\ \A i \in 1 .. Len(wire.out) : wire.out[i].cmd \in Nat
  <2>1. WireType /\ CallType
    BY DEF Inv, CallInv, EnvTypes
  <2>2. \A i \in 1 .. Len(wire.out) : wire.out[i] \in AnyMessage
    BY <2>1, ElementOfSeq DEF WireType
  <2>3. \A x \in AnyMessage : x.cmd \in Nat
    BY DEF AnyMessage
  <2> QED  BY <2>1, <2>2, <2>3 DEF CallType, Calls
<1>3. OneByOne
  BY DEF RetryInv
<1>4. OneByOne'
  BY <1>1, <1>2, <1>3 DEF OneByOne
<1>5. /\ call'.id \notin history'.done
      /\ \A i \in 1 .. Len(wire'.out) : wire'.out[i].cmd # call'.id
  BY <1>1, <1>2, <1>3 DEF OneByOne
<1>6. Unsent' /\ Once' /\ NoEmpty'
  BY <1>5 DEF Unsent, Once, NoEmpty, OwnLoud
<1>7. Harmless' /\ pc' \notin Uploading
  BY <1>1, HarmlessNext DEF Uploading
<1>8. call'.kind \notin RowsKinds
  BY <1>1, KindsAssumption DEF RowsKinds
<1>9. OtherOK' /\ LastingOK'
  BY <1>5, <1>6, <1>7 DEF OtherOK, LastingOK, Harmless, Repeating
<1> QED  BY <1>4, <1>6, <1>8, <1>9 DEF RetryInv

\* A call on the Rows comes when the command has been sent, and answered if the connection
\* is still in use.
LEMMA RowsCallRetry ==
    ASSUME Inv, Inv', RetryInv, StartRowsCall
    PROVE  RetryInv'
<1>1. /\ pc = "idle" /\ rows.open /\ UNCHANGED <<res, session, conn, wire, srv, history>>
      /\ pc' \in {"nextRow", "nextResultSet", "closeFinish"}
  BY DEF StartRowsCall, Rest
<1>2. call'.id = call.id /\ call'.kind \in RowsKinds
  BY DEF StartRowsCall, RowsKinds, Inv, CallInv, WatchInv, Shapes, CallShape
<1>3. call.kind \in {"query", "stmtQuery", "next", "nextResult"} /\ call.kind \in Fetching
  BY <1>1 DEF Inv, CallInv, CallType, Iterating, QueryKinds, Fetching, Lasting, RowsKinds
<1>4. ~Excused' => ~Excused
  BY <1>1, <1>2, <1>3 DEF Excused, Reading, Writing, Uploading, RowsKinds
<1>5. OneByOne /\ Once /\ (res = "badConn" => Unsent)
  BY <1>3 DEF RetryInv
<1>6. OneByOne' /\ Once' /\ (res' = "badConn" => Unsent')
  BY <1>1, <1>2, <1>5 DEF OneByOne, Once, Unsent, OwnLoud
<1>7. ~Excused' /\ wire'.net = "up" => AllSilent(wire'.out)
  <2>1. Wanted = "none" /\ WireType
    BY <1>1, ExpectsNothing DEF RowsPlaces, Inv, CallInv, EnvTypes
  <2>2. ~Excused /\ wire.net = "up" => OutOK
    BY DEF Inv, AnswerInv, StreamOK
  <2> QED  BY <1>1, <1>4, <2>1, <2>2, NotAsked
<1>8. Harmless' /\ pc' \notin Before
  BY <1>1, HarmlessNext DEF Before, Uploading
<1>9. OnRowsOK'
  BY <1>7, <1>8 DEF OnRowsOK, Harmless
<1>10. call'.kind \in Fetching /\ call'.kind \notin Lasting /\ call'.kind # "connect"
  BY <1>2 DEF RowsKinds, Lasting, Fetching
<1> QED  BY <1>6, <1>9, <1>10 DEF RetryInv

LEMMA CallRetry ==
    ASSUME Inv, Inv', RetryInv, CallSteps
    PROVE  RetryInv'
BY DialRetry, WatchRetry, ContextRetry, FinishingRetry, StartCallRetry, RowsCallRetry, CloseConnRetry DEF CallSteps

LEMMA RetryInit ==
    ASSUME Init
    PROVE  RetryInv
<1>1. wire.out = <<>> /\ history.done = {} /\ call.kind = "connect"
  BY DEF Init
<1> QED  BY <1>1, OtherKinds DEF RetryInv, OneByOne

LEMMA RetryStep ==
    ASSUME "multiInfile" \notin Features, Inv, RetryInv, [Next]_vars
    PROVE  RetryInv'
<1>1. Inv' /\ WireType'
  BY InvStep DEF Inv, CallInv, EnvTypes
<1>2. CASE ConnectStep \/ CallStep
  <2>1. ClientSteps \/ CallSteps
    BY <1>2 DEF ConnectStep, CallStep, ClientSteps, CallSteps, SendingSteps, ReadingSteps, IteratingSteps,
                HandshakeSteps
  <2> QED  BY <1>1, <2>1, ClientRetry, CallRetry
<1>3. CASE UserStep
  <2>1. CallSteps
    BY <1>3 DEF UserStep, CallSteps
  <2> QED  BY <1>1, <2>1, CallRetry
<1>4. CASE WatcherStep
  BY <1>1, <1>4, WatcherRetry
<1>5. CASE ServerStep
  BY <1>5, ServerRetry
<1>6. CASE Surroundings
  BY <1>1, <1>6, SurroundingsRetry
<1>7. CASE UNCHANGED vars
  <2>1. UNCHANGED <<pc, call, res, rows, session, conn, wire, history>>
    BY <1>7 DEF vars, clientVars
  <2>2. UNCHANGED <<Excused, Stream>>
    BY <2>1 DEF Excused, Stream
  <2> QED  BY <2>1, <2>2 DEF RetryInv, OneByOne, OtherOK, Once, Unsent, LastingOK, OnRowsOK, NoEmpty, OwnLoud,
                             Passing, AllSilent
<1> QED  BY <1>2, <1>3, <1>4, <1>5, <1>6, <1>7 DEF Next, ClientStep

-----------------------------------------------------------------------------
(* What it says of a call that is repeated *)

\* A call that returned ErrBadConn, which cpool repeats on another connection, was not
\* carried out, and no command of it is on the way: markBadConn (mysql/connection.go) and
\* handleErrorPacket (mysql/packets.go) say so only of calls that had no effect.
THEOREM RetriesAreSafe ==
    ASSUME "multiInfile" \notin Features
    PROVE  Spec => []RetrySafe
<1>1. Inv /\ RetryInv => RetrySafe
  <2> SUFFICES ASSUME Inv, RetryInv, pc = "idle", res = "badConn"
               PROVE  /\ call.id \notin history.done
                      /\ call.kind \in Lasting =>
                           \A i \in DOMAIN wire.out : wire.out[i].cmd = call.id
                                                      => wire.out[i].kind \in Silent \cup {"quit"}
    BY DEF RetrySafe
  <2>1. call.kind # "connect"
    BY DEF Inv, CallInv, ConnectOK
  <2>2. CASE call.kind \notin Fetching
    BY <2>1, <2>2, OtherKinds DEF RetryInv, OtherOK
  <2>3. CASE call.kind \in Fetching
    <3>1. Unsent
      BY <2>3 DEF RetryInv
    <3>2. DOMAIN wire.out = 1 .. Len(wire.out)
      BY LenProperties DEF Inv, CallInv, EnvTypes, WireType
    <3> QED  BY <3>1, <3>2 DEF Unsent, OwnLoud, Loud
  <2> QED  BY <2>2, <2>3
<1>2. Inv /\ RetryInv /\ [Next]_vars => RetryInv'
  BY RetryStep
<1>3. Inv /\ [Next]_vars => Inv'
  BY InvStep
<1> QED  BY <1>1, <1>2, <1>3, InvInit, RetryInit, PTL DEF Spec
=============================================================================

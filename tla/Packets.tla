------------------------------- MODULE Packets -------------------------------
(***************************************************************************)
(* Packets of a connection and the buffer they are read into.              *)
(*                                                                         *)
(* A payload of maxPacketSize or more is split into several packets, the   *)
(* last one shorter than maxPacketSize, and each packet carries a sequence *)
(* number of eight bits.  The buffer reads as much as has arrived; what it *)
(* hands out are slices of its memory, so it keeps two arrays and changes  *)
(* to the other one when Rows are closed early, while a row is in use.     *)
(*                                                                         *)
(* Bytes are cells: a header is one cell instead of four, and a cell of a  *)
(* payload says which payload it is of and where it belongs.  The client   *)
(* sends a command, reads rows, and reads or drains them to the end.       *)
(***************************************************************************)
EXTENDS Naturals, Sequences, SequencesExt

CONSTANTS
    maxPacketSize, \* 2^24 - 1 in the code
    SeqNumbers,    \* number of sequence numbers, 256 in the code
    BufSize,      \* defaultBufSize
    MaxCached,    \* maxCachedBufSize
    MaxAllowed,   \* maxAllowedPacket of the connection
    CommandSizes, \* payloads the client writes
    RowSizes,     \* payloads the server writes
    MaxRows,      \* bound: rows of an answer
    MaxCommands   \* bound: commands

ASSUME SizesAssumption ==
    /\ {maxPacketSize, SeqNumbers, BufSize, MaxCached, MaxAllowed, MaxCommands} \subseteq Nat \ {0}
    /\ CommandSizes \subseteq Nat /\ RowSizes \subseteq Nat \ {0}
    /\ MaxRows \in Nat

VARIABLES
    pc,      \* where the client is
    cmd,     \* number and size of the command
    data,    \* writePacket's data: a place for the header and what is left
    seq,     \* mysqlConn.sequence
    out,     \* cells written to the network
    in,      \* cells that have arrived, or will
    answer,  \* sizes of the payloads the server sent
    buf,     \* buffer: array in use, idx, length, the two arrays, which is active
    mem,     \* the arrays
    need,    \* length of the packet to be read
    prev,    \* prevData: packets of the payload read so far
    row,     \* the row handed out: where it is, and what it was
    count    \* payloads of the answer that have been read

writing == <<cmd, data, out>>
reading == <<buf, mem, need, prev, row, count>>
vars == <<pc, seq, in, answer, writing, reading>>

Arrays == 1 .. 5
Junk == [of |-> 0, at |-> 0]
Header(len, s) == [len |-> len, seq |-> s]
NoRow == [array |-> 0, from |-> 0, cells |-> <<>>]

\* Payload number j of the current command, j = 0 being the command itself.
Payload(j, size) == [i \in 1 .. size |-> [of |-> j, at |-> i]]

-----------------------------------------------------------------------------
(* The protocol: the packets of payload p when the first has the number s. *)

Packet(p, i, s) ==
    LET body == SubSeq(p, i * maxPacketSize + 1, IF (i + 1) * maxPacketSize < Len(p) THEN (i + 1) * maxPacketSize ELSE Len(p))
    IN <<Header(Len(body), (s + i) % SeqNumbers)>> \o body
Split(p, s) == FlattenSeq([i \in 1 .. Len(p) \div maxPacketSize + 1 |-> Packet(p, i - 1, s)])
PacketsOf(size) == size \div maxPacketSize + 1

-----------------------------------------------------------------------------
(* writePacket *)

Unused == CHOOSE a \in Arrays : a \notin {buf.array, buf.pair[0], buf.pair[1], row.array}

\* A buffer of the length, which fill does not use unless it is one of the pair.
TakeBuffer(length) ==
    IF length <= Len(mem[buf.array]) \/ length >= maxPacketSize THEN UNCHANGED <<buf, mem>>
    ELSE /\ buf' = [buf EXCEPT !.array = Unused]
         /\ mem' = [mem EXCEPT ![Unused] = [i \in 1 .. length |-> Junk]]

\* writeCommandPacketStr and writePacket, up to its loop.
StartCommand(size) ==
    /\ pc = "idle"
    /\ cmd.number < MaxCommands
    /\ cmd' = [number |-> cmd.number + 1, size |-> size]
    /\ seq' = 0
    /\ row' = NoRow
    /\ IF buf.length > 0 THEN pc' = "busy" /\ UNCHANGED <<data, out, buf, mem>>
       ELSE /\ TakeBuffer(1 + size)
            /\ IF size > MaxAllowed THEN pc' = "idle" /\ UNCHANGED <<data, out>>
               ELSE /\ data' = <<Junk>> \o Payload(0, size)
                    /\ out' = <<>>
                    /\ pc' = "write"
    /\ UNCHANGED <<in, answer, need, prev, count>>

\* Mutant: a payload of exactly maxPacketSize needs no second packet.
LastPacketFull(size) == Len(data) - 1 = size
LastPacket(size) == size # maxPacketSize

\* One pass of the loop; the header takes the place before the rest of the data.
Chunk == LET size == IF Len(data) - 1 >= maxPacketSize THEN maxPacketSize ELSE Len(data) - 1
         IN <<Header(size, seq)>> \o SubSeq(data, 2, 1 + size)

WriteChunk ==
    /\ pc = "write"
    /\ out' = out \o Chunk
    /\ seq' = (seq + 1) % SeqNumbers
    /\ LET size == Len(Chunk) - 1 IN
       IF LastPacket(size) THEN pc' = "sent" /\ data' = <<>>
       ELSE pc' = "write" /\ data' = SubSeq(data, 1 + size, Len(data))
    /\ UNCHANGED <<cmd, in, answer, reading>>

\* The network fails after some cells.  "Nothing written" is reported when this
\* packet has not begun, be it the first or not.
WriteFails ==
    /\ pc = "write"
    /\ \E k \in 0 .. Len(Chunk) - 1 :
          /\ out' = out \o SubSeq(Chunk, 1, k)
          /\ pc' = IF k = 0 THEN "noWrite" ELSE "invalid"
    /\ UNCHANGED <<cmd, data, seq, in, answer, reading>>

-----------------------------------------------------------------------------
(* The server: rows and a last packet, numbered from the command on. *)

Answer ==
    /\ pc = "sent"
    /\ \E rows \in UNION {[1 .. n -> RowSizes] : n \in 0 .. MaxRows} :
          LET sizes == rows \o <<1>>
              first(j) == PacketsOf(cmd.size)
                          + FoldSeq(LAMBDA size, sum : PacketsOf(size) + sum, 0, SubSeq(sizes, 1, j - 1))
          IN /\ answer' = sizes
             /\ in' = FlattenSeq([j \in DOMAIN sizes |-> Split(Payload(j, sizes[j]), first(j))])
    /\ pc' = "header"
    /\ count' = 0
    /\ UNCHANGED <<seq, writing, buf, mem, need, prev, row>>

-----------------------------------------------------------------------------
(* The buffer *)

\* Mutant: fill stays with the array in use.
FillsSame == buf.array
\* The array fill reads into.
Target == buf.pair[buf.flip]

\* fill: buf and mem when n cells are at the start of the target and at least
\* wanted cells are there.  A larger array is kept if it is not too large.
Fill(wanted) ==
    LET n == buf.length
        grow == wanted > Len(mem[Target])
        capacity == IF grow THEN (wanted \div BufSize + 1) * BufSize ELSE Len(mem[Target])
        dest == IF grow THEN Unused ELSE Target
        old == IF grow THEN [i \in 1 .. capacity |-> Junk] ELSE mem[Target]
        kept == SubSeq(mem[buf.array], buf.idx + 1, buf.idx + n)
        most == IF capacity - n < Len(in) THEN capacity - n ELSE Len(in)
    IN {[buf |-> [buf EXCEPT !.array = dest, !.idx = 0, !.length = n + k,
                             !.pair = IF grow /\ capacity <= MaxCached
                                      THEN [@ EXCEPT ![buf.flip] = dest] ELSE @],
         mem |-> [mem EXCEPT ![dest] = [i \in 1 .. capacity |->
                      IF i <= n THEN kept[i] ELSE IF i <= n + k THEN in[i - n] ELSE old[i]]],
         in |-> SubSeq(in, k + 1, Len(in))] : k \in wanted - n .. most}

\* readNext: the slice, and the buffer after it.
ReadNext(wanted) ==
    {[cells |-> SubSeq(s.mem[s.buf.array], s.buf.idx + 1, s.buf.idx + wanted),
      array |-> s.buf.array, from |-> s.buf.idx,
      buf |-> [s.buf EXCEPT !.idx = @ + wanted, !.length = @ - wanted],
      mem |-> s.mem, in |-> s.in] :
     s \in IF buf.length >= wanted THEN {[buf |-> buf, mem |-> mem, in |-> in]} ELSE Fill(wanted)}

\* readPacket returns: a row is handed out, unless the Rows are being closed.
Deliver(payload, array, from) ==
    /\ count' = count + 1
    /\ prev' = <<>>
    /\ IF count + 1 = Len(answer) THEN pc' = "idle" /\ UNCHANGED row
       ELSE IF row # NoRow THEN pc' = "header" /\ UNCHANGED row
       ELSE /\ pc' = "row"
            /\ row' = [array |-> array, from |-> from, cells |-> payload]

\* Mutant: the sequence number is not one of eight bits.
NextSeqUnbounded == seq + 1
NextSeq == (seq + 1) % SeqNumbers

\* The header; a packet of length zero ends a payload.
ReadHeader ==
    /\ pc = "header"
    /\ \E s \in ReadNext(1) :
          /\ buf' = s.buf /\ mem' = s.mem /\ in' = s.in
          /\ IF s.cells[1].seq # seq THEN pc' = "sync" /\ UNCHANGED <<seq, need, prev, row, count>>
             ELSE /\ seq' = NextSeq
                  /\ need' = s.cells[1].len
                  /\ IF s.cells[1].len > 0 THEN pc' = "body" /\ UNCHANGED <<prev, row, count>>
                     ELSE IF prev = <<>> THEN pc' = "malformed" /\ UNCHANGED <<prev, row, count>>
                     ELSE Deliver(prev, 0, 0)
    /\ UNCHANGED <<writing, answer>>

\* The body; a payload of one packet is a slice of the buffer, others are copied.
ReadBody ==
    /\ pc = "body"
    /\ \E s \in ReadNext(need) :
          /\ buf' = s.buf /\ mem' = s.mem /\ in' = s.in
          /\ IF need = maxPacketSize THEN prev' = prev \o s.cells /\ pc' = "header" /\ UNCHANGED <<row, count>>
             ELSE IF prev = <<>> THEN Deliver(s.cells, s.array, s.from)
             ELSE Deliver(prev \o s.cells, 0, 0)
    /\ UNCHANGED <<writing, answer, seq, need>>

\* Rows.Next: the row of the call before is given up.
NextRow ==
    /\ pc = "row"
    /\ pc' = "header"
    /\ row' = NoRow
    /\ UNCHANGED <<seq, in, answer, writing, buf, mem, need, prev, count>>

\* Rows.Close, perhaps by another goroutine than the one that uses the row: flip,
\* and read until the end.
CloseRows ==
    /\ pc = "row"
    /\ pc' = "header"
    /\ buf' = [buf EXCEPT !.flip = 1 - @]
    /\ UNCHANGED <<seq, in, answer, writing, mem, need, prev, row, count>>

-----------------------------------------------------------------------------
Init ==
    /\ pc = "idle"
    /\ cmd = [number |-> 0, size |-> 0]
    /\ data = <<>> /\ out = <<>> /\ in = <<>> /\ answer = <<>> /\ prev = <<>>
    /\ seq = 0 /\ need = 0 /\ count = 0
    /\ row = NoRow
    /\ buf = [array |-> 1, idx |-> 0, length |-> 0, pair |-> [i \in {0, 1} |-> i + 1], flip |-> 0]
    /\ mem = [a \in Arrays |-> IF a = 1 THEN [i \in 1 .. BufSize |-> Junk] ELSE <<>>]

Next ==
    \/ \E size \in CommandSizes : StartCommand(size)
    \/ WriteChunk \/ WriteFails \/ Answer \/ ReadHeader \/ ReadBody \/ NextRow \/ CloseRows

Spec == Init /\ [][Next]_vars

-----------------------------------------------------------------------------
\* What is written is the command, split as the protocol has it: all of it when
\* writePacket succeeds, never a whole command when it fails.
SentAsProtocol ==
    LET whole == Split(Payload(0, cmd.size), 0) IN
    /\ pc \in {"write", "noWrite", "invalid"} => IsStrictPrefix(out, whole)
    /\ pc \in {"sent", "header", "body", "row"} => out = whole

\* What is handed out is what the server sent, in its order, and nothing that
\* was sent is refused.
ReceivedIntact ==
    /\ pc \notin {"sync", "malformed", "busy"}
    /\ pc = "row" => row.cells = Payload(count, answer[count])

\* A row that was handed out is not overwritten, even while its Rows are closed
\* and the rest of them is read.
RowIntact ==
    row.array # 0 /\ pc # "idle" =>
        SubSeq(mem[row.array], row.from + 1, row.from + Len(row.cells)) = row.cells
=============================================================================

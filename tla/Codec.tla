-------------------------------- MODULE Codec --------------------------------
(***************************************************************************)
(* Arguments on their way to the server, in the packet that executes a     *)
(* prepared statement or within the text of a query, and rows on their way *)
(* back, in the binary and in the text protocol.  What the server writes   *)
(* and how it reads is external: it is the protocol's definition.          *)
(*                                                                         *)
(* An argument is [type, v], v a sequence: the bytes of a string, or the   *)
(* number, or the seven numbers of a time.  A value of a row likewise is a *)
(* sequence; a column has a type, a flag for unsigned numbers and decimals.*)
(***************************************************************************)
EXTENDS Values, FiniteSetsExt

CONSTANTS
    MaxPacket,     \* maxAllowedPacket
    MinLongData,   \* 64 in the code
    Lengths,       \* lengths
    ArgumentLists, \* arguments of an execution
    Texts,         \* texts of literals
    RowsToRead     \* rows: [columns, values]

VARIABLE value \* what is written and read

NULL == <<78, 85, 76, 76>>
Binary == <<95, 98, 105, 110, 97, 114, 121>> \* _binary
Null == [type |-> "NULL", v |-> <<>>]
Text(v) == [type |-> "string", v |-> v]

-----------------------------------------------------------------------------
(* writeExecutePacket *)

\* Mutant: bits and bytes of the mask as in a row.
NullMaskOfRow(n, nulls) ==
    [b \in 1 .. (n + 9) \div 8 |-> SumSet({2^((i + 2) % 8) : i \in {j \in nulls : (j + 2) \div 8 = b - 1}})]
NullMask(n, nulls) ==
    [b \in 1 .. (n + 7) \div 8 |-> SumSet({2^(i % 8) : i \in {j \in nulls : j \div 8 = b - 1}})]

ParamType(arg) ==
    CASE arg.type \in {"NULL", "nilBytes"} -> <<6, 0>>
      [] arg.type = "int64" -> <<8, 0>>
      [] arg.type = "uint64" -> <<8, 128>>
      [] arg.type = "bool" -> <<1, 0>>
      [] OTHER -> <<254, 0>>

\* What a string, bytes, json or a time is sent as.
TextOf(arg) ==
    IF arg.type # "time" THEN arg.v
    ELSE IF arg.v = ZeroTime THEN SubSeq(zeroDateTime, 1, 10)
    ELSE appendDateTime(arg.v)

LongDataSize(n) == LET size == MaxPacket \div (n + 1) IN IF size < MinLongData THEN MinLongData ELSE size
IsLong(arg, n) == arg.type \in {"string", "bytes", "json"} /\ Len(arg.v) >= LongDataSize(n)

ParamValue(arg, n) ==
    CASE arg.type \in {"NULL", "nilBytes"} \/ IsLong(arg, n) -> <<>>
      [] arg.type \in {"int64", "uint64"} -> Bytes(arg.v[1], 8)
      [] arg.type = "bool" -> arg.v
      [] OTHER -> AppendString(<<>>, TextOf(arg))

\* writeCommandLongData: what is left is sent in packets of at most maxAllowedPacket - 1.
LongData(v) ==
    LET dataOffset == 7
        maxLen == MaxPacket - 1
        carried(left) == IF dataOffset + left < maxLen THEN left ELSE maxLen - dataOffset
        chunks[left \in 0 .. Len(v)] ==
            IF left = 0 THEN <<>>
            ELSE <<Slice(v, Len(v) - left, carried(left))>> \o chunks[left - carried(left)]
    IN chunks[Len(v)]

\* A time without a text is an error, and no packet is sent.
Sendable(args) == \A i \in DOMAIN args : args[i].type = "time" => TextOf(args[i]) # <<>>

\* The packet after the fixed fields, and the long data sent before it.
ExecutePacket(args) ==
    LET n == Len(args)
        nulls == {i \in 0 .. n - 1 : args[i+1].type \in {"NULL", "nilBytes"}}
    IN [long |-> [i \in 1 .. n |-> IF IsLong(args[i], n) THEN LongData(args[i].v) ELSE <<>>],
        data |-> NullMask(n, nulls) \o <<1>> \o FlattenSeq([i \in 1 .. n |-> ParamType(args[i])])
                 \o FlattenSeq([i \in 1 .. n |-> ParamValue(args[i], n)])]

\* External, the server: a parameter is NULL by its bit, or what was sent as long
\* data, or the next value by its type.
Received(n, long, data) ==
    LET mask == (n + 7) \div 8
        isNull(i) == (data[i \div 8 + 1] \div 2^(i % 8)) % 2 = 1
        type(i) == Slice(data, mask + 1 + 2 * i, 2)
        next(i, b) ==
            CASE isNull(i) -> Reading(Null, TRUE, 0)
              [] ~isNull(i) /\ long[i+1] # <<>> -> Reading(Text(FlattenSeq(long[i+1])), FALSE, 0)
              [] ~isNull(i) /\ type(i) = <<8, 0>> ->
                    Reading([type |-> "int64", v |-> <<Signed(Slice(b, 0, 8))>>], FALSE, 8)
              [] ~isNull(i) /\ type(i) = <<8, 128>> ->
                    Reading([type |-> "uint64", v |-> <<Unsigned(Slice(b, 0, 8))>>], FALSE, 8)
              [] ~isNull(i) /\ type(i) = <<1, 0>> -> Reading([type |-> "bool", v |-> Slice(b, 0, 1)], FALSE, 1)
              [] OTHER -> LET s == ReadString(b) IN Reading(Text(s.value), FALSE, s.n)
        step(s, i) == LET r == next(i - 1, s.rest)
                      IN [args |-> Append(s.args, r.value), rest |-> From(s.rest, r.n)]
    IN FoldLeftDomain(step, [args |-> <<>>, rest |-> From(data, mask + 1 + 2 * n)], [i \in 1 .. n |-> i])

-----------------------------------------------------------------------------
(* interpolateParams *)

Placeholder == 63

Literal(arg, noBackslashEscapes) ==
    LET escaped == CASE arg.type = "time" -> TextOf(arg)
                     [] arg.type # "time" /\ noBackslashEscapes -> escapeQuotes(arg.v)
                     [] OTHER -> escapeBackslash(arg.v)
        introducer == IF arg.type = "bytes" THEN Binary ELSE <<>>
    IN CASE arg.type \in {"NULL", "nilBytes"} -> NULL
         [] arg.type \in {"int64", "uint64"} -> Decimal(arg.v[1])
         [] arg.type = "bool" -> Digits(arg.v[1], 1)
         [] OTHER -> introducer \o <<Quote>> \o escaped \o <<Quote>>

\* Every ? is replaced, wherever it stands.  When it is skipped, the statement is
\* prepared instead.
interpolateParams(query, args, noBackslashEscapes) ==
    LET step(s, c) ==
            IF c # Placeholder THEN [s EXCEPT !.buf = Append(@, c)]
            ELSE LET buf == s.buf \o Literal(args[s.argPos + 1], noBackslashEscapes)
                 IN [buf |-> buf, argPos |-> s.argPos + 1, skip |-> s.skip \/ Len(buf) + 4 > MaxPacket]
    IN IF Cardinality({i \in DOMAIN query : query[i] = Placeholder}) # Len(args)
       THEN [buf |-> <<>>, argPos |-> 0, skip |-> TRUE]
       ELSE FoldLeft(step, [buf |-> <<>>, argPos |-> 0, skip |-> FALSE], query)

\* External, the server: characters and, between quotes, strings.  In a string a
\* quote is doubled, or escaped by a backslash if the server knows them.
Scanned(text, noBackslashEscapes) ==
    LET char(c) == [string |-> FALSE, v |-> <<c>>]
        string(v) == [string |-> TRUE, v |-> v]
        meant(c) == CASE c = 48 -> 0 [] c = 110 -> 10 [] c = 114 -> 13 [] c = 90 -> 26 [] OTHER -> c
        outside(s, c) == IF c = Quote THEN [s EXCEPT !.mode = "in", !.v = <<>>]
                         ELSE [s EXCEPT !.out = Append(@, char(c))]
        step(s, c) ==
            CASE s.mode = "out" -> outside(s, c)
              [] s.mode = "in" /\ c = Quote -> [s EXCEPT !.mode = "quote"]
              [] s.mode = "in" /\ c = Backslash /\ ~noBackslashEscapes -> [s EXCEPT !.mode = "escape"]
              [] s.mode = "in" /\ c # Quote /\ (c # Backslash \/ noBackslashEscapes) ->
                    [s EXCEPT !.v = Append(@, c)]
              [] s.mode = "escape" -> [s EXCEPT !.mode = "in", !.v = Append(@, meant(c))]
              [] s.mode = "quote" /\ c = Quote -> [s EXCEPT !.mode = "in", !.v = Append(@, c)]
              [] OTHER -> outside([s EXCEPT !.mode = "out", !.out = Append(@, string(s.v))], c)
        end == FoldLeft(step, [mode |-> "out", v |-> <<>>, out |-> <<>>], text)
    IN CASE end.mode = "out" -> end.out
         [] end.mode = "quote" -> Append(end.out, string(end.v))
         [] OTHER -> <<>>

-----------------------------------------------------------------------------
(* Rows *)

Temporal == {"date", "datetime"}
Size(type) == CASE type = "tiny" -> 1 [] type = "short" -> 2 [] type = "long" -> 4 [] OTHER -> 8
Integer(column) == column.type \in {"tiny", "short", "long", "longlong"}

\* binaryRows.readRow: the length of a temporal column's text.
TextLength(column) ==
    LET clock == IF column.type = "time" THEN 8 ELSE 19
    IN CASE column.type = "date" -> 10
         [] column.type # "date" /\ column.decimals \in {0, 31} -> clock
         [] OTHER -> clock + 1 + column.decimals

\* The value of a column that is not NULL, and how many bytes it takes.
BinaryValue(column, b, parseTime) ==
    LET num == ReadInteger(b)
        src == Slice(b, num.n, num.value)
        n == num.n + num.value
    IN CASE Integer(column) ->
              LET bytes == Slice(b, 0, Size(column.type)) IN
              Reading(<<IF column.unsigned THEN Unsigned(bytes) ELSE Signed(bytes)>>, FALSE, Len(bytes))
         [] column.type = "string" -> ReadString(b)
         [] column.type = "time" -> Reading(formatBinaryTime(src, TextLength(column)), num.isNull, n)
         [] column.type \in Temporal /\ parseTime ->
              Reading(parseBinaryDateTime(num.value, From(b, num.n)), num.isNull, n)
         [] OTHER -> Reading(formatBinaryDateTime(src, TextLength(column)), num.isNull, n)

Contents(readings) == [i \in DOMAIN readings |-> [isNull |-> readings[i].isNull, value |-> readings[i].value]]
NullValue == Reading(<<>>, TRUE, 0)

readBinaryRow(columns, data, parseTime) ==
    LET n == Len(columns)
        isNull(i) == (data[(i + 2) \div 8 + 2] \div 2^((i + 2) % 8)) % 2 = 1
        step(s, i) ==
            LET r == IF isNull(i - 1) THEN NullValue ELSE BinaryValue(columns[i], From(data, s.pos), parseTime)
            IN [row |-> Append(s.row, r), pos |-> s.pos + r.n]
    IN Contents(FoldLeftDomain(step, [row |-> <<>>, pos |-> 1 + (n + 9) \div 8], columns).row)

\* textRows.readRow
readTextRow(columns, data, parseTime) ==
    LET step(s, i) ==
            LET r == ReadString(From(data, s.pos))
                time == parseTime /\ columns[i].type \in Temporal /\ ~r.isNull
            IN [row |-> Append(s.row, IF time THEN [r EXCEPT !.value = parseDateTime(@)] ELSE r),
                pos |-> s.pos + r.n]
    IN Contents(FoldLeftDomain(step, [row |-> <<>>, pos |-> 0], columns).row)

\* External, the server: the same row in both protocols.  A time is <<negative,
\* days, hours, minutes, seconds, microseconds>>, a date ends with microseconds.
BinaryField(column, v) ==
    LET parts == IF column.type = "time" THEN <<v[1]>> \o Bytes(v[2], 4) \o SubSeq(v, 3, 5)
                 ELSE Bytes(v[1], 2) \o SubSeq(v, 2, 6)
        micro == v[Len(v)]
        zero == \A i \in DOMAIN v : v[i] = 0
    IN CASE Integer(column) -> Bytes(v[1], Size(column.type))
         [] column.type = "string" -> AppendString(<<>>, v)
         [] ~Integer(column) /\ column.type # "string" /\ zero -> <<0>>
         [] column.type = "date" /\ ~zero -> AppendString(<<>>, SubSeq(parts, 1, 4))
         [] column.type = "datetime" /\ SubSeq(v, 4, 7) = <<0, 0, 0, 0>> /\ ~zero ->
              AppendString(<<>>, SubSeq(parts, 1, 4))
         [] OTHER -> AppendString(<<>>, IF micro = 0 THEN parts ELSE parts \o Bytes(micro, 4))

TextField(column, v) ==
    LET fraction(micro) ==
            IF column.decimals \in {0, 31} THEN <<>> ELSE Dot \o SubSeq(Digits(micro, 6), 1, column.decimals)
        hours == v[2] * 24 + v[3]
    IN CASE Integer(column) -> Decimal(v[1])
         [] column.type = "string" -> v
         [] column.type = "date" -> DateText(v)
         [] column.type = "datetime" ->
              DateText(v) \o Blank \o ClockText(Digits(v[4], 2), v[5], v[6]) \o fraction(v[7])
         [] OTHER -> (IF v[1] = 1 THEN Dash ELSE <<>>)
                     \o ClockText(IF hours < 100 THEN Digits(hours, 2) ELSE Decimal(hours), v[4], v[5])
                     \o fraction(v[6])

\* An empty sequence of values stands for NULL; a string is a sequence of one.
BinaryRow(columns, values) ==
    LET n == Len(columns)
        nulls == {i \in 0 .. n - 1 : values[i+1] = <<>>}
    IN <<0>> \o [b \in 1 .. (n + 9) \div 8 |->
                    SumSet({2^((i + 2) % 8) : i \in {j \in nulls : (j + 2) \div 8 = b - 1}})]
       \o FlattenSeq([i \in 1 .. n |-> IF values[i] = <<>> THEN <<>> ELSE BinaryField(columns[i], values[i][1])])
TextRow(columns, values) ==
    FlattenSeq([i \in DOMAIN columns |->
        IF values[i] = <<>> THEN <<251>> ELSE AppendString(<<>>, TextField(columns[i], values[i][1]))])

-----------------------------------------------------------------------------
CodecInit ==
    \/ \E args \in ArgumentLists : value = [kind |-> "arguments", args |-> args]
    \/ \E n \in Lengths : value = [kind |-> "length", n |-> n]
    \/ \E v \in Texts, type \in {"string", "bytes", "json"}, noBackslashEscapes \in BOOLEAN :
          value = [kind |-> "literal", arg |-> [type |-> type, v |-> v], noBackslashEscapes |-> noBackslashEscapes]
    \/ \E row \in RowsToRead, parseTime \in BOOLEAN : value = [kind |-> "row", row |-> row, parseTime |-> parseTime]

\* Every argument of an execution arrives as it was given, in the packet or before
\* it: whichever of them are NULL, however long a string is, and a time rounded to
\* a microsecond.  Every packet of long data fits in maxAllowedPacket, and every
\* length is read as it was written, whatever follows.
ArgumentsArrive ==
    /\ value.kind = "length" =>
          LET b == AppendInteger(<<>>, value.n) IN ReadInteger(b \o <<251>>) = Reading(value.n, FALSE, Len(b))
    /\ value.kind = "arguments" /\ Sendable(value.args) =>
          LET args == value.args
              packet == ExecutePacket(args)
              received == Received(Len(args), packet.long, packet.data)
              arrived(sent, got) ==
                  CASE sent.type = "time" ->
                          parseDateTime(got.v) = [Add(sent.v, 500) EXCEPT ![7] = @ - (@ % 1000)]
                    [] sent.type = "nilBytes" -> got = Null
                    [] sent.type \in {"bytes", "json"} -> got = Text(sent.v)
                    [] OTHER -> got = sent
          IN /\ received.rest = <<>>
             /\ \A i \in DOMAIN args : arrived(args[i], received.args[i])
             /\ \A i \in DOMAIN args : \A chunk \in ToSet(packet.long[i]) :
                    chunk # <<>> /\ 7 + Len(chunk) < MaxPacket

\* A text put into a query is one string for the server, with the bytes it has, and
\* what follows it in the query follows it for the server too.
LiteralsIntact ==
    value.kind = "literal" =>
        LET args == <<value.arg, Null, Text(<<Quote>>)>>
            query == <<Placeholder, 44, Placeholder, 44, Placeholder>>
            text == interpolateParams(query, args, value.noBackslashEscapes)
            string(s) == <<[string |-> TRUE, v |-> s]>>
            chars(s) == [i \in DOMAIN s |-> [string |-> FALSE, v |-> <<s[i]>>]]
        IN text.skip \/ Scanned(text.buf, value.noBackslashEscapes) =
                            chars(IF value.arg.type = "bytes" THEN Binary ELSE <<>>) \o string(value.arg.v)
                            \o chars(<<44>> \o NULL \o <<44>>) \o string(<<Quote>>)

=============================================================================

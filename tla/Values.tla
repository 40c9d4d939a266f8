-------------------------------- MODULE Values --------------------------------
(***************************************************************************)
(* Values as bytes: integers, strings with a length, dates and times in    *)
(* binary and as text, literals of a query.                                *)
(*                                                                         *)
(* Bytes are numbers below 256, text is a sequence of ASCII codes.  A date *)
(* is <<year, month, day, hour, minute, second, nanosecond>>.  Numbers     *)
(* stay below 2^31, so bytes five to eight of an integer are its sign.     *)
(***************************************************************************)
EXTENDS Integers, Sequences, SequencesExt

Reading(value, isNull, n) == [value |-> value, isNull |-> isNull, n |-> n]

\* The bytes from the one with offset pos on, and n of them.
From(b, pos) == SubSeq(b, pos + 1, Len(b))
Slice(b, pos, n) == SubSeq(b, pos + 1, pos + n)

-----------------------------------------------------------------------------
(* Integers *)

\* uint64ToBytes and the little-endian writes: k bytes of n, complemented below zero.
Bytes(n, k) ==
    LET byte(m, i) == IF i > 4 THEN 0 ELSE (m \div 256^(i-1)) % 256
    IN [i \in 1 .. k |-> IF n < 0 THEN 255 - byte(-n - 1, i) ELSE byte(n, i)]

Unsigned(b) == FoldRight(LAMBDA byte, n : 256 * n + byte, b, 0)
Signed(b) == IF b[Len(b)] < 128 THEN Unsigned(b)
             ELSE -Unsigned([i \in DOMAIN b |-> 255 - b[i]]) - 1

AppendInteger(b, n) ==
    CASE n <= 250 -> b \o <<n>>
      [] n \in 251 .. 65535 -> b \o <<252>> \o Bytes(n, 2)
      [] n \in 65536 .. 16777215 -> b \o <<253>> \o Bytes(n, 3)
      [] OTHER -> b \o <<254>> \o Bytes(n, 8)

ReadInteger(b) ==
    CASE b = <<>> \/ b[1] = 251 -> Reading(0, TRUE, 1)
      [] b # <<>> /\ b[1] = 252 -> Reading(Unsigned(Slice(b, 1, 2)), FALSE, 3)
      [] b # <<>> /\ b[1] = 253 -> Reading(Unsigned(Slice(b, 1, 3)), FALSE, 4)
      [] b # <<>> /\ b[1] = 254 -> Reading(Unsigned(Slice(b, 1, 8)), FALSE, 9)
      [] OTHER -> Reading(b[1], FALSE, 1)

AppendString(b, v) == AppendInteger(b, Len(v)) \o v

\* A string of no bytes is not NULL; one that goes on after b is an error (n = -1).
ReadString(b) ==
    LET num == ReadInteger(b) IN
    IF num.value < 1 THEN Reading(<<>>, num.isNull, num.n)
    ELSE IF Len(b) >= num.n + num.value
    THEN Reading(Slice(b, num.n, num.value), FALSE, num.n + num.value)
    ELSE Reading(<<>>, FALSE, -1)

-----------------------------------------------------------------------------
(* Text *)

\* k digits of n, as digits10 and digits01 give them in pairs.
Digits(n, k) == [i \in 1 .. k |-> 48 + ((n \div 10^(k - i)) % 10)]
\* uint64ToString: as many digits as it takes, and a sign.
Decimal(n) ==
    LET size(m) == CHOOSE k \in 1 .. 10 : (k = 10 \/ m < 10^k) /\ (k > 1 => m >= 10^(k-1))
    IN IF n < 0 THEN <<45>> \o Digits(-n, size(-n)) ELSE Digits(n, size(n))
Number(digits) == FoldLeft(LAMBDA n, d : 10 * n + (d - 48), 0, digits)

Dash == <<45>>
Blank == <<32>>
Colon == <<58>>
Dot == <<46>>
DateText(t) == Digits(t[1], 4) \o Dash \o Digits(t[2], 2) \o Dash \o Digits(t[3], 2)
ClockText(hours, min, sec) == hours \o Colon \o Digits(min, 2) \o Colon \o Digits(sec, 2)
zeroDateTime == DateText(<<0, 0, 0>>) \o Blank \o ClockText(Digits(0, 2), 0, 0) \o Dot \o Digits(0, 6)
ZeroTime == <<1, 1, 1, 0, 0, 0, 0>> \* time.Time{}

AtLeastOne(n) == IF n <= 0 THEN 1 ELSE n

\* The digits after the point weigh 100000 downwards, however many there are.
parseByteNanoSec(digits) ==
    LET weighed(n, i) == n + (digits[i] - 48) * (100000 \div 10^(i-1))
    IN FoldLeftDomain(weighed, 0, digits) * 1000

parseDateTime(b) ==
    IF b = SubSeq(zeroDateTime, 1, Len(b)) THEN ZeroTime
    ELSE LET two(i) == Number(Slice(b, i, 2))
         IN <<AtLeastOne(Number(Slice(b, 0, 4))), AtLeastOne(two(5)), AtLeastOne(two(8))>>
            \o (IF Len(b) = 10 THEN <<0, 0, 0>> ELSE <<two(11), two(14), two(17)>>)
            \o <<IF Len(b) <= 19 THEN 0 ELSE parseByteNanoSec(From(b, 20))>>

parseBinaryDateTime(num, data) ==
    IF num = 0 THEN ZeroTime
    ELSE <<Unsigned(Slice(data, 0, 2)), data[3], data[4]>>
         \o (IF num = 4 THEN <<0, 0, 0>> ELSE Slice(data, 4, 3))
         \o <<IF num = 11 THEN Unsigned(Slice(data, 7, 4)) * 1000 ELSE 0>>

appendMicrosecs(dst, src, decimals) ==
    IF decimals <= 0 THEN dst
    ELSE dst \o Dot \o (IF src = <<>> THEN Digits(0, decimals)
                        ELSE SubSeq(Digits(Unsigned(Slice(src, 0, 4)), 6), 1, decimals))

formatBinaryDateTime(src, length) ==
    IF src = <<>> THEN SubSeq(zeroDateTime, 1, length)
    ELSE LET date == DateText(<<Unsigned(Slice(src, 0, 2)), src[3], src[4]>>) IN
         IF length = 10 THEN date
         ELSE IF Len(src) = 4 THEN date \o SubSeq(zeroDateTime, 11, length)
         ELSE appendMicrosecs(date \o Blank \o ClockText(Digits(src[5], 2), src[6], src[7]),
                              From(src, 7), length - 20)

\* Times may be negative and have more than two digits of hours.
formatBinaryTime(src, length) ==
    IF src = <<>> THEN Slice(zeroDateTime, 11, length)
    ELSE LET hours == Unsigned(Slice(src, 1, 4)) * 24 + src[6]
             sign == IF src[1] = 1 THEN Dash ELSE <<>>
         IN appendMicrosecs(sign \o ClockText(IF hours >= 100 THEN Decimal(hours) ELSE Digits(hours, 2),
                                              src[7], src[8]),
                            From(src, 8), length - 9)

\* External, time.Time: the calendar, and Add of less than a second.
DaysIn(year, month) ==
    CASE month = 2 -> IF year % 4 = 0 /\ (year % 100 # 0 \/ year % 400 = 0) THEN 29 ELSE 28
      [] month \in {4, 6, 9, 11} -> 30
      [] OTHER -> 31
NextDay(y, m, d) ==
    IF d < DaysIn(y, m) THEN <<y, m, d + 1>> ELSE IF m < 12 THEN <<y, m + 1, 1>> ELSE <<y + 1, 1, 1>>
Add(t, nsec) ==
    LET total == t[7] + nsec
        s == (t[4] * 60 + t[5]) * 60 + t[6] + total \div 1000000000
        day == IF s < 86400 THEN <<t[1], t[2], t[3]>> ELSE NextDay(t[1], t[2], t[3])
    IN day \o <<(s % 86400) \div 3600, (s \div 60) % 60, s % 60, total % 1000000000>>

\* appendDateTime: rounded to a microsecond, and no longer than it has to be.  A
\* year that has no four digits is an error, which is no text here.
appendDateTime(t) ==
    LET r == IF t[7] % 1000 >= 500 THEN Add(t, 500) ELSE t
        micro == r[7] \div 1000
        clock == Blank \o ClockText(Digits(r[4], 2), r[5], r[6])
    IN CASE r[1] \notin 1 .. 9999 -> <<>>
         [] r[1] \in 1 .. 9999 /\ SubSeq(r, 4, 6) = <<0, 0, 0>> /\ micro = 0 -> DateText(r)
         [] r[1] \in 1 .. 9999 /\ SubSeq(r, 4, 6) # <<0, 0, 0>> /\ micro = 0 -> DateText(r) \o clock
         [] OTHER -> DateText(r) \o clock \o Dot \o Digits(micro, 6)

-----------------------------------------------------------------------------
(* Literals of a query *)

Quote == 39
Backslash == 92
Escaped(c) == CASE c = 0 -> 48 [] c = 10 -> 110 [] c = 13 -> 114 [] c = 26 -> 90 [] OTHER -> c
\* Mutant: a backslash is left as it is.
SpecialQuotes == {0, 10, 13, 26, 34, Quote}
Special == {0, 10, 13, 26, 34, Quote, Backslash}

\* escapeBytesBackslash and escapeStringBackslash; escapeBytesQuotes and escapeStringQuotes.
escapeBackslash(v) ==
    FlattenSeq([i \in DOMAIN v |-> IF v[i] \in Special THEN <<Backslash, Escaped(v[i])>> ELSE <<v[i]>>])
escapeQuotes(v) ==
    FlattenSeq([i \in DOMAIN v |-> IF v[i] = Quote THEN <<Quote, Quote>> ELSE <<v[i]>>])
=============================================================================

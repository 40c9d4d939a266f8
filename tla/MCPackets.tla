------------------------------ MODULE MCPackets ------------------------------
(* Packets for TLC, and what Codec writes into them. *)
EXTENDS Packets, Codec

\* One string of each length around the places where the length's encoding or the
\* way the string is sent changes; nine parameters take two bytes of the mask.
SomeText(n) == [i \in 1 .. n |-> 97 + (i % 3)]
SomeStrings == {Text(SomeText(n)) : n \in {0, 1, 199, 200, 250, 251, 299, 300, 592, 593, 1185}}
MCLengths == {0, 250, 251, 252, 255, 256, 65535, 65536, 16777215, 16777216, 2147483647}
SomeTimes == {
    ZeroTime,
    <<2021, 2, 28, 0, 0, 0, 0>>, <<2020, 2, 29, 23, 59, 59, 999999499>>, <<2020, 2, 28, 23, 59, 59, 999999500>>,
    <<1999, 12, 31, 23, 59, 59, 999999999>>, <<9999, 12, 31, 23, 59, 59, 999999500>>,
    <<2021, 10, 5, 7, 8, 9, 0>>, <<2021, 10, 5, 7, 8, 59, 1000>>, <<1, 1, 1, 0, 0, 0, 500>>}
SomeArguments ==
    SomeStrings \cup {Null} \cup {[type |-> "time", v |-> t] : t \in SomeTimes}
    \cup {[type |-> "nilBytes", v |-> <<>>], [type |-> "bytes", v |-> SomeText(30)],
          [type |-> "json", v |-> SomeText(2)], [type |-> "bool", v |-> <<1>>], [type |-> "bool", v |-> <<0>>]}
    \cup {[type |-> "int64", v |-> <<n>>] : n \in {0, 1, -1, -256, 65536, 2147483647}}
    \cup {[type |-> "uint64", v |-> <<n>>] : n \in {255, 2147483647}}
Few == {Null, Text(SomeText(2)), Text(SomeText(90)), [type |-> "int64", v |-> <<-2>>]}
MCArgumentLists ==
    {<<>>} \cup {<<a>> : a \in SomeArguments} \cup {<<a, b>> : a \in SomeArguments, b \in SomeArguments}
    \cup UNION {{[i \in 1 .. n |-> IF i = j THEN a ELSE b] : j \in 1 .. n, a \in Few, b \in Few} : n \in {7, 8, 9, 16, 17}}

Characters == {0, 10, 13, 26, 34, 39, 92, 110}
MCTexts == UNION {[1 .. n -> Characters] : n \in 0 .. 3}

Column(type, unsigned, decimals) == [type |-> type, unsigned |-> unsigned, decimals |-> decimals]
Whole(unsigned) ==
    {[columns |-> <<Column(type, unsigned, 0)>>, values |-> << << <<n>> >> >>] :
        type \in {"long", "longlong"}, n \in {0, 128, 65536} \cup (IF unsigned THEN {} ELSE {-1, -2147483647})}
Dates == {<<0, 0, 0, 0, 0, 0, 0>>, <<2021, 2, 3, 0, 0, 0, 0>>, <<99, 12, 31, 23, 9, 8, 0>>}
Fractions(d) == {n * 10^(6 - d) : n \in {1, 5, 10^d - 1}}
MCRows ==
    Whole(TRUE) \cup Whole(FALSE)
    \cup {[columns |-> <<Column(c[1], c[2], 0)>>, values |-> << << <<c[3]>> >> >>] :
            c \in {<<"tiny", FALSE, -128>>, <<"tiny", TRUE, 255>>, <<"short", FALSE, -32768>>,
                   <<"short", TRUE, 65535>>, <<"short", FALSE, 255>>}}
    \cup {[columns |-> <<Column("date", FALSE, 0)>>, values |-> << << [i \in 1 .. 7 |-> IF i > 3 THEN 0 ELSE d[i]] >> >>] : d \in Dates}
    \cup {[columns |-> <<Column("datetime", FALSE, decimals)>>, values |-> << <<d>> >>] : d \in Dates, decimals \in {0, 1, 6, 31}}
    \cup UNION {{[columns |-> <<Column("datetime", FALSE, decimals)>>, values |-> << << <<2021, 2, 3, h, 5, 6, f>> >> >>] :
                    h \in {0, 4}, f \in Fractions(decimals)} : decimals \in 1 .. 6}
    \cup UNION {{[columns |-> <<Column("time", FALSE, decimals)>>, values |-> << << <<1, days, 3, 4, 5, f>> >> >>] :
                    days \in {0, 4, 34}, f \in Fractions(decimals)} : decimals \in 1 .. 6}
    \cup {[columns |-> <<Column("time", FALSE, decimals)>>, values |-> << <<t>> >>] :
            decimals \in {0, 3}, t \in {<<0, 0, 0, 0, 0, 0>>, <<0, 0, 9, 59, 59, 0>>}}
    \cup UNION {{[columns |-> [i \in 1 .. n |-> IF i % 2 = 0 THEN Column("string", FALSE, 0) ELSE Column("long", TRUE, 0)],
                  values |-> [i \in 1 .. n |-> IF i \in {j, j + 1} THEN <<>> ELSE IF i % 2 = 0 THEN <<SomeText(i - 2)>> ELSE << <<i>> >>]] :
                    j \in 1 .. n} : n \in {1, 5, 6, 7, 13, 14, 15}}

\* A value that is written and read, or a conversation of packets.
MCInit == Init /\ (CodecInit \/ value = [kind |-> "none"])
MCNext == value.kind = "none" /\ Next /\ UNCHANGED value
MCSpec == MCInit /\ [][MCNext]_<<vars, value>>
=============================================================================

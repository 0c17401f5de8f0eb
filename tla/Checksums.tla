----------------------------- MODULE Checksums -----------------------------
(***************************************************************************)
(* The check codes of the redundancy layer: the table driven CRC of        *)
(* util/rastacrc.c with its options A to E.                                *)
(***************************************************************************)
EXTENDS Words

\* unsigned long
LongWidth == 64

reflect(crc_in, n) == {n - 1 - i : i \in crc_in \cap 0..(n - 1)}

OptionB == [width |-> 32, polynom |-> HexWord(<<14, 14, 5, 11, 4, 2, 15, 13>>), initial_optimized |-> {},
            refin |-> FALSE, refout |-> FALSE, final_xor |-> {}]
OptionC == [width |-> 32, polynom |-> HexWord(<<1, 14, 13, 12, 6, 15, 4, 1>>), initial_optimized |-> 0..31,
            refin |-> TRUE, refout |-> TRUE, final_xor |-> 0..31]
OptionD == [width |-> 16, polynom |-> HexWord(<<1, 0, 2, 1>>), initial_optimized |-> {},
            refin |-> TRUE, refout |-> TRUE, final_xor |-> {}]

OptionE == [width |-> 16, polynom |-> HexWord(<<8, 0, 0, 5>>), initial_optimized |-> {},
            refin |-> TRUE, refout |-> TRUE, final_xor |-> {}]

\* Option A has no check code: its masks and its width are 0.
Options == [A |-> [width |-> 0], B |-> OptionB, C |-> OptionC, D |-> OptionD, E |-> OptionE]

\* One of the eight shifts of crc_generate_table, on an unsigned long.
ShiftOut(crc, o) ==
    LET shifted == Shl(crc, 1, LongWidth)
    IN IF o.width - 1 \in crc THEN Xor(shifted, o.polynom) ELSE shifted

\* A mutant of crc_generate_table: the entries are not reflected back.
crc_generate_table_NotBack(o, i) ==
    LET first == Shl(IF o.refin THEN reflect(i, 8) ELSE i, o.width - 8, LongWidth)
        crc == FoldLeft(LAMBDA c, k : ShiftOut(c, o), first, [k \in 1..8 |-> k])
    IN crc \cap 0..(o.width - 1)

\* The entry i of the table.
crc_generate_table(o, i) ==
    LET first == Shl(IF o.refin THEN reflect(i, 8) ELSE i, o.width - 8, LongWidth)
        crc == FoldLeft(LAMBDA c, k : ShiftOut(c, o), first, [k \in 1..8 |-> k])
    IN (IF o.refin THEN reflect(crc, o.width) ELSE crc) \cap 0..(o.width - 1)

Table == [n \in {"B", "C", "D", "E"} |-> [i \in SUBSET (0..7) |-> crc_generate_table(Options[n], i)]]

\* The step for the byte b, as a function of crc.
CrcStep(n, b) ==
    LET o == Options[n]
        byte == 0..7
    IN [crc \in SUBSET (0..(LongWidth - 1)) |->
           IF o.refin THEN Xor(Shr(crc, 8), Table[n][Xor(crc \cap byte, b)])
           ELSE Xor(Shl(crc, 8, LongWidth), Table[n][Xor(Shr(crc, o.width - 8) \cap byte, b)])]

\* A mutant of crc_calculate: the loop leaves out the first byte.
crc_calculate_FromSecond(n, data) ==
    LET o == Options[n]
        first == IF o.refin THEN reflect(o.initial_optimized, o.width) ELSE o.initial_optimized
        crc[i \in 0..Len(data)] == IF i < 2 THEN first ELSE CrcStep(n, data[i])[crc[i - 1]]
        last == crc[Len(data)]
    IN IF o.width = 0 THEN {}
       ELSE Xor(IF o.refout # o.refin THEN reflect(last, o.width) ELSE last, o.final_xor)
            \cap 0..(o.width - 1)

\* The check code of data under the option named n.  Without a width (option A) the
\* table and the steps shift by a negative number, which C leaves undefined; the
\* mask leaves nothing of the result, whatever it is.
crc_calculate(n, data) ==
    LET o == Options[n]
        first == IF o.refin THEN reflect(o.initial_optimized, o.width) ELSE o.initial_optimized
        crc[i \in 0..Len(data)] == IF i = 0 THEN first ELSE CrcStep(n, data[i])[crc[i - 1]]
        last == crc[Len(data)]
    IN IF o.width = 0 THEN {}
       ELSE Xor(IF o.refout # o.refin THEN reflect(last, o.width) ELSE last, o.final_xor)
            \cap 0..(o.width - 1)
=============================================================================

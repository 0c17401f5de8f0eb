---------------------------- MODULE MCAlgorithms ----------------------------
(***************************************************************************)
(* The algorithms of the library and of the example programs that keep no  *)
(* state between calls, each checked against a definition of what it is to *)
(* compute, for every input of the sets below.                             *)
(***************************************************************************)
EXTENDS ConfigFile, PacketCodec, SafetyCodes

VARIABLE input   \* <<what it is an input of, the input>>

(***************************************************************************)
(* Configuration lines, written from what they are to say.                 *)
(***************************************************************************)
Decimal(n) == IF n < 10 THEN <<Digit(n)>>
              ELSE IF n < 100 THEN <<Digit(n \div 10), Digit(n % 10)>>
              ELSE <<Digit(n \div 100), Digit((n \div 10) % 10), Digit(n % 10)>>

HexDigit(n) == IF n < 10 THEN Digit(n) ELSE Hex(n)

Quoted(t) == <<Mark("quote")>> \o t \o <<Mark("quote")>>

HexText(digits) == <<Mark("#")>> \o [i \in DOMAIN digits |-> HexDigit(digits[i])]

\* Around the limits of an int and of a long: the initial values of MD4 are above
\* the first.
WrittenWords ==
    {[says |-> <<"NUMBER", 2147483647>>, text |-> HexText(<<7, 15, 15, 15, 15, 15, 15, 15>>)],
     [says |-> <<"NUMBER", -2147483647>>, text |-> HexText(<<8, 0, 0, 0, 0, 0, 0, 1>>)],
     [says |-> <<"NUMBER", -271733879>>, text |-> HexText(<<0, 14, 15, 12, 13, 10, 11, 8, 9>>)],
     [says |-> <<"NUMBER", 2>>, text |-> HexText(<<7, 0, 0, 0, 0, 0, 0, 0, 0, 0, 0, 0, 0, 0, 0, 2>>)],
     [says |-> <<"NUMBER", -1>>, text |-> HexText(<<8, 0, 0, 0, 0, 0, 0, 0, 0, 0, 0, 0, 0, 0, 0, 2>>)]}

\* The ways to write a value: [says, text].
WrittenNumbers ==
    {[says |-> <<"NUMBER", n>>, text |-> Decimal(n)] : n \in {0, 7, 10, 255}}
    \cup {[says |-> <<"NUMBER", 0 - n>>, text |-> <<Mark("-")>> \o Decimal(n)] : n \in {1, 23}}
    \cup {[says |-> <<"NUMBER", 16 * a + b>>, text |-> <<Mark("#"), HexDigit(a), HexDigit(b)>>] :
             a \in {0, 10, 15}, b \in {2, 11}}
    \cup WrittenWords

Texts == {<<>>, <<Word("W")>>, <<Lower("W"), Blank, Mark("=")>>, <<Digit(1), Mark(";"), Mark("}")>>}

WrittenStrings ==
    {[says |-> <<"STRING", t>>, text |-> Quoted(t)] : t \in Texts}
    \cup {[says |-> <<"STRING", <<Word("W"), Digit(2)>>>>, text |-> <<Lower("W"), Digit(2)>>]}

WrittenArrays ==
    {[says |-> <<"ARRAY", <<t>>>>, text |-> <<Mark("{")>> \o Quoted(t) \o <<Mark("}")>>] : t \in Texts}
    \cup {[says |-> <<"ARRAY", <<t, u>>>>,
           text |-> <<Mark("{")>> \o Quoted(t) \o <<Mark(sep), Blank>> \o Quoted(u) \o <<Blank, Mark("}")>>] :
             t, u \in Texts, sep \in {";", ","}}

Written == WrittenNumbers \cup WrittenStrings \cup WrittenArrays

\* What may stand around the key and the value; a comment may follow.
Spellings == [before : {<<>>, <<Blank>>}, around : {<<>>, <<Blank>>}, lower : BOOLEAN,
              after : {<<>>, <<Blank>>, <<Blank, Mark(";"), Lower("W")>>}]

KeyText(name, lower) == <<IF lower THEN Lower(name) ELSE Word(name)>>

LineOf(name, text, sp) ==
    sp.before \o KeyText(name, sp.lower) \o sp.around \o <<Mark("=")>> \o sp.around \o text \o sp.after

Plain == [before |-> <<>>, around |-> <<Blank>>, lower |-> FALSE, after |-> <<>>]

LineInputs == {<<"line", w, sp>> : w \in Written, sp \in Spellings}

\* A line of a file is read as what it says, whatever blanks stand in it,
\* whatever follows the value, and in either case of the key; a key is stored in
\* upper case (config_load, parser_parseValue).
LinesReadBack ==
    input[1] = "line" =>
        ReadLines(<<LineOf("K", input[2].text, input[3])>>).data = <<<<<<Word("K")>>, input[2].says>>>>

(***************************************************************************)
(* Any line.                                                               *)
(***************************************************************************)
Pieces == {Blank, Digit(1), Lower("W"), Mark("="), Mark("quote"), Mark("-"), Mark(";")}

PieceInputs == {<<"pieces", s>> : s \in SeqOf(Pieces, 5)}

\* blanks, a key, blanks, '='
Assigns(s, i) ==
    /\ s[i] = Mark("=")
    /\ \E a \in 0..(i - 2), b \in 1..(i - 1) :
          /\ a < b
          /\ \A j \in 1..(i - 1) : IF j <= a \/ j > b THEN s[j] = Blank
                                   ELSE s[j] \in {Digit(1), Lower("W")}

\* v is the place of the value of the assignment s.
ValueAt(s, v) ==
    \E i \in 1..(v - 1) : Assigns(s, i) /\ s[v] # Blank /\ \A j \in (i + 1)..(v - 1) : s[j] = Blank

NoNumber(s, v) == s[v] = Mark("-") /\ (v = Len(s) \/ s[v + 1] # Digit(1))
NotClosed(s, v) == s[v] = Mark("quote") /\ \A j \in (v + 1)..Len(s) : s[j] # Mark("quote")

Assignment(s) == \E i \in DOMAIN s : Assigns(s, i)
Unreadable(s) == \E v \in DOMAIN s : ValueAt(s, v) /\ (NoNumber(s, v) \/ NotClosed(s, v))

\* The value is a quotation mark, the last character of the line.
LoneQuote(s) == s # <<>> /\ ValueAt(s, Len(s)) /\ NotClosed(s, Len(s))

\* A line makes an entry exactly if it is an assignment whose value can be read:
\* a comment, a line without '=', a '-' without digits or a string without its
\* closing mark adds nothing, and every line adds at most one entry (config_load).
OnlyAssignmentsAdd ==
    input[1] = "pieces" /\ ~LoneQuote(input[2]) =>
        Len(ReadLines(<<input[2]>>).data) =
            IF Assignment(input[2]) /\ ~Unreadable(input[2]) THEN 1 ELSE 0

\* A defect of the code: it means to report "Missing closing '\"'"
\* (configfile.c:156), but at the end of a line parser_next leaves current as it
\* was, so a lone quotation mark closes itself and the value is an empty string.
LoneQuoteIsEmpty ==
    input[1] = "pieces" /\ LoneQuote(input[2]) =>
        LET data == ReadLines(<<input[2]>>).data
        IN Len(data) = 1 /\ data[1][2] = <<"STRING", <<>>>>

\* The parser reads a line as follows: an assignment adds what it says, and no
\* other line adds anything (config_load, parser_parseValue).  The one line that is
\* read against the intention of the code is a value that is a lone quotation mark.
ParserExact == LinesReadBack /\ OnlyAssignmentsAdd /\ LoneQuoteIsEmpty

(***************************************************************************)
(* Whole files.                                                            *)
(***************************************************************************)
\* The numbers a file sets, where load_configfile puts them, and the value
\* without a line.
NumberSettings ==
    {[name |-> "RASTA_T_MAX", part |-> "sending", field |-> "t_max", std |-> 1800],
     [name |-> "RASTA_MWA", part |-> "sending", field |-> "mwa", std |-> 10],
     [name |-> "RASTA_SEND_MAX", part |-> "sending", field |-> "send_max", std |-> 20],
     [name |-> "RASTA_RECVQUEUE_SIZE", part |-> "queues", field |-> "max_recvqueue_size", std |-> 20],
     [name |-> "RASTA_T_SEQ", part |-> "redundancy", field |-> "t_seq", std |-> 100],
     [name |-> "RASTA_N_DEFERQUEUE_SIZE", part |-> "redundancy", field |-> "n_deferqueue_size", std |-> 4],
     [name |-> "RASTA_NETWORK", part |-> "general", field |-> "rasta_network", std |-> 0]}

TwoAddresses == <<"ARRAY", <<<<Digit(1), Mark("."), Digit(2), Digit(5), Mark("."), Digit(3), Mark("."), Digit(4),
                               Mark(":"), Digit(8), Digit(0)>>,
                             <<Digit(9), Mark("."), Digit(9), Mark("."), Digit(9), Mark("."), Digit(9),
                               Mark(":"), Digit(7)>>>>>>

\* <<name, value>>: the entries files are made of
LoggerEntries == {<<"LOGGER_TYPE", <<"NUMBER", 0>>>>, <<"LOGGER_MAX_LEVEL", <<"NUMBER", 3>>>>}
OtherEntries ==
    {<<e.name, <<"NUMBER", n>>>> : e \in NumberSettings, n \in {-1, 0, 65535}}
    \cup {<<"RASTA_T_SEQ", <<"STRING", <<Word("W")>>>>>>,
          <<"RASTA_MD4_TYPE", <<"STRING", <<Word("FULL")>>>>>>,
          <<"RASTA_SR_CHECKSUM_LEN", <<"STRING", <<Word("NONE")>>>>>>,
          <<"RASTA_REDUNDANCY_CONNECTIONS", TwoAddresses>>,
          <<"LOGGER_TYPE", <<"NUMBER", 1>>>>,
          <<"LOGGER_FILE", <<"STRING", <<Lower("LOG")>>>>>>,
          <<"RASTA_KEX_MODE", <<"STRING", <<Word("W")>>>>>>}

DigitsOf(n) == IF n < 1000 THEN Decimal(n) ELSE Decimal(n \div 100) \o <<Digit((n \div 10) % 10), Digit(n % 10)>>

TextOf(v) ==
    CASE v[1] = "NUMBER" -> IF v[2] < 0 THEN <<Mark("-")>> \o DigitsOf(0 - v[2]) ELSE DigitsOf(v[2])
      [] v[1] = "STRING" -> Quoted(v[2])
      [] v[1] = "ARRAY" -> <<Mark("{")>> \o Quoted(v[2][1]) \o <<Mark(";")>> \o Quoted(v[2][2]) \o <<Mark("}")>>

LinesOf(entries) == [i \in DOMAIN entries |-> LineOf(entries[i][1], TextOf(entries[i][2]), Plain)]

\* The lines of the logger before, after, between or missing; two other lines.
Files == {l \o <<a, b>> \o m : l, m \in {<<>>} \cup {<<e>> : e \in LoggerEntries}, a, b \in OtherEntries}
         \cup {SetToSeq(LoggerEntries) \o <<a, b>> : a, b \in OtherEntries}

FileInputs == {<<"file", f>> : f \in Files} \cup {<<"nofile">>}

\* What the file says about a name: the first line that says something.
Says(f, name) ==
    LET lines == {i \in DOMAIN f : f[i][1] = name}
    IN IF lines = {} THEN <<"NOTHING">> ELSE f[Min(lines)][2]

\* Of two lines for one key the first counts, and the dictionary never holds more
\* than is allocated for it, however often it has to grow (dictionary_add).
FirstLineCounts(f, d) ==
    /\ \A i \in DOMAIN f : config_get(d, f[i][1]) = Says(f, f[i][1])
    /\ Len(d.data) <= d.actual_size

\* The file does not name the type and the level of the logger and the file to log
\* to where there is one, or names a key exchange that is not known.
Incomplete(f) ==
    \/ Says(f, "LOGGER_TYPE")[1] # "NUMBER"
    \/ Says(f, "LOGGER_MAX_LEVEL")[1] # "NUMBER"
    \/ Says(f, "LOGGER_TYPE") = <<"NUMBER", 1>> /\ Says(f, "LOGGER_FILE")[1] # "STRING"
    \/ Says(f, "RASTA_KEX_MODE") # <<"NOTHING">>

\* A number of the file is the number used, up to 65535 and whichever other
\* lines there are; a negative one, another type or no line give the standard
\* value (config_setstd).
NumbersTakenOver(f, loaded) ==
    \A e \in NumberSettings :
       LET v == Says(f, e.name)
       IN loaded[e.part][e.field] = IF v[1] = "NUMBER" /\ v[2] >= 0 THEN v[2] ELSE e.std

LoadedAsSaid(f, loaded) ==
    IF Incomplete(f) THEN loaded = Aborted ELSE ~loaded.aborted /\ NumbersTakenOver(f, loaded)

\* A file is taken over as it says: the program starts exactly with a file that
\* is complete, of two lines for one key the first counts, and every number ends
\* in its field or is replaced by the standard value; without a file the program
\* does not start (load_configfile).
FileTakenOver ==
    /\ input[1] = "file" =>
          /\ FirstLineCounts(input[2], ReadLines(LinesOf(input[2])))
          /\ LoadedAsSaid(input[2], load_configfile(<<"file", LinesOf(input[2])>>))
    /\ input[1] = "nofile" => load_configfile(<<"missing">>) = Aborted

(***************************************************************************)
(* Addresses.                                                              *)
(***************************************************************************)
AddressPieces == {Digit(1), Mark("."), Mark(":"), Lower("W")}
Octets == {<<>>, <<Digit(2)>>, <<Digit(2), Digit(5), Digit(5)>>, <<Digit(1), Digit(2), Digit(3), Digit(4)>>}
Ports == {<<>>, <<Digit(0)>>, <<Digit(8), Digit(0)>>, <<Digit(8), Mark(".")>>, <<Mark("*")>>}

Wildcard == <<Mark("*"), Mark(":"), Digit(8), Digit(0)>>

AddressInputs ==
    {<<"address", o, p>> : o \in [1..4 -> Octets], p \in Ports}
    \cup {<<"text", t>> : t \in SeqOf(AddressPieces, 6) \cup {Wildcard}}

Dotted(o) == o[1] \o <<Mark(".")>> \o o[2] \o <<Mark(".")>> \o o[3] \o <<Mark(".")>> \o o[4]

Port80(p) == p = <<Digit(8), Digit(0)>>
Formed(o) == \A k \in 1..4 : Len(o[k]) \in 1..3

\* Wrong, but what is wrong is only that numbers before the last one are empty.
EmptyBefore(o) == ~Formed(o) /\ Len(o[4]) \in 1..3 /\ \A k \in 1..3 : Len(o[k]) <= 3

\* a.b.c.d:port, every number of one to three digits, is read as its address and
\* its port.  A number of more than three digits, no last number, a port that is
\* no number above 0, or a letter give port 0 (extractIPData).
WellFormedAccepted(o, p, read) ==
    /\ Formed(o) /\ Port80(p) => read = [ip |-> Dotted(o), port |-> 80]
    /\ ~Port80(p) \/ ~(Formed(o) \/ EmptyBefore(o)) => read.port = 0

\* Two disagreements of the code with its documentation.  "Port is set to 0 if wrong
\* format" (configfile.c:302), yet only the number before the colon is asked for a
\* digit: ...2:80 has port 80.  "*" stands "for automatic selection of the NIC"
\* (example_rasta_config.cfg:79), yet *:80 has port 0 like any text with a sign that
\* is no digit, '.' or ':'.
EmptyNumbersAccepted(o, p, read) == EmptyBefore(o) /\ Port80(p) => read.port = 80
OtherSignRefused(t) == Range(t) \cap {Lower("W"), Mark("*")} # {} => extractIPData(t).port = 0


(***************************************************************************)
(* Check codes.                                                            *)
(***************************************************************************)
CrcNames == DOMAIN Table

\* What a CRC is: the remainder of the division of the message by the polynomial,
\* one bit after the other.
DivideBit(reg, bit, o) ==
    LET shifted == Shl(reg, 1, o.width)
    IN IF (o.width - 1 \in reg) # bit THEN Xor(shifted, o.polynom) ELSE shifted

\* The bits of a byte in the order they are sent
BitsSent(byte, o) == [k \in 1..8 |-> (IF o.refin THEN k - 1 ELSE 8 - k) \in byte]

Remainder(n, data) ==
    LET o == Options[n]
        bits == FlattenSeq([i \in DOMAIN data |-> BitsSent(data[i], o)])
        reg == FoldLeft(LAMBDA r, b : DivideBit(r, b, o), o.initial_optimized, bits)
    IN Xor(IF o.refout THEN reflect(reg, o.width) ELSE reg, o.final_xor)

CrcBytes == {{}, {0}, {7}, {0, 3, 4, 6}, 0..7}
CrcInputs == {<<"crc", n, data>> : n \in CrcNames, data \in SeqOf(CrcBytes, 3)}

\* "123456789", the data of the examples and tests
CheckData == [i \in 1..9 |-> Bits(48 + i)]
CheckValues == [B |-> HexWord(<<0, 14, 7, 12, 6, 5, 0, 10>>), C |-> HexWord(<<14, 3, 0, 6, 9, 2, 8, 3>>),
                D |-> HexWord(<<2, 1, 8, 9>>), E |-> HexWord(<<11, 11, 3, 13>>)]

\* The table driven calculation, with its reflections and an accumulator wider
\* than the code, computes the remainder (crc_calculate); for "123456789" it is the
\* value of rastacrc.h:22 and of rastacrc_test.c.
CrcIsRemainder ==
    input[1] = "crc" =>
        /\ crc_calculate(input[2], input[3]) = Remainder(input[2], input[3])
        /\ input[3] = <<>> => crc_calculate(input[2], CheckData) = CheckValues[input[2]]

\* Damages: every burst of up to six bits, and every two bits, of four bytes.
Bursts == UNION {{{at + i : i \in b} : b \in {c \in SUBSET (0..5) : 0 \in c}} : at \in 0..26}
Damages == Bursts \cup {{i, j} : i, j \in 0..31}
Damaged(data, d) == [i \in DOMAIN data |-> Xor(data[i], {b - 8 * (i - 1) : b \in d \cap (8 * (i - 1))..(8 * i - 1)})]

\* A code is linear, so that one message stands for all.
CrcMessage == <<{0, 5}, 0..7, {1}, {2, 6}>>
DamageInputs == {<<"damage", n, CrcMessage, d>> : n \in CrcNames, d \in Damages}

\* No burst of a few bits and no two bits of a message can change without a change
\* of the code, with any of the options (crc_init_opt_b to crc_init_opt_e).
DamageChangesCrc ==
    input[1] = "damage" =>
        crc_calculate(input[2], Damaged(input[3], input[4])) # crc_calculate(input[2], input[3])

(***************************************************************************)
(* PDUs.                                                                   *)
(***************************************************************************)
\* Some function of the data and the key: every bit of the data counts.
MCHash(data, key) ==
    LET mixed == {b \in 0..7 : Cardinality({i \in DOMAIN data : ((b + i) % 8) \in data[i]}) % 2 = 1}
    IN [k \in 1..16 |-> Rotl(Xor(mixed, key), k, 8)]

Key == {1, 6}

\* Six numbers, the largest and the smallest among them, all different.
SomeNumbers == <<{31}, {0}, 0..31, {}, {7, 8}, {15, 16, 23}>>
OtherNumbers == <<{}, 0..31, {24}, {0, 31}, {1}, {9}>>

Long == [i \in 1..257 |-> {0}]
Messages == SeqOf({<<>>, <<{2}>>, <<{}, 0..7, {4}>>}, 3) \cup {<<Long>>, <<<<>>, Long, <<{2}>>>>}

Pdus(h, n) ==
    {createWithoutData(t, n, h) : t \in {"HB", "RETRREQ", "RETRRESP"}}
    \cup {createConnection(t, n, [i \in 1..4 |-> {i}], s, h) : t \in {"CONNREQ", "CONNRESP"}, s \in {{}, {0, 8}, 0..15}}
    \cup {createDisconnectionRequest(n, d, r, h) : d \in {{}, {9}}, r \in {{}, {2}, 0..15}}
    \cup {createDataMessage(t, n, m, h) : t \in {"DATA", "RETRDATA"}, m \in Messages}

PduInputs == UNION {{<<"pdu", h, p>> : p \in Pdus(h, n)} : h \in 0..2, n \in {SomeNumbers, OtherNumbers}}

\* Every PDU the library makes, with any length of the safety code, is unpacked
\* from its bytes as it was packed, with a correct code; its length field is the
\* number of its bytes (rastaModuleToBytes, bytesToRastaPacket).
PduReadsBack ==
    input[1] = "pdu" =>
        LET bytes == rastaModuleToBytes(input[3], input[2], Key, FALSE)
            read == bytesToRastaPacket(bytes, input[2], Key)
        IN /\ Len(bytes) = input[3].length
           /\ read.packet = input[3]
           /\ read.checksum_correct

MessageInputs == {<<"messages", m>> : m \in Messages}

\* The messages an application sends in one PDU are the messages that come out of
\* it, empty ones and the empty list included; so are version, send_max, and the
\* reason of a disconnection (createDataMessage, extractMessageData).
ContentReadsBack ==
    /\ input[1] = "messages" =>
          extractMessageData(createDataMessage("DATA", SomeNumbers, input[2], 1)) = input[2]
    /\ input[1] = "pdu" =>
          LET h == input[2]
              c == extractRastaConnectionData(input[3])
              d == extractRastaDisconnectionData(input[3])
          IN /\ input[3].type \in {Types.CONNREQ, Types.CONNRESP} =>
                    \E t \in {"CONNREQ", "CONNRESP"} :
                       input[3] = createConnection(t, input[3].numbers, c.version, c.send_max, h)
             /\ input[3].type = Types.DISCREQ =>
                    input[3] = createDisconnectionRequest(input[3].numbers, d.details, d.reason, h)

\* Packing loses nothing: a PDU and what the application put into it come out of
\* the bytes as they went in (rastafactory.c, rastamodule.c).
EncodingInverse == PduReadsBack /\ ContentReadsBack

SomePdus == {createWithoutData("HB", SomeNumbers, 1), createDataMessage("DATA", OtherNumbers, <<<<{3}>>>>, 1)}

\* What can be wrong with the second of two PDUs: its last byte is still to come, or
\* its length field is damaged.
Ends == {"whole", "cut", "zero", "larger", "smaller"}
LengthField(n, end) ==
    ToLe(Bits(CASE end = "zero" -> 0 [] end = "larger" -> n + 1 [] end = "smaller" -> n - 1 [] OTHER -> n), 2)
Ended(bytes, end) ==
    LengthField(Len(bytes), end) \o SubSeq(bytes, 3, IF end = "cut" THEN Len(bytes) - 1 ELSE Len(bytes))

BufferInputs == {<<"buffer", crc, <<createRedundancyPacket({0, 17}, p, crc),
                                    createRedundancyPacket(0..31, q, crc)>>, end>> :
                    crc \in DOMAIN Options, p, q \in SomePdus, end \in Ends}

ReadAs(bytes, crc, sent) ==
    LET read == bytesToRastaRedundancyPacket(bytes, crc, 1, Key)
    IN /\ read.checksum_correct /\ read.inner.checksum_correct
       /\ read.inner.packet = sent.data
       /\ read.sequence_number = sent.sequence_number


(***************************************************************************)
(* Safety codes.                                                           *)
(***************************************************************************)
Counting(from, n) == [i \in 1..n |-> Bits((from + i - 1) % 256)]
Bytes(values) == [i \in DOMAIN values |-> Bits(values[i])]

MdSizes == {0, 55, 56, 63, 64, 130}
MdInputs == {<<"md4", a, b>> : a, b \in MdSizes}

\* What MD4 is: the blocks of the message, a 1 bit, zeros and the number of bits.
MdPadded(data) ==
    data \o <<{7}>> \o ZeroBytes((55 - Len(data)) % 64) \o ToLe(Bits(8 * Len(data)), 8)
Md4(data) ==
    LET v == Bodies(MD4_Init_Rasta.abcd, MdPadded(data))
    IN ToLe(v[1], 4) \o ToLe(v[2], 4) \o ToLe(v[3], 4) \o ToLe(v[4], 4)

\* However a message is cut into pieces, the buffer between two of them full,
\* empty or one byte from it, MD4 is that of the padded message
\* (MD4_Update_Rasta, MD4_Final_Rasta); for the empty message it is the value
\* of rastamd4_test.c:51.
Md4OfPieces ==
    input[1] = "md4" =>
        LET a == Counting(0, input[2])
            b == Counting(input[2], input[3])
        IN /\ MD4_Final_Rasta(MD4_Update_Rasta(MD4_Update_Rasta(MD4_Init_Rasta, a), b)) = Md4(a \o b)
           /\ a \o b = <<>> =>
                 generateMD4(a, 2) = Bytes(<<49, 214, 207, 224, 209, 106, 233, 49, 183, 60, 89, 215, 224, 192, 137, 192>>)

\* Pieces that end before, at and behind the end of a block.
BlakePieces == {<<0, 0>>, <<5, 3>>, <<0, 128>>, <<1, 127>>, <<128, 1>>, <<127, 130>>, <<128, 128>>}
BlakeInputs == {<<"blake", key, p>> : key \in {0, 16}, p \in BlakePieces} \cup {<<"vector">>}

\* The code of blake2_test.c: the message is one byte 0, the key 0, 1, ..., 63.
BlakeCode ==
    <<150, 31, 109, 209, 228, 221, 48, 246, 57, 1, 105, 12, 81, 46, 120, 228,
      180, 94, 71, 66, 237, 25, 124, 60, 94, 69, 197, 73, 253, 37, 242, 228,
      24, 123, 11, 201, 254, 48, 73, 43, 22, 176, 208, 188, 78, 249, 176, 243,
      76, 112, 3, 250, 192, 154, 94, 241, 83, 46, 105, 67, 2, 52, 206, 189>>

\* What BLAKE2b is: the blocks of the key and the message, each with the number
\* of bytes up to its end, the last one filled up and marked.
Blake2b(outlen, key, data) ==
    LET bytes == (IF key = <<>> THEN <<>> ELSE key \o ZeroBytes(128 - Len(key))) \o data
        n == Max({1, (Len(bytes) + 127) \div 128})
        block(i) == SubSeq(bytes, 128 * (i - 1) + 1, Min({128 * i, Len(bytes)}))
        padded(i) == block(i) \o ZeroBytes(128 - Len(block(i)))
        ctx[i \in 0..n] ==
            IF i = 0 THEN rasta_blake2b_init(outlen, key)
            ELSE blake2b_compress([ctx[i - 1] EXCEPT !.t = Min({128 * i, Len(bytes)}), !.b = padded(i)], i = n)
        h == ctx[n].h
    IN [i \in 1..outlen |-> ToLe(h[((i - 1) \div 8) + 1], 8)[((i - 1) % 8) + 1]]

\* The same of BLAKE2b: a block is compressed as the last one only if nothing
\* follows it (rasta_blake2b_update, rasta_blake2b_final); the code of
\* blake2_test.c comes out.
BlakeOfPieces ==
    /\ input[1] = "blake" =>
          LET key == Counting(7, input[2])
              a == Counting(0, input[3][1])
              b == Counting(100, input[3][2])
              first == rasta_blake2b_update(rasta_blake2b_init(16, key), a)
          IN rasta_blake2b_final(rasta_blake2b_update(first, b)) = Blake2b(16, key, a \o b)
    /\ input[1] = "vector" => generateBlake2(<<{}>>, Counting(0, 64), 8) = Bytes(BlakeCode)

\* Vectors of siphash24_test.h: the first bytes of the message 0, 1, 2, ... with
\* the key 0, 1, ..., 15.
SipVectors ==
    {[n |-> 0, long |-> FALSE, code |-> <<49, 14, 14, 221, 71, 219, 111, 114>>],
     [n |-> 8, long |-> FALSE, code |-> <<98, 36, 147, 154, 121, 245, 245, 147>>],
     [n |-> 15, long |-> TRUE, code |-> <<84, 147, 233, 153, 51, 176, 168, 17, 126, 8, 236, 15, 151, 207, 195, 217>>],
     [n |-> 63, long |-> TRUE, code |-> <<81, 80, 209, 119, 47, 80, 131, 74, 80, 62, 6, 154, 151, 63, 189, 124>>]}
SipInputs == {<<"sip", v>> : v \in SipVectors}

\* siphash gives the codes of the test vectors, for messages with and without
\* bytes left over (siphash).
SipHashVectors ==
    input[1] = "sip" =>
        SipCode(Counting(0, input[2].n), Counting(0, 16), input[2].long, SipHash) = Bytes(input[2].code)

\* MD4, BLAKE2b and siphash compute what they are named after, the first two
\* however their input is cut into pieces (rastamd4.c, rastablake2.c,
\* rastasiphash24.c).
HashesMatch == Md4OfPieces /\ BlakeOfPieces /\ SipHashVectors

Algorithms == {"MD4", "SIPHASH_2_4", "BLAKE2B"}

\* The keys: four words of MD4, one of the others; what lies behind the key is the
\* same in both contexts.
Behind == Counting(100, 12)
Context(algorithm, h, words) ==
    LET context == [algorithm |-> algorithm, hash_length |-> h, key |-> <<>>, behind |-> Behind]
    IN IF algorithm = "MD4" THEN rasta_md4_set_key(context, words) ELSE set_sr_hash_key(context, words[1])

KeyWords == <<HexWord(<<0, 1, 2, 3, 4, 5, 6, 7>>), HexWord(<<8, 9, 10, 11, 12, 13, 14, 15>>),
              HexWord(<<15, 14, 13, 12, 11, 10, 9, 8>>), HexWord(<<7, 6, 5, 4, 3, 2, 1, 0>>)>>
KeyBits(algorithm) == IF algorithm # "MD4" THEN 32 ELSE IF UseOpenssl THEN 0 ELSE 128

\* A message and the same with one bit changed, a key and the same with one bit
\* changed.
CodeData == Counting(40, 11)
Flipped(bytes, n) == [bytes EXCEPT ![(n \div 8) + 1] = Xor(@, {n % 8})]
KeyFlipped(n) == [KeyWords EXCEPT ![(n \div 32) + 1] = Xor(@, {n % 32})]

CodeInputs ==
    UNION {{<<"message bit", a, h, n>> : n \in 0..(8 * Len(CodeData) - 1)}
           \cup {<<"key bit", a, h, n>> : n \in 0..(KeyBits(a) - 1)} : a \in Algorithms, h \in 1..2}

CodeOf == [a \in Algorithms, h \in 1..2 |-> rasta_calculate_hash(CodeData, Context(a, h, KeyWords))]

\* A code has the length asked for, and no bit of the message or of the key of the
\* configuration can change without a change of it, so that neither damage nor a
\* key that differs passes (rasta_calculate_hash).  That the ends have the same
\* bytes behind the key, which SipHash reads too, is assumed here; the code does
\* not see to it.
CodeSeesEveryBit ==
    input[1] \in {"message bit", "key bit"} =>
        LET a == input[2]
            h == input[3]
            data == IF input[1] = "message bit" THEN Flipped(CodeData, input[4]) ELSE CodeData
            words == IF input[1] = "key bit" THEN KeyFlipped(input[4]) ELSE KeyWords
        IN /\ Len(CodeOf[a, h]) = 8 * h
           /\ rasta_calculate_hash(data, Context(a, h, words)) # CodeOf[a, h]

\* An input is chosen in two steps, its kind first.
Inputs ==
    [line |-> LineInputs, pieces |-> PieceInputs, file |-> FileInputs, address |-> AddressInputs,
     crc |-> CrcInputs, damage |-> DamageInputs, pdu |-> PduInputs \cup MessageInputs,
     buffer |-> BufferInputs, md4 |-> MdInputs, blake |-> BlakeInputs, sip |-> SipInputs, code |-> CodeInputs]

Init == input \in {<<"choose", kind>> : kind \in DOMAIN Inputs}
Choose == input[1] = "choose" /\ input' \in Inputs[input[2]]
Again == input[1] # "choose" /\ UNCHANGED input
Next == Choose \/ Again
Spec == Init /\ [][Next]_input
=============================================================================

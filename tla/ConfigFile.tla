----------------------------- MODULE ConfigFile -----------------------------
(***************************************************************************)
(* The configuration file of the example programs: the line parser, the    *)
(* dictionary it fills, the standard values, and load_configfile           *)
(* (examples/common/c/configfile.c, dictionary.c).                         *)
(*                                                                         *)
(* A line is the sequence of its pieces, without the newline.  A piece is  *)
(* <<kind, value>>: a blank, a digit, a letter A to F, a mark (any other   *)
(* single character), or a word: a run of letters, digits and _ that       *)
(* begins with a letter or _ .  "lower" is a word in lower case.  Lines,   *)
(* strings and ports are shorter than the buffers they are read into, and  *)
(* a decimal number has at most nine digits.                               *)
(***************************************************************************)
EXTENDS Integers, Sequences, FiniteSetsExt, Folds, SequencesExt

CONSTANTS EnableTls,    \* ENABLE_TLS and ENABLE_OPAQUE of the build
          EnableOpaque

Blank == <<"blank", "space">>
Digit(n) == <<"digit", n>>
Hex(n) == <<"hex", n>>
Word(w) == <<"word", w>>
Lower(w) == <<"lower", w>>
Mark(c) == <<"mark", c>>

Alphabetic == {"hex", "word", "lower"}
Alphanumeric == {"digit"} \cup Alphabetic

\* What memory that was never written holds.
Unset == <<"unset">>

(***************************************************************************)
(* The parser.  Its position is one past the line at the end of the line,  *)
(* where current keeps the last character (parser_next).                   *)
(***************************************************************************)
Current(s, i) == s[Min({i, Len(s)})]
Is(s, i, c) == Current(s, i) = Mark(c)

parser_next(s, i) == Min({i + 1, Len(s) + 1})

\* The end of the run of pieces of these kinds that begins at i.
RunEnd(s, i, kinds) ==
    Min({j \in i..(Len(s) + 1) : j > Len(s) \/ s[j][1] \notin kinds} \cup {Len(s) + 1})

parser_skipBlank(s, i) == RunEnd(s, i, {"blank"})

\* toupper: words are told apart from their lower case spelling.
uppercase(t) == [i \in DOMAIN t |-> IF t[i][1] = "lower" THEN Word(t[i][2]) ELSE t[i]]

parser_parseIdentifier(s, i) ==
    LET from == parser_skipBlank(s, i)
        end == RunEnd(s, from, Alphanumeric)
    IN [value |-> uppercase(SubSeq(s, from, end - 1)), at |-> end]

\* The number a run of digits stands for
InBase(b, digits) == FoldLeft(LAMBDA n, p : b * n + p[2], 0, digits)

Failed == <<"ERROR">>

parser_parseNumber(s, i) ==
    LET neg == Is(s, i, "-")
        from == IF neg THEN parser_next(s, i) ELSE i
        n == InBase(10, SubSeq(s, from, RunEnd(s, from, {"digit"}) - 1))
    IN IF Current(s, from)[1] # "digit" THEN Failed
       ELSE <<"NUMBER", IF neg THEN 0 - n ELSE n>>

\* A quote at the end of the line is both the opening and the closing one.
parser_parseString(s, i) ==
    LET from == parser_next(s, i)
        quotes == {j \in from..Len(s) : s[j] = Mark("quote")}
    IN IF from > Len(s) THEN [ok |-> TRUE, value |-> <<>>, at |-> from]
       ELSE IF quotes = {} THEN [ok |-> FALSE, value |-> <<>>, at |-> Len(s) + 1]
       ELSE [ok |-> TRUE, value |-> SubSeq(s, from, Min(quotes) - 1), at |-> Min(quotes)]

\* (int) of a long of 64 bits: the lowest eight digits, the first of them with the
\* sign.  strtol gives the largest long, whose lowest bits are all 1, for more.
HexInt(digits) ==
    LET ones == {k \in DOMAIN digits : digits[k][2] # 0}
        places == IF ones = {} THEN 0 ELSE Len(digits) + 1 - Min(ones)
        top == IF places < 8 THEN 0 ELSE digits[Len(digits) - 7][2]
        low == SubSeq(digits, Max({1, Len(digits) - 6}), Len(digits))
    IN IF places > 16 \/ (places = 16 /\ digits[Min(ones)][2] >= 8) THEN -1
       ELSE (IF top >= 8 THEN top - 16 ELSE top) * 2^28 + InBase(16, low)

parser_parseHex(s, i) ==
    LET from == parser_next(s, i)
    IN <<"NUMBER", HexInt(SubSeq(s, from, RunEnd(s, from, {"digit", "hex"}) - 1))>>

\* The array is allocated for one string, which nothing may be written to.
ArrayOf(strings) == <<"ARRAY", IF strings = <<>> THEN <<Unset>> ELSE strings>>

\* A mutant of parser_parseArray: only ; separates.
RECURSIVE parser_parseArray_NoComma(_, _, _)
parser_parseArray_NoComma(s, i, strings) ==
    LET from == parser_skipBlank(s, i)
        string == parser_parseString(s, from)
        after == parser_skipBlank(s, parser_next(s, string.at))
    IN IF Is(s, i, "}") \/ Current(s, from)[1] = "digit" THEN ArrayOf(strings)
       ELSE IF ~Is(s, from, "quote") \/ ~string.ok THEN Failed
       ELSE IF Is(s, after, ";")
            THEN parser_parseArray_NoComma(s, parser_next(s, after), Append(strings, string.value))
       ELSE IF Is(s, after, "}") THEN ArrayOf(Append(strings, string.value)) ELSE Failed

\* The loop of parser_parseArray from position i.  An array of numbers ends it.
RECURSIVE parser_parseArray(_, _, _)
parser_parseArray(s, i, strings) ==
    LET from == parser_skipBlank(s, i)
        string == parser_parseString(s, from)
        after == parser_skipBlank(s, parser_next(s, string.at))
    IN IF Is(s, i, "}") \/ Current(s, from)[1] = "digit" THEN ArrayOf(strings)
       ELSE IF ~Is(s, from, "quote") \/ ~string.ok THEN Failed
       ELSE IF Is(s, after, ";") \/ Is(s, after, ",")
            THEN parser_parseArray(s, parser_next(s, after), Append(strings, string.value))
       ELSE IF Is(s, after, "}") THEN ArrayOf(Append(strings, string.value)) ELSE Failed

parser_parseValue(s, start) ==
    LET i == parser_skipBlank(s, start)
    IN CASE Is(s, i, "-") \/ Current(s, i)[1] = "digit" -> parser_parseNumber(s, i)
         [] Is(s, i, "quote") -> LET string == parser_parseString(s, i)
                                 IN IF string.ok THEN <<"STRING", string.value>> ELSE Failed
         [] Is(s, i, "{") -> parser_parseArray(s, parser_next(s, i), <<>>)
         [] Is(s, i, "#") -> parser_parseHex(s, i)
         [] OTHER -> <<"STRING", parser_parseIdentifier(s, i).value>>

(***************************************************************************)
(* The dictionary: entries <<key, type, value>> in an array that doubles.  *)
(***************************************************************************)
dictionary_create(initial_size) ==
    [actual_size |-> Max({initial_size, 2}), data |-> <<>>]

Entries(d, key) == {i \in DOMAIN d.data : d.data[i][1] = uppercase(key)}

dictionary_isin(d, key) == Entries(d, key) # {}

\* A mutant of dictionary_add: a line replaces what an earlier line said.
dictionary_add_Replaces(d, key, v) ==
    [d EXCEPT !.data = Append(SelectSeq(@, LAMBDA e : e[1] # uppercase(key)),
                              <<uppercase(key), v>>)]

\* dictionary_addNumber, addString, addArray
dictionary_add(d, key, v) ==
    IF dictionary_isin(d, key) THEN d
    ELSE [actual_size |-> IF Len(d.data) >= d.actual_size THEN 2 * d.actual_size
                          ELSE d.actual_size,
          data |-> Append(d.data, <<uppercase(key), v>>)]

dictionary_get(d, key) ==
    IF dictionary_isin(d, key) THEN d.data[Min(Entries(d, key))][2] ELSE Failed

config_get(d, name) == dictionary_get(d, <<Word(name)>>)

(***************************************************************************)
(* config_load: line by line.  What is not  key = value  is passed over;   *)
(* what follows the value on the line is not looked at.                    *)
(***************************************************************************)
\* A mutant of ParseLine: the '=' is not asked for.
ParseLine_NoEquals(d, s) ==
    LET start == parser_skipBlank(s, 1)
        key == parser_parseIdentifier(s, start)
        eq == parser_skipBlank(s, key.at)
        v == parser_parseValue(s, parser_skipBlank(s, parser_next(s, eq)))
    IN IF \/ start > Len(s)
          \/ Current(s, start)[1] \notin Alphanumeric
          \/ v = Failed
       THEN d
       ELSE dictionary_add(d, key.value, v)

ParseLine(d, s) ==
    LET start == parser_skipBlank(s, 1)
        key == parser_parseIdentifier(s, start)
        eq == parser_skipBlank(s, key.at)
        v == parser_parseValue(s, parser_skipBlank(s, parser_next(s, eq)))
    IN IF \/ start > Len(s)
          \/ Current(s, start)[1] \notin Alphanumeric
          \/ ~Is(s, eq, "=")
          \/ v = Failed
       THEN d
       ELSE dictionary_add(d, key.value, v)

ReadLines(lines) == FoldLeft(ParseLine, dictionary_create(2), lines)

(***************************************************************************)
(* config_setstd.  Numbers are ints; an unsigned int is the int of the     *)
(* same bits.                                                              *)
(***************************************************************************)
Number(d, name, std) ==
    LET e == config_get(d, name)
    IN IF e[1] # "NUMBER" THEN std ELSE e[2]

\* A mutant of Natural: zero is not accepted either.
Natural_Positive(d, name, std) == LET n == Number(d, name, std) IN IF n <= 0 THEN std ELSE n

Natural(d, name, std) == LET n == Number(d, name, std) IN IF n < 0 THEN std ELSE n

\* (unsigned short)
Short(n) == n % 2^16

\* The meaning that names gives to the string, otherwise std.
Named(d, name, names, std) ==
    LET e == config_get(d, name)
        known == {w \in DOMAIN names : e = <<"STRING", <<Word(w)>>>>}
    IN IF known = {} THEN std ELSE names[CHOOSE w \in known : TRUE]

\* RASTA_MD4_TYPE, or RASTA_SR_CHECKSUM_LEN where that is missing
ChecksumLength(d) ==
    Named(d, IF config_get(d, "RASTA_MD4_TYPE") = Failed THEN "RASTA_SR_CHECKSUM_LEN"
             ELSE "RASTA_MD4_TYPE",
          [NONE |-> 0, HALF |-> 1, FULL |-> 2], 1)

\* The name SIPHASH-2-4 is not an identifier: it has to be a quoted string.
Siphash24 == <<"STRING", <<Word("SIPHASH"), Mark("-"), Digit(2), Mark("-"), Digit(4)>>>>

HashAlgorithm(d) ==
    IF config_get(d, "RASTA_SR_CHECKSUM_ALGO") = Siphash24 THEN "SIPHASH_2_4"
    ELSE Named(d, "RASTA_SR_CHECKSUM_ALGO", [MD4 |-> "MD4", BLAKE2B |-> "BLAKE2B"], "MD4")

SetSending(d) ==
    [t_max |-> Natural(d, "RASTA_T_MAX", 1800),
     t_h |-> Natural(d, "RASTA_T_H", 300),
     md4_type |-> ChecksumLength(d),
     sr_hash_key |-> Number(d, "RASTA_SR_CHECKSUM_KEY", 0),
     sr_hash_algorithm |-> HashAlgorithm(d),
     md4_a |-> Number(d, "RASTA_MD4_A", 1732584193),
     md4_b |-> Number(d, "RASTA_MD4_B", -271733879),
     md4_c |-> Number(d, "RASTA_MD4_C", -1732584194),
     md4_d |-> Number(d, "RASTA_MD4_D", 271733878),
     send_max |-> Short(Natural(d, "RASTA_SEND_MAX", 20)),
     mwa |-> Short(Natural(d, "RASTA_MWA", 10)),
     max_packet |-> Natural(d, "RASTA_MAX_PACKET", 3),
     diag_window |-> Natural(d, "RASTA_DIAG_WINDOW", 5000)]

SetQueues(d) ==
    [max_recvqueue_size |-> Natural(d, "RASTA_RECVQUEUE_SIZE", 20),
     max_recv_msg_size |-> Natural(d, "RASTA_RECV_MSG_SIZE", 500),
     max_retransmission_queue_size |-> Natural(d, "RASTA_RETRANSMISSION_QUEUE_SIZE", 100)]

(***************************************************************************)
(* The addresses.                                                          *)
(***************************************************************************)
Points(t, i) == Cardinality({j \in 1..i : t[j] = Mark(".")})

\* The digits since the last point; a colon does not reset the count.
Numbers(t, i) ==
    Cardinality({j \in 1..i : t[j][1] = "digit" /\ \A k \in j..i : t[k] # Mark(".")})

NoAddress == [ip |-> <<>>, port |-> 0]


\* Up to the colon that ends the fourth number.  Other colons are passed over,
\* and without that colon the port begins at the second character.
extractIPData(t) ==
    LET colons == {i \in DOMAIN t : t[i] = Mark(":") /\ Points(t, i) = 3 /\ Numbers(t, i) > 0}
        colon == IF colons = {} THEN Len(t) + 1 ELSE Min(colons)
        wrong == \E i \in 1..(colon - 1) :
                    \/ t[i][1] # "digit" /\ t[i] \notin {Mark("."), Mark(":")}
                    \/ t[i][1] = "digit" /\ Numbers(t, i) > 3
                    \/ Points(t, i) > 3
        port == SubSeq(t, IF colons = {} THEN 2 ELSE colon + 1, Len(t))
    IN IF wrong \/ \E i \in DOMAIN port : port[i][1] # "digit" THEN NoAddress
       ELSE [ip |-> [i \in 1..(colon - 1) |-> IF t[i] = Mark(":") THEN Unset ELSE t[i]]
                    \o (IF colons = {} THEN <<Unset>> ELSE <<>>),
             port |-> InBase(10, port)]

\* At the first string that is no address the array of the dictionary is freed;
\* the count stays, and the connections from there on are not written.
SetConnections(d, name) ==
    LET e == config_get(d, name)
        found == [i \in DOMAIN e[2] |-> IF e[2][i] = Unset THEN NoAddress ELSE extractIPData(e[2][i])]
        wrong == {i \in DOMAIN found : found[i].port = 0}
    IN IF e[1] # "ARRAY" THEN [count |-> 0, data |-> <<>>, freed |-> FALSE]
       ELSE [count |-> Len(e[2]),
             data |-> [i \in DOMAIN found |->
                          IF \E j \in wrong : j <= i THEN Unset ELSE <<found[i].ip, found[i].port>>],
             freed |-> wrong # {}]

SetRedundancy(d) ==
    [connections |-> SetConnections(d, "RASTA_REDUNDANCY_CONNECTIONS"),
     remote |-> SetConnections(d, "RASTA_REMOTE_REDUNDANCY_CONNECTIONS"),
     crc_type |-> Named(d, "RASTA_CRC_TYPE", [TYPE_A |-> "A", TYPE_B |-> "B", TYPE_C |-> "C",
                                              TYPE_D |-> "D", TYPE_E |-> "E"], "A"),
     t_seq |-> Short(Natural(d, "RASTA_T_SEQ", 100)),
     n_diagnose |-> Short(Natural(d, "RASTA_N_DIAGNOSE", 200)),
     n_deferqueue_size |-> Short(Natural(d, "RASTA_N_DEFERQUEUE_SIZE", 4))]

SetGeneral(d) ==
    [rasta_network |-> Natural(d, "RASTA_NETWORK", 0),
     rasta_id |-> Number(d, "RASTA_ID", 0),
     rasta_id_remote |-> Number(d, "RASTA_REMOTE_ID", 0)]

\* NULL, or a copy of the string
Path(d, name) ==
    LET e == config_get(d, name) IN IF e[1] = "STRING" THEN e ELSE <<"NULL">>

SetTls(d) ==
    [ca_cert_path |-> Path(d, "RASTA_CA_PATH"),
     cert_path |-> Path(d, "RASTA_CERT_PATH"),
     key_path |-> Path(d, "RASTA_KEY_PATH"),
     tls_hostname |-> IF EnableTls THEN Path(d, "RASTA_TLS_HOSTNAME") ELSE <<"NULL">>,
     peer_tls_cert_path |-> IF EnableTls THEN Path(d, "RASTA_TLS_PEER_CERT_PATH") ELSE <<"NULL">>]

OpaqueMode == <<"STRING", <<Word("KEY_EXCHANGE_MODE_OPAQUE")>>>>

\* An unknown mode, and a record that does not begin with URV1, abort.
KexAborts(d) ==
    /\ EnableOpaque
    /\ \/ Path(d, "RASTA_KEX_MODE") \notin {<<"NULL">>, OpaqueMode}
       \/ LET e == Path(d, "RASTA_KEX_PSK_RECORD")
          IN e[1] = "STRING" /\ (e[2] = <<>> \/ e[2][1] # Word("URV1"))

SetKex(d) ==
    IF ~EnableOpaque THEN [mode |-> "NONE"]
    ELSE [mode |-> IF Path(d, "RASTA_KEX_MODE") = OpaqueMode THEN "OPAQUE" ELSE "NONE",
          psk |-> Path(d, "RASTA_KEX_PSK"),
          rekeying_interval_ms |-> Number(d, "RASTA_KEX_REKEYING_INTERVAL_MS", 0),
          psk_record |-> Path(d, "RASTA_KEX_PSK_RECORD")]

(***************************************************************************)
(* load_configfile.  A file is <<"missing">> or <<"file", lines>>.         *)
(***************************************************************************)
\* A missing file leaves everything zero, an empty dictionary included.
config_load(file) ==
    IF file[1] = "missing"
    THEN [dictionary |-> [actual_size |-> 0, data |-> <<>>], aborted |-> FALSE]
    ELSE LET d == ReadLines(file[2]) IN [dictionary |-> d, aborted |-> KexAborts(d)]

\* mix and long_random: any number
long_random == <<"random">>

get_initial_seq_num(d) ==
    LET n == Number(d, "RASTA_INITIAL_SEQ", -1) IN IF n >= 0 THEN <<"number", n>> ELSE long_random

\* The first four characters of a version.
AcceptedVersions(d) ==
    LET e == config_get(d, "RASTA_ACCEPTED_VERSIONS")
    IN IF e[1] # "ARRAY" THEN <<>>
       ELSE [i \in DOMAIN e[2] |-> SubSeq(e[2][i], 1, Min({4, Len(e[2][i])}))]

LoggerTypeFile == 1

\* A mutant of LoggerConfigured: the file to log to may be missing.
LoggerConfigured_AnyFile(d) ==
    /\ config_get(d, "LOGGER_TYPE")[1] = "NUMBER"
    /\ config_get(d, "LOGGER_MAX_LEVEL")[1] = "NUMBER"

LoggerConfigured(d) ==
    LET type == config_get(d, "LOGGER_TYPE")
    IN /\ type[1] = "NUMBER"
       /\ config_get(d, "LOGGER_MAX_LEVEL")[1] = "NUMBER"
       /\ type[2] = LoggerTypeFile => config_get(d, "LOGGER_FILE")[1] = "STRING"

LoggerOf(d) ==
    LET type == config_get(d, "LOGGER_TYPE")[2]
    IN [type |-> type, level |-> config_get(d, "LOGGER_MAX_LEVEL")[2],
        file |-> IF type = LoggerTypeFile THEN Path(d, "LOGGER_FILE") ELSE <<"NULL">>]

Aborted == [aborted |-> TRUE]

\* load_configfile once config_load is back
Configured(config) ==
    LET d == config.dictionary
    IN IF config.aborted \/ ~LoggerConfigured(d) THEN Aborted
       ELSE [aborted |-> FALSE,
             sending |-> SetSending(d), queues |-> SetQueues(d), redundancy |-> SetRedundancy(d),
             general |-> SetGeneral(d), tls |-> SetTls(d), kex |-> SetKex(d),
             logger |-> LoggerOf(d),
             accepted_versions |-> AcceptedVersions(d),
             initial_sequence_number |-> get_initial_seq_num(d)]

load_configfile(file) == Configured(config_load(file))
=============================================================================

---------------------------- MODULE PacketCodec ----------------------------
(***************************************************************************)
(* PDUs and the bytes they are sent as: rastafactory.c, which makes the    *)
(* PDUs and takes them apart, and util/rastamodule.c, which packs them.    *)
(* Numbers of the PDUs are words (see Words), lengths are naturals.  h is  *)
(* hashing_context->hash_length: 0, 1 or 2.                                *)
(***************************************************************************)
EXTENDS Checksums

CONSTANT Hash(_, _)   \* rasta_calculate_hash: 16 bytes from the data and the key

Types == [CONNREQ |-> 6200, CONNRESP |-> 6201, RETRREQ |-> 6212, RETRRESP |-> 6213, DISCREQ |-> 6216,
          HB |-> 6220, DATA |-> 6240, RETRDATA |-> 6241]

(***************************************************************************)
(* rastafactory.c.  n holds the numbers every PDU has: receiver_id,        *)
(* sender_id, sequence_number, confirmed_sequence_number, timestamp and    *)
(* confirmed_timestamp.                                                    *)
(***************************************************************************)
\* data_length is a uint16_t: of more bytes only so many have a place.
initializePacket(type, n, data, h) ==
    LET data_length == Len(data) % 2^16
    IN [type |-> Types[type], numbers |-> n, data |-> SubSeq(data, 1, data_length),
        length |-> (28 + 8 * h + data_length) % 2^16]

\* createConnectionRequest and createConnectionResponse
createConnection(type, n, version, send_max, h) ==
    initializePacket(type, n, version \o ToLe(send_max, 2) \o ZeroBytes(8), h)

extractRastaConnectionData(p) ==
    IF Len(p.data) = 14
    THEN [version |-> SubSeq(p.data, 1, 4), send_max |-> FromLe(SubSeq(p.data, 5, 6)), error |-> FALSE]
    ELSE [version |-> ZeroBytes(4), send_max |-> {}, error |-> TRUE]

createDisconnectionRequest(n, details, reason, h) ==
    initializePacket("DISCREQ", n, ToLe(details, 2) \o ToLe(reason, 2), h)

extractRastaDisconnectionData(p) ==
    IF Len(p.data) = 4
    THEN [details |-> FromLe(SubSeq(p.data, 1, 2)), reason |-> FromLe(SubSeq(p.data, 3, 4)), error |-> FALSE]
    ELSE [details |-> {}, reason |-> {}, error |-> TRUE]

\* createHeartbeat, createRetransmissionRequest, createRetransmissionResponse
createWithoutData(type, n, h) == initializePacket(type, n, <<>>, h)

\* createDataMessage and createRetransmittedDataMessage: every message with its
\* length before it.
createDataMessage(type, n, messages, h) ==
    initializePacket(type, n,
                     FlattenSeq([i \in DOMAIN messages |-> ToLe(Bits(Len(messages[i])), 2) \o messages[i]]), h)

\* A mutant of extractMessageData: an empty message at the end is left out.
extractMessageData_Short(p) ==
    LET rest[from \in 1..(Len(p.data) + 1)] ==
            IF from + 1 >= Len(p.data) THEN <<>>
            ELSE LET length == Value(FromLe(SubSeq(p.data, from, from + 1)))
                 IN <<SubSeq(p.data, from + 2, from + 1 + length)>> \o rest[from + 2 + length]
    IN rest[1]

\* The messages of a data PDU.
extractMessageData(p) ==
    LET rest[from \in 1..(Len(p.data) + 1)] ==
            IF from > Len(p.data) THEN <<>>
            ELSE LET length == Value(FromLe(SubSeq(p.data, from, from + 1)))
                 IN <<SubSeq(p.data, from + 2, from + 1 + length)>> \o rest[from + 2 + length]
    IN rest[1]

createRedundancyPacket(sequence_number, p, crc) ==
    [sequence_number |-> sequence_number, data |-> p, checksum_type |-> crc, reserve |-> {},
     length |-> (8 + p.length + Options[crc].width \div 8) % 2^16]

(***************************************************************************)
(* rastamodule.c.  lasterror is rastamodule_lasterror, which stays set     *)
(* until it is asked for; nothing in the library asks.                     *)
(***************************************************************************)
packFields(p) ==
    ToLe(Bits(p.length), 2) \o ToLe(Bits(p.type), 2)
    \o FlattenSeq([i \in 1..6 |-> ToLe(p.numbers[i], 4)])

\* allocateBytes fails for a length that cannot be.
LengthInvalid(length, h) == length < 28 + 8 * h

\* The bytes of a PDU; bytes never written are Unwritten.
Unwritten == {-1}

\* A mutant of rastaModuleToBytes: the code is that of the data alone.
rastaModuleToBytes_DataOnly(p, h, key, lasterror) ==
    IF lasterror \/ LengthInvalid(p.length, h) THEN [i \in 1..p.length |-> Unwritten]
    ELSE packFields(p) \o p.data \o SubSeq(Hash(p.data, key), 1, 8 * h)

rastaModuleToBytes(p, h, key, lasterror) ==
    IF lasterror \/ LengthInvalid(p.length, h) THEN [i \in 1..p.length |-> Unwritten]
    ELSE LET body == packFields(p) \o p.data IN body \o SubSeq(Hash(body, key), 1, 8 * h)

getDataLength(length, h) == Max({length - 28 - 8 * h, 0})

\* A length field that says more bytes than there are makes it read behind them,
\* and one below the length of the code wraps around: what is read is undefined.
Misread == [lasterror |-> FALSE, checksum_correct |-> FALSE, packet |-> Unwritten]

\* The PDU of the bytes, or lasterror.
bytesToRastaPacket(bytes, h, key) ==
    LET number(at, k) == FromLe(SubSeq(bytes, at + 1, at + k))
        length == Value(number(0, 2))
        len == getDataLength(length, h)
        hash == Hash(SubSeq(bytes, 1, length - 8 * h), key)
    IN IF LengthInvalid(Len(bytes), h) THEN [lasterror |-> TRUE, checksum_correct |-> FALSE]
       ELSE IF length > Len(bytes) \/ length < 8 * h THEN Misread
       ELSE [lasterror |-> FALSE,
             packet |-> [type |-> Value(number(2, 2)),
                         numbers |-> [i \in 1..6 |-> number(4 * i, 4)],
                         data |-> SubSeq(bytes, 29, 28 + len),
                         length |-> length],
             checksum_correct |-> SubSeq(hash, 1, 8 * h) = SubSeq(bytes, 29 + len, 28 + len + 8 * h)]

CrcBytesOf(crc, bytes) == ToLe(crc_calculate(crc, bytes), Options[crc].width \div 8)

rastaRedundancyPacketToBytes(r, h, key, lasterror) ==
    LET body == ToLe(Bits(r.length), 2) \o ToLe(r.reserve, 2) \o ToLe(r.sequence_number, 4)
                \o rastaModuleToBytes(r.data, h, key, lasterror)
    IN body \o CrcBytesOf(r.checksum_type, body)


bytesToRastaRedundancyPacket(bytes, crc, h, key) ==
    LET body == SubSeq(bytes, 1, Len(bytes) - Options[crc].width \div 8)
        inner == bytesToRastaPacket(SubSeq(body, 9, Len(body)), h, key)
    IN [length |-> Value(FromLe(SubSeq(bytes, 1, 2))), reserve |-> FromLe(SubSeq(bytes, 3, 4)),
        sequence_number |-> FromLe(SubSeq(bytes, 5, 8)), inner |-> inner,
        checksum_correct |-> CrcBytesOf(crc, body) = SubSeq(bytes, Len(body) + 1, Len(bytes))]

\* receive_packet: the PDUs that arrive in one buffer, told apart by their lengths.
\* A length 0 keeps the loop at its place for ever; one larger than what is left
\* is read behind the buffer, and the number of bytes left wraps around.
RECURSIVE SplitBuffer(_)
SplitBuffer(buffer) ==
    LET size == Value(FromLe(SubSeq(buffer, 1, 2)))
    IN IF buffer = <<>> THEN [parts |-> <<>>, ends |-> "empty"]
       ELSE IF Len(buffer) = 1 \/ size > Len(buffer) THEN [parts |-> <<>>, ends |-> "behind"]
       ELSE IF size = 0 THEN [parts |-> <<>>, ends |-> "never"]
       ELSE LET others == SplitBuffer(SubSeq(buffer, size + 1, Len(buffer)))
            IN [others EXCEPT !.parts = <<SubSeq(buffer, 1, size)>> \o @]
=============================================================================

---------------------------- MODULE SafetyCodes ----------------------------
(***************************************************************************)
(* The safety codes of the PDUs: MD4, SipHash and BLAKE2b, in              *)
(* util/rastamd4.c, rastasiphash24.c and rastablake2.c, and the choice     *)
(* between them in rastahashing.c.  All numbers are words (see Words).     *)
(***************************************************************************)
EXTENDS Words

CONSTANT UseOpenssl   \* USE_OPENSSL of the build

Min2(a, b) == IF a < b THEN a ELSE b

\* memcpy(buffer + at, data, Len(data))
Put(buffer, at, data) ==
    SubSeq(buffer, 1, at) \o data \o SubSeq(buffer, at + Len(data) + 1, Len(buffer))

From(data, n) == SubSeq(data, n + 1, Len(data))

(***************************************************************************)
(* MD4.                                                                    *)
(***************************************************************************)
F(x, y, z) == Xor(z, x \cap Xor(y, z))
G(x, y, z) == (x \cap (y \cup z)) \cup (y \cap z)
H(x, y, z) == Xor(Xor(x, y), z)

\* The word a step takes, its rotation and its constant, for the three rounds.
MdOrder == <<[k \in 0..15 |-> k], [k \in 0..15 |-> 4 * (k % 4) + k \div 4],
             [k \in 0..15 |-> <<0, 8, 4, 12, 2, 10, 6, 14, 1, 9, 5, 13, 3, 11, 7, 15>>[k + 1]]>>
MdShift == <<<<3, 7, 11, 19>>, <<3, 5, 9, 13>>, <<3, 9, 11, 15>>>>
MdConstant == <<{}, HexWord(<<5, 10, 8, 2, 7, 9, 9, 9>>), HexWord(<<6, 14, 13, 9, 14, 11, 10, 1>>)>>

\* The step n (from 0) on the words x of a block, as a function of a, b, c, d.
STEP(n, x) ==
    LET r == (n \div 16) + 1
        k == n % 16
        mix(v) == CASE r = 1 -> F(v[2], v[3], v[4])
                    [] r = 2 -> G(v[2], v[3], v[4])
                    [] r = 3 -> H(v[2], v[3], v[4])
        sum(v) == Add(Add(v[1], mix(v), 32), Add(x[MdOrder[r][k] + 1], MdConstant[r], 32), 32)
    IN [v \in Seq(SUBSET (0..31)) |-> <<v[4], Rotl(sum(v), MdShift[r][(k % 4) + 1], 32), v[2], v[3]>>]

\* One block of 64 bytes.
body(abcd, block) ==
    LET x == WordsOf(block, 4)
        v[n \in 0..48] == IF n = 0 THEN abcd ELSE STEP(n - 1, x)[v[n - 1]]
        end == v[48]
    IN <<Add(abcd[1], end[1], 32), Add(abcd[2], end[2], 32), Add(abcd[3], end[3], 32), Add(abcd[4], end[4], 32)>>

Bodies(abcd, bytes) ==
    LET v[n \in 0..(Len(bytes) \div 64)] ==
            IF n = 0 THEN abcd ELSE body(v[n - 1], SubSeq(bytes, 64 * (n - 1) + 1, 64 * n))
    IN v[Len(bytes) \div 64]

NewContext(abcd) == [abcd |-> abcd, lo |-> 0, hi |-> 0, buffer |-> [i \in 1..64 |-> {-1}]]

MD4_Init_Rasta ==
    NewContext(<<HexWord(<<6, 7, 4, 5, 2, 3, 0, 1>>), HexWord(<<14, 15, 12, 13, 10, 11, 8, 9>>),
                 HexWord(<<9, 8, 11, 10, 13, 12, 15, 14>>), HexWord(<<1, 0, 3, 2, 5, 4, 7, 6>>)>>)

\* OpenSSL's MD4 takes no initial vector.
md4InitContext(abcd) == IF UseOpenssl THEN MD4_Init_Rasta ELSE NewContext(abcd)

\* A mutant of MD4_Update_Rasta: what was in the buffer is forgotten once it is
\* full.
MD4_Update_Rasta_Forgets(ctx, data) ==
    LET size == Len(data)
        used == ctx.lo % 64
        sum == (ctx.lo + size) % 2^29
        counted == [ctx EXCEPT !.lo = sum, !.hi = @ + (IF sum < ctx.lo THEN 1 ELSE 0) + size \div 2^29]
        rest == IF used = 0 THEN data ELSE From(data, 64 - used)
        whole == Len(rest) - (Len(rest) % 64)
    IN IF used # 0 /\ size < 64 - used
       THEN [counted EXCEPT !.buffer = Put(@, used, data)]
       ELSE [counted EXCEPT !.abcd = Bodies(ctx.abcd, SubSeq(rest, 1, whole)),
                            !.buffer = Put(@, 0, From(rest, whole))]

MD4_Update_Rasta(ctx, data) ==
    LET size == Len(data)
        used == ctx.lo % 64
        sum == (ctx.lo + size) % 2^29
        counted == [ctx EXCEPT !.lo = sum, !.hi = @ + (IF sum < ctx.lo THEN 1 ELSE 0) + size \div 2^29]
        filled == Put(ctx.buffer, used, SubSeq(data, 1, Min2(64 - used, size)))
        first == IF used = 0 THEN ctx.abcd ELSE body(ctx.abcd, filled)
        rest == IF used = 0 THEN data ELSE From(data, 64 - used)
        whole == Len(rest) - (Len(rest) % 64)
    IN IF used # 0 /\ size < 64 - used
       THEN [counted EXCEPT !.buffer = filled]
       ELSE [counted EXCEPT !.abcd = Bodies(first, SubSeq(rest, 1, whole)),
                            !.buffer = Put(IF used = 0 THEN @ ELSE filled, 0, From(rest, whole))]

\* The 16 bytes of the result.
MD4_Final_Rasta(ctx) ==
    LET used == (ctx.lo % 64) + 1
        marked == Put(ctx.buffer, used - 1, <<{7}>>)
        more == 64 - used < 8
        abcd == IF more THEN body(ctx.abcd, Put(marked, used, ZeroBytes(64 - used))) ELSE ctx.abcd
        block == IF more THEN ZeroBytes(64) ELSE Put(marked, used, ZeroBytes(64 - used))
        length == ToLe(Shl(Bits(ctx.lo), 3, 32), 4) \o ToLe(Bits(ctx.hi), 4)
        end == body(abcd, Put(block, 56, length))
    IN ToLe(end[1], 4) \o ToLe(end[2], 4) \o ToLe(end[3], 4) \o ToLe(end[4], 4)

\* type is the length of the code: none, the lower half, all of it.  The array
\* MD4code has 8 bytes for the first two and MD4_Final_Rasta writes 16: the result
\* is that of a build which rounds the size of such an array up to 16.
generateMD4WithVector(data, type, ctx) ==
    IF type = 0 THEN ZeroBytes(8) ELSE SubSeq(MD4_Final_Rasta(MD4_Update_Rasta(ctx, data)), 1, 8 * type)

generateMD4(data, type) == generateMD4WithVector(data, type, MD4_Init_Rasta)

(***************************************************************************)
(* SipHash-2-4.  ROTL is the macro for 64 bits; halfsiphash uses it on 32. *)
(***************************************************************************)
ROTL(x, b, width) == Shl(x, b, width) \cup Shr(x, 64 - b)

\* siphash and halfsiphash: bytes of a word, rotations, start
SipHash == [bytes |-> 8, shifts |-> <<13, 32, 16, 21, 17, 32>>,
            start |-> <<HexWord(<<7, 3, 6, 15, 6, 13, 6, 5, 7, 0, 7, 3, 6, 5, 7, 5>>),
                        HexWord(<<6, 4, 6, 15, 7, 2, 6, 1, 6, 14, 6, 4, 6, 15, 6, 13>>),
                        HexWord(<<6, 12, 7, 9, 6, 7, 6, 5, 6, 14, 6, 5, 7, 2, 6, 1>>),
                        HexWord(<<7, 4, 6, 5, 6, 4, 6, 2, 7, 9, 7, 4, 6, 5, 7, 3>>)>>]
HalfSipHash == [bytes |-> 4, shifts |-> <<5, 16, 8, 7, 13, 16>>,
                start |-> <<{}, {}, HexWord(<<6, 12, 7, 9, 6, 7, 6, 5>>), HexWord(<<7, 4, 6, 5, 6, 4, 6, 2>>)>>]

\* SIPROUND and SIPROUND_H, as a function of v0 to v3
SIPROUND(kind) ==
    [v \in Seq(SUBSET (0..63)) |->
        LET w == 8 * kind.bytes
            s == kind.shifts
            a0 == Add(v[1], v[2], w)
            a1 == Xor(ROTL(v[2], s[1], w), a0)
            a2 == Add(v[3], v[4], w)
            a3 == Xor(ROTL(v[4], s[3], w), a2)
            b0 == Add(ROTL(a0, s[2], w), a3, w)
            b2 == Add(a2, a1, w)
        IN <<b0, Xor(ROTL(a1, s[5], w), b2), ROTL(b2, s[6], w), Xor(ROTL(a3, s[4], w), b0)>>]

Rounds(v, n, kind) ==
    LET r[i \in 0..n] == IF i = 0 THEN v ELSE SIPROUND(kind)[r[i - 1]] IN r[n]

\* A word of the message.
Absorb(v, m, kind) ==
    LET r == Rounds([v EXCEPT ![4] = Xor(@, m)], 2, kind) IN [r EXCEPT ![1] = Xor(@, m)]

\* A mutant of SipWords: nothing is added to a message without a rest.
SipWords_NoLength(data, k) ==
    LET left == Len(data) % k
    IN IF left = 0 THEN WordsOf(data, k)
       ELSE Append(WordsOf(data, k),
                   FromLe(From(data, Len(data) - left)) \cup Shl(Bits(Len(data)), 8 * (k - 1), 8 * k))

\* The words of the message; the last one holds the bytes left and the length.
SipWords(data, k) ==
    LET left == Len(data) % k
    IN Append(WordsOf(data, k),
              FromLe(From(data, Len(data) - left)) \cup Shl(Bits(Len(data)), 8 * (k - 1), 8 * k))

\* long: twice the bytes of a word (16 of siphash, 8 of halfsiphash)
SipCode(data, key, long, kind) ==
    LET k == WordsOf(key, kind.bytes)
        ee == Bits(238)
        v == [i \in 1..4 |-> Xor(Xor(kind.start[i], k[IF i % 2 = 1 THEN 1 ELSE 2]),
                                 IF i = 2 /\ long THEN ee ELSE {})]
        words == SipWords(data, kind.bytes)
        s[n \in 0..Len(words)] == IF n = 0 THEN v ELSE Absorb(s[n - 1], words[n], kind)
        out(u) == ToLe(IF kind.bytes = 8 THEN Xor(Xor(u[1], u[2]), Xor(u[3], u[4])) ELSE Xor(u[2], u[4]), kind.bytes)
        r1 == Rounds([s[Len(words)] EXCEPT ![3] = Xor(@, IF long THEN ee ELSE 0..7)], 4, kind)
        r2 == Rounds([r1 EXCEPT ![2] = Xor(@, Bits(221))], 4, kind)
    IN IF long THEN out(r1) \o out(r2) ELSE out(r1)

generateSiphash24(data, key, hash_type) ==
    CASE hash_type = 1 -> SipCode(data, key, TRUE, HalfSipHash)
      [] hash_type = 2 -> SipCode(data, key, TRUE, SipHash)
      [] OTHER -> ZeroBytes(8)

(***************************************************************************)
(* BLAKE2b.  The counter t of the bytes stays below 2^31.                  *)
(***************************************************************************)
blake2b_iv ==
    <<HexWord(<<6, 10, 0, 9, 14, 6, 6, 7, 15, 3, 11, 12, 12, 9, 0, 8>>),
      HexWord(<<11, 11, 6, 7, 10, 14, 8, 5, 8, 4, 12, 10, 10, 7, 3, 11>>),
      HexWord(<<3, 12, 6, 14, 15, 3, 7, 2, 15, 14, 9, 4, 15, 8, 2, 11>>),
      HexWord(<<10, 5, 4, 15, 15, 5, 3, 10, 5, 15, 1, 13, 3, 6, 15, 1>>),
      HexWord(<<5, 1, 0, 14, 5, 2, 7, 15, 10, 13, 14, 6, 8, 2, 13, 1>>),
      HexWord(<<9, 11, 0, 5, 6, 8, 8, 12, 2, 11, 3, 14, 6, 12, 1, 15>>),
      HexWord(<<1, 15, 8, 3, 13, 9, 10, 11, 15, 11, 4, 1, 11, 13, 6, 11>>),
      HexWord(<<5, 11, 14, 0, 12, 13, 1, 9, 1, 3, 7, 14, 2, 1, 7, 9>>)>>

\* The words of a message the rounds take; the last two rounds are the first two.
sigma ==
    <<<<0, 1, 2, 3, 4, 5, 6, 7, 8, 9, 10, 11, 12, 13, 14, 15>>,
      <<14, 10, 4, 8, 9, 15, 13, 6, 1, 12, 0, 2, 11, 7, 5, 3>>,
      <<11, 8, 12, 0, 5, 2, 15, 13, 10, 14, 3, 6, 7, 1, 9, 4>>,
      <<7, 9, 3, 1, 13, 12, 11, 14, 2, 6, 5, 10, 4, 0, 15, 8>>,
      <<9, 0, 5, 7, 2, 4, 10, 15, 14, 1, 11, 12, 6, 8, 3, 13>>,
      <<2, 12, 6, 10, 0, 11, 8, 3, 4, 13, 7, 5, 15, 14, 1, 9>>,
      <<12, 5, 1, 15, 14, 13, 4, 10, 0, 7, 6, 3, 9, 2, 8, 11>>,
      <<13, 11, 7, 14, 12, 1, 3, 9, 5, 0, 15, 4, 8, 6, 2, 10>>,
      <<6, 15, 14, 9, 11, 3, 0, 8, 12, 2, 13, 7, 1, 4, 10, 5>>,
      <<10, 2, 8, 4, 7, 6, 1, 5, 15, 11, 9, 14, 3, 12, 13, 0>>>>

\* Half of B2B_G: <<a, b, c, d>> after mixing in x, with rotations by m and n.
MixIn(w, x, m, n) ==
    LET a == Add(Add(w[1], w[2], 64), x, 64)
        d == Rotl(Xor(w[4], a), 64 - m, 64)
        c == Add(w[3], d, 64)
    IN <<a, Rotl(Xor(w[2], c), 64 - n, 64), c, d>>

B2B_G(w, x, y) == MixIn(MixIn(w, x, 32, 24), y, 16, 63)

\* Four columns, those of row r taken s * r places further on, as rows again.
Rows(g, s) ==
    LET at(r, p) == g[((p - s * r) % 4) + 1][r + 1]
        row(r) == <<at(r, 0), at(r, 1), at(r, 2), at(r, 3)>>
    IN row(0) \o row(1) \o row(2) \o row(3)

\* Half a round: v is four rows of four words; column j takes from row r the word
\* s * r places further on.  s is 0 for the columns and 1 for the diagonals.
HalfRound(v, s, x) ==
    LET word(r, j) == v[4 * r + ((j + s * r) % 4) + 1]
        mixed(j) == B2B_G(<<word(0, j), word(1, j), word(2, j), word(3, j)>>, x[2 * j + 1], x[2 * j + 2])
    IN Rows(<<mixed(0), mixed(1), mixed(2), mixed(3)>>, s)

Round(x, y) == [v \in Seq(SUBSET (0..63)) |-> HalfRound(HalfRound(v, 0, x), 1, y)]

\* The words of the state after the rounds go into those before.
Chained(h, v) ==
    LET mix(i) == Xor(h[i], Xor(v[i], v[i + 8]))
    IN <<mix(1), mix(2), mix(3), mix(4), mix(5), mix(6), mix(7), mix(8)>>

blake2b_compress(ctx, last) ==
    LET m == WordsOf(ctx.b, 8)
        low == SubSeq(blake2b_iv, 1, 4)
        start == ctx.h \o low \o <<Xor(blake2b_iv[5], Bits(ctx.t)), blake2b_iv[6],
                                   IF last THEN (0..63) \ blake2b_iv[7] ELSE blake2b_iv[7], blake2b_iv[8]>>
        words(i, from) == [k \in 1..8 |-> m[sigma[((i - 1) % 10) + 1][from + k] + 1]]
        v[i \in 0..12] == IF i = 0 THEN start
                          ELSE Round(words(i, 0), words(i, 8))[v[i - 1]]
    IN [ctx EXCEPT !.h = Chained(@, v[12])]

\* A full buffer is compressed when another byte follows.
Flush(ctx) == [blake2b_compress([ctx EXCEPT !.t = @ + ctx.c], FALSE) EXCEPT !.c = 0]

Fill(ctx, bytes) == [ctx EXCEPT !.b = Put(@, ctx.c, bytes), !.c = @ + Len(bytes)]

\* A mutant of rasta_blake2b_update: a full buffer is compressed at once.
rasta_blake2b_update_AtOnce(ctx, in) ==
    LET size == Len(in)
        at(i) == IF i = 0 THEN 0 ELSE Min2(128 - ctx.c + 128 * (i - 1), size)
        n == IF size < 128 - ctx.c THEN 0 ELSE 1 + (size - (128 - ctx.c)) \div 128
        part[i \in 0..n] ==
            Fill(IF i = 0 THEN ctx ELSE Flush(part[i - 1]), SubSeq(in, at(i) + 1, at(i + 1)))
    IN part[n]

rasta_blake2b_update(ctx, in) ==
    LET size == Len(in)
        at(i) == IF i = 0 THEN 0 ELSE Min2(128 - ctx.c + 128 * (i - 1), size)
        n == IF size <= 128 - ctx.c THEN 0 ELSE 1 + (size - (128 - ctx.c) - 1) \div 128
        part[i \in 0..n] ==
            Fill(IF i = 0 THEN ctx ELSE Flush(part[i - 1]), SubSeq(in, at(i) + 1, at(i + 1)))
    IN part[n]

\* outlen is positive here; the key is no longer than 64 bytes.
rasta_blake2b_init(outlen, key) ==
    LET parameters == Xor(HexWord(<<0, 1, 0, 1, 0, 0, 0, 0>>), Xor(Shl(Bits(Len(key)), 8, 64), Bits(outlen)))
        ctx == [h |-> [blake2b_iv EXCEPT ![1] = Xor(@, parameters)], t |-> 0, c |-> 0, outlen |-> outlen,
                b |-> [i \in 1..128 |-> IF i <= Len(key) THEN {-1} ELSE {}]]
    IN IF key = <<>> THEN ctx ELSE [rasta_blake2b_update(ctx, key) EXCEPT !.c = 128]

rasta_blake2b_final(ctx) ==
    LET whole == [ctx EXCEPT !.t = @ + ctx.c, !.b = Put(@, ctx.c, ZeroBytes(128 - ctx.c))]
        h == blake2b_compress(whole, TRUE).h
    IN [i \in 1..ctx.outlen |-> ToLe(h[((i - 1) \div 8) + 1], 8)[((i - 1) % 8) + 1]]

\* A key that is too long leaves the result as it was.
generateBlake2(data, key, hash_type) ==
    IF hash_type = 0 THEN ZeroBytes(8)
    ELSE IF Len(key) > 64 THEN [i \in 1..(8 * hash_type) |-> {-1}]
    ELSE rasta_blake2b_final(rasta_blake2b_update(rasta_blake2b_init(8 * hash_type, key), data))

(***************************************************************************)
(* rastahashing.c.  A context is [algorithm, hash_length, key, behind]:    *)
(* behind is what the memory behind the bytes of the key holds.            *)
(***************************************************************************)
rasta_md4_set_key(context, abcd) ==
    [context EXCEPT !.key = ToLe(abcd[1], 4) \o ToLe(abcd[2], 4) \o ToLe(abcd[3], 4) \o ToLe(abcd[4], 4)]

\* The bytes of sr_hash_key, the most significant one first.
set_sr_hash_key(context, sr_hash_key) == [context EXCEPT !.key = Reverse(ToLe(sr_hash_key, 4))]

\* MD4, siphash and halfsiphash read 16, 16 and 8 bytes whatever the key's length.
Memory(context) == context.key \o context.behind

rasta_get_md4_ctx_from_key(context) == md4InitContext(WordsOf(SubSeq(Memory(context), 1, 16), 4))

\* The program aborts when there is no key.
NoCode == <<>>

\* A mutant of rasta_calculate_hash: BLAKE2b without the key.
rasta_calculate_hash_Keyless(data, context) ==
    CASE context.algorithm = "BLAKE2B" -> generateBlake2(data, <<>>, context.hash_length)
      [] context.algorithm = "SIPHASH_2_4" ->
           generateSiphash24(data, Memory(context), context.hash_length)
      [] OTHER -> generateMD4WithVector(data, context.hash_length, rasta_get_md4_ctx_from_key(context))

rasta_calculate_hash(data, context) ==
    IF context.key = <<>> THEN NoCode
    ELSE CASE context.algorithm = "BLAKE2B" -> generateBlake2(data, context.key, context.hash_length)
           [] context.algorithm = "SIPHASH_2_4" ->
                generateSiphash24(data, Memory(context), context.hash_length)
           [] OTHER -> generateMD4WithVector(data, context.hash_length, rasta_get_md4_ctx_from_key(context))
=============================================================================

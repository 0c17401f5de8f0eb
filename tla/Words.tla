------------------------------- MODULE Words -------------------------------
(***************************************************************************)
(* The unsigned integers of C, as the sets of their bits that are 1: bit 0 *)
(* is the least significant one.  A byte is a subset of 0..7.  Operators   *)
(* that can grow a number take its width.                                  *)
(***************************************************************************)
EXTENDS Integers, Sequences, Folds, FiniteSetsExt, SequencesExt

Xor(a, b) == (a \ b) \cup (b \ a)

Shl(a, n, width) == {i + n : i \in a} \cap 0..(width - 1)
Shr(a, n) == {i - n : i \in {j \in a : j >= n}}
Rotl(a, n, width) == {(i + n) % width : i \in a}

\* Where both bits are 1 there is a carry to the next place, to be added in turn.
RECURSIVE Add(_, _, _)
Add(a, b, width) ==
    IF a \cap b = {} THEN a \cup b
    ELSE Add(Xor(a, b), Shl(a \cap b, 1, width), width)

\* A number below 2^31, and the number of a set of bits below 31.
Bits(n) == {i \in 0..30 : (n \div 2^i) % 2 = 1}
Value(a) == SumSet({2^i : i \in a})

\* A constant, from its hexadecimal digits.
HexWord(digits) ==
    UNION {{4 * (Len(digits) - k) + i : i \in Bits(digits[k])} : k \in DOMAIN digits}

\* k bytes, least significant first (hostShortTole, hostLongToLe and the macros of
\* the hash functions), and the number bytes stand for.
ToLe(a, k) == [i \in 1..k |-> {b - 8 * (i - 1) : b \in a \cap (8 * (i - 1))..(8 * i - 1)}]
FromLe(bytes) == UNION {{b + 8 * (i - 1) : b \in bytes[i]} : i \in DOMAIN bytes}

\* Words of k bytes each.
WordsOf(bytes, k) ==
    [w \in 1..(Len(bytes) \div k) |-> FromLe(SubSeq(bytes, k * (w - 1) + 1, k * w))]

ZeroBytes(n) == [i \in 1..n |-> {}]
=============================================================================

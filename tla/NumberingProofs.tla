-------------------------- MODULE NumberingProofs --------------------------
(***************************************************************************)
(* The numbers of one direction of a connection form a chain: what an end  *)
(* has seen confirmed, what the PDUs on their way to it confirm, what the  *)
(* peer has taken, what is on its way to the peer, and the next number.    *)
(* Every operation of a handler keeps the chain, unless the number of the  *)
(* end wraps around; so does every step of an established connection.      *)
(* ConfirmationProofs shows how a connection gets there.                   *)
(***************************************************************************)
EXTENDS SafetyRetransmissionProofs

Counted(p) == p.type # "DISCREQ"

\* PDUs that were sent one after the other
InOrder(s) ==
  \A i, j \in 1..Len(s) : i < j =>
    /\ s[i].cs <= s[j].cs
    /\ s[i].sn <= s[j].sn
    /\ Counted(s[i]) => s[i].sn < s[j].sn

\* a PDU of an open connection as it was sent
Plain(p) ==
  /\ p.to = TRUE /\ p.sum = TRUE
  /\ p.type \notin {"CONNREQ", "CONNRESP"}

\* the PDUs s, sent one after the other, have numbers from sn on and below
\* sn_t, the next number, and confirm numbers from cs to cs_t
Between(s, sn, sn_t, cs, cs_t) ==
  /\ InOrder(s)
  /\ sn <= sn_t /\ cs <= cs_t
  /\ \A i \in 1..Len(s) :
       /\ Plain(s[i])
       /\ sn <= s[i].sn /\ s[i].sn <= sn_t
       /\ Counted(s[i]) => s[i].sn < sn_t
       /\ cs <= s[i].cs /\ s[i].cs <= cs_t

-----------------------------------------------------------------------------
(* Sequences of PDUs.                                                      *)

(* What follows in these proofs of the types.                              *)
LEMMA SnInt ==
  /\ SnMod \in Nat \ {0}
  /\ \A n \in Sn : n \in Int /\ 0 <= n /\ n < SnMod
  BY SnAssumption DEF Sn

(* The fields of a PDU.                                                    *)
LEMMA PduFields ==
  ASSUME NEW p \in Pdu
  PROVE  p.sn \in Int /\ p.cs \in Int /\ p.sn \in Sn /\ p.cs \in Sn
  BY SnInt DEF Pdu

(* One more PDU, with the next number.                                     *)
LEMMA AppendBetween ==
  ASSUME NEW s \in Seq(Pdu), NEW sn \in Int, NEW sn_t \in Int, NEW cs \in Int, NEW cs_t \in Int,
         Between(s, sn, sn_t, cs, cs_t), NEW q \in Pdu, Plain(q), q.sn = sn_t, q.cs = cs_t,
         NEW m \in Int, m = sn_t + 1 \/ (m = sn_t /\ ~Counted(q))
  PROVE  Between(Append(s, q), sn, m, cs, cs_t)
<1> DEFINE t == Append(s, q)
<1>1. /\ Len(s) \in Nat /\ Len(t) = Len(s) + 1 /\ t[Len(s) + 1] = q
      /\ \A i \in 1..Len(s) : t[i] = s[i] /\ s[i] \in Pdu
  BY AppendProperties
<1> HIDE DEF t
<1>2. ASSUME NEW i \in 1..Len(t)
      PROVE  /\ Plain(t[i]) /\ t[i].sn \in Int /\ t[i].cs \in Int
             /\ sn <= t[i].sn /\ t[i].sn <= m
             /\ Counted(t[i]) => t[i].sn < m
             /\ cs <= t[i].cs /\ t[i].cs <= cs_t
  <2>1. CASE i \in 1..Len(s)
    <3>1. t[i] = s[i] /\ s[i].sn \in Int /\ s[i].cs \in Int
      BY <1>1, <2>1, PduFields
    <3>2. /\ Plain(s[i]) /\ sn <= s[i].sn /\ s[i].sn <= sn_t
          /\ Counted(s[i]) => s[i].sn < sn_t
          /\ cs <= s[i].cs /\ s[i].cs <= cs_t
      BY <2>1 DEF Between
    <3> QED BY <3>1, <3>2
  <2>2. CASE i = Len(s) + 1
    <3>1. t[i] = q /\ q.sn \in Int /\ q.cs \in Int /\ sn <= sn_t /\ cs <= cs_t
      BY <1>1, <2>2, PduFields DEF Between
    <3> QED BY <3>1
  <2> QED BY <1>1, <2>1, <2>2
<1>3. ASSUME NEW i \in 1..Len(t), NEW j \in 1..Len(t), i < j
      PROVE  /\ t[i].cs <= t[j].cs /\ t[i].sn <= t[j].sn
             /\ Counted(t[i]) => t[i].sn < t[j].sn
  <2>1. i \in 1..Len(s) /\ t[i] = s[i]
    BY <1>1, <1>3
  <2>2. CASE j \in 1..Len(s)
    BY <1>1, <1>3, <2>1, <2>2 DEF Between, InOrder
  <2>3. CASE j = Len(s) + 1
    <3>1. t[j] = q /\ t[j].sn = sn_t /\ t[j].cs = cs_t
      BY <1>1, <2>3
    <3> QED BY <2>1, <3>1 DEF Between
  <2> QED BY <1>1, <2>2, <2>3
<1>4. sn <= m /\ cs <= cs_t
  BY DEF Between
<1>5. Between(t, sn, m, cs, cs_t)
  BY <1>2, <1>3, <1>4, Zenon DEF Between, InOrder
<1> QED BY <1>5 DEF t

(* The sender may be further on.                                           *)
LEMMA WidenBetween ==
  ASSUME NEW s \in Seq(Pdu), NEW sn \in Int, NEW sn_t \in Int, NEW cs \in Int, NEW cs_t \in Int,
         Between(s, sn, sn_t, cs, cs_t),
         NEW m \in Int, sn_t <= m, NEW k \in Int, cs_t <= k
  PROVE  Between(s, sn, m, cs, k)
<1>1. ASSUME NEW i \in 1..Len(s)
      PROVE  /\ Plain(s[i])
             /\ sn <= s[i].sn /\ s[i].sn <= m
             /\ Counted(s[i]) => s[i].sn < m
             /\ cs <= s[i].cs /\ s[i].cs <= k
  <2>1. s[i] \in Pdu
    BY ElementOfSeq
  <2>2. s[i].sn \in Int /\ s[i].cs \in Int
    BY <2>1, PduFields
  <2> QED BY <2>2 DEF Between
<1>2. sn <= m /\ cs <= k /\ InOrder(s)
  BY DEF Between
<1> QED BY <1>1, <1>2, Zenon DEF Between

(* The receiver may have known less.                                       *)
LEMMA MixBetween ==
  ASSUME NEW s \in Seq(Pdu), NEW sn \in Int, NEW sn_t \in Int, NEW cs \in Int, NEW cs_t \in Int,
         NEW m \in Int, NEW k \in Int,
         Between(s, sn, sn_t, cs, cs_t), Between(s, m, sn_t, k, cs_t)
  PROVE  Between(s, sn, sn_t, k, cs_t) /\ Between(s, m, sn_t, cs, cs_t)
  BY Zenon DEF Between

(* What follows the first of several PDUs.                                 *)
LEMMA TailBetween ==
  ASSUME NEW s \in Seq(Pdu), NEW sn \in Int, NEW sn_t \in Int, NEW cs \in Int, NEW cs_t \in Int,
         Between(s, sn, sn_t, cs, cs_t), s # << >>
  PROVE  /\ Plain(Head(s)) /\ sn <= Head(s).sn /\ cs <= Head(s).cs
         /\ Between(Tail(s), sn, sn_t, cs, cs_t)
         /\ Counted(Head(s)) => Between(Tail(s), Head(s).sn + 1, sn_t, Head(s).cs, cs_t)
<1> DEFINE t == Tail(s)
           h == Head(s)
<1>1. /\ Len(s) \in Nat \ {0} /\ Len(t) = Len(s) - 1 /\ h = s[1]
      /\ \A i \in 1..(Len(s) - 1) : t[i] = s[i + 1]
  BY HeadTailProperties
<1>2. h \in Pdu /\ h.sn \in Int /\ h.cs \in Int
  BY <1>1, PduFields
<1> HIDE DEF t, h
<1>3. /\ Plain(h) /\ sn <= h.sn /\ h.sn <= sn_t /\ cs <= h.cs /\ h.cs <= cs_t
      /\ Counted(h) => h.sn < sn_t
  BY <1>1 DEF Between
<1>4. ASSUME NEW i \in 1..Len(t)
      PROVE  /\ Plain(t[i]) /\ t[i].sn \in Int /\ t[i].cs \in Int
             /\ sn <= t[i].sn /\ t[i].sn <= sn_t
             /\ Counted(t[i]) => t[i].sn < sn_t
             /\ cs <= t[i].cs /\ t[i].cs <= cs_t
             /\ h.cs <= t[i].cs /\ (Counted(h) => h.sn < t[i].sn)
  <2>1. i + 1 \in 1..Len(s) /\ t[i] = s[i + 1] /\ 1 \in 1..Len(s) /\ 1 < i + 1
    BY <1>1
  <2>2. s[i + 1] \in Pdu
    BY <2>1, ElementOfSeq
  <2>3. s[i + 1].sn \in Int /\ s[i + 1].cs \in Int
    BY <2>2, PduFields
  <2>4. h.cs <= s[i + 1].cs /\ (Counted(h) => h.sn < s[i + 1].sn)
    BY <1>1, <2>1 DEF Between, InOrder
  <2>5. /\ Plain(s[i + 1]) /\ sn <= s[i + 1].sn /\ s[i + 1].sn <= sn_t
        /\ Counted(s[i + 1]) => s[i + 1].sn < sn_t
        /\ cs <= s[i + 1].cs /\ s[i + 1].cs <= cs_t
    BY <2>1 DEF Between
  <2> QED BY <2>1, <2>3, <2>4, <2>5
<1>5. InOrder(t)
  <2>1. ASSUME NEW i \in 1..Len(t), NEW j \in 1..Len(t), i < j
        PROVE  /\ t[i].cs <= t[j].cs /\ t[i].sn <= t[j].sn
               /\ Counted(t[i]) => t[i].sn < t[j].sn
    <3>1. /\ i + 1 \in 1..Len(s) /\ t[i] = s[i + 1] /\ j + 1 \in 1..Len(s) /\ t[j] = s[j + 1]
          /\ i + 1 < j + 1
      BY <1>1, <2>1
    <3> QED BY <3>1 DEF Between, InOrder
  <2> QED BY <2>1 DEF InOrder
<1>6. Between(t, sn, sn_t, cs, cs_t)
  <2>1. sn <= sn_t /\ cs <= cs_t
    BY DEF Between
  <2> QED BY <1>4, <1>5, <2>1, Zenon DEF Between
<1>7. ASSUME Counted(h) PROVE Between(t, h.sn + 1, sn_t, h.cs, cs_t)
  <2>1. h.sn + 1 <= sn_t /\ h.cs <= cs_t
    BY <1>2, <1>3, <1>7
  <2>2. \A i \in 1..Len(t) : h.sn + 1 <= t[i].sn /\ h.cs <= t[i].cs
    BY <1>2, <1>4, <1>7
  <2> QED BY <1>4, <1>5, <2>1, <2>2, Zenon DEF Between
<1> QED BY <1>3, <1>6, <1>7 DEF t, h

(* Several PDUs with the next numbers, as sr_retransmit_data sends them.   *)
LEMMA ConcatBetween ==
  ASSUME NEW s \in Seq(Pdu), NEW sn \in Int, NEW sn_t \in Int, NEW cs \in Int, NEW cs_t \in Int,
         Between(s, sn, sn_t, cs, cs_t), NEW q \in Seq(Pdu),
         \A i \in 1..Len(q) : Plain(q[i]) /\ q[i].sn = sn_t + i - 1 /\ q[i].cs = cs_t
  PROVE  Between(s \o q, sn, sn_t + Len(q), cs, cs_t)
<1> DEFINE t == s \o q
           m == sn_t + Len(q)
<1>1. /\ Len(s) \in Nat /\ Len(q) \in Nat /\ Len(t) = Len(s) + Len(q)
      /\ \A i \in 1..Len(t) : t[i] = IF i <= Len(s) THEN s[i] ELSE q[i - Len(s)]
  BY ConcatProperties
<1>2. m \in Int /\ sn_t <= m
  BY <1>1
<1> HIDE DEF t
<1>3. ASSUME NEW i \in 1..Len(t)
      PROVE  \/ i \in 1..Len(s) /\ t[i] = s[i] /\ s[i] \in Pdu
             \/ i - Len(s) \in 1..Len(q) /\ t[i] = q[i - Len(s)] /\ t[i].sn = sn_t + (i - Len(s)) - 1
                  /\ t[i].cs = cs_t /\ Plain(t[i])
  <2>1. CASE i <= Len(s)
    BY <1>1, <2>1
  <2>2. CASE ~(i <= Len(s))
    <3>1. i - Len(s) \in 1..Len(q) /\ t[i] = q[i - Len(s)]
      BY <1>1, <2>2
    <3> QED BY <3>1
  <2> QED BY <2>1, <2>2
<1>4. ASSUME NEW i \in 1..Len(t)
      PROVE  /\ Plain(t[i]) /\ t[i].sn \in Int /\ t[i].cs \in Int
             /\ sn <= t[i].sn /\ t[i].sn <= m
             /\ Counted(t[i]) => t[i].sn < m
             /\ cs <= t[i].cs /\ t[i].cs <= cs_t
  <2>0. sn <= sn_t /\ cs <= cs_t
    BY DEF Between
  <2>1. CASE i \in 1..Len(s) /\ t[i] = s[i] /\ s[i] \in Pdu
    <3>1. s[i].sn \in Int /\ s[i].cs \in Int
      BY <2>1, PduFields
    <3>2. /\ Plain(s[i]) /\ sn <= s[i].sn /\ s[i].sn <= sn_t
          /\ Counted(s[i]) => s[i].sn < sn_t
          /\ cs <= s[i].cs /\ s[i].cs <= cs_t
      BY <2>1 DEF Between
    <3> HIDE DEF m
    <3> QED BY <1>2, <2>1, <3>1, <3>2
  <2>2. CASE /\ i - Len(s) \in 1..Len(q) /\ t[i].sn = sn_t + (i - Len(s)) - 1
             /\ t[i].cs = cs_t /\ Plain(t[i])
    <3>1. t[i].sn \in Int /\ sn_t <= t[i].sn /\ t[i].sn < m
      BY <1>1, <2>2
    <3> HIDE DEF m
    <3> QED BY <1>2, <2>0, <2>2, <3>1
  <2> QED BY <1>3, <2>1, <2>2
<1>5. ASSUME NEW i \in 1..Len(t), NEW j \in 1..Len(t), i < j
      PROVE  /\ t[i].cs <= t[j].cs /\ t[i].sn <= t[j].sn
             /\ Counted(t[i]) => t[i].sn < t[j].sn
  <2>1. CASE j \in 1..Len(s)
    <3>1. i \in 1..Len(s) /\ t[i] = s[i] /\ t[j] = s[j]
      BY <1>1, <1>5, <2>1
    <3> QED BY <1>5, <2>1, <3>1 DEF Between, InOrder
  <2>2. CASE j \notin 1..Len(s)
    <3>1. t[j].sn = sn_t + (j - Len(s)) - 1 /\ t[j].cs = cs_t /\ j > Len(s)
      BY <1>1, <1>3, <2>2
    <3>2. CASE i \in 1..Len(s)
      <4>1. t[i].sn <= sn_t /\ (Counted(t[i]) => t[i].sn < sn_t) /\ t[i].cs <= cs_t
        BY <1>1, <1>5, <3>2 DEF Between
      <4>2. sn_t <= t[j].sn
        BY <1>1, <3>1
      <4> QED BY <1>4, <3>1, <4>1, <4>2
    <3>3. CASE i \notin 1..Len(s)
      <4>1. t[i].sn = sn_t + (i - Len(s)) - 1 /\ t[i].cs = cs_t
        BY <1>3, <3>3
      <4> QED BY <1>1, <1>5, <3>1, <4>1
    <3> QED BY <3>2, <3>3
  <2> QED BY <2>1, <2>2
<1>6. sn <= m /\ cs <= cs_t
  BY <1>2 DEF Between
<1> HIDE DEF m
<1>7. Between(t, sn, m, cs, cs_t)
  BY <1>4, <1>5, <1>6, Zenon DEF Between, InOrder
<1> QED BY <1>7 DEF t, m

-----------------------------------------------------------------------------
(* What a handler does to the numbers, one operation after the other.      *)

\* What end e, whose handler is at work, sees: the connection of its peer,
\* the PDUs under way to e and to the peer, and the PDU it handles, if any.
\* What is under way to e comes after that PDU.
View(w) ==
  /\ w.peer \in Connection
  /\ w.in \in Seq(Pdu) /\ w.out \in Seq(Pdu)
  /\ w.taken \subseteq Pdu /\ \A p, q \in w.taken : p = q
  /\ \A p \in w.taken :
       Between(w.in, p.sn + 1, w.peer.sn_t, p.cs, w.peer.cs_t)

\* the numbers of a connection, with the PDUs in c.out as good as sent
Chain(c, w) ==
  /\ c.sn_r = c.cs_t + 1
  /\ \A p \in w.taken : c.cs_t <= p.sn
  /\ Between(w.in, c.sn_r, w.peer.sn_t, c.cs_r, w.peer.cs_t)
  /\ Between(w.out \o c.out, w.peer.sn_r, c.sn_t, w.peer.cs_r, c.cs_t)

\* since the number was b, at most n PDUs were sent; the chain holds unless
\* the number has wrapped around
Sent(b, n, c, w) ==
  /\ Bounded(c)
  /\ \/ c.sn_t + SnMod <= b + n
     \/ b <= c.sn_t /\ c.sn_t <= b + n /\ Chain(c, w)

(* The numbers of a connection are integers within their width.            *)
LEMMA ConnectionFields ==
  ASSUME NEW c \in Connection
  PROVE  /\ c.sn_t \in Int /\ 0 <= c.sn_t /\ c.sn_t < SnMod
         /\ c.sn_r \in Int /\ c.cs_t \in Int /\ c.cs_r \in Int
         /\ c.sn_r \in Sn /\ c.cs_t \in Sn /\ c.cs_r \in Sn /\ c.sn_t \in Sn
         /\ c.out \in Seq(Pdu)
<1>1. c.sn_t \in Sn /\ c.sn_r \in Sn /\ c.cs_t \in Sn /\ c.cs_r \in Sn /\ c.out \in Seq(Pdu)
  BY DEF Connection
<1> QED BY <1>1, SnInt

(* Operations on other fields.                                             *)
LEMMA SentFrame ==
  ASSUME NEW b, NEW n, NEW c, NEW w, Sent(b, n, c, w), NEW d, Bounded(d),
         d.sn_t = c.sn_t, d.sn_r = c.sn_r, d.cs_t = c.cs_t, d.cs_r = c.cs_r, d.out = c.out
  PROVE  Sent(b, n, d, w)
  BY Zenon DEF Sent, Chain

(* The bound may be larger.                                                *)
LEMMA SentMore ==
  ASSUME NEW b \in Int, NEW n \in Int, NEW c, NEW w, Sent(b, n, c, w), NEW m \in Int, n <= m
  PROVE  Sent(b, m, c, w)
<1>1. c.sn_t \in Int
  BY ConnectionFields DEF Sent, Bounded
<1> QED BY <1>1, SnInt DEF Sent

(* The two kinds of PDUs that messages.c sends.                            *)
LEMMA EmitFields ==
  ASSUME NEW c \in Connection, NEW type, NEW data
  PROVE  LET q == [type |-> type, sn |-> c.sn_t, cs |-> c.cs_t, data |-> data, to |-> TRUE, sum |-> TRUE]
             d == Emit(c, type, data)
             x == EmitAndCount(c, type, data)
         IN /\ d.out = Append(c.out, q) /\ x.out = Append(c.out, q)
            /\ d.sn_t = c.sn_t /\ x.sn_t = (c.sn_t + 1) % SnMod
            /\ d.sn_r = c.sn_r /\ x.sn_r = c.sn_r /\ d.cs_t = c.cs_t /\ x.cs_t = c.cs_t
            /\ d.cs_r = c.cs_r /\ x.cs_r = c.cs_r
  BY DEF Emit, EmitAndCount, Connection

(* A PDU is appended to what is under way.                                 *)
LEMMA AppendToLink ==
  ASSUME NEW s \in Seq(Pdu), NEW t \in Seq(Pdu), NEW q \in Pdu
  PROVE  s \o Append(t, q) = Append(s \o t, q)
<1>1. Append(t, q) = t \o << q >> /\ << q >> \in Seq(Pdu)
  BY AppendIsConcat
<1>2. s \o t \in Seq(Pdu)
  BY ConcatProperties
<1>3. Append(s \o t, q) = (s \o t) \o << q >>
  BY <1>2, AppendIsConcat
<1> QED BY <1>1, <1>3, ConcatAssociative

(* Several PDUs are appended.                                              *)
LEMMA LinkAssociative ==
  ASSUME NEW s \in Seq(Pdu), NEW t \in Seq(Pdu), NEW u \in Seq(Pdu)
  PROVE  s \o (t \o u) = (s \o t) \o u
  BY ConcatAssociative

(* Sending a Disconnection Request, which takes no number.                 *)
LEMMA EmitSent ==
  ASSUME NEW b \in Int, NEW n \in Int, NEW c, NEW w, View(w), Sent(b, n, c, w)
  PROVE  Sent(b, n, sendDisconnectionRequest(c), w)
<1> DEFINE q == [type |-> "DISCREQ", sn |-> c.sn_t, cs |-> c.cs_t, data |-> << >>, to |-> TRUE, sum |-> TRUE]
           d == Emit(c, "DISCREQ", << >>)
<1>1. c \in Connection /\ Bounded(c) /\ c.out \in Seq(Pdu) /\ c.sn_t \in Int /\ c.cs_t \in Int
  BY ConnectionFields DEF Sent, Bounded
<1>2. Bounded(d)
  BY <1>1, EmitBounded, EmptyData, Zenon DEF Type
<1>3. /\ d.out = Append(c.out, q) /\ d.sn_t = c.sn_t /\ d.sn_r = c.sn_r /\ d.cs_t = c.cs_t
      /\ d.cs_r = c.cs_r
  BY <1>1, EmitFields
<1>4. q \in Pdu /\ Plain(q) /\ ~Counted(q) /\ q.sn = c.sn_t /\ q.cs = c.cs_t
  BY <1>1, EmptyData DEF Pdu, Type, Connection, Plain, Counted
<1> HIDE DEF q, d
<1>5. ASSUME Chain(c, w) PROVE Chain(d, w)
  <2>1. /\ w.peer.sn_r \in Int /\ w.peer.cs_r \in Int /\ w.out \in Seq(Pdu)
        /\ w.out \o c.out \in Seq(Pdu)
    BY <1>1, ConnectionFields, ConcatProperties DEF View
  <2>2. Between(w.out \o c.out, w.peer.sn_r, c.sn_t, w.peer.cs_r, c.cs_t)
    BY <1>5 DEF Chain
  <2>3. Between(Append(w.out \o c.out, q), w.peer.sn_r, c.sn_t, w.peer.cs_r, c.cs_t)
    BY <1>1, <1>4, <2>1, <2>2, AppendBetween, Zenon
  <2>4. w.out \o d.out = Append(w.out \o c.out, q)
    BY <1>1, <1>3, <1>4, <2>1, AppendToLink, Zenon
  <2> QED BY <1>3, <1>5, <2>3, <2>4, Zenon DEF Chain
<1>6. Sent(b, n, d, w)
  BY <1>2, <1>3, <1>5, Zenon DEF Sent
<1> QED BY <1>6 DEF d, sendDisconnectionRequest

(* The next number, and whether it has wrapped around.                     *)
LEMMA CountOn ==
  ASSUME NEW b \in Int, b < SnMod, NEW n \in Nat, NEW x \in Sn, NEW k \in Nat, n + k < SnMod
  PROVE  /\ x + SnMod <= b + n => ((x + k) % SnMod) + SnMod <= b + n + k
         /\ b <= x /\ x <= b + n =>
              \/ ((x + k) % SnMod) + SnMod <= b + n + k
              \/ (x + k) % SnMod = x + k /\ b <= x + k /\ x + k <= b + n + k
<1>1. SnMod \in Nat \ {0} /\ x \in Int /\ 0 <= x /\ x < SnMod
  BY SnInt
<1>2. ASSUME x + k < SnMod PROVE (x + k) % SnMod = x + k
  BY <1>1, <1>2
<1>3. ASSUME SnMod <= x + k PROVE (x + k) % SnMod = x + k - SnMod
  <2>1. x + k = SnMod + (x + k - SnMod) /\ 0 <= x + k - SnMod /\ x + k - SnMod < SnMod
    BY <1>1, <1>3
  <2> QED BY <1>1, <1>3, <2>1
<1>4. x + k < SnMod \/ SnMod <= x + k
  BY <1>1
<1> QED BY <1>1, <1>2, <1>3, <1>4

(* Sending any other PDU of an open connection.                            *)
LEMMA CountSent ==
  ASSUME NEW b \in Int, b < SnMod, NEW n \in Nat, n + 1 < SnMod, NEW c, NEW w, View(w), Sent(b, n, c, w),
         NEW type \in Type \ {"CONNREQ", "CONNRESP", "DISCREQ"}, NEW data \in Seq(Message)
  PROVE  Sent(b, n + 1, EmitAndCount(c, type, data), w)
<1> DEFINE q == [type |-> type, sn |-> c.sn_t, cs |-> c.cs_t, data |-> data, to |-> TRUE, sum |-> TRUE]
           d == EmitAndCount(c, type, data)
<1>1. /\ c \in Connection /\ Bounded(c) /\ c.out \in Seq(Pdu) /\ c.sn_t \in Int /\ c.cs_t \in Int
      /\ c.sn_t \in Sn
  BY ConnectionFields DEF Sent, Bounded
<1>2. Bounded(d)
  BY <1>1, CountBounded, Zenon
<1>3. /\ d.out = Append(c.out, q) /\ d.sn_t = (c.sn_t + 1) % SnMod /\ d.sn_r = c.sn_r
      /\ d.cs_t = c.cs_t /\ d.cs_r = c.cs_r
  BY <1>1, EmitFields
<1>4. q \in Pdu /\ Plain(q) /\ q.sn = c.sn_t /\ q.cs = c.cs_t
  BY <1>1 DEF Pdu, Connection, Plain
<1> HIDE DEF q, d
<1>5. ASSUME Chain(c, w), d.sn_t = c.sn_t + 1 PROVE Chain(d, w)
  <2>1. /\ w.peer.sn_r \in Int /\ w.peer.cs_r \in Int /\ w.out \in Seq(Pdu)
        /\ w.out \o c.out \in Seq(Pdu)
    BY <1>1, ConnectionFields, ConcatProperties DEF View
  <2>2. Between(w.out \o c.out, w.peer.sn_r, c.sn_t, w.peer.cs_r, c.cs_t)
    BY <1>5 DEF Chain
  <2> DEFINE m == c.sn_t + 1
  <2>0. m \in Int /\ m = c.sn_t + 1
    BY <1>1
  <2> HIDE DEF m
  <2>3. Between(Append(w.out \o c.out, q), w.peer.sn_r, m, w.peer.cs_r, c.cs_t)
    BY <1>1, <1>4, <2>0, <2>1, <2>2, AppendBetween, Zenon
  <2>4. w.out \o d.out = Append(w.out \o c.out, q)
    BY <1>1, <1>3, <1>4, <2>1, AppendToLink, ZenonT(40)
  <2> QED BY <1>3, <1>5, <2>0, <2>3, <2>4, Zenon DEF Chain
<1>6. /\ c.sn_t + SnMod <= b + n => d.sn_t + SnMod <= b + n + 1
      /\ b <= c.sn_t /\ c.sn_t <= b + n =>
              \/ d.sn_t + SnMod <= b + n + 1
              \/ d.sn_t = c.sn_t + 1 /\ b <= d.sn_t /\ d.sn_t <= b + n + 1
  BY <1>1, <1>3, CountOn, Zenon
<1>7. b + (n + 1) = b + n + 1
  OBVIOUS
<1>8. Sent(b, n + 1, d, w)
  BY <1>2, <1>5, <1>6, <1>7, Zenon DEF Sent
<1> QED BY <1>8 DEF d

(* The PDUs of messages.c that take a number and carry no messages.        *)
LEMMA SendsSent ==
  ASSUME NEW b \in Int, b < SnMod, NEW n \in Nat, n + 1 < SnMod, NEW c, NEW w, View(w), Sent(b, n, c, w)
  PROVE  /\ Sent(b, n + 1, sendHeartbeat(c), w)
         /\ Sent(b, n + 1, sendRetransmissionRequest(c), w)
         /\ Sent(b, n + 1, sendRetransmissionResponse(c), w)
<1>1. {"HB", "RETRREQ", "RETRRESP"} \subseteq Type \ {"CONNREQ", "CONNRESP", "DISCREQ"}
  BY DEF Type
<1> QED BY <1>1, CountSent, EmptyData, Zenon
    DEF sendHeartbeat, sendRetransmissionRequest, sendRetransmissionResponse

(* Operations that leave the numbers and what is to be sent alone.         *)
LEMMA FieldsSent ==
  ASSUME NEW b, NEW n, NEW c, NEW w, Sent(b, n, c, w)
  PROVE  /\ Sent(b, n, sr_reset_connection(c), w)
         /\ Sent(b, n, Break(c), w)
         /\ \A s \in State : Sent(b, n, [c EXCEPT !.state = s], w)
         /\ Sent(b, n, [c EXCEPT !.state = "UP", !.hb_locked = FALSE, !.is_new = TRUE,
                                 !.heartbeat_on = TRUE, !.timeout_on = TRUE], w)
         /\ Sent(b, n, [c EXCEPT !.heartbeat_on = FALSE, !.timeout_on = FALSE], w)
         /\ Sent(b, n, [c EXCEPT !.brk = FALSE], w)
         /\ Sent(b, n, [c EXCEPT !.brk = FALSE, !.is_new = FALSE], w)
         /\ c.fifo_recv # << >> => Sent(b, n, [c EXCEPT !.fifo_recv = Tail(@), !.brk = FALSE], w)
<1>1. Bounded(c) /\ c \in Connection
  BY DEF Sent, Bounded
<1>2. Sent(b, n, sr_reset_connection(c), w)
  <2>1. Bounded(sr_reset_connection(c))
    BY <1>1, CloseBounded
  <2> DEFINE d == sr_reset_connection(c)
  <2>2. d.sn_t = c.sn_t /\ d.sn_r = c.sn_r /\ d.cs_t = c.cs_t /\ d.cs_r = c.cs_r /\ d.out = c.out
    BY <1>1 DEF Connection, sr_reset_connection
  <2> QED BY <2>1, <2>2, SentFrame, Zenon
<1>3. Sent(b, n, Break(c), w)
  <2> DEFINE d == Break(c)
  <2>1. Bounded(d)
    BY <1>1, BreakBounded
  <2>2. d.sn_t = c.sn_t /\ d.sn_r = c.sn_r /\ d.cs_t = c.cs_t /\ d.cs_r = c.cs_r /\ d.out = c.out
    BY <1>1 DEF Connection, Break
  <2> QED BY <2>1, <2>2, SentFrame, Zenon
<1>4. ASSUME NEW s \in State PROVE Sent(b, n, [c EXCEPT !.state = s], w)
  <2> DEFINE d == [c EXCEPT !.state = s]
  <2>1. Bounded(d)
    BY <1>1, StateBounded, Zenon
  <2>2. d.sn_t = c.sn_t /\ d.sn_r = c.sn_r /\ d.cs_t = c.cs_t /\ d.cs_r = c.cs_r /\ d.out = c.out
    BY <1>1 DEF Connection
  <2> QED BY <2>1, <2>2, SentFrame, Zenon
<1>5. Sent(b, n, [c EXCEPT !.state = "UP", !.hb_locked = FALSE, !.is_new = TRUE,
                           !.heartbeat_on = TRUE, !.timeout_on = TRUE], w)
  <2> DEFINE d == [c EXCEPT !.state = "UP", !.hb_locked = FALSE, !.is_new = TRUE,
                            !.heartbeat_on = TRUE, !.timeout_on = TRUE]
  <2>1. Bounded(d)
    BY <1>1, UpBounded, Zenon
  <2>2. d.sn_t = c.sn_t /\ d.sn_r = c.sn_r /\ d.cs_t = c.cs_t /\ d.cs_r = c.cs_r /\ d.out = c.out
    BY <1>1 DEF Connection
  <2> QED BY <2>1, <2>2, SentFrame, Zenon
<1>6. Sent(b, n, [c EXCEPT !.heartbeat_on = FALSE, !.timeout_on = FALSE], w)
  <2> DEFINE d == [c EXCEPT !.heartbeat_on = FALSE, !.timeout_on = FALSE]
  <2>1. Bounded(d)
    BY <1>1, UpBounded, Zenon
  <2>2. d.sn_t = c.sn_t /\ d.sn_r = c.sn_r /\ d.cs_t = c.cs_t /\ d.cs_r = c.cs_r /\ d.out = c.out
    BY <1>1 DEF Connection
  <2> QED BY <2>1, <2>2, SentFrame, Zenon
<1>7. Sent(b, n, [c EXCEPT !.brk = FALSE], w)
  <2> DEFINE d == [c EXCEPT !.brk = FALSE]
  <2>1. Bounded(d)
    BY <1>1, ReturnBounded, Zenon
  <2>2. d.sn_t = c.sn_t /\ d.sn_r = c.sn_r /\ d.cs_t = c.cs_t /\ d.cs_r = c.cs_r /\ d.out = c.out
    BY <1>1 DEF Connection
  <2> QED BY <2>1, <2>2, SentFrame, Zenon
<1>8. Sent(b, n, [c EXCEPT !.brk = FALSE, !.is_new = FALSE], w)
  <2> DEFINE d == [c EXCEPT !.brk = FALSE, !.is_new = FALSE]
  <2>1. Bounded(d)
    BY <1>1, ReturnBounded, Zenon
  <2>2. d.sn_t = c.sn_t /\ d.sn_r = c.sn_r /\ d.cs_t = c.cs_t /\ d.cs_r = c.cs_r /\ d.out = c.out
    BY <1>1 DEF Connection
  <2> QED BY <2>1, <2>2, SentFrame, Zenon
<1>9. ASSUME c.fifo_recv # << >>
      PROVE  Sent(b, n, [c EXCEPT !.fifo_recv = Tail(@), !.brk = FALSE], w)
  <2> DEFINE d == [c EXCEPT !.fifo_recv = Tail(@), !.brk = FALSE]
  <2>1. Bounded(d)
    BY <1>1, <1>9, ReturnBounded, Zenon
  <2>2. d.sn_t = c.sn_t /\ d.sn_r = c.sn_r /\ d.cs_t = c.cs_t /\ d.cs_r = c.cs_r /\ d.out = c.out
    BY <1>1 DEF Connection
  <2> QED BY <2>1, <2>2, SentFrame, Zenon
<1> QED BY <1>2, <1>3, <1>4, <1>5, <1>6, <1>7, <1>8, <1>9, Zenon

(* sr_close_connection tells the peer with a PDU that takes no number.     *)
LEMMA CloseSent ==
  ASSUME NEW b \in Int, NEW n \in Int, NEW c, NEW w, View(w), Sent(b, n, c, w)
  PROVE  Sent(b, n, sr_close_connection(c), w)
<1>1. Sent(b, n, sr_reset_connection(c), w)
  BY FieldsSent, Zenon
<1> QED BY <1>1, EmitSent DEF sr_close_connection

(* The PDU that is handled moves the numbers of the receiver on.           *)
LEMMA UpdatesSent ==
  ASSUME NEW b \in Int, NEW n \in Int, NEW c, NEW w, View(w), Sent(b, n, c, w), NEW p \in w.taken
  PROVE  /\ Sent(b, n, update_connection_attrs(c, p), w)
         /\ Sent(b, n, update_confirmed_attrs(c, p), w)
         /\ Sent(b, n, Confirm(c, p), w)
<1>1. /\ Bounded(c) /\ c \in Connection /\ p \in Pdu /\ w.peer \in Connection
      /\ w.in \in Seq(Pdu) /\ w.out \in Seq(Pdu)
      /\ Between(w.in, p.sn + 1, w.peer.sn_t, p.cs, w.peer.cs_t)
  BY DEF Sent, Bounded, View
<1>2. /\ p.sn \in Sn /\ p.cs \in Sn /\ p.sn \in Int /\ p.cs \in Int /\ p.sn + 1 \in Int
      /\ w.peer.sn_t \in Int /\ w.peer.sn_t < SnMod /\ w.peer.cs_t \in Int
      /\ w.peer.sn_r \in Int /\ w.peer.cs_r \in Int
      /\ c.sn_t \in Int /\ c.sn_r \in Int /\ c.cs_t \in Int /\ c.cs_r \in Int
      /\ c.out \in Seq(Pdu) /\ w.out \o c.out \in Seq(Pdu)
  <2>1. p.sn \in Sn /\ p.cs \in Sn /\ p.sn \in Int /\ p.cs \in Int
    BY <1>1, PduFields
  <2>2. c.out \in Seq(Pdu) /\ w.out \o c.out \in Seq(Pdu)
    BY <1>1, ConnectionFields, ConcatProperties
  <2> QED BY <1>1, <2>1, <2>2, ConnectionFields
<1>3. (p.sn + 1) % SnMod = p.sn + 1
  <2>1. p.sn + 1 <= w.peer.sn_t /\ 0 <= p.sn
    BY <1>1, <1>2, SnInt DEF Between
  <2>2. p.sn + 1 \in 0..(SnMod - 1) /\ SnMod \in Nat \ {0}
    BY <1>2, <2>1, SnInt
  <2> QED BY <2>2
<1>4. Sent(b, n, update_connection_attrs(c, p), w)
  <2> DEFINE d == update_connection_attrs(c, p)
  <2>1. Bounded(d)
    BY <1>1, UpdatesBounded
  <2>2. d.sn_t = c.sn_t /\ d.sn_r = p.sn + 1 /\ d.cs_t = p.sn /\ d.cs_r = c.cs_r /\ d.out = c.out
    BY <1>1, <1>3 DEF Connection, update_connection_attrs
  <2> HIDE DEF d
  <2>3. ASSUME Chain(c, w) PROVE Chain(d, w)
    <3>1. /\ c.cs_t <= p.sn
          /\ Between(w.in, c.sn_r, w.peer.sn_t, c.cs_r, w.peer.cs_t)
          /\ Between(w.out \o c.out, w.peer.sn_r, c.sn_t, w.peer.cs_r, c.cs_t)
      BY <2>3 DEF Chain
    <3>2. Between(w.in, p.sn + 1, w.peer.sn_t, c.cs_r, w.peer.cs_t)
      BY <1>1, <1>2, <3>1, MixBetween, Zenon
    <3>3. Between(w.out \o c.out, w.peer.sn_r, c.sn_t, w.peer.cs_r, p.sn)
      <4>1. c.sn_t <= c.sn_t
        BY <1>2
      <4> QED BY <1>2, <3>1, <4>1, WidenBetween, Zenon
    <3>4. \A r \in w.taken : p.sn <= r.sn
      BY <1>2 DEF View
    <3> QED BY <2>2, <3>2, <3>3, <3>4 DEF Chain
  <2>4. Sent(b, n, d, w)
    BY <2>1, <2>2, <2>3, Zenon DEF Sent
  <2> QED BY <2>4 DEF d
<1>5. ASSUME NEW d, Bounded(d), d.sn_t = c.sn_t, d.sn_r = c.sn_r, d.cs_t = c.cs_t,
             d.cs_r = p.cs, d.out = c.out
      PROVE  Sent(b, n, d, w)
  <2>1. ASSUME Chain(c, w) PROVE Chain(d, w)
    <3>1. Between(w.in, c.sn_r, w.peer.sn_t, c.cs_r, w.peer.cs_t)
      BY <2>1 DEF Chain
    <3>2. Between(w.in, c.sn_r, w.peer.sn_t, p.cs, w.peer.cs_t)
      BY <1>1, <3>1, Zenon DEF Between
    <3> QED BY <1>5, <2>1, <3>2, Zenon DEF Chain
  <2> QED BY <1>5, <2>1, Zenon DEF Sent
<1>6. Sent(b, n, update_confirmed_attrs(c, p), w)
  <2> DEFINE d == update_confirmed_attrs(c, p)
  <2>1. Bounded(d)
    BY <1>1, UpdatesBounded
  <2>2. d.sn_t = c.sn_t /\ d.sn_r = c.sn_r /\ d.cs_t = c.cs_t /\ d.cs_r = p.cs /\ d.out = c.out
    BY <1>1 DEF Connection, update_confirmed_attrs
  <2> QED BY <1>5, <2>1, <2>2, Zenon
<1>7. Sent(b, n, Confirm(c, p), w)
  <2> DEFINE d == Confirm(c, p)
  <2>1. Bounded(d)
    BY <1>1, UpdatesBounded
  <2>2. d.sn_t = c.sn_t /\ d.sn_r = c.sn_r /\ d.cs_t = c.cs_t /\ d.cs_r = p.cs /\ d.out = c.out
    BY <1>1 DEF Connection, Confirm
  <2> QED BY <1>5, <2>1, <2>2, Zenon
<1> QED BY <1>4, <1>6, <1>7

(* data_send_event sends at most one Data PDU.                             *)
LEMMA SendEventSent ==
  ASSUME NEW b \in Int, b < SnMod, NEW n \in Nat, n + 1 < SnMod, NEW c, NEW w, View(w), Sent(b, n, c, w)
  PROVE  Sent(b, n + 1, data_send_event(c), w)
<1> DEFINE k == Least({RetransmissionSize - Len(c.fifo_retr), Len(c.fifo_send), MaxPacket})
           data == SubSeq(c.fifo_send, 1, k)
           s == EmitAndCount(c, "DATA", data)
           sent == SendQueued(c, k)
           d == IF k > 0 THEN sent ELSE c
           x == data_send_event(c)
<1>1. Bounded(c) /\ c \in Connection /\ Bounded(x)
  BY SendEventBounded DEF Sent, Bounded
<1>2. x = [d EXCEPT !.send_on = @ /\ d.fifo_send # << >>]
  BY DEF data_send_event
<1>3. DOMAIN c = {"state", "initial", "sn_t", "sn_r", "cs_t", "cs_r", "cts_set", "hb_locked",
                  "heartbeat_on", "timeout_on", "send_on", "is_new", "brk", "fifo_send",
                  "fifo_retr", "fifo_recv", "out"}
  BY <1>1 DEF Connection
<1>4. CASE k > 0
  <2>1. data \in Seq(Message)
    <3>1. c.fifo_send \in Seq(Message) /\ Len(c.fifo_send) \in Int /\ MaxPacket \in Int
          /\ RetransmissionSize - Len(c.fifo_retr) \in Int
      BY <1>1, SizesAssumption DEF Connection
    <3>2. k \in Int /\ k <= Len(c.fifo_send)
      <4> DEFINE room == RetransmissionSize - Len(c.fifo_retr)
                 waiting == Len(c.fifo_send)
      <4>1. room \in Int /\ waiting \in Int /\ MaxPacket \in Int /\ k = Least({room, waiting, MaxPacket})
        BY <3>1
      <4> HIDE DEF room, waiting, k
      <4>2. k \in {room, waiting, MaxPacket} /\ k <= waiting
        BY <4>1, LeastOfThree, Zenon
      <4> QED BY <4>1, <4>2 DEF waiting
    <3> HIDE DEF k
    <3>3. k \in 0..Len(c.fifo_send)
      BY <1>4, <3>1, <3>2
    <3> QED BY <3>1, <3>3, PrefixFacts
  <2>2. Sent(b, n + 1, s, w)
    <3> HIDE DEF data
    <3>1. "DATA" \in Type \ {"CONNREQ", "CONNRESP", "DISCREQ"}
      BY DEF Type
    <3> QED BY <2>1, <3>1, CountSent, Zenon
  <2>3. /\ sent.sn_t = s.sn_t /\ sent.sn_r = s.sn_r /\ sent.cs_t = s.cs_t /\ sent.cs_r = s.cs_r
        /\ sent.out = s.out /\ DOMAIN sent = DOMAIN c
    <3> HIDE DEF k
    <3>1. DOMAIN s = DOMAIN c
      BY <1>1 DEF EmitAndCount, Emit, Connection
    <3>2. sent = [s EXCEPT !.fifo_retr = Append(@, [sn |-> c.sn_t, data |-> data]),
                           !.fifo_send = SubSeq(@, k + 1, Len(@))]
      BY DEF SendQueued
    <3> HIDE DEF s, data
    <3> QED BY <1>3, <3>1, <3>2
  <2>4. d = sent
    BY <1>4
  <2> HIDE DEF d, sent, s
  <2>5. x.sn_t = s.sn_t /\ x.sn_r = s.sn_r /\ x.cs_t = s.cs_t /\ x.cs_r = s.cs_r /\ x.out = s.out
    BY <1>2, <1>3, <2>3, <2>4
  <2> HIDE DEF x
  <2>6. Sent(b, n + 1, x, w)
    BY <1>1, <2>2, <2>5, SentFrame, Zenon
  <2> QED BY <2>6 DEF x
<1>5. CASE ~(k > 0)
  <2>1. d = c
    BY <1>5
  <2> HIDE DEF d
  <2>2. x.sn_t = c.sn_t /\ x.sn_r = c.sn_r /\ x.cs_t = c.cs_t /\ x.cs_r = c.cs_r /\ x.out = c.out
    BY <1>2, <1>3, <2>1
  <2> HIDE DEF x
  <2>3. Sent(b, n, x, w)
    BY <1>1, <2>2, SentFrame, Zenon
  <2>4. n + 1 \in Int /\ n <= n + 1 /\ n \in Int
    OBVIOUS
  <2>5. Sent(b, n + 1, x, w)
    BY <2>3, <2>4, SentMore
  <2> QED BY <2>5 DEF x
<1> QED BY <1>4, <1>5

(* So does sr_remove_confirmed_messages.                                   *)
LEMMA RemoveSent ==
  ASSUME NEW b \in Int, b < SnMod, NEW n \in Nat, n + 1 < SnMod, NEW c, NEW w, View(w), Sent(b, n, c, w)
  PROVE  Sent(b, n + 1, sr_remove_confirmed_messages(c), w)
<1> DEFINE d == [c EXCEPT !.fifo_retr = PopConfirmed(@, c.cs_r)]
<1>1. Bounded(c) /\ c \in Connection
  BY DEF Sent, Bounded
<1>2. sr_remove_confirmed_messages(c) \in {d, data_send_event(d)}
  BY DEF sr_remove_confirmed_messages
<1>3. d.sn_t = c.sn_t /\ d.sn_r = c.sn_r /\ d.cs_t = c.cs_t /\ d.cs_r = c.cs_r /\ d.out = c.out
  BY <1>1 DEF Connection
<1>4. Bounded(d)
  BY <1>1, PopKeepsBounds
<1> HIDE DEF d
<1>5. Sent(b, n, d, w)
  BY <1>3, <1>4, SentFrame, Zenon
<1>6. n + 1 \in Int /\ n <= n + 1 /\ n \in Int
  OBVIOUS
<1>7. Sent(b, n + 1, d, w)
  BY <1>5, <1>6, SentMore
<1>8. Sent(b, n + 1, data_send_event(d), w)
  BY <1>5, SendEventSent
<1> QED BY <1>2, <1>7, <1>8

(* sr_add_app_messages_to_buffer does not touch the numbers.               *)
LEMMA AddSent ==
  ASSUME NEW b, NEW n, NEW c, NEW w, Sent(b, n, c, w), NEW p \in Pdu
  PROVE  Sent(b, n, sr_add_app_messages_to_buffer(c, p), w)
<1> DEFINE taken == SubSeq(p.data, 1, Least({ReceiveSize - Len(c.fifo_recv), Len(p.data)}))
           d == sr_add_app_messages_to_buffer(c, p)
<1>1. Bounded(c) /\ c \in Connection
  BY DEF Sent, Bounded
<1>2. Bounded(d)
  BY <1>1, AddBounded
<1>3. d = [c EXCEPT !.fifo_recv = @ \o taken]
  BY DEF sr_add_app_messages_to_buffer
<1> HIDE DEF taken
<1>4. d.sn_t = c.sn_t /\ d.sn_r = c.sn_r /\ d.cs_t = c.cs_t /\ d.cs_r = c.cs_r /\ d.out = c.out
  BY <1>1, <1>3 DEF Connection
<1> QED BY <1>2, <1>4, SentFrame, Zenon

(* sr_retransmit_data sends what is in fifo_retr, and a heartbeat.         *)
LEMMA RetransmitSent ==
  ASSUME NEW b \in Int, b < SnMod, NEW n \in Nat, n + RetransmissionSize + 1 < SnMod,
         NEW c, NEW w, View(w), Sent(b, n, c, w)
  PROVE  Sent(b, n + RetransmissionSize + 1, sr_retransmit_data(c), w)
<1> DEFINE pdus == AgainPdus(c)
           d == Repeated(c)
           k == Len(c.fifo_retr)
<1>1. /\ Bounded(c) /\ c \in Connection /\ c.out \in Seq(Pdu) /\ c.sn_t \in Int /\ c.cs_t \in Int
      /\ c.sn_t \in Sn /\ c.fifo_retr \in Seq(Queued)
  BY ConnectionFields DEF Sent, Bounded, Connection
<1>2. /\ k \in Nat /\ k <= RetransmissionSize /\ RetransmissionSize \in Nat
      /\ n + k < SnMod /\ n + k + 1 < SnMod /\ n + k \in Nat /\ DOMAIN c.fifo_retr = 1..k
      /\ n + k <= n + RetransmissionSize
  BY <1>1, SizesAssumption, SnInt DEF Bounded
<1>3. Bounded(d) /\ pdus \in Seq(Pdu)
  BY <1>1, RepeatedBounded
<1>4. /\ Len(Again(c)) = k /\ DOMAIN Again(c) = 1..k
      /\ \A i \in 1..k : Again(c)[i].sn = (c.sn_t + i - 1) % SnMod
  <2>1. DOMAIN Again(c) = 1..k
    BY <1>2 DEF Again
  <2>2. Again(c) \in Seq(Queued)
    <3>1. d.fifo_retr = Again(c)
      BY <1>1 DEF Repeated, Connection
    <3> QED BY <1>3, <3>1 DEF Bounded, Connection
  <2>3. Len(Again(c)) = k
    BY <1>2, <2>1, <2>2, LenProperties
  <2>4. \A i \in 1..k : c.fifo_retr[i] \in Queued
    BY <1>1, <1>2
  <2>5. \A i \in 1..k : Again(c)[i].sn = (c.sn_t + i - 1) % SnMod
    BY <1>2, <2>4 DEF Again, Queued
  <2> QED BY <2>1, <2>3, <2>5
<1>5. /\ d.out = c.out \o pdus /\ d.sn_t = (c.sn_t + k) % SnMod /\ d.sn_r = c.sn_r
      /\ d.cs_t = c.cs_t /\ d.cs_r = c.cs_r
  BY <1>1, <1>4 DEF Repeated, Connection
<1>6. /\ Len(pdus) = k
      /\ \A i \in 1..k : /\ pdus[i].sn = (c.sn_t + i - 1) % SnMod /\ pdus[i].cs = c.cs_t
                         /\ Plain(pdus[i])
  <2>1. DOMAIN pdus = 1..k
    BY <1>4 DEF AgainPdus
  <2>2. Len(pdus) = k
    BY <1>2, <1>3, <2>1, LenProperties
  <2>3. ASSUME NEW i \in 1..k
        PROVE pdus[i] = [type |-> "RETRDATA", sn |-> Again(c)[i].sn, cs |-> c.cs_t,
                         data |-> Again(c)[i].data, to |-> TRUE, sum |-> TRUE]
    BY <1>4 DEF AgainPdus
  <2>4. ASSUME NEW i \in 1..k
        PROVE  /\ pdus[i].sn = (c.sn_t + i - 1) % SnMod /\ pdus[i].cs = c.cs_t
               /\ Plain(pdus[i])
    <3>1. Again(c)[i].sn = (c.sn_t + i - 1) % SnMod
      BY <1>4
    <3>2. pdus[i] = [type |-> "RETRDATA", sn |-> Again(c)[i].sn, cs |-> c.cs_t,
                     data |-> Again(c)[i].data, to |-> TRUE, sum |-> TRUE]
      BY <2>3
    <3> HIDE DEF pdus
    <3> QED BY <3>1, <3>2 DEF Plain
  <2> QED BY <2>2, <2>4
<1> HIDE DEF pdus, d, k
<1>7. ASSUME Chain(c, w), d.sn_t = c.sn_t + k PROVE Chain(d, w)
  <2>1. /\ w.peer.sn_r \in Int /\ w.peer.cs_r \in Int /\ w.out \in Seq(Pdu)
        /\ w.out \o c.out \in Seq(Pdu)
    BY <1>1, ConnectionFields, ConcatProperties DEF View
  <2>2. Between(w.out \o c.out, w.peer.sn_r, c.sn_t, w.peer.cs_r, c.cs_t)
    BY <1>7 DEF Chain
  <2>3. c.sn_t + k < SnMod /\ 0 <= c.sn_t
    <3>1. d \in Connection
      BY <1>3 DEF Bounded
    <3> QED BY <1>1, <1>7, <3>1, ConnectionFields
  <2>4. ASSUME NEW i \in 1..k PROVE (c.sn_t + i - 1) % SnMod = c.sn_t + i - 1
    <3>1. c.sn_t + i - 1 \in Int /\ 0 <= c.sn_t + i - 1 /\ c.sn_t + i - 1 < SnMod
      BY <1>1, <1>2, <2>3, SnInt
    <3> QED BY <3>1, SnInt
  <2>5. \A i \in 1..Len(pdus) :
          Plain(pdus[i]) /\ pdus[i].sn = c.sn_t + i - 1 /\ pdus[i].cs = c.cs_t
    BY <1>6, <2>4
  <2>6. Between((w.out \o c.out) \o pdus, w.peer.sn_r, c.sn_t + Len(pdus), w.peer.cs_r, c.cs_t)
    BY <1>1, <1>3, <2>1, <2>2, <2>5, ConcatBetween, Zenon
  <2>7. w.out \o d.out = (w.out \o c.out) \o pdus
    <3>1. w.out \o (c.out \o pdus) = (w.out \o c.out) \o pdus
      BY <1>1, <1>3, <2>1, LinkAssociative, Zenon
    <3> QED BY <1>5, <3>1
  <2> QED BY <1>5, <1>6, <1>7, <2>6, <2>7, Zenon DEF Chain
<1>8. /\ c.sn_t + SnMod <= b + n => d.sn_t + SnMod <= b + n + k
      /\ b <= c.sn_t /\ c.sn_t <= b + n =>
              \/ d.sn_t + SnMod <= b + n + k
              \/ d.sn_t = c.sn_t + k /\ b <= d.sn_t /\ d.sn_t <= b + n + k
  BY <1>1, <1>2, <1>5, CountOn, Zenon
<1>9. Sent(b, n + k, d, w)
  <2>1. b + (n + k) = b + n + k
    BY <1>2
  <2> QED BY <1>3, <1>7, <1>8, <2>1, Zenon DEF Sent
<1>10. Sent(b, n + k + 1, sendHeartbeat(d), w)
  BY <1>2, <1>9, SendsSent, Zenon
<1>11. /\ n + k + 1 \in Int /\ n + RetransmissionSize + 1 \in Int
       /\ n + k + 1 <= n + RetransmissionSize + 1
  BY <1>2
<1>12. Sent(b, n + RetransmissionSize + 1, sendHeartbeat(d), w)
  BY <1>10, <1>11, SentMore
<1> QED BY <1>12, RetransmitIsRepeated DEF d

-----------------------------------------------------------------------------
(* The handlers, the timed events and the calls.                           *)

\* what one handler sends at most
Most == RetransmissionSize + 3

(* There are enough numbers for that.                                      *)
LEMMA MostFits == Most \in Nat /\ Most < SnMod /\ RetransmissionSize \in Nat /\ 3 <= Most
  BY SizesAssumption, NumbersSuffice, SnInt DEF Most

(* A handler sends fewer PDUs than there are numbers.                      *)
LEMMA UpToMost ==
  ASSUME NEW b \in Int, NEW n \in Nat, n <= 3, NEW c, NEW w, Sent(b, n, c, w)
  PROVE  Sent(b, Most, c, w)
<1>1. n \in Int /\ Most \in Int /\ n <= Most
  BY MostFits
<1> QED BY <1>1, SentMore

(* One or two PDUs more.                                                   *)
LEMMA Few == 0 \in Nat /\ 1 \in Nat /\ 0 + 1 = 1 /\ 0 + 1 < SnMod /\ 1 + 1 = 2 /\ 1 + 1 < SnMod
             /\ 0 <= 3 /\ 1 <= 3
  BY MostFits, SnInt

(* A Data PDU or a retransmitted one.                                      *)
LEMMA DataSent ==
  ASSUME NEW b \in Int, b < SnMod, NEW c, NEW w, View(w), Sent(b, 0, c, w), NEW p \in w.taken, NEW late
  PROVE  /\ Sent(b, Most, handle_data(c, p, late), w)
         /\ Sent(b, Most, handle_retrdata(c, p, late), w)
<1> DEFINE a == sr_add_app_messages_to_buffer(c, p)
           u == update_connection_attrs(a, p)
           x == update_confirmed_attrs(u, p)
           r == sr_remove_confirmed_messages(x)
           k == Confirm(u, p)
           q == sendRetransmissionRequest(c)
<1>1. /\ handle_data(c, p, late) \in {sr_close_connection(c), Break(r),
           update_connection_attrs(c, p), [q EXCEPT !.state = "RETRREQ"], c}
      /\ handle_retrdata(c, p, late) \in {sr_close_connection(c), Break(k),
           [q EXCEPT !.state = "RETRREQ"], c}
  BY DEF handle_data, handle_retrdata, TakeData, TakeRetransmitted, RequestRetransmission
<1>2. p \in Pdu
  BY DEF View
<1>3. Sent(b, 0, a, w)
  BY <1>2, AddSent
<1> HIDE DEF a
<1>4. Sent(b, 0, u, w)
  BY <1>3, UpdatesSent
<1> HIDE DEF u
<1>5. Sent(b, 0, x, w) /\ Sent(b, 0, k, w)
  BY <1>4, UpdatesSent
<1> HIDE DEF x, k
<1>6. Sent(b, 1, r, w)
  <2>1. Sent(b, 0 + 1, r, w)
    BY <1>5, Few, RemoveSent
  <2> QED BY <2>1
<1> HIDE DEF r
<1>7. Sent(b, 1, Break(r), w) /\ Sent(b, 0, Break(k), w)
  BY <1>5, <1>6, FieldsSent, Zenon
<1>8. Sent(b, 1, q, w)
  <2>1. Sent(b, 0 + 1, q, w)
    BY Few, SendsSent
  <2> QED BY <2>1
<1> HIDE DEF q
<1>9. Sent(b, 1, [q EXCEPT !.state = "RETRREQ"], w)
  BY <1>8, FieldsSent, Zenon DEF State
<1>10. Sent(b, 0, sr_close_connection(c), w) /\ Sent(b, 0, update_connection_attrs(c, p), w)
  BY CloseSent, UpdatesSent
<1> QED BY <1>1, <1>7, <1>9, <1>10, Few, UpToMost

(* A Retransmission Request.                                               *)
LEMMA RetrReqSent ==
  ASSUME NEW b \in Int, b < SnMod, NEW c, NEW w, View(w), Sent(b, 0, c, w), NEW p \in w.taken
  PROVE  Sent(b, Most, handle_retrreq(c, p), w)
<1>1. ASSUME NEW d, Sent(b, 0, d, w) PROVE Sent(b, Most, AnswerRetransmission(d, p), w)
  <2> DEFINE k == Confirm(d, p)
             r == sr_remove_confirmed_messages(k)
             s == sendRetransmissionResponse(r)
  <2>1. AnswerRetransmission(d, p) = sr_retransmit_data(s)
    BY DEF AnswerRetransmission
  <2>2. Sent(b, 0, k, w)
    BY <1>1, UpdatesSent
  <2> HIDE DEF k
  <2>3. Sent(b, 0 + 1, r, w)
    BY <2>2, Few, RemoveSent
  <2> HIDE DEF r
  <2>4. Sent(b, 1 + 1, s, w)
    BY <2>3, Few, SendsSent
  <2> HIDE DEF s
  <2>5. 2 \in Nat /\ 2 + RetransmissionSize + 1 = Most /\ Sent(b, 2, s, w)
    BY <2>4, MostFits DEF Most
  <2>6. Sent(b, 2 + RetransmissionSize + 1, sr_retransmit_data(s), w)
    BY <2>5, MostFits, RetransmitSent
  <2> QED BY <2>1, <2>5, <2>6
<1> DEFINE d == IF c.state = "RETRRUN" THEN sr_close_connection(c) ELSE c
           u == update_connection_attrs(d, p)
           a == AnswerRetransmission(c, p)
<1>2. handle_retrreq(c, p) \in {AnswerRetransmission(u, p), [a EXCEPT !.state = "RETRREQ"]}
  BY DEF handle_retrreq
<1>3. Sent(b, 0, d, w)
  BY CloseSent
<1> HIDE DEF d
<1>4. Sent(b, 0, u, w)
  BY <1>3, UpdatesSent
<1> HIDE DEF u
<1>5. Sent(b, Most, a, w) /\ Sent(b, Most, AnswerRetransmission(u, p), w)
  BY <1>1, <1>4
<1> HIDE DEF a
<1>6. Sent(b, Most, [a EXCEPT !.state = "RETRREQ"], w)
  BY <1>5, FieldsSent, Zenon DEF State
<1> QED BY <1>2, <1>5, <1>6

(* A Retransmission Response and a Disconnection Request.                  *)
LEMMA RetrRespSent ==
  ASSUME NEW b \in Int, NEW c, NEW w, View(w), Sent(b, 0, c, w)
  PROVE  /\ \A p \in w.taken : Sent(b, Most, handle_retrresp(c, p), w)
         /\ Sent(b, Most, handle_discreq(c), w)
<1>1. ASSUME NEW p \in w.taken PROVE Sent(b, Most, handle_retrresp(c, p), w)
  <2> DEFINE s == [c EXCEPT !.state = "RETRRUN"]
             u == update_connection_attrs(s, p)
  <2>1. handle_retrresp(c, p) \in {update_confirmed_attrs(u, p), sr_close_connection(c)}
    BY DEF handle_retrresp
  <2>2. Sent(b, 0, s, w)
    BY FieldsSent, Zenon DEF State
  <2> HIDE DEF s
  <2>3. Sent(b, 0, u, w)
    BY <2>2, UpdatesSent
  <2> HIDE DEF u
  <2>4. Sent(b, 0, update_confirmed_attrs(u, p), w) /\ Sent(b, 0, sr_close_connection(c), w)
    BY <2>3, UpdatesSent, CloseSent
  <2> QED BY <2>1, <2>4, Few, UpToMost
<1> DEFINE r == sr_reset_connection(c)
<1>2. Sent(b, 0, r, w)
  BY FieldsSent, Zenon
<1> HIDE DEF r
<1>3. Sent(b, 0, Break(r), w)
  BY <1>2, FieldsSent, Zenon
<1>4. Sent(b, Most, handle_discreq(c), w)
  BY <1>3, Few, UpToMost DEF handle_discreq, r
<1> QED BY <1>1, <1>4

(* A heartbeat.                                                            *)
LEMMA HbSent ==
  ASSUME NEW b \in Int, b < SnMod, NEW c, NEW w, View(w), Sent(b, 0, c, w), NEW p \in w.taken,
         NEW late, NEW isClient
  PROVE  Sent(b, Most, handle_hb(c, p, late, isClient), w)
<1>1. Sent(b, Most, CompleteHandshake(c, p, late, isClient), w)
  <2> DEFINE d1 == IF sr_sn_in_seq(c, p) THEN c ELSE sr_close_connection(c)
             d2 == IF isClient THEN sr_close_connection(d1) ELSE d1
             u == update_connection_attrs(d2, p)
             k == Confirm(u, p)
             up == [k EXCEPT !.state = "UP", !.hb_locked = FALSE, !.is_new = TRUE,
                             !.heartbeat_on = TRUE, !.timeout_on = TRUE]
  <2>1. CompleteHandshake(c, p, late, isClient) \in {Break(up), sr_close_connection(d2)}
    BY DEF CompleteHandshake
  <2>2. Sent(b, 0, d1, w)
    BY CloseSent
  <2> HIDE DEF d1
  <2>3. Sent(b, 0, d2, w)
    BY <2>2, CloseSent
  <2> HIDE DEF d2
  <2>4. Sent(b, 0, u, w)
    BY <2>3, UpdatesSent
  <2> HIDE DEF u
  <2>5. Sent(b, 0, k, w)
    BY <2>4, UpdatesSent
  <2> HIDE DEF k
  <2>6. Sent(b, 0, up, w)
    BY <2>5, FieldsSent, Zenon
  <2> HIDE DEF up
  <2>7. Sent(b, 0, Break(up), w) /\ Sent(b, 0, sr_close_connection(d2), w)
    <3>1. Sent(b, 0, Break(up), w)
      BY <2>6, FieldsSent, Zenon
    <3> QED BY <2>3, <3>1, CloseSent
  <2> QED BY <2>1, <2>7, Few, UpToMost
<1>2. Sent(b, Most, TakeHeartbeat(c, p), w)
  <2> DEFINE u == update_connection_attrs(c, p)
             x == update_confirmed_attrs(u, p)
             d == sr_remove_confirmed_messages(x)
  <2>1. TakeHeartbeat(c, p) = [d EXCEPT !.state = "UP"]
    BY DEF TakeHeartbeat
  <2>2. Sent(b, 0, u, w)
    BY UpdatesSent
  <2> HIDE DEF u
  <2>3. Sent(b, 0, x, w)
    BY <2>2, UpdatesSent
  <2> HIDE DEF x
  <2>4. Sent(b, 1, d, w)
    <3>1. Sent(b, 0 + 1, d, w)
      BY <2>3, Few, RemoveSent
    <3> QED BY <3>1
  <2> HIDE DEF d
  <2>5. Sent(b, 1, [d EXCEPT !.state = "UP"], w)
    BY <2>4, FieldsSent, Zenon DEF State
  <2> QED BY <2>1, <2>5, Few, UpToMost
<1>3. Sent(b, 0, [c EXCEPT !.state = "RETRREQ"], w) /\ Sent(b, 0, sr_close_connection(c), w)
  <2>1. Sent(b, 0, [c EXCEPT !.state = "RETRREQ"], w)
    BY FieldsSent, Zenon DEF State
  <2> QED BY <2>1, CloseSent
<1>4. handle_hb(c, p, late, isClient) \in {CompleteHandshake(c, p, late, isClient),
        TakeHeartbeat(c, p), sr_close_connection(c), [c EXCEPT !.state = "RETRREQ"], c}
  BY DEF handle_hb
<1> QED BY <1>1, <1>2, <1>3, <1>4, Few, UpToMost

(* What an end does on its own.                                            *)
LEMMA CallsSent ==
  ASSUME NEW b \in Int, b < SnMod, NEW c, NEW w, View(w), Sent(b, 0, c, w)
  PROVE  /\ Sent(b, Most, event_connection_expired(c), w)
         /\ Sent(b, Most, heartbeat_send_event(c), w)
         /\ Sent(b, Most, data_send_event(c), w)
         /\ Sent(b, Most, sr_close_connection(c), w)
         /\ \A m \in Message : Sent(b, Most, sr_send(c, m), w)
<1>1. Sent(b, 1, data_send_event(c), w) /\ Sent(b, 1, sendHeartbeat(c), w)
  <2>1. Sent(b, 0 + 1, data_send_event(c), w) /\ Sent(b, 0 + 1, sendHeartbeat(c), w)
    BY Few, SendEventSent, SendsSent
  <2> QED BY <2>1
<1>2. Sent(b, Most, c, w) /\ Sent(b, 0, sr_close_connection(c), w)
  BY CloseSent, Few, UpToMost
<1>3. Sent(b, Most, event_connection_expired(c), w)
  <2> DEFINE d == IF c.state \in Open THEN sr_close_connection(c) ELSE c
             x == [d EXCEPT !.heartbeat_on = FALSE, !.timeout_on = FALSE]
  <2>1. event_connection_expired(c) \in {c, Break(x)}
    BY DEF event_connection_expired
  <2>2. Sent(b, 0, d, w)
    BY <1>2
  <2> HIDE DEF d
  <2>3. Sent(b, 0, x, w)
    BY <2>2, FieldsSent, Zenon
  <2> HIDE DEF x
  <2>4. Sent(b, 0, Break(x), w)
    BY <2>3, FieldsSent, Zenon
  <2> QED BY <1>2, <2>1, <2>4, Few, UpToMost
<1>4. ASSUME NEW m \in Message PROVE Sent(b, Most, sr_send(c, m), w)
  <2> DEFINE r == MakeRoom(c)
             t == [r EXCEPT !.fifo_send = Append(@, m), !.send_on = TRUE]
             q == sendDisconnectionRequest(c)
  <2>1. sr_send(c, m) \in {r, t, [c EXCEPT !.state = "CLOSED"], [q EXCEPT !.state = "CLOSED"]}
    BY DEF sr_send
  <2>2. Sent(b, 1, r, w)
    <3>1. Sent(b, 1, c, w)
      <4>1. 0 \in Int /\ 1 \in Int /\ 0 <= 1
        OBVIOUS
      <4> QED BY <4>1, SentMore
    <3> QED BY <1>1, <3>1 DEF MakeRoom
  <2> HIDE DEF r
  <2>3. CASE sr_send(c, m) = t
    <3>1. r \in Connection
      BY <2>2 DEF Sent, Bounded
    <3>2. t.sn_t = r.sn_t /\ t.sn_r = r.sn_r /\ t.cs_t = r.cs_t /\ t.cs_r = r.cs_r /\ t.out = r.out
      BY <3>1 DEF Connection
    <3>3. Bounded(t)
      BY <2>3, SendBounded DEF Sent
    <3> HIDE DEF t
    <3>4. Sent(b, 1, t, w)
      BY <2>2, <3>2, <3>3, SentFrame, Zenon
    <3> QED BY <2>3, <3>4, Few, UpToMost
  <2>4. Sent(b, 0, q, w)
    BY EmitSent
  <2> HIDE DEF q
  <2>5. Sent(b, 0, [c EXCEPT !.state = "CLOSED"], w) /\ Sent(b, 0, [q EXCEPT !.state = "CLOSED"], w)
    BY <2>4, FieldsSent, Zenon DEF State
  <2> QED BY <2>1, <2>2, <2>3, <2>5, Few, UpToMost
<1> QED BY <1>1, <1>2, <1>3, <1>4, Few, UpToMost DEF heartbeat_send_event
-----------------------------------------------------------------------------
(* The whole connection.                                                   *)

\* No sequence number passes 2^32: a step that changes the connection of an
\* end leaves its number where it was or higher, and not below the first one.
NoWrap ==
  \A e \in Endpoint :
    con'[e] # con[e] =>
      con[e].sn_t <= con'[e].sn_t /\ con[e].initial <= con'[e].sn_t

-----------------------------------------------------------------------------
(* The phases of a connection.                                             *)

\* no timer runs and no connection is up
Dormant(c) ==
  /\ c.state \notin Open
  /\ c.timeout_on = FALSE /\ c.heartbeat_on = FALSE /\ c.send_on = FALSE
  /\ c.is_new = FALSE

\* nothing can happen at this end before a PDU arrives
Passive(e) == Dormant(con[e]) /\ app[e] \in {"start", "opening", "done"}

\* the client has sent its ConReq and nothing else
Asked ==
  /\ app[Client] # "start"
  /\ con[Client].state = "START"
  /\ con[Client].sn_t = con[Client].initial + 1
  /\ con[Client].sn_r = 0 /\ con[Client].cs_t = 0 /\ con[Client].cs_r = 0

Before ==
  /\ app[Client] = "start"
  /\ \A e \in Endpoint : con[e] = NewConnection(con[e].initial) /\ chan[e] = << >>

Requested ==
  /\ Asked
  /\ con[Server] = NewConnection(con[Server].initial)
  /\ chan[Client] = << >>
  /\ chan[Server] = << [type |-> "CONNREQ", sn |-> con[Client].initial, cs |-> 0,
                        data |-> << >>, to |-> TRUE, sum |-> TRUE] >>

Accepted ==
  /\ Asked
  /\ con[Server].state = "START"
  /\ con[Server].sn_t = con[Server].initial + 1
  /\ con[Server].sn_r = con[Client].initial + 1
  /\ con[Server].cs_t = con[Client].initial /\ con[Server].cs_r = 0
  /\ chan[Server] = << >>
  /\ chan[Client] = << [type |-> "CONNRESP", sn |-> con[Server].initial,
                        cs |-> con[Client].initial, data |-> << >>,
                        to |-> TRUE, sum |-> TRUE] >>

Refused ==
  /\ app[Client] # "start"
  /\ chan[Client] = << >>
  /\ \A i \in 1..Len(chan[Server]) : chan[Server][i].type = "DISCREQ"

Opening ==
  /\ \A e \in Endpoint : Passive(e)
  /\ Before \/ Requested \/ Accepted \/ Refused

Established ==
  /\ app[Client] # "start"
  /\ \A e \in Endpoint :
       /\ con[e].sn_r = con[e].cs_t + 1
       /\ Between(chan[e], con[e].sn_r, con[Partner[e]].sn_t,
                           con[e].cs_r, con[Partner[e]].cs_t)

CInv ==
  /\ TypeOK /\ QueuesBounded
  /\ \A e \in Endpoint : con[e].out = << >>
  /\ Opening \/ Established
-----------------------------------------------------------------------------
(* The steps of an established connection.                                 *)

\* what end e sees when the PDUs of link are under way to it
Sees(e, link, taken) ==
  [peer |-> con[Partner[e]], in |-> link, out |-> chan[Partner[e]], taken |-> taken]

(* The two ends.                                                           *)
LEMMA Other ==
  ASSUME NEW e \in Endpoint
  PROVE  /\ Partner[e] \in Endpoint /\ Partner[e] # e /\ Partner[Partner[e]] = e
         /\ \A f \in Endpoint : f = e \/ f = Partner[e]
  BY EndsDiffer DEF Endpoint, Partner

(* A PDU keeps its number and its confirmation when it is damaged.         *)
LEMMA ArrivalNumbers ==
  ASSUME TypeOK, NEW e \in Endpoint, chan[e] # << >>, NEW p \in Arrivals(e)
  PROVE  p.sn = Head(chan[e]).sn /\ p.cs = Head(chan[e]).cs /\ p.type = Head(chan[e]).type
<1> DEFINE h == Head(chan[e])
<1>1. h \in Pdu
  BY DEF TypeOK
<1>2. PICK q \in {h} \cup Damaged(h) : p = Repacked(q)
  BY DEF Arrivals
<1> HIDE DEF h
<1>3. q.sn = h.sn /\ q.cs = h.cs /\ DOMAIN q = DOMAIN h
  BY <1>1, <1>2, Zenon DEF Damaged, Pdu
<1>4. DOMAIN h = {"type", "sn", "cs", "data", "to", "sum"}
  BY <1>1 DEF Pdu
<1>5. p.sn = h.sn /\ p.cs = h.cs
  BY <1>2, <1>3, <1>4 DEF Repacked
<1> QED BY <1>5, ArrivalType DEF h

(* Before a step of e.                                                     *)
LEMMA SeesOwn ==
  ASSUME CInv, Established, NEW e \in Endpoint
  PROVE  LET w == Sees(e, chan[e], {})
         IN View(w) /\ Sent(con[e].sn_t, 0, con[e], w)
<1> DEFINE f == Partner[e]
           w == Sees(e, chan[e], {})
<1>1. /\ Bounded(con[e]) /\ con[e] \in Connection /\ chan[e] \in Seq(Pdu) /\ con[e].out = << >>
      /\ con[f] \in Connection /\ chan[f] \in Seq(Pdu)
  BY Other, EndsBounded DEF CInv
<1>2. w.peer = con[f] /\ w.in = chan[e] /\ w.out = chan[f] /\ w.taken = {}
  BY DEF Sees
<1> HIDE DEF w
<1>3. View(w)
  BY <1>1, <1>2 DEF View
<1>4. /\ con[e].sn_r = con[e].cs_t + 1
      /\ Between(chan[e], con[e].sn_r, con[f].sn_t, con[e].cs_r, con[f].cs_t)
      /\ Between(chan[f], con[f].sn_r, con[e].sn_t, con[f].cs_r, con[e].cs_t)
  BY Other DEF Established
<1>5. w.out \o con[e].out = chan[f]
  BY <1>1, <1>2, ConcatEmptySeq
<1>6. Chain(con[e], w)
  BY <1>2, <1>4, <1>5 DEF Chain
<1>7. con[e].sn_t \in Int
  BY <1>1, ConnectionFields
<1>8. con[e].sn_t <= con[e].sn_t /\ con[e].sn_t <= con[e].sn_t + 0
  BY <1>7
<1>9. Sent(con[e].sn_t, 0, con[e], w)
  BY <1>1, <1>6, <1>8, Zenon DEF Sent
<1> QED BY <1>3, <1>9 DEF w

(* Before e handles the next PDU.                                          *)
LEMMA SeesNext ==
  ASSUME CInv, Established, NEW e \in Endpoint, chan[e] # << >>, NEW p \in Arrivals(e)
  PROVE  LET w == Sees(e, Tail(chan[e]), {})
             x == Sees(e, Tail(chan[e]), {p})
         IN /\ p.type \notin {"CONNREQ", "CONNRESP"}
            /\ View(w) /\ Sent(con[e].sn_t, 0, con[e], w)
            /\ Counted(p) => View(x) /\ Sent(con[e].sn_t, 0, con[e], x)
<1> DEFINE f == Partner[e]
           s == chan[e]
           w == Sees(e, Tail(chan[e]), {})
           x == Sees(e, Tail(chan[e]), {p})
           o == Sees(e, chan[e], {})
           c == con[e]
           d == con[f]
<1>1. /\ Bounded(c) /\ c \in Connection /\ s \in Seq(Pdu) /\ c.out = << >>
      /\ d \in Connection /\ chan[f] \in Seq(Pdu) /\ Tail(s) \in Seq(Pdu)
  <2>1. chan[e] \in Seq(Pdu)
    BY EndsBounded DEF CInv
  <2>2. Tail(chan[e]) \in Seq(Pdu)
    BY <2>1, HeadTailProperties
  <2> QED BY <2>1, <2>2, Other, EndsBounded DEF CInv
<1>2. /\ w.peer = d /\ w.in = Tail(s) /\ w.out = chan[f] /\ w.taken = {}
      /\ x.peer = d /\ x.in = Tail(s) /\ x.out = chan[f] /\ x.taken = {p}
      /\ o.peer = d /\ o.in = s /\ o.out = chan[f] /\ o.taken = {}
  BY DEF Sees
<1>3. p \in Pdu /\ p.sn = Head(s).sn /\ p.cs = Head(s).cs /\ p.type = Head(s).type
  BY ArrivalNumbers, ArrivalsArePdus DEF CInv
<1>4. View(o) /\ Sent(c.sn_t, 0, c, o)
  BY SeesOwn
<1> HIDE DEF w, x, o, s
<1>5. /\ c.sn_t \in Int /\ c.sn_r \in Int /\ c.cs_t \in Int /\ c.cs_r \in Int /\ 0 <= c.sn_t
      /\ d.sn_t \in Int /\ d.sn_r \in Int /\ d.cs_t \in Int /\ d.cs_r \in Int
      /\ p.sn \in Int /\ p.cs \in Int
  BY <1>1, <1>3, ConnectionFields, PduFields, Zenon
<1>6. Chain(c, o)
  <2>1. ~(c.sn_t + SnMod <= c.sn_t + 0)
    BY <1>5, SnInt
  <2> QED BY <1>4, <2>1 DEF Sent
<1>7. /\ Between(s, c.sn_r, d.sn_t, c.cs_r, d.cs_t) /\ c.sn_r = c.cs_t + 1
      /\ Between(chan[f] \o c.out, d.sn_r, c.sn_t, d.cs_r, c.cs_t)
  BY <1>2, <1>6 DEF Chain
<1>8. /\ Plain(Head(s)) /\ c.sn_r <= Head(s).sn
      /\ Between(Tail(s), c.sn_r, d.sn_t, c.cs_r, d.cs_t)
      /\ Counted(Head(s)) => Between(Tail(s), Head(s).sn + 1, d.sn_t, Head(s).cs, d.cs_t)
  BY <1>1, <1>5, <1>7, TailBetween, Zenon DEF s
<1>9. p.type \notin {"CONNREQ", "CONNRESP"}
  BY <1>3, <1>8 DEF Plain
<1>10. c.sn_t <= c.sn_t /\ c.sn_t <= c.sn_t + 0
  BY <1>5, SMTT(30)
<1>11. View(w) /\ Sent(c.sn_t, 0, c, w)
  <2>1. View(w)
    BY <1>1, <1>2 DEF View
  <2>2. Chain(c, w)
    BY <1>2, <1>7, <1>8 DEF Chain
  <2> QED BY <1>1, <1>10, <2>1, <2>2 DEF Sent
<1>12. ASSUME Counted(p) PROVE View(x) /\ Sent(c.sn_t, 0, c, x)
  <2>1. Counted(Head(s))
    BY <1>3, <1>12 DEF Counted
  <2>2. Between(Tail(s), p.sn + 1, d.sn_t, p.cs, d.cs_t)
    BY <1>3, <1>8, <2>1
  <2>3. View(x)
    BY <1>1, <1>2, <1>3, <2>2 DEF View
  <2>4. c.cs_t <= p.sn
    <3>1. c.sn_r <= p.sn /\ c.sn_r = c.cs_t + 1
      BY <1>3, <1>7, <1>8, Zenon
    <3> QED BY <1>5, <3>1
  <2>5. Chain(c, x)
    BY <1>2, <1>7, <1>8, <2>4 DEF Chain
  <2> QED BY <1>1, <1>10, <2>3, <2>5 DEF Sent
<1> QED BY <1>9, <1>11, <1>12 DEF w, x

(* After a step of e.                                                      *)
LEMMA Settles ==
  ASSUME CInv, Established, NEW e \in Endpoint, NEW link \in Seq(Pdu), NEW taken, NEW c,
         Sent(con[e].sn_t, Most, c, Sees(e, link, taken)),
         con' = [con EXCEPT ![e] = [c EXCEPT !.out = << >>]],
         chan'[e] = link, chan'[Partner[e]] = chan[Partner[e]] \o c.out,
         app'[Client] # "start", NoWrap
  PROVE  Established' /\ \A f \in Endpoint : con'[f].out = << >>
<1> DEFINE f == Partner[e]
           w == Sees(e, link, taken)
           d == [c EXCEPT !.out = << >>]
<1>1. /\ c \in Connection /\ con \in [Endpoint -> Connection] /\ con[e] \in Connection
      /\ f \in Endpoint /\ f # e /\ Partner[f] = e /\ con[f].out = << >>
  BY Other DEF Sent, Bounded, CInv, TypeOK
<1>2. con'[e] = d /\ con'[f] = con[f]
  BY <1>1
<1>3. /\ d.sn_t = c.sn_t /\ d.sn_r = c.sn_r /\ d.cs_t = c.cs_t /\ d.cs_r = c.cs_r /\ d.out = << >>
  BY <1>1 DEF Connection
<1>4. w.peer = con[f] /\ w.in = link /\ w.out = chan[f]
  BY DEF Sees
<1>5. c.sn_t \in Int /\ con[e].sn_t \in Int /\ SnMod \in Int /\ Most \in Int /\ Most < SnMod
  BY <1>1, ConnectionFields, MostFits, SnInt
<1> HIDE DEF d, w
<1>6. con[e].sn_t <= c.sn_t
  <2>1. con'[e] # con[e] => con[e].sn_t <= con'[e].sn_t
    BY DEF NoWrap
  <2>2. con'[e] = con[e] => c.sn_t = con[e].sn_t
    BY <1>2, <1>3
  <2> QED BY <1>2, <1>3, <1>5, <2>1, <2>2
<1>7. Chain(c, w)
  <2>1. ~(c.sn_t + SnMod <= con[e].sn_t + Most)
    BY <1>5, <1>6
  <2> QED BY <2>1 DEF Sent, w
<1>8. /\ d.sn_r = d.cs_t + 1
      /\ Between(link, d.sn_r, con[f].sn_t, d.cs_r, con[f].cs_t)
      /\ Between(chan[f] \o c.out, con[f].sn_r, d.sn_t, con[f].cs_r, d.cs_t)
  BY <1>3, <1>4, <1>7 DEF Chain
<1>9. con[f].sn_r = con[f].cs_t + 1
  BY <1>1 DEF Established
<1>10. ASSUME NEW g \in Endpoint
       PROVE  /\ con'[g].sn_r = con'[g].cs_t + 1 /\ con'[g].out = << >>
              /\ Between(chan'[g], con'[g].sn_r, con'[Partner[g]].sn_t,
                                   con'[g].cs_r, con'[Partner[g]].cs_t)
  <2>1. CASE g = e
    BY <1>2, <1>3, <1>8, <2>1, Zenon
  <2>2. CASE g = f
    BY <1>1, <1>2, <1>8, <1>9, <2>2, Zenon
  <2> QED BY <2>1, <2>2, Other
<1> QED BY <1>10 DEF Established

(* A step that e takes on its own.                                         *)
LEMMA DoEstablished ==
  ASSUME CInv, Established, NEW e \in Endpoint, NEW c, Do(e, c), NoWrap,
         app'[Client] # "start",
         Sent(con[e].sn_t, Most, c, Sees(e, chan[e], {}))
  PROVE  Established' /\ \A f \in Endpoint : con'[f].out = << >>
<1>1. Partner[e] \in Endpoint /\ Partner[e] # e /\ chan \in [Endpoint -> Seq(Pdu)]
  BY Other DEF CInv, TypeOK
<1>2. chan'[e] = chan[e] /\ chan'[Partner[e]] = chan[Partner[e]] \o c.out /\ chan[e] \in Seq(Pdu)
  BY <1>1, Zenon DEF Do
<1>3. con' = [con EXCEPT ![e] = [c EXCEPT !.out = << >>]]
  BY DEF Do
<1> QED BY <1>2, <1>3, Settles, Zenon

(* A step in which e handles a PDU.                                        *)
LEMMA HandleEstablished ==
  ASSUME CInv, Established, NEW e \in Endpoint, chan[e] # << >>, NEW p, NEW c, NEW late,
         Handle(e, p, c, late), NoWrap, NEW taken,
         Sent(con[e].sn_t, Most, c, Sees(e, Tail(chan[e]), taken))
  PROVE  Established' /\ \A f \in Endpoint : con'[f].out = << >>
<1>1. Partner[e] \in Endpoint /\ Partner[e] # e /\ chan \in [Endpoint -> Seq(Pdu)]
  BY Other DEF CInv, TypeOK
<1>2. chan'[e] = Tail(chan[e]) /\ chan'[Partner[e]] = chan[Partner[e]] \o c.out
  BY <1>1, Zenon DEF Handle
<1>3. Tail(chan[e]) \in Seq(Pdu)
  BY <1>1, HeadTailProperties
<1>4. con' = [con EXCEPT ![e] = [c EXCEPT !.out = << >>]]
  BY DEF Handle
<1>5. app'[Client] # "start"
  BY DEF Handle, Established
<1> QED BY <1>2, <1>3, <1>4, <1>5, Settles, Zenon

(* The next PDU is handled.                                                *)
LEMMA ReceiveEstablished ==
  ASSUME CInv, Established, NEW e \in Endpoint, Receive(e), NoWrap
  PROVE  Established' /\ \A f \in Endpoint : con'[f].out = << >>
<1> DEFINE b == con[e].sn_t
           c == con[e]
           w == Sees(e, Tail(chan[e]), {})
           x(p) == Sees(e, Tail(chan[e]), {p})
<1>1. b \in Int /\ b < SnMod
  BY EndsBounded, ConnectionFields DEF CInv
<1>2. chan[e] # << >>
  BY Zenon DEF Receive, ReceiveConReq, ReceiveConResp, ReceiveRejected, ReceiveData, ReceiveRetrReq,
         ReceiveRetrResp, ReceiveRetrData, ReceiveHb, ReceiveDiscReq, Incoming
<1>3. ASSUME NEW p \in Arrivals(e)
      PROVE  /\ p.type \notin {"CONNREQ", "CONNRESP"}
             /\ View(w) /\ Sent(b, 0, c, w)
             /\ p.type # "DISCREQ" => View(x(p)) /\ Sent(b, 0, c, x(p)) /\ p \in x(p).taken
  <2>1. p \in x(p).taken
    BY DEF Sees
  <2> HIDE DEF w, x
  <2> QED BY <1>2, <1>3, <2>1, SeesNext, Zenon DEF Counted, w, x
<1> HIDE DEF b, c
<1>4. ASSUME NEW p, NEW d, NEW late, NEW taken, Handle(e, p, d, late),
             Sent(b, Most, d, Sees(e, Tail(chan[e]), taken))
      PROVE  Established' /\ \A f \in Endpoint : con'[f].out = << >>
  BY <1>2, <1>4, HandleEstablished, Zenon DEF b
<1>5. ~ReceiveConReq(e) /\ ~ReceiveConResp(e)
  BY <1>3, Zenon DEF ReceiveConReq, ReceiveConResp
<1>6. CASE ReceiveRejected(e)
  <2>1. PICK p \in Arrivals(e) : Handle(e, p, c, FALSE)
    BY <1>6, Zenon DEF ReceiveRejected, c
  <2>2. Sent(b, Most, c, w)
    BY <1>1, <1>3, Few, UpToMost, Zenon
  <2> QED BY <1>4, <2>1, <2>2, Zenon
<1>7. CASE ReceiveData(e)
  <2>1. PICK p \in Arrivals(e), late \in Lateness :
          p.type = "DATA" /\ Handle(e, p, handle_data(c, p, late), late)
    BY <1>7 DEF ReceiveData, c
  <2> HIDE DEF x
  <2>2. View(x(p)) /\ Sent(b, 0, c, x(p)) /\ p \in x(p).taken
    BY <1>3, <2>1
  <2>3. Sent(b, Most, handle_data(c, p, late), x(p))
    BY <1>1, <2>2, DataSent
  <2> QED BY <1>4, <2>1, <2>3 DEF x
<1>8. CASE ReceiveRetrReq(e)
  <2>1. PICK p \in Arrivals(e) : p.type = "RETRREQ" /\ Handle(e, p, handle_retrreq(c, p), FALSE)
    BY <1>8, Zenon DEF ReceiveRetrReq, c
  <2> HIDE DEF x
  <2>2. View(x(p)) /\ Sent(b, 0, c, x(p)) /\ p \in x(p).taken
    BY <1>3, <2>1
  <2>3. Sent(b, Most, handle_retrreq(c, p), x(p))
    BY <1>1, <2>2, RetrReqSent
  <2> QED BY <1>4, <2>1, <2>3, Zenon DEF x
<1>9. CASE ReceiveRetrResp(e)
  <2>1. PICK p \in Arrivals(e) : p.type = "RETRRESP" /\ Handle(e, p, handle_retrresp(c, p), FALSE)
    BY <1>9, Zenon DEF ReceiveRetrResp, c
  <2> HIDE DEF x
  <2>2. View(x(p)) /\ Sent(b, 0, c, x(p)) /\ p \in x(p).taken
    BY <1>3, <2>1
  <2>3. Sent(b, Most, handle_retrresp(c, p), x(p))
    BY <1>1, <2>2, RetrRespSent
  <2> QED BY <1>4, <2>1, <2>3, Zenon DEF x
<1>10. CASE ReceiveRetrData(e)
  <2>1. PICK p \in Arrivals(e), late \in Lateness :
          p.type = "RETRDATA" /\ Handle(e, p, handle_retrdata(c, p, late), late)
    BY <1>10 DEF ReceiveRetrData, c
  <2> HIDE DEF x
  <2>2. View(x(p)) /\ Sent(b, 0, c, x(p)) /\ p \in x(p).taken
    BY <1>3, <2>1
  <2>3. Sent(b, Most, handle_retrdata(c, p, late), x(p))
    BY <1>1, <2>2, DataSent
  <2> QED BY <1>4, <2>1, <2>3 DEF x
<1>11. CASE ReceiveHb(e)
  <2>1. PICK p \in Arrivals(e), late \in Lateness :
          p.type = "HB" /\ Handle(e, p, handle_hb(c, p, late, e = Client), late)
    BY <1>11 DEF ReceiveHb, c
  <2> HIDE DEF x
  <2>2. View(x(p)) /\ Sent(b, 0, c, x(p)) /\ p \in x(p).taken
    BY <1>3, <2>1
  <2>3. Sent(b, Most, handle_hb(c, p, late, e = Client), x(p))
    BY <1>1, <2>2, HbSent
  <2> QED BY <1>4, <2>1, <2>3 DEF x
<1>12. CASE ReceiveDiscReq(e)
  <2>1. PICK p \in Arrivals(e) : Handle(e, p, handle_discreq(c), FALSE)
    BY <1>12, Zenon DEF ReceiveDiscReq, c
  <2> HIDE DEF w
  <2>2. Sent(b, Most, handle_discreq(c), w)
    BY <1>1, <1>3, RetrRespSent, Zenon
  <2> QED BY <1>4, <2>1, <2>2, Zenon DEF w
<1> QED BY <1>5, <1>6, <1>7, <1>8, <1>9, <1>10, <1>11, <1>12 DEF Receive

(* The client does not go back to before rasta_connect.                    *)
LEMMA Started ==
  ASSUME TypeOK, app[Client] # "start", NEW e \in Endpoint, NEW a, a # "start",
         app' = app \/ app' = [app EXCEPT ![e] = a]
  PROVE  app'[Client] # "start"
  BY Ends DEF TypeOK

(* The event loop returns.                                                 *)
LEMMA ReturnEstablished ==
  ASSUME CInv, Established, NEW e \in Endpoint, Return(e), NoWrap
  PROVE  Established' /\ \A f \in Endpoint : con'[f].out = << >>
<1> DEFINE b == con[e].sn_t
           c == con[e]
           w == Sees(e, chan[e], {})
<1>1. b \in Int /\ b < SnMod /\ View(w) /\ Sent(b, 0, c, w)
  BY EndsBounded, ConnectionFields, SeesOwn DEF CInv
<1> HIDE DEF w
<1>2. app'[Client] # "start"
  <2>1. \E a \in {"idle", "done", "recv"} : app' = [app EXCEPT ![e] = a]
    BY Zenon DEF Return, OpeningReturns, RastaRecvMessage, RastaRecvWaits, RastaRecvFails
  <2> QED BY <2>1, Started DEF CInv, Established
<1>3. ASSUME NEW d, Sent(b, 0, d, w), Do(e, d)
      PROVE  Established' /\ \A f \in Endpoint : con'[f].out = << >>
  <2>1. Sent(b, Most, d, w)
    BY <1>1, <1>3, Few, UpToMost
  <2> QED BY <1>2, <1>3, <2>1, DoEstablished DEF w
<1>4. CASE OpeningReturns(e)
  <2>1. Sent(b, 0, [c EXCEPT !.brk = FALSE, !.is_new = FALSE], w)
    BY <1>1, FieldsSent, Zenon
  <2> QED BY <1>3, <1>4, <2>1, Zenon DEF OpeningReturns
<1>5. CASE RastaRecvMessage(e)
  <2>1. Sent(b, 0, [c EXCEPT !.fifo_recv = Tail(@), !.brk = FALSE], w)
    BY <1>1, <1>5, FieldsSent, Zenon DEF RastaRecvMessage
  <2> QED BY <1>3, <1>5, <2>1, Zenon DEF RastaRecvMessage
<1>6. CASE RastaRecvWaits(e) \/ RastaRecvFails(e)
  <2>1. Sent(b, 0, [c EXCEPT !.brk = FALSE], w)
    BY <1>1, FieldsSent, Zenon
  <2> QED BY <1>3, <1>6, <2>1, Zenon DEF RastaRecvWaits, RastaRecvFails
<1> QED BY <1>4, <1>5, <1>6, Return(e) DEF Return

(* Every step of an established connection.                                *)
LEMMA NextEstablished ==
  ASSUME CInv, Established, Next, NoWrap
  PROVE  Established' /\ \A f \in Endpoint : con'[f].out = << >>
<1>1. PICK e \in Endpoint :
        \/ Receive(e) \/ TimeoutExpires(e) \/ HeartbeatDue(e) \/ SendDue(e)
        \/ HandshakeTimeout(e) \/ RastaConnect(e) \/ RastaAccept(e) \/ Return(e)
        \/ RastaSend(e) \/ RastaDisconnect(e)
  BY DEF Next
<1> DEFINE b == con[e].sn_t
           c == con[e]
           w == Sees(e, chan[e], {})
<1>2. b \in Int /\ b < SnMod /\ View(w) /\ Sent(b, 0, c, w)
  BY EndsBounded, ConnectionFields, SeesOwn DEF CInv
<1> HIDE DEF w
<1>3. app[Client] # "start" /\ (app' = app => app'[Client] # "start")
  BY DEF Established
<1>4. ASSUME NEW d, Sent(b, Most, d, w), Do(e, d), app'[Client] # "start"
      PROVE  Established' /\ \A f \in Endpoint : con'[f].out = << >>
  BY <1>4, DoEstablished DEF w
<1>5. /\ Sent(b, Most, event_connection_expired(c), w)
      /\ Sent(b, Most, heartbeat_send_event(c), w)
      /\ Sent(b, Most, data_send_event(c), w)
      /\ Sent(b, Most, sr_close_connection(c), w)
      /\ \A m \in Message : Sent(b, Most, sr_send(c, m), w)
  BY <1>2, CallsSent
<1>6. CASE Receive(e)
  BY <1>6, ReceiveEstablished
<1>7. CASE TimeoutExpires(e)
  BY <1>3, <1>4, <1>5, <1>7, Zenon DEF TimeoutExpires
<1>8. CASE HeartbeatDue(e)
  BY <1>3, <1>4, <1>5, <1>8, Zenon DEF HeartbeatDue
<1>9. CASE SendDue(e)
  BY <1>3, <1>4, <1>5, <1>9, Zenon DEF SendDue
<1>10. CASE HandshakeTimeout(e)
  <2>1. Sent(b, 0, Break(c), w)
    BY <1>2, FieldsSent, Zenon
  <2>2. Sent(b, Most, Break(c), w)
    BY <1>2, <2>1, Few, UpToMost
  <2> QED BY <1>3, <1>4, <1>10, <2>2, Zenon DEF HandshakeTimeout
<1>11. CASE RastaConnect(e)
  BY <1>3, <1>11 DEF RastaConnect
<1>12. CASE RastaAccept(e)
  <2>1. con' = con /\ chan' = chan
    BY <1>12 DEF RastaAccept
  <2>2. app'[Client] # "start"
    BY <1>3, <1>12, Started, "opening" # "start" DEF RastaAccept, CInv
  <2> QED BY <2>1, <2>2 DEF Established, CInv
<1>13. CASE Return(e)
  BY <1>13, ReturnEstablished
<1>14. CASE RastaSend(e)
  <2>1. accepted[e] + 1 \in Message
    BY DEF CInv, TypeOK, Message
  <2>2. Sent(b, Most, sr_send(c, accepted[e] + 1), w)
    BY <1>5, <2>1
  <2> QED BY <1>3, <1>4, <1>14, <2>2, Zenon DEF RastaSend
<1>15. CASE RastaDisconnect(e)
  <2>1. app'[Client] # "start"
    <3>1. app' = [app EXCEPT ![e] = "done"] /\ "done" # "start"
      BY <1>15 DEF RastaDisconnect
    <3> QED BY <1>3, <3>1, Started DEF CInv
  <2> QED BY <1>4, <1>5, <1>15, <2>1, Zenon DEF RastaDisconnect
<1> QED BY <1>1, <1>6, <1>7, <1>8, <1>9, <1>10, <1>11, <1>12, <1>13, <1>14, <1>15
=============================================================================

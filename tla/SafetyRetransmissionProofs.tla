--------------------- MODULE SafetyRetransmissionProofs ---------------------
(***************************************************************************)
(* Type correctness of the safety and retransmission layer, and that its   *)
(* three queues stay within their sizes, for every configuration.  Then    *)
(* that supervision ends only with the connection.                         *)
(***************************************************************************)
EXTENDS SafetyRetransmission, SequenceTheorems, WellFoundedInduction, TLAPS

\* What every handler preserves: a connection whose queues are within their sizes.
Bounded(c) ==
  /\ c \in Connection
  /\ Len(c.fifo_send) <= SendSize
  /\ Len(c.fifo_retr) <= RetransmissionSize
  /\ Len(c.fifo_recv) <= ReceiveSize

(* A remainder by SnMod is a sequence number.                              *)
LEMMA ModSn ==
  ASSUME NEW n \in Int
  PROVE  n % SnMod \in Sn
  BY SnAssumption DEF Sn

(* Counting on from a sequence number, in the width of the code, gives a   *)
(* sequence number.                                                        *)
LEMMA NextSn ==
  ASSUME NEW n \in Sn, NEW k \in Nat
  PROVE  (n + 1) % SnMod \in Sn /\ (n + k) % SnMod \in Sn
<1>1. n + 1 \in Int /\ n + k \in Int
  BY SnAssumption DEF Sn
<1> QED BY <1>1, ModSn

(* What Least returns for two integers.                                    *)
LEMMA LeastOfTwo ==
  ASSUME NEW a \in Int, NEW b \in Int
  PROVE  /\ Least({a, b}) \in {a, b}
         /\ Least({a, b}) <= a /\ Least({a, b}) <= b
<1>1. \E x \in {a, b} : \A y \in {a, b} : x <= y
  <2>1. CASE a <= b BY <2>1
  <2>2. CASE b <= a BY <2>2
  <2> QED BY <2>1, <2>2
<1> QED BY <1>1 DEF Least

(* What Least returns for three integers, as in data_send_event.           *)
LEMMA LeastOfThree ==
  ASSUME NEW a \in Int, NEW b \in Int, NEW d \in Int
  PROVE  /\ Least({a, b, d}) \in {a, b, d}
         /\ Least({a, b, d}) <= a /\ Least({a, b, d}) <= b /\ Least({a, b, d}) <= d
<1>1. \E x \in {a, b, d} : \A y \in {a, b, d} : x <= y
  <2>1. CASE a <= b /\ a <= d BY <2>1
  <2>2. CASE b <= a /\ b <= d BY <2>2
  <2>3. CASE d <= a /\ d <= b BY <2>3
  <2> QED BY <2>1, <2>2, <2>3
<1> QED BY <1>1 DEF Least

(* A nonempty set of natural numbers has a smallest element.               *)
LEMMA SmallestNat ==
  ASSUME NEW S \in SUBSET Nat, S # {}
  PROVE  \E x \in S : \A y \in S : x <= y
<1> DEFINE R == OpToRel(<, Nat)
<1>1. IsWellFoundedOn(R, Nat)
  BY NatLessThanWellFounded, Zenon
<1>2. R = {ss \in Nat \X Nat : ss[1] < ss[2]}
  BY DEF OpToRel
<1> HIDE DEF R
<1>3. PICK x \in S : \A y \in S : ~(<<y, x>> \in R)
  BY <1>1, WFMin, Zenon
<1>4. ASSUME NEW y \in S PROVE x <= y
  <2>1. x \in Nat /\ y \in Nat /\ <<y, x>> \in Nat \X Nat /\ <<y, x>> \notin R
    BY <1>3
  <2>2. ~(<<y, x>>[1] < <<y, x>>[2])
    BY <1>2, <2>1
  <2> QED BY <2>1, <2>2
<1> QED BY <1>4

(* A function on 1..n is a sequence of length n.                           *)
LEMMA FunctionIsSeq ==
  ASSUME NEW S, NEW n \in Nat, NEW f \in [1..n -> S]
  PROVE  f \in Seq(S) /\ Len(f) = n /\ DOMAIN f = 1..n
<1>1. f \in Seq(S)
  BY SeqDef
<1> QED BY <1>1, LenProperties

(* Cutting a queue in two keeps the types and the total length.            *)
LEMMA PrefixFacts ==
  ASSUME NEW S, NEW s \in Seq(S), NEW n \in 0..Len(s)
  PROVE  /\ SubSeq(s, 1, n) \in Seq(S) /\ Len(SubSeq(s, 1, n)) = n
         /\ SubSeq(s, n + 1, Len(s)) \in Seq(S) /\ Len(SubSeq(s, n + 1, Len(s))) = Len(s) - n
  BY SubSeqProperties

-----------------------------------------------------------------------------
(* messages.c and closing.                                                 *)

(* Sending a PDU keeps the types and the bounds.                           *)
LEMMA EmitBounded ==
  ASSUME NEW c, Bounded(c), NEW type \in Type, NEW data \in Seq(Message)
  PROVE  Bounded(Emit(c, type, data))
<1> DEFINE pdu == [type |-> type, sn |-> c.sn_t, cs |-> c.cs_t, data |-> data, to |-> TRUE, sum |-> TRUE]
<1>1. pdu \in Pdu
  BY DEF Bounded, Connection, Pdu
<1>2. Append(c.out, pdu) \in Seq(Pdu)
  BY <1>1 DEF Bounded, Connection
<1> QED
  BY <1>2, Zenon DEF Bounded, Connection, Emit

(* So does sending one that takes a sequence number.                       *)
LEMMA CountBounded ==
  ASSUME NEW c, Bounded(c), NEW type \in Type, NEW data \in Seq(Message)
  PROVE  Bounded(EmitAndCount(c, type, data))
<1>1. Bounded(Emit(c, type, data))
  BY EmitBounded
<1>2. Emit(c, type, data).sn_t \in Sn
  BY <1>1 DEF Bounded, Connection
<1>3. (Emit(c, type, data).sn_t + 1) % SnMod \in Sn
  BY <1>2, NextSn
<1> QED
  BY <1>1, <1>3, Zenon DEF Bounded, Connection, EmitAndCount

(* A PDU without messages carries the empty sequence.                      *)
LEMMA EmptyData == << >> \in Seq(Message)
  OBVIOUS

(* The PDUs of messages.c that carry no messages keep the types and the    *)
(* bounds.                                                                 *)
LEMMA SendsBounded ==
  ASSUME NEW c, Bounded(c)
  PROVE  /\ Bounded(sendDisconnectionRequest(c))
         /\ Bounded(sendHeartbeat(c))
         /\ Bounded(sendRetransmissionRequest(c))
         /\ Bounded(sendRetransmissionResponse(c))
  BY EmptyData, EmitBounded, CountBounded, Zenon
  DEF sendDisconnectionRequest, sendHeartbeat, sendRetransmissionRequest,
      sendRetransmissionResponse, Type

(* Changing the state keeps the types and the bounds.                      *)
LEMMA StateBounded ==
  ASSUME NEW c, Bounded(c), NEW s \in State
  PROVE  Bounded([c EXCEPT !.state = s])
  BY Zenon DEF Bounded, Connection

(* Asking the event loop to return keeps the types and the bounds.         *)
LEMMA BreakBounded ==
  ASSUME NEW c, Bounded(c)
  PROVE  Bounded(Break(c))
  BY Zenon DEF Bounded, Connection, Break

(* sr_reset_connection and sr_close_connection keep the types and the      *)
(* bounds.                                                                 *)
LEMMA CloseBounded ==
  ASSUME NEW c, Bounded(c)
  PROVE  Bounded(sr_reset_connection(c)) /\ Bounded(sr_close_connection(c))
<1>1. Bounded(sr_reset_connection(c))
  BY Zenon DEF Bounded, Connection, sr_reset_connection, State
<1> QED
  BY <1>1, SendsBounded DEF sr_close_connection

-----------------------------------------------------------------------------
(* The queues.                                                             *)

(* What data_send_event puts into one Data PDU leaves fifo_send and fits   *)
(* into fifo_retr.                                                         *)
LEMMA SendQueuedBounded ==
  ASSUME NEW c, Bounded(c), NEW n \in Nat, n <= Len(c.fifo_send),
         Len(c.fifo_retr) + 1 <= RetransmissionSize
  PROVE  Bounded(SendQueued(c, n))
<1> DEFINE data == SubSeq(c.fifo_send, 1, n)
           left == SubSeq(c.fifo_send, n + 1, Len(c.fifo_send))
           d == EmitAndCount(c, "DATA", data)
           q == [sn |-> c.sn_t, data |-> data]
<1>1. c.fifo_send \in Seq(Message) /\ c.fifo_retr \in Seq(Queued) /\ c.sn_t \in Sn
  BY DEF Bounded, Connection
<1>2. n \in 0..Len(c.fifo_send)
  BY <1>1
<1>3. data \in Seq(Message) /\ left \in Seq(Message) /\ Len(left) = Len(c.fifo_send) - n
  BY <1>1, <1>2, PrefixFacts
<1>4. Bounded(d)
  BY <1>3, CountBounded, Zenon DEF Type
<1>5. d.fifo_send = c.fifo_send /\ d.fifo_retr = c.fifo_retr
  BY DEF Bounded, Connection, EmitAndCount, Emit
<1>6. q \in Queued
  BY <1>1, <1>3 DEF Queued
<1>7. Append(c.fifo_retr, q) \in Seq(Queued) /\ Len(Append(c.fifo_retr, q)) = Len(c.fifo_retr) + 1
  BY <1>1, <1>6
<1>8. Len(left) <= SendSize
  BY <1>1, <1>3, SizesAssumption DEF Bounded, SendSize
<1>9. SendQueued(c, n) = [d EXCEPT !.fifo_retr = Append(@, q), !.fifo_send = SubSeq(@, n + 1, Len(@))]
  BY DEF SendQueued
<1>10. SendQueued(c, n) = [d EXCEPT !.fifo_retr = Append(c.fifo_retr, q), !.fifo_send = left]
  BY <1>4, <1>5, <1>9, Zenon DEF Bounded, Connection
<1> QED
  BY <1>3, <1>4, <1>7, <1>8, <1>10, Zenon DEF Bounded, Connection

(* data_send_event sends only what fits into fifo_retr: both queues stay   *)
(* within their sizes.                                                     *)
LEMMA SendEventBounded ==
  ASSUME NEW c, Bounded(c)
  PROVE  Bounded(data_send_event(c))
<1> DEFINE room == RetransmissionSize - Len(c.fifo_retr)
           n == Least({room, Len(c.fifo_send), MaxPacket})
           d == IF n > 0 THEN SendQueued(c, n) ELSE c
<1>1. /\ Len(c.fifo_send) \in Nat /\ Len(c.fifo_retr) \in Nat /\ room \in Int
      /\ MaxPacket \in Int
  BY SizesAssumption DEF Bounded, Connection
<1>2. /\ n \in {room, Len(c.fifo_send), MaxPacket}
      /\ n <= room /\ n <= Len(c.fifo_send)
  <2> DEFINE waiting == Len(c.fifo_send)
  <2>1. waiting \in Int
    BY <1>1
  <2> HIDE DEF room, waiting
  <2>2. /\ Least({room, waiting, MaxPacket}) \in {room, waiting, MaxPacket}
        /\ Least({room, waiting, MaxPacket}) <= room /\ Least({room, waiting, MaxPacket}) <= waiting
    BY <1>1, <2>1, LeastOfThree, Zenon
  <2> QED BY <2>2 DEF waiting
<1>3. n \in Int
  BY <1>1, <1>2
<1>4. Bounded(d)
  <2>1. CASE n > 0
    <3>1. n \in Nat /\ Len(c.fifo_retr) + 1 <= RetransmissionSize
      <4> HIDE DEF n
      <4> QED BY <2>1, <1>1, <1>2, <1>3, SizesAssumption
    <3>2. Bounded(SendQueued(c, n))
      <4> HIDE DEF n
      <4> QED BY <3>1, <1>2, SendQueuedBounded
    <3> QED BY <2>1, <3>2
  <2>2. CASE ~(n > 0)
    BY <2>2
  <2> QED BY <2>1, <2>2
<1>5. data_send_event(c) = [d EXCEPT !.send_on = @ /\ d.fifo_send # << >>]
  BY DEF data_send_event
<1> HIDE DEF d
<1>6. (d.send_on /\ d.fifo_send # << >>) \in BOOLEAN
  OBVIOUS
<1>7. [d EXCEPT !.send_on = @ /\ d.fifo_send # << >>] = [d EXCEPT !.send_on = (d.send_on /\ d.fifo_send # << >>)]
  BY <1>4 DEF Bounded, Connection
<1> QED
  BY <1>4, <1>5, <1>6, <1>7, Zenon DEF Bounded, Connection

(* What is left of fifo_retr after a confirmation is not longer than       *)
(* before.                                                                 *)
LEMMA PopBounded ==
  ASSUME NEW q \in Seq(Queued), NEW cs_r
  PROVE  PopConfirmed(q, cs_r) \in Seq(Queued) /\ Len(PopConfirmed(q, cs_r)) <= Len(q)
<1> DEFINE hits == {i \in DOMAIN q : q[i].sn = cs_r}
<1>1. CASE hits = {}
  BY <1>1 DEF PopConfirmed
<1>2. CASE hits # {}
  <2>1. Least(hits) \in 1..Len(q)
    <3>1. \E x \in hits : \A y \in hits : x <= y
      <4>1. hits \subseteq Nat /\ hits # {}
        BY <1>2
      <4> HIDE DEF hits
      <4> QED BY <4>1, SmallestNat
    <3>2. Least(hits) \in hits
      <4> HIDE DEF hits
      <4> QED BY <3>1 DEF Least
    <3> QED BY <3>2
  <2>2. PopConfirmed(q, cs_r) = SubSeq(q, Least(hits) + 1, Len(q))
    BY <1>2, Zenon DEF PopConfirmed
  <2> HIDE DEF hits
  <2>3. Least(hits) \in 0..Len(q)
    BY <2>1
  <2> QED BY <2>1, <2>2, <2>3, PrefixFacts
<1> QED BY <1>1, <1>2

(* Removing what the peer confirmed keeps the types and the bounds.        *)
LEMMA PopKeepsBounds ==
  ASSUME NEW c, Bounded(c)
  PROVE  Bounded([c EXCEPT !.fifo_retr = PopConfirmed(@, c.cs_r)])
<1> DEFINE left == PopConfirmed(c.fifo_retr, c.cs_r)
           d == [c EXCEPT !.fifo_retr = PopConfirmed(@, c.cs_r)]
<1>1. c.fifo_retr \in Seq(Queued)
  BY DEF Bounded, Connection
<1>2. left \in Seq(Queued) /\ Len(left) <= Len(c.fifo_retr)
  BY <1>1, PopBounded
<1>3. Len(left) <= RetransmissionSize
  BY <1>1, <1>2, SizesAssumption DEF Bounded
<1> HIDE DEF left
<1>4. d = [c EXCEPT !.fifo_retr = left]
  BY DEF left, Bounded, Connection
<1> QED BY <1>2, <1>3, <1>4, Zenon DEF Bounded, Connection

(* sr_remove_confirmed_messages, its flush of a full fifo_send included,   *)
(* keeps the types and the bounds.                                         *)
LEMMA RemoveBounded ==
  ASSUME NEW c, Bounded(c)
  PROVE  Bounded(sr_remove_confirmed_messages(c))
<1> DEFINE d == [c EXCEPT !.fifo_retr = PopConfirmed(@, c.cs_r)]
<1>1. Bounded(d)
  BY PopKeepsBounds
<1>2. sr_remove_confirmed_messages(c) \in {d, data_send_event(d)}
  BY DEF sr_remove_confirmed_messages
<1> HIDE DEF d
<1> QED BY <1>1, <1>2, SendEventBounded

(* sr_add_app_messages_to_buffer takes only what fifo_recv has room for.   *)
LEMMA AddBounded ==
  ASSUME NEW c, Bounded(c), NEW p \in Pdu
  PROVE  Bounded(sr_add_app_messages_to_buffer(c, p))
<1> DEFINE room == ReceiveSize - Len(c.fifo_recv)
           n == Least({room, Len(p.data)})
           taken == SubSeq(p.data, 1, n)
<1>1. /\ c.fifo_recv \in Seq(Message) /\ p.data \in Seq(Message)
      /\ Len(c.fifo_recv) \in Nat /\ Len(p.data) \in Nat
      /\ room \in Nat
  BY SizesAssumption DEF Bounded, Connection, Pdu
<1>2. n \in 0..Len(p.data) /\ n <= room
  <2> DEFINE arrived == Len(p.data)
  <2>1. arrived \in Nat /\ room \in Nat
    BY <1>1
  <2> HIDE DEF room, arrived
  <2>2. /\ Least({room, arrived}) \in {room, arrived}
        /\ Least({room, arrived}) <= room /\ Least({room, arrived}) <= arrived
    BY <2>1, LeastOfTwo
  <2> QED BY <2>1, <2>2 DEF arrived
<1>3. taken \in Seq(Message) /\ Len(taken) = n
  <2> HIDE DEF n
  <2> QED BY <1>1, <1>2, PrefixFacts
<1>4. c.fifo_recv \o taken \in Seq(Message) /\ Len(c.fifo_recv \o taken) <= ReceiveSize
  <2> HIDE DEF n, taken
  <2>1. c.fifo_recv \o taken \in Seq(Message) /\ Len(c.fifo_recv \o taken) = Len(c.fifo_recv) + Len(taken)
    BY <1>1, <1>3, ConcatProperties, Zenon
  <2> QED BY <1>1, <1>2, <1>3, <2>1, SizesAssumption
<1>5. sr_add_app_messages_to_buffer(c, p) = [c EXCEPT !.fifo_recv = @ \o taken]
  BY DEF sr_add_app_messages_to_buffer
<1> HIDE DEF taken
<1>6. sr_add_app_messages_to_buffer(c, p) = [c EXCEPT !.fifo_recv = c.fifo_recv \o taken]
  BY <1>5 DEF Bounded, Connection
<1> QED
  BY <1>4, <1>6, Zenon DEF Bounded, Connection

\* What sr_retransmit_data leaves in fifo_retr and sends, and the connection
\* before its heartbeat.
Again(c) ==
  [i \in DOMAIN c.fifo_retr |-> [c.fifo_retr[i] EXCEPT !.sn = (c.sn_t + i - 1) % SnMod]]

AgainPdus(c) ==
  [i \in DOMAIN Again(c) |->
     [type |-> "RETRDATA", sn |-> Again(c)[i].sn, cs |-> c.cs_t,
      data |-> Again(c)[i].data, to |-> TRUE, sum |-> TRUE]]

Repeated(c) ==
  [c EXCEPT !.fifo_retr = Again(c), !.out = @ \o AgainPdus(c),
            !.sn_t = (@ + Len(Again(c))) % SnMod]

(* sr_retransmit_data ends with a heartbeat after the repeated PDUs.       *)
LEMMA RetransmitIsRepeated ==
  ASSUME NEW c
  PROVE  sr_retransmit_data(c) = sendHeartbeat(Repeated(c))
  BY DEF sr_retransmit_data, Repeated, AgainPdus, Again

(* Repeating the PDUs of fifo_retr under new numbers keeps the types and   *)
(* the bounds.                                                             *)
LEMMA RepeatedBounded ==
  ASSUME NEW c, Bounded(c)
  PROVE  Bounded(Repeated(c)) /\ AgainPdus(c) \in Seq(Pdu)
<1> DEFINE again == [i \in DOMAIN c.fifo_retr |->
                       [c.fifo_retr[i] EXCEPT !.sn = (c.sn_t + i - 1) % SnMod]]
           pdus == [i \in DOMAIN again |->
                      [type |-> "RETRDATA", sn |-> again[i].sn, cs |-> c.cs_t,
                       data |-> again[i].data, to |-> TRUE, sum |-> TRUE]]
           d == [c EXCEPT !.fifo_retr = again, !.out = @ \o pdus, !.sn_t = (@ + Len(again)) % SnMod]
<1>0. again = Again(c) /\ pdus = AgainPdus(c) /\ d = Repeated(c)
  BY DEF Again, AgainPdus, Repeated
<1>1. /\ c.fifo_retr \in Seq(Queued) /\ c.sn_t \in Sn /\ c.cs_t \in Sn /\ c.out \in Seq(Pdu)
      /\ Len(c.fifo_retr) \in Nat /\ DOMAIN c.fifo_retr = 1..Len(c.fifo_retr)
  BY DEF Bounded, Connection
<1>2. \A i \in 1..Len(c.fifo_retr) : again[i] \in Queued
  <2> SUFFICES ASSUME NEW i \in 1..Len(c.fifo_retr) PROVE again[i] \in Queued
    BY Zenon
  <2>1. c.sn_t + i - 1 \in Int
    BY <1>1, SnAssumption DEF Sn
  <2>2. (c.sn_t + i - 1) % SnMod \in Sn
    BY <2>1, ModSn
  <2>3. c.fifo_retr[i] \in Queued
    BY <1>1
  <2>4. again[i] = [c.fifo_retr[i] EXCEPT !.sn = (c.sn_t + i - 1) % SnMod]
    BY <1>1
  <2> QED BY <2>2, <2>3, <2>4 DEF Queued
<1>3. again \in Seq(Queued) /\ Len(again) = Len(c.fifo_retr) /\ DOMAIN again = 1..Len(c.fifo_retr)
  <2>1. again \in [1..Len(c.fifo_retr) -> Queued]
    BY <1>1, <1>2, Zenon
  <2> QED BY <1>1, <2>1, FunctionIsSeq
<1> HIDE DEF again
<1>4. \A i \in 1..Len(c.fifo_retr) : pdus[i] \in Pdu
  BY <1>1, <1>2, <1>3 DEF Pdu, Queued, Type
<1>5. pdus \in Seq(Pdu)
  <2>1. pdus \in [1..Len(c.fifo_retr) -> Pdu]
    BY <1>1, <1>3, <1>4, Zenon
  <2> HIDE DEF pdus
  <2> QED BY <1>1, <2>1, FunctionIsSeq
<1> HIDE DEF pdus
<1>6. c.out \o pdus \in Seq(Pdu)
  BY <1>1, <1>5, ConcatProperties
<1>7. (c.sn_t + Len(again)) % SnMod \in Sn
  BY <1>1, <1>3, NextSn, Zenon
<1>8. d = [c EXCEPT !.fifo_retr = again, !.out = c.out \o pdus, !.sn_t = (c.sn_t + Len(again)) % SnMod]
  BY DEF Bounded, Connection
<1>9. Len(again) <= RetransmissionSize
  BY <1>3 DEF Bounded
<1>10. Bounded(d)
  BY <1>3, <1>6, <1>7, <1>8, <1>9, Zenon DEF Bounded, Connection
<1> HIDE DEF d
<1> QED BY <1>0, <1>5, <1>10

(* sr_retransmit_data keeps the types and the bounds.                      *)
LEMMA RetransmitBounded ==
  ASSUME NEW c, Bounded(c)
  PROVE  Bounded(sr_retransmit_data(c))
  BY RepeatedBounded, RetransmitIsRepeated, SendsBounded

-----------------------------------------------------------------------------
(* The handlers.                                                           *)

(* The assignments a handler makes from the numbers of a PDU keep the      *)
(* types and the bounds.                                                   *)
LEMMA UpdatesBounded ==
  ASSUME NEW c, Bounded(c), NEW p \in Pdu
  PROVE  /\ Bounded(update_connection_attrs(c, p))
         /\ Bounded(update_confirmed_attrs(c, p))
         /\ Bounded(Confirm(c, p))
<1>1. p.sn \in Sn /\ p.cs \in Sn /\ (p.type # "CONNREQ") \in BOOLEAN
  BY DEF Pdu
<1>2. (p.sn + 1) % SnMod \in Sn
  BY <1>1, NextSn
<1>3. Bounded(update_connection_attrs(c, p))
  BY <1>1, <1>2, Zenon DEF Bounded, Connection, update_connection_attrs
<1>4. Bounded(update_confirmed_attrs(c, p))
  BY <1>1, Zenon DEF Bounded, Connection, update_confirmed_attrs
<1>5. Bounded(Confirm(c, p))
  BY <1>1 DEF Bounded, Connection, Confirm
<1> QED BY <1>3, <1>4, <1>5

(* Asking for a retransmission keeps the types and the bounds.             *)
LEMMA RequestBounded ==
  ASSUME NEW c, Bounded(c)
  PROVE  Bounded(RequestRetransmission(c))
  BY SendsBounded, StateBounded, Zenon DEF RequestRetransmission, State

(* handle_data keeps the types and the bounds.                             *)
LEMMA DataBounded ==
  ASSUME NEW c, Bounded(c), NEW p \in Pdu, NEW late
  PROVE  Bounded(handle_data(c, p, late))
<1>1. Bounded(TakeData(c, p))
  BY AddBounded, UpdatesBounded, RemoveBounded, BreakBounded DEF TakeData
<1>2. handle_data(c, p, late) \in {sr_close_connection(c), TakeData(c, p),
        update_connection_attrs(c, p), RequestRetransmission(c), c}
  BY DEF handle_data
<1> QED BY <1>1, <1>2, CloseBounded, UpdatesBounded, RequestBounded

(* handle_retrreq keeps the types and the bounds.                          *)
LEMMA RetrReqBounded ==
  ASSUME NEW c, Bounded(c), NEW p \in Pdu
  PROVE  Bounded(handle_retrreq(c, p))
<1>1. ASSUME NEW d, Bounded(d) PROVE Bounded(AnswerRetransmission(d, p))
  BY <1>1, UpdatesBounded, RemoveBounded, SendsBounded, RetransmitBounded DEF AnswerRetransmission
<1> DEFINE d == IF c.state = "RETRRUN" THEN sr_close_connection(c) ELSE c
<1>2. Bounded(d)
  BY CloseBounded
<1>3. handle_retrreq(c, p) \in {AnswerRetransmission(update_connection_attrs(d, p), p),
                                [AnswerRetransmission(c, p) EXCEPT !.state = "RETRREQ"]}
  BY DEF handle_retrreq
<1> HIDE DEF d
<1>4. Bounded(update_connection_attrs(d, p))
  BY <1>2, UpdatesBounded
<1> QED BY <1>1, <1>3, <1>4, StateBounded, Zenon DEF State

(* handle_retrresp keeps the types and the bounds.                         *)
LEMMA RetrRespBounded ==
  ASSUME NEW c, Bounded(c), NEW p \in Pdu
  PROVE  Bounded(handle_retrresp(c, p))
<1>1. Bounded([c EXCEPT !.state = "RETRRUN"])
  BY StateBounded, Zenon DEF State
<1> QED BY <1>1, UpdatesBounded, CloseBounded DEF handle_retrresp

(* handle_retrdata keeps the types and the bounds.                         *)
LEMMA RetrDataBounded ==
  ASSUME NEW c, Bounded(c), NEW p \in Pdu, NEW late
  PROVE  Bounded(handle_retrdata(c, p, late))
<1>1. Bounded(TakeRetransmitted(c, p))
  BY AddBounded, UpdatesBounded, BreakBounded DEF TakeRetransmitted
<1>2. handle_retrdata(c, p, late) \in {sr_close_connection(c), TakeRetransmitted(c, p),
        RequestRetransmission(c), c}
  BY DEF handle_retrdata
<1> QED BY <1>1, <1>2, CloseBounded, RequestBounded

(* A connection that goes up.                                              *)
LEMMA UpBounded ==
  ASSUME NEW c, Bounded(c)
  PROVE  /\ Bounded([c EXCEPT !.state = "UP", !.hb_locked = FALSE, !.is_new = TRUE,
                              !.heartbeat_on = TRUE, !.timeout_on = TRUE])
         /\ Bounded([c EXCEPT !.heartbeat_on = TRUE, !.hb_locked = FALSE, !.timeout_on = TRUE])
         /\ Bounded([c EXCEPT !.heartbeat_on = FALSE, !.timeout_on = FALSE])
  BY Zenon DEF Bounded, Connection, State

(* handle_hb keeps the types and the bounds.                               *)
LEMMA HbBounded ==
  ASSUME NEW c, Bounded(c), NEW p \in Pdu, NEW late, NEW isClient
  PROVE  Bounded(handle_hb(c, p, late, isClient))
<1>1. Bounded(CompleteHandshake(c, p, late, isClient))
  <2> DEFINE d1 == IF sr_sn_in_seq(c, p) THEN c ELSE sr_close_connection(c)
             d2 == IF isClient THEN sr_close_connection(d1) ELSE d1
             up == Confirm(update_connection_attrs(d2, p), p)
  <2>1. Bounded(d1)
    BY CloseBounded
  <2>2. Bounded(d2)
    <3> HIDE DEF d1
    <3> QED BY <2>1, CloseBounded
  <2>3. CompleteHandshake(c, p, late, isClient) \in
          {Break([up EXCEPT !.state = "UP", !.hb_locked = FALSE, !.is_new = TRUE,
                            !.heartbeat_on = TRUE, !.timeout_on = TRUE]), sr_close_connection(d2)}
    BY DEF CompleteHandshake
  <2> HIDE DEF d2
  <2>4. Bounded(up)
    BY <2>2, UpdatesBounded
  <2> HIDE DEF up
  <2> QED BY <2>2, <2>3, <2>4, UpBounded, BreakBounded, CloseBounded, Zenon
<1>2. Bounded(TakeHeartbeat(c, p))
  BY UpdatesBounded, RemoveBounded, StateBounded, Zenon DEF TakeHeartbeat, State
<1>3. handle_hb(c, p, late, isClient) \in {CompleteHandshake(c, p, late, isClient),
        TakeHeartbeat(c, p), sr_close_connection(c), [c EXCEPT !.state = "RETRREQ"], c}
  BY DEF handle_hb
<1> QED BY <1>1, <1>2, <1>3, CloseBounded, StateBounded, Zenon DEF State

(* Numbers that are taken from the configuration.                          *)
LEMMA StartBounded ==
  ASSUME NEW c, Bounded(c)
  PROVE  /\ Bounded([sr_reset_connection(c) EXCEPT !.sn_t = c.initial, !.state = "DOWN"])
         /\ Bounded(sr_connect(c))
<1>1. Bounded(sr_reset_connection(c)) /\ c.initial \in Sn
  BY CloseBounded DEF Bounded, Connection
<1>2. Bounded([sr_reset_connection(c) EXCEPT !.sn_t = c.initial, !.state = "DOWN"])
  BY <1>1, Zenon DEF Bounded, Connection, State
<1> DEFINE d == [sr_reset_connection(c) EXCEPT !.sn_t = c.initial, !.cs_t = 0, !.cts_set = TRUE]
<1>3. 0 \in Sn
  BY SnAssumption DEF Sn
<1>4. Bounded(d)
  BY <1>1, <1>3, Zenon DEF Bounded, Connection
<1>5. sr_connect(c) = [EmitAndCount(d, "CONNREQ", << >>) EXCEPT !.state = "START"]
  BY DEF sr_connect
<1> HIDE DEF d
<1>6. Bounded(EmitAndCount(d, "CONNREQ", << >>))
  BY <1>4, CountBounded, EmptyData, Zenon DEF Type
<1> QED BY <1>2, <1>5, <1>6, StateBounded, Zenon DEF State

(* handle_conreq keeps the types and the bounds.                           *)
LEMMA ConReqBounded ==
  ASSUME NEW c, Bounded(c), NEW p \in Pdu, NEW accept
  PROVE  Bounded(handle_conreq(c, p, accept))
<1> DEFINE d == [sr_reset_connection(c) EXCEPT !.sn_t = c.initial, !.state = "DOWN"]
           u == update_confirmed_attrs(update_connection_attrs(d, p), p)
<1>1. Bounded(d)
  BY StartBounded, Zenon
<1>2. handle_conreq(c, p, accept) \in
        {sr_close_connection(d), sr_close_connection(c), [EmitAndCount(u, "CONNRESP", << >>) EXCEPT !.state = "START"]}
  BY DEF handle_conreq
<1> HIDE DEF d
<1>3. Bounded(u)
  BY <1>1, UpdatesBounded
<1> HIDE DEF u
<1>4. Bounded(EmitAndCount(u, "CONNRESP", << >>))
  BY <1>3, CountBounded, EmptyData, Zenon DEF Type
<1> QED BY <1>1, <1>2, <1>4, CloseBounded, StateBounded, Zenon DEF State

(* handle_conresp keeps the types and the bounds.                          *)
LEMMA ConRespBounded ==
  ASSUME NEW c, Bounded(c), NEW p \in Pdu, NEW isClient, NEW accept
  PROVE  Bounded(handle_conresp(c, p, isClient, accept))
<1>1. Bounded(GoUp(c, p))
  BY UpdatesBounded, StateBounded, SendsBounded, UpBounded, Zenon DEF GoUp, State
<1>2. handle_conresp(c, p, isClient, accept) \in {sr_close_connection(c), GoUp(c, p), c}
  BY DEF handle_conresp
<1> QED BY <1>1, <1>2, CloseBounded

-----------------------------------------------------------------------------
(* Timers and the application.                                             *)

(* The timed events keep the types and the bounds.                         *)
LEMMA TimersBounded ==
  ASSUME NEW c, Bounded(c)
  PROVE  /\ Bounded(event_connection_expired(c))
         /\ Bounded(heartbeat_send_event(c))
<1> DEFINE d == IF c.state \in Open THEN sr_close_connection(c) ELSE c
<1>1. Bounded(d)
  BY CloseBounded
<1>2. event_connection_expired(c) \in {c, Break([d EXCEPT !.heartbeat_on = FALSE, !.timeout_on = FALSE])}
  BY DEF event_connection_expired
<1> HIDE DEF d
<1>3. Bounded(event_connection_expired(c))
  BY <1>1, <1>2, UpBounded, BreakBounded, Zenon
<1> QED BY <1>3, SendsBounded DEF heartbeat_send_event

(* sr_send takes a message only after it has made room: fifo_send stays    *)
(* within its size.                                                        *)
LEMMA SendBounded ==
  ASSUME NEW c, Bounded(c), NEW m \in Message
  PROVE  Bounded(sr_send(c, m))
<1> DEFINE r == MakeRoom(c)
<1>1. Bounded(r)
  BY SendEventBounded DEF MakeRoom
<1>2. sr_send(c, m) \in {r, [c EXCEPT !.state = "CLOSED"], [sendDisconnectionRequest(c) EXCEPT !.state = "CLOSED"]}
      \/ /\ Len(r.fifo_send) < SendSize
         /\ sr_send(c, m) = [r EXCEPT !.fifo_send = Append(@, m), !.send_on = TRUE]
  BY DEF sr_send, Takes
<1> HIDE DEF r
<1>3. ASSUME Len(r.fifo_send) < SendSize
      PROVE  Bounded([r EXCEPT !.fifo_send = Append(@, m), !.send_on = TRUE])
  <2>1. r.fifo_send \in Seq(Message)
    BY <1>1 DEF Bounded, Connection
  <2>2. Append(r.fifo_send, m) \in Seq(Message) /\ Len(Append(r.fifo_send, m)) = Len(r.fifo_send) + 1
    BY <2>1
  <2>3. Len(Append(r.fifo_send, m)) <= SendSize
    BY <1>3, <2>1, <2>2, SizesAssumption DEF SendSize
  <2>4. [r EXCEPT !.fifo_send = Append(@, m), !.send_on = TRUE]
          = [r EXCEPT !.fifo_send = Append(r.fifo_send, m), !.send_on = TRUE]
    BY <1>1 DEF Bounded, Connection
  <2> QED BY <1>1, <2>2, <2>3, <2>4, Zenon DEF Bounded, Connection
<1> QED BY <1>1, <1>2, <1>3, SendsBounded, StateBounded, Zenon DEF State

-----------------------------------------------------------------------------
(* The two ends and the link.                                              *)

(* An end is bounded in the inductive invariant.                           *)
LEMMA EndsBounded ==
  ASSUME TypeOK, QueuesBounded, NEW e \in Endpoint
  PROVE  Bounded(con[e]) /\ con[e] \in Connection /\ chan[e] \in Seq(Pdu)
  BY DEF TypeOK, QueuesBounded, Bounded

(* What end e is left in, and what it sends, keeps the types and the       *)
(* bounds.                                                                 *)
LEMMA EndStep ==
  ASSUME TypeOK, QueuesBounded, NEW e \in Endpoint, NEW c, Bounded(c),
         con' = [con EXCEPT ![e] = [c EXCEPT !.out = << >>]]
  PROVE  /\ con' \in [Endpoint -> Connection]
         /\ QueuesBounded'
         /\ c.out \in Seq(Pdu)
<1> DEFINE d == [c EXCEPT !.out = << >>]
<1>1. << >> \in Seq(Pdu)
  OBVIOUS
<1>2. Bounded(d) /\ c.out \in Seq(Pdu)
  BY <1>1, Zenon DEF Bounded, Connection
<1>3. con' = [con EXCEPT ![e] = d]
  OBVIOUS
<1> HIDE DEF d
<1>4. con' \in [Endpoint -> Connection]
  BY <1>2, <1>3, Zenon DEF TypeOK, Bounded
<1>5. ASSUME NEW f \in Endpoint PROVE Bounded(con'[f])
  <2>1. CASE f = e
    BY <1>2, <1>3, <2>1, Zenon DEF TypeOK
  <2>2. CASE f # e
    <3>1. con'[f] = con[f]
      BY <1>3, <2>2 DEF TypeOK
    <3> QED BY <3>1, EndsBounded
  <2> QED BY <2>1, <2>2
<1>6. QueuesBounded'
  BY <1>5 DEF QueuesBounded, Bounded
<1> QED BY <1>2, <1>4, <1>6

(* What an end does on its own keeps the types of both ends and of the     *)
(* link, and the bounds.                                                   *)
LEMMA DoKeeps ==
  ASSUME TypeOK, QueuesBounded, NEW e \in Endpoint, NEW c, Bounded(c), Do(e, c)
  PROVE  /\ con' \in [Endpoint -> Connection]
         /\ chan' \in [Endpoint -> Seq(Pdu)]
         /\ QueuesBounded'
<1>1. con' \in [Endpoint -> Connection] /\ QueuesBounded' /\ c.out \in Seq(Pdu)
  BY EndStep, Zenon DEF Do
<1>2. Partner[e] \in Endpoint
  BY DEF Partner, Endpoint
<1>3. chan[Partner[e]] \o c.out \in Seq(Pdu)
  BY <1>1, <1>2 DEF TypeOK
<1>4. chan' \in [Endpoint -> Seq(Pdu)]
  BY <1>2, <1>3 DEF Do, TypeOK
<1> QED BY <1>1, <1>4

(* What may arrive is a PDU.                                               *)
LEMMA ArrivalsArePdus ==
  ASSUME TypeOK, NEW e \in Endpoint, chan[e] # << >>, NEW p \in Arrivals(e)
  PROVE  p \in Pdu
<1> DEFINE h == Head(chan[e])
<1>1. h \in Pdu
  BY DEF TypeOK
<1>2. PICK q \in {h} \cup Damaged(h) : p = Repacked(q)
  BY DEF Arrivals
<1> HIDE DEF h
<1>3. [i \in DOMAIN h.data |-> Garbled] \in Seq(Message)
  <2>1. h.data \in Seq(Message)
    BY <1>1 DEF Pdu
  <2>2. Len(h.data) \in Nat /\ DOMAIN h.data = 1..Len(h.data)
    BY <2>1
  <2>3. \A i \in 1..Len(h.data) : Garbled \in Message
    BY DEF Garbled, Message
  <2> QED BY <2>2, <2>3, IsASeq
<1>4. q \in Pdu
  BY <1>1, <1>2, <1>3, Zenon DEF Damaged, Pdu
<1> QED BY <1>2, <1>4, Zenon DEF Repacked, Pdu

(* Handling the next PDU keeps the invariant when the handler keeps the    *)
(* bounds.                                                                 *)
LEMMA HandleKeeps ==
  ASSUME TypeOK, QueuesBounded, NEW e \in Endpoint, chan[e] # << >>,
         NEW p, NEW c, Bounded(c), NEW late, Handle(e, p, c, late)
  PROVE  TypeOK' /\ QueuesBounded'
<1>1. con' \in [Endpoint -> Connection] /\ QueuesBounded' /\ c.out \in Seq(Pdu)
  BY EndStep, Zenon DEF Handle
<1>2. Partner[e] \in Endpoint /\ Partner[e] # e
  BY EndsDiffer DEF Partner, Endpoint
<1>3. chan[Partner[e]] \o c.out \in Seq(Pdu) /\ Tail(chan[e]) \in Seq(Pdu)
  BY <1>1, <1>2 DEF TypeOK
<1>4. chan' = [chan EXCEPT ![e] = Tail(chan[e]), ![Partner[e]] = chan[Partner[e]] \o c.out]
  BY <1>2 DEF Handle, TypeOK
<1>5. chan' \in [Endpoint -> Seq(Pdu)]
  BY <1>2, <1>3, <1>4, Zenon DEF TypeOK
<1>6. rest' \in [Endpoint -> Int]
  <2> DEFINE n == Len(chan[e])
             k == DeferQueueSize
             m == Least({n, k})
  <2>1. n \in Int /\ k \in Int
    BY SizesAssumption DEF TypeOK
  <2>2. RestAfter(e, c) \in {rest[e] - 1, m - 1, 0}
    BY DEF RestAfter
  <2>3. rest[e] \in Int
    BY DEF TypeOK
  <2> HIDE DEF n, k
  <2>4. m \in {n, k}
    BY <2>1, LeastOfTwo, Zenon
  <2> HIDE DEF m
  <2>5. m \in Int
    BY <2>1, <2>4
  <2>6. RestAfter(e, c) \in Int
    BY <2>2, <2>3, <2>5
  <2> QED BY <2>6 DEF Handle, TypeOK
<1>7. damages' \in Nat /\ lates' \in Nat
  BY DEF Handle, TypeOK
<1> QED BY <1>1, <1>5, <1>6, <1>7, Zenon DEF Handle, TypeOK

-----------------------------------------------------------------------------
(* One step per action.                                                    *)

(* The next PDU is handled.                                                *)
LEMMA ReceiveKeeps ==
  ASSUME TypeOK, QueuesBounded, NEW e \in Endpoint, Receive(e)
  PROVE  TypeOK' /\ QueuesBounded'
<1>1. Bounded(con[e])
  BY EndsBounded
<1>2. chan[e] # << >>
  BY Zenon DEF Receive, ReceiveConReq, ReceiveConResp, ReceiveRejected, ReceiveData, ReceiveRetrReq,
         ReceiveRetrResp, ReceiveRetrData, ReceiveHb, ReceiveDiscReq, Incoming
<1>3. \A p \in Arrivals(e) : p \in Pdu
  BY <1>2, ArrivalsArePdus
<1>4. CASE ReceiveConReq(e)
  <2>1. PICK p \in Arrivals(e), accept \in VersionVerdicts :
          Handle(e, p, handle_conreq(con[e], p, accept), FALSE)
    BY <1>4, Zenon DEF ReceiveConReq
  <2>2. Bounded(handle_conreq(con[e], p, accept))
    BY <1>1, <1>3, ConReqBounded
  <2> QED BY <1>2, <2>1, <2>2, HandleKeeps, Zenon
<1>5. CASE ReceiveConResp(e)
  <2>1. PICK p \in Arrivals(e), accept \in VersionVerdicts :
          Handle(e, p, Break(handle_conresp(con[e], p, e = Client, accept)), FALSE)
    BY <1>5, Zenon DEF ReceiveConResp
  <2>2. Bounded(Break(handle_conresp(con[e], p, e = Client, accept)))
    BY <1>1, <1>3, ConRespBounded, BreakBounded
  <2> QED BY <1>2, <2>1, <2>2, HandleKeeps, Zenon
<1>6. CASE ReceiveRejected(e)
  <2>1. PICK p \in Arrivals(e) : Handle(e, p, con[e], FALSE)
    BY <1>6, Zenon DEF ReceiveRejected
  <2> QED BY <1>1, <1>2, <2>1, HandleKeeps, Zenon
<1>7. CASE ReceiveData(e)
  <2>1. PICK p \in Arrivals(e), late \in Lateness : Handle(e, p, handle_data(con[e], p, late), late)
    BY <1>7 DEF ReceiveData
  <2>2. Bounded(handle_data(con[e], p, late))
    BY <1>1, <1>3, DataBounded
  <2> QED BY <1>2, <2>1, <2>2, HandleKeeps
<1>8. CASE ReceiveRetrReq(e)
  <2>1. PICK p \in Arrivals(e) : Handle(e, p, handle_retrreq(con[e], p), FALSE)
    BY <1>8, Zenon DEF ReceiveRetrReq
  <2>2. Bounded(handle_retrreq(con[e], p))
    BY <1>1, <1>3, RetrReqBounded
  <2> QED BY <1>2, <2>1, <2>2, HandleKeeps, Zenon
<1>9. CASE ReceiveRetrResp(e)
  <2>1. PICK p \in Arrivals(e) : Handle(e, p, handle_retrresp(con[e], p), FALSE)
    BY <1>9, Zenon DEF ReceiveRetrResp
  <2>2. Bounded(handle_retrresp(con[e], p))
    BY <1>1, <1>3, RetrRespBounded
  <2> QED BY <1>2, <2>1, <2>2, HandleKeeps, Zenon
<1>10. CASE ReceiveRetrData(e)
  <2>1. PICK p \in Arrivals(e), late \in Lateness : Handle(e, p, handle_retrdata(con[e], p, late), late)
    BY <1>10 DEF ReceiveRetrData
  <2>2. Bounded(handle_retrdata(con[e], p, late))
    BY <1>1, <1>3, RetrDataBounded
  <2> QED BY <1>2, <2>1, <2>2, HandleKeeps
<1>11. CASE ReceiveHb(e)
  <2>1. PICK p \in Arrivals(e), late \in Lateness : Handle(e, p, handle_hb(con[e], p, late, e = Client), late)
    BY <1>11 DEF ReceiveHb
  <2>2. Bounded(handle_hb(con[e], p, late, e = Client))
    BY <1>1, <1>3, HbBounded
  <2> QED BY <1>2, <2>1, <2>2, HandleKeeps
<1>12. CASE ReceiveDiscReq(e)
  <2>1. PICK p \in Arrivals(e) : Handle(e, p, handle_discreq(con[e]), FALSE)
    BY <1>12, Zenon DEF ReceiveDiscReq
  <2>2. Bounded(handle_discreq(con[e]))
    BY <1>1, <1>3, CloseBounded, BreakBounded DEF handle_discreq
  <2> QED BY <1>2, <2>1, <2>2, HandleKeeps, Zenon
<1> QED BY <1>4, <1>5, <1>6, <1>7, <1>8, <1>9, <1>10, <1>11, <1>12 DEF Receive

(* rasta_recv and the end of the handshake.                                *)
LEMMA ReturnBounded ==
  ASSUME NEW c, Bounded(c)
  PROVE  /\ Bounded([c EXCEPT !.brk = FALSE])
         /\ Bounded([c EXCEPT !.brk = FALSE, !.is_new = FALSE])
         /\ c.fifo_recv # << >> => /\ Bounded([c EXCEPT !.fifo_recv = Tail(@), !.brk = FALSE])
                                  /\ Head(c.fifo_recv) \in Message
<1>1. Bounded([c EXCEPT !.brk = FALSE]) /\ Bounded([c EXCEPT !.brk = FALSE, !.is_new = FALSE])
  BY Zenon DEF Bounded, Connection
<1>2. ASSUME c.fifo_recv # << >>
      PROVE  /\ Bounded([c EXCEPT !.fifo_recv = Tail(@), !.brk = FALSE])
             /\ Head(c.fifo_recv) \in Message
  <2>1. c.fifo_recv \in Seq(Message) /\ Len(c.fifo_recv) <= ReceiveSize
    BY DEF Bounded, Connection
  <2>2. /\ Tail(c.fifo_recv) \in Seq(Message) /\ Head(c.fifo_recv) \in Message
        /\ Len(Tail(c.fifo_recv)) = Len(c.fifo_recv) - 1 /\ Len(c.fifo_recv) \in Nat
    BY <1>2, <2>1
  <2>3. Len(Tail(c.fifo_recv)) <= ReceiveSize
    BY <2>1, <2>2, SizesAssumption
  <2>4. [c EXCEPT !.fifo_recv = Tail(@), !.brk = FALSE]
          = [c EXCEPT !.fifo_recv = Tail(c.fifo_recv), !.brk = FALSE]
    BY DEF Bounded, Connection
  <2> QED BY <2>2, <2>3, <2>4, Zenon DEF Bounded, Connection
<1> QED BY <1>1, <1>2

(* The returns of the event loop keep the invariant.                       *)
LEMMA ReturnKeeps ==
  ASSUME TypeOK, QueuesBounded, NEW e \in Endpoint, Return(e)
  PROVE  TypeOK' /\ QueuesBounded'
<1>1. Bounded(con[e])
  BY EndsBounded
<1>2. CASE OpeningReturns(e)
  <2>1. Bounded([con[e] EXCEPT !.brk = FALSE, !.is_new = FALSE])
    BY <1>1, ReturnBounded, Zenon
  <2>2. con' \in [Endpoint -> Connection] /\ chan' \in [Endpoint -> Seq(Pdu)] /\ QueuesBounded'
    BY <1>2, <2>1, DoKeeps DEF OpeningReturns
  <2>3. app' \in [Endpoint -> {"start", "opening", "idle", "recv", "done"}]
    BY <1>2 DEF OpeningReturns, TypeOK
  <2>4. rest' \in [Endpoint -> Int]
    BY <1>2 DEF OpeningReturns, TypeOK
  <2> QED BY <1>2, <2>2, <2>3, <2>4 DEF OpeningReturns, TypeOK, bounds
<1>3. CASE RastaRecvMessage(e)
  <2>1. /\ Bounded([con[e] EXCEPT !.fifo_recv = Tail(@), !.brk = FALSE])
        /\ Head(con[e].fifo_recv) \in Message
    BY <1>1, <1>3, ReturnBounded, Zenon DEF RastaRecvMessage
  <2>2. con' \in [Endpoint -> Connection] /\ chan' \in [Endpoint -> Seq(Pdu)] /\ QueuesBounded'
    BY <1>3, <2>1, DoKeeps DEF RastaRecvMessage
  <2>3. Append(received[e], Head(con[e].fifo_recv)) \in Seq(Message)
    BY <2>1 DEF TypeOK
  <2>4. received' \in [Endpoint -> Seq(Message)]
    BY <1>3, <2>3 DEF RastaRecvMessage, TypeOK
  <2> QED BY <1>3, <2>2, <2>4 DEF RastaRecvMessage, TypeOK, bounds
<1>4. CASE RastaRecvWaits(e) \/ RastaRecvFails(e)
  <2>1. Bounded([con[e] EXCEPT !.brk = FALSE])
    BY <1>1, ReturnBounded, Zenon
  <2>2. con' \in [Endpoint -> Connection] /\ chan' \in [Endpoint -> Seq(Pdu)] /\ QueuesBounded'
    BY <1>4, <2>1, DoKeeps DEF RastaRecvWaits, RastaRecvFails
  <2>3. app' \in [Endpoint -> {"start", "opening", "idle", "recv", "done"}]
    BY <1>4, Zenon DEF RastaRecvWaits, RastaRecvFails, TypeOK
  <2>4. rest' \in [Endpoint -> Int]
    BY <1>4 DEF RastaRecvWaits, RastaRecvFails, TypeOK
  <2> QED BY <1>4, <2>2, <2>3, <2>4 DEF RastaRecvWaits, RastaRecvFails, TypeOK, bounds
<1> QED BY <1>2, <1>3, <1>4, Return(e) DEF Return

-----------------------------------------------------------------------------
(* The invariant.                                                          *)

(* The connections that rasta_lib_init_configuration makes are of the      *)
(* right type and empty.                                                   *)
LEMMA InitKeeps == Init => TypeOK /\ QueuesBounded
<1> SUFFICES ASSUME Init PROVE TypeOK /\ QueuesBounded
  OBVIOUS
<1>1. PICK initial \in InitialSns : con = [e \in Endpoint |-> NewConnection(initial[e])]
  BY DEF Init
<1>2. ASSUME NEW n \in Sn PROVE Bounded(NewConnection(n))
  <2>1. 0 \in Sn
    BY SnAssumption DEF Sn
  <2>2. /\ << >> \in Seq(Message) /\ << >> \in Seq(Queued) /\ << >> \in Seq(Pdu)
        /\ Len(<< >>) = 0
    OBVIOUS
  <2>3. 0 <= SendSize /\ 0 <= RetransmissionSize /\ 0 <= ReceiveSize
    BY SizesAssumption DEF SendSize
  <2> QED BY <2>1, <2>2, <2>3 DEF NewConnection, Bounded, Connection, State
<1>3. ASSUME NEW e \in Endpoint PROVE Bounded(con[e])
  <2>1. initial[e] \in Sn
    BY SnAssumption DEF Sn
  <2> QED BY <1>1, <1>2, <2>1
<1>4. con \in [Endpoint -> Connection]
  BY <1>1, <1>3 DEF Bounded
<1>5. QueuesBounded
  BY <1>3 DEF Bounded, QueuesBounded
<1> QED BY <1>4, <1>5 DEF Init, TypeOK

(* Every step keeps the types and the bounds.                              *)
LEMMA NextKeeps ==
  ASSUME TypeOK, QueuesBounded, [Next]_vars
  PROVE  TypeOK' /\ QueuesBounded'
<1>1. CASE UNCHANGED vars
  BY <1>1 DEF vars, bounds, TypeOK, QueuesBounded
<1>2. CASE Next
  <2>1. PICK e \in Endpoint :
          \/ Receive(e) \/ TimeoutExpires(e) \/ HeartbeatDue(e) \/ SendDue(e)
          \/ HandshakeTimeout(e) \/ RastaConnect(e) \/ RastaAccept(e) \/ Return(e)
          \/ RastaSend(e) \/ RastaDisconnect(e)
    BY <1>2 DEF Next
  <2>2. Bounded(con[e])
    BY EndsBounded
  <2> DEFINE Ends == /\ con' \in [Endpoint -> Connection]
                     /\ chan' \in [Endpoint -> Seq(Pdu)]
                     /\ QueuesBounded'
  <2>3. CASE Receive(e)
    BY <2>3, ReceiveKeeps
  <2>4. CASE TimeoutExpires(e)
    <3>1. Bounded(event_connection_expired(con[e]))
      BY <2>2, TimersBounded
    <3>2. Ends
      BY <2>4, <3>1, DoKeeps DEF TimeoutExpires
    <3> QED BY <2>4, <3>2 DEF TimeoutExpires, TypeOK, bounds
  <2>5. CASE HeartbeatDue(e)
    <3>1. Bounded(heartbeat_send_event(con[e]))
      BY <2>2, TimersBounded
    <3>2. Ends
      BY <2>5, <3>1, DoKeeps DEF HeartbeatDue
    <3>3. beats' \in [Endpoint -> Nat]
      BY <2>5 DEF HeartbeatDue, TypeOK
    <3> QED BY <2>5, <3>2, <3>3 DEF HeartbeatDue, TypeOK
  <2>6. CASE SendDue(e)
    <3>1. Bounded(data_send_event(con[e]))
      BY <2>2, SendEventBounded
    <3>2. Ends
      BY <2>6, <3>1, DoKeeps DEF SendDue
    <3> QED BY <2>6, <3>2 DEF SendDue, TypeOK, bounds
  <2>7. CASE HandshakeTimeout(e)
    <3>1. Bounded(Break(con[e]))
      BY <2>2, BreakBounded
    <3>2. Ends
      BY <2>7, <3>1, DoKeeps DEF HandshakeTimeout
    <3> QED BY <2>7, <3>2 DEF HandshakeTimeout, TypeOK, bounds
  <2>8. CASE RastaConnect(e)
    <3>1. Bounded(sr_connect(con[e]))
      BY <2>2, StartBounded, Zenon
    <3>2. Ends
      BY <2>8, <3>1, DoKeeps DEF RastaConnect
    <3> QED BY <2>8, <3>2, Zenon DEF RastaConnect, TypeOK, bounds
  <2>9. CASE RastaAccept(e)
    BY <2>9 DEF RastaAccept, TypeOK, QueuesBounded, bounds
  <2>10. CASE Return(e)
    BY <2>10, ReturnKeeps
  <2>11. CASE RastaSend(e)
    <3>1. accepted[e] \in Nat /\ accepted[e] + 1 \in Message
      BY DEF TypeOK, Message
    <3>2. Bounded(sr_send(con[e], accepted[e] + 1))
      BY <2>2, <3>1, SendBounded
    <3>3. Ends
      BY <2>11, <3>2, DoKeeps DEF RastaSend
    <3>4. accepted' \in [Endpoint -> Nat]
      BY <2>11 DEF RastaSend, TypeOK
    <3> QED BY <2>11, <3>3, <3>4 DEF RastaSend, TypeOK, bounds
  <2>12. CASE RastaDisconnect(e)
    <3>1. Bounded(sr_close_connection(con[e]))
      BY <2>2, CloseBounded
    <3>2. Ends
      BY <2>12, <3>1, DoKeeps DEF RastaDisconnect
    <3> QED BY <2>12, <3>2, Zenon DEF RastaDisconnect, TypeOK, bounds
  <2> QED BY <2>1, <2>3, <2>4, <2>5, <2>6, <2>7, <2>8, <2>9, <2>10, <2>11, <2>12
<1> QED BY <1>1, <1>2

(* Type correctness: whatever is sent, damaged, late or closed, every      *)
(* number stays within the width of the code's unsigned 32 bit counters    *)
(* and every PDU that handlers.c and messages.c build is well formed.      *)
THEOREM TypeCorrect == Spec => []TypeOK
<1>1. TypeOK /\ QueuesBounded /\ [Next]_vars => (TypeOK /\ QueuesBounded)'
  BY NextKeeps
<1> QED BY <1>1, InitKeeps, PTL DEF Spec

(* fifo_send, fifo_retr and fifo_recv stay within their sizes for every    *)
(* configuration.  SendQueued appends to fifo_retr with no regard to its   *)
(* size, so the bound says that the fifo_push of data_send_event never     *)
(* fails and that every Data PDU on its way can be retransmitted.          *)
THEOREM QueuesStayBounded == Spec => []QueuesBounded
<1>1. TypeOK /\ QueuesBounded /\ [Next]_vars => (TypeOK /\ QueuesBounded)'
  BY NextKeeps
<1> QED BY <1>1, InitKeeps, PTL DEF Spec

-----------------------------------------------------------------------------
(***************************************************************************)
(* The timer that supervises a connection is switched off only when the    *)
(* connection is closed.                                                   *)
(*                                                                         *)
(* The two places where the code switches the timer off and goes on are    *)
(* sr_connect and handle_conreq, which reset the connection and leave it   *)
(* in START.  The invariant shows that the timer is off there already: a   *)
(* ConReq is sent once, by the first call of the client, and it is the     *)
(* first PDU the server handles.                                           *)
(***************************************************************************)


NoConReq(s) == \A i \in 1..Len(s) : s[i].type # "CONNREQ"

\* a connection within its bounds that sends no ConReq
Quiet(c) == Bounded(c) /\ NoConReq(c.out)

\* nothing that concerns supervision differs, and still no ConReq is sent
Same(c, d) ==
  /\ Quiet(d)
  /\ d.state = c.state
  /\ d.timeout_on = c.timeout_on

\* a closed connection, which is not supervised
Closed(d) == Quiet(d) /\ d.state = "CLOSED" /\ d.timeout_on = FALSE

\* START is a state without supervision, and DOWN is not a state in which
\* a handler leaves the connection
Steady(c) == c.state # "DOWN" /\ (c.state = "START" => ~c.timeout_on)

\* from c to d the timer is switched off only if d is closed
Kept(c, d) ==
  /\ Quiet(d)
  /\ Steady(d)
  /\ c.timeout_on /\ ~d.timeout_on => d.state = "CLOSED"

(* One more PDU of another type.                                           *)
LEMMA AppendNoConReq ==
  ASSUME NEW s \in Seq(Pdu), NoConReq(s), NEW p, p.type # "CONNREQ"
  PROVE  NoConReq(Append(s, p))
  BY DEF NoConReq

(* Further PDUs of other types.                                            *)
LEMMA ConcatNoConReq ==
  ASSUME NEW s \in Seq(Pdu), NoConReq(s), NEW t \in Seq(Pdu), NoConReq(t)
  PROVE  NoConReq(s \o t)
<1>1. /\ Len(s) \in Nat /\ Len(t) \in Nat /\ Len(s \o t) = Len(s) + Len(t)
      /\ \A i \in 1..(Len(s) + Len(t)) :
           (s \o t)[i] = IF i <= Len(s) THEN s[i] ELSE t[i - Len(s)]
  BY ConcatProperties
<1>2. ASSUME NEW i \in 1..Len(s \o t) PROVE (s \o t)[i].type # "CONNREQ"
  <2>1. CASE i <= Len(s)
    BY <1>1, <2>1 DEF NoConReq
  <2>2. CASE ~(i <= Len(s))
    <3>1. i - Len(s) \in 1..Len(t) /\ (s \o t)[i] = t[i - Len(s)]
      BY <1>1, <2>2
    <3> QED BY <3>1 DEF NoConReq
  <2> QED BY <2>1, <2>2
<1> QED BY <1>2 DEF NoConReq

(* Two operations that leave supervision alone, one after the other.       *)
LEMMA SameTwice ==
  ASSUME NEW c, NEW d, NEW x, Same(c, d), Same(d, x)
  PROVE  Same(c, x)
  BY DEF Same

-----------------------------------------------------------------------------
(* Operations that leave state and supervision as they are.                *)

(* Sending a PDU other than a ConReq leaves the state and the timer alone. *)
LEMMA EmitOut ==
  ASSUME NEW c, Quiet(c), NEW type, type # "CONNREQ", NEW data
  PROVE  /\ NoConReq(Emit(c, type, data).out) /\ NoConReq(EmitAndCount(c, type, data).out)
         /\ Emit(c, type, data).state = c.state /\ Emit(c, type, data).timeout_on = c.timeout_on
         /\ EmitAndCount(c, type, data).state = c.state
         /\ EmitAndCount(c, type, data).timeout_on = c.timeout_on
<1> DEFINE p == [type |-> type, sn |-> c.sn_t, cs |-> c.cs_t, data |-> data, to |-> TRUE, sum |-> TRUE]
           q == Append(c.out, p)
<1>1. c \in Connection /\ c.out \in Seq(Pdu)
  BY DEF Quiet, Bounded, Connection
<1>2. p.type # "CONNREQ"
  OBVIOUS
<1>3. Emit(c, type, data) = [c EXCEPT !.out = q]
  BY <1>1 DEF Emit, Connection
<1> HIDE DEF p
<1>4. NoConReq(q)
  BY <1>1, <1>2, AppendNoConReq DEF Quiet
<1> HIDE DEF q
<1>5. /\ Emit(c, type, data).out = q /\ Emit(c, type, data).state = c.state
      /\ Emit(c, type, data).timeout_on = c.timeout_on
  BY <1>1, <1>3 DEF Connection
<1>6. /\ EmitAndCount(c, type, data).out = q /\ EmitAndCount(c, type, data).state = c.state
      /\ EmitAndCount(c, type, data).timeout_on = c.timeout_on
  BY <1>1, <1>3 DEF Connection, EmitAndCount
<1> QED BY <1>4, <1>5, <1>6

(* So do the PDUs of messages.c that carry no messages.                    *)
LEMMA SendsSame ==
  ASSUME NEW c, Quiet(c)
  PROVE  /\ Same(c, sendDisconnectionRequest(c)) /\ Same(c, sendHeartbeat(c))
         /\ Same(c, sendRetransmissionRequest(c)) /\ Same(c, sendRetransmissionResponse(c))
<1>1. Bounded(c)
  BY DEF Quiet
<1>2. /\ Bounded(sendDisconnectionRequest(c)) /\ Bounded(sendHeartbeat(c))
      /\ Bounded(sendRetransmissionRequest(c)) /\ Bounded(sendRetransmissionResponse(c))
  BY <1>1, SendsBounded
<1> QED BY <1>2, EmitOut
      DEF Same, Quiet, sendDisconnectionRequest, sendHeartbeat,
          sendRetransmissionRequest, sendRetransmissionResponse

(* sr_reset_connection and sr_close_connection leave a closed connection.  *)
LEMMA CloseKept ==
  ASSUME NEW c, Quiet(c)
  PROVE  Closed(sr_reset_connection(c)) /\ Closed(sr_close_connection(c))
<1> DEFINE r == sr_reset_connection(c)
<1>1. Bounded(r)
  BY CloseBounded DEF Quiet
<1>2. Closed(r)
  BY <1>1 DEF Closed, Quiet, Bounded, Connection, sr_reset_connection
<1>3. sr_close_connection(c) \in {r, sendDisconnectionRequest(r)}
  BY DEF sr_close_connection
<1> HIDE DEF r
<1>4. Same(r, sendDisconnectionRequest(r))
  BY <1>2, SendsSame DEF Closed
<1>5. Closed(sr_close_connection(c))
  BY <1>2, <1>3, <1>4 DEF Same, Closed
<1> QED BY <1>2, <1>5 DEF r

(* data_send_event leaves the state and the timer alone.                   *)
LEMMA SendEventSame ==
  ASSUME NEW c, Quiet(c)
  PROVE  Same(c, data_send_event(c))
<1> DEFINE n == Least({RetransmissionSize - Len(c.fifo_retr), Len(c.fifo_send), MaxPacket})
           data == SubSeq(c.fifo_send, 1, n)
           s == EmitAndCount(c, "DATA", data)
           sent == SendQueued(c, n)
           d == IF n > 0 THEN sent ELSE c
<1>1. Bounded(data_send_event(c))
  BY SendEventBounded DEF Quiet
<1>2. data_send_event(c) = [d EXCEPT !.send_on = @ /\ d.fifo_send # << >>]
  BY DEF data_send_event
<1>3. /\ sent.out = s.out /\ sent.state = s.state /\ sent.timeout_on = s.timeout_on
      /\ DOMAIN sent = DOMAIN c
  <2> HIDE DEF n
  <2>1. c \in Connection
    BY DEF Quiet, Bounded
  <2> QED BY <2>1 DEF SendQueued, EmitAndCount, Emit, Connection
<1>4. NoConReq(s.out) /\ s.state = c.state /\ s.timeout_on = c.timeout_on
  <2> HIDE DEF data
  <2> QED BY EmitOut
<1> HIDE DEF s, sent
<1>5. NoConReq(d.out) /\ d.state = c.state /\ d.timeout_on = c.timeout_on /\ DOMAIN d = DOMAIN c
  BY <1>3, <1>4 DEF Quiet
<1> HIDE DEF d
<1>6. DOMAIN c = {"state", "initial", "sn_t", "sn_r", "cs_t", "cs_r", "cts_set", "hb_locked",
                  "heartbeat_on", "timeout_on", "send_on", "is_new", "brk", "fifo_send",
                  "fifo_retr", "fifo_recv", "out"}
  BY DEF Quiet, Bounded, Connection
<1>7. /\ data_send_event(c).out = d.out /\ data_send_event(c).state = d.state
      /\ data_send_event(c).timeout_on = d.timeout_on
  BY <1>2, <1>5, <1>6
<1> QED BY <1>1, <1>5, <1>7 DEF Same, Quiet

(* sr_remove_confirmed_messages leaves the state and the timer alone.      *)
LEMMA RemoveSame ==
  ASSUME NEW c, Quiet(c)
  PROVE  Same(c, sr_remove_confirmed_messages(c))
<1> DEFINE d == [c EXCEPT !.fifo_retr = PopConfirmed(@, c.cs_r)]
<1>1. Bounded(c) /\ c \in Connection
  BY DEF Quiet, Bounded
<1>2. sr_remove_confirmed_messages(c) \in {d, data_send_event(d)}
  BY DEF sr_remove_confirmed_messages
<1>3. d.out = c.out /\ d.state = c.state /\ d.timeout_on = c.timeout_on
  BY <1>1 DEF Connection
<1>4. Bounded(d)
  BY <1>1, PopKeepsBounds
<1> HIDE DEF d
<1>5. Same(c, d)
  BY <1>3, <1>4 DEF Same, Quiet
<1>6. Same(d, data_send_event(d))
  BY <1>5, SendEventSame DEF Same
<1> QED BY <1>2, <1>5, <1>6, SameTwice

(* The assignments of a handler to other fields leave the state and the    *)
(* timer alone.                                                            *)
LEMMA FieldsSame ==
  ASSUME NEW c, Quiet(c), NEW p \in Pdu
  PROVE  /\ Same(c, sr_add_app_messages_to_buffer(c, p))
         /\ Same(c, update_connection_attrs(c, p))
         /\ Same(c, update_confirmed_attrs(c, p))
         /\ Same(c, Confirm(c, p))
         /\ Same(c, Break(c))
<1>1. Bounded(c) /\ c \in Connection
  BY DEF Quiet, Bounded
<1>2. Same(c, sr_add_app_messages_to_buffer(c, p))
  <2>1. Bounded(sr_add_app_messages_to_buffer(c, p))
    BY <1>1, AddBounded
  <2> DEFINE taken == SubSeq(p.data, 1, Least({ReceiveSize - Len(c.fifo_recv), Len(p.data)}))
  <2>2. sr_add_app_messages_to_buffer(c, p) = [c EXCEPT !.fifo_recv = @ \o taken]
    BY DEF sr_add_app_messages_to_buffer
  <2> HIDE DEF taken
  <2> QED BY <1>1, <2>1, <2>2 DEF Same, Quiet, Connection
<1>3. Same(c, update_connection_attrs(c, p))
  <2>1. Bounded(update_connection_attrs(c, p))
    BY <1>1, UpdatesBounded
  <2> QED BY <1>1, <2>1 DEF Same, Quiet, Connection, update_connection_attrs
<1>4. Same(c, update_confirmed_attrs(c, p))
  <2>1. Bounded(update_confirmed_attrs(c, p))
    BY <1>1, UpdatesBounded
  <2> QED BY <1>1, <2>1 DEF Same, Quiet, Connection, update_confirmed_attrs
<1>5. Same(c, Confirm(c, p))
  <2>1. Bounded(Confirm(c, p))
    BY <1>1, UpdatesBounded
  <2> QED BY <1>1, <2>1 DEF Same, Quiet, Connection, Confirm
<1>6. Same(c, Break(c))
  <2>1. Bounded(Break(c))
    BY <1>1, BreakBounded
  <2> QED BY <1>1, <2>1 DEF Same, Quiet, Connection, Break
<1> QED BY <1>2, <1>3, <1>4, <1>5, <1>6

(* sr_retransmit_data leaves the state and the timer alone.                *)
LEMMA RetransmitSame ==
  ASSUME NEW c, Quiet(c)
  PROVE  Same(c, sr_retransmit_data(c))
<1> DEFINE pdus == AgainPdus(c)
           d == Repeated(c)
<1>1. c \in Connection /\ Bounded(c) /\ c.out \in Seq(Pdu) /\ NoConReq(c.out)
  BY DEF Quiet, Bounded, Connection
<1>2. Bounded(d) /\ pdus \in Seq(Pdu)
  BY <1>1, RepeatedBounded
<1>3. NoConReq(pdus)
  <2>1. \A i \in DOMAIN pdus : pdus[i].type = "RETRDATA"
    BY DEF AgainPdus
  <2> HIDE DEF pdus
  <2>2. DOMAIN pdus = 1..Len(pdus)
    BY <1>2
  <2> QED BY <2>1, <2>2 DEF NoConReq
<1>4. d.out = c.out \o pdus /\ d.state = c.state /\ d.timeout_on = c.timeout_on
  BY <1>1 DEF Connection, Repeated
<1> HIDE DEF pdus
<1>5. NoConReq(c.out \o pdus)
  BY <1>1, <1>2, <1>3, ConcatNoConReq
<1>6. Same(c, d)
  BY <1>2, <1>4, <1>5 DEF Same, Quiet
<1>7. Same(d, sendHeartbeat(d))
  BY <1>6, SendsSame DEF Same
<1> QED BY <1>6, <1>7, SameTwice, RetransmitIsRepeated

-----------------------------------------------------------------------------
(* The handlers.                                                           *)

(* The ways in which a handler keeps the supervision.                      *)
LEMMA KeptCases ==
  ASSUME NEW c, NEW d
  PROVE  /\ Closed(d) => Kept(c, d)
         /\ Same(c, d) /\ Steady(c) => Kept(c, d)
         /\ Quiet(d) /\ d.timeout_on = c.timeout_on /\ d.state \in Open \cup {"CLOSED"} => Kept(c, d)
         /\ Quiet(d) /\ d.timeout_on = TRUE /\ d.state = "UP" => Kept(c, d)
  BY DEF Closed, Same, Steady, Kept, Open

(* A field that does not concern the timer is set.                         *)
LEMMA StateSet ==
  ASSUME NEW c, Quiet(c), NEW s \in State
  PROVE  /\ Quiet([c EXCEPT !.state = s])
         /\ [c EXCEPT !.state = s].state = s
         /\ [c EXCEPT !.state = s].timeout_on = c.timeout_on
<1>1. Bounded([c EXCEPT !.state = s]) /\ c \in Connection
  BY StateBounded DEF Quiet, Bounded
<1> QED BY <1>1 DEF Quiet, Connection

(* Asking for a retransmission does not touch the timer.                   *)
LEMMA RequestKept ==
  ASSUME NEW c, Quiet(c)
  PROVE  Kept(c, RequestRetransmission(c))
<1> DEFINE d == sendRetransmissionRequest(c)
<1>1. Same(c, d)
  BY SendsSame
<1>2. RequestRetransmission(c) = [d EXCEPT !.state = "RETRREQ"]
  BY DEF RequestRetransmission
<1> HIDE DEF d
<1>3. /\ Quiet([d EXCEPT !.state = "RETRREQ"]) /\ [d EXCEPT !.state = "RETRREQ"].state = "RETRREQ"
      /\ [d EXCEPT !.state = "RETRREQ"].timeout_on = c.timeout_on
  BY <1>1, StateSet, Zenon DEF Same, State
<1> QED BY <1>2, <1>3, KeptCases, Zenon DEF Open

(* Taking the messages of a PDU leaves the state and the timer alone.      *)
LEMMA TakeSame ==
  ASSUME NEW c, Quiet(c), NEW p \in Pdu
  PROVE  Same(c, TakeData(c, p)) /\ Same(c, TakeRetransmitted(c, p))
<1> DEFINE a == sr_add_app_messages_to_buffer(c, p)
           u == update_connection_attrs(a, p)
           w == update_confirmed_attrs(u, p)
           r == sr_remove_confirmed_messages(w)
           k == Confirm(u, p)
<1>1. TakeData(c, p) = Break(r) /\ TakeRetransmitted(c, p) = Break(k)
  BY DEF TakeData, TakeRetransmitted
<1>2. Same(c, a)
  BY FieldsSame
<1>3. Same(a, u)
  BY <1>2, FieldsSame DEF Same
<1>4. Same(u, w) /\ Same(u, k)
  BY <1>3, FieldsSame DEF Same
<1>5. Same(w, r)
  BY <1>4, RemoveSame DEF Same
<1>6. Same(r, Break(r)) /\ Same(k, Break(k))
  BY <1>4, <1>5, FieldsSame DEF Same
<1> HIDE DEF a, u, w, r, k
<1> QED BY <1>1, <1>2, <1>3, <1>4, <1>5, <1>6 DEF Same

(* handle_data and handle_retrdata stop the timer only when they close.    *)
LEMMA DataKept ==
  ASSUME NEW c, Quiet(c), Steady(c), NEW p \in Pdu, NEW late
  PROVE  Kept(c, handle_data(c, p, late)) /\ Kept(c, handle_retrdata(c, p, late))
<1>1. /\ handle_data(c, p, late) \in {sr_close_connection(c), TakeData(c, p),
           update_connection_attrs(c, p), RequestRetransmission(c), c}
      /\ handle_retrdata(c, p, late) \in {sr_close_connection(c), TakeRetransmitted(c, p),
           RequestRetransmission(c), c}
  BY DEF handle_data, handle_retrdata
<1>2. Kept(c, sr_close_connection(c)) /\ Kept(c, RequestRetransmission(c))
  BY CloseKept, RequestKept, KeptCases, Zenon
<1>3. Kept(c, TakeData(c, p)) /\ Kept(c, TakeRetransmitted(c, p)) /\ Kept(c, update_connection_attrs(c, p))
  BY TakeSame, FieldsSame, KeptCases, Zenon
<1>4. Kept(c, c)
  BY DEF Kept
<1> QED BY <1>1, <1>2, <1>3, <1>4

(* handle_retrreq stops the timer only when it closes, although it still   *)
(* answers then.                                                           *)
LEMMA RetrReqKept ==
  ASSUME NEW c, Quiet(c), Steady(c), NEW p \in Pdu
  PROVE  Kept(c, handle_retrreq(c, p))
<1>1. ASSUME NEW d, Quiet(d) PROVE Same(d, AnswerRetransmission(d, p))
  <2> DEFINE k == Confirm(d, p)
             r == sr_remove_confirmed_messages(k)
             s == sendRetransmissionResponse(r)
  <2>1. AnswerRetransmission(d, p) = sr_retransmit_data(s)
    BY DEF AnswerRetransmission
  <2>2. Same(d, k)
    BY <1>1, FieldsSame
  <2>3. Same(k, r)
    BY <2>2, RemoveSame DEF Same
  <2>4. Same(r, s)
    BY <2>3, SendsSame DEF Same
  <2>5. Same(s, sr_retransmit_data(s))
    BY <2>4, RetransmitSame DEF Same
  <2> HIDE DEF k, r, s
  <2> QED BY <2>1, <2>2, <2>3, <2>4, <2>5 DEF Same
<1> DEFINE d == IF c.state = "RETRRUN" THEN sr_close_connection(c) ELSE c
           u == update_connection_attrs(d, p)
           a == AnswerRetransmission(c, p)
<1>2. handle_retrreq(c, p) \in {AnswerRetransmission(u, p), [a EXCEPT !.state = "RETRREQ"]}
  BY DEF handle_retrreq
<1>3. Closed(d) \/ d = c
  BY CloseKept
<1> HIDE DEF d
<1>4. Same(d, u)
  BY <1>3, FieldsSame DEF Closed
<1> HIDE DEF u
<1>5. Same(u, AnswerRetransmission(u, p))
  BY <1>1, <1>4 DEF Same
<1>6. Kept(c, AnswerRetransmission(u, p))
  <2>1. Same(d, AnswerRetransmission(u, p))
    BY <1>4, <1>5, SameTwice
  <2>2. CASE Closed(d)
    BY <2>1, <2>2, KeptCases, Zenon DEF Same, Closed
  <2>3. CASE d = c
    BY <2>1, <2>3, KeptCases, Zenon
  <2> QED BY <1>3, <2>2, <2>3
<1>7. Same(c, a)
  BY <1>1
<1> HIDE DEF a
<1>8. /\ Quiet([a EXCEPT !.state = "RETRREQ"]) /\ [a EXCEPT !.state = "RETRREQ"].state = "RETRREQ"
      /\ [a EXCEPT !.state = "RETRREQ"].timeout_on = c.timeout_on
  BY <1>7, StateSet, Zenon DEF Same, State
<1>9. Kept(c, [a EXCEPT !.state = "RETRREQ"])
  BY <1>8, KeptCases, Zenon DEF Open
<1> QED BY <1>2, <1>6, <1>9

(* handle_retrresp stops the timer only when it closes.                    *)
LEMMA RetrRespKept ==
  ASSUME NEW c, Quiet(c), NEW p \in Pdu
  PROVE  Kept(c, handle_retrresp(c, p))
<1> DEFINE s == [c EXCEPT !.state = "RETRRUN"]
           u == update_connection_attrs(s, p)
           w == update_confirmed_attrs(u, p)
<1>1. handle_retrresp(c, p) \in {w, sr_close_connection(c)}
  BY DEF handle_retrresp
<1>2. Quiet(s) /\ s.state = "RETRRUN" /\ s.timeout_on = c.timeout_on
  BY StateSet, Zenon DEF State
<1> HIDE DEF s
<1>3. Same(s, u)
  BY <1>2, FieldsSame
<1>4. Same(u, w)
  BY <1>3, FieldsSame DEF Same
<1> HIDE DEF u, w
<1>5. Kept(c, w)
  BY <1>2, <1>3, <1>4, KeptCases, Zenon DEF Same, Open
<1> QED BY <1>1, <1>5, CloseKept, KeptCases, Zenon

(* The timers of a connection that goes up, or whose timeout has expired.  *)
LEMMA TimersSet ==
  ASSUME NEW c, Quiet(c)
  PROVE  /\ LET d == [c EXCEPT !.state = "UP", !.hb_locked = FALSE, !.is_new = TRUE,
                               !.heartbeat_on = TRUE, !.timeout_on = TRUE]
            IN Quiet(d) /\ d.state = "UP" /\ d.timeout_on = TRUE
         /\ LET d == [c EXCEPT !.heartbeat_on = TRUE, !.hb_locked = FALSE, !.timeout_on = TRUE]
            IN Quiet(d) /\ d.state = c.state /\ d.timeout_on = TRUE
         /\ LET d == [c EXCEPT !.heartbeat_on = FALSE, !.timeout_on = FALSE]
            IN Quiet(d) /\ d.state = c.state /\ d.timeout_on = FALSE
<1>1. Bounded(c) /\ c \in Connection
  BY DEF Quiet, Bounded
<1> QED BY <1>1, UpBounded, Zenon DEF Quiet, Connection

(* handle_hb stops the timer only when it closes: what the checks of START *)
(* close goes up again with the timer on.                                  *)
LEMMA HbKept ==
  ASSUME NEW c, Quiet(c), Steady(c), NEW p \in Pdu, NEW late, NEW isClient
  PROVE  Kept(c, handle_hb(c, p, late, isClient))
<1>1. Kept(c, CompleteHandshake(c, p, late, isClient))
  <2> DEFINE d1 == IF sr_sn_in_seq(c, p) THEN c ELSE sr_close_connection(c)
             d2 == IF isClient THEN sr_close_connection(d1) ELSE d1
             u == update_connection_attrs(d2, p)
             k == Confirm(u, p)
             up == [k EXCEPT !.state = "UP", !.hb_locked = FALSE, !.is_new = TRUE,
                             !.heartbeat_on = TRUE, !.timeout_on = TRUE]
  <2>1. CompleteHandshake(c, p, late, isClient) \in {Break(up), sr_close_connection(d2)}
    BY DEF CompleteHandshake
  <2>2. Quiet(d1)
    BY CloseKept, Zenon DEF Closed
  <2> HIDE DEF d1
  <2>3. Quiet(d2)
    BY <2>2, CloseKept, Zenon DEF Closed
  <2> HIDE DEF d2
  <2>4. Quiet(u)
    BY <2>3, FieldsSame DEF Same
  <2> HIDE DEF u
  <2>5. Quiet(k)
    BY <2>4, FieldsSame DEF Same
  <2> HIDE DEF k
  <2>6. Quiet(up) /\ up.state = "UP" /\ up.timeout_on = TRUE
    BY <2>5, TimersSet, Zenon
  <2> HIDE DEF up
  <2>7. Same(up, Break(up))
    BY <2>6, FieldsSame
  <2>8. Kept(c, Break(up))
    BY <2>6, <2>7, KeptCases, Zenon DEF Same
  <2>9. Kept(c, sr_close_connection(d2))
    BY <2>3, CloseKept, KeptCases, Zenon
  <2> QED BY <2>1, <2>8, <2>9
<1>2. Kept(c, TakeHeartbeat(c, p))
  <2> DEFINE u == update_connection_attrs(c, p)
             w == update_confirmed_attrs(u, p)
             d == sr_remove_confirmed_messages(w)
  <2>1. TakeHeartbeat(c, p) = [d EXCEPT !.state = "UP"]
    BY DEF TakeHeartbeat
  <2>2. Same(c, u)
    BY FieldsSame
  <2>3. Same(u, w)
    BY <2>2, FieldsSame DEF Same
  <2>4. Same(w, d)
    BY <2>3, RemoveSame DEF Same
  <2> HIDE DEF u, w, d
  <2>5. /\ Quiet([d EXCEPT !.state = "UP"]) /\ [d EXCEPT !.state = "UP"].state = "UP"
        /\ [d EXCEPT !.state = "UP"].timeout_on = c.timeout_on
    BY <2>2, <2>3, <2>4, StateSet, Zenon DEF Same, State
  <2> QED BY <2>1, <2>5, KeptCases, Zenon DEF Open
<1>3. Kept(c, [c EXCEPT !.state = "RETRREQ"])
  <2>1. /\ Quiet([c EXCEPT !.state = "RETRREQ"]) /\ [c EXCEPT !.state = "RETRREQ"].state = "RETRREQ"
        /\ [c EXCEPT !.state = "RETRREQ"].timeout_on = c.timeout_on
    BY StateSet, Zenon DEF State
  <2> QED BY <2>1, KeptCases, Zenon DEF Open
<1>4. Kept(c, sr_close_connection(c)) /\ Kept(c, c)
  BY CloseKept, KeptCases, Zenon DEF Kept
<1>5. handle_hb(c, p, late, isClient) \in {CompleteHandshake(c, p, late, isClient),
        TakeHeartbeat(c, p), sr_close_connection(c), [c EXCEPT !.state = "RETRREQ"], c}
  BY DEF handle_hb
<1> QED BY <1>1, <1>2, <1>3, <1>4, <1>5

(* The one handler that starts anew without having closed the connection.  *)
LEMMA ConReqKept ==
  ASSUME NEW c, Quiet(c), c.timeout_on = FALSE, NEW p \in Pdu, NEW accept
  PROVE  Kept(c, handle_conreq(c, p, accept))
<1> DEFINE d == [sr_reset_connection(c) EXCEPT !.sn_t = c.initial, !.state = "DOWN"]
           u == update_connection_attrs(d, p)
           w == update_confirmed_attrs(u, p)
           r == EmitAndCount(w, "CONNRESP", << >>)
           s == [r EXCEPT !.state = "START"]
<1>1. handle_conreq(c, p, accept) \in {sr_close_connection(d), sr_close_connection(c), s}
  BY DEF handle_conreq
<1>2. Quiet(d) /\ d.timeout_on = FALSE
  <2>1. Bounded(d) /\ Closed(sr_reset_connection(c))
    BY StartBounded, CloseKept, Zenon DEF Quiet
  <2>2. sr_reset_connection(c) \in Connection
    BY <2>1 DEF Closed, Quiet, Bounded
  <2> QED BY <2>1, <2>2 DEF Closed, Quiet, Connection
<1> HIDE DEF d
<1>3. Same(d, u)
  BY <1>2, FieldsSame
<1>4. Same(u, w)
  BY <1>3, FieldsSame DEF Same
<1> HIDE DEF u, w
<1>5. Quiet(r) /\ r.timeout_on = FALSE
  <2>1. Bounded(r)
    BY <1>4, CountBounded, EmptyData, Zenon DEF Same, Quiet, Type
  <2> QED BY <1>2, <1>3, <1>4, <2>1, EmitOut DEF Same, Quiet
<1> HIDE DEF r
<1>6. Quiet(s) /\ s.state = "START" /\ s.timeout_on = FALSE
  BY <1>5, StateSet, Zenon DEF State
<1> HIDE DEF s
<1>7. Kept(c, s)
  BY <1>6 DEF Kept, Steady
<1> QED BY <1>1, <1>2, <1>7, CloseKept, KeptCases, Zenon

(* handle_conresp stops the timer only when it closes.                     *)
LEMMA ConRespKept ==
  ASSUME NEW c, Quiet(c), Steady(c), NEW p \in Pdu, NEW isClient, NEW accept
  PROVE  Kept(c, Break(handle_conresp(c, p, isClient, accept)))
<1> DEFINE u == update_connection_attrs(c, p)
           k == Confirm(u, p)
           s == [k EXCEPT !.state = "UP"]
           h == sendHeartbeat(s)
           up == [h EXCEPT !.heartbeat_on = TRUE, !.hb_locked = FALSE, !.timeout_on = TRUE]
           x == handle_conresp(c, p, isClient, accept)
<1>1. x \in {sr_close_connection(c), up, c}
  BY DEF handle_conresp, GoUp
<1>2. Same(c, u)
  BY FieldsSame
<1>3. Same(u, k)
  BY <1>2, FieldsSame DEF Same
<1> HIDE DEF u, k
<1>4. Quiet(s) /\ s.state = "UP"
  BY <1>3, StateSet, Zenon DEF Same, State
<1> HIDE DEF s
<1>5. Same(s, h)
  BY <1>4, SendsSame
<1> HIDE DEF h
<1>6. Quiet(up) /\ up.state = "UP" /\ up.timeout_on = TRUE
  BY <1>4, <1>5, TimersSet, Zenon DEF Same
<1> HIDE DEF up
<1>7. Kept(c, x)
  BY <1>1, <1>6, CloseKept, KeptCases, Zenon DEF Kept
<1> HIDE DEF x
<1>8. Same(x, Break(x))
  BY <1>7, FieldsSame DEF Kept
<1>9. Kept(c, Break(x))
  BY <1>7, <1>8 DEF Kept, Same, Steady
<1> QED BY <1>9 DEF x

(* handle_discreq closes the connection.                                   *)
LEMMA DiscReqKept ==
  ASSUME NEW c, Quiet(c), NEW p \in Pdu
  PROVE  Kept(c, handle_discreq(c))
<1> DEFINE r == sr_reset_connection(c)
<1>1. Closed(r)
  BY CloseKept
<1> HIDE DEF r
<1>2. Same(r, Break(r))
  BY <1>1, FieldsSame DEF Closed
<1>3. Kept(c, Break(r))
  BY <1>1, <1>2, KeptCases, Zenon DEF Same, Closed
<1> QED BY <1>3 DEF handle_discreq, r

\* What an end does on its own besides: the timer is not switched on by it.
Calm(c, d) == Kept(c, d) /\ (d.timeout_on => c.timeout_on)

(* The ways in which an end keeps the supervision on its own.              *)
LEMMA CalmCases ==
  ASSUME NEW c, NEW d
  PROVE  /\ Closed(d) => Calm(c, d)
         /\ Same(c, d) /\ Steady(c) => Calm(c, d)
         /\ Quiet(d) /\ d.timeout_on = c.timeout_on /\ d.state = "CLOSED" => Calm(c, d)
  BY KeptCases, Zenon DEF Calm, Closed, Same

(* The timed events stop the timer only when the connection is closed: in  *)
(* START it was off.                                                       *)
LEMMA TimersCalm ==
  ASSUME NEW c, Quiet(c), Steady(c)
  PROVE  /\ Calm(c, event_connection_expired(c))
         /\ Calm(c, heartbeat_send_event(c))
         /\ Calm(c, data_send_event(c))
<1>1. Calm(c, c) /\ Calm(c, data_send_event(c)) /\ Calm(c, sendHeartbeat(c))
  <2>1. Same(c, c)
    BY DEF Same
  <2> QED BY <2>1, CalmCases, SendEventSame, SendsSame
<1>2. Calm(c, heartbeat_send_event(c))
  BY <1>1 DEF heartbeat_send_event
<1>3. Calm(c, event_connection_expired(c))
  <2> DEFINE d == IF c.state \in Open THEN sr_close_connection(c) ELSE c
             x == [d EXCEPT !.heartbeat_on = FALSE, !.timeout_on = FALSE]
  <2>1. event_connection_expired(c) \in {c, Break(x)}
    BY DEF event_connection_expired
  <2>2. /\ Quiet(d)
        /\ d.state = "CLOSED" \/ (d.state = "START" /\ c.timeout_on = FALSE)
    <3>1. CASE c.state \in Open
      BY <3>1, CloseKept, Zenon DEF Closed
    <3>2. CASE c.state \notin Open
      <4>1. c.state \in State /\ c.timeout_on \in BOOLEAN
        BY DEF Quiet, Bounded, Connection
      <4> QED BY <3>2, <4>1 DEF State, Open, Steady
    <3> QED BY <3>1, <3>2, Zenon
  <2> HIDE DEF d
  <2>3. Quiet(x) /\ x.state = d.state /\ x.timeout_on = FALSE
    BY <2>2, TimersSet, Zenon
  <2> HIDE DEF x
  <2>4. Bounded(x) /\ Bounded(Break(x)) /\ x \in Connection
    BY <2>3, BreakBounded DEF Quiet, Bounded
  <2>5. Same(x, Break(x))
    BY <2>3, <2>4 DEF Same, Quiet, Break, Connection
  <2>6. Calm(c, Break(x))
    BY <2>2, <2>3, <2>5 DEF Calm, Kept, Same, Steady
  <2> QED BY <1>1, <2>1, <2>6
<1> QED BY <1>1, <1>2, <1>3

(* The calls of rasta.c on an open connection.                             *)
LEMMA CallsCalm ==
  ASSUME NEW c, Quiet(c), Steady(c)
  PROVE  /\ Calm(c, Break(c)) /\ Calm(c, sr_close_connection(c))
         /\ Calm(c, [c EXCEPT !.brk = FALSE])
         /\ Calm(c, [c EXCEPT !.brk = FALSE, !.is_new = FALSE])
         /\ c.fifo_recv # << >> => Calm(c, [c EXCEPT !.fifo_recv = Tail(@), !.brk = FALSE])
<1>1. Bounded(c) /\ c \in Connection
  BY DEF Quiet, Bounded
<1>2. Same(c, Break(c))
  <2>1. Bounded(Break(c))
    BY <1>1, BreakBounded
  <2> QED BY <1>1, <2>1 DEF Same, Quiet, Break, Connection
<1>3. Same(c, [c EXCEPT !.brk = FALSE]) /\ Same(c, [c EXCEPT !.brk = FALSE, !.is_new = FALSE])
  <2>1. Bounded([c EXCEPT !.brk = FALSE]) /\ Bounded([c EXCEPT !.brk = FALSE, !.is_new = FALSE])
    BY <1>1, ReturnBounded, Zenon
  <2> QED BY <1>1, <2>1 DEF Same, Quiet, Connection
<1>4. ASSUME c.fifo_recv # << >>
      PROVE  Same(c, [c EXCEPT !.fifo_recv = Tail(@), !.brk = FALSE])
  <2>1. Bounded([c EXCEPT !.fifo_recv = Tail(@), !.brk = FALSE])
    BY <1>1, <1>4, ReturnBounded, Zenon
  <2> QED BY <1>1, <2>1 DEF Same, Quiet, Connection
<1> QED BY <1>2, <1>3, <1>4, CloseKept, CalmCases

(* sr_send does not touch the timer, also when it closes the connection.   *)
LEMMA SendCalm ==
  ASSUME NEW c, Quiet(c), Steady(c), NEW m \in Message
  PROVE  Calm(c, sr_send(c, m))
<1> DEFINE r == MakeRoom(c)
           t == [r EXCEPT !.fifo_send = Append(@, m), !.send_on = TRUE]
           q == sendDisconnectionRequest(c)
<1>1. sr_send(c, m) \in {r, t, [c EXCEPT !.state = "CLOSED"], [q EXCEPT !.state = "CLOSED"]}
  BY DEF sr_send
<1>2. Same(c, r)
  BY SendEventSame DEF MakeRoom, Same
<1>3. Bounded(sr_send(c, m))
  BY SendBounded DEF Quiet
<1> HIDE DEF r
<1>4. t.out = r.out /\ t.state = r.state /\ t.timeout_on = r.timeout_on
  <2>1. r \in Connection
    BY <1>2 DEF Same, Quiet, Bounded
  <2> QED BY <2>1 DEF Connection
<1> HIDE DEF t
<1>5. Same(c, q)
  BY SendsSame
<1> HIDE DEF q
<1>6. Calm(c, [c EXCEPT !.state = "CLOSED"]) /\ Calm(c, [q EXCEPT !.state = "CLOSED"])
  <2>1. /\ Quiet([c EXCEPT !.state = "CLOSED"]) /\ [c EXCEPT !.state = "CLOSED"].state = "CLOSED"
        /\ [c EXCEPT !.state = "CLOSED"].timeout_on = c.timeout_on
    BY StateSet, Zenon DEF State
  <2>2. /\ Quiet([q EXCEPT !.state = "CLOSED"]) /\ [q EXCEPT !.state = "CLOSED"].state = "CLOSED"
        /\ [q EXCEPT !.state = "CLOSED"].timeout_on = c.timeout_on
    BY <1>5, StateSet, Zenon DEF State, Same
  <2> QED BY <2>1, <2>2, CalmCases, Zenon
<1>7. CASE sr_send(c, m) = t
  <2>1. Same(c, sr_send(c, m))
    BY <1>2, <1>3, <1>4, <1>7 DEF Same, Quiet
  <2> QED BY <2>1, CalmCases
<1>8. Calm(c, r)
  BY <1>2, CalmCases
<1> QED BY <1>1, <1>6, <1>7, <1>8

-----------------------------------------------------------------------------
(* The invariant.                                                          *)

FirstOnly(s) == \A i \in 2..Len(s) : s[i].type # "CONNREQ"

\* Between two steps nothing is left to be sent.
Idle(c) == c.out = << >> /\ Steady(c)

Sup ==
  /\ \A e \in Endpoint : Idle(con[e])
  /\ NoConReq(chan[Client])
  /\ FirstOnly(chan[Server])
  /\ chan[Server] # << >> /\ Head(chan[Server]).type = "CONNREQ" => ~con[Server].timeout_on
  /\ app[Client] = "start" =>
       chan[Server] = << >> /\ ~con[Server].timeout_on /\ ~con[Client].timeout_on

SInv == TypeOK /\ QueuesBounded /\ Sup

KeptStep ==
  \A e \in Endpoint :
    con[e].timeout_on /\ ~con'[e].timeout_on => con'[e].state = "CLOSED"

(* In the invariant no end has a ConReq left to send.                      *)
LEMMA EndsQuiet ==
  ASSUME SInv, NEW e \in Endpoint
  PROVE  Quiet(con[e]) /\ Steady(con[e])
<1>1. Bounded(con[e])
  BY EndsBounded DEF SInv
<1>2. con[e].out = << >> /\ Steady(con[e])
  BY DEF SInv, Sup, Idle
<1>3. NoConReq(<< >>)
  BY DEF NoConReq
<1> QED BY <1>1, <1>2, <1>3 DEF Quiet

(* What is under way after the first PDU was taken.                        *)
LEMMA TailFirst ==
  ASSUME NEW s \in Seq(Pdu), s # << >>
  PROVE  /\ FirstOnly(s) => NoConReq(Tail(s))
         /\ NoConReq(s) => NoConReq(Tail(s)) /\ Head(s).type # "CONNREQ"
<1>1. /\ Len(s) \in Nat \ {0} /\ Len(Tail(s)) = Len(s) - 1
      /\ \A i \in 1..(Len(s) - 1) : Tail(s)[i] = s[i + 1]
      /\ Head(s) = s[1]
  BY HeadTailProperties
<1>2. ASSUME NEW i \in 1..Len(Tail(s))
      PROVE  i + 1 \in 2..Len(s) /\ i + 1 \in 1..Len(s) /\ Tail(s)[i] = s[i + 1]
  BY <1>1
<1>3. 1 \in 1..Len(s)
  BY <1>1
<1>4. FirstOnly(s) => NoConReq(Tail(s))
  BY <1>2 DEF FirstOnly, NoConReq
<1>5. NoConReq(s) => NoConReq(Tail(s)) /\ Head(s).type # "CONNREQ"
  BY <1>1, <1>2, <1>3 DEF NoConReq
<1> QED BY <1>4, <1>5

(* What is under way after PDUs other than a ConReq were sent.             *)
LEMMA ConcatFirst ==
  ASSUME NEW s \in Seq(Pdu), FirstOnly(s), NEW t \in Seq(Pdu), NoConReq(t)
  PROVE  /\ FirstOnly(s \o t)
         /\ s # << >> => s \o t # << >> /\ Head(s \o t) = Head(s)
         /\ s = << >> /\ s \o t # << >> => Head(s \o t).type # "CONNREQ"
<1>1. /\ Len(s) \in Nat /\ Len(t) \in Nat /\ Len(s \o t) = Len(s) + Len(t)
      /\ \A i \in 1..(Len(s) + Len(t)) :
           (s \o t)[i] = IF i <= Len(s) THEN s[i] ELSE t[i - Len(s)]
  BY ConcatProperties
<1>2. ASSUME NEW i \in 2..Len(s \o t) PROVE (s \o t)[i].type # "CONNREQ"
  <2>1. CASE i <= Len(s)
    <3>1. i \in 2..Len(s) /\ (s \o t)[i] = s[i]
      BY <1>1, <2>1
    <3> QED BY <3>1 DEF FirstOnly
  <2>2. CASE ~(i <= Len(s))
    <3>1. i - Len(s) \in 1..Len(t) /\ (s \o t)[i] = t[i - Len(s)]
      BY <1>1, <2>2
    <3> QED BY <3>1 DEF NoConReq
  <2> QED BY <2>1, <2>2
<1>3. ASSUME s # << >> PROVE s \o t # << >> /\ Head(s \o t) = Head(s)
  <2>1. Len(s) > 0 /\ s \o t \in Seq(Pdu)
    BY <1>1, <1>3, EmptySeq, ConcatProperties
  <2>2. Head(s \o t) = (s \o t)[1] /\ Head(s) = s[1] /\ (s \o t)[1] = s[1] /\ s \o t # << >>
    BY <1>1, <2>1
  <2> QED BY <2>2
<1>4. ASSUME s = << >>, s \o t # << >> PROVE Head(s \o t).type # "CONNREQ"
  <2>1. s \o t = t
    BY <1>4, ConcatEmptySeq
  <2>2. t # << >>
    BY <1>4, <2>1
  <2> QED BY <2>1, <2>2, TailFirst
<1>5. FirstOnly(s \o t)
  BY <1>2 DEF FirstOnly
<1> QED BY <1>3, <1>4, <1>5

(* The end that takes a step, and the other one.                           *)
LEMMA EndFields ==
  ASSUME TypeOK, NEW e \in Endpoint, NEW c, Quiet(c),
         con' = [con EXCEPT ![e] = [c EXCEPT !.out = << >>]]
  PROVE  /\ con'[e].out = << >> /\ con'[e].state = c.state /\ con'[e].timeout_on = c.timeout_on
         /\ \A f \in Endpoint : f # e => con'[f] = con[f]
<1>1. c \in Connection
  BY DEF Quiet, Bounded
<1>2. con'[e] = [c EXCEPT !.out = << >>] /\ \A f \in Endpoint : f # e => con'[f] = con[f]
  BY DEF TypeOK
<1> QED BY <1>1, <1>2 DEF Connection

(* The step of one end satisfies the property and leaves both ends idle.   *)
LEMMA StepOfEnd ==
  ASSUME SInv, NEW e \in Endpoint, NEW c, Kept(con[e], c),
         con' = [con EXCEPT ![e] = [c EXCEPT !.out = << >>]]
  PROVE  KeptStep /\ \A f \in Endpoint : Idle(con'[f])
<1>1. /\ con'[e].out = << >> /\ con'[e].state = c.state /\ con'[e].timeout_on = c.timeout_on
      /\ \A f \in Endpoint : f # e => con'[f] = con[f]
  BY EndFields, Zenon DEF SInv, Kept
<1>2. ASSUME NEW f \in Endpoint
      PROVE  /\ Idle(con'[f])
             /\ con[f].timeout_on /\ ~con'[f].timeout_on => con'[f].state = "CLOSED"
  <2>1. CASE f = e
    BY <1>1, <2>1 DEF Kept, Steady, Idle
  <2>2. CASE f # e
    <3>1. con'[f] = con[f] /\ Idle(con[f])
      BY <1>1, <2>2 DEF SInv, Sup
    <3> QED BY <3>1, Zenon
  <2> QED BY <2>1, <2>2
<1> QED BY <1>2 DEF KeptStep

(* The two ends are partners.                                              *)
LEMMA Ends == /\ Client \in Endpoint /\ Server \in Endpoint
              /\ Partner[Client] = Server /\ Partner[Server] = Client
              /\ \A e \in Endpoint : e = Client \/ e = Server
  BY EndsDiffer DEF Endpoint, Partner

(* What an end does on its own, after the client has called rasta_connect  *)
(* or at the server, keeps the invariant.                                  *)
LEMMA DoKeepsSup ==
  ASSUME SInv, NEW e \in Endpoint, NEW c, Calm(con[e], c), Do(e, c),
         e = Client => app[Client] # "start",
         app'[Client] = "start" => app[Client] = "start"
  PROVE  Sup' /\ KeptStep
<1>1. Quiet(c) /\ Kept(con[e], c) /\ c.out \in Seq(Pdu) /\ NoConReq(c.out)
  BY DEF Calm, Kept, Quiet, Bounded, Connection
<1>2. KeptStep /\ \A f \in Endpoint : Idle(con'[f])
  BY <1>1, StepOfEnd, Zenon DEF Do
<1>3. /\ con'[e].timeout_on = c.timeout_on
      /\ \A f \in Endpoint : f # e => con'[f] = con[f]
  BY <1>1, EndFields, Zenon DEF SInv, Do
<1>4. chan[Client] \in Seq(Pdu) /\ chan[Server] \in Seq(Pdu)
  BY Ends DEF SInv, TypeOK
<1>5. CASE e = Client
  <2>1. chan'[Client] = chan[Client] /\ chan'[Server] = chan[Server] \o c.out
    BY <1>5, Ends, EndsDiffer, Zenon DEF Do, SInv, TypeOK
  <2>2. con'[Server] = con[Server]
    BY <1>3, <1>5, Ends, EndsDiffer
  <2>3. FirstOnly(chan[Server]) /\ NoConReq(chan[Client])
    BY DEF SInv, Sup
  <2>4. /\ FirstOnly(chan[Server] \o c.out)
        /\ chan[Server] # << >> => Head(chan[Server] \o c.out) = Head(chan[Server])
        /\ chan[Server] = << >> /\ chan[Server] \o c.out # << >> =>
             Head(chan[Server] \o c.out).type # "CONNREQ"
    BY <1>1, <1>4, <2>3, ConcatFirst, Zenon
  <2>5. chan'[Server] # << >> /\ Head(chan'[Server]).type = "CONNREQ" => ~con'[Server].timeout_on
    BY <2>1, <2>2, <2>4, Zenon DEF SInv, Sup
  <2> QED BY <1>2, <1>5, <2>1, <2>3, <2>4, <2>5, Zenon DEF Sup
<1>6. CASE e = Server
  <2>1. chan'[Server] = chan[Server] /\ chan'[Client] = chan[Client] \o c.out
    BY <1>6, Ends, EndsDiffer, SMTT(30) DEF Do, SInv, TypeOK
  <2>2. con'[Client] = con[Client]
    BY <1>3, <1>6, Ends, EndsDiffer
  <2>3. con'[Server].timeout_on => con[Server].timeout_on
    BY <1>3, <1>6 DEF Calm
  <2>4. NoConReq(chan[Client] \o c.out)
    BY <1>1, <1>4, ConcatNoConReq DEF SInv, Sup
  <2> QED BY <1>2, <2>1, <2>2, <2>3, <2>4 DEF SInv, Sup
<1> QED BY <1>5, <1>6, Ends

(* Handling the next PDU keeps the invariant: after it, no ConReq is under *)
(* way to that end.                                                        *)
LEMMA HandleKeepsSup ==
  ASSUME SInv, NEW e \in Endpoint, NEW p, NEW c, NEW late, Kept(con[e], c),
         Incoming(e), Handle(e, p, c, late)
  PROVE  Sup' /\ KeptStep
<1>1. Quiet(c) /\ c.out \in Seq(Pdu) /\ NoConReq(c.out)
  BY DEF Kept, Quiet, Bounded, Connection
<1>2. KeptStep /\ \A f \in Endpoint : Idle(con'[f])
  BY StepOfEnd, Zenon DEF Handle
<1>3. \A f \in Endpoint : f # e => con'[f] = con[f]
  BY <1>1, EndFields DEF SInv, Handle
<1>4. /\ chan[Client] \in Seq(Pdu) /\ chan[Server] \in Seq(Pdu)
      /\ FirstOnly(chan[Server]) /\ NoConReq(chan[Client])
  BY Ends DEF SInv, TypeOK, Sup
<1>5. app[Client] # "start" /\ app' = app /\ chan[e] # << >>
  <2>1. app' = app /\ chan[e] # << >> /\ app[e] \in {"opening", "recv"}
    BY DEF Handle, Incoming, Running
  <2> QED BY <2>1, Ends DEF SInv, Sup
<1>6. CASE e = Client
  <2>1. chan'[Client] = Tail(chan[Client]) /\ chan'[Server] = chan[Server] \o c.out
    BY <1>6, Ends, EndsDiffer, Zenon DEF Handle, SInv, TypeOK
  <2>2. con'[Server] = con[Server]
    BY <1>3, <1>6, Ends, EndsDiffer
  <2>3. NoConReq(chan'[Client])
    BY <1>4, <1>5, <1>6, <2>1, TailFirst
  <2>4. /\ FirstOnly(chan[Server] \o c.out)
        /\ chan[Server] # << >> => Head(chan[Server] \o c.out) = Head(chan[Server])
        /\ chan[Server] = << >> /\ chan[Server] \o c.out # << >> =>
             Head(chan[Server] \o c.out).type # "CONNREQ"
    BY <1>1, <1>4, ConcatFirst, Zenon
  <2>5. chan'[Server] # << >> /\ Head(chan'[Server]).type = "CONNREQ" => ~con'[Server].timeout_on
    BY <2>1, <2>2, <2>4, Zenon DEF SInv, Sup
  <2> QED BY <1>2, <1>5, <2>1, <2>3, <2>4, <2>5, Zenon DEF Sup
<1>7. CASE e = Server
  <2>1. chan'[Server] = Tail(chan[Server]) /\ chan'[Client] = chan[Client] \o c.out
    BY <1>7, Ends, EndsDiffer, Zenon DEF Handle, SInv, TypeOK
  <2>2. NoConReq(chan'[Server]) /\ chan'[Server] \in Seq(Pdu)
    BY <1>4, <1>5, <1>7, <2>1, TailFirst, SMTT(30)
  <2>3. FirstOnly(chan'[Server]) /\ (chan'[Server] # << >> => Head(chan'[Server]).type # "CONNREQ")
    <3>1. FirstOnly(chan'[Server])
      BY <2>2 DEF FirstOnly, NoConReq
    <3> QED BY <2>2, <3>1, TailFirst
  <2>4. NoConReq(chan[Client] \o c.out)
    BY <1>1, <1>4, ConcatNoConReq
  <2> QED BY <1>2, <1>5, <2>1, <2>3, <2>4 DEF Sup
<1> QED BY <1>6, <1>7, Ends

(* Damage does not change the type of a PDU.                               *)
LEMMA ArrivalType ==
  ASSUME TypeOK, NEW e \in Endpoint, chan[e] # << >>, NEW p \in Arrivals(e)
  PROVE  p.type = Head(chan[e]).type
<1> DEFINE h == Head(chan[e])
<1>1. h \in Pdu
  BY DEF TypeOK
<1>2. PICK q \in {h} \cup Damaged(h) : p = Repacked(q)
  BY DEF Arrivals
<1> HIDE DEF h
<1>3. q.type = h.type /\ DOMAIN q = DOMAIN h
  BY <1>1, <1>2, Zenon DEF Damaged, Pdu
<1>4. DOMAIN h = {"type", "sn", "cs", "data", "to", "sum"}
  BY <1>1 DEF Pdu
<1>5. p.type = h.type
  BY <1>2, <1>3, <1>4 DEF Repacked
<1> QED BY <1>5 DEF h

-----------------------------------------------------------------------------
(* One step per action.                                                    *)

(* Whatever PDU is handled, the invariant and the property hold.           *)
LEMMA ReceiveKeepsSup ==
  ASSUME SInv, NEW e \in Endpoint, Receive(e)
  PROVE  Sup' /\ KeptStep
<1>1. Quiet(con[e]) /\ Steady(con[e])
  BY EndsQuiet
<1>2. Incoming(e) /\ chan[e] # << >>
  BY Zenon DEF Receive, ReceiveConReq, ReceiveConResp, ReceiveRejected, ReceiveData, ReceiveRetrReq,
         ReceiveRetrResp, ReceiveRetrData, ReceiveHb, ReceiveDiscReq, Incoming
<1>3. \A p \in Arrivals(e) : p \in Pdu /\ p.type = Head(chan[e]).type
  BY <1>2, ArrivalsArePdus, ArrivalType DEF SInv
<1>4. CASE ReceiveConReq(e)
  <2>1. PICK p \in Arrivals(e), accept \in VersionVerdicts :
          p.type = "CONNREQ" /\ Handle(e, p, handle_conreq(con[e], p, accept), FALSE)
    BY <1>4, Zenon DEF ReceiveConReq
  <2>2. con[e].timeout_on = FALSE
    <3>1. Head(chan[e]).type = "CONNREQ"
      BY <1>3, <2>1
    <3>2. e = Server
      <4>1. chan[Client] \in Seq(Pdu) /\ NoConReq(chan[Client])
        BY Ends DEF SInv, TypeOK, Sup
      <4> QED BY <1>2, <3>1, <4>1, Ends, TailFirst
    <3>3. ~con[e].timeout_on
      BY <1>2, <3>1, <3>2 DEF SInv, Sup
    <3>4. con[e].timeout_on \in BOOLEAN
      BY <1>1 DEF Quiet, Bounded, Connection
    <3> QED BY <3>3, <3>4
  <2>3. Kept(con[e], handle_conreq(con[e], p, accept))
    BY <1>1, <1>3, <2>2, ConReqKept, Zenon
  <2> QED BY <1>2, <2>1, <2>3, HandleKeepsSup, Zenon
<1>5. CASE ReceiveConResp(e)
  <2>1. PICK p \in Arrivals(e), accept \in VersionVerdicts :
          Handle(e, p, Break(handle_conresp(con[e], p, e = Client, accept)), FALSE)
    BY <1>5, Zenon DEF ReceiveConResp
  <2>2. Kept(con[e], Break(handle_conresp(con[e], p, e = Client, accept)))
    BY <1>1, <1>3, ConRespKept
  <2> QED BY <1>2, <2>1, <2>2, HandleKeepsSup, Zenon
<1>6. CASE ReceiveRejected(e)
  <2>1. PICK p \in Arrivals(e) : Handle(e, p, con[e], FALSE)
    BY <1>6, Zenon DEF ReceiveRejected
  <2>2. Kept(con[e], con[e])
    BY <1>1 DEF Kept
  <2> QED BY <1>2, <2>1, <2>2, HandleKeepsSup, Zenon
<1>7. CASE ReceiveData(e)
  <2>1. PICK p \in Arrivals(e), late \in Lateness : Handle(e, p, handle_data(con[e], p, late), late)
    BY <1>7 DEF ReceiveData
  <2>2. Kept(con[e], handle_data(con[e], p, late))
    BY <1>1, <1>3, DataKept
  <2> QED BY <1>2, <2>1, <2>2, HandleKeepsSup
<1>8. CASE ReceiveRetrReq(e)
  <2>1. PICK p \in Arrivals(e) : Handle(e, p, handle_retrreq(con[e], p), FALSE)
    BY <1>8, Zenon DEF ReceiveRetrReq
  <2>2. Kept(con[e], handle_retrreq(con[e], p))
    BY <1>1, <1>3, RetrReqKept
  <2> QED BY <1>2, <2>1, <2>2, HandleKeepsSup, Zenon
<1>9. CASE ReceiveRetrResp(e)
  <2>1. PICK p \in Arrivals(e) : Handle(e, p, handle_retrresp(con[e], p), FALSE)
    BY <1>9, Zenon DEF ReceiveRetrResp
  <2>2. Kept(con[e], handle_retrresp(con[e], p))
    BY <1>1, <1>3, RetrRespKept
  <2> QED BY <1>2, <2>1, <2>2, HandleKeepsSup, Zenon
<1>10. CASE ReceiveRetrData(e)
  <2>1. PICK p \in Arrivals(e), late \in Lateness : Handle(e, p, handle_retrdata(con[e], p, late), late)
    BY <1>10 DEF ReceiveRetrData
  <2>2. Kept(con[e], handle_retrdata(con[e], p, late))
    BY <1>1, <1>3, DataKept
  <2> QED BY <1>2, <2>1, <2>2, HandleKeepsSup
<1>11. CASE ReceiveHb(e)
  <2>1. PICK p \in Arrivals(e), late \in Lateness : Handle(e, p, handle_hb(con[e], p, late, e = Client), late)
    BY <1>11 DEF ReceiveHb
  <2>2. Kept(con[e], handle_hb(con[e], p, late, e = Client))
    BY <1>1, <1>3, HbKept
  <2> QED BY <1>2, <2>1, <2>2, HandleKeepsSup
<1>12. CASE ReceiveDiscReq(e)
  <2>1. PICK p \in Arrivals(e) : Handle(e, p, handle_discreq(con[e]), FALSE)
    BY <1>12, Zenon DEF ReceiveDiscReq
  <2>2. Kept(con[e], handle_discreq(con[e]))
    BY <1>1, <1>3, DiscReqKept
  <2> QED BY <1>2, <2>1, <2>2, HandleKeepsSup, Zenon
<1> QED BY <1>4, <1>5, <1>6, <1>7, <1>8, <1>9, <1>10, <1>11, <1>12 DEF Receive

(* The first call of the client: nothing was sent before, and no timer     *)
(* runs.                                                                   *)
LEMMA ConnectKeepsSup ==
  ASSUME SInv, NEW e \in Endpoint, RastaConnect(e)
  PROVE  Sup' /\ KeptStep
<1> DEFINE c == con[Client]
           d == [sr_reset_connection(c) EXCEPT !.sn_t = c.initial, !.cs_t = 0, !.cts_set = TRUE]
           p == [type |-> "CONNREQ", sn |-> d.sn_t, cs |-> d.cs_t, data |-> << >>, to |-> TRUE, sum |-> TRUE]
           x == sr_connect(c)
<1>1. e = Client /\ app[Client] = "start" /\ app'[Client] # "start" /\ Do(Client, x)
  BY Ends DEF RastaConnect, SInv, TypeOK
<1>2. /\ Quiet(c) /\ c \in Connection /\ c.out = << >> /\ chan[Server] = << >>
      /\ ~con[Server].timeout_on /\ ~c.timeout_on
  BY <1>1, EndsQuiet, Ends DEF Quiet, Bounded, SInv, Sup, Idle
<1>3. x.out = << p >> /\ x.state = "START" /\ x.timeout_on = FALSE /\ x \in Connection
  <2>1. x \in Connection
    BY <1>2, StartBounded, Zenon DEF Quiet, Bounded
  <2>2. DOMAIN d = DOMAIN c /\ d.out = << >> /\ d.timeout_on = FALSE
    BY <1>2, Zenon DEF Connection, sr_reset_connection
  <2>3. x = [EmitAndCount(d, "CONNREQ", << >>) EXCEPT !.state = "START"]
    BY DEF sr_connect
  <2>4. DOMAIN c = {"state", "initial", "sn_t", "sn_r", "cs_t", "cs_r", "cts_set", "hb_locked",
                    "heartbeat_on", "timeout_on", "send_on", "is_new", "brk", "fifo_send",
                    "fifo_retr", "fifo_recv", "out"}
    BY <1>2 DEF Connection
  <2> HIDE DEF x, d, c
  <2>5. x.out = Append(d.out, p) /\ x.state = "START" /\ x.timeout_on = d.timeout_on
    BY <2>2, <2>3, <2>4, Zenon DEF EmitAndCount, Emit
  <2>6. Append(<< >>, p) = << p >>
    OBVIOUS
  <2> QED BY <2>1, <2>2, <2>5, <2>6
<1> HIDE DEF x, p
<1>4. /\ con'[Client].out = << >> /\ con'[Client].state = "START" /\ con'[Client].timeout_on = FALSE
      /\ con'[Server] = con[Server]
  BY <1>1, <1>3, Ends, EndsDiffer DEF Do, SInv, TypeOK, Connection
<1>5. chan'[Client] = chan[Client] /\ chan'[Server] = << p >>
  <2>1. chan'[Client] = chan[Client] /\ chan'[Server] = chan[Server] \o x.out
    BY <1>1, Ends, EndsDiffer, Zenon DEF Do, SInv, TypeOK
  <2> QED BY <1>2, <1>3, <2>1
<1>6. FirstOnly(chan'[Server])
  BY <1>5 DEF FirstOnly
<1>7. \A f \in Endpoint : Idle(con'[f])
  <2>1. Idle(con'[Client])
    BY <1>4 DEF Idle, Steady
  <2>2. Idle(con'[Server])
    BY <1>4, Ends DEF SInv, Sup
  <2> QED BY <2>1, <2>2, Ends
<1>8. KeptStep
  <2>1. ~con[Client].timeout_on
    BY <1>2
  <2> QED BY <1>4, <2>1, Ends DEF KeptStep
<1>9. NoConReq(chan'[Client]) /\ ~con'[Server].timeout_on
  BY <1>2, <1>4, <1>5 DEF SInv, Sup
<1> QED BY <1>1, <1>6, <1>7, <1>8, <1>9 DEF Sup

(* Every step keeps the invariant and satisfies the property.              *)
LEMMA NextKeepsSup ==
  ASSUME SInv, [Next]_vars
  PROVE  SInv' /\ [KeptStep]_vars
<1>1. TypeOK' /\ QueuesBounded'
  BY NextKeeps DEF SInv
<1>2. CASE UNCHANGED vars
  <2>1. Sup'
    BY <1>2 DEF vars, SInv, Sup
  <2> QED BY <1>1, <1>2, <2>1 DEF SInv
<1>3. CASE Next
  <2>1. PICK e \in Endpoint :
          \/ Receive(e) \/ TimeoutExpires(e) \/ HeartbeatDue(e) \/ SendDue(e)
          \/ HandshakeTimeout(e) \/ RastaConnect(e) \/ RastaAccept(e) \/ Return(e)
          \/ RastaSend(e) \/ RastaDisconnect(e)
    BY <1>3 DEF Next
  <2>2. Quiet(con[e]) /\ Steady(con[e])
    BY EndsQuiet
  <2>3. app \in [Endpoint -> {"start", "opening", "idle", "recv", "done"}] /\ accepted[e] \in Nat
    BY DEF SInv, TypeOK
  <2> DEFINE Apart == /\ e = Client => app[Client] # "start"
                      /\ app'[Client] = "start" => app[Client] = "start"
  <2>4. CASE Receive(e)
    BY <1>1, <2>4, ReceiveKeepsSup DEF SInv
  <2>5. CASE TimeoutExpires(e)
    <3>1. Apart /\ Do(e, event_connection_expired(con[e]))
      BY <2>5 DEF TimeoutExpires, Waiting, Running
    <3> QED BY <1>1, <2>2, <3>1, TimersCalm, DoKeepsSup DEF SInv
  <2>6. CASE HeartbeatDue(e)
    <3>1. Apart /\ Do(e, heartbeat_send_event(con[e]))
      BY <2>6 DEF HeartbeatDue, Waiting, Running
    <3> QED BY <1>1, <2>2, <3>1, TimersCalm, DoKeepsSup DEF SInv
  <2>7. CASE SendDue(e)
    <3>1. Apart /\ Do(e, data_send_event(con[e]))
      BY <2>7 DEF SendDue, Waiting, Running
    <3> QED BY <1>1, <2>2, <3>1, TimersCalm, DoKeepsSup DEF SInv
  <2>8. CASE HandshakeTimeout(e)
    <3>1. Apart /\ Do(e, Break(con[e]))
      BY <2>8 DEF HandshakeTimeout
    <3> QED BY <1>1, <2>2, <3>1, CallsCalm, DoKeepsSup, Zenon DEF SInv
  <2>9. CASE RastaConnect(e)
    BY <1>1, <2>9, ConnectKeepsSup DEF SInv
  <2>10. CASE RastaAccept(e)
    <3>1. /\ con' = con /\ chan' = chan /\ e = Server
          /\ app' = [app EXCEPT ![e] = "opening"]
      BY <2>10 DEF RastaAccept
    <3>2. app'[Client] = app[Client]
      BY <2>3, <3>1, Ends, EndsDiffer
    <3>3. Sup'
      BY <3>1, <3>2 DEF SInv, Sup
    <3>4. KeptStep
      BY <3>1 DEF KeptStep
    <3> QED BY <1>1, <3>3, <3>4 DEF SInv
  <2>11. CASE Return(e)
    <3>1. CASE OpeningReturns(e)
      <4>1. Apart
        <5>1. app[e] # "start" /\ \E a \in {"idle", "done"} : app' = [app EXCEPT ![e] = a]
          BY <3>1, Zenon DEF OpeningReturns
        <5> QED BY <2>3, <5>1, Ends
      <4>2. Do(e, [con[e] EXCEPT !.brk = FALSE, !.is_new = FALSE])
        BY <3>1 DEF OpeningReturns
      <4> QED BY <1>1, <2>2, <4>1, <4>2, CallsCalm, DoKeepsSup, Zenon DEF SInv
    <3>2. CASE RastaRecvMessage(e)
      <4>1. Apart
        BY <2>3, <3>2, Ends DEF RastaRecvMessage
      <4>2. con[e].fifo_recv # << >> /\ Do(e, [con[e] EXCEPT !.fifo_recv = Tail(@), !.brk = FALSE])
        BY <3>2 DEF RastaRecvMessage
      <4> QED BY <1>1, <2>2, <4>1, <4>2, CallsCalm, DoKeepsSup, Zenon DEF SInv
    <3>3. CASE RastaRecvWaits(e) \/ RastaRecvFails(e)
      <4>1. Apart
        BY <2>3, <3>3, Ends DEF RastaRecvWaits, RastaRecvFails
      <4>2. Do(e, [con[e] EXCEPT !.brk = FALSE])
        BY <3>3 DEF RastaRecvWaits, RastaRecvFails
      <4> QED BY <1>1, <2>2, <4>1, <4>2, CallsCalm, DoKeepsSup, Zenon DEF SInv
    <3> QED BY <2>11, <3>1, <3>2, <3>3 DEF Return
  <2>12. CASE RastaSend(e)
    <3>1. Apart /\ Do(e, sr_send(con[e], accepted[e] + 1))
      BY <2>12 DEF RastaSend
    <3>2. accepted[e] + 1 \in Message
      BY <2>3 DEF Message
    <3> QED BY <1>1, <2>2, <3>1, <3>2, SendCalm, DoKeepsSup DEF SInv
  <2>13. CASE RastaDisconnect(e)
    <3>1. Apart
      BY <2>3, <2>13, Ends DEF RastaDisconnect
    <3>2. Do(e, sr_close_connection(con[e]))
      BY <2>13 DEF RastaDisconnect
    <3> QED BY <1>1, <2>2, <3>1, <3>2, CallsCalm, DoKeepsSup, Zenon DEF SInv
  <2> QED BY <2>1, <2>4, <2>5, <2>6, <2>7, <2>8, <2>9, <2>10, <2>11, <2>12, <2>13
<1> QED BY <1>2, <1>3

(* The invariant holds when both ends are configured.                      *)
LEMMA InitSup == Init => SInv
<1> SUFFICES ASSUME Init PROVE SInv
  OBVIOUS
<1>1. TypeOK /\ QueuesBounded
  BY InitKeeps
<1>2. PICK initial \in InitialSns : con = [e \in Endpoint |-> NewConnection(initial[e])]
  BY DEF Init
<1>3. \A e \in Endpoint : con[e].out = << >> /\ con[e].state = "CLOSED" /\ con[e].timeout_on = FALSE
  BY <1>2 DEF NewConnection
<1>4. chan[Client] = << >> /\ chan[Server] = << >>
  BY Ends DEF Init
<1>5. NoConReq(<< >>) /\ FirstOnly(<< >>)
  BY DEF NoConReq, FirstOnly
<1>6. Sup
  BY <1>3, <1>4, <1>5, Ends DEF Sup, Idle, Steady
<1> QED BY <1>1, <1>6 DEF SInv

(* The timer that supervises a connection (timeout_event) is switched off  *)
(* only by a step that leaves the connection closed, whatever is damaged,  *)
(* late, retransmitted or sent meanwhile: sr_reset_connection, which       *)
(* sr_connect and handle_conreq also call on their way to START, never     *)
(* stops the supervision of a connection that goes on.  As in the model,   *)
(* the client calls rasta_connect once.                                    *)
THEOREM SupervisionIsKept == Spec => SupervisionKept
<1>1. SInv /\ [Next]_vars => SInv'
  BY NextKeepsSup
<1>2. SInv /\ [Next]_vars =>
        [\A e \in Endpoint :
           con[e].timeout_on /\ ~con'[e].timeout_on => con'[e].state = "CLOSED"]_vars
  BY NextKeepsSup DEF KeptStep
<1> QED BY <1>1, <1>2, InitSup, PTL DEF Spec, SupervisionKept
=============================================================================

---------------------- MODULE RedundancyChannelProofs ----------------------
(***************************************************************************)
(* Proofs about RedundancyChannel, for any number of transport channels,   *)
(* any size of the defer queue and both kinds of transport.                *)
(***************************************************************************)
EXTENDS RedundancyChannel, SequenceTheorems, WellFoundedInduction,
        FiniteSetTheorems, TLAPS

(* Each end is the partner of its partner.                                 *)
LEMMA PartnerFacts ==
  ASSUME NEW e \in Endpoint
  PROVE  /\ Partner[e] \in Endpoint
         /\ Partner[e] # e
         /\ Partner[Partner[e]] = e
         /\ \A f \in Endpoint : f # e => f = Partner[e]
  BY EndpointsDiffer DEF Endpoint, Partner

(* What the elements of a sequence of frames are.                          *)
LEMMA FrameFacts ==
  ASSUME NEW q \in Seq(Frame)
  PROVE  /\ Len(q) \in Nat /\ DOMAIN q = 1..Len(q)
         /\ \A i \in DOMAIN q : /\ q[i] \in Frame
                               /\ q[i].seq \in Nat /\ q[i].pdu \in Pdu
<1>1. \A i \in DOMAIN q : q[i] \in Frame
  BY ElementOfSeq, LenProperties
<1> QED
  BY <1>1, LenProperties DEF Frame

(* What the elements of a sequence are after one more was appended.        *)
LEMMA AppendFacts ==
  ASSUME NEW S, NEW q \in Seq(S), NEW x \in S
  PROVE  /\ Append(q, x) \in Seq(S)
         /\ Len(q) \in Nat /\ Len(Append(q, x)) = Len(q) + 1
         /\ DOMAIN q = 1..Len(q) /\ DOMAIN Append(q, x) = 1..(Len(q) + 1)
         /\ Append(q, x)[Len(q) + 1] = x
         /\ \A i \in DOMAIN q : Append(q, x)[i] = q[i]
         /\ \A i \in DOMAIN Append(q, x) : i \in DOMAIN q \/ i = Len(q) + 1
  BY AppendProperties, LenProperties

(* What is left of a sequence when one element is taken out: used for a    *)
(* frame that leaves a channel and for one that leaves the defer queue.    *)
LEMMA WithoutFacts ==
  ASSUME NEW S, NEW q \in Seq(S), NEW i \in DOMAIN q
  PROVE  /\ Without(q, i) \in Seq(S)
         /\ Len(Without(q, i)) = Len(q) - 1
         /\ DOMAIN Without(q, i) = 1..(Len(q) - 1)
         /\ \A j \in DOMAIN Without(q, i) :
              Without(q, i)[j] = IF j < i THEN q[j] ELSE q[j + 1]
<1>1. /\ Len(q) \in Nat /\ DOMAIN q = 1..Len(q) /\ i \in 1..Len(q)
      /\ \A j \in 1..Len(q) : q[j] \in S
  BY LenProperties
<1> DEFINE n == Len(q) - 1
<1>2. n \in Nat
  BY <1>1
<1>3. Without(q, i) \in [1..n -> S]
  BY <1>1 DEF Without
<1>4. Without(q, i) \in Seq(S)
  BY <1>2, <1>3, SeqDef
<1>5. DOMAIN Without(q, i) = 1..n
  BY DEF Without
<1>6. Len(Without(q, i)) = n
  BY <1>2, <1>4, <1>5, LenProperties
<1> QED
  BY <1>4, <1>5, <1>6 DEF Without

(* A nonempty set of natural numbers has a least element.                  *)
LEMMA LeastElement ==
  ASSUME NEW T, T \subseteq Nat, T # {}
  PROVE  \E x \in T : \A y \in T : x <= y
<1>1. PICK x \in T : \A y \in T : ~(<<y, x>> \in OpToRel(<, Nat))
  BY NatLessThanWellFounded, WFMin, Zenon
<1>2. \A y \in T : y \in Nat /\ x \in Nat /\ ~(y < x)
  BY <1>1, Zenon DEF OpToRel
<1>3. \A y \in T : x <= y
  BY <1>2
<1> QED
  BY <1>3

(* find_index returns an index of the defer queue that holds the number.   *)
LEMMA FindIndexFacts ==
  ASSUME NEW q \in Seq(Frame), NEW seq, deferqueue_contains(q, seq)
  PROVE  /\ find_index(q, seq) \in DOMAIN q
         /\ q[find_index(q, seq)].seq = seq
<1> DEFINE hits == {i \in DOMAIN q : q[i].seq = seq}
<1>1. hits \subseteq Nat /\ hits # {}
  BY LenProperties DEF deferqueue_contains
<1>2. PICK i \in hits : \A j \in hits : i <= j
  BY <1>1, LeastElement, Zenon
<1> QED
  BY <1>2, LenProperties DEF find_index

-----------------------------------------------------------------------------
(* The inductive invariant, in named parts.                                *)

\* the counters count what was sent and what was handed up
Counters ==
  \A e \in Endpoint : Len(sent[e]) = seq_tx[e] /\ Len(delivered[e]) = seq_rx[e]

\* a frame on its way to e, or waiting there, is the one its number names
Genuine(e, frame) ==
  /\ frame.seq < seq_tx[Partner[e]]
  /\ frame.pdu = sent[Partner[e]][frame.seq + 1]

GenuineFrames ==
  \A e \in Endpoint :
    /\ \A ch \in Channel : \A i \in DOMAIN net[e][ch] : Genuine(e, net[e][ch][i])
    /\ \A i \in DOMAIN defer_q[e] : Genuine(e, defer_q[e][i])

OrderInv == TypeOK /\ Counters /\ GenuineFrames /\ DeliveredInOrder

-----------------------------------------------------------------------------
(* Type correctness, one lemma for the initial states and one per action.  *)

LEMMA InitTypeOK == Init => TypeOK
  BY DeferQueueSizeAssumption, BoundsAssumption, StreamAssumption
  DEF Init, TypeOK, Frame

LEMMA SendTypeOK ==
  ASSUME TypeOK, NEW e \in Endpoint, NEW pdu \in Pdu, redundancy_mux_send(e, pdu)
  PROVE  TypeOK'
<1> DEFINE frame == [seq |-> seq_tx[e], pdu |-> pdu]
<1>1. frame \in Frame
  BY DEF TypeOK, Frame
<1>2. Partner[e] \in Endpoint
  BY PartnerFacts
<1>3. [ch \in Channel |-> IF ch \in connected[e]
                         THEN Append(net[Partner[e]][ch], frame)
                         ELSE net[Partner[e]][ch]] \in [Channel -> Seq(Frame)]
  BY <1>1, <1>2 DEF TypeOK
<1>4. net' \in [Endpoint -> [Channel -> Seq(Frame)]]
  BY <1>2, <1>3, Zenon DEF TypeOK, redundancy_mux_send
<1>5. lost' \in [Endpoint -> SUBSET (Channel \X Nat)]
  BY <1>2, SMTT(30) DEF TypeOK, redundancy_mux_send
<1>6. sent' \in [Endpoint -> Seq(Pdu)]
  BY DEF TypeOK, redundancy_mux_send
<1>7. seq_tx' \in [Endpoint -> Nat]
  BY DEF TypeOK, redundancy_mux_send
<1> QED
  BY <1>4, <1>5, <1>6, <1>7, Zenon DEF TypeOK, redundancy_mux_send

LEMMA ReceiveTypeOK ==
  ASSUME TypeOK, NEW e \in Endpoint, NEW ch \in Channel,
         NEW i \in Arriving(e, ch), receive_packet(e, ch, i)
  PROVE  TypeOK'
<1> DEFINE frame == net[e][ch][i]
<1>0. net[e][ch] \in Seq(Frame) /\ i \in DOMAIN net[e][ch]
  BY DEF TypeOK, Arriving
<1>1. frame \in Frame /\ frame.seq \in Nat
  BY <1>0, FrameFacts
<1>2. net' \in [Endpoint -> [Channel -> Seq(Frame)]]
  <2>1. Without(net[e][ch], i) \in Seq(Frame)
    BY <1>0, WithoutFacts
  <2>2. CASE net' = [net EXCEPT ![e][ch] = Without(@, i)]
    BY <2>1, <2>2 DEF TypeOK
  <2>3. CASE net' = net
    BY <2>3 DEF TypeOK
  <2> QED
    BY <2>2, <2>3 DEF receive_packet, TakeFrom, LeaveToArriveAgain
<1>3. duplicated' \in 0..MaxDuplicates
  BY BoundsAssumption DEF TypeOK, receive_packet, TakeFrom, LeaveToArriveAgain
<1>4. /\ deferqueue_add(defer_q[e], frame) \in Seq(Frame)
      /\ Len(deferqueue_add(defer_q[e], frame)) <= DeferQueueSize
  BY <1>1, DeferQueueSizeAssumption DEF TypeOK, deferqueue_add, deferqueue_isfull
<1>5. /\ defer_q' \in [Endpoint -> Seq(Frame)]
      /\ \A f \in Endpoint : Len(defer_q'[f]) <= DeferQueueSize
  BY <1>4 DEF TypeOK, receive_packet
<1>6. discarded' \in [Endpoint -> SUBSET (Channel \X Nat)]
  BY <1>1 DEF TypeOK, receive_packet
<1>7. result' \in [Endpoint -> BOOLEAN]
  BY DEF TypeOK, receive_packet, IsNextInOrder
<1>8. /\ phase' \in [Endpoint -> {"wait", "read", "deliver"}]
      /\ reading' \in [Endpoint -> Channel \cup {NoChannel}]
      /\ connected' \in [Endpoint -> SUBSET Channel]
  BY DEF TypeOK, receive_packet
<1> QED
  BY <1>2, <1>3, <1>5, <1>6, <1>7, <1>8, Zenon DEF TypeOK, receive_packet

LEMMA DeliverTypeOK ==
  ASSUME TypeOK, NEW e \in Endpoint, red_f_deliverDeferQueue(e)
  PROVE  TypeOK'
<1> DEFINE k == find_index(defer_q[e], seq_rx[e])
<1>1. /\ defer_q[e] \in Seq(Frame) /\ k \in DOMAIN defer_q[e]
      /\ defer_q[e][k] \in Frame /\ defer_q[e][k].pdu \in Pdu
  BY FindIndexFacts, FrameFacts DEF TypeOK, red_f_deliverDeferQueue
<1>2. /\ Without(defer_q[e], k) \in Seq(Frame)
      /\ Len(Without(defer_q[e], k)) = Len(defer_q[e]) - 1
  BY <1>1, WithoutFacts, Zenon
<1>3. /\ defer_q' \in [Endpoint -> Seq(Frame)]
      /\ \A f \in Endpoint : Len(defer_q'[f]) <= DeferQueueSize
  BY <1>1, <1>2, DeferQueueSizeAssumption, SMTT(30)
  DEF TypeOK, red_f_deliverDeferQueue, deferqueue_remove
<1>4. delivered' \in [Endpoint -> Seq(Pdu)]
  BY <1>1 DEF TypeOK, red_f_deliverDeferQueue
<1>5. /\ seq_rx' \in [Endpoint -> Nat]
      /\ phase' \in [Endpoint -> {"wait", "read", "deliver"}]
  BY DEF TypeOK, red_f_deliverDeferQueue
<1>6. UNCHANGED <<seq_tx, reading, result, connected, net, duplicated, sent,
                  lost, discarded>>
  BY DEF red_f_deliverDeferQueue
<1> QED
  BY <1>3, <1>4, <1>5, <1>6, SMTT(30) DEF TypeOK

LEMMA ReturnTypeOK ==
  ASSUME TypeOK, NEW e \in Endpoint, ReceiveReturns(e)
  PROVE  TypeOK'
  BY SMTT(30) DEF TypeOK, ReceiveReturns, history

LEMMA LoseTypeOK ==
  ASSUME TypeOK, NEW e \in Endpoint, NEW ch \in Channel,
         NEW i \in DOMAIN net[e][ch], LoseDatagram(e, ch, i)
  PROVE  TypeOK'
<1>1. net[e][ch] \in Seq(Frame) /\ net[e][ch][i].seq \in Nat
  BY FrameFacts DEF TypeOK
<1>2. net' \in [Endpoint -> [Channel -> Seq(Frame)]]
  BY <1>1, WithoutFacts DEF TypeOK, LoseDatagram
<1>3. lost' \in [Endpoint -> SUBSET (Channel \X Nat)]
  BY <1>1, SMTT(30) DEF TypeOK, LoseDatagram
<1> QED
  BY <1>2, <1>3, Zenon DEF TypeOK, LoseDatagram, layer

(* Type correctness: the counters, the channels and the histories keep     *)
(* their types in every reachable state, and deferqueue_add never puts     *)
(* more than n_deferqueue_size elements into the defer queue's array.      *)
THEOREM TypeCorrect == Spec => []TypeOK
<1>1. TypeOK /\ [Next]_vars => TypeOK'
  <2> SUFFICES ASSUME TypeOK, [Next]_vars PROVE TypeOK'
    OBVIOUS
  <2>1. ASSUME NEW e \in Endpoint, NEW pdu \in Pdu, redundancy_mux_send(e, pdu)
        PROVE  TypeOK'
    BY <2>1, SendTypeOK
  <2>2. ASSUME NEW e \in Endpoint, Receive(e) PROVE TypeOK'
    BY <2>2, ReceiveTypeOK DEF Receive
  <2>3. ASSUME NEW e \in Endpoint, red_f_deliverDeferQueue(e) PROVE TypeOK'
    BY <2>3, DeliverTypeOK
  <2>4. ASSUME NEW e \in Endpoint, ReceiveReturns(e) PROVE TypeOK'
    BY <2>4, ReturnTypeOK
  <2>5. ASSUME NEW e \in Endpoint, NEW ch \in Channel,
               NEW i \in DOMAIN net[e][ch], LoseDatagram(e, ch, i)
        PROVE  TypeOK'
    BY <2>5, LoseTypeOK
  <2>6. ASSUME UNCHANGED vars PROVE TypeOK'
    BY <2>6 DEF vars, layer, history, TypeOK
  <2> QED
    BY <2>1, <2>2, <2>3, <2>4, <2>5, <2>6 DEF Next
<1> QED
  BY InitTypeOK, <1>1, PTL DEF Spec

-----------------------------------------------------------------------------
(* The order of delivery.                                                  *)

LEMMA InitOrderInv == Init => OrderInv
<1> SUFFICES ASSUME Init PROVE OrderInv
  OBVIOUS
<1>1. \A e \in Endpoint : sent[e] = << >> /\ delivered[e] = << >> /\ defer_q[e] = << >>
  BY DEF Init
<1>2. \A e \in Endpoint, ch \in Channel : net[e][ch] = << >>
  BY DEF Init
<1>3. Counters
  BY <1>1 DEF Init, Counters
<1>4. GenuineFrames
  BY <1>1, <1>2 DEF GenuineFrames
<1>5. DeliveredInOrder
  BY <1>1, PartnerFacts DEF DeliveredInOrder
<1> QED
  BY <1>3, <1>4, <1>5, InitTypeOK DEF OrderInv

(* redundancy_mux_send: the new frame carries the next number and its PDU  *)
(* is the next one of the history, and older frames keep their meaning.    *)
LEMMA SendOrderInv ==
  ASSUME OrderInv, NEW e \in Endpoint, NEW pdu \in Pdu, redundancy_mux_send(e, pdu)
  PROVE  OrderInv'
<1> DEFINE p == Partner[e]
<1>1. TypeOK'
  BY SendTypeOK DEF OrderInv
<1>2. /\ p \in Endpoint /\ p # e /\ Partner[p] = e
      /\ \A f \in Endpoint : f # p => f = e
  BY PartnerFacts
<1>3. /\ TypeOK /\ sent[e] \in Seq(Pdu) /\ seq_tx[e] \in Nat /\ Len(sent[e]) = seq_tx[e]
  BY DEF OrderInv, TypeOK, Counters
<1>f. PICK frame \in Frame : frame = [seq |-> seq_tx[e], pdu |-> pdu]
  BY <1>3, Zenon DEF Frame
<1>4. /\ sent'[e] = Append(sent[e], pdu) /\ sent'[p] = sent[p]
      /\ seq_tx'[e] = seq_tx[e] + 1 /\ seq_tx'[p] = seq_tx[p]
      /\ UNCHANGED <<defer_q, delivered, seq_rx>>
  BY <1>2, <1>3 DEF redundancy_mux_send, TypeOK
<1>5. /\ Len(sent'[e]) = seq_tx[e] + 1
      /\ sent'[e][seq_tx[e] + 1] = pdu
      /\ \A k \in 1..seq_tx[e] : sent'[e][k] = sent[e][k]
  BY <1>3, <1>4, AppendProperties
<1>6. Counters'
  BY <1>2, <1>3, <1>4, <1>5 DEF OrderInv, Counters
<1>7. \A f \in Endpoint : \A g \in Frame : Genuine(f, g) => Genuine(f, g)'
  <2> SUFFICES ASSUME NEW f \in Endpoint, NEW g \in Frame, Genuine(f, g)
               PROVE  Genuine(f, g)'
    OBVIOUS
  <2>1. g.seq \in Nat
    BY DEF Frame
  <2>2. CASE f = p
    <3>1. Partner[f] = e /\ g.seq < seq_tx[e] /\ g.pdu = sent[e][g.seq + 1]
      BY <1>2, <2>2 DEF Genuine
    <3>2. g.seq + 1 \in 1..seq_tx[e] /\ g.seq < seq_tx'[e]
      BY <1>3, <1>4, <2>1, <3>1
    <3>3. g.pdu = sent'[e][g.seq + 1]
      BY <1>5, <3>1, <3>2
    <3> QED
      BY <3>1, <3>2, <3>3 DEF Genuine
  <2>3. CASE f = e
    BY <1>2, <1>3, <1>4, <2>1, <2>3 DEF Genuine
  <2> QED
    BY <1>2, <2>2, <2>3
<1>8. Genuine(p, frame)'
  <2>1. frame.seq = seq_tx[e] /\ frame.pdu = pdu
    BY <1>f
  <2>2. frame.seq < seq_tx'[e] /\ frame.pdu = sent'[e][frame.seq + 1]
    BY <1>3, <1>4, <1>5, <2>1
  <2> QED
    BY <1>2, <2>2 DEF Genuine
<1>9. GenuineFrames'
  <2>1. \A f \in Endpoint : \A i \in DOMAIN defer_q'[f] : Genuine(f, defer_q[f][i])'
    BY <1>3, <1>4, <1>7, FrameFacts DEF OrderInv, GenuineFrames, TypeOK
  <2>2. \A ch \in Channel : \A i \in DOMAIN net'[e][ch] : Genuine(e, net[e][ch][i])'
    <3>1. net'[e] = net[e]
      BY <1>2, <1>3 DEF redundancy_mux_send, TypeOK
    <3> QED
      BY <1>3, <1>7, <3>1, FrameFacts DEF OrderInv, GenuineFrames, TypeOK
  <2>3. ASSUME NEW ch \in Channel, NEW i \in DOMAIN net'[p][ch]
        PROVE  Genuine(p, net[p][ch][i])'
    <3>1. net[p][ch] \in Seq(Frame) /\ frame \in Frame
      BY <1>2, <1>3 DEF TypeOK
    <3>2. \/ net'[p][ch] = net[p][ch]
          \/ net'[p][ch] = Append(net[p][ch], frame)
      BY <1>f, <1>2, <1>3, Zenon DEF redundancy_mux_send, TypeOK
    <3>3. \/ i \in DOMAIN net[p][ch] /\ net'[p][ch][i] = net[p][ch][i]
          \/ net'[p][ch][i] = frame
      <4>1. CASE net'[p][ch] = net[p][ch]
        BY <2>3, <4>1
      <4>2. CASE net'[p][ch] = Append(net[p][ch], frame)
        BY <2>3, <3>1, <4>2, AppendFacts
      <4> QED
        BY <3>2, <4>1, <4>2, Zenon
    <3> QED
      BY <1>2, <1>7, <1>8, <3>1, <3>3, FrameFacts DEF OrderInv, GenuineFrames
  <2> QED
    BY <1>2, <2>1, <2>2, <2>3 DEF GenuineFrames
<1>10. DeliveredInOrder'
  <2>1. Len(delivered[p]) \in Nat /\ DOMAIN delivered[p] = 1..Len(delivered[p])
    BY <1>2, <1>3, LenProperties DEF TypeOK
  <2>2. /\ Len(delivered[p]) <= seq_tx[e]
        /\ \A k \in DOMAIN delivered[p] : delivered[p][k] = sent[e][k]
    BY <1>2, <1>3 DEF OrderInv, DeliveredInOrder
  <2>3. /\ Len(delivered[p]) <= Len(sent'[e])
        /\ \A k \in DOMAIN delivered[p] : delivered[p][k] = sent'[e][k]
    <3>1. Len(delivered[p]) <= Len(sent'[e])
      BY <1>3, <1>5, <2>1, <2>2
    <3>2. \A k \in DOMAIN delivered[p] : k \in 1..seq_tx[e]
      BY <1>3, <2>1, <2>2
    <3> QED
      BY <1>5, <2>2, <3>1, <3>2
  <2>4. /\ Len(delivered[e]) <= Len(sent[p])
        /\ \A k \in DOMAIN delivered[e] : delivered[e][k] = sent[p][k]
    BY <1>2 DEF OrderInv, DeliveredInOrder
  <2> QED
    BY <1>2, <1>4, <2>3, <2>4, Zenon DEF DeliveredInOrder
<1> QED
  BY <1>1, <1>6, <1>9, <1>10 DEF OrderInv

(* What a channel holds once a frame was read from it or lost: frames that *)
(* it held before, in the same order.                                      *)
LEMMA NetFacts ==
  ASSUME TypeOK, NEW e \in Endpoint, NEW ch \in Channel, NEW i \in DOMAIN net[e][ch],
         \/ net' = [net EXCEPT ![e][ch] = Without(@, i)]
         \/ net' = net
  PROVE  \A f \in Endpoint, c \in Channel : \A j \in DOMAIN net'[f][c] :
           \E k \in DOMAIN net[f][c] : net'[f][c][j] = net[f][c][k]
<1>1. CASE net' = net
  BY <1>1
<1>2. CASE net' = [net EXCEPT ![e][ch] = Without(@, i)]
  <2> SUFFICES ASSUME NEW f \in Endpoint, NEW c \in Channel, NEW j \in DOMAIN net'[f][c]
               PROVE  \E k \in DOMAIN net[f][c] : net'[f][c][j] = net[f][c][k]
    OBVIOUS
  <2>1. CASE f = e /\ c = ch
    <3>1. net[e][ch] \in Seq(Frame) /\ net'[f][c] = Without(net[e][ch], i)
      BY <1>2, <2>1 DEF TypeOK
    <3>2. /\ Len(net[e][ch]) \in Nat /\ DOMAIN net[e][ch] = 1..Len(net[e][ch])
      BY <3>1, LenProperties
    <3>3. /\ j \in 1..(Len(net[e][ch]) - 1)
          /\ net'[f][c][j] = IF j < i THEN net[e][ch][j] ELSE net[e][ch][j + 1]
      BY <3>1, WithoutFacts, Zenon
    <3>4. j \in DOMAIN net[e][ch] /\ j + 1 \in DOMAIN net[e][ch]
      BY <3>2, <3>3
    <3> QED
      BY <2>1, <3>3, <3>4
  <2>2. CASE ~(f = e /\ c = ch)
    <3>1. net'[f][c] = net[f][c]
      BY <1>2, <2>2 DEF TypeOK
    <3> QED
      BY <3>1
  <2> QED
    BY <2>1, <2>2
<1> QED
  BY <1>1, <1>2

(* receive_packet: what enters the defer queue was on the channel.         *)
LEMMA ReceiveOrderInv ==
  ASSUME OrderInv, NEW e \in Endpoint, NEW ch \in Channel,
         NEW i \in Arriving(e, ch), receive_packet(e, ch, i)
  PROVE  OrderInv'
<1>1. TypeOK' /\ TypeOK
  BY ReceiveTypeOK DEF OrderInv
<1>2. /\ net[e][ch] \in Seq(Frame) /\ i \in DOMAIN net[e][ch]
      /\ net[e][ch][i] \in Frame
  BY <1>1, FrameFacts, SMTT(30) DEF TypeOK, Arriving
<1>3. UNCHANGED <<seq_tx, seq_rx, sent, delivered>>
  BY DEF receive_packet
<1>4. \A f \in Endpoint : \A g : Genuine(f, g)' <=> Genuine(f, g)
  BY <1>3 DEF Genuine
<1>5. ASSUME NEW f \in Endpoint, NEW c \in Channel, NEW j \in DOMAIN net'[f][c]
      PROVE  Genuine(f, net[f][c][j])'
  <2>1. PICK k \in DOMAIN net[f][c] : net'[f][c][j] = net[f][c][k]
    BY <1>1, <1>2, <1>5, NetFacts DEF receive_packet, TakeFrom, LeaveToArriveAgain
  <2> QED
    BY <1>4, <2>1 DEF OrderInv, GenuineFrames
<1>6. ASSUME NEW f \in Endpoint, NEW j \in DOMAIN defer_q'[f]
      PROVE  Genuine(f, defer_q[f][j])'
  <2>1. \/ defer_q'[f] = defer_q[f]
        \/ f = e /\ defer_q'[f] = Append(defer_q[e], net[e][ch][i])
    BY <1>1 DEF receive_packet, deferqueue_add, TypeOK
  <2>2. \/ j \in DOMAIN defer_q[f] /\ defer_q'[f][j] = defer_q[f][j]
        \/ f = e /\ defer_q'[f][j] = net[e][ch][i]
    <3>1. defer_q[e] \in Seq(Frame)
      BY <1>1 DEF TypeOK
    <3>2. CASE defer_q'[f] = defer_q[f]
      BY <1>6, <3>2
    <3>3. CASE f = e /\ defer_q'[f] = Append(defer_q[e], net[e][ch][i])
      BY <1>2, <1>6, <3>1, <3>3, AppendFacts
    <3> QED
      BY <2>1, <3>2, <3>3
  <2>3. Genuine(f, defer_q'[f][j])
    BY <1>2, <2>2 DEF OrderInv, GenuineFrames
  <2> QED
    BY <1>4, <2>3
<1>7. GenuineFrames'
  BY <1>5, <1>6 DEF GenuineFrames
<1> QED
  BY <1>1, <1>3, <1>7 DEF OrderInv, Counters, DeliveredInOrder

(* The frame that deferqueue_get finds for the number that is due is the   *)
(* next one of the peer's history.                                         *)
LEMMA DueFrameFacts ==
  ASSUME OrderInv, NEW e \in Endpoint, red_f_deliverDeferQueue(e)
  PROVE  LET k == find_index(defer_q[e], seq_rx[e])
         IN /\ k \in DOMAIN defer_q[e]
            /\ defer_q[e][k].seq = seq_rx[e]
            /\ defer_q[e][k].pdu \in Pdu
            /\ Len(delivered[e]) = seq_rx[e]
            /\ Len(delivered[e]) < Len(sent[Partner[e]])
            /\ defer_q[e][k].pdu = sent[Partner[e]][Len(delivered[e]) + 1]
<1> DEFINE k == find_index(defer_q[e], seq_rx[e])
<1>1. TypeOK
  BY DEF OrderInv
<1>2. /\ k \in DOMAIN defer_q[e]
      /\ defer_q[e][k].seq = seq_rx[e] /\ defer_q[e][k].pdu \in Pdu
  BY <1>1, FindIndexFacts, FrameFacts DEF TypeOK, red_f_deliverDeferQueue
<1>3. /\ Len(delivered[e]) = seq_rx[e]
      /\ Len(sent[Partner[e]]) = seq_tx[Partner[e]]
  BY PartnerFacts DEF OrderInv, Counters
<1>4. /\ seq_rx[e] < seq_tx[Partner[e]]
      /\ defer_q[e][k].pdu = sent[Partner[e]][seq_rx[e] + 1]
  BY <1>2 DEF OrderInv, GenuineFrames, Genuine
<1> QED
  BY <1>2, <1>3, <1>4

(* red_f_deliverDeferQueue: the frame that is handed up has the number     *)
(* that is due, so its PDU is the next one of the peer's history.          *)
LEMMA DeliverOrderInv ==
  ASSUME OrderInv, NEW e \in Endpoint, red_f_deliverDeferQueue(e)
  PROVE  OrderInv'
<1> DEFINE k == find_index(defer_q[e], seq_rx[e])
           p == Partner[e]
<1>1. TypeOK' /\ TypeOK
  BY DeliverTypeOK DEF OrderInv
<1>2. /\ defer_q[e] \in Seq(Frame) /\ k \in DOMAIN defer_q[e]
      /\ defer_q[e][k].seq = seq_rx[e] /\ defer_q[e][k].pdu \in Pdu
  BY <1>1, DueFrameFacts DEF TypeOK
<1>3. /\ p \in Endpoint /\ delivered[e] \in Seq(Pdu) /\ sent[p] \in Seq(Pdu)
      /\ seq_rx[e] \in Nat /\ seq_tx[p] \in Nat
      /\ Len(delivered[e]) = seq_rx[e] /\ Len(sent[p]) = seq_tx[p]
  BY <1>1, PartnerFacts, Zenon DEF TypeOK, OrderInv, Counters
<1>4. seq_rx[e] < seq_tx[p] /\ defer_q[e][k].pdu = sent[p][seq_rx[e] + 1]
  BY <1>3, DueFrameFacts
<1>5. /\ UNCHANGED <<seq_tx, net, sent>>
      /\ delivered' = [delivered EXCEPT ![e] = Append(@, defer_q[e][k].pdu)]
      /\ defer_q' = [defer_q EXCEPT ![e] = Without(@, k)]
      /\ seq_rx' = [seq_rx EXCEPT ![e] = @ + 1]
  BY DEF red_f_deliverDeferQueue, deferqueue_remove
<1>6. /\ delivered'[e] = Append(delivered[e], defer_q[e][k].pdu)
      /\ seq_rx'[e] = seq_rx[e] + 1
      /\ \A f \in Endpoint : f # e => /\ delivered'[f] = delivered[f]
                                     /\ seq_rx'[f] = seq_rx[f]
  BY <1>1, <1>5 DEF TypeOK
<1>7. Counters'
  BY <1>2, <1>3, <1>5, <1>6, AppendFacts DEF OrderInv, Counters
<1>8. GenuineFrames'
  <2>1. \A f \in Endpoint : \A g : Genuine(f, g)' <=> Genuine(f, g)
    BY <1>5 DEF Genuine
  <2>2. ASSUME NEW f \in Endpoint, NEW j \in DOMAIN defer_q'[f]
        PROVE  \E m \in DOMAIN defer_q[f] : defer_q'[f][j] = defer_q[f][m]
    <3>1. CASE f # e
      BY <1>1, <1>5, <2>2, <3>1 DEF TypeOK
    <3>2. CASE f = e
      <4>1. defer_q'[e] = Without(defer_q[e], k)
        BY <1>1, <1>5 DEF TypeOK
      <4>2. /\ j \in 1..(Len(defer_q[e]) - 1)
            /\ defer_q'[e][j] = IF j < k THEN defer_q[e][j] ELSE defer_q[e][j + 1]
        BY <1>2, <2>2, <3>2, <4>1, WithoutFacts, Zenon
      <4>3. j \in DOMAIN defer_q[e] /\ j + 1 \in DOMAIN defer_q[e]
        BY <1>2, <4>2, FrameFacts
      <4> QED
        BY <3>2, <4>2, <4>3
    <3> QED
      BY <3>1, <3>2
  <2>3. \A f \in Endpoint : \A j \in DOMAIN defer_q'[f] : Genuine(f, defer_q'[f][j])
    BY <2>2 DEF OrderInv, GenuineFrames
  <2> QED
    BY <1>5, <2>1, <2>3 DEF OrderInv, GenuineFrames
<1>9. DeliveredInOrder'
  <2>1. ASSUME NEW f \in Endpoint, f # e
        PROVE  /\ Len(delivered'[f]) <= Len(sent'[Partner[f]])
               /\ \A m \in DOMAIN delivered'[f] : delivered'[f][m] = sent'[Partner[f]][m]
    BY <1>5, <1>6, <2>1 DEF OrderInv, DeliveredInOrder
  <2>2. Len(delivered'[e]) <= Len(sent'[p])
    BY <1>2, <1>3, <1>4, <1>5, <1>6, AppendFacts
  <2>3. ASSUME NEW m \in DOMAIN delivered'[e]
        PROVE  delivered'[e][m] = sent[p][m]
    <3>1. \/ m \in DOMAIN delivered[e] /\ delivered'[e][m] = delivered[e][m]
          \/ m = seq_rx[e] + 1 /\ delivered'[e][m] = defer_q[e][k].pdu
      BY <1>2, <1>3, <1>6, <2>3, AppendFacts
    <3> QED
      BY <1>4, <3>1 DEF OrderInv, DeliveredInOrder
  <2> QED
    BY <1>5, <2>1, <2>2, <2>3 DEF DeliveredInOrder
<1> QED
  BY <1>1, <1>7, <1>8, <1>9 DEF OrderInv

(* The datagrams that get lost change nothing that the ends know.          *)
LEMMA LoseOrderInv ==
  ASSUME OrderInv, NEW e \in Endpoint, NEW ch \in Channel,
         NEW i \in DOMAIN net[e][ch], LoseDatagram(e, ch, i)
  PROVE  OrderInv'
<1>1. TypeOK' /\ TypeOK
  BY LoseTypeOK DEF OrderInv
<1>2. UNCHANGED <<seq_tx, seq_rx, defer_q, sent, delivered>>
  BY DEF LoseDatagram, layer
<1>3. \A f \in Endpoint : \A g : Genuine(f, g)' <=> Genuine(f, g)
  BY <1>2 DEF Genuine
<1>4. \A f \in Endpoint, c \in Channel : \A j \in DOMAIN net'[f][c] :
        Genuine(f, net'[f][c][j])
  <2>1. \A f \in Endpoint, c \in Channel : \A j \in DOMAIN net'[f][c] :
          \E k \in DOMAIN net[f][c] : net'[f][c][j] = net[f][c][k]
    BY <1>1, NetFacts, Zenon DEF LoseDatagram
  <2> QED
    BY <2>1 DEF OrderInv, GenuineFrames
<1>5. GenuineFrames'
  BY <1>2, <1>3, <1>4 DEF OrderInv, GenuineFrames
<1> QED
  BY <1>1, <1>2, <1>5 DEF OrderInv, Counters, DeliveredInOrder

LEMMA NextOrderInv == OrderInv /\ [Next]_vars => OrderInv'
<1> SUFFICES ASSUME OrderInv, [Next]_vars PROVE OrderInv'
  OBVIOUS
<1>1. ASSUME NEW e \in Endpoint, NEW pdu \in Pdu, redundancy_mux_send(e, pdu)
      PROVE  OrderInv'
  BY <1>1, SendOrderInv
<1>2. ASSUME NEW e \in Endpoint, Receive(e) PROVE OrderInv'
  BY <1>2, ReceiveOrderInv DEF Receive
<1>3. ASSUME NEW e \in Endpoint, red_f_deliverDeferQueue(e) PROVE OrderInv'
  BY <1>3, DeliverOrderInv
<1>4. ASSUME NEW e \in Endpoint, ReceiveReturns(e) PROVE OrderInv'
  <2>1. TypeOK'
    BY <1>4, ReturnTypeOK DEF OrderInv
  <2>2. UNCHANGED <<seq_tx, seq_rx, defer_q, net, sent, delivered>>
    BY <1>4 DEF ReceiveReturns, history
  <2> QED
    BY <2>1, <2>2 DEF OrderInv, Counters, GenuineFrames, Genuine, DeliveredInOrder
<1>5. ASSUME NEW e \in Endpoint, NEW ch \in Channel,
             NEW i \in DOMAIN net[e][ch], LoseDatagram(e, ch, i)
      PROVE  OrderInv'
  BY <1>5, LoseOrderInv
<1>6. ASSUME UNCHANGED vars PROVE OrderInv'
  BY <1>6, Zenon DEF vars, layer, history, OrderInv, TypeOK, Counters, GenuineFrames,
              Genuine, DeliveredInOrder
<1> QED
  BY <1>1, <1>2, <1>3, <1>4, <1>5, <1>6 DEF Next

(* Over any number of channels that lose, repeat and reorder datagrams,    *)
(* and with any size of the defer queue, red_f_deliverDeferQueue hands up  *)
(* exactly the PDUs the peer passed to redundancy_mux_send, in that order  *)
(* and without a gap.                                                      *)
THEOREM DeliversInOrder == Spec => []DeliveredInOrder
<1>1. OrderInv => DeliveredInOrder
  BY DEF OrderInv
<1> QED
  BY InitOrderInv, NextOrderInv, <1>1, PTL DEF Spec

(* The redundancy layer implements the ordered link: redundancy_mux_send   *)
(* is HandDown, a round of red_f_deliverDeferQueue is HandUp, and every    *)
(* other step leaves what was sent and delivered as it is.                 *)
THEOREM RedundancyImplementsOrderedLink == Spec => ImplementsOrderedLink
<1>1. Init => Link!Init
  BY DEF Init, Link!Init
<1>2. OrderInv /\ OrderInv' /\ [Next]_vars => [Link!Next]_(Link!linkVars)
  <2> SUFFICES ASSUME OrderInv, OrderInv', [Next]_vars
               PROVE  [Link!Next]_(Link!linkVars)
    OBVIOUS
  <2>1. ASSUME NEW e \in Endpoint, NEW pdu \in Pdu, redundancy_mux_send(e, pdu)
        PROVE  Link!Next
    BY <2>1, Zenon DEF redundancy_mux_send, Link!Next, Link!HandDown
  <2>2. ASSUME NEW e \in Endpoint, Receive(e) PROVE UNCHANGED <<sent, delivered>>
    BY <2>2 DEF Receive, receive_packet
  <2>3. ASSUME NEW e \in Endpoint, red_f_deliverDeferQueue(e) PROVE Link!Next
    <3> DEFINE due == defer_q[e][find_index(defer_q[e], seq_rx[e])].pdu
    <3>1. /\ delivered' = [delivered EXCEPT ![e] = Append(@, due)]
          /\ UNCHANGED sent
      BY <2>3, Zenon DEF red_f_deliverDeferQueue
    <3>2. /\ Len(delivered[e]) < Len(sent[Partner[e]])
          /\ due = sent[Partner[e]][Len(delivered[e]) + 1]
      BY <2>3, DueFrameFacts
    <3>3. Link!HandUp(e)
      BY <3>1, <3>2 DEF Link!HandUp
    <3> QED
      BY <3>3 DEF Link!Next
  <2>4. ASSUME NEW e \in Endpoint, ReceiveReturns(e)
        PROVE  UNCHANGED <<sent, delivered>>
    BY <2>4 DEF ReceiveReturns, history
  <2>5. ASSUME NEW e \in Endpoint, NEW ch \in Channel,
               NEW i \in DOMAIN net[e][ch], LoseDatagram(e, ch, i)
        PROVE  UNCHANGED <<sent, delivered>>
    BY <2>5 DEF LoseDatagram
  <2>6. ASSUME UNCHANGED vars PROVE UNCHANGED <<sent, delivered>>
    BY <2>6 DEF vars, history
  <2> QED
    BY <2>1, <2>2, <2>3, <2>4, <2>5, <2>6 DEF Next, Link!linkVars
<1> QED
  BY <1>1, <1>2, InitOrderInv, NextOrderInv, PTL
  DEF Spec, ImplementsOrderedLink, Link!Spec

(***************************************************************************)
(* Proof that no copy of a frame disappears in the redundancy layer        *)
(* (RedundancyChannel!EveryCopyAccounted).  With the type invariant the    *)
(* statement is inductive: each action moves a copy from one of the places *)
(* it names to another.                                                    *)
(***************************************************************************)

OnChannel(e, ch, seq) == \E i \in DOMAIN net[e][ch] : net[e][ch][i].seq = seq

Accounted(e, ch, seq) ==
  \/ seq < seq_rx[e]
  \/ deferqueue_contains(defer_q[e], seq)
  \/ OnChannel(e, ch, seq)
  \/ <<ch, seq>> \in lost[e] \cup discarded[e]

CopyInv ==
  /\ TypeOK
  /\ \A e \in Endpoint : \A ch \in Channel : \A seq \in 0..(seq_tx[Partner[e]] - 1) :
       Accounted(e, ch, seq)

(* Taking one element out of a sequence keeps the others: nothing else     *)
(* leaves a channel or the defer queue with it.                            *)
LEMMA WithoutKeeps ==
  ASSUME NEW S, NEW q \in Seq(S), NEW i \in DOMAIN q, NEW k \in DOMAIN q, k # i
  PROVE  \E j \in DOMAIN Without(q, i) : Without(q, i)[j] = q[k]
<1> DEFINE j == IF k < i THEN k ELSE k - 1
<1>1. Len(q) \in Nat /\ DOMAIN q = 1..Len(q)
  BY LenProperties
<1>2. j \in 1..(Len(q) - 1) /\ (j < i => j = k) /\ (~(j < i) => j + 1 = k)
  BY <1>1
<1>3. j \in DOMAIN Without(q, i) /\ Without(q, i)[j] = IF j < i THEN q[j] ELSE q[j + 1]
  BY <1>2, WithoutFacts
<1> QED
  BY <1>2, <1>3

(* A channel from which one frame is taken keeps the other numbers.        *)
LEMMA ChannelKeeps ==
  ASSUME TypeOK, NEW e \in Endpoint, NEW ch \in Channel, NEW i \in DOMAIN net[e][ch],
         \/ net' = [net EXCEPT ![e][ch] = Without(@, i)]
         \/ net' = net
  PROVE  \A f \in Endpoint, c \in Channel, seq \in Nat :
           OnChannel(f, c, seq) =>
             \/ OnChannel(f, c, seq)'
             \/ f = e /\ c = ch /\ seq = net[e][ch][i].seq
<1>1. CASE net' = net
  BY <1>1 DEF OnChannel
<1>2. CASE net' = [net EXCEPT ![e][ch] = Without(@, i)]
  <2> SUFFICES ASSUME NEW f \in Endpoint, NEW c \in Channel, NEW seq \in Nat,
                      NEW k \in DOMAIN net[f][c], net[f][c][k].seq = seq,
                      ~(f = e /\ c = ch /\ seq = net[e][ch][i].seq)
               PROVE  \E j \in DOMAIN net'[f][c] : net'[f][c][j].seq = seq
    BY DEF OnChannel
  <2>1. CASE f = e /\ c = ch
    <3>1. net[e][ch] \in Seq(Frame) /\ net'[f][c] = Without(net[e][ch], i)
      BY <1>2, <2>1 DEF TypeOK
    <3>2. k \in DOMAIN net[e][ch] /\ k # i
      BY <2>1
    <3>3. PICK j \in DOMAIN Without(net[e][ch], i) :
            Without(net[e][ch], i)[j] = net[e][ch][k]
      BY <3>1, <3>2, WithoutKeeps
    <3> QED
      BY <2>1, <3>1, <3>3
  <2>2. CASE ~(f = e /\ c = ch)
    <3>1. net'[f][c] = net[f][c]
      BY <1>2, <2>2 DEF TypeOK
    <3> QED
      BY <3>1
  <2> QED
    BY <2>1, <2>2
<1> QED
  BY <1>1, <1>2

(* A step that sends nothing has the same frames to account for.           *)
LEMMA AccountedBefore ==
  ASSUME CopyInv, seq_tx' = seq_tx, NEW f \in Endpoint, NEW c \in Channel,
         NEW seq \in 0..(seq_tx'[Partner[f]] - 1)
  PROVE  Accounted(f, c, seq) /\ seq \in Nat
<1>1. Accounted(f, c, seq)
  BY Zenon DEF CopyInv
<1>2. seq_tx'[Partner[f]] \in Nat
  BY PartnerFacts DEF CopyInv, TypeOK
<1>3. seq \in Nat
  BY <1>2
<1> QED
  BY <1>1, <1>3

-----------------------------------------------------------------------------
(* redundancy_mux_send puts the new frame on every connected channel and   *)
(* skips the others, which count as lost.                                  *)
LEMMA SendCopies ==
  ASSUME CopyInv, NEW e \in Endpoint, NEW pdu \in Pdu, redundancy_mux_send(e, pdu)
  PROVE  CopyInv'
<1> DEFINE p == Partner[e]
           frame == [seq |-> seq_tx[e], pdu |-> pdu]
<1>1. TypeOK /\ TypeOK'
  BY SendTypeOK DEF CopyInv
<1>2. /\ p \in Endpoint /\ p # e /\ Partner[p] = e
      /\ \A f \in Endpoint : f # p => f = e
  BY PartnerFacts
<1>a. /\ seq_tx[e] \in Nat /\ seq_tx'[e] = seq_tx[e] + 1 /\ seq_tx'[p] = seq_tx[p]
      /\ UNCHANGED <<seq_rx, defer_q, discarded>>
      /\ frame \in Frame /\ frame.seq = seq_tx[e]
  BY <1>1, <1>2, Zenon DEF redundancy_mux_send, TypeOK, Frame
<1>b. /\ lost'[e] = lost[e] /\ lost[p] \subseteq lost'[p]
      /\ \A c \in Channel \ connected[e] : <<c, seq_tx[e]>> \in lost'[p]
  <2>1. /\ lost' = [lost EXCEPT ![p] = @ \cup {<<c, seq_tx[e]>> : c \in Channel \ connected[e]}]
        /\ DOMAIN lost = Endpoint
    BY <1>1, Zenon DEF redundancy_mux_send, TypeOK
  <2>2. /\ lost'[e] = lost[e]
        /\ lost'[p] = lost[p] \cup {<<c, seq_tx[e]>> : c \in Channel \ connected[e]}
    BY <1>2, <2>1, Zenon
  <2> QED
    BY <2>2, Zenon
<1>c. /\ net'[e] = net[e]
      /\ \A c \in Channel : /\ net[p][c] \in Seq(Frame)
                            /\ net'[p][c] = IF c \in connected[e]
                                            THEN Append(net[p][c], frame) ELSE net[p][c]
  <2>1. /\ net \in [Endpoint -> [Channel -> Seq(Frame)]]
        /\ net' = [net EXCEPT ![p] =
                     [c \in Channel |-> IF c \in connected[e]
                                        THEN Append(@[c], frame) ELSE @[c]]]
    BY <1>1, Zenon DEF redundancy_mux_send, TypeOK
  <2> QED
    BY <1>2, <2>1
<1>3. /\ seq_tx[e] \in Nat /\ seq_tx'[e] = seq_tx[e] + 1 /\ seq_tx'[p] = seq_tx[p]
      /\ UNCHANGED <<seq_rx, defer_q, discarded>>
      /\ lost[e] = lost'[e] /\ lost[p] \subseteq lost'[p]
      /\ net'[e] = net[e]
      /\ \A c \in Channel \ connected[e] : <<c, seq_tx[e]>> \in lost'[p] /\ net'[p][c] = net[p][c]
      /\ \A c \in Channel \cap connected[e] : net'[p][c] = Append(net[p][c], frame)
      /\ frame \in Frame /\ frame.seq = seq_tx[e]
  BY <1>a, <1>b, <1>c, Zenon
<1>4. ASSUME NEW f \in Endpoint, NEW c \in Channel, NEW seq \in 0..(seq_tx'[Partner[f]] - 1)
      PROVE  Accounted(f, c, seq)'
  <2>1. CASE f = e
    <3>1. Accounted(f, c, seq)
      BY <1>2, <1>3, <2>1, Zenon DEF CopyInv
    <3> QED
      BY <1>3, <2>1, <3>1, Zenon DEF Accounted, OnChannel, deferqueue_contains
  <2>2. CASE f = p
    <3>1. net[p][c] \in Seq(Frame)
      BY <1>c
    <3>2. CASE seq = seq_tx[e]
      <4>1. CASE c \in connected[e]
        <5>1. /\ Len(net[p][c]) + 1 \in DOMAIN net'[p][c]
              /\ net'[p][c][Len(net[p][c]) + 1].seq = seq_tx[e]
          <6>1. /\ net'[p][c] = Append(net[p][c], frame) /\ frame \in Frame
                /\ frame.seq = seq_tx[e]
            BY <1>3, <4>1, Zenon
          <6> HIDE DEF frame, p
          <6>2. /\ Len(net[p][c]) \in Nat /\ DOMAIN net'[p][c] = 1..(Len(net[p][c]) + 1)
                /\ net'[p][c][Len(net[p][c]) + 1] = frame
            BY <3>1, <6>1, AppendFacts
          <6> QED
            BY <6>1, <6>2
        <5> QED
          BY <2>2, <3>2, <5>1, Zenon DEF Accounted, OnChannel
      <4>2. CASE c \notin connected[e]
        BY <1>3, <2>2, <3>2, <4>2, Zenon DEF Accounted
      <4> QED
        BY <4>1, <4>2
    <3>3. CASE seq # seq_tx[e]
      <4>1. seq \in 0..(seq_tx[e] - 1)
        BY <1>2, <1>3, <2>2, <3>3
      <4>2. Accounted(p, c, seq)
        BY <1>2, <4>1 DEF CopyInv
      <4>3. OnChannel(p, c, seq) => OnChannel(p, c, seq)'
        <5> SUFFICES ASSUME NEW k \in DOMAIN net[p][c], net[p][c][k].seq = seq
                     PROVE  \E j \in DOMAIN net'[p][c] : net'[p][c][j].seq = seq
          BY DEF OnChannel
        <5>1. CASE c \in connected[e]
          <6>1. k \in DOMAIN net'[p][c] /\ net'[p][c][k] = net[p][c][k]
            <7>1. net'[p][c] = Append(net[p][c], frame) /\ frame \in Frame
              BY <1>3, <5>1, Zenon
            <7> HIDE DEF frame, p
            <7>2. /\ Len(net[p][c]) \in Nat /\ DOMAIN net'[p][c] = 1..(Len(net[p][c]) + 1)
                  /\ DOMAIN net[p][c] = 1..Len(net[p][c]) /\ net'[p][c][k] = net[p][c][k]
              BY <3>1, <7>1, AppendFacts
            <7> QED
              BY <7>2
          <6> QED
            BY <6>1
        <5>2. CASE c \notin connected[e]
          BY <1>3, <5>2, Zenon
        <5> QED
          BY <5>1, <5>2
      <4> QED
        BY <1>3, <2>2, <4>2, <4>3, Zenon DEF Accounted, deferqueue_contains
    <3> QED
      BY <3>2, <3>3
  <2> QED
    BY <1>2, <2>1, <2>2
<1> QED
  BY <1>1, <1>4 DEF CopyInv

(* receive_packet stores the frame, counts it as thrown away, or finds     *)
(* that it was delivered or is stored already.                             *)
LEMMA ReceiveCopies ==
  ASSUME CopyInv, NEW e \in Endpoint, NEW ch \in Channel,
         NEW i \in Arriving(e, ch), receive_packet(e, ch, i)
  PROVE  CopyInv'
<1> DEFINE frame == net[e][ch][i]
<1>1. TypeOK /\ TypeOK'
  BY ReceiveTypeOK DEF CopyInv
<1>2. /\ i \in DOMAIN net[e][ch] /\ net[e][ch] \in Seq(Frame)
      /\ frame \in Frame /\ frame.seq \in Nat
      /\ defer_q[e] \in Seq(Frame) /\ seq_rx[e] \in Nat
  BY <1>1, FrameFacts, Zenon DEF TypeOK, Arriving
<1>3. /\ UNCHANGED <<seq_tx, seq_rx, lost>>
      /\ \A f \in Endpoint : discarded[f] \subseteq discarded'[f]
      /\ IsDiscarded(e, frame) => <<ch, frame.seq>> \in discarded'[e]
      /\ \A f \in Endpoint : f # e => defer_q'[f] = defer_q[f]
      /\ IsStored(e, frame) => defer_q'[e] = Append(defer_q[e], frame)
      /\ ~IsStored(e, frame) => defer_q'[e] = defer_q[e]
  BY <1>1, ZenonT(40) DEF receive_packet, TypeOK, IsStored, deferqueue_add
<1>4. \A f \in Endpoint, seq \in Nat :
        deferqueue_contains(defer_q[f], seq) => deferqueue_contains(defer_q'[f], seq)
  <2> SUFFICES ASSUME NEW f \in Endpoint, NEW seq \in Nat,
                      NEW k \in DOMAIN defer_q[f], defer_q[f][k].seq = seq
               PROVE  \E j \in DOMAIN defer_q'[f] : defer_q'[f][j].seq = seq
    BY DEF deferqueue_contains
  <2>1. CASE f = e /\ IsStored(e, frame)
    <3>1. defer_q'[f] = Append(defer_q[f], frame)
      BY <1>3, <2>1, Zenon
    <3>2. k \in DOMAIN defer_q'[f] /\ defer_q'[f][k] = defer_q[f][k]
      BY <1>2, <2>1, <3>1, AppendFacts
    <3> QED
      BY <3>2
  <2>2. CASE ~(f = e /\ IsStored(e, frame))
    BY <1>3, <2>2
  <2> QED
    BY <2>1, <2>2, Zenon
<1>5. \/ frame.seq < seq_rx[e]
      \/ deferqueue_contains(defer_q'[e], frame.seq)
      \/ <<ch, frame.seq>> \in discarded'[e]
  <2> HIDE DEF frame
  <2>1. CASE IsStored(e, frame)
    <3>1. defer_q'[e] = Append(defer_q[e], frame)
      BY <1>3, <2>1, Zenon
    <3>2. /\ Len(defer_q[e]) + 1 \in DOMAIN defer_q'[e]
          /\ defer_q'[e][Len(defer_q[e]) + 1] = frame
      BY <1>2, <3>1, AppendFacts
    <3> QED
      BY <3>2, Zenon DEF deferqueue_contains
  <2>2. CASE ~IsStored(e, frame)
    BY <1>2, <1>3, <1>4, <2>2 DEF IsDiscarded
  <2> QED
    BY <2>1, <2>2, Zenon
<1>6. \A f \in Endpoint, c \in Channel, seq \in Nat :
        OnChannel(f, c, seq) =>
          \/ OnChannel(f, c, seq)'
          \/ f = e /\ c = ch /\ seq = frame.seq
  BY <1>1, <1>2, ChannelKeeps DEF receive_packet, TakeFrom, LeaveToArriveAgain
<1>7. ASSUME NEW f \in Endpoint, NEW c \in Channel, NEW seq \in 0..(seq_tx'[Partner[f]] - 1)
      PROVE  Accounted(f, c, seq)'
  <2>1. Accounted(f, c, seq) /\ seq \in Nat
    BY <1>3, AccountedBefore, Zenon
  <2> QED
    BY <1>3, <1>4, <1>5, <1>6, <2>1, Zenon DEF Accounted
<1> QED
  BY <1>1, <1>7, Zenon DEF CopyInv

(* red_f_deliverDeferQueue takes out the frame that is due and counts it   *)
(* as delivered.                                                           *)
LEMMA DeliverCopies ==
  ASSUME CopyInv, NEW e \in Endpoint, red_f_deliverDeferQueue(e)
  PROVE  CopyInv'
<1> DEFINE k == find_index(defer_q[e], seq_rx[e])
<1>1. TypeOK /\ TypeOK'
  BY DeliverTypeOK DEF CopyInv
<1>2. /\ defer_q[e] \in Seq(Frame) /\ seq_rx[e] \in Nat
      /\ k \in DOMAIN defer_q[e] /\ defer_q[e][k].seq = seq_rx[e]
  <2>1. /\ defer_q[e] \in Seq(Frame) /\ seq_rx[e] \in Nat
        /\ deferqueue_contains(defer_q[e], seq_rx[e])
    BY <1>1, Zenon DEF TypeOK, red_f_deliverDeferQueue
  <2> QED
    BY <2>1, FindIndexFacts, Zenon
<1>3. /\ UNCHANGED <<seq_tx, net, lost, discarded>>
      /\ seq_rx'[e] = seq_rx[e] + 1 /\ defer_q'[e] = Without(defer_q[e], k)
      /\ \A f \in Endpoint : f # e => seq_rx'[f] = seq_rx[f] /\ defer_q'[f] = defer_q[f]
  BY <1>1, Zenon DEF red_f_deliverDeferQueue, deferqueue_remove, TypeOK
<1>4. ASSUME NEW f \in Endpoint, NEW c \in Channel, NEW seq \in 0..(seq_tx'[Partner[f]] - 1)
      PROVE  Accounted(f, c, seq)'
  <2>1. Accounted(f, c, seq) /\ seq \in Nat
    BY <1>3, AccountedBefore, Zenon
  <2>2. deferqueue_contains(defer_q[f], seq)
          => seq < seq_rx'[f] \/ deferqueue_contains(defer_q'[f], seq)
    <3>1. CASE f = e /\ seq # seq_rx[e]
      <4> SUFFICES ASSUME NEW n \in DOMAIN defer_q[e], defer_q[e][n].seq = seq
                   PROVE  \E j \in DOMAIN defer_q'[e] : defer_q'[e][j].seq = seq
        BY <3>1 DEF deferqueue_contains
      <4>1. n # k
        BY <1>2, <3>1
      <4>2. PICK j \in DOMAIN Without(defer_q[e], k) :
              Without(defer_q[e], k)[j] = defer_q[e][n]
        BY <1>2, <4>1, WithoutKeeps
      <4> QED
        BY <1>3, <4>2, Zenon
    <3>2. CASE f = e /\ seq = seq_rx[e]
      BY <1>2, <1>3, <3>2
    <3>3. CASE f # e
      BY <1>3, <3>3
    <3> QED
      BY <3>1, <3>2, <3>3, Zenon
  <2>3. seq < seq_rx[f] => seq < seq_rx'[f]
    BY <1>2, <1>3, <2>1
  <2> QED
    BY <1>3, <2>1, <2>2, <2>3, Zenon DEF Accounted, OnChannel
<1> QED
  BY <1>1, <1>4, Zenon DEF CopyInv

(* A datagram that is lost counts as lost.                                 *)
LEMMA LoseCopies ==
  ASSUME CopyInv, NEW e \in Endpoint, NEW ch \in Channel,
         NEW i \in DOMAIN net[e][ch], LoseDatagram(e, ch, i)
  PROVE  CopyInv'
<1>1. TypeOK /\ TypeOK'
  BY LoseTypeOK DEF CopyInv
<1>2. /\ UNCHANGED <<seq_tx, seq_rx, defer_q, discarded>>
      /\ \A f \in Endpoint : lost[f] \subseteq lost'[f]
      /\ <<ch, net[e][ch][i].seq>> \in lost'[e]
  BY <1>1 DEF LoseDatagram, layer, TypeOK
<1>3. \A f \in Endpoint, c \in Channel, seq \in Nat :
        OnChannel(f, c, seq) =>
          \/ OnChannel(f, c, seq)'
          \/ f = e /\ c = ch /\ seq = net[e][ch][i].seq
  <2>1. /\ i \in DOMAIN net[e][ch]
        /\ \/ net' = [net EXCEPT ![e][ch] = Without(@, i)]
           \/ net' = net
    BY DEF LoseDatagram
  <2> QED
    BY <1>1, <2>1, ChannelKeeps
<1>4. ASSUME NEW f \in Endpoint, NEW c \in Channel, NEW seq \in 0..(seq_tx'[Partner[f]] - 1)
      PROVE  Accounted(f, c, seq)'
  <2>1. Accounted(f, c, seq) /\ seq \in Nat
    BY <1>2, AccountedBefore, Zenon
  <2> QED
    BY <1>2, <1>3, <2>1 DEF Accounted
<1> QED
  BY <1>1, <1>4 DEF CopyInv

-----------------------------------------------------------------------------
(* For every number of channels, every size of the defer queue and both    *)
(* kinds of transport: a frame that is neither delivered nor in the defer  *)
(* queue is under way on a channel unless it was lost there or thrown away *)
(* by receive_packet.                                                      *)
THEOREM CopiesAccounted == Spec => []EveryCopyAccounted
<1>1. Init => CopyInv
  <2> SUFFICES ASSUME Init PROVE CopyInv
    OBVIOUS
  <2>1. \A e \in Endpoint : seq_tx[Partner[e]] = 0
    BY PartnerFacts DEF Init
  <2> QED
    BY <2>1, InitTypeOK DEF CopyInv
<1>2. CopyInv /\ [Next]_vars => CopyInv'
  <2> SUFFICES ASSUME CopyInv, [Next]_vars PROVE CopyInv'
    OBVIOUS
  <2>1. ASSUME NEW e \in Endpoint, NEW pdu \in Pdu, redundancy_mux_send(e, pdu)
        PROVE  CopyInv'
    BY <2>1, SendCopies
  <2>2. ASSUME NEW e \in Endpoint, Receive(e) PROVE CopyInv'
    BY <2>2, ReceiveCopies DEF Receive
  <2>3. ASSUME NEW e \in Endpoint, red_f_deliverDeferQueue(e) PROVE CopyInv'
    BY <2>3, DeliverCopies
  <2>4. ASSUME NEW e \in Endpoint, ReceiveReturns(e) PROVE CopyInv'
    <3>1. TypeOK'
      BY <2>4, ReturnTypeOK DEF CopyInv
    <3> QED
      BY <2>4, <3>1 DEF ReceiveReturns, history, CopyInv, Accounted, OnChannel
  <2>5. ASSUME NEW e \in Endpoint, NEW ch \in Channel,
               NEW i \in DOMAIN net[e][ch], LoseDatagram(e, ch, i)
        PROVE  CopyInv'
    BY <2>5, LoseCopies
  <2>6. ASSUME UNCHANGED vars PROVE CopyInv'
    BY <2>6, Zenon DEF vars, layer, history, CopyInv, TypeOK, Accounted, OnChannel
  <2> QED
    BY <2>1, <2>2, <2>3, <2>4, <2>5, <2>6 DEF Next
<1>3. CopyInv => EveryCopyAccounted
  BY Zenon DEF CopyInv, Accounted, OnChannel, EveryCopyAccounted
<1> QED
  BY <1>1, <1>2, <1>3, PTL DEF Spec
=============================================================================

------------------------- MODULE DeferQueueProofs -------------------------
(***************************************************************************)
(* Proofs about the defer queue of RedundancyChannel: it stays well formed, *)
(* and a frame is thrown away only when the queue is really full.           *)
(***************************************************************************)
EXTENDS RedundancyChannelProofs

(***************************************************************************)
(* Proof that the defer queue of the redundancy layer stays well formed    *)
(* (RedundancyChannel!DeferQueueWellFormed).  red_f_receiveData adds the   *)
(* frame that is due without looking whether the queue already holds it,   *)
(* so the absence of duplicates rests on two facts about the callers: a    *)
(* due frame never stays in the queue between two buffers, and within one  *)
(* buffer of a byte stream a sequence number does not come twice.          *)
(***************************************************************************)

\* a byte stream keeps the order of the frames
StreamInOrder ==
  Stream => \A e \in Endpoint : \A ch \in Channel : \A i, j \in DOMAIN net[e][ch] :
              i < j => net[e][ch][i].seq < net[e][ch][j].seq

\* a frame that is due is in the defer queue only while a buffer is handled,
\* and receive_packet has then reported it
DueIsReported ==
  \A e \in Endpoint :
    /\ deferqueue_contains(defer_q[e], seq_rx[e]) => phase[e] # "wait" /\ result[e]
    /\ phase[e] # "wait" => reading[e] \in Channel

\* ... and the rest of that buffer is behind it, so it does not come again
RestIsLater ==
  \A e \in Endpoint :
    Stream /\ phase[e] = "read" /\ deferqueue_contains(defer_q[e], seq_rx[e])
      => \A i \in DOMAIN net[e][reading[e]] : net[e][reading[e]][i].seq > seq_rx[e]

QueueInv ==
  OrderInv /\ DeferQueueWellFormed /\ StreamInOrder /\ DueIsReported /\ RestIsLater

-----------------------------------------------------------------------------
LEMMA InitQueueInv == Init => QueueInv
<1> SUFFICES ASSUME Init PROVE QueueInv
  OBVIOUS
<1>1. \A e \in Endpoint : defer_q[e] = << >> /\ phase[e] = "wait"
  BY DEF Init
<1>2. \A e \in Endpoint, ch \in Channel : net[e][ch] = << >>
  BY DEF Init
<1> QED
  BY <1>1, <1>2, InitOrderInv
  DEF QueueInv, DeferQueueWellFormed, StreamInOrder, DueIsReported, RestIsLater,
      deferqueue_contains

(* redundancy_mux_send only lengthens the channels, with a number that is  *)
(* larger than every number under way to the peer or waiting there.        *)
LEMMA SendQueueInv ==
  ASSUME QueueInv, NEW e \in Endpoint, NEW pdu \in Pdu, redundancy_mux_send(e, pdu)
  PROVE  QueueInv'
<1> DEFINE p == Partner[e]
<1>1. OrderInv' /\ OrderInv /\ TypeOK
  BY SendOrderInv DEF QueueInv, OrderInv
<1>2. p \in Endpoint /\ Partner[p] = e /\ seq_tx[e] \in Nat
  BY <1>1, PartnerFacts DEF TypeOK
<1>3. UNCHANGED <<seq_rx, defer_q, phase, reading, result>>
  BY DEF redundancy_mux_send
<1>4. PICK frame \in Frame : frame = [seq |-> seq_tx[e], pdu |-> pdu]
  BY <1>2, Zenon DEF Frame
<1>5. ASSUME NEW f \in Endpoint, NEW c \in Channel
      PROVE  /\ net[f][c] \in Seq(Frame)
             /\ \/ net'[f][c] = net[f][c]
                \/ f = p /\ net'[f][c] = Append(net[f][c], frame)
  BY <1>1, <1>2, <1>4, Zenon DEF redundancy_mux_send, TypeOK
<1>6. \A c \in Channel : \A i \in DOMAIN net[p][c] : net[p][c][i].seq < frame.seq
  BY <1>1, <1>2, <1>4, Zenon DEF OrderInv, GenuineFrames, Genuine
<1>7. \A q \in Seq(Frame) : \A k \in DOMAIN Append(q, frame) :
         \/ k \in DOMAIN q /\ Append(q, frame)[k] = q[k]
         \/ Append(q, frame)[k] = frame
  BY AppendFacts
<1>8. StreamInOrder'
  <2> SUFFICES ASSUME Stream, NEW f \in Endpoint, NEW c \in Channel,
                      NEW i \in DOMAIN net'[f][c], NEW j \in DOMAIN net'[f][c], i < j
               PROVE  net'[f][c][i].seq < net'[f][c][j].seq
    BY DEF StreamInOrder
  <2>1. CASE net'[f][c] = net[f][c]
    BY <2>1 DEF QueueInv, StreamInOrder
  <2>2. CASE f = p /\ net'[f][c] = Append(net[f][c], frame)
    <3>1. i \in DOMAIN net[f][c] /\ net'[f][c][i] = net[f][c][i]
      BY <1>5, <2>2, AppendFacts
    <3>2. CASE j \in DOMAIN net[f][c]
      BY <1>5, <2>2, <3>1, <3>2, AppendFacts DEF QueueInv, StreamInOrder
    <3>3. CASE net'[f][c][j] = frame
      BY <1>6, <2>2, <3>1, <3>3
    <3>4. j \in DOMAIN net[f][c] \/ net'[f][c][j] = frame
      <4>1. net[f][c] \in Seq(Frame)
        BY <1>5
      <4>2. j \in DOMAIN Append(net[f][c], frame)
        BY <2>2
      <4> QED
        BY <1>7, <2>2, <4>1, <4>2, Zenon
    <3> QED
      BY <3>2, <3>3, <3>4
  <2> QED
    BY <1>5, <2>1, <2>2
<1>9. RestIsLater'
  <2> SUFFICES ASSUME NEW f \in Endpoint, Stream, phase[f] = "read",
                      deferqueue_contains(defer_q[f], seq_rx[f]),
                      NEW i \in DOMAIN net'[f][reading[f]]
               PROVE  net'[f][reading[f]][i].seq > seq_rx[f]
    BY <1>3 DEF RestIsLater
  <2> DEFINE c == reading[f]
  <2>1. c \in Channel
    BY DEF QueueInv, DueIsReported
  <2>2. \A k \in DOMAIN net[f][c] : net[f][c][k].seq > seq_rx[f]
    BY DEF QueueInv, RestIsLater
  <2>3. CASE net'[f][c] = net[f][c]
    BY <2>2, <2>3
  <2>4. CASE f = p /\ net'[f][c] = Append(net[f][c], frame)
    <3>1. seq_rx[f] < seq_tx[e]
      BY <1>1, <1>2, <2>4, Zenon DEF OrderInv, GenuineFrames, Genuine, deferqueue_contains
    <3>2. frame.seq > seq_rx[f]
      BY <1>1, <1>2, <1>4, <3>1, Zenon DEF TypeOK
    <3>3. \/ i \in DOMAIN net[f][c] /\ net'[f][c][i] = net[f][c][i]
          \/ net'[f][c][i] = frame
      <4>1. net[f][c] \in Seq(Frame) /\ net'[f][c] = Append(net[f][c], frame)
        BY <1>5, <2>1, <2>4
      <4> QED
        BY <1>7, <4>1, Zenon
    <3> QED
      BY <2>2, <3>2, <3>3
  <2> QED
    BY <1>5, <2>1, <2>3, <2>4
<1>10. DeferQueueWellFormed' /\ DueIsReported'
  BY <1>3 DEF QueueInv, DeferQueueWellFormed, DueIsReported
<1> QED
  BY <1>1, <1>8, <1>9, <1>10 DEF QueueInv

(* receive_packet stores no frame whose number the queue already holds.    *)
LEMMA StoredIsNew ==
  ASSUME QueueInv, NEW e \in Endpoint, NEW ch \in Channel,
         NEW i \in Arriving(e, ch), receive_packet(e, ch, i),
         IsStored(e, net[e][ch][i])
  PROVE  ~deferqueue_contains(defer_q[e], net[e][ch][i].seq)
<1> DEFINE frame == net[e][ch][i]
<1>1. CASE frame.seq # seq_rx[e]
  BY <1>1 DEF IsStored
<1>2. CASE frame.seq = seq_rx[e]
  <2>1. CASE phase[e] = "wait"
    BY <1>2, <2>1 DEF QueueInv, DueIsReported
  <2>2. CASE Stream /\ phase[e] = "read" /\ reading[e] = ch
    <3> SUFFICES ASSUME deferqueue_contains(defer_q[e], seq_rx[e]) PROVE FALSE
      BY <1>2
    <3>1. i \in DOMAIN net[e][reading[e]]
      BY <2>2 DEF Arriving
    <3>2. frame.seq > seq_rx[e]
      BY <2>2, <3>1 DEF QueueInv, RestIsLater
    <3>3. seq_rx[e] \in Nat
      BY DEF QueueInv, OrderInv, TypeOK
    <3> QED
      BY <1>2, <3>2, <3>3
  <2> QED
    BY <2>1, <2>2 DEF receive_packet, MayRead
<1> QED
  BY <1>1, <1>2

LEMMA ReceiveQueueInv ==
  ASSUME QueueInv, NEW e \in Endpoint, NEW ch \in Channel,
         NEW i \in Arriving(e, ch), receive_packet(e, ch, i)
  PROVE  QueueInv'
<1> DEFINE frame == net[e][ch][i]
<1>1. OrderInv' /\ OrderInv /\ TypeOK
  BY ReceiveOrderInv DEF QueueInv, OrderInv
<1>2. /\ defer_q[e] \in Seq(Frame) /\ net[e][ch] \in Seq(Frame)
      /\ i \in DOMAIN net[e][ch] /\ frame \in Frame /\ frame.seq \in Nat
      /\ seq_rx[e] \in Nat
  BY <1>1, FrameFacts DEF TypeOK, Arriving
<1>3. /\ phase'[e] = "read" /\ reading'[e] = ch
      /\ result'[e] = (result[e] \/ IsNextInOrder(e, frame))
      /\ seq_rx' = seq_rx
      /\ \A f \in Endpoint : f # e => /\ phase'[f] = phase[f]
                                     /\ reading'[f] = reading[f]
                                     /\ result'[f] = result[f]
                                     /\ defer_q'[f] = defer_q[f]
                                     /\ net'[f] = net[f]
  BY <1>1 DEF receive_packet, TakeFrom, LeaveToArriveAgain, TypeOK
<1>4. \/ defer_q'[e] = defer_q[e]
      \/ IsStored(e, frame) /\ defer_q'[e] = Append(defer_q[e], frame)
  BY <1>1 DEF receive_packet, deferqueue_add, TypeOK
<1>5. ASSUME deferqueue_contains(defer_q[e], seq_rx[e])'
      PROVE  \/ deferqueue_contains(defer_q[e], seq_rx[e])
             \/ frame.seq = seq_rx[e] /\ IsStored(e, frame)
  <2>1. PICK j \in DOMAIN defer_q'[e] : defer_q'[e][j].seq = seq_rx[e]
    BY <1>3, <1>5 DEF deferqueue_contains
  <2>2. CASE defer_q'[e] = defer_q[e]
    BY <2>1, <2>2 DEF deferqueue_contains
  <2>3. CASE IsStored(e, frame) /\ defer_q'[e] = Append(defer_q[e], frame)
    <3>1. \/ j \in DOMAIN defer_q[e] /\ defer_q'[e][j] = defer_q[e][j]
          \/ defer_q'[e][j] = frame
      BY <1>2, <2>3, AppendFacts
    <3> QED
      BY <2>1, <2>3, <3>1 DEF deferqueue_contains
  <2> QED
    BY <1>4, <2>2, <2>3
<1>6. DeferQueueWellFormed'
  <2>1. CASE defer_q'[e] = defer_q[e]
    BY <1>3, <2>1 DEF QueueInv, DeferQueueWellFormed
  <2>2. CASE IsStored(e, frame) /\ defer_q'[e] = Append(defer_q[e], frame)
    <3>1. \A j \in DOMAIN defer_q[e] : defer_q[e][j].seq # frame.seq
      BY <2>2, StoredIsNew DEF deferqueue_contains
    <3>2. frame.seq >= seq_rx[e]
      BY <1>2, <2>2 DEF IsStored, InWindow
    <3>3. \A j \in DOMAIN defer_q'[e] :
            \/ j \in DOMAIN defer_q[e] /\ defer_q'[e][j] = defer_q[e][j]
            \/ j = Len(defer_q[e]) + 1 /\ defer_q'[e][j] = frame
      BY <1>2, <2>2, AppendFacts
    <3>4. \A j, k \in DOMAIN defer_q'[e] :
            j # k => defer_q'[e][j].seq # defer_q'[e][k].seq
      BY <3>1, <3>3 DEF QueueInv, DeferQueueWellFormed
    <3>5. \A j \in DOMAIN defer_q'[e] : defer_q'[e][j].seq >= seq_rx[e]
      BY <3>2, <3>3 DEF QueueInv, DeferQueueWellFormed
    <3> QED
      BY <1>3, <3>4, <3>5 DEF QueueInv, DeferQueueWellFormed
  <2> QED
    BY <1>4, <2>1, <2>2
<1>7. DueIsReported'
  <2>1. deferqueue_contains(defer_q[e], seq_rx[e])' => result'[e]
    BY <1>3, <1>5, Zenon DEF QueueInv, DueIsReported, IsNextInOrder
  <2> QED
    BY <1>3, <2>1 DEF QueueInv, DueIsReported
<1>8. ASSUME Stream
      PROVE  /\ \A f \in Endpoint, c \in Channel :
                  ~(f = e /\ c = ch) => net'[f][c] = net[f][c]
             /\ \A j \in DOMAIN net'[e][ch] :
                  /\ j \in DOMAIN net[e][ch] /\ j + 1 \in DOMAIN net[e][ch]
                  /\ j \in Nat /\ j > 0
                  /\ net'[e][ch][j] = net[e][ch][j + 1]
  <2>1. i = 1 /\ net' = [net EXCEPT ![e][ch] = Without(@, i)]
    BY <1>8 DEF receive_packet, TakeFrom, LeaveToArriveAgain, Arriving
  <2>2. \A f \in Endpoint, c \in Channel :
          ~(f = e /\ c = ch) => net'[f][c] = net[f][c]
    BY <1>1, <2>1 DEF TypeOK
  <2>3. net'[e][ch] = Without(net[e][ch], i)
    BY <1>1, <2>1 DEF TypeOK
  <2>4. \A q \in Seq(Frame) : 1 \in DOMAIN q =>
          \A j \in DOMAIN Without(q, 1) :
            /\ j \in DOMAIN q /\ j + 1 \in DOMAIN q /\ j \in Nat /\ j > 0
            /\ Without(q, 1)[j] = q[j + 1]
    <3> SUFFICES ASSUME NEW q \in Seq(Frame), 1 \in DOMAIN q,
                        NEW j \in DOMAIN Without(q, 1)
                 PROVE  /\ j \in DOMAIN q /\ j + 1 \in DOMAIN q
                        /\ j \in Nat /\ j > 0
                        /\ Without(q, 1)[j] = q[j + 1]
      OBVIOUS
    <3>1. Len(q) \in Nat /\ DOMAIN q = 1..Len(q)
      BY FrameFacts
    <3>2. j \in 1..(Len(q) - 1)
          /\ Without(q, 1)[j] = IF j < 1 THEN q[j] ELSE q[j + 1]
      BY WithoutFacts, Zenon
    <3> QED
      BY <3>1, <3>2
  <2>5. net[e][ch] \in Seq(Frame) /\ 1 \in DOMAIN net[e][ch]
    BY <1>1, <1>2, <2>1 DEF TypeOK
  <2>6. \A j \in DOMAIN net'[e][ch] :
          /\ j \in DOMAIN net[e][ch] /\ j + 1 \in DOMAIN net[e][ch]
          /\ j \in Nat /\ j > 0
          /\ net'[e][ch][j] = net[e][ch][j + 1]
    <3>1. PICK q \in Seq(Frame) : q = net[e][ch]
      BY <2>5
    <3>2. 1 \in DOMAIN q /\ net'[e][ch] = Without(q, 1)
      BY <2>1, <2>3, <2>5, <3>1
    <3>3. \A j \in DOMAIN Without(q, 1) :
            /\ j \in DOMAIN q /\ j + 1 \in DOMAIN q /\ j \in Nat /\ j > 0
            /\ Without(q, 1)[j] = q[j + 1]
      BY <2>4, <3>2, Zenon
    <3> QED
      BY <3>1, <3>2, <3>3, Zenon
  <2> QED
    BY <2>2, <2>6
<1>9. StreamInOrder'
  <2> SUFFICES ASSUME Stream, NEW f \in Endpoint, NEW c \in Channel,
                      NEW j \in DOMAIN net'[f][c], NEW k \in DOMAIN net'[f][c], j < k
               PROVE  net'[f][c][j].seq < net'[f][c][k].seq
    BY DEF StreamInOrder
  <2>1. CASE ~(f = e /\ c = ch)
    BY <1>8, <2>1 DEF QueueInv, StreamInOrder
  <2>2. CASE f = e /\ c = ch
    BY <1>8, <2>2 DEF QueueInv, StreamInOrder
  <2> QED
    BY <2>1, <2>2
<1>10. RestIsLater'
  <2>1. ASSUME NEW f \in Endpoint, f # e, Stream, phase'[f] = "read",
               deferqueue_contains(defer_q[f], seq_rx[f])'
        PROVE  \A j \in DOMAIN net'[f][reading'[f]] :
                 net'[f][reading'[f]][j].seq > seq_rx'[f]
    BY <1>3, <2>1 DEF QueueInv, RestIsLater
  <2>2. ASSUME Stream, deferqueue_contains(defer_q[e], seq_rx[e])',
               NEW j \in DOMAIN net'[e][ch]
        PROVE  net'[e][ch][j].seq > seq_rx[e]
    <3>1. /\ j + 1 \in DOMAIN net[e][ch] /\ 1 < j + 1 /\ i = 1
          /\ net'[e][ch][j] = net[e][ch][j + 1]
      BY <1>8, <2>2 DEF Arriving
    <3>2. CASE deferqueue_contains(defer_q[e], seq_rx[e])
      <4>1. phase[e] = "read" /\ reading[e] = ch
        BY <3>2 DEF QueueInv, DueIsReported, receive_packet, MayRead
      <4> QED
        BY <2>2, <3>1, <3>2, <4>1 DEF QueueInv, RestIsLater
    <3>3. CASE frame.seq = seq_rx[e]
      <4>1. frame.seq < net[e][ch][j + 1].seq /\ net[e][ch][j + 1].seq \in Nat
        BY <1>2, <2>2, <3>1, FrameFacts DEF QueueInv, StreamInOrder
      <4> QED
        BY <1>2, <3>1, <3>3, <4>1
    <3> QED
      BY <1>5, <2>2, <3>2, <3>3
  <2> QED
    BY <1>3, <2>1, <2>2 DEF RestIsLater
<1> QED
  BY <1>1, <1>6, <1>7, <1>9, <1>10 DEF QueueInv

(* red_f_deliverDeferQueue takes out the one frame that was due, so every  *)
(* frame that is left is due later.                                        *)
LEMMA DeliverQueueInv ==
  ASSUME QueueInv, NEW e \in Endpoint, red_f_deliverDeferQueue(e)
  PROVE  QueueInv'
<1> DEFINE k == find_index(defer_q[e], seq_rx[e])
           old(j) == IF j < k THEN j ELSE j + 1
<1>1. OrderInv' /\ OrderInv /\ TypeOK
  BY DeliverOrderInv DEF QueueInv, OrderInv
<1>2. /\ defer_q[e] \in Seq(Frame) /\ k \in DOMAIN defer_q[e]
      /\ defer_q[e][k].seq = seq_rx[e] /\ seq_rx[e] \in Nat
  BY <1>1, DueFrameFacts DEF TypeOK
<1>3. /\ phase'[e] = "deliver" /\ result'[e] /\ seq_rx'[e] = seq_rx[e] + 1
      /\ reading' = reading /\ net' = net
      /\ defer_q'[e] = Without(defer_q[e], k)
      /\ reading[e] \in Channel
      /\ \A f \in Endpoint : f # e => /\ phase'[f] = phase[f]
                                     /\ result'[f] = result[f]
                                     /\ seq_rx'[f] = seq_rx[f]
                                     /\ defer_q'[f] = defer_q[f]
  BY <1>1 DEF red_f_deliverDeferQueue, deferqueue_remove, TypeOK, QueueInv, DueIsReported
<1>4. ASSUME NEW j \in DOMAIN defer_q'[e]
      PROVE  /\ j \in Nat /\ old(j) \in DOMAIN defer_q[e] /\ old(j) # k
             /\ defer_q'[e][j] = defer_q[e][old(j)]
  <2>1. k \in Nat /\ Len(defer_q[e]) \in Nat /\ DOMAIN defer_q[e] = 1..Len(defer_q[e])
    BY <1>2, FrameFacts
  <2>2. /\ j \in 1..(Len(defer_q[e]) - 1)
        /\ defer_q'[e][j] = IF j < k THEN defer_q[e][j] ELSE defer_q[e][j + 1]
    <3>1. defer_q'[e] = Without(defer_q[e], k)
      BY <1>3
    <3> HIDE DEF k
    <3> QED
      BY <1>2, <1>4, <3>1, WithoutFacts, Zenon
  <2> QED
    BY <2>1, <2>2
<1>5. DeferQueueWellFormed'
  <2>1. \A i, j \in DOMAIN defer_q'[e] :
          i # j => defer_q'[e][i].seq # defer_q'[e][j].seq
    <3> SUFFICES ASSUME NEW i \in DOMAIN defer_q'[e], NEW j \in DOMAIN defer_q'[e], i # j
                 PROVE  defer_q'[e][i].seq # defer_q'[e][j].seq
      OBVIOUS
    <3>1. k \in Nat
      BY <1>2, FrameFacts
    <3>2. old(i) # old(j)
      BY <1>4, <3>1
    <3> QED
      BY <1>4, <3>2 DEF QueueInv, DeferQueueWellFormed
  <2>2. \A j \in DOMAIN defer_q'[e] : defer_q'[e][j].seq >= seq_rx'[e]
    <3> SUFFICES ASSUME NEW j \in DOMAIN defer_q'[e]
                 PROVE  defer_q'[e][j].seq >= seq_rx[e] + 1
      BY <1>3
    <3>1. /\ defer_q[e][old(j)].seq # seq_rx[e]
          /\ defer_q[e][old(j)].seq >= seq_rx[e]
      BY <1>2, <1>4 DEF QueueInv, DeferQueueWellFormed
    <3>2. defer_q[e][old(j)].seq \in Nat
      BY <1>2, <1>4, FrameFacts
    <3> QED
      BY <1>2, <1>4, <3>1, <3>2, SMTT(30)
  <2>3. phase'[e] # "wait"
    BY <1>3
  <2>4. ASSUME NEW f \in Endpoint, f # e
        PROVE  /\ \A i, j \in DOMAIN defer_q'[f] :
                    i # j => defer_q'[f][i].seq # defer_q'[f][j].seq
               /\ \A i \in DOMAIN defer_q'[f] :
                    /\ defer_q'[f][i].seq >= seq_rx'[f]
                    /\ phase'[f] = "wait" => defer_q'[f][i].seq # seq_rx'[f]
    <3>1. defer_q'[f] = defer_q[f] /\ seq_rx'[f] = seq_rx[f] /\ phase'[f] = phase[f]
      BY <1>3, <2>4, Zenon
    <3>2. DeferQueueWellFormed
      BY DEF QueueInv
    <3> QED
      BY <3>1, <3>2, Zenon DEF DeferQueueWellFormed
  <2> QED
    BY <2>1, <2>2, <2>3, <2>4, Zenon DEF DeferQueueWellFormed
<1>6. StreamInOrder' /\ DueIsReported' /\ RestIsLater'
  <2>1. StreamInOrder'
    BY <1>3, Zenon DEF QueueInv, StreamInOrder
  <2>2. DueIsReported'
    <3>1. DueIsReported
      BY DEF QueueInv
    <3>2. phase'[e] # "wait"
      BY <1>3
    <3> QED
      BY <1>3, <3>1, <3>2, Zenon DEF DueIsReported
  <2>3. RestIsLater'
    <3>1. RestIsLater
      BY DEF QueueInv
    <3>2. phase'[e] # "read"
      BY <1>3
    <3> QED
      BY <1>3, <3>1, <3>2, ZenonT(40) DEF RestIsLater
  <2> QED
    BY <2>1, <2>2, <2>3
<1> QED
  BY <1>1, <1>5, <1>6 DEF QueueInv

LEMMA NextQueueInv == QueueInv /\ [Next]_vars => QueueInv'
<1> SUFFICES ASSUME QueueInv, [Next]_vars PROVE QueueInv'
  OBVIOUS
<1>0. OrderInv' /\ TypeOK
  BY NextOrderInv DEF QueueInv, OrderInv
<1>1. ASSUME NEW e \in Endpoint, NEW pdu \in Pdu, redundancy_mux_send(e, pdu)
      PROVE  QueueInv'
  BY <1>1, SendQueueInv
<1>2. ASSUME NEW e \in Endpoint, Receive(e) PROVE QueueInv'
  BY <1>2, ReceiveQueueInv DEF Receive
<1>3. ASSUME NEW e \in Endpoint, red_f_deliverDeferQueue(e) PROVE QueueInv'
  BY <1>3, DeliverQueueInv
<1>4. ASSUME NEW e \in Endpoint, ReceiveReturns(e) PROVE QueueInv'
  <2>1. ~deferqueue_contains(defer_q[e], seq_rx[e])
    BY <1>4, Zenon DEF ReceiveReturns, DeliveryDone, QueueInv, DueIsReported
  <2>2. /\ phase'[e] = "wait"
        /\ UNCHANGED <<seq_rx, defer_q, net>>
        /\ \A f \in Endpoint : f # e => /\ phase'[f] = phase[f]
                                       /\ reading'[f] = reading[f]
                                       /\ result'[f] = result[f]
    BY <1>0, <1>4 DEF ReceiveReturns, TypeOK
  <2>3. DeferQueueWellFormed'
    BY <2>1, <2>2 DEF QueueInv, DeferQueueWellFormed, deferqueue_contains
  <2>4. StreamInOrder' /\ DueIsReported' /\ RestIsLater'
    BY <2>1, <2>2 DEF QueueInv, StreamInOrder, DueIsReported, RestIsLater
  <2> QED
    BY <1>0, <2>3, <2>4 DEF QueueInv
<1>5. ASSUME NEW e \in Endpoint, NEW ch \in Channel,
             NEW i \in DOMAIN net[e][ch], LoseDatagram(e, ch, i)
      PROVE  QueueInv'
  BY <1>0, <1>5 DEF LoseDatagram, layer, QueueInv, DeferQueueWellFormed, StreamInOrder,
                    DueIsReported, RestIsLater
<1>6. ASSUME UNCHANGED vars PROVE QueueInv'
  BY <1>0, <1>6, Zenon DEF vars, layer, QueueInv, DeferQueueWellFormed, StreamInOrder,
                    DueIsReported, RestIsLater
<1> QED
  BY <1>1, <1>2, <1>3, <1>4, <1>5, <1>6 DEF Next

(* For every size of the defer queue, every number of channels and both    *)
(* kinds of transport: no sequence number is twice in the defer queue,     *)
(* none that was delivered is in it, and when channel_receive_event        *)
(* returns it never holds the frame that is due.                           *)
THEOREM QueueStaysWellFormed == Spec => []DeferQueueWellFormed
<1>1. QueueInv => DeferQueueWellFormed
  BY DEF QueueInv
<1> QED
  BY InitQueueInv, NextQueueInv, <1>1, PTL DEF Spec

-----------------------------------------------------------------------------
(* When a frame that is due is thrown away.                                *)

(* n different numbers in a..b-1, none of them x, leave room for one more: *)
(* the pigeonhole argument behind a full defer queue.                      *)
LEMMA RoomForOneMore ==
  ASSUME NEW n \in Nat, NEW a \in Nat, NEW b \in Nat, NEW x \in a..(b - 1),
         NEW f \in [1..n -> (a..(b - 1)) \ {x}],
         \A i, j \in 1..n : i # j => f[i] # f[j]
  PROVE  b - a > n
<1> DEFINE T == (a..(b - 1)) \ {x}
<1>1. /\ IsFiniteSet(a..(b - 1)) /\ Cardinality(a..(b - 1)) = b - a
  BY FS_Interval
<1>2. IsFiniteSet(T) /\ Cardinality(T) = b - a - 1
  <2> DEFINE I == a..(b - 1)
  <2>1. IsFiniteSet(I) /\ x \in I
    BY <1>1
  <2> HIDE DEF I
  <2>2. IsFiniteSet(I \ {x}) /\ Cardinality(I \ {x}) = Cardinality(I) - 1
    BY <2>1, FS_RemoveElement, Zenon
  <2> QED
    BY <1>1, <2>2 DEF I
<1>3. IsFiniteSet(1..n) /\ Cardinality(1..n) = n
  BY FS_Interval
<1>4. ~(Cardinality(T) < Cardinality(1..n))
  BY <1>2, <1>3, FS_PigeonHole
<1> QED
  BY <1>2, <1>3, <1>4

LEMMA DiscardMeansOverload ==
  ASSUME QueueInv, NEW e \in Endpoint, NEW ch \in Channel,
         NEW i \in DOMAIN net[e][ch], IsDiscarded(e, net[e][ch][i])
  PROVE  \/ seq_tx[Partner[e]] - seq_rx[e] > DeferQueueSize
         \/ seq_rx[e] = 0 /\ seq_tx[e] = 0
<1> DEFINE frame == net[e][ch][i]
           q == defer_q[e]
           top == seq_tx[Partner[e]]
<1>1. /\ TypeOK /\ Partner[e] \in Endpoint /\ top \in Nat /\ seq_rx[e] \in Nat
      /\ net[e][ch] \in Seq(Frame) /\ q \in Seq(Frame)
  <2>1. TypeOK /\ Partner[e] \in Endpoint
    BY PartnerFacts, Zenon DEF QueueInv, OrderInv
  <2> QED
    BY <2>1, Zenon DEF TypeOK
<1>2. frame.seq \in Nat /\ frame.seq < top /\ frame.seq >= seq_rx[e]
  BY <1>1, FrameFacts DEF QueueInv, OrderInv, GenuineFrames, Genuine, IsDiscarded
<1>3. \A j \in DOMAIN q : /\ q[j].seq \in Nat /\ q[j].seq < top
                          /\ q[j].seq >= seq_rx[e] /\ q[j].seq # frame.seq
  BY <1>1, FrameFacts, Zenon DEF QueueInv, OrderInv, GenuineFrames, Genuine, IsDiscarded,
                          deferqueue_contains, DeferQueueWellFormed
<1>4. CASE deferqueue_isfull(q)
  <2> DEFINE f == [j \in 1..DeferQueueSize |-> q[j].seq]
  <2>1. DOMAIN q = 1..DeferQueueSize
    BY <1>1, <1>4, FrameFacts DEF deferqueue_isfull
  <2>2. frame.seq \in seq_rx[e]..(top - 1)
    BY <1>1, <1>2
  <2>3. f \in [1..DeferQueueSize -> (seq_rx[e]..(top - 1)) \ {frame.seq}]
    <3>1. \A j \in 1..DeferQueueSize :
            q[j].seq \in (seq_rx[e]..(top - 1)) \ {frame.seq}
      <4> SUFFICES ASSUME NEW j \in 1..DeferQueueSize
                   PROVE  q[j].seq \in (seq_rx[e]..(top - 1)) \ {frame.seq}
        OBVIOUS
      <4>1. /\ q[j].seq \in Nat /\ q[j].seq < top
            /\ q[j].seq >= seq_rx[e] /\ q[j].seq # frame.seq
        BY <1>3, <2>1
      <4> HIDE DEF q, top, frame
      <4> QED
        BY <1>1, <4>1
    <3> QED
      BY <3>1
  <2>4. \A j, k \in 1..DeferQueueSize : j # k => f[j] # f[k]
    BY <2>1, Zenon DEF QueueInv, DeferQueueWellFormed
  <2>5. DeferQueueSize \in Nat
    BY DeferQueueSizeAssumption
  <2> HIDE DEF f, top, frame
  <2> QED
    BY <1>1, <2>2, <2>3, <2>4, <2>5, RoomForOneMore, Zenon DEF top
<1>5. CASE IsFirstTooLate(e, frame.seq)
  BY <1>5 DEF IsFirstTooLate
<1>6. CASE ~InWindow(e, frame.seq)
  <2>1. DeferQueueSize * DeferWindow >= DeferQueueSize
    BY DeferQueueSizeAssumption, DeferWindowAssumption
  <2>2. DeferQueueSize * DeferWindow \in Nat /\ DeferQueueSize \in Nat
    BY DeferQueueSizeAssumption, DeferWindowAssumption
  <2>3. frame.seq > seq_rx[e] + DeferQueueSize * DeferWindow
    BY <1>1, <1>2, <1>6, <2>2 DEF InWindow
  <2> QED
    BY <1>1, <1>2, <2>1, <2>2, <2>3
<1> QED
  BY <1>4, <1>5, <1>6, Zenon DEF IsDiscarded, IsStored

(* receive_packet and red_f_receiveData throw away a frame whose PDU is    *)
(* still outstanding only when the sender is more than n_deferqueue_size   *)
(* frames ahead of the delivery, or before the first frame of a            *)
(* connection has arrived.                                                 *)
THEOREM DiscardsOnlyUnderOverload == Spec => OnlyOverloadDiscards
<1> DEFINE Kept == \A e \in Endpoint :
                     \/ discarded'[e] = discarded[e]
                     \/ seq_tx[Partner[e]] - seq_rx[e] > DeferQueueSize
                     \/ seq_rx[e] = 0 /\ seq_tx[e] = 0
<1>1. QueueInv /\ [Next]_vars => [Kept]_vars
  <2> SUFFICES ASSUME QueueInv, Next PROVE Kept
    OBVIOUS
  <2>0. TypeOK
    BY DEF QueueInv, OrderInv
  <2>1. ASSUME NEW e \in Endpoint, NEW pdu \in Pdu, redundancy_mux_send(e, pdu)
        PROVE  Kept
    BY <2>1, Zenon DEF redundancy_mux_send
  <2>2. ASSUME NEW e \in Endpoint, Receive(e) PROVE Kept
    <3>0. PICK ch \in Channel : \E i \in Arriving(e, ch) : receive_packet(e, ch, i)
      BY <2>2 DEF Receive
    <3>1. PICK i \in Arriving(e, ch) : receive_packet(e, ch, i)
      BY <3>0
    <3>2. i \in DOMAIN net[e][ch]
      BY DEF Arriving
    <3>3. \/ IsDiscarded(e, net[e][ch][i])
          \/ discarded'[e] = discarded[e]
      BY <2>0, <3>1 DEF receive_packet, TypeOK
    <3>4. \A f \in Endpoint : f # e => discarded'[f] = discarded[f]
      BY <2>0, <3>1 DEF receive_packet, TypeOK
    <3> QED
      BY <3>2, <3>3, <3>4, DiscardMeansOverload
  <2>3. ASSUME NEW e \in Endpoint, red_f_deliverDeferQueue(e) PROVE Kept
    BY <2>3, Zenon DEF red_f_deliverDeferQueue
  <2>4. ASSUME NEW e \in Endpoint, ReceiveReturns(e) PROVE Kept
    BY <2>4 DEF ReceiveReturns, history
  <2>5. ASSUME NEW e \in Endpoint, NEW ch \in Channel,
               NEW i \in DOMAIN net[e][ch], LoseDatagram(e, ch, i)
        PROVE  Kept
    BY <2>5 DEF LoseDatagram
  <2> QED
    BY <2>1, <2>2, <2>3, <2>4, <2>5 DEF Next
<1> QED
  BY <1>1, InitQueueInv, NextQueueInv, PTL DEF Spec, OnlyOverloadDiscards

===========================================================================

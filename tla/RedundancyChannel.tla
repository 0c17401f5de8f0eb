------------------------- MODULE RedundancyChannel -------------------------
(***************************************************************************)
(* The redundancy layer of one connection, both ends: rastaredundancy.c,   *)
(* rasta_red_multiplexer.c, rasta_redundancy_channel.c and the defer queue *)
(* of rastadeferqueue.c, over several transport channels.                  *)
(*                                                                         *)
(* redundancy_mux_send numbers a PDU with seq_tx and sends a copy on every *)
(* transport channel.  channel_receive_event reads one buffer from one     *)
(* channel, receive_packet sorts its frames into the defer queue, and      *)
(* red_f_deliverDeferQueue hands up what is in order.  The event loop is   *)
(* single threaded, so the steps of one buffer (phase "read", then         *)
(* "deliver") interleave with nothing else at that end but the PDUs that   *)
(* the handlers of the layer above send.                                   *)
(***************************************************************************)
EXTENDS Integers, Sequences

CONSTANTS Client, Server,
          Channel,          \* the transport channels
          NoChannel,        \* no buffer is being read
          Pdu,              \* PDUs of the layer above
          DeferQueueSize,   \* n_deferqueue_size
          DeferWindow,      \* the literal 10 of rastaredundancy.c
          Stream,           \* TRUE: TCP and TLS, FALSE: UDP and DTLS
          MaxSend,          \* bound: PDUs sent by each end
          MaxDuplicates     \* bound: datagrams that arrive a second time

ASSUME EndpointsDiffer == Client # Server
ASSUME NoChannelAssumption == NoChannel \notin Channel
ASSUME DeferQueueSizeAssumption == DeferQueueSize \in Nat \ {0}
ASSUME DeferWindowAssumption == DeferWindow \in Nat \ {0}
ASSUME StreamAssumption == Stream \in BOOLEAN
ASSUME BoundsAssumption ==
  /\ MaxSend \in [{Client, Server} -> Nat]
  /\ MaxDuplicates \in Nat

Endpoint == {Client, Server}
Partner == [e \in Endpoint |-> IF e = Client THEN Server ELSE Client]

VARIABLES
  seq_tx,      \* next sequence number to send
  seq_rx,      \* next sequence number to deliver
  defer_q,     \* frames received and not yet delivered, oldest first
  phase,       \* where channel_receive_event stands
  reading,     \* the transport channel whose buffer is being read
  result,      \* the result of receive_packet so far
  connected,   \* transport channels that are marked connected
  net,         \* net[e][ch]: frames under way to e on channel ch
  duplicated,  \* datagrams that were left to arrive again
  sent,        \* history: PDUs passed to redundancy_mux_send
  delivered,   \* history: PDUs passed to sr_receive
  lost,        \* history: copies <<ch, seq>> not sent or lost on the way to e
  discarded    \* history: copies <<ch, seq>> that e read and threw away
               \*          although their PDU was still outstanding

layer == <<seq_tx, seq_rx, defer_q, phase, reading, result, connected>>
history == <<sent, delivered, lost, discarded>>
vars == <<layer, net, duplicated, history>>

Frame == [seq : Nat, pdu : Pdu]

\* redundancy_channel_alloc and redundancy_channel_init
Init ==
  /\ seq_tx = [e \in Endpoint |-> 0]
  /\ seq_rx = [e \in Endpoint |-> 0]
  /\ defer_q = [e \in Endpoint |-> << >>]
  /\ phase = [e \in Endpoint |-> "wait"]
  /\ reading = [e \in Endpoint |-> NoChannel]
  /\ result = [e \in Endpoint |-> FALSE]
  /\ connected = [e \in Endpoint |->
                    IF Stream \/ e = Client THEN Channel ELSE {}]
  /\ net = [e \in Endpoint |-> [ch \in Channel |-> << >>]]
  /\ duplicated = 0
  /\ sent = [e \in Endpoint |-> << >>]
  /\ delivered = [e \in Endpoint |-> << >>]
  /\ lost = [e \in Endpoint |-> {}]
  /\ discarded = [e \in Endpoint |-> {}]

-----------------------------------------------------------------------------
(* The defer queue.                                                        *)

Without(q, i) == [j \in 1..(Len(q) - 1) |-> IF j < i THEN q[j] ELSE q[j + 1]]

\* mutants of the defer queue: no limit, a limit one too small
deferqueue_isfull_Never(q) == FALSE
deferqueue_isfull_TooEarly(q) == Len(q) >= DeferQueueSize - 1

deferqueue_isfull(q) == Len(q) = DeferQueueSize

deferqueue_contains(q, seq) == \E i \in DOMAIN q : q[i].seq = seq

deferqueue_add(q, frame) ==
  IF deferqueue_isfull(q) THEN q ELSE Append(q, frame)

\* mutant: the oldest element instead of the one with this number
find_index_Oldest(q, seq) == 1

find_index(q, seq) ==
  CHOOSE i \in DOMAIN q : q[i].seq = seq /\ \A j \in 1..(i - 1) : q[j].seq # seq

\* mutant: the first element is overwritten whatever its number
deferqueue_remove_First(q, seq) == Without(q, 1)

deferqueue_remove(q, seq) == Without(q, find_index(q, seq))

-----------------------------------------------------------------------------
(* redundancy_mux_send: a UDP server knows a channel only once it has      *)
(* received on it, and skips the others.                                   *)

redundancy_mux_send(e, pdu) ==
  LET frame == [seq |-> seq_tx[e], pdu |-> pdu]
  IN /\ seq_tx[e] < MaxSend[e]
     /\ seq_tx' = [seq_tx EXCEPT ![e] = @ + 1]
     /\ net' = [net EXCEPT ![Partner[e]] =
                  [ch \in Channel |-> IF ch \in connected[e]
                                      THEN Append(@[ch], frame) ELSE @[ch]]]
     /\ sent' = [sent EXCEPT ![e] = Append(@, pdu)]
     /\ lost' = [lost EXCEPT ![Partner[e]] =
                   @ \cup {<<ch, seq_tx[e]>> : ch \in Channel \ connected[e]}]
     /\ UNCHANGED <<seq_rx, defer_q, phase, reading, result, connected,
                    duplicated, delivered, discarded>>

-----------------------------------------------------------------------------
(* Receiving.                                                              *)

\* the first frame of a connection must have sequence number 0
IsFirstTooLate(e, seq) == seq_rx[e] = 0 /\ seq_tx[e] = 0 /\ seq # 0

InWindow(e, seq) ==
  /\ seq_rx[e] <= seq
  /\ seq <= seq_rx[e] + DeferQueueSize * DeferWindow

\* mutant: a frame that is already in the defer queue is added again
IsStored_Again(e, frame) ==
  /\ ~deferqueue_isfull(defer_q[e])
  /\ ~IsFirstTooLate(e, frame.seq)
  /\ InWindow(e, frame.seq)

\* receive_packet and red_f_receiveData put this frame into the defer queue
IsStored(e, frame) ==
  /\ ~deferqueue_isfull(defer_q[e])
  /\ ~IsFirstTooLate(e, frame.seq)
  /\ InWindow(e, frame.seq)
  /\ \/ frame.seq = seq_rx[e]
     \/ ~deferqueue_contains(defer_q[e], frame.seq)

\* ... and receive_packet then reports that there is something to deliver
IsNextInOrder(e, frame) == IsStored(e, frame) /\ frame.seq = seq_rx[e]

\* the frame is thrown away and its PDU is neither delivered nor deferred
IsDiscarded(e, frame) ==
  /\ ~IsStored(e, frame)
  /\ frame.seq >= seq_rx[e]
  /\ ~deferqueue_contains(defer_q[e], frame.seq)

\* a buffer holds one datagram, or any number of frames of a byte stream
MayRead(e, ch) ==
  \/ phase[e] = "wait"
  \/ Stream /\ phase[e] = "read" /\ reading[e] = ch

\* datagrams may overtake each other
Arriving(e, ch) ==
  IF Stream THEN {i \in DOMAIN net[e][ch] : i = 1} ELSE DOMAIN net[e][ch]

TakeFrom(e, ch, i) ==
  /\ net' = [net EXCEPT ![e][ch] = Without(@, i)]
  /\ UNCHANGED duplicated

LeaveToArriveAgain ==
  /\ ~Stream
  /\ duplicated < MaxDuplicates
  /\ duplicated' = duplicated + 1
  /\ UNCHANGED net

receive_packet(e, ch, i) ==
  LET frame == net[e][ch][i]
  IN /\ MayRead(e, ch)
     /\ TakeFrom(e, ch, i) \/ LeaveToArriveAgain
     /\ phase' = [phase EXCEPT ![e] = "read"]
     /\ reading' = [reading EXCEPT ![e] = ch]
     /\ connected' = [connected EXCEPT ![e] = @ \cup {ch}]
     /\ defer_q' = [defer_q EXCEPT ![e] =
                      IF IsStored(e, frame) THEN deferqueue_add(@, frame) ELSE @]
     /\ result' = [result EXCEPT ![e] = @ \/ IsNextInOrder(e, frame)]
     /\ discarded' = [discarded EXCEPT ![e] =
                        IF IsDiscarded(e, frame)
                        THEN @ \cup {<<ch, frame.seq>>} ELSE @]
     /\ UNCHANGED <<seq_tx, seq_rx, sent, delivered, lost>>

\* one round of the loop of red_f_deliverDeferQueue
red_f_deliverDeferQueue(e) ==
  /\ phase[e] # "wait" /\ result[e]
  /\ deferqueue_contains(defer_q[e], seq_rx[e])
  /\ delivered' = [delivered EXCEPT ![e] =
                     Append(@, defer_q[e][find_index(defer_q[e], seq_rx[e])].pdu)]
  /\ defer_q' = [defer_q EXCEPT ![e] = deferqueue_remove(@, seq_rx[e])]
  /\ seq_rx' = [seq_rx EXCEPT ![e] = @ + 1]
  /\ phase' = [phase EXCEPT ![e] = "deliver"]
  /\ UNCHANGED <<seq_tx, reading, result, connected, net, duplicated, sent,
                 lost, discarded>>

\* the loop of red_f_deliverDeferQueue is not entered, or has ended; mutant:
\* it ends after one frame
DeliveryDone_AfterOne(e) == result[e] => phase[e] = "deliver"

DeliveryDone(e) == result[e] => ~deferqueue_contains(defer_q[e], seq_rx[e])

\* channel_receive_event returns to the event loop
ReceiveReturns(e) ==
  /\ phase[e] # "wait"
  /\ DeliveryDone(e)
  /\ phase' = [phase EXCEPT ![e] = "wait"]
  /\ reading' = [reading EXCEPT ![e] = NoChannel]
  /\ result' = [result EXCEPT ![e] = FALSE]
  /\ UNCHANGED <<seq_tx, seq_rx, defer_q, connected, net, duplicated, history>>

\* the network, or red_f_receiveData because of a wrong redundancy checksum
LoseDatagram(e, ch, i) ==
  /\ ~Stream
  /\ net' = [net EXCEPT ![e][ch] = Without(@, i)]
  /\ lost' = [lost EXCEPT ![e] = @ \cup {<<ch, net[e][ch][i].seq>>}]
  /\ UNCHANGED <<layer, duplicated, sent, delivered, discarded>>

Receive(e) ==
  \E ch \in Channel : \E i \in Arriving(e, ch) : receive_packet(e, ch, i)

Next ==
  \E e \in Endpoint :
    \/ \E pdu \in Pdu : redundancy_mux_send(e, pdu)
    \/ Receive(e)
    \/ red_f_deliverDeferQueue(e)
    \/ ReceiveReturns(e)
    \/ \E ch \in Channel : \E i \in DOMAIN net[e][ch] : LoseDatagram(e, ch, i)

Spec == Init /\ [][Next]_vars

(* The event loop calls channel_receive_event as long as select reports a  *)
(* readable channel, and the receive path contains no wait.                *)
Fairness ==
  \A e \in Endpoint :
    /\ WF_vars(Receive(e))
    /\ WF_vars(red_f_deliverDeferQueue(e))
    /\ WF_vars(ReceiveReturns(e))

FairSpec == Spec /\ Fairness
-----------------------------------------------------------------------------
(* The values the variables range over; in particular deferqueue_add keeps *)
(* the defer queue within its array.                                       *)
TypeOK ==
  /\ seq_tx \in [Endpoint -> Nat]
  /\ seq_rx \in [Endpoint -> Nat]
  /\ defer_q \in [Endpoint -> Seq(Frame)]
  /\ \A e \in Endpoint : Len(defer_q[e]) <= DeferQueueSize
  /\ phase \in [Endpoint -> {"wait", "read", "deliver"}]
  /\ reading \in [Endpoint -> Channel \cup {NoChannel}]
  /\ result \in [Endpoint -> BOOLEAN]
  /\ connected \in [Endpoint -> SUBSET Channel]
  /\ net \in [Endpoint -> [Channel -> Seq(Frame)]]
  /\ duplicated \in 0..MaxDuplicates
  /\ sent \in [Endpoint -> Seq(Pdu)]
  /\ delivered \in [Endpoint -> Seq(Pdu)]
  /\ lost \in [Endpoint -> SUBSET (Channel \X Nat)]
  /\ discarded \in [Endpoint -> SUBSET (Channel \X Nat)]

(* Whatever the channels lose, repeat or reorder, the PDUs that            *)
(* red_f_deliverDeferQueue hands to sr_receive are the first ones that the *)
(* peer passed to redundancy_mux_send, each once and in that order.        *)
DeliveredInOrder ==
  \A e \in Endpoint :
    /\ Len(delivered[e]) <= Len(sent[Partner[e]])
    /\ \A k \in DOMAIN delivered[e] : delivered[e][k] = sent[Partner[e]][k]

(* The defer queue never holds two frames with one sequence number nor one *)
(* that was already delivered, and between two calls of                    *)
(* channel_receive_event it never holds the frame that is due: nothing     *)
(* that could be delivered is left behind for a later event.               *)
DeferQueueWellFormed ==
  \A e \in Endpoint :
    /\ \A i, j \in DOMAIN defer_q[e] :
         i # j => defer_q[e][i].seq # defer_q[e][j].seq
    /\ \A i \in DOMAIN defer_q[e] :
         /\ defer_q[e][i].seq >= seq_rx[e]
         /\ phase[e] = "wait" => defer_q[e][i].seq # seq_rx[e]

(* A frame that is neither delivered nor in the defer queue is still under *)
(* way on a channel unless, on that channel, it was lost or the receiver   *)
(* threw it away because it had no room: no copy disappears in the queue.  *)
EveryCopyAccounted ==
  \A e \in Endpoint : \A ch \in Channel : \A seq \in 0..(seq_tx[Partner[e]] - 1) :
    \/ seq < seq_rx[e]
    \/ deferqueue_contains(defer_q[e], seq)
    \/ \E i \in DOMAIN net[e][ch] : net[e][ch][i].seq = seq
    \/ <<ch, seq>> \in lost[e] \cup discarded[e]

(* A frame that is still due is thrown away only while the sender is more  *)
(* than n_deferqueue_size frames ahead of what was delivered, or when a    *)
(* connection does not begin with sequence number 0.                       *)
OnlyOverloadDiscards ==
  [][\A e \in Endpoint :
       \/ discarded'[e] = discarded[e]
       \/ seq_tx[Partner[e]] - seq_rx[e] > DeferQueueSize
       \/ seq_rx[e] = 0 /\ seq_tx[e] = 0]_vars

(* The layer hides the loss of copies: as long as every frame has a        *)
(* channel on which it is neither lost nor thrown away, every frame is     *)
(* eventually delivered.                                                   *)
Recoverable(e) ==
  \A seq \in 0..(seq_tx[Partner[e]] - 1) : \E ch \in Channel :
    <<ch, seq>> \notin lost[e] \cup discarded[e]

RecoverableIsDelivered ==
  \A e \in Endpoint : \A n \in 0..(MaxSend[Partner[e]] - 1) :
    (seq_tx[Partner[e]] > n) ~> (seq_rx[e] > n \/ ~Recoverable(e))

(* The layer implements the ordered link that the safety and               *)
(* retransmission layer relies on.                                         *)
Link == INSTANCE OrderedLink
          WITH Endpoint <- Endpoint, Partner <- Partner, Pdu <- Pdu,
               sent <- sent, delivered <- delivered

ImplementsOrderedLink == Link!Spec
=============================================================================

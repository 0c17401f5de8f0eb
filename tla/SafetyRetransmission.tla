----------------------- MODULE SafetyRetransmission ------------------------
(***************************************************************************)
(* The safety and retransmission layer of one RaSTA connection, both ends: *)
(* safety_retransmission.c, handlers.c, messages.c, the timed events of    *)
(* transport/events.c and the calls of rasta.c that drive them.            *)
(*                                                                         *)
(* Each end is one thread.  It handles PDUs and timers only while the      *)
(* application is inside rasta_accept, rasta_connect or rasta_recv, and    *)
(* the application may call rasta_send and rasta_disconnect there too,     *)
(* from a callback.  The PDUs travel over an ordered link (see             *)
(* OrderedLink); what may still happen to one is that its content is       *)
(* damaged where the redundancy layer computes no checksum (TYPE_A).       *)
(*                                                                         *)
(* A handler is an operator on the connection record c (rasta_connection): *)
(* it returns the record after the handler, with the PDUs it passed to     *)
(* redundancy_mux_send in c.out and with c.brk set when the event loop     *)
(* returns.  Transports are datagram ones: redundancy_channel_close leaves *)
(* them open.  Key exchange is off (KEY_EXCHANGE_MODE_NONE).               *)
(***************************************************************************)
EXTENDS Integers, Sequences

CONSTANTS
  Client, Server,
  SnMod,                \* sequence numbers are unsigned 32 bit: 2^32
  InitialSns,           \* values of initial_sequence_number at the two ends
  SnWindow,             \* send_max * 10
  MaxPacket,            \* max_packet; fifo_send holds twice as many
  RetransmissionSize,   \* max_retransmission_queue_size
  ReceiveSize,          \* max_recvqueue_size
  DeferQueueSize,       \* n_deferqueue_size: PDUs that one callback delivers
  VersionVerdicts,      \* what the version checks may answer
  MaxMessages,          \* bound: messages each application sends
  MaxBeats,             \* bound: heartbeats each timer sends
  MaxDamages,           \* bound: PDUs that are damaged on the way
  MaxLate               \* bound: PDUs whose confirmed timestamp is too old

Endpoint == {Client, Server}
Partner == [e \in Endpoint |-> IF e = Client THEN Server ELSE Client]

ASSUME EndsDiffer == Client # Server
ASSUME SnAssumption ==
  /\ SnMod \in Nat \ {0}
  /\ InitialSns \subseteq [Endpoint -> 0..(SnMod - 1)]
  /\ SnWindow \in Nat
ASSUME SizesAssumption ==
  /\ MaxPacket \in Nat \ {0}
  /\ RetransmissionSize \in Nat
  /\ ReceiveSize \in Nat
  /\ DeferQueueSize \in Nat \ {0}
\* one handler sends fewer PDUs than there are sequence numbers
ASSUME NumbersSuffice == RetransmissionSize + 3 < SnMod
ASSUME VerdictsAssumption == VersionVerdicts \subseteq BOOLEAN
ASSUME LimitsAssumption ==
  /\ MaxMessages \in [Endpoint -> Nat]
  /\ MaxBeats \in [Endpoint -> Nat]
  /\ MaxDamages \in Nat
  /\ MaxLate \in Nat

VARIABLES
  con,        \* con[e]: the rasta_connection of e
  chan,       \* chan[e]: PDUs under way to e
  app,        \* app[e]: the library call the application is in
  rest,       \* rest[e]: PDUs the callback may still deliver after a break
  accepted,   \* history: messages that rasta_send took while UP
  received,   \* history: messages that rasta_recv returned
  beats, damages, lates   \* what was used of the bounds

bounds == <<beats, damages, lates>>
vars == <<con, chan, app, rest, accepted, received, bounds>>

SendSize == 2 * MaxPacket

Sn == 0..(SnMod - 1)
Garbled == 0                \* a message whose content was damaged
Message == Nat              \* the k-th message of an application is k

State == {"CLOSED", "DOWN", "START", "UP", "RETRREQ", "RETRRUN"}
Open == {"UP", "RETRREQ", "RETRRUN"}
Type == {"CONNREQ", "CONNRESP", "RETRREQ", "RETRRESP", "DISCREQ", "HB",
         "DATA", "RETRDATA"}

\* to: the receiver id is the receiver's; sum: the safety code is right
Pdu == [type : Type, sn : Sn, cs : Sn, data : Seq(Message),
        to : BOOLEAN, sum : BOOLEAN]

Queued == [sn : Sn, data : Seq(Message)]

Connection ==
  [state : State, initial : Sn,  \* config->initial_sequence_number
   sn_t : Sn, sn_r : Sn, cs_t : Sn, cs_r : Sn,
   cts_set : BOOLEAN,            \* cts_r # 0
   hb_locked : BOOLEAN, heartbeat_on : BOOLEAN, timeout_on : BOOLEAN,
   send_on : BOOLEAN, is_new : BOOLEAN, brk : BOOLEAN,
   fifo_send : Seq(Message), fifo_retr : Seq(Queued), fifo_recv : Seq(Message),
   out : Seq(Pdu)]

-----------------------------------------------------------------------------
(* Sending one PDU (messages.c).                                           *)

Emit(c, type, data) ==
  [c EXCEPT !.out = Append(@, [type |-> type, sn |-> c.sn_t, cs |-> c.cs_t,
                               data |-> data, to |-> TRUE, sum |-> TRUE])]

\* mutant: the number grows past its width
EmitAndCount_NoWrap(c, type, data) ==
  [Emit(c, type, data) EXCEPT !.sn_t = @ + 1]

EmitAndCount(c, type, data) ==
  [Emit(c, type, data) EXCEPT !.sn_t = (@ + 1) % SnMod]

sendDisconnectionRequest(c) == Emit(c, "DISCREQ", << >>)
sendHeartbeat(c) == EmitAndCount(c, "HB", << >>)
sendRetransmissionRequest(c) == EmitAndCount(c, "RETRREQ", << >>)
sendRetransmissionResponse(c) == EmitAndCount(c, "RETRRESP", << >>)

-----------------------------------------------------------------------------
(* Closing.                                                                *)

sr_reset_connection(c) ==
  [c EXCEPT !.state = "CLOSED", !.hb_locked = TRUE,
            !.heartbeat_on = FALSE, !.timeout_on = FALSE]

\* mutant: the peer is not told
sr_close_connection_Silent(c) == sr_reset_connection(c)

sr_close_connection(c) ==
  IF c.state \in {"CLOSED", "DOWN"}
  THEN sr_reset_connection(c)
  ELSE sendDisconnectionRequest(sr_reset_connection(c))

-----------------------------------------------------------------------------
(* The queues.                                                             *)

Least(S) == CHOOSE x \in S : \A y \in S : x <= y

\* one Data PDU with n messages (mutant: the last of them stays queued)
SendQueued_KeepsLast(c, n) ==
  LET data == SubSeq(c.fifo_send, 1, n)
  IN [EmitAndCount(c, "DATA", data) EXCEPT
        !.fifo_retr = Append(@, [sn |-> c.sn_t, data |-> data]),
        !.fifo_send = SubSeq(@, n, Len(@))]

SendQueued(c, n) ==
  LET data == SubSeq(c.fifo_send, 1, n)
  IN [EmitAndCount(c, "DATA", data) EXCEPT
        !.fifo_retr = Append(@, [sn |-> c.sn_t, data |-> data]),
        !.fifo_send = SubSeq(@, n + 1, Len(@))]

\* mutant: the room in the retransmission queue is not looked at
data_send_event_NoBackpressure(c) ==
  LET n == Least({Len(c.fifo_send), MaxPacket})
      d == IF n > 0 THEN SendQueued(c, n) ELSE c
  IN [d EXCEPT !.send_on = @ /\ d.fifo_send # << >>]

\* what fits into the retransmission queue is sent; called by the send timer
\* and, to make room, by sr_send and sr_remove_confirmed_messages
data_send_event(c) ==
  LET room == RetransmissionSize - Len(c.fifo_retr)
      n == Least({room, Len(c.fifo_send), MaxPacket})
      d == IF n > 0 THEN SendQueued(c, n) ELSE c
  IN [d EXCEPT !.send_on = @ /\ d.fifo_send # << >>]

\* elements are popped up to and including the first one with number cs_r,
\* and all of them when there is none
\* (mutant: the confirmed element itself stays)
PopConfirmed_KeepsConfirmed(q, cs_r) ==
  LET hits == {i \in DOMAIN q : q[i].sn = cs_r}
  IN IF hits = {} THEN << >> ELSE SubSeq(q, Least(hits), Len(q))

PopConfirmed(q, cs_r) ==
  LET hits == {i \in DOMAIN q : q[i].sn = cs_r}
  IN IF hits = {} THEN << >> ELSE SubSeq(q, Least(hits) + 1, Len(q))

sr_remove_confirmed_messages(c) ==
  LET d == [c EXCEPT !.fifo_retr = PopConfirmed(@, c.cs_r)]
  IN IF Len(d.fifo_send) = SendSize THEN data_send_event(d) ELSE d

\* messages that do not fit any more are dropped
sr_add_app_messages_to_buffer(c, p) ==
  LET room == ReceiveSize - Len(c.fifo_recv)
  IN [c EXCEPT !.fifo_recv = @ \o SubSeq(p.data, 1, Least({room, Len(p.data)}))]

sr_retransmit_data(c) ==
  LET again == [i \in DOMAIN c.fifo_retr |->
                  [c.fifo_retr[i] EXCEPT !.sn = (c.sn_t + i - 1) % SnMod]]
      pdus == [i \in DOMAIN again |->
                 [type |-> "RETRDATA", sn |-> again[i].sn, cs |-> c.cs_t,
                  data |-> again[i].data, to |-> TRUE, sum |-> TRUE]]
  IN sendHeartbeat([c EXCEPT !.fifo_retr = again, !.out = @ \o pdus,
                             !.sn_t = (@ + Len(again)) % SnMod])

-----------------------------------------------------------------------------
(* The checks on a received PDU.                                           *)

sr_message_authentic(p) == p.to

sr_sn_in_seq(c, p) == c.sn_r = p.sn

\* late: the confirmed timestamp is t_max behind the last one, or more
sr_cts_in_seq(c, late) == c.cts_set => ~late

sr_sn_range_valid(c, p) ==
  \/ p.type \in {"CONNREQ", "CONNRESP", "RETRRESP"}
  \/ p.sn >= c.sn_r /\ p.sn - c.sn_r <= SnWindow

\* mutant: a PDU that confirms nothing new is refused
sr_cs_valid_OnlyNew(c, p) ==
  CASE p.type = "CONNREQ"  -> p.cs = 0
    [] p.type = "CONNRESP" -> p.cs = (c.sn_t - 1) % SnMod
    [] OTHER -> p.cs > c.cs_r /\ p.cs - c.cs_r < (c.sn_t - c.cs_r) % SnMod

sr_cs_valid(c, p) ==
  CASE p.type = "CONNREQ"  -> p.cs = 0
    [] p.type = "CONNRESP" -> p.cs = (c.sn_t - 1) % SnMod
    [] OTHER -> p.cs >= c.cs_r /\ p.cs - c.cs_r < (c.sn_t - c.cs_r) % SnMod

\* for ConReq and ConResp, whose other checks hold always
sr_check_packet(c, p) == p.sum /\ sr_message_authentic(p) /\ sr_cs_valid(c, p)

-----------------------------------------------------------------------------
(* The handlers (handlers.c).                                              *)

update_connection_attrs(c, p) ==
  [c EXCEPT !.sn_r = (p.sn + 1) % SnMod, !.cs_t = p.sn]

update_confirmed_attrs(c, p) ==
  [c EXCEPT !.cts_set = p.type # "CONNREQ", !.cs_r = p.cs]

\* mutant: the number of the PDU is taken for the confirmed one
Confirm_Number(c, p) == [c EXCEPT !.cs_r = p.sn]

Confirm(c, p) == [c EXCEPT !.cs_r = p.cs]

Break(c) == [c EXCEPT !.brk = TRUE]

RequestRetransmission(c) ==
  [sendRetransmissionRequest(c) EXCEPT !.state = "RETRREQ"]

handle_discreq(c) == Break(sr_reset_connection(c))

\* a Data PDU that is in sequence and in time
TakeData(c, p) ==
  Break(sr_remove_confirmed_messages(
    update_confirmed_attrs(
      update_connection_attrs(sr_add_app_messages_to_buffer(c, p), p), p)))

handle_data(c, p, late) ==
  LET inSeq == sr_sn_in_seq(c, p)
      inTime == sr_cts_in_seq(c, late)
  IN CASE c.state = "START" -> sr_close_connection(c)
       [] c.state = "UP" /\ inSeq /\ inTime -> TakeData(c, p)
       [] c.state = "RETRRUN" /\ inSeq /\ inTime -> update_connection_attrs(c, p)
       [] c.state \in {"UP", "RETRRUN"} /\ inSeq /\ ~inTime ->
            sr_close_connection(c)
       [] c.state \in {"UP", "RETRRUN"} /\ ~inSeq -> RequestRetransmission(c)
       [] OTHER -> c

AnswerRetransmission(c, p) ==
  sr_retransmit_data(sendRetransmissionResponse(
    sr_remove_confirmed_messages(Confirm(c, p))))

\* a connection that is closed because of RETRRUN still answers
handle_retrreq(c, p) ==
  IF sr_sn_in_seq(c, p)
  THEN LET d == IF c.state = "RETRRUN" THEN sr_close_connection(c) ELSE c
       IN AnswerRetransmission(update_connection_attrs(d, p), p)
  ELSE [AnswerRetransmission(c, p) EXCEPT !.state = "RETRREQ"]

handle_retrresp(c, p) ==
  IF c.state = "RETRREQ"
  THEN update_confirmed_attrs(
         update_connection_attrs([c EXCEPT !.state = "RETRRUN"], p), p)
  ELSE sr_close_connection(c)

TakeRetransmitted(c, p) ==
  Break(Confirm(
    update_connection_attrs(sr_add_app_messages_to_buffer(c, p), p), p))

handle_retrdata(c, p, late) ==
  LET inSeq == sr_sn_in_seq(c, p)
  IN CASE c.state = "UP" -> sr_close_connection(c)
       [] c.state = "RETRRUN" /\ inSeq /\ sr_cts_in_seq(c, late) ->
            TakeRetransmitted(c, p)
       [] c.state = "RETRRUN" /\ inSeq /\ ~sr_cts_in_seq(c, late) ->
            sr_close_connection(c)
       [] c.state = "RETRRUN" /\ ~inSeq -> RequestRetransmission(c)
       [] OTHER -> c

\* a heartbeat in START: whatever the first two checks decide, the
\* connection goes up when the time is right
CompleteHandshake(c, p, late, isClient) ==
  LET d1 == IF sr_sn_in_seq(c, p) THEN c ELSE sr_close_connection(c)
      d2 == IF isClient THEN sr_close_connection(d1) ELSE d1
  IN IF sr_cts_in_seq(c, late)
     THEN Break([Confirm(update_connection_attrs(d2, p), p) EXCEPT
                   !.state = "UP", !.hb_locked = FALSE, !.is_new = TRUE,
                   !.heartbeat_on = TRUE, !.timeout_on = TRUE])
     ELSE sr_close_connection(d2)

TakeHeartbeat(c, p) ==
  LET d == sr_remove_confirmed_messages(
             update_confirmed_attrs(update_connection_attrs(c, p), p))
  IN [d EXCEPT !.state = "UP"]

handle_hb(c, p, late, isClient) ==
  LET inSeq == sr_sn_in_seq(c, p)
      inTime == sr_cts_in_seq(c, late)
  IN CASE c.state = "START" -> CompleteHandshake(c, p, late, isClient)
       [] c.state \in {"UP", "RETRRUN"} /\ inSeq /\ inTime -> TakeHeartbeat(c, p)
       [] c.state \in {"UP", "RETRRUN"} /\ inSeq /\ ~inTime ->
            sr_close_connection(c)
       [] c.state \in {"UP", "RETRRUN"} /\ ~inSeq ->
            [c EXCEPT !.state = "RETRREQ"]
       [] OTHER -> c

handle_conreq(c, p, accept) ==
  LET d == [sr_reset_connection(c) EXCEPT !.sn_t = c.initial, !.state = "DOWN"]
      u == update_confirmed_attrs(update_connection_attrs(d, p), p)
  IN IF c.state \notin {"CLOSED", "DOWN"} \/ ~sr_check_packet(d, p) \/ ~accept
     THEN sr_close_connection(IF c.state \in {"CLOSED", "DOWN"} THEN d ELSE c)
     ELSE [EmitAndCount(u, "CONNRESP", << >>) EXCEPT !.state = "START"]

GoUp(c, p) ==
  [sendHeartbeat([Confirm(update_connection_attrs(c, p), p) EXCEPT !.state = "UP"])
     EXCEPT !.heartbeat_on = TRUE, !.hb_locked = FALSE, !.timeout_on = TRUE]

handle_conresp(c, p, isClient, accept) ==
  CASE ~sr_check_packet(c, p) -> sr_close_connection(c)
    [] sr_check_packet(c, p) /\ c.state = "START" /\ isClient /\ accept -> GoUp(c, p)
    [] sr_check_packet(c, p) /\ c.state = "START" /\ ~(isClient /\ accept) ->
         sr_close_connection(c)
    [] sr_check_packet(c, p) /\ c.state \in Open -> sr_close_connection(c)
    [] OTHER -> c

-----------------------------------------------------------------------------
(* Timed events (transport/events.c) and sr_send.                          *)

\* mutant: the retransmission states are forgotten
event_connection_expired_OnlyUp(c) ==
  LET d == IF c.state = "UP" THEN sr_close_connection(c) ELSE c
  IN IF c.hb_locked THEN c
     ELSE Break([d EXCEPT !.heartbeat_on = FALSE, !.timeout_on = FALSE])

event_connection_expired(c) ==
  LET d == IF c.state \in Open THEN sr_close_connection(c) ELSE c
  IN IF c.hb_locked THEN c
     ELSE Break([d EXCEPT !.heartbeat_on = FALSE, !.timeout_on = FALSE])

heartbeat_send_event(c) ==
  IF ~c.hb_locked /\ c.state \in Open THEN sendHeartbeat(c) ELSE c

\* sr_send has room for one message, after a flush if need be
MakeRoom(c) == IF Len(c.fifo_send) = SendSize THEN data_send_event(c) ELSE c

Takes(c) == c.state = "UP" /\ Len(MakeRoom(c).fifo_send) < SendSize

\* mutant: the send timer is not enabled
sr_send_NoTimer(c, message) ==
  [MakeRoom(c) EXCEPT !.fifo_send = Append(@, message)]

sr_send(c, message) ==
  CASE Takes(c) ->
         [MakeRoom(c) EXCEPT !.fifo_send = Append(@, message), !.send_on = TRUE]
    [] c.state = "UP" /\ ~Takes(c) -> MakeRoom(c)
    [] c.state \in {"CLOSED", "DOWN"} -> [c EXCEPT !.state = "CLOSED"]
    [] OTHER -> [sendDisconnectionRequest(c) EXCEPT !.state = "CLOSED"]

-----------------------------------------------------------------------------
(* The two ends and the link between them.                                 *)

\* rasta_lib_init_configuration
NewConnection(initial) ==
  [state |-> "CLOSED", initial |-> initial, sn_t |-> 0, sn_r |-> 0, cs_t |-> 0, cs_r |-> 0,
   cts_set |-> FALSE, hb_locked |-> TRUE, heartbeat_on |-> FALSE,
   timeout_on |-> FALSE, send_on |-> FALSE, is_new |-> FALSE, brk |-> FALSE,
   fifo_send |-> << >>, fifo_retr |-> << >>, fifo_recv |-> << >>, out |-> << >>]

Init ==
  /\ \E initial \in InitialSns : con = [e \in Endpoint |-> NewConnection(initial[e])]
  /\ chan = [e \in Endpoint |-> << >>]
  /\ app = [e \in Endpoint |-> "start"]
  /\ rest = [e \in Endpoint |-> 0]
  /\ accepted = [e \in Endpoint |-> 0]
  /\ received = [e \in Endpoint |-> << >>]
  /\ beats = [e \in Endpoint |-> 0]
  /\ damages = 0
  /\ lates = 0

\* e is inside event_system_start
Running(e) == app[e] \in {"opening", "recv"}

\* end e does something on its own, which leaves it in c
Do(e, c) ==
  /\ con' = [con EXCEPT ![e] = [c EXCEPT !.out = << >>]]
  /\ chan' = [chan EXCEPT ![Partner[e]] = @ \o c.out]

\* red_f_deliverDeferQueue packs a PDU again, with a fresh safety code,
\* before it passes it to sr_receive
Repacked(p) == [p EXCEPT !.sum = TRUE]

Damaged(p) ==
  {[p EXCEPT !.sum = FALSE, !.to = FALSE],
   [p EXCEPT !.sum = FALSE, !.data = [i \in DOMAIN p.data |-> Garbled]]}

Arrivals(e) ==
  {Repacked(p) : p \in {Head(chan[e])} \cup
     (IF damages < MaxDamages THEN Damaged(Head(chan[e])) ELSE {})}

Lateness == IF lates < MaxLate THEN BOOLEAN ELSE {FALSE}

\* red_f_deliverDeferQueue empties the defer queue before the event loop
\* sees that a handler asked it to return
RestAfter(e, c) ==
  CASE con[e].brk -> rest[e] - 1
    [] ~con[e].brk /\ c.brk -> Least({Len(chan[e]), DeferQueueSize}) - 1
    [] OTHER -> 0

\* e handles p, the next PDU on its way, which leaves it in c
Handle(e, p, c, late) ==
  /\ con' = [con EXCEPT ![e] = [c EXCEPT !.out = << >>]]
  /\ chan' = [chan EXCEPT ![e] = Tail(@), ![Partner[e]] = @ \o c.out]
  /\ rest' = [rest EXCEPT ![e] = RestAfter(e, c)]
  /\ damages' = IF p = Head(chan[e]) THEN damages ELSE damages + 1
  /\ lates' = IF late THEN lates + 1 ELSE lates
  /\ UNCHANGED <<app, accepted, received, beats>>

\* the checks of sr_receive that discard a PDU
Passes(c, p) ==
  /\ p.sum
  /\ sr_message_authentic(p)
  /\ sr_sn_range_valid(c, p)
  /\ sr_cs_valid(c, p)

Incoming(e) ==
  /\ Running(e)
  /\ chan[e] # << >>
  /\ con[e].brk => rest[e] > 0

ReceiveConReq(e) ==
  /\ Incoming(e)
  /\ \E p \in Arrivals(e), accept \in VersionVerdicts :
       /\ p.type = "CONNREQ"
       /\ Handle(e, p, handle_conreq(con[e], p, accept), FALSE)

ReceiveConResp(e) ==
  /\ Incoming(e)
  /\ \E p \in Arrivals(e), accept \in VersionVerdicts :
       /\ p.type = "CONNRESP"
       /\ Handle(e, p, Break(handle_conresp(con[e], p, e = Client, accept)), FALSE)

ReceiveRejected(e) ==
  /\ Incoming(e)
  /\ \E p \in Arrivals(e) :
       /\ p.type \notin {"CONNREQ", "CONNRESP"}
       /\ ~Passes(con[e], p)
       /\ Handle(e, p, con[e], FALSE)

ReceiveData(e) ==
  /\ Incoming(e)
  /\ \E p \in Arrivals(e), late \in Lateness :
       /\ p.type = "DATA" /\ Passes(con[e], p)
       /\ Handle(e, p, handle_data(con[e], p, late), late)

ReceiveRetrReq(e) ==
  /\ Incoming(e)
  /\ \E p \in Arrivals(e) :
       /\ p.type = "RETRREQ" /\ Passes(con[e], p)
       /\ Handle(e, p, handle_retrreq(con[e], p), FALSE)

ReceiveRetrResp(e) ==
  /\ Incoming(e)
  /\ \E p \in Arrivals(e) :
       /\ p.type = "RETRRESP" /\ Passes(con[e], p)
       /\ Handle(e, p, handle_retrresp(con[e], p), FALSE)

ReceiveRetrData(e) ==
  /\ Incoming(e)
  /\ \E p \in Arrivals(e), late \in Lateness :
       /\ p.type = "RETRDATA" /\ Passes(con[e], p)
       /\ Handle(e, p, handle_retrdata(con[e], p, late), late)

ReceiveHb(e) ==
  /\ Incoming(e)
  /\ \E p \in Arrivals(e), late \in Lateness :
       /\ p.type = "HB" /\ Passes(con[e], p)
       /\ Handle(e, p, handle_hb(con[e], p, late, e = Client), late)

ReceiveDiscReq(e) ==
  /\ Incoming(e)
  /\ \E p \in Arrivals(e) :
       /\ p.type = "DISCREQ" /\ Passes(con[e], p)
       /\ Handle(e, p, handle_discreq(con[e]), FALSE)

-----------------------------------------------------------------------------
(* Timers fire while the event loop waits.                                 *)

Waiting(e) == Running(e) /\ ~con[e].brk

TimeoutExpires(e) ==
  /\ Waiting(e) /\ con[e].timeout_on
  /\ Do(e, event_connection_expired(con[e]))
  /\ UNCHANGED <<app, rest, accepted, received, bounds>>

HeartbeatDue(e) ==
  /\ Waiting(e) /\ con[e].heartbeat_on
  /\ beats[e] < MaxBeats[e]
  /\ beats' = [beats EXCEPT ![e] = @ + 1]
  /\ Do(e, heartbeat_send_event(con[e]))
  /\ UNCHANGED <<app, rest, accepted, received, damages, lates>>

SendDue(e) ==
  /\ Waiting(e) /\ con[e].send_on
  /\ Do(e, data_send_event(con[e]))
  /\ UNCHANGED <<app, rest, accepted, received, bounds>>

HandshakeTimeout(e) ==
  /\ e = Client /\ Waiting(e) /\ app[e] = "opening"
  /\ Do(e, Break(con[e]))
  /\ UNCHANGED <<app, rest, accepted, received, bounds>>

-----------------------------------------------------------------------------
(* The calls of the application (rasta.c).  One connection is opened.      *)

sr_connect(c) ==
  LET d == [sr_reset_connection(c) EXCEPT !.sn_t = c.initial, !.cs_t = 0,
                                          !.cts_set = TRUE]
  IN [EmitAndCount(d, "CONNREQ", << >>) EXCEPT !.state = "START"]

RastaConnect(e) ==
  /\ e = Client /\ app[e] = "start"
  /\ app' = [app EXCEPT ![e] = "opening"]
  /\ Do(e, sr_connect(con[e]))
  /\ UNCHANGED <<rest, accepted, received, bounds>>

RastaAccept(e) ==
  /\ e = Server /\ app[e] = "start"
  /\ app' = [app EXCEPT ![e] = "opening"]
  /\ UNCHANGED <<con, chan, rest, accepted, received, bounds>>

\* the event loop returned to sr_connect or to rasta_accept
OpeningReturns(e) ==
  /\ app[e] = "opening" /\ con[e].brk
  /\ LET opened == IF e = Client THEN con[e].state = "UP" ELSE con[e].is_new
     IN app' = [app EXCEPT ![e] = IF opened THEN "idle" ELSE "done"]
  /\ Do(e, [con[e] EXCEPT !.brk = FALSE, !.is_new = FALSE])
  /\ rest' = [rest EXCEPT ![e] = 0]
  /\ UNCHANGED <<accepted, received, bounds>>

\* rasta_recv when a message is there
RastaRecvMessage(e) ==
  /\ app[e] = "idle" \/ (app[e] = "recv" /\ con[e].brk)
  /\ con[e].state = "UP" /\ con[e].fifo_recv # << >>
  /\ app' = [app EXCEPT ![e] = "idle"]
  /\ received' = [received EXCEPT ![e] = Append(@, Head(con[e].fifo_recv))]
  /\ Do(e, [con[e] EXCEPT !.fifo_recv = Tail(@), !.brk = FALSE])
  /\ rest' = [rest EXCEPT ![e] = 0]
  /\ UNCHANGED <<accepted, bounds>>

\* rasta_recv enters the event loop, for the first time or again
RastaRecvWaits(e) ==
  /\ app[e] = "idle" \/ (app[e] = "recv" /\ con[e].brk)
  /\ con[e].state = "UP" /\ con[e].fifo_recv = << >>
  /\ app' = [app EXCEPT ![e] = "recv"]
  /\ Do(e, [con[e] EXCEPT !.brk = FALSE])
  /\ rest' = [rest EXCEPT ![e] = 0]
  /\ UNCHANGED <<accepted, received, bounds>>

\* rasta_recv returns -1
RastaRecvFails(e) ==
  /\ app[e] = "idle" \/ (app[e] = "recv" /\ con[e].brk)
  /\ con[e].state # "UP"
  /\ app' = [app EXCEPT ![e] = "idle"]
  /\ Do(e, [con[e] EXCEPT !.brk = FALSE])
  /\ rest' = [rest EXCEPT ![e] = 0]
  /\ UNCHANGED <<accepted, received, bounds>>

RastaSend(e) ==
  /\ app[e] \in {"idle", "recv"}
  /\ accepted[e] < MaxMessages[e]
  /\ accepted' = [accepted EXCEPT ![e] = IF Takes(con[e]) THEN @ + 1 ELSE @]
  /\ Do(e, sr_send(con[e], accepted[e] + 1))
  /\ UNCHANGED <<app, rest, received, bounds>>

RastaDisconnect(e) ==
  /\ app[e] \in {"idle", "recv"}
  /\ app' = [app EXCEPT ![e] = "done"]
  /\ Do(e, sr_close_connection(con[e]))
  /\ UNCHANGED <<rest, accepted, received, bounds>>

Receive(e) ==
  \/ ReceiveConReq(e)
  \/ ReceiveConResp(e)
  \/ ReceiveRejected(e)
  \/ ReceiveData(e)
  \/ ReceiveRetrReq(e)
  \/ ReceiveRetrResp(e)
  \/ ReceiveRetrData(e)
  \/ ReceiveHb(e)
  \/ ReceiveDiscReq(e)

Return(e) ==
  \/ OpeningReturns(e)
  \/ RastaRecvMessage(e)
  \/ RastaRecvWaits(e)
  \/ RastaRecvFails(e)

Next ==
  \E e \in Endpoint :
    \/ Receive(e)
    \/ TimeoutExpires(e)
    \/ HeartbeatDue(e)
    \/ SendDue(e)
    \/ HandshakeTimeout(e)
    \/ RastaConnect(e)
    \/ RastaAccept(e)
    \/ Return(e)
    \/ RastaSend(e)
    \/ RastaDisconnect(e)

Spec == Init /\ [][Next]_vars
-----------------------------------------------------------------------------
(* The event loop calls the receive callback while a channel is readable   *)
(* and fires a timer that is due; the application calls rasta_recv again   *)
(* and again.  No fairness is asked of the connection timeout, which need  *)
(* not expire.                                                             *)
Fairness ==
  \A e \in Endpoint :
    /\ WF_vars(Receive(e))
    /\ WF_vars(SendDue(e))
    /\ WF_vars(HeartbeatDue(e))
    /\ WF_vars(Return(e))

FairSpec == Spec /\ Fairness
-----------------------------------------------------------------------------
(* The values the variables range over.                                    *)
TypeOK ==
  /\ con \in [Endpoint -> Connection]
  /\ chan \in [Endpoint -> Seq(Pdu)]
  /\ app \in [Endpoint -> {"start", "opening", "idle", "recv", "done"}]
  /\ rest \in [Endpoint -> Int]
  /\ accepted \in [Endpoint -> Nat]
  /\ received \in [Endpoint -> Seq(Message)]
  /\ beats \in [Endpoint -> Nat]
  /\ damages \in Nat
  /\ lates \in Nat

\* what reached the application of e, or will with its next rasta_recv
Delivered(e) == received[e] \o con[e].fifo_recv

(* No queue grows past its size, so that no fifo_push of a handler or of   *)
(* data_send_event fails: a Data PDU is kept for retransmission when it is *)
(* sent, until sr_remove_confirmed_messages pops it.                       *)
QueuesBounded ==
  \A e \in Endpoint :
    /\ Len(con[e].fifo_send) <= SendSize
    /\ Len(con[e].fifo_retr) <= RetransmissionSize
    /\ Len(con[e].fifo_recv) <= ReceiveSize

(* Through damage, retransmission and confirmation no message reaches the  *)
(* application twice and none overtakes another.                           *)
NoRepetition ==
  \A e \in Endpoint : \A i, j \in DOMAIN Delivered(e) :
    i < j /\ Delivered(e)[i] # Garbled /\ Delivered(e)[j] # Garbled
      => Delivered(e)[i] < Delivered(e)[j]

\* the numbers of e have not passed 2^32 since the connection was opened
Unwrapped(e) == con[e].initial <= con[e].sn_t

(* As long as its sequence numbers do not wrap around, an end never takes  *)
(* a PDU as confirmed that the peer has not processed, and the peer never  *)
(* expects a PDU that was not sent.                                        *)
ConfirmationsSound ==
  \A e \in Endpoint :
    con[e].state \in Open /\ Unwrapped(e) =>
      /\ con[e].cs_r < con[Partner[e]].sn_r
      /\ con[Partner[e]].sn_r <= con[e].sn_t
      /\ con[e].cs_r < con[e].sn_t

(* The range checks of sr_receive never reject an undamaged PDU of the     *)
(* peer, whatever was lost or retransmitted before it, as long as sequence *)
(* numbers do not wrap around.                                             *)
GenuinePasses ==
  (\A e \in Endpoint : Unwrapped(e)) =>
    \A e \in Endpoint :
      con[e].state \in Open /\ chan[e] # << >> => Passes(con[e], Head(chan[e]))

\* messages of the PDUs under way to e
UnderWay(e) ==
  LET upTo[i \in 0..Len(chan[e])] ==
        IF i = 0 THEN << >> ELSE upTo[i - 1] \o chan[e][i].data
  IN upTo[Len(chan[e])]

\* the messages of e from the peer's application back to its own send queue
Pipeline(e) ==
  Delivered(Partner[e]) \o UnderWay(Partner[e]) \o con[e].fifo_send

\* nothing is damaged, no number wraps around and both ends are up
Undisturbed(e) ==
  /\ damages = 0
  /\ \A f \in Endpoint : Unwrapped(f)
  /\ con[e].state = "UP"
  /\ con[Partner[e]].state \in {"START", "UP"}

\* the peer of e takes the next messages until its receive queue is full and
\* drops what follows them in the same PDU
Overflow(e) ==
  LET p == Partner[e]
      all == Pipeline(e)
  IN /\ Len(con'[p].fifo_recv) = ReceiveSize
     /\ Delivered(p)' = SubSeq(all, 1, Len(Delivered(p)'))
     /\ Len(UnderWay(p)') = Len(UnderWay(p)) - Len(Head(chan[p]).data)
     /\ (UnderWay(p) \o con[e].fifo_send)'
          = SubSeq(all, Len(Delivered(p)) + Len(Head(chan[p]).data) + 1, Len(all))

(* While nothing is damaged, no number wraps around and both ends are up,  *)
(* the messages delivered, those under way and those in fifo_send change   *)
(* only by the one rasta_send takes, at the end, and by those that         *)
(* sr_add_app_messages_to_buffer drops because the receive queue is full:  *)
(* a full send or retransmission queue, packets of several messages and    *)
(* the flush in sr_send and sr_remove_confirmed_messages lose, repeat and  *)
(* reorder nothing.                                                        *)
Conserved ==
  [][\A e \in Endpoint :
       Undisturbed(e)' =>
         \/ Pipeline(e)' = Pipeline(e) /\ accepted'[e] = accepted[e]
         \/ /\ accepted'[e] = accepted[e] + 1
            /\ Pipeline(e)' = Append(Pipeline(e), accepted'[e])
         \/ Overflow(e) /\ accepted'[e] = accepted[e]]_vars

(* The timer that supervises a connection is switched off only by a step   *)
(* after which the connection is closed.                                   *)
SupervisionKept ==
  [][\A e \in Endpoint :
       con[e].timeout_on /\ ~con'[e].timeout_on => con'[e].state = "CLOSED"]_vars

IsDelivered(e, k) == \E i \in DOMAIN Delivered(e) : Delivered(e)[i] = k

\* the retransmission queue of e is full of PDUs that the peer has not
\* confirmed, and the peer has used the heartbeats that the bound grants it
IsBlocked(e) ==
  /\ Len(con[e].fifo_retr) = RetransmissionSize
  /\ \A i \in DOMAIN con[e].fifo_retr : con[e].fifo_retr[i].sn > con[e].cs_r
  /\ beats[Partner[e]] = MaxBeats[Partner[e]]

(* While nothing is damaged, every message that rasta_send took leaves     *)
(* fifo_send and the link again, although data_send_event sends nothing    *)
(* while the retransmission queue is full: confirmations make room in it   *)
(* and the send timer stays on.  By Conserved the message then is with the *)
(* peer's application, or the peer dropped it because its receive queue    *)
(* was full.  The exceptions are a closed end and a peer that does not     *)
(* confirm what fills the retransmission queue.                            *)
AcceptedIsDelivered ==
  \A e \in Endpoint :
    []<>(\/ UnderWay(Partner[e]) = << >> /\ con[e].fifo_send = << >>
         \/ IsBlocked(e)
         \/ \E f \in Endpoint : con[f].state = "CLOSED")

(* When one end has closed the connection the other does not stay open,    *)
(* even if its timeout never expires.                                      *)
ClosePropagates ==
  \A e \in Endpoint :
    (con[e].state = "CLOSED" /\ con[Partner[e]].state \in Open)
      ~> (con[Partner[e]].state \notin Open)

-----------------------------------------------------------------------------
(* What the comments and documents of the code say and the code does not   *)
(* do.                                                                     *)

\* PDUs that a step of e puts on the link
Emitted(e) ==
  SubSeq(chan'[Partner[e]], Len(chan[Partner[e]]) + 1, Len(chan'[Partner[e]]))

Emits(e, type) ==
  /\ con'[e] # con[e]
  /\ \E i \in DOMAIN Emitted(e) : Emitted(e)[i].type = type

(* handlers.c:272: a heartbeat that is out of sequence in START makes the  *)
(* server disconnect and close the connection.                             *)
DiscReqCloses ==
  [][\A e \in Endpoint : Emits(e, "DISCREQ") => con'[e].state = "CLOSED"]_vars

(* rasta_connection.h:65 and safety_retransmission.c:595: the checksum of  *)
(* a PDU is checked and a faulty one is discarded, so that no damaged      *)
(* message reaches the application.                                        *)
DamagedIsDiscarded ==
  \A e \in Endpoint : ~IsDelivered(e, Garbled)
=============================================================================

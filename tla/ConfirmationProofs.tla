------------------------ MODULE ConfirmationProofs -------------------------
(***************************************************************************)
(* The numbers of a connection.  As long as no sequence number wraps       *)
(* around, an end never takes a PDU as confirmed that the peer has not     *)
(* processed, and a genuine PDU is discarded only if the peer is too far   *)
(* ahead.                                                                  *)
(*                                                                         *)
(* Once the handshake is over the numbers of the two ends and of the PDUs  *)
(* under way form one chain in each direction: what e knows to be          *)
(* confirmed, what the PDUs on their way to e confirm, what the peer has   *)
(* taken, what is on its way to the peer, and what e will send next.       *)
(***************************************************************************)
EXTENDS NumberingProofs

\* no end is more than SnWindow PDUs ahead of its peer
InWindow == \A e \in Endpoint : con[Partner[e]].sn_t - con[e].sn_r <= SnWindow
-----------------------------------------------------------------------------
(* Opening.                                                                *)

\* c and d differ at most in what is queued and in brk
Alike(c, d) ==
  /\ d.state = c.state /\ d.initial = c.initial
  /\ d.sn_t = c.sn_t /\ d.sn_r = c.sn_r /\ d.cs_t = c.cs_t /\ d.cs_r = c.cs_r
  /\ d.timeout_on = c.timeout_on /\ d.heartbeat_on = c.heartbeat_on
  /\ d.send_on = c.send_on /\ d.is_new = c.is_new

(* Alike connections are both dormant.                                     *)
LEMMA AlikeDormant ==
  ASSUME NEW c, NEW d, Alike(c, d), Dormant(c)
  PROVE  Dormant(d)
  BY DEF Alike, Dormant

(* The two ends after a step of e.                                         *)
LEMMA EndAfter ==
  ASSUME TypeOK, NEW e \in Endpoint, NEW c \in Connection,
         con' = [con EXCEPT ![e] = [c EXCEPT !.out = << >>]]
  PROVE  Alike(c, con'[e]) /\ con'[e].out = << >> /\ con'[Partner[e]] = con[Partner[e]]
<1> DEFINE d == [c EXCEPT !.out = << >>]
<1>1. con'[e] = d /\ con'[Partner[e]] = con[Partner[e]]
  BY Other DEF TypeOK
<1>2. Alike(c, d) /\ d.out = << >>
  BY DEF Alike, Connection
<1> QED BY <1>1, <1>2, Zenon

(* What sr_connect leaves.                                                 *)
LEMMA ConnectFields ==
  ASSUME NEW c \in Connection
  PROVE  LET x == sr_connect(c)
         IN /\ x.state = "START" /\ x.initial = c.initial /\ x.sn_t = (c.initial + 1) % SnMod
            /\ x.sn_r = c.sn_r /\ x.cs_t = 0 /\ x.cs_r = c.cs_r
            /\ x.timeout_on = FALSE /\ x.heartbeat_on = FALSE
            /\ x.send_on = c.send_on /\ x.is_new = c.is_new
            /\ x.out = Append(c.out, [type |-> "CONNREQ", sn |-> c.initial, cs |-> 0,
                                      data |-> << >>, to |-> TRUE, sum |-> TRUE])
<1> DEFINE d == [sr_reset_connection(c) EXCEPT !.sn_t = c.initial, !.cs_t = 0, !.cts_set = TRUE]
           q == [type |-> "CONNREQ", sn |-> d.sn_t, cs |-> d.cs_t, data |-> << >>, to |-> TRUE, sum |-> TRUE]
           y == [d EXCEPT !.out = Append(@, q)]
           x == sr_connect(c)
<1>1. /\ d.initial = c.initial /\ d.sn_t = c.initial /\ d.sn_r = c.sn_r /\ d.cs_t = 0 /\ d.cs_r = c.cs_r
      /\ d.timeout_on = FALSE /\ d.heartbeat_on = FALSE /\ d.send_on = c.send_on
      /\ d.is_new = c.is_new /\ d.out = c.out /\ DOMAIN d = DOMAIN c
  BY DEF sr_reset_connection, Connection
<1>2. DOMAIN c = {"state", "initial", "sn_t", "sn_r", "cs_t", "cs_r", "cts_set", "hb_locked",
                  "heartbeat_on", "timeout_on", "send_on", "is_new", "brk", "fifo_send",
                  "fifo_retr", "fifo_recv", "out"}
  BY DEF Connection
<1>3. x = [[y EXCEPT !.sn_t = (@ + 1) % SnMod] EXCEPT !.state = "START"]
  BY DEF sr_connect, EmitAndCount, Emit
<1> HIDE DEF d
<1>4. /\ x.state = "START" /\ x.initial = d.initial /\ x.sn_t = (d.sn_t + 1) % SnMod
      /\ x.sn_r = d.sn_r /\ x.cs_t = d.cs_t /\ x.cs_r = d.cs_r /\ x.timeout_on = d.timeout_on
      /\ x.heartbeat_on = d.heartbeat_on /\ x.send_on = d.send_on /\ x.is_new = d.is_new
      /\ x.out = Append(d.out, q)
  <2> HIDE DEF q, x
  <2>1. /\ DOMAIN y = DOMAIN c /\ y.initial = d.initial /\ y.sn_t = d.sn_t
        /\ y.sn_r = d.sn_r /\ y.cs_t = d.cs_t /\ y.cs_r = d.cs_r /\ y.timeout_on = d.timeout_on
        /\ y.heartbeat_on = d.heartbeat_on /\ y.send_on = d.send_on /\ y.is_new = d.is_new
        /\ y.out = Append(d.out, q)
    BY <1>1, <1>2
  <2> HIDE DEF y
  <2> QED BY <1>2, <1>3, <2>1
<1> QED BY <1>1, <1>4

\* x is c after it handled the ConReq p: closed, or in START with a ConResp
Answered(c, p, x) ==
  /\ x.initial = c.initial /\ x.timeout_on = FALSE /\ x.heartbeat_on = FALSE
  /\ x.send_on = c.send_on /\ x.is_new = c.is_new
  /\ \/ x.state = "CLOSED" /\ x.out = c.out
     \/ /\ x.state = "START" /\ x.sn_t = (c.initial + 1) % SnMod
        /\ x.sn_r = (p.sn + 1) % SnMod /\ x.cs_t = p.sn /\ x.cs_r = p.cs
        /\ x.out = Append(c.out, [type |-> "CONNRESP", sn |-> c.initial, cs |-> p.sn,
                                  data |-> << >>, to |-> TRUE, sum |-> TRUE])

(* What handle_conreq leaves of a closed connection.                       *)
LEMMA ConReqFields ==
  ASSUME NEW c \in Connection, c.state = "CLOSED", NEW p \in Pdu, p.type = "CONNREQ", NEW accept,
         NEW x, x = handle_conreq(c, p, accept)
  PROVE  Answered(c, p, x)
<1> DEFINE d == [sr_reset_connection(c) EXCEPT !.sn_t = c.initial, !.state = "DOWN"]
           u == update_confirmed_attrs(update_connection_attrs(d, p), p)
           q == [type |-> "CONNRESP", sn |-> u.sn_t, cs |-> u.cs_t, data |-> << >>, to |-> TRUE, sum |-> TRUE]
           y == [u EXCEPT !.out = Append(@, q)]
           z == [[y EXCEPT !.sn_t = (@ + 1) % SnMod] EXCEPT !.state = "START"]
<1>1. DOMAIN c = {"state", "initial", "sn_t", "sn_r", "cs_t", "cs_r", "cts_set", "hb_locked",
                  "heartbeat_on", "timeout_on", "send_on", "is_new", "brk", "fifo_send",
                  "fifo_retr", "fifo_recv", "out"}
  BY DEF Connection
<1>2. /\ d.state = "DOWN" /\ d.initial = c.initial /\ d.sn_t = c.initial
      /\ d.timeout_on = FALSE /\ d.heartbeat_on = FALSE /\ d.send_on = c.send_on
      /\ d.is_new = c.is_new /\ d.out = c.out /\ DOMAIN d = DOMAIN c
  BY <1>1 DEF sr_reset_connection
<1>3. x = z \/ x = sr_reset_connection(d)
  BY DEF handle_conreq, EmitAndCount, Emit, sr_close_connection
<1> HIDE DEF d
<1>4. CASE x = sr_reset_connection(d)
  <2> QED BY <1>1, <1>2, <1>4 DEF sr_reset_connection, Answered
<1>5. CASE x = z
  <2>1. /\ u.initial = d.initial /\ u.sn_t = d.sn_t /\ u.sn_r = (p.sn + 1) % SnMod /\ u.cs_t = p.sn
        /\ u.cs_r = p.cs /\ u.timeout_on = d.timeout_on /\ u.heartbeat_on = d.heartbeat_on
        /\ u.send_on = d.send_on /\ u.is_new = d.is_new /\ u.out = d.out /\ DOMAIN u = DOMAIN c
    BY <1>1, <1>2 DEF update_connection_attrs, update_confirmed_attrs
  <2> HIDE DEF u
  <2>2. q = [type |-> "CONNRESP", sn |-> c.initial, cs |-> p.sn, data |-> << >>, to |-> TRUE, sum |-> TRUE]
    BY <1>2, <2>1
  <2> HIDE DEF q
  <2>3. /\ DOMAIN y = DOMAIN c /\ y.initial = u.initial /\ y.sn_t = u.sn_t
        /\ y.sn_r = u.sn_r /\ y.cs_t = u.cs_t /\ y.cs_r = u.cs_r /\ y.timeout_on = u.timeout_on
        /\ y.heartbeat_on = u.heartbeat_on /\ y.send_on = u.send_on /\ y.is_new = u.is_new
        /\ y.out = Append(u.out, q)
    BY <1>1, <2>1
  <2> HIDE DEF y
  <2>4. /\ z.state = "START" /\ z.initial = y.initial /\ z.sn_t = (y.sn_t + 1) % SnMod
        /\ z.sn_r = y.sn_r /\ z.cs_t = y.cs_t /\ z.cs_r = y.cs_r /\ z.timeout_on = y.timeout_on
        /\ z.heartbeat_on = y.heartbeat_on /\ z.send_on = y.send_on /\ z.is_new = y.is_new
        /\ z.out = y.out
    BY <1>1, <2>3
  <2> HIDE DEF z
  <2> QED BY <1>2, <1>5, <2>1, <2>2, <2>3, <2>4 DEF Answered
<1> QED BY <1>3, <1>4, <1>5

\* x is c after it handled the ConResp p: closed, or up with a heartbeat
Replied(c, p, x) ==
  /\ x.send_on = c.send_on /\ x.is_new = c.is_new
  /\ \/ /\ x.state = "CLOSED" /\ x.timeout_on = FALSE /\ x.heartbeat_on = FALSE
        /\ x.out = Append(c.out, [type |-> "DISCREQ", sn |-> c.sn_t, cs |-> c.cs_t,
                                  data |-> << >>, to |-> TRUE, sum |-> TRUE])
     \/ /\ x.sn_t = (c.sn_t + 1) % SnMod
        /\ x.sn_r = (p.sn + 1) % SnMod /\ x.cs_t = p.sn /\ x.cs_r = p.cs
        /\ x.out = Append(c.out, [type |-> "HB", sn |-> c.sn_t, cs |-> p.sn,
                                  data |-> << >>, to |-> TRUE, sum |-> TRUE])

(* What handle_conresp leaves of a connection in START.                    *)
LEMMA ConRespFields ==
  ASSUME NEW c \in Connection, c.state = "START", NEW p \in Pdu, p.type = "CONNRESP",
         NEW isClient, NEW accept, NEW x, x = Break(handle_conresp(c, p, isClient, accept))
  PROVE  Replied(c, p, x)
<1> DEFINE h == handle_conresp(c, p, isClient, accept)
           r == sr_reset_connection(c)
           k == [Confirm(update_connection_attrs(c, p), p) EXCEPT !.state = "UP"]
           q == [type |-> "HB", sn |-> k.sn_t, cs |-> k.cs_t, data |-> << >>, to |-> TRUE, sum |-> TRUE]
           y == [k EXCEPT !.out = Append(@, q)]
           z == [[y EXCEPT !.sn_t = (@ + 1) % SnMod]
                   EXCEPT !.heartbeat_on = TRUE, !.hb_locked = FALSE, !.timeout_on = TRUE]
<1>1. DOMAIN c = {"state", "initial", "sn_t", "sn_r", "cs_t", "cs_r", "cts_set", "hb_locked",
                  "heartbeat_on", "timeout_on", "send_on", "is_new", "brk", "fifo_send",
                  "fifo_retr", "fifo_recv", "out"}
  BY DEF Connection
<1>2. h = sendDisconnectionRequest(r) \/ h = z
  BY DEF handle_conresp, GoUp, sendHeartbeat, EmitAndCount, Emit, sr_close_connection
<1>0. x = Break(h)
  OBVIOUS
<1> HIDE DEF h
<1>3. CASE h = sendDisconnectionRequest(r)
  <2>1. /\ r.state = "CLOSED" /\ r.timeout_on = FALSE /\ r.heartbeat_on = FALSE /\ DOMAIN r = DOMAIN c
        /\ r.send_on = c.send_on /\ r.is_new = c.is_new /\ r.out = c.out /\ r.sn_t = c.sn_t /\ r.cs_t = c.cs_t
    BY <1>1 DEF sr_reset_connection
  <2> HIDE DEF r
  <2>2. /\ h.state = r.state /\ h.timeout_on = r.timeout_on /\ h.heartbeat_on = r.heartbeat_on
        /\ DOMAIN h = DOMAIN c /\ h.send_on = r.send_on /\ h.is_new = r.is_new
        /\ h.out = Append(r.out, [type |-> "DISCREQ", sn |-> r.sn_t, cs |-> r.cs_t,
                                  data |-> << >>, to |-> TRUE, sum |-> TRUE])
    BY <1>1, <1>3, <2>1 DEF sendDisconnectionRequest, Emit
  <2>3. /\ x.state = h.state /\ x.timeout_on = h.timeout_on /\ x.heartbeat_on = h.heartbeat_on
        /\ x.send_on = h.send_on /\ x.is_new = h.is_new /\ x.out = h.out
    BY <1>0, <1>1, <2>2 DEF Break
  <2> QED BY <2>1, <2>2, <2>3 DEF Replied
<1>4. CASE h = z
  <2>1. /\ k.sn_t = c.sn_t /\ k.sn_r = (p.sn + 1) % SnMod /\ k.cs_t = p.sn
        /\ k.cs_r = p.cs /\ k.send_on = c.send_on /\ k.is_new = c.is_new /\ k.out = c.out
        /\ DOMAIN k = DOMAIN c
    BY <1>1 DEF update_connection_attrs, Confirm
  <2> HIDE DEF k
  <2>2. q = [type |-> "HB", sn |-> c.sn_t, cs |-> p.sn, data |-> << >>, to |-> TRUE, sum |-> TRUE]
    BY <2>1
  <2> HIDE DEF q
  <2>3. /\ DOMAIN y = DOMAIN c /\ y.sn_t = k.sn_t /\ y.sn_r = k.sn_r /\ y.cs_t = k.cs_t
        /\ y.cs_r = k.cs_r /\ y.send_on = k.send_on /\ y.is_new = k.is_new /\ y.out = Append(k.out, q)
    BY <1>1, <2>1
  <2> HIDE DEF y
  <2>4. /\ DOMAIN z = DOMAIN c /\ z.sn_t = (y.sn_t + 1) % SnMod /\ z.sn_r = y.sn_r /\ z.cs_t = y.cs_t
        /\ z.cs_r = y.cs_r /\ z.send_on = y.send_on /\ z.is_new = y.is_new /\ z.out = y.out
    BY <1>1, <2>3
  <2> HIDE DEF z
  <2>5. /\ x.sn_t = h.sn_t /\ x.sn_r = h.sn_r /\ x.cs_t = h.cs_t /\ x.cs_r = h.cs_r
        /\ x.send_on = h.send_on /\ x.is_new = h.is_new /\ x.out = h.out
    BY <1>0, <1>1, <1>4, <2>4 DEF Break
  <2> QED BY <1>4, <2>1, <2>2, <2>3, <2>4, <2>5 DEF Replied
<1> QED BY <1>2, <1>3, <1>4

(* A link with one PDU.                                                    *)
LEMMA OnePdu ==
  ASSUME NEW q \in Pdu
  PROVE  /\ << >> \o Append(<< >>, q) = << q >> /\ << >> \o << >> = << >>
         /\ Head(<< q >>) = q /\ Tail(<< q >>) = << >> /\ << q >> # << >>
         /\ << q >> \in Seq(Pdu) /\ Len(<< q >>) = 1 /\ << q >>[1] = q
  OBVIOUS

(* An end whose number goes on from its first one.                         *)
LEMMA FirstNumber ==
  ASSUME NEW i \in Sn, i <= (i + 1) % SnMod
  PROVE  (i + 1) % SnMod = i + 1
<1>1. SnMod \in Nat /\ 3 < SnMod /\ i \in Int /\ 0 <= i /\ i < SnMod
  BY SnInt, MostFits DEF Most
<1>2. i + 1 < SnMod \/ i + 1 = SnMod
  BY <1>1
<1>3. ASSUME i + 1 = SnMod PROVE (i + 1) % SnMod = 0
  BY <1>1, <1>3
<1> QED BY <1>1, <1>2, <1>3

(* rasta_connect.                                                          *)
LEMMA ConnectOpens ==
  ASSUME CInv, Opening, NEW e \in Endpoint, RastaConnect(e), NoWrap
  PROVE  Opening' /\ \A f \in Endpoint : con'[f].out = << >>
<1> DEFINE c == con[Client]
           x == sr_connect(c)
           q == [type |-> "CONNREQ", sn |-> c.initial, cs |-> 0, data |-> << >>, to |-> TRUE, sum |-> TRUE]
<1>1. /\ e = Client /\ app[Client] = "start" /\ app' = [app EXCEPT ![Client] = "opening"]
      /\ con' = [con EXCEPT ![Client] = [x EXCEPT !.out = << >>]]
      /\ chan' = [chan EXCEPT ![Server] = @ \o x.out]
  BY Ends DEF RastaConnect, Do
<1>2. /\ c = NewConnection(c.initial) /\ con[Server] = NewConnection(con[Server].initial)
      /\ chan[Client] = << >> /\ chan[Server] = << >>
  BY <1>1, Ends DEF Opening, Before, Requested, Accepted, Refused, Asked
<1>3. /\ c \in Connection /\ Bounded(c) /\ TypeOK /\ con[Server].out = << >> /\ c.initial \in Sn
      /\ Client # Server
  <2>1. c \in Connection /\ Bounded(c)
    BY Ends, EndsBounded DEF CInv
  <2> QED BY <2>1, Ends, EndsDiffer DEF CInv, Connection
<1>4. x \in Connection
  BY <1>3, StartBounded, Zenon DEF Bounded
<1>5. /\ c.out = << >> /\ c.sn_r = 0 /\ c.cs_r = 0 /\ c.send_on = FALSE /\ c.is_new = FALSE
      /\ c.state = "CLOSED"
  <2>1. /\ NewConnection(c.initial).out = << >> /\ NewConnection(c.initial).sn_r = 0
        /\ NewConnection(c.initial).cs_r = 0 /\ NewConnection(c.initial).send_on = FALSE
        /\ NewConnection(c.initial).is_new = FALSE /\ NewConnection(c.initial).state = "CLOSED"
    BY DEF NewConnection
  <2> HIDE DEF c
  <2> QED BY <1>2, <2>1
<1>6. /\ x.state = "START" /\ x.initial = c.initial /\ x.sn_t = (c.initial + 1) % SnMod
      /\ x.sn_r = 0 /\ x.cs_t = 0 /\ x.cs_r = 0 /\ Dormant(x) /\ x.out = Append(<< >>, q)
  BY <1>3, <1>5, ConnectFields, Zenon DEF Dormant, Open
<1>7. q \in Pdu
  <2>1. c.initial \in Sn /\ 0 \in Sn
    BY <1>3, SnAssumption DEF Sn
  <2> HIDE DEF c
  <2> QED BY <2>1, EmptyData, Zenon DEF Pdu, Type
<1> HIDE DEF x, c, q
<1>8. Alike(x, con'[Client]) /\ con'[Client].out = << >> /\ con'[Server] = con[Server]
  <2>1. Alike(x, con'[Client]) /\ con'[Client].out = << >> /\ con'[Partner[Client]] = con[Partner[Client]]
    BY <1>1, <1>3, <1>4, Ends, EndAfter, Zenon
  <2> QED BY <2>1, Ends
<1>9. x.sn_t = c.initial + 1
  <2>1. con'[Client] # con[Client]
    BY <1>5, <1>6, <1>8 DEF Alike, c
  <2>2. c.initial <= con'[Client].sn_t
    BY <2>1, Ends DEF NoWrap, c
  <2>3. c.initial <= (c.initial + 1) % SnMod
    BY <1>6, <1>8, <2>2 DEF Alike
  <2> QED BY <1>3, <1>6, <2>3, FirstNumber
<1>10. chan'[Client] = << >> /\ chan'[Server] = << q >>
  <2>1. chan'[Client] = chan[Client] /\ chan'[Server] = chan[Server] \o x.out
    BY <1>1, <1>3, Ends, Zenon DEF TypeOK
  <2> QED BY <1>2, <1>6, <1>7, <2>1, OnePdu
<1>11. app'[Client] = "opening" /\ app'[Server] = app[Server]
  BY <1>1, <1>3, Ends DEF TypeOK
<1>12. Asked'
  BY <1>6, <1>8, <1>9, <1>11 DEF Asked, Alike
<1>13. Requested'
  <2>1. q = [type |-> "CONNREQ", sn |-> con'[Client].initial, cs |-> 0, data |-> << >>, to |-> TRUE, sum |-> TRUE]
    BY <1>6, <1>8 DEF q, Alike
  <2> QED BY <1>2, <1>8, <1>10, <1>12, <2>1 DEF Requested
<1>14. ASSUME NEW f \in Endpoint PROVE Passive(f)'
  <2>1. Dormant(con'[Client])
    BY <1>6, <1>8, AlikeDormant
  <2>2. Dormant(con'[Server]) /\ app'[Server] \in {"start", "opening", "done"}
    BY <1>8, <1>11, Ends DEF Opening, Passive
  <2> QED BY <1>11, <2>1, <2>2, Ends DEF Passive
<1> QED BY <1>3, <1>8, <1>13, <1>14, Ends DEF Opening

(* The end of a handshake that did not open the connection, and the time   *)
(* limit of the client.                                                    *)
LEMMA StillOpening ==
  ASSUME CInv, Opening, NEW e \in Endpoint, app[e] = "opening", NEW c \in Connection,
         Alike(con[e], c), c.out = << >>, Do(e, c), e = Client \/ con[e].brk = TRUE,
         app' = app \/ app' = [app EXCEPT ![e] = "done"]
  PROVE  Opening' /\ \A f \in Endpoint : con'[f].out = << >>
<1> DEFINE g == Partner[e]
<1>1. TypeOK /\ con[e] \in Connection /\ con[g].out = << >>
  BY Other, EndsBounded DEF CInv
<1>2. Alike(c, con'[e]) /\ con'[e].out = << >> /\ con'[g] = con[g]
  BY <1>1, EndAfter, Zenon DEF Do
<1>3. Alike(con[e], con'[e])
  BY <1>2 DEF Alike
<1>4. chan' = chan
  <2>1. chan[g] \in Seq(Pdu)
    BY <1>1, Other DEF TypeOK
  <2>2. chan[g] \o << >> = chan[g]
    BY <2>1, ConcatEmptySeq
  <2> QED BY <1>1, <2>2, Other DEF Do, TypeOK
<1>5. /\ app'[e] \in {"opening", "done"} /\ app'[g] = app[g]
      /\ app[Client] # "start" => app'[Client] # "start"
  <2>1. app \in [Endpoint -> {"start", "opening", "idle", "recv", "done"}] /\ g \in Endpoint /\ g # e
    BY <1>1, Other DEF TypeOK
  <2>2. CASE app' = app
    BY <2>2
  <2>3. CASE app' = [app EXCEPT ![e] = "done"]
    <3>1. app'[e] = "done" /\ \A f \in Endpoint : f # e => app'[f] = app[f]
      BY <2>1, <2>3
    <3> QED BY <2>1, <3>1, Ends
  <2> QED BY <2>2, <2>3
<1>6. ASSUME NEW f \in Endpoint PROVE Passive(f)'
  <2>1. CASE f = e
    BY <1>3, <1>5, <2>1, AlikeDormant DEF Opening, Passive
  <2>2. CASE f = g
    BY <1>2, <1>5, <2>2, Other DEF Opening, Passive
  <2> QED BY <2>1, <2>2, Other
<1>7. ASSUME NEW f \in Endpoint, con[f] = NewConnection(con[f].initial) PROVE f # e \/ e = Client
  <2>1. NewConnection(con[f].initial).brk = FALSE
    BY DEF NewConnection
  <2> QED BY <1>7, <2>1
<1>8. ~Before
  <2> SUFFICES ASSUME Before PROVE FALSE
    OBVIOUS
  <2>1. e = Client
    BY <1>7 DEF Before
  <2> QED BY <2>1 DEF Before
<1>9. ASSUME Asked PROVE Asked'
  <2>1. CASE e = Client
    BY <1>3, <1>5, <1>9, <2>1 DEF Asked, Alike
  <2>2. CASE e # Client
    <3>1. con'[Client] = con[Client]
      BY <1>2, <2>2, Ends
    <3> QED BY <1>5, <1>9, <3>1 DEF Asked
  <2> QED BY <2>1, <2>2
<1>10. con'[Client].initial = con[Client].initial /\ con'[Server].initial = con[Server].initial
  BY <1>2, <1>3, Ends, SMTT(30) DEF Alike
<1>11. ASSUME Requested PROVE Requested'
  <2>1. e = Client /\ con'[Server] = con[Server]
    BY <1>2, <1>7, <1>11, Ends DEF Requested
  <2>2. Asked'
    BY <1>9, <1>11 DEF Requested
  <2> QED BY <1>4, <1>10, <1>11, <2>1, <2>2, Zenon DEF Requested
<1>12. ASSUME Accepted PROVE Accepted'
  <2>1. Asked'
    BY <1>9, <1>12 DEF Accepted
  <2>2. Alike(con[Server], con'[Server])
    <3>1. CASE e = Server
      BY <1>3, <3>1
    <3>2. CASE e = Client
      BY <1>2, <3>2, Ends DEF Alike
    <3> QED BY <3>1, <3>2, Ends
  <2> QED BY <1>4, <1>10, <1>12, <2>1, <2>2 DEF Accepted, Alike
<1>13. ASSUME Refused PROVE Refused'
  BY <1>4, <1>5, <1>13 DEF Refused
<1>14. Opening'
  BY <1>6, <1>8, <1>11, <1>12, <1>13 DEF Opening
<1> QED BY <1>1, <1>2, <1>14, Other

(* rasta_accept.                                                           *)
LEMMA AcceptOpens ==
  ASSUME CInv, Opening, NEW e \in Endpoint, RastaAccept(e)
  PROVE  Opening' /\ \A f \in Endpoint : con'[f].out = << >>
<1>1. con' = con /\ chan' = chan /\ e = Server /\ app' = [app EXCEPT ![Server] = "opening"]
  BY DEF RastaAccept
<1>2. app'[Client] = app[Client] /\ app'[Server] = "opening"
  BY <1>1, Ends, EndsDiffer DEF CInv, TypeOK
<1>3. ASSUME NEW f \in Endpoint PROVE Passive(f)'
  BY <1>1, <1>2, Ends DEF Opening, Passive
<1>4. Before' \/ Requested' \/ Accepted' \/ Refused'
  BY <1>1, <1>2 DEF Opening, Before, Requested, Accepted, Refused, Asked
<1> QED BY <1>1, <1>3, <1>4 DEF Opening, CInv

\* what the server and the link are after e has handled a PDU
Handled(e, c) ==
  /\ Alike(c, con'[e]) /\ con'[e].out = << >>
  /\ con'[Partner[e]] = con[Partner[e]]
  /\ chan'[e] = Tail(chan[e]) /\ chan'[Partner[e]] = chan[Partner[e]] \o c.out
  /\ app' = app
  /\ \A f \in Endpoint : con'[f].out = << >>

(* A handler has run.                                                      *)
LEMMA HandleEnds ==
  ASSUME CInv, NEW e \in Endpoint, NEW p, NEW c \in Connection, NEW late, Handle(e, p, c, late)
  PROVE  Handled(e, c)
<1>1. TypeOK /\ Partner[e] \in Endpoint /\ Partner[e] # e /\ con[Partner[e]].out = << >>
  BY Other DEF CInv
<1>2. Alike(c, con'[e]) /\ con'[e].out = << >> /\ con'[Partner[e]] = con[Partner[e]]
  BY <1>1, EndAfter, Zenon DEF Handle
<1>3. chan'[e] = Tail(chan[e]) /\ chan'[Partner[e]] = chan[Partner[e]] \o c.out
  BY <1>1, Zenon DEF Handle, TypeOK
<1>4. app' = app
  BY DEF Handle
<1>5. \A f \in Endpoint : con'[f].out = << >>
  BY <1>1, <1>2, Other
<1> QED BY <1>2, <1>3, <1>4, <1>5 DEF Handled

(* The server handles the ConReq.                                          *)
LEMMA ConReqOpens ==
  ASSUME CInv, Opening, Requested, NEW p \in Pdu, p.type = "CONNREQ",
         p.sn = con[Client].initial, p.cs = 0, NEW accept,
         Handled(Server, handle_conreq(con[Server], p, accept)), NoWrap
  PROVE  Opening'
<1> DEFINE c == con[Server]
           x == handle_conreq(c, p, accept)
           q == [type |-> "CONNRESP", sn |-> c.initial, cs |-> p.sn, data |-> << >>, to |-> TRUE, sum |-> TRUE]
           r == [type |-> "CONNREQ", sn |-> con[Client].initial, cs |-> 0,
                 data |-> << >>, to |-> TRUE, sum |-> TRUE]
<1>1. /\ c \in Connection /\ con[Client] \in Connection /\ Client # Server
      /\ c.initial \in Sn /\ con[Client].initial \in Sn /\ con[Client].initial \in Int
      /\ con[Client].sn_t \in Int /\ con[Client].sn_t < SnMod /\ 0 <= con[Client].initial
  <2>1. c \in Connection /\ con[Client] \in Connection
    BY Ends, EndsBounded DEF CInv
  <2>2. c.initial \in Sn /\ con[Client].initial \in Sn
    BY <2>1 DEF Connection
  <2> QED BY <2>1, <2>2, EndsDiffer, SnInt, ConnectionFields
<1>2. c.state = "CLOSED" /\ c.send_on = FALSE /\ c.is_new = FALSE /\ c.out = << >>
  <2>1. /\ NewConnection(c.initial).state = "CLOSED" /\ NewConnection(c.initial).send_on = FALSE
        /\ NewConnection(c.initial).is_new = FALSE /\ NewConnection(c.initial).out = << >>
    BY DEF NewConnection
  <2>2. c = NewConnection(c.initial)
    BY DEF Requested
  <2> HIDE DEF c
  <2> QED BY <2>1, <2>2
<1>3. /\ x.initial = c.initial /\ x.timeout_on = FALSE /\ x.heartbeat_on = FALSE
      /\ x.send_on = FALSE /\ x.is_new = FALSE
      /\ \/ x.state = "CLOSED" /\ x.out = << >>
         \/ /\ x.state = "START" /\ x.sn_t = (c.initial + 1) % SnMod
            /\ x.sn_r = (p.sn + 1) % SnMod /\ x.cs_t = p.sn /\ x.cs_r = 0
            /\ x.out = Append(<< >>, q)
  <2>1. x = handle_conreq(c, p, accept)
    OBVIOUS
  <2> HIDE DEF x, c, q
  <2>2. Answered(c, p, x)
    BY <1>1, <1>2, <2>1, ConReqFields
  <2> QED BY <1>2, <2>2, Zenon DEF Answered, q
<1>4. /\ Alike(x, con'[Server]) /\ con'[Client] = con[Client] /\ app' = app
      /\ chan'[Server] = Tail(<< r >>) /\ chan'[Client] = << >> \o x.out
  BY Ends, Zenon DEF Handled, Requested
<1> HIDE DEF x
<1>5. r \in Pdu /\ q \in Pdu
  BY <1>1, SnAssumption, EmptyData, Zenon DEF Pdu, Type, Sn
<1> HIDE DEF r, q, c
<1>6. chan'[Server] = << >> /\ app'[Client] # "start" /\ Asked
  BY <1>4, <1>5, OnePdu, Zenon DEF Requested, Asked
<1>7. Dormant(x)
  BY <1>3 DEF Dormant, Open
<1>8. ASSUME NEW f \in Endpoint PROVE Passive(f)'
  <2>1. Dormant(con'[Server])
    BY <1>4, <1>7, AlikeDormant
  <2> QED BY <1>4, <2>1, Ends DEF Opening, Passive
<1>9. CASE x.state = "CLOSED" /\ x.out = << >>
  <2>1. chan'[Client] = << >>
    BY <1>4, <1>5, <1>9, OnePdu
  <2>2. Len(chan'[Server]) = 0
    BY <1>6
  <2>3. Refused'
    BY <1>6, <2>1, <2>2 DEF Refused
  <2> QED BY <1>8, <2>3 DEF Opening
<1>10. CASE /\ x.state = "START" /\ x.sn_t = (c.initial + 1) % SnMod
            /\ x.sn_r = (p.sn + 1) % SnMod /\ x.cs_t = p.sn /\ x.cs_r = 0
            /\ x.out = Append(<< >>, q)
  <2>1. chan'[Client] = << q >>
    BY <1>4, <1>5, <1>10, OnePdu
  <2>2. x.sn_t = c.initial + 1
    <3>1. con'[Server] # con[Server]
      BY <1>2, <1>4, <1>10 DEF Alike, c
    <3>2. c.initial <= con'[Server].sn_t
      BY <3>1, Ends DEF NoWrap, c
    <3>3. c.initial <= (c.initial + 1) % SnMod
      BY <1>4, <1>10, <3>2 DEF Alike
    <3> QED BY <1>1, <1>10, <3>3, FirstNumber
  <2>3. x.sn_r = con[Client].initial + 1
    <3>1. con[Client].initial + 1 < SnMod
      BY <1>1, <1>6 DEF Asked
    <3> QED BY <1>1, <1>10, <3>1, SnInt
  <2>4. q = [type |-> "CONNRESP", sn |-> con'[Server].initial, cs |-> con'[Client].initial,
             data |-> << >>, to |-> TRUE, sum |-> TRUE]
    BY <1>3, <1>4 DEF Alike, q
  <2>5. Asked'
    BY <1>4, <1>6 DEF Asked
  <2>6. Accepted'
    BY <1>3, <1>4, <1>6, <1>10, <2>1, <2>2, <2>3, <2>4, <2>5 DEF Accepted, Alike
  <2> QED BY <1>8, <2>6 DEF Opening
<1> QED BY <1>3, <1>9, <1>10

(* The client handles the ConResp.                                         *)
LEMMA ConRespOpens ==
  ASSUME CInv, Opening, Accepted, NEW p \in Pdu, p.type = "CONNRESP",
         p.sn = con[Server].initial, p.cs = con[Client].initial, NEW accept,
         Handled(Client, Break(handle_conresp(con[Client], p, TRUE, accept))), NoWrap
  PROVE  (Opening \/ Established)'
<1> DEFINE c == con[Client]
           d == con[Server]
           x == Break(handle_conresp(c, p, TRUE, accept))
           q == [type |-> "DISCREQ", sn |-> c.sn_t, cs |-> c.cs_t, data |-> << >>, to |-> TRUE, sum |-> TRUE]
           h == [type |-> "HB", sn |-> c.sn_t, cs |-> p.sn, data |-> << >>, to |-> TRUE, sum |-> TRUE]
           r == [type |-> "CONNRESP", sn |-> con[Server].initial, cs |-> con[Client].initial,
                 data |-> << >>, to |-> TRUE, sum |-> TRUE]
<1>1. /\ c \in Connection /\ d \in Connection /\ Client # Server /\ c.out = << >>
      /\ c.initial \in Sn /\ d.initial \in Sn /\ c.initial \in Int /\ d.initial \in Int
      /\ c.sn_t \in Sn /\ c.sn_t \in Int /\ d.sn_t \in Int /\ d.sn_t < SnMod
      /\ 0 <= c.initial /\ 0 <= d.initial /\ c.cs_t \in Sn /\ c.sn_t < SnMod /\ 0 <= c.sn_t
  <2>1. c \in Connection /\ d \in Connection /\ c.out = << >>
    BY Ends, EndsBounded DEF CInv
  <2>2. c.initial \in Sn /\ d.initial \in Sn
    BY <2>1 DEF Connection
  <2> QED BY <2>1, <2>2, EndsDiffer, SnInt, ConnectionFields
<1>2. /\ c.state = "START" /\ c.send_on = FALSE /\ c.is_new = FALSE /\ c.sn_t = c.initial + 1
      /\ d.sn_t = d.initial + 1 /\ d.sn_r = c.initial + 1 /\ d.cs_t = c.initial /\ d.cs_r = 0
      /\ app[Client] # "start" /\ chan[Server] = << >> /\ chan[Client] = << r >>
  BY Ends, Zenon DEF Accepted, Asked, Opening, Passive, Dormant
<1>3. /\ x.send_on = FALSE /\ x.is_new = FALSE
      /\ \/ /\ x.state = "CLOSED" /\ x.timeout_on = FALSE /\ x.heartbeat_on = FALSE
            /\ x.out = Append(<< >>, q)
         \/ /\ x.sn_t = (c.sn_t + 1) % SnMod
            /\ x.sn_r = (p.sn + 1) % SnMod /\ x.cs_t = p.sn /\ x.cs_r = p.cs
            /\ x.out = Append(<< >>, h)
  <2>1. x = Break(handle_conresp(c, p, TRUE, accept))
    OBVIOUS
  <2> HIDE DEF x, c, q, h
  <2>2. Replied(c, p, x)
    BY <1>1, <1>2, <2>1, ConRespFields, Zenon
  <2> QED BY <1>1, <1>2, <2>2, Zenon DEF Replied, q, h
<1>4. /\ Alike(x, con'[Client]) /\ con'[Server] = con[Server] /\ app' = app
      /\ chan'[Client] = Tail(<< r >>) /\ chan'[Server] = << >> \o x.out
  BY <1>2, Ends, Zenon DEF Handled
<1> HIDE DEF x
<1>5. r \in Pdu /\ q \in Pdu /\ h \in Pdu
  BY <1>1, EmptyData DEF Pdu, Type
<1>6. q.type = "DISCREQ" /\ h.sn = c.sn_t /\ h.cs = d.initial /\ Plain(h)
  BY Zenon DEF Plain
<1> HIDE DEF r, q, h, c, d
<1>7. chan'[Client] = << >> /\ app'[Client] # "start"
  BY <1>2, <1>4, <1>5, OnePdu, Zenon
<1>8. CASE /\ x.state = "CLOSED" /\ x.timeout_on = FALSE /\ x.heartbeat_on = FALSE
           /\ x.out = Append(<< >>, q)
  <2>1. chan'[Server] = << q >> /\ Len(<< q >>) = 1 /\ << q >>[1] = q
    BY <1>4, <1>5, <1>8, OnePdu
  <2>2. ASSUME NEW i \in 1..Len(chan'[Server]) PROVE chan'[Server][i].type = "DISCREQ"
    <3>1. i = 1
      <4>1. i \in 1..1
        BY <2>1, Zenon
      <4> QED BY <4>1
    <3> QED BY <1>6, <2>1, <3>1, Zenon
  <2>3. Refused'
    BY <1>7, <2>2 DEF Refused
  <2>4. Dormant(x)
    BY <1>3, <1>8 DEF Dormant, Open
  <2>5. ASSUME NEW f \in Endpoint PROVE Passive(f)'
    <3>1. Dormant(con'[Client])
      BY <1>4, <2>4, AlikeDormant
    <3> QED BY <1>4, <3>1, Ends DEF Opening, Passive
  <2> QED BY <2>3, <2>5, Zenon DEF Opening
<1>9. CASE /\ x.sn_t = (c.sn_t + 1) % SnMod
           /\ x.sn_r = (p.sn + 1) % SnMod /\ x.cs_t = p.sn /\ x.cs_r = p.cs
           /\ x.out = Append(<< >>, h)
  <2>1. chan'[Server] = << h >> /\ Len(<< h >>) = 1 /\ << h >>[1] = h
    BY <1>4, <1>5, <1>9, OnePdu
  <2>2. x.sn_r = d.initial + 1 /\ x.cs_t = d.initial /\ x.cs_r = c.initial
    <3>1. d.initial + 1 < SnMod
      BY <1>1, <1>2
    <3>2. d.initial + 1 \in 0..(SnMod - 1) /\ SnMod \in Nat \ {0}
      BY <1>1, <3>1, SnInt
    <3>3. (d.initial + 1) % SnMod = d.initial + 1
      BY <3>2
    <3>4. p.sn = d.initial /\ p.cs = c.initial
      BY DEF c, d
    <3> QED BY <1>9, <3>3, <3>4
  <2>3. x.sn_t = c.initial + 2
    <3>1. c.sn_t <= (c.sn_t + 1) % SnMod
      <4>1. con'[Client].sn_t = (c.sn_t + 1) % SnMod
        BY <1>4, <1>9 DEF Alike
      <4>2. con'[Client] # c => c.sn_t <= con'[Client].sn_t
        BY Ends DEF NoWrap, c
      <4>3. con'[Client] = c => c.sn_t <= con'[Client].sn_t
        BY <1>1
      <4> QED BY <4>1, <4>2, <4>3
    <3>2. x.sn_t = c.sn_t + 1
      BY <1>1, <1>9, <3>1, FirstNumber
    <3> QED BY <1>1, <1>2, <3>2
  <2>4. Between(<< h >>, c.initial + 1, c.initial + 2, 0, d.initial)
    <3>1. /\ c.initial + 1 <= c.initial + 2 /\ c.initial + 1 < c.initial + 2
          /\ c.initial + 1 <= c.initial + 1 /\ 0 <= d.initial /\ d.initial <= d.initial
      BY <1>1
    <3>2. InOrder(<< h >>)
      BY <2>1 DEF InOrder
    <3>3. \A i \in 1..Len(<< h >>) : << h >>[i] = h
      BY <2>1
    <3> QED BY <1>2, <1>6, <3>1, <3>2, <3>3 DEF Between
  <2>5. Between(<< >>, d.initial + 1, d.initial + 1, c.initial, c.initial)
    <3>1. 1..Len(<< >>) = {} /\ d.initial + 1 <= d.initial + 1 /\ c.initial <= c.initial
      BY <1>1
    <3> QED BY <3>1 DEF Between, InOrder
  <2>6. /\ con'[Client].sn_r = d.initial + 1 /\ con'[Client].cs_t = d.initial
        /\ con'[Client].cs_r = c.initial /\ con'[Client].sn_t = c.initial + 2
        /\ con'[Server].sn_r = c.initial + 1 /\ con'[Server].cs_t = c.initial
        /\ con'[Server].cs_r = 0 /\ con'[Server].sn_t = d.initial + 1
    BY <1>2, <1>4, <2>2, <2>3 DEF Alike, d
  <2>7. ASSUME NEW g \in Endpoint
        PROVE  /\ con'[g].sn_r = con'[g].cs_t + 1
               /\ Between(chan'[g], con'[g].sn_r, con'[Partner[g]].sn_t,
                                    con'[g].cs_r, con'[Partner[g]].cs_t)
    <3>1. CASE g = Client
      BY <1>7, <2>5, <2>6, <3>1, Ends, Zenon
    <3>2. CASE g = Server
      BY <2>1, <2>4, <2>6, <3>2, Ends, Zenon
    <3> QED BY <3>1, <3>2, Ends
  <2> QED BY <1>7, <2>7 DEF Established
<1> QED BY <1>3, <1>8, <1>9, Zenon

(* After a refusal only Disconnection Requests are handled.                *)
LEMMA RefusedReceives ==
  ASSUME CInv, Opening, Refused, NEW c \in Connection, Dormant(c), c.out = << >>,
         chan[Server] # << >>, Handled(Server, c)
  PROVE  Opening'
<1>1. /\ Alike(c, con'[Server]) /\ con'[Client] = con[Client] /\ app' = app
      /\ chan'[Server] = Tail(chan[Server]) /\ chan'[Client] = << >> \o << >>
  BY Ends DEF Handled, Refused
<1>2. chan[Server] \in Seq(Pdu)
  BY Ends DEF CInv, TypeOK
<1>3. \A i \in 1..Len(chan'[Server]) : chan'[Server][i].type = "DISCREQ"
  <2>1. /\ Len(chan[Server]) \in Nat /\ Len(Tail(chan[Server])) = Len(chan[Server]) - 1
        /\ \A i \in 1..(Len(chan[Server]) - 1) : Tail(chan[Server])[i] = chan[Server][i + 1]
    BY <1>2, HeadTailProperties
  <2>2. ASSUME NEW i \in 1..Len(Tail(chan[Server])) PROVE Tail(chan[Server])[i].type = "DISCREQ"
    <3>1. i + 1 \in 1..Len(chan[Server]) /\ Tail(chan[Server])[i] = chan[Server][i + 1]
      BY <2>1
    <3> QED BY <3>1 DEF Refused
  <2> QED BY <1>1, <2>2
<1>4. Refused'
  <2>1. chan'[Client] = << >>
    BY <1>1
  <2> QED BY <1>1, <1>3, <2>1 DEF Refused
<1>5. ASSUME NEW f \in Endpoint PROVE Passive(f)'
  <2>1. Dormant(con'[Server])
    BY <1>1, AlikeDormant
  <2> QED BY <1>1, <2>1, Ends DEF Opening, Passive
<1> QED BY <1>4, <1>5 DEF Opening

(* The next PDU of a connection that is not established.                   *)
LEMMA ReceiveOpening ==
  ASSUME CInv, Opening, NEW e \in Endpoint, Receive(e), NoWrap
  PROVE  (Opening \/ Established)' /\ \A f \in Endpoint : con'[f].out = << >>
<1>1. chan[e] # << >>
  BY Zenon DEF Receive, ReceiveConReq, ReceiveConResp, ReceiveRejected, ReceiveData, ReceiveRetrReq,
         ReceiveRetrResp, ReceiveRetrData, ReceiveHb, ReceiveDiscReq, Incoming
<1>2. Bounded(con[e]) /\ con[e] \in Connection /\ TypeOK /\ con[e].out = << >> /\ chan[e] \in Seq(Pdu)
  BY EndsBounded DEF CInv
<1>3. \A p \in Arrivals(e) : /\ p \in Pdu /\ p.sn = Head(chan[e]).sn /\ p.cs = Head(chan[e]).cs
                             /\ p.type = Head(chan[e]).type
  BY <1>1, <1>2, ArrivalsArePdus, ArrivalNumbers
<1>4. ~Before
  BY <1>1 DEF Before
<1>5. CASE Requested
  <2> DEFINE r == [type |-> "CONNREQ", sn |-> con[Client].initial, cs |-> 0,
                   data |-> << >>, to |-> TRUE, sum |-> TRUE]
  <2>1. e = Server /\ chan[e] = << r >>
    BY <1>1, <1>5, Ends DEF Requested
  <2>2. Head(chan[e]) = r
    <3> HIDE DEF r
    <3> QED BY <2>1
  <2>3. r.sn = con[Client].initial /\ r.cs = 0 /\ r.type = "CONNREQ"
    OBVIOUS
  <2> HIDE DEF r
  <2>4. Head(chan[e]).sn = con[Client].initial /\ Head(chan[e]).cs = 0 /\ Head(chan[e]).type = "CONNREQ"
    BY <2>2, <2>3
  <2>5. ReceiveConReq(e)
    BY <1>3, <2>4, Zenon DEF Receive, ReceiveConResp, ReceiveRejected, ReceiveData, ReceiveRetrReq,
         ReceiveRetrResp, ReceiveRetrData, ReceiveHb, ReceiveDiscReq
  <2>6. PICK p \in Arrivals(e), accept \in VersionVerdicts :
          Handle(e, p, handle_conreq(con[e], p, accept), FALSE)
    BY <2>5, Zenon DEF ReceiveConReq
  <2>7. handle_conreq(con[e], p, accept) \in Connection
    BY <1>2, <1>3, ConReqBounded DEF Bounded
  <2>8. Handled(e, handle_conreq(con[e], p, accept))
    BY <2>6, <2>7, HandleEnds, Zenon
  <2>9. Opening'
    BY <1>3, <1>5, <2>1, <2>4, <2>8, ConReqOpens
  <2> QED BY <2>8, <2>9 DEF Handled
<1>6. CASE Accepted
  <2> DEFINE r == [type |-> "CONNRESP", sn |-> con[Server].initial, cs |-> con[Client].initial,
                   data |-> << >>, to |-> TRUE, sum |-> TRUE]
  <2>1. e = Client /\ chan[e] = << r >>
    BY <1>1, <1>6, Ends DEF Accepted
  <2>2. Head(chan[e]) = r
    <3> HIDE DEF r
    <3> QED BY <2>1
  <2>3. r.sn = con[Server].initial /\ r.cs = con[Client].initial /\ r.type = "CONNRESP"
    OBVIOUS
  <2> HIDE DEF r
  <2>4. /\ Head(chan[e]).sn = con[Server].initial /\ Head(chan[e]).cs = con[Client].initial
        /\ Head(chan[e]).type = "CONNRESP"
    BY <2>2, <2>3
  <2>5. ReceiveConResp(e)
    BY <1>3, <2>4, Zenon DEF Receive, ReceiveConReq, ReceiveRejected, ReceiveData, ReceiveRetrReq,
         ReceiveRetrResp, ReceiveRetrData, ReceiveHb, ReceiveDiscReq
  <2>6. PICK p \in Arrivals(e), accept \in VersionVerdicts :
          Handle(e, p, Break(handle_conresp(con[e], p, e = Client, accept)), FALSE)
    BY <2>5, Zenon DEF ReceiveConResp
  <2>7. (e = Client) = TRUE
    BY <2>1
  <2>8. Break(handle_conresp(con[e], p, e = Client, accept)) \in Connection
    BY <1>2, <1>3, ConRespBounded, BreakBounded DEF Bounded
  <2>9. Handled(e, Break(handle_conresp(con[e], p, e = Client, accept)))
    BY <2>6, <2>8, HandleEnds, Zenon
  <2>10. Handled(Client, Break(handle_conresp(con[Client], p, TRUE, accept)))
    BY <2>1, <2>7, <2>9, Zenon
  <2>11. (Opening \/ Established)'
    BY <1>3, <1>6, <2>4, <2>10, ConRespOpens, Zenon
  <2> QED BY <2>9, <2>11 DEF Handled
<1>7. CASE Refused
  <2>1. e = Server /\ Dormant(con[e])
    BY <1>1, <1>7, Ends DEF Refused, Opening, Passive
  <2>2. Head(chan[e]).type = "DISCREQ"
    <3>1. 1 \in 1..Len(chan[e]) /\ Head(chan[e]) = chan[e][1]
      BY <1>1, <1>2, HeadTailProperties
    <3> QED BY <1>7, <2>1, <3>1 DEF Refused
  <2>3. PICK p \in Arrivals(e), c \in {con[e], handle_discreq(con[e])} : Handle(e, p, c, FALSE)
    <3>1. ReceiveRejected(e) \/ ReceiveDiscReq(e)
      BY <1>3, <2>2, Zenon DEF Receive, ReceiveConReq, ReceiveConResp, ReceiveData, ReceiveRetrReq,
           ReceiveRetrResp, ReceiveRetrData, ReceiveHb
    <3> QED BY <3>1, Zenon DEF ReceiveRejected, ReceiveDiscReq
  <2>4. c \in Connection /\ Dormant(c) /\ c.out = << >>
    <3>1. CASE c = con[e]
      BY <1>2, <2>1, <3>1
    <3>2. CASE c = handle_discreq(con[e])
      <4>1. c \in Connection
        BY <1>2, <3>2, CloseBounded, BreakBounded DEF handle_discreq, Bounded
      <4>2. /\ c.state = "CLOSED" /\ c.timeout_on = FALSE /\ c.heartbeat_on = FALSE
            /\ c.send_on = con[e].send_on /\ c.is_new = con[e].is_new /\ c.out = con[e].out
        BY <1>2, <3>2 DEF handle_discreq, Break, sr_reset_connection, Connection
      <4> QED BY <1>2, <2>1, <4>1, <4>2 DEF Dormant, Open
    <3> QED BY <3>1, <3>2
  <2>5. Handled(e, c)
    BY <2>3, <2>4, HandleEnds, Zenon
  <2>6. Opening'
    BY <1>1, <1>7, <2>1, <2>4, <2>5, RefusedReceives
  <2> QED BY <2>5, <2>6, Zenon DEF Handled
<1> QED BY <1>4, <1>5, <1>6, <1>7 DEF Opening

(* Every step of a connection that is not established.                     *)
LEMMA NextOpening ==
  ASSUME CInv, Opening, Next, NoWrap
  PROVE  (Opening \/ Established)' /\ \A f \in Endpoint : con'[f].out = << >>
<1>1. PICK e \in Endpoint :
        \/ Receive(e) \/ TimeoutExpires(e) \/ HeartbeatDue(e) \/ SendDue(e)
        \/ HandshakeTimeout(e) \/ RastaConnect(e) \/ RastaAccept(e) \/ Return(e)
        \/ RastaSend(e) \/ RastaDisconnect(e)
  BY DEF Next
<1>2. Dormant(con[e]) /\ app[e] \in {"start", "opening", "done"}
  BY DEF Opening, Passive
<1>3. con[e] \in Connection /\ con[e].out = << >>
  BY EndsBounded DEF CInv
<1>4. ~TimeoutExpires(e) /\ ~HeartbeatDue(e) /\ ~SendDue(e) /\ ~RastaSend(e) /\ ~RastaDisconnect(e)
  BY <1>2 DEF TimeoutExpires, HeartbeatDue, SendDue, RastaSend, RastaDisconnect, Dormant
<1>5. CASE Receive(e)
  BY <1>5, ReceiveOpening
<1>6. CASE HandshakeTimeout(e)
  <2> DEFINE c == Break(con[e])
  <2>1. c \in Connection /\ Alike(con[e], c) /\ c.out = << >>
    BY <1>3, Zenon DEF Break, Connection, Alike
  <2>2. app[e] = "opening" /\ e = Client /\ app' = app /\ Do(e, c)
    BY <1>6 DEF HandshakeTimeout
  <2> HIDE DEF c
  <2> QED BY <2>1, <2>2, StillOpening, Zenon
<1>7. CASE RastaConnect(e)
  BY <1>7, ConnectOpens
<1>8. CASE RastaAccept(e)
  BY <1>8, AcceptOpens
<1>9. CASE Return(e)
  <2> DEFINE c == [con[e] EXCEPT !.brk = FALSE, !.is_new = FALSE]
  <2>1. OpeningReturns(e)
    BY <1>2, <1>9 DEF Return, RastaRecvMessage, RastaRecvWaits, RastaRecvFails
  <2>2. c \in Connection /\ Alike(con[e], c) /\ c.out = << >>
    BY <1>2, <1>3, Zenon DEF Connection, Alike, Dormant
  <2>3. app' = [app EXCEPT ![e] = "done"]
    BY <1>2, <2>1, Zenon DEF OpeningReturns, Dormant, Open
  <2>4. app[e] = "opening" /\ con[e].brk = TRUE /\ Do(e, c)
    <3>1. app[e] = "opening" /\ con[e].brk /\ Do(e, c)
      BY <2>1 DEF OpeningReturns
    <3>2. con[e].brk \in BOOLEAN
      BY <1>3 DEF Connection
    <3> HIDE DEF c
    <3> QED BY <3>1, <3>2
  <2> HIDE DEF c
  <2> QED BY <2>2, <2>3, <2>4, StillOpening, Zenon
<1> QED BY <1>1, <1>4, <1>5, <1>6, <1>7, <1>8, <1>9, Zenon

-----------------------------------------------------------------------------
(* The invariant and what follows from it.                                 *)

(* A new connection.                                                       *)
LEMMA NewFields ==
  ASSUME NEW n
  PROVE  NewConnection(n).initial = n /\ NewConnection(n).out = << >> /\ Dormant(NewConnection(n))
<1> DEFINE c == NewConnection(n)
<1>1. /\ c.initial = n /\ c.out = << >> /\ c.state = "CLOSED" /\ c.timeout_on = FALSE
      /\ c.heartbeat_on = FALSE /\ c.send_on = FALSE /\ c.is_new = FALSE
  BY DEF NewConnection
<1> HIDE DEF c
<1>2. Dormant(c)
  BY <1>1 DEF Dormant, Open
<1> QED BY <1>1, <1>2 DEF c

(* The connections that rasta_lib_init_configuration makes.                *)
LEMMA InitNumbers == Init => CInv
<1> SUFFICES ASSUME Init PROVE CInv
  OBVIOUS
<1>1. TypeOK /\ QueuesBounded
  BY InitKeeps
<1>2. PICK initial \in InitialSns : con = [e \in Endpoint |-> NewConnection(initial[e])]
  BY DEF Init
<1>3. ASSUME NEW e \in Endpoint
      PROVE  /\ con[e] = NewConnection(con[e].initial) /\ con[e].out = << >> /\ Passive(e)
             /\ chan[e] = << >>
  <2>1. con[e] = NewConnection(initial[e])
    BY <1>2
  <2>2. con[e].initial = initial[e] /\ con[e].out = << >> /\ Dormant(con[e])
    BY <2>1, NewFields, Zenon
  <2> QED BY <2>1, <2>2 DEF Init, Passive
<1>4. app[Client] = "start"
  BY Ends DEF Init
<1>5. Before
  BY <1>3, <1>4 DEF Before
<1> QED BY <1>1, <1>3, <1>5 DEF CInv, Opening

(* Every step in which no number wraps around.                             *)
LEMMA NextNumbers ==
  ASSUME CInv, [Next]_vars, [NoWrap]_vars
  PROVE  CInv'
<1>1. CASE UNCHANGED vars
  <2>1. con' = con /\ chan' = chan /\ app' = app
    BY <1>1 DEF vars
  <2>2. TypeOK' /\ QueuesBounded'
    BY NextKeeps DEF CInv
  <2>3. (Opening \/ Established)'
    BY <2>1, Zenon DEF CInv, Opening, Established, Passive, Before, Requested, Accepted, Refused, Asked
  <2> QED BY <2>1, <2>2, <2>3 DEF CInv
<1>2. CASE Next /\ NoWrap
  <2>1. TypeOK' /\ QueuesBounded'
    BY NextKeeps DEF CInv
  <2>2. (Opening \/ Established)' /\ \A f \in Endpoint : con'[f].out = << >>
    BY <1>2, NextOpening, NextEstablished DEF CInv
  <2> QED BY <2>1, <2>2 DEF CInv
<1> QED BY <1>1, <1>2

(* What the invariant says of an end that is open.                         *)
LEMMA OpenNumbers ==
  ASSUME CInv, NEW e \in Endpoint, con[e].state \in Open
  PROVE  LET f == Partner[e]
         IN /\ Between(chan[e], con[e].sn_r, con[f].sn_t, con[e].cs_r, con[f].cs_t)
            /\ con[e].cs_r <= con[f].cs_t /\ con[f].cs_t < con[f].sn_r /\ con[f].sn_r <= con[e].sn_t
            /\ con[e].cs_r \in Int /\ con[e].sn_t \in Int /\ con[e].sn_r \in Int
            /\ con[f].sn_r \in Int /\ con[f].cs_t \in Int /\ con[f].sn_t \in Int
            /\ con[e].sn_t < SnMod /\ 0 <= con[e].cs_r /\ chan[e] \in Seq(Pdu)
<1> DEFINE f == Partner[e]
<1>1. Established
  BY DEF CInv, Opening, Passive, Dormant
<1>2. con[e] \in Connection /\ con[f] \in Connection /\ chan[e] \in Seq(Pdu)
  BY Other, EndsBounded DEF CInv
<1>3. /\ con[e].cs_r \in Int /\ con[e].sn_t \in Int /\ con[e].sn_r \in Int
      /\ con[f].sn_r \in Int /\ con[f].cs_t \in Int /\ con[f].sn_t \in Int
      /\ con[e].sn_t < SnMod /\ 0 <= con[e].cs_r
  BY <1>2, ConnectionFields, SnInt
<1>4. /\ Between(chan[e], con[e].sn_r, con[f].sn_t, con[e].cs_r, con[f].cs_t)
      /\ Between(chan[f], con[f].sn_r, con[e].sn_t, con[f].cs_r, con[e].cs_t)
  BY <1>1, Other DEF Established
<1>5. con[e].cs_r <= con[f].cs_t /\ con[f].sn_r <= con[e].sn_t
  BY <1>4, Zenon DEF Between
<1>6. con[f].cs_t < con[f].sn_r
  <2>1. con[f].sn_r = con[f].cs_t + 1
    BY <1>1, Other DEF Established
  <2> HIDE DEF f
  <2> QED BY <1>3, <2>1
<1> QED BY <1>2, <1>3, <1>4, <1>5, <1>6, Zenon

(* For every configuration: as long as no sequence number wraps around, an *)
(* end never takes a PDU as confirmed that the peer has not processed, so  *)
(* that sr_remove_confirmed_messages drops from fifo_retr only what need   *)
(* not be retransmitted, and the peer never expects a PDU that was not     *)
(* sent.                                                                   *)
THEOREM ConfirmationsAreSound == Spec /\ [][NoWrap]_vars => []ConfirmationsSound
<1>1. CInv /\ [Next]_vars /\ [NoWrap]_vars => CInv'
  BY NextNumbers
<1>2. ASSUME CInv PROVE ConfirmationsSound
  <2>1. ASSUME NEW e \in Endpoint, con[e].state \in Open
        PROVE  /\ con[e].cs_r < con[Partner[e]].sn_r /\ con[Partner[e]].sn_r <= con[e].sn_t
               /\ con[e].cs_r < con[e].sn_t
    <3>1. LET f == Partner[e]
          IN /\ con[e].cs_r <= con[f].cs_t /\ con[f].cs_t < con[f].sn_r /\ con[f].sn_r <= con[e].sn_t
             /\ con[e].cs_r \in Int /\ con[e].sn_t \in Int /\ con[f].sn_r \in Int /\ con[f].cs_t \in Int
      BY <1>2, <2>1, OpenNumbers
    <3> QED BY <3>1
  <2> QED BY <2>1 DEF ConfirmationsSound
<1> QED BY <1>1, <1>2, InitNumbers, PTL DEF Spec

(* For every configuration: the range checks of sr_receive discard an      *)
(* undamaged PDU of the peer only if one end is more than SnWindow PDUs    *)
(* ahead of the other or a sequence number has wrapped around, whatever    *)
(* was lost or retransmitted before it.                                    *)
THEOREM GenuinePduPasses == Spec /\ [][NoWrap]_vars => [](InWindow => GenuinePasses)
<1>1. CInv /\ [Next]_vars /\ [NoWrap]_vars => CInv'
  BY NextNumbers
<1>2. ASSUME CInv, InWindow PROVE GenuinePasses
  <2>1. ASSUME NEW e \in Endpoint, con[e].state \in Open, chan[e] # << >>
        PROVE  Passes(con[e], Head(chan[e]))
    <3> DEFINE c == con[e]
               d == con[Partner[e]]
               p == Head(chan[e])
    <3>1. /\ Between(chan[e], c.sn_r, d.sn_t, c.cs_r, d.cs_t)
          /\ c.cs_r <= d.cs_t /\ d.cs_t < d.sn_r /\ d.sn_r <= c.sn_t
          /\ c.cs_r \in Int /\ c.sn_t \in Int /\ c.sn_r \in Int
          /\ d.sn_r \in Int /\ d.cs_t \in Int /\ d.sn_t \in Int
          /\ c.sn_t < SnMod /\ 0 <= c.cs_r /\ chan[e] \in Seq(Pdu)
      BY <1>2, <2>1, OpenNumbers, Zenon
    <3>2. d.sn_t - c.sn_r <= SnWindow
      BY <1>2 DEF InWindow
    <3>3. 1 \in 1..Len(chan[e]) /\ p = chan[e][1] /\ p \in Pdu
      BY <2>1, <3>1, HeadTailProperties, ElementOfSeq, SMTT(30)
    <3>4. p.sn \in Int /\ p.cs \in Int
      BY <3>3, PduFields
    <3>5. /\ Plain(p) /\ c.sn_r <= p.sn /\ p.sn <= d.sn_t /\ c.cs_r <= p.cs /\ p.cs <= d.cs_t
      BY <3>1, <3>3 DEF Between
    <3> HIDE DEF c, d, p
    <3>6. p.sum /\ sr_message_authentic(p)
      BY <3>5 DEF Plain, sr_message_authentic
    <3>7. sr_sn_range_valid(c, p)
      <4>1. p.sn >= c.sn_r /\ p.sn - c.sn_r <= SnWindow
        BY <3>1, <3>2, <3>4, <3>5, SnAssumption
      <4> QED BY <4>1 DEF sr_sn_range_valid
    <3>8. sr_cs_valid(c, p)
      <4>1. c.sn_t - c.cs_r \in 0..(SnMod - 1) /\ SnMod \in Nat \ {0}
        BY <3>1, SnInt
      <4>2. (c.sn_t - c.cs_r) % SnMod = c.sn_t - c.cs_r
        BY <4>1
      <4>3. p.cs >= c.cs_r /\ p.cs - c.cs_r < c.sn_t - c.cs_r
        BY <3>1, <3>4, <3>5
      <4> QED BY <3>5, <4>2, <4>3 DEF sr_cs_valid, Plain
    <3>9. Passes(c, p)
      BY <3>6, <3>7, <3>8 DEF Passes
    <3> QED BY <3>9 DEF c, p
  <2> QED BY <2>1 DEF GenuinePasses
<1> QED BY <1>1, <1>2, InitNumbers, PTL DEF Spec
=============================================================================

------------------------- MODULE TransportChannels -------------------------
(***************************************************************************)
(* The transport channels of one end over TCP (transport/tcp_base.c, tcp.c *)
(* and bsd_utils.c): its descriptors, the channels and sockets that hold   *)
(* them, and the fd events that watch them.  A connection that is lost is  *)
(* seen as the end of the stream, a client dials again when it next sends, *)
(* a server accepts again.  The peer and the network are the environment;  *)
(* of the layer above, what it does to the channels is kept.               *)
(***************************************************************************)
EXTENDS Integers, FiniteSets, FiniteSetsExt

CONSTANTS N,           \* transport channels, and as many transport sockets
          Descriptors, \* bound: how many descriptors the process may have
          MaxMishaps,  \* bound: connections lost, refused or replaced
          MaxDials,    \* bound: connections a peer opens to a server
          Listens      \* the kinds of program: whether it calls rasta_listen

VARIABLES p,        \* the process, see Process
          call,     \* the call the application is in; between calls, none, or has
                    \* when it has a connection it has not disconnected
          at,       \* event the walk of event_system_sleep is at, 0: in select
          ready,    \* the descriptors select reported
          dials     \* connections the peer opened

vars == <<p, call, at, ready, dials>>

ASSUME BoundsAssumption ==
    /\ N \in Nat \ {0} /\ Descriptors \in Nat /\ Descriptors >= N
    /\ MaxMishaps \in Nat /\ MaxDials \in Nat
    /\ Listens \subseteq BOOLEAN

Channel == 1..N
Fd == 0..(Descriptors - 1)
None == -1
Status == {"free", "fresh", "quiet", "readable", "eof"}

\* What the library and the kernel know of this process.  A descriptor is free,
\* fresh from socket(), or a connection or listening socket that is quiet or
\* readable, or a connection whose peer is gone.  state CLOSED stands for
\* RASTA_CONNECTION_DOWN too.
Process ==
    [fds : [Fd -> Status],
     ch : [Channel -> [file_descriptor : Fd \cup {None}, connected : BOOLEAN,
                       event_fd : Fd \cup {None}, enabled : BOOLEAN,
                       associated_socket : {0} \cup Channel]],
     sock : [Channel -> [file_descriptor : Fd \cup {None}, event_fd : Fd,
                         enabled : BOOLEAN]],
     listens : BOOLEAN,                   \* the program calls rasta_listen
     role : {"client", "server"},
     state : {"CLOSED", "START", "UP", "RETRREQ", "RETRRUN"},
     aborted : BOOLEAN,
     mishaps : Nat]

\* The process, the call and the walk of event_system_sleep have their types: no
\* callback leaves the walk behind the end of the list.
TypeOK ==
    /\ p \in Process
    /\ call \in {"none", "has", "connect", "accept", "recv", "cleaned"}
    /\ at \in 0..(2 * N)
    /\ ready \subseteq Fd
    /\ dials \in 0..MaxDials

\* After rasta_lib_init_configuration, rasta_bind and, for a server,
\* rasta_listen.  The memory of the connection is cleared: its role reads client.
Init ==
    /\ \E server \in Listens :
         p = [fds |-> [f \in Fd |-> IF f >= N THEN "free"
                                    ELSE IF server THEN "quiet" ELSE "fresh"],
              ch |-> [i \in Channel |-> [file_descriptor |-> 0, connected |-> FALSE,
                                         event_fd |-> 0, enabled |-> FALSE,
                                         associated_socket |-> 0]],
              sock |-> [i \in Channel |-> [file_descriptor |-> i - 1, event_fd |-> i - 1,
                                           enabled |-> server]],
              listens |-> server, role |-> "client", state |-> "CLOSED",
              aborted |-> FALSE, mishaps |-> 0]
    /\ call = "none"
    /\ at = 0
    /\ ready = {}
    /\ dials = 0

(***************************************************************************)
(* Descriptors and sockets, as functions of the process.                   *)
(***************************************************************************)
Free(s) == {f \in Fd : s.fds[f] = "free"}
Abort(s) == [s EXCEPT !.aborted = TRUE]
Mishap(s) == [s EXCEPT !.mishaps = @ + 1]

\* socket() and accept() return the lowest free descriptor.
NewFd(s) == Min(Free(s))

bsd_close(s, f) ==
    IF f = None THEN s
    ELSE IF s.fds[f] = "free" THEN Abort(s) ELSE [s EXCEPT !.fds[f] = "free"]

\* A descriptor that is not a fresh socket cannot be connected; accepts is
\* whether the peer takes the connection.
transport_connect(s, i, k, accepts) ==
    LET f == s.sock[k].file_descriptor
        t == [s EXCEPT !.ch[i].file_descriptor = f, !.ch[i].associated_socket = k,
                       !.ch[i].connected = FALSE]
    IN IF f = None \/ s.fds[f] # "fresh" THEN t
       ELSE IF ~accepts THEN Mishap(t)
       ELSE [t EXCEPT !.fds[f] = "quiet", !.ch[i].connected = TRUE,
                      !.ch[i].event_fd = f, !.ch[i].enabled = TRUE]

\* Dereferences the associated socket; a new socket replaces the old one.
transport_redial(s, i, accepts) ==
    LET k == s.ch[i].associated_socket IN
    IF k = 0 \/ Free(s) = {} THEN Abort(s)
    ELSE LET f == NewFd(s)
             t == transport_connect([s EXCEPT !.fds[f] = "fresh",
                                              !.sock[k].file_descriptor = f], i, k, accepts)
         IN IF t.ch[i].connected THEN [t EXCEPT !.sock[k].event_fd = f] ELSE t

\* A mutant of transport_close_channel: the receive event stays enabled.
transport_close_channel_KeepsEvent(s, i) ==
    IF s.ch[i].connected
    THEN [bsd_close(s, s.ch[i].file_descriptor) EXCEPT
            !.ch[i].file_descriptor = None, !.ch[i].connected = FALSE]
    ELSE s

\* A mutant of transport_close_channel: the descriptor is forgotten, not closed.
transport_close_channel_NoClose(s, i) ==
    [s EXCEPT !.ch[i].enabled = FALSE, !.ch[i].connected = FALSE,
              !.ch[i].file_descriptor = None]

transport_close_channel(s, i) ==
    LET t == [s EXCEPT !.ch[i].enabled = FALSE] IN
    IF s.ch[i].connected
    THEN [bsd_close(t, s.ch[i].file_descriptor) EXCEPT
            !.ch[i].file_descriptor = None, !.ch[i].connected = FALSE]
    ELSE t

transport_close_socket(s, k) ==
    [bsd_close(s, s.sock[k].file_descriptor) EXCEPT
       !.sock[k].file_descriptor = None, !.sock[k].enabled = FALSE]

\* Channels in the order of their index, op(s, i) done for each: sockets too.
ForAllChannels(op(_, _), s) ==
    LET done[n \in 0..N] == IF n = 0 THEN s ELSE op(done[n - 1], n)
    IN done[N]

\* "if we are a TCP/TLS client ..., the socket fd also becomes invalid"
CloseChannel(s, i) ==
    LET t == transport_close_channel(s, i)
        k == t.ch[i].associated_socket
    IN IF t.role # "client" THEN t
       ELSE IF k = 0 THEN Abort(t)
       ELSE [t EXCEPT !.sock[k].file_descriptor = None]

redundancy_channel_close(s) == ForAllChannels(CloseChannel, s)

\* A send to a peer that is gone fails once the peer has said so, and a failed
\* send aborts.  env says what the peer and the network do on each channel.
Env == [Channel -> [accepts : BOOLEAN, sends : BOOLEAN]]

\* A mutant of SendOn: unconnected channels are skipped.
SendOn_Skips(s, i, env) ==
    IF s.aborted \/ ~s.ch[i].connected THEN s
    ELSE IF s.fds[s.ch[i].file_descriptor] = "eof" /\ ~env[i].sends THEN Abort(s) ELSE s

SendOn(s, i, env) ==
    LET t == IF ~s.aborted /\ ~s.ch[i].connected /\ s.role = "client"
             THEN transport_redial(s, i, env[i].accepts) ELSE s
    IN IF t.aborted \/ ~t.ch[i].connected THEN t
       ELSE IF t.fds[t.ch[i].file_descriptor] = "eof" /\ ~env[i].sends THEN Abort(t) ELSE t

redundancy_mux_send(s, env) ==
    LET Send(t, i) == SendOn(t, i, env) IN ForAllChannels(Send, s)

\* A DiscReq is sent unless the connection is closed already.
sr_close_connection(s, env) ==
    LET t == IF s.state = "CLOSED" THEN s ELSE redundancy_mux_send(s, env)
    IN redundancy_channel_close([t EXCEPT !.state = "CLOSED"])

sr_closed_connection(s) == redundancy_channel_close([s EXCEPT !.state = "CLOSED"])

\* A mutant of AllLost: only the first channel counts.
AllLost_First(s) == ~s.ch[1].connected

\* handle_closed_transport: "Another channel is still connected"
AllLost(s) == \A i \in Channel : ~s.ch[i].connected

(***************************************************************************)
(* The callbacks of the fd events.  Each yields the next process.          *)
(***************************************************************************)
\* The end of the stream: the channel is not connected any more.  The
\* descriptor is neither closed nor forgotten.
Unconnected(s, i) == [s EXCEPT !.ch[i].connected = FALSE, !.ch[i].enabled = FALSE]

\* What the layers above do with a packet: nothing, a change of state with or
\* without an answer (a RetrReq leads to RETRREQ even when closed), closing, and
\* handle_retrreq in RETRRUN, which closes the connection and answers all the
\* same.
Handled(s, env) ==
    LET In(state) == [s EXCEPT !.state = state]
        Answers(t) == redundancy_mux_send(t, env)
    IN {s, sr_close_connection(s, env), sr_closed_connection(s), Answers(In("RETRREQ"))}
       \cup {t \in {Answers(s)} : s.state # "CLOSED"}
       \cup {t \in {In("RETRRUN")} : s.state = "RETRREQ"}
       \cup {t \in {In("UP"), Answers(In("UP"))} : s.state \in {"START", "RETRRUN"}}
       \cup {t \in {Answers(sr_close_connection(s, env))} : s.state = "RETRRUN"}
       \cup {t \in {Answers([In("START") EXCEPT !.role = "server"])} :
               s.listens /\ s.state = "CLOSED"}

\* accept() on a socket that does not listen, and a peer that is gone before
\* its name is asked for, abort.  0: no channel has the address of the peer.
channel_accept_event(s, k, i, known) ==
    LET l == s.sock[k].file_descriptor
        f == NewFd(s)
        t == [s EXCEPT !.fds[l] = "quiet"]
    IN IF l = None \/ Free(s) = {} \/ ~known THEN Abort(s)
       ELSE IF s.fds[l] # "readable" \/ \E j \in Channel : s.ch[j].connected /\ s.ch[j].file_descriptor = l
       THEN Abort(s)
       ELSE IF i = 0 THEN t
       ELSE [(IF s.ch[i].connected THEN Mishap(t) ELSE t) EXCEPT
               !.fds[f] = "quiet", !.ch[i] =
                  [file_descriptor |-> f, connected |-> TRUE, event_fd |-> f,
                   enabled |-> TRUE, associated_socket |-> k]]

(***************************************************************************)
(* The event loop.  The list has the accept events of the sockets first,   *)
(* then the receive events of the channels: redundancy_mux_allocate_channels *)
(* creates the sockets before the channels.                                *)
(***************************************************************************)
Alive == ~p.aborted

\* The process continues as s; every bound of the model is kept.
Becomes(s) == \E t \in {s} : p' = t /\ t.mishaps <= MaxMishaps

EventFd(k) == IF k <= N THEN p.sock[k].event_fd ELSE p.ch[k - N].event_fd

IsCalled(k) ==
    /\ IF k <= N THEN p.sock[k].enabled ELSE p.ch[k - N].enabled
    /\ EventFd(k) \in ready

\* The event the walk calls next
Turn(k) == /\ at # 0
           /\ k \in at..(2 * N)
           /\ IsCalled(k)
           /\ \A j \in at..(k - 1) : ~IsCalled(j)

Watched == {p.sock[k].event_fd : k \in {j \in Channel : p.sock[j].enabled}}
           \cup {p.ch[i].event_fd : i \in {j \in Channel : p.ch[j].enabled}}

InLoop == Alive /\ call \in {"connect", "accept", "recv"}

Select ==
    /\ InLoop /\ at = 0
    /\ \E f \in Watched : p.fds[f] \in {"readable", "eof"}
    /\ ready' = {f \in Watched : p.fds[f] \in {"readable", "eof"}}
    /\ at' = 1
    /\ UNCHANGED <<p, call, dials>>

WalkDone ==
    /\ InLoop /\ at # 0
    /\ ~\E k \in at..(2 * N) : IsCalled(k)
    /\ at' = 0 /\ ready' = {}
    /\ UNCHANGED <<p, call, dials>>

\* A mutant of GoOn: the walk does not stop at the end of the list.
GoOn_Past(k) == at' = k + 1 /\ UNCHANGED <<ready, call, dials>>

\* The walk goes on behind event k, or the callback stopped the loop and the
\* call returns: sr_connect closes the channels if there is no connection.
GoOn(k) == /\ at' = IF k < 2 * N THEN k + 1 ELSE 0
           /\ ready' = IF k < 2 * N THEN ready ELSE {}
           /\ UNCHANGED <<call, dials>>

sr_connect_returns(s) ==
    IF call = "connect" /\ s.state # "UP" THEN redundancy_channel_close(s) ELSE s

Stop(s) == /\ Becomes(sr_connect_returns(s))
           /\ call' = IF call = "recv" \/ s.state = "UP" THEN "has" ELSE "none"
           /\ at' = 0 /\ ready' = {}
           /\ UNCHANGED dials

AcceptEvent ==
    /\ InLoop
    /\ \E k \in Channel, i \in 0..N, known \in BOOLEAN :
          /\ Turn(k)
          /\ Becomes(channel_accept_event(p, k, i, known))
          /\ GoOn(k)

\* channel_receive_event at the end of the stream
ReceiveEnd ==
    /\ InLoop
    /\ \E i \in Channel :
          /\ Turn(N + i)
          /\ p.fds[p.ch[i].file_descriptor] = "eof"
          /\ \E s \in {Unconnected(p, i)} :
                IF AllLost(s) THEN Stop(sr_closed_connection(s))
                ELSE Becomes(s) /\ GoOn(N + i)

ReceivePacket ==
    /\ InLoop
    /\ \E i \in Channel :
          /\ Turn(N + i)
          /\ p.fds[p.ch[i].file_descriptor] = "readable"
          /\ \E s \in UNION {Handled([p EXCEPT !.fds[p.ch[i].file_descriptor] = "quiet"], env) :
                             env \in Env} :
                Stop(s) \/ (Becomes(s) /\ GoOn(N + i))

(***************************************************************************)
(* Timed events, which the loop calls between two walks.                   *)
(***************************************************************************)
Quiet == UNCHANGED <<call, at, ready, dials>>

\* heartbeat_send_event
SendDue ==
    /\ InLoop /\ at = 0
    /\ p.state \in {"UP", "RETRREQ", "RETRRUN"}
    /\ \E s \in {redundancy_mux_send(p, env) : env \in Env} : Becomes(s)
    /\ Quiet

\* data_send_event, which looks at no state: messages that an earlier connection
\* left in fifo_send are sent while the next one is opened.  sr_send calls it too,
\* to make room, inside a loop or from the application.  What fifo_send holds is
\* not modelled: there may be data to send whenever the loop runs.
SendData ==
    /\ Alive /\ at = 0
    /\ InLoop \/ (call = "has" /\ p.state = "UP")
    /\ \E s \in {redundancy_mux_send(p, env) : env \in Env} : Becomes(s)
    /\ Quiet

\* event_connection_expired
TimeoutExpires ==
    /\ InLoop /\ at = 0
    /\ p.state \in {"UP", "RETRREQ", "RETRRUN"}
    /\ \E s \in {sr_close_connection(p, env) : env \in Env} : Stop(s)

\* channel_timeout_event
HandshakeTimeout ==
    /\ InLoop /\ at = 0
    /\ call = "connect"
    /\ Stop(p)

(***************************************************************************)
(* The interface.                                                          *)
(***************************************************************************)
redundancy_channel_connect(s, env) ==
    LET Connect(t, i) == transport_connect(t, i, i, env[i].accepts)
    IN ForAllChannels(Connect, s)

\* No channel: NULL at once.  Otherwise a ConReq is sent, on which the other
\* channels are dialled again, and the loop runs.
RastaConnect ==
    /\ Alive /\ call = "none"
    /\ ~p.listens
    /\ \E s \in {redundancy_channel_connect(p, env) : env \in Env} :
         IF AllLost(s)
         THEN Becomes(s) /\ UNCHANGED call
         ELSE /\ \E t \in {redundancy_mux_send([s EXCEPT !.role = "client", !.state = "START"],
                                                env) : env \in Env} : Becomes(t)
              /\ call' = "connect"
    /\ UNCHANGED <<at, ready, dials>>

\* rasta_accept of a server, rasta_recv
RastaWaits ==
    /\ Alive
    /\ \/ call = "none" /\ p.listens /\ call' = "accept"
       \/ call = "has" /\ p.state = "UP" /\ call' = "recv"
    /\ UNCHANGED <<p, at, ready, dials>>

RastaDisconnect ==
    /\ Alive /\ call = "has"
    /\ \E s \in {sr_close_connection(p, env) : env \in Env} : Becomes(s)
    /\ call' = "none"
    /\ UNCHANGED <<at, ready, dials>>

\* Each socket is closed, and nothing after it.
RastaCleanup ==
    /\ Alive /\ call \in {"none", "has"}
    /\ Becomes(ForAllChannels(transport_close_socket, p))
    /\ call' = "cleaned"
    /\ UNCHANGED <<at, ready, dials>>

(***************************************************************************)
(* The peer and the network.                                               *)
(***************************************************************************)
Connections == {p.ch[i].file_descriptor : i \in {j \in Channel : p.ch[j].connected}}

PeerSends ==
    /\ Alive /\ call # "cleaned"
    /\ \E f \in Connections : /\ p.fds[f] = "quiet"
                              /\ Becomes([p EXCEPT !.fds[f] = "readable"])
    /\ Quiet

PeerCloses ==
    /\ Alive /\ call # "cleaned"
    /\ \E f \in Connections : /\ p.fds[f] \in {"quiet", "readable"}
                              /\ Becomes(Mishap([p EXCEPT !.fds[f] = "eof"]))
    /\ Quiet

\* A connection waits at the listening socket of an accept event.
PeerDials ==
    /\ Alive /\ call # "cleaned"
    /\ p.listens /\ dials < MaxDials
    /\ \E k \in Channel : LET l == p.sock[k].event_fd IN
          /\ l \notin Connections /\ p.fds[l] = "quiet"
          /\ Becomes([p EXCEPT !.fds[l] = "readable"])
    /\ dials' = dials + 1
    /\ UNCHANGED <<call, at, ready>>

Next ==
    \/ Select \/ WalkDone
    \/ AcceptEvent \/ ReceiveEnd \/ ReceivePacket
    \/ SendDue \/ SendData \/ TimeoutExpires \/ HandshakeTimeout
    \/ RastaConnect \/ RastaWaits \/ RastaDisconnect \/ RastaCleanup
    \/ PeerSends \/ PeerCloses \/ PeerDials

Spec == Init /\ [][Next]_vars

\* When a step of the walk is possible, and when a send changes something.
WalkPossible == InLoop /\ (at # 0 \/ \E f \in Watched : p.fds[f] \in {"readable", "eof"})
SendPossible == /\ InLoop /\ at = 0
                /\ p.state \in {"UP", "RETRREQ", "RETRRUN"}
                /\ \E s \in {redundancy_mux_send(p, env) : env \in Env} :
                      s # p /\ s.mishaps <= MaxMishaps

\* Weak fairness of the walk, which moves at: the loop goes on.  Strong fairness
\* of sending: a timed event that is due is called however many descriptors are
\* readable (TimedNotLate of EventSystem).
FairSpec ==
    /\ Spec
    /\ <>[]WalkPossible => []<><<at' # at>>_vars
    /\ []<>SendPossible => []<><<SendDue>>_vars

(***************************************************************************)
(* Properties of a process that has not aborted.                           *)
(***************************************************************************)
\* An enabled receive event belongs to a connected channel, watches the very
\* descriptor the channel reads and sends on, and that descriptor is open and no
\* other channel's; what a client's socket has for a descriptor is open, so that
\* transport_close_socket closes nothing twice.  However redialling, accepting
\* and closing interleave, channel_receive_event reads its own stream.
EventsOwned ==
    Alive /\ call # "cleaned" => \A i \in Channel :
      /\ ~p.listens /\ p.sock[i].file_descriptor # None => p.fds[p.sock[i].file_descriptor] # "free"
      /\ p.ch[i].enabled =>
           /\ p.ch[i].connected
           /\ p.ch[i].event_fd = p.ch[i].file_descriptor
      /\ p.ch[i].connected =>
           /\ p.fds[p.ch[i].file_descriptor] \in {"quiet", "readable", "eof"}
           /\ \A j \in Channel \ {i} : p.ch[j].connected =>
                p.ch[j].file_descriptor # p.ch[i].file_descriptor

\* "fd events (firing when a fd becomes readable/writable/exceptional)": the
\* walk of event_system_sleep goes by what select said before the first callback,
\* and a receive event it calls must still have something to read, since the
\* recvfrom of tcp_receive blocks.
FiresWhenReadable ==
    \A i \in Channel :
       InLoop /\ Turn(N + i) => p.fds[p.ch[i].file_descriptor] \in {"readable", "eof"}

\* The end of one stream ends the connection (handle_closed_transport) only when
\* no channel is left that still reaches the peer.
LossKeepsConnection ==
    [][ReceiveEnd /\ p.state # "CLOSED" /\ p'.state = "CLOSED"
         => \A f \in Connections : p.fds[f] = "eof"]_vars

\* Descriptors that are open although no channel and no socket has them any more
Leaked == {f \in Fd : p.fds[f] # "free"}
          \ (Connections \cup {p.sock[k].file_descriptor : k \in Channel})

\* The process leaks at most one descriptor for every connection that was lost
\* (channel_receive_event closes nothing), refused (transport_redial) or replaced
\* (channel_accept_event) and, for a server whose role still reads client, one
\* for every socket (redundancy_channel_close).
DescriptorsBounded ==
    Alive => Cardinality(Leaked) <= p.mishaps + (IF p.listens THEN N ELSE 0)

\* A client that waits in rasta_recv dials a lost channel again with the next
\* message it sends (redundancy_mux_send), until the peer takes the connection.
Redialled ==
    \A i \in Channel :
       (Alive /\ ~p.listens /\ call = "recv" /\ p.state = "UP" /\ ~p.ch[i].connected)
          ~> (p.ch[i].connected \/ call # "recv" \/ p.state # "UP" \/ p.aborted)
=============================================================================

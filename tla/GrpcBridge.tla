----------------------------- MODULE GrpcBridge -----------------------------
(***************************************************************************)
(* The RaSTA/gRPC bridge of examples/rasta_grpc_bridge.  Two threads share *)
(* a queue, two pipes and the gRPC stream: the main thread, which drives   *)
(* the RaSTA event loop, and for each RaSTA connection one forwarder that  *)
(* reads the gRPC stream.  The forwarder hands messages over through       *)
(* s_message_fifo and announces them on the data pipe; the end of the      *)
(* stream is announced on the terminator pipe.  RaSTA and gRPC are         *)
(* modelled by what their calls may answer.                                *)
(***************************************************************************)
EXTENDS Naturals, Sequences

CONSTANTS
  Modes,         \* how the bridge may be started: <<gRPC role, RaSTA role>>
  PipeSize,      \* notifications that fit into a pipe
  MaxMessages,   \* bound: messages read from gRPC
  MaxReceived,   \* bound: messages received from RaSTA
  MaxSessions    \* bound: RaSTA connections

Role == {"client", "server"}

ASSUME ModesAssumption == Modes \subseteq Role \X Role
ASSUME PipeAssumption == PipeSize \in Nat \ {0}
ASSUME BoundsAssumption ==
  /\ MaxMessages \in Nat
  /\ MaxReceived \in Nat
  /\ MaxSessions \in Nat

VARIABLES
  mode,       \* the command line
  main,       \* where the main thread is
  fwd,        \* where the forwarder thread is, "none" when there is none
  busy,       \* who holds the mutex s_busy
  stream,     \* s_currentStream or s_currentServerStream is set, and its context
  grpc,       \* the gRPC call
  con,        \* s_connection
  pipes,      \* s_data_fd and s_terminator_fd are open
  fifo,       \* s_message_fifo, its back first
  data, term, \* notifications in the two pipes
  ready,      \* the pipes that select found readable
  msg,        \* the message the forwarder holds
  read,       \* history: what this session's forwarder has read
  handed,     \* history: what this session passed to rasta_send
  next, inbox, sessions   \* what was used of the bounds

call == <<stream, grpc>>
pipe == <<pipes, data, term, ready>>
relay == <<fifo, msg, read, handed, next>>
env == <<mode, inbox, sessions>>
vars == <<main, fwd, busy, call, con, pipe, relay, env>>

GrpcClient == mode[1] = "client"
RastaServer == mode[2] = "server"

MainAt == {"idle", "open", "recv", "select", "drain", "stop", "lock", "write",
           "cancel", "join", "unset", "exit"}
FwdAt == {"none", "create", "read", "push", "notify", "release", "terminate",
          "done"}

\* The threads and what they share have their types.
TypeOK ==
  /\ mode \in Modes
  /\ main \in MainAt
  /\ fwd \in FwdAt
  /\ busy \in {"free", "main"}
  /\ stream \in BOOLEAN
  /\ grpc \in {"none", "open", "half", "over"}
  /\ con \in {"none", "up", "closed"}
  /\ pipes \in BOOLEAN
  /\ fifo \in Seq(Nat) /\ read \in Seq(Nat) /\ handed \in Seq(Nat)
  /\ data \in 0..PipeSize /\ term \in 0..1
  /\ ready \subseteq {"data", "term"}
  /\ msg \in Nat /\ next \in Nat /\ inbox \in Nat /\ sessions \in Nat

Init ==
  /\ mode \in Modes
  /\ main = IF GrpcClient THEN "open" ELSE "idle"
  /\ fwd = "none"
  /\ busy = "free"
  /\ stream = FALSE
  /\ grpc = "none"
  /\ con = "none"
  /\ pipes = FALSE
  /\ fifo = << >> /\ read = << >> /\ handed = << >>
  /\ data = 0 /\ term = 0
  /\ ready = {}
  /\ msg = 0 /\ next = 1 /\ inbox = 0 /\ sessions = 0

-----------------------------------------------------------------------------
(* processRasta and RastaService::Stream.                                  *)

\* A gRPC client calls Stream; a second caller waits for s_rasta_busy.
StreamCalled ==
  /\ main = "idle"
  /\ sessions < MaxSessions
  /\ main' = "open"
  /\ stream' = TRUE
  /\ grpc' = "open"
  /\ UNCHANGED <<fwd, busy, con, pipe, relay, env>>

\* rasta_bind fails, or rasta_connect does and there is no other attempt; a
\* RaSTA server binds once.
OpenFails ==
  /\ main = "open"
  /\ RastaServer => sessions = 0
  /\ main' = IF GrpcClient THEN "exit" ELSE "unset"
  /\ UNCHANGED <<fwd, busy, call, con, pipe, relay, env>>

\* rasta_connect or rasta_accept returned a connection: the queue is cleared,
\* the pipes are created and the forwarder is started.  Nobody else runs yet.
processConnection ==
  /\ main = "open"
  /\ sessions < MaxSessions
  /\ sessions' = sessions + 1
  /\ con' = "up"
  /\ fifo' = << >>
  /\ pipes' = TRUE
  /\ data' = 0 /\ term' = 0
  /\ fwd' = IF GrpcClient THEN "create" ELSE "read"
  /\ main' = "recv"
  /\ read' = << >> /\ handed' = << >>
  /\ UNCHANGED <<busy, call, ready, msg, next, mode, inbox>>

\* A mutant of Joined: the main thread does not wait for the forwarder.
Joined_NoWait ==
  /\ main = "join"
  /\ con' = "none"
  /\ pipes' = FALSE
  /\ grpc' = IF GrpcClient THEN "none" ELSE grpc
  /\ main' = IF RastaServer THEN "open" ELSE IF GrpcClient THEN "exit" ELSE "unset"
  /\ UNCHANGED <<fwd, busy, stream, data, term, ready, relay, env>>

\* forwarderThread.join() returns; rasta_disconnect, the events are removed and
\* the pipes closed.  A RaSTA server accepts again, with the same stream.
Joined ==
  /\ main = "join"
  /\ fwd = "done"
  /\ fwd' = "none"
  /\ con' = "none"
  /\ pipes' = FALSE
  /\ grpc' = IF GrpcClient THEN "none" ELSE grpc
  /\ main' = IF RastaServer THEN "open" ELSE IF GrpcClient THEN "exit" ELSE "unset"
  /\ UNCHANGED <<busy, stream, data, term, ready, relay, env>>

\* Stream returns.
StreamReturns ==
  /\ main = "unset"
  /\ busy = "free"
  /\ stream' = FALSE
  /\ grpc' = "none"
  /\ main' = "idle"
  /\ UNCHANGED <<fwd, busy, con, pipe, relay, env>>
-----------------------------------------------------------------------------
(* The main thread inside rasta_recv.                                      *)

\* select looks at the descriptors one after the other: first the data pipe.
SelectData ==
  /\ main = "recv"
  /\ main' = "select"
  /\ ready' = IF data > 0 THEN {"data"} ELSE {}
  /\ UNCHANGED <<fwd, busy, call, con, pipes, data, term, relay, env>>

\* A mutant of SelectTerm: both callbacks are called when one pipe is readable.
SelectTerm_Both ==
  /\ main = "select"
  /\ ready' = (IF term > 0 THEN {"term"} ELSE {})
  /\ main' = IF "data" \in ready \/ term > 0 THEN "drain" ELSE "recv"
  /\ data' = IF "data" \in ready \/ term > 0 THEN data - 1 ELSE data
  /\ UNCHANGED <<fwd, busy, call, con, pipes, term, relay, env>>

\* Then the terminator pipe.  The data callback, which was added first, is
\* called first; it takes one notification from the pipe.
SelectTerm ==
  /\ main = "select"
  /\ ready' = (IF term > 0 THEN {"term"} ELSE {})
  /\ main' = IF "data" \in ready THEN "drain" ELSE IF term > 0 THEN "stop" ELSE "recv"
  /\ data' = IF "data" \in ready THEN data - 1 ELSE data
  /\ UNCHANGED <<fwd, busy, call, con, pipes, term, relay, env>>

\* The data callback passes on all that is in the queue.  It does not look at
\* what rasta_send answers.
DrainMessage ==
  /\ main = "drain"
  /\ fifo # << >>
  /\ fifo' = Tail(fifo)
  /\ handed' = Append(handed, Head(fifo))
  /\ UNCHANGED <<main, fwd, busy, call, con, pipe, msg, read, next, env>>

Drained ==
  /\ main = "drain"
  /\ fifo = << >>
  /\ main' = IF "term" \in ready THEN "stop" ELSE "recv"
  /\ UNCHANGED <<fwd, busy, call, con, pipe, relay, env>>

\* A mutant of TerminatorCallback: the event loop is not told to return.
TerminatorCallback_Returns0 ==
  /\ main = "stop"
  /\ term' = term - 1
  /\ main' = "recv"
  /\ UNCHANGED <<fwd, busy, call, con, pipes, data, ready, relay, env>>

\* The terminator callback disconnects, and rasta_recv returns -1.
TerminatorCallback ==
  /\ main = "stop"
  /\ term' = term - 1
  /\ con' = "closed"
  /\ main' = "cancel"
  /\ UNCHANGED <<fwd, busy, call, pipes, data, ready, relay, env>>

\* rasta_recv returns the length of a message; 0 ends the loop like an error.
MessageReceived ==
  /\ main = "recv"
  /\ con = "up"
  /\ inbox < MaxReceived
  /\ inbox' = inbox + 1
  /\ main' \in {"lock", "cancel"}
  /\ UNCHANGED <<fwd, busy, call, con, pipe, relay, mode, sessions>>

\* The connection closes.  The handlers and timers that close it do not all
\* make the event loop return.
ConnectionClosed ==
  /\ main = "recv"
  /\ con = "up"
  /\ con' = "closed"
  /\ main' \in {"cancel", "recv"}
  /\ UNCHANGED <<fwd, busy, call, pipe, relay, env>>

-----------------------------------------------------------------------------
(* The main thread on the gRPC stream, under s_busy.                       *)

\* A message that arrives while there is no stream is dropped.
LockStream ==
  /\ main = "lock"
  /\ busy = "free"
  /\ main' = IF stream THEN "write" ELSE "recv"
  /\ busy' = IF stream THEN "main" ELSE "free"
  /\ UNCHANGED <<fwd, call, con, pipe, relay, env>>

\* Write returns when gRPC has taken the message, or when the call is over.
WriteReturns ==
  /\ main = "write"
  /\ main' = "recv"
  /\ busy' = "free"
  /\ UNCHANGED <<fwd, call, con, pipe, relay, env>>

\* A mutant of TryCancel: the call is left to its peer.
TryCancel_Nothing ==
  /\ main = "cancel"
  /\ busy = "free"
  /\ main' = "join"
  /\ UNCHANGED <<fwd, busy, call, con, pipe, relay, env>>

TryCancel ==
  /\ main = "cancel"
  /\ busy = "free"
  /\ grpc' = IF stream THEN "over" ELSE grpc
  /\ main' = "join"
  /\ UNCHANGED <<fwd, busy, stream, con, pipe, relay, env>>

-----------------------------------------------------------------------------
(* The forwarder.                                                          *)

\* As gRPC client it first opens a stream; the call may fail at once.
CreateStream ==
  /\ fwd = "create"
  /\ busy = "free"
  /\ stream' = TRUE
  /\ grpc' \in {"open", "over"}
  /\ fwd' = "read"
  /\ UNCHANGED <<main, busy, con, pipe, relay, env>>

ReadMessage ==
  /\ fwd = "read"
  /\ grpc = "open"
  /\ next <= MaxMessages
  /\ msg' = next
  /\ next' = next + 1
  /\ read' = Append(read, next)
  /\ fwd' = "push"
  /\ UNCHANGED <<main, busy, call, con, pipe, fifo, handed, env>>

ReadFails ==
  /\ fwd = "read"
  /\ grpc \in {"half", "over"}
  /\ fwd' = IF GrpcClient THEN "release" ELSE "terminate"
  /\ UNCHANGED <<main, busy, call, con, pipe, relay, env>>

\* A mutant of PushMessage: the newest message is the next to be taken.
PushMessage_Back ==
  /\ fwd = "push"
  /\ fifo' = <<msg>> \o fifo
  /\ fwd' = "notify"
  /\ UNCHANGED <<main, busy, call, con, pipe, msg, read, handed, next, env>>

\* A mutant of PushMessage: the message is not announced.
PushMessage_Silent ==
  /\ fwd = "push"
  /\ fifo' = Append(fifo, msg)
  /\ fwd' = "read"
  /\ UNCHANGED <<main, busy, call, con, pipe, msg, read, handed, next, env>>

PushMessage ==
  /\ fwd = "push"
  /\ fifo' = Append(fifo, msg)
  /\ fwd' = "notify"
  /\ UNCHANGED <<main, busy, call, con, pipe, msg, read, handed, next, env>>

\* write blocks while the pipe is full.
NotifyData ==
  /\ fwd = "notify"
  /\ data < PipeSize
  /\ data' = data + 1
  /\ fwd' = "read"
  /\ UNCHANGED <<main, busy, call, con, pipes, term, ready, relay, env>>

\* A mutant of ReleaseStream: the mutex is not taken.
ReleaseStream_Unlocked ==
  /\ fwd = "release"
  /\ stream' = FALSE
  /\ grpc' = "over"
  /\ fwd' = "terminate"
  /\ UNCHANGED <<main, busy, con, pipe, relay, env>>

\* Stream and context are destroyed: the call is over.
ReleaseStream ==
  /\ fwd = "release"
  /\ busy = "free"
  /\ stream' = FALSE
  /\ grpc' = "over"
  /\ fwd' = "terminate"
  /\ UNCHANGED <<main, busy, con, pipe, relay, env>>

NotifyTerminator ==
  /\ fwd = "terminate"
  /\ term' = term + 1
  /\ fwd' = "done"
  /\ UNCHANGED <<main, busy, call, con, pipes, data, ready, relay, env>>

-----------------------------------------------------------------------------
\* The peer of the gRPC call stops sending, or ends the call.
GrpcPeer ==
  /\ \/ grpc = "open" /\ grpc' = "half"
     \/ grpc \in {"open", "half"} /\ grpc' = "over"
  /\ UNCHANGED <<main, fwd, busy, stream, con, pipe, relay, env>>

Main ==
  \/ StreamCalled \/ OpenFails \/ processConnection \/ Joined \/ StreamReturns
  \/ SelectData \/ SelectTerm \/ DrainMessage \/ Drained \/ TerminatorCallback
  \/ MessageReceived \/ ConnectionClosed
  \/ LockStream \/ WriteReturns \/ TryCancel

Forwarder ==
  \/ CreateStream \/ ReadMessage \/ ReadFails \/ PushMessage \/ NotifyData
  \/ ReleaseStream \/ NotifyTerminator

Next == Main \/ Forwarder \/ GrpcPeer

Spec == Init /\ [][Next]_vars

(* The threads run: the main thread goes round the event loop, out of it   *)
(* and through the end of the session, the forwarder goes on when it is    *)
(* not waiting for the peer of the call, and a Write returns at least when *)
(* the call is over.  Nothing makes the gRPC peer end a call.              *)
Fairness ==
  /\ WF_vars(SelectData) /\ WF_vars(SelectTerm)
  /\ WF_vars(DrainMessage) /\ WF_vars(Drained) /\ WF_vars(TerminatorCallback)
  /\ WF_vars(LockStream) /\ WF_vars(TryCancel) /\ WF_vars(Joined)
  /\ WF_vars(grpc = "over" /\ WriteReturns)
  /\ WF_vars(CreateStream) /\ WF_vars(ReadFails) /\ WF_vars(PushMessage)
  /\ WF_vars(NotifyData) /\ WF_vars(ReleaseStream) /\ WF_vars(NotifyTerminator)

FairSpec == Spec /\ Fairness
-----------------------------------------------------------------------------
(* Properties.                                                             *)

Held == IF fwd = "push" THEN <<msg>> ELSE << >>

\* What the forwarder read from the gRPC stream is, in this order and without
\* gap or repetition, what the data callback passed to rasta_send, what waits in
\* s_message_fifo and what the forwarder holds; nothing of an earlier session is
\* among it.
RelayConserved == pipes => read = handed \o fifo \o Held

\* While the main thread is in rasta_recv no message waits in s_message_fifo
\* unannounced, however the forwarder's push and write fall between the reads
\* and the last look of the data callback.
NothingStranded ==
  fifo # << >> /\ main \in {"recv", "select", "lock", "write"}
    => data > 0 \/ fwd = "notify" \/ "data" \in ready

\* The stream that processConnection writes to is not destroyed before Write
\* has returned, and no second thread is inside s_busy.
WriteUsesLiveStream == main = "write" => stream /\ busy = "main"

\* As long as a forwarder runs, the pipes it writes to are open and are those of
\* its own session.
ForwarderOwnsPipes == fwd # "none" => pipes /\ con # "none"

InSession == main \notin {"idle", "open", "unset", "exit"}

\* The forwarder waits for room in the data pipe and the main thread, which no
\* longer reads it, for the forwarder.
PipeJam == main = "join" /\ fwd = "notify" /\ data = PipeSize

\* "you must not end this stream while your program runs ... because otherwise,
\* the RaSTA connection will be disconnected" (getting_started.md:68): when the
\* gRPC call is over, the RaSTA connection does not stay up, except in a jam.
StreamEndDisconnects == (grpc = "over" /\ con = "up") ~> (con # "up" \/ PipeJam)

\* When rasta_recv has failed or returned 0 and there is a stream, the session
\* ends whatever the gRPC peer does: the call is cancelled and forwarderThread
\* .join() returns, except in a jam.
CancelledSessionEnds == (main = "cancel" /\ stream) ~> (~InSession \/ PipeJam)
=============================================================================

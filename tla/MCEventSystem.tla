--------------------------- MODULE MCEventSystem ---------------------------
(* EventSystem with the timed events of a connection that is up, and the    *)
(* descriptors of a server.                                                 *)
EXTENDS EventSystem

MCTimedEvents == <<"timeout", "heartbeat">>
MCFdEvents == <<"accept", "receive">>
MCInterval == [timeout |-> 8, heartbeat |-> 7]
MCWatched == {"heartbeat"}
=============================================================================

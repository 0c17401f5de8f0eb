----------------------- MODULE MCSafetyRetransmission ----------------------
(* The safety and retransmission layer with few messages and faults.       *)
EXTENDS SafetyRetransmission, TLC

CONSTANTS Numbers, ClientMessages, ServerMessages,
          ClientBeats, ServerBeats

Ends(c, s) == (Client :> c) @@ (Server :> s)

MCInitialSns == {Ends(n, n) : n \in Numbers}
MCMaxMessages == Ends(ClientMessages, ServerMessages)
MCMaxBeats == Ends(ClientBeats, ServerBeats)

(* Where numbers wrap around after a few PDUs only the client sends.       *)
MCConstraint == con[Client].initial = 1 \/ accepted[Server] = 0
=============================================================================

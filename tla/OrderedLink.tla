---------------------------- MODULE OrderedLink ----------------------------
(***************************************************************************)
(* What the redundancy layer promises to the safety and retransmission     *)
(* layer above it: in each direction the PDUs handed up are, in order and  *)
(* without repetition, the first PDUs the peer has handed down.  Nothing   *)
(* is promised about how many of them arrive.                              *)
(***************************************************************************)
EXTENDS Naturals, Sequences

CONSTANTS Endpoint,   \* the two ends of the connection
          Partner,    \* the other end, a function on Endpoint
          Pdu         \* what the layer above sends

VARIABLES sent,       \* sent[e]: the PDUs that e has handed down
          delivered   \* delivered[e]: the PDUs that were handed up to e

linkVars == <<sent, delivered>>

Init ==
  /\ sent = [e \in Endpoint |-> << >>]
  /\ delivered = [e \in Endpoint |-> << >>]

HandDown(e, pdu) ==
  /\ sent' = [sent EXCEPT ![e] = Append(@, pdu)]
  /\ UNCHANGED delivered

HandUp(e) ==
  /\ Len(delivered[e]) < Len(sent[Partner[e]])
  /\ delivered' = [delivered EXCEPT
                     ![e] = Append(@, sent[Partner[e]][Len(@) + 1])]
  /\ UNCHANGED sent

Next == \E e \in Endpoint : HandUp(e) \/ \E pdu \in Pdu : HandDown(e, pdu)

Spec == Init /\ [][Next]_linkVars
=============================================================================

------------------------ MODULE MCRedundancyChannel ------------------------
(* The redundancy layer with few PDUs; the server answers less often.      *)
EXTENDS RedundancyChannel, TLC

CONSTANTS x, y, ClientSends, ServerSends

MCMaxSend == (Client :> ClientSends) @@ (Server :> ServerSends)

(* Neither the code nor a safety property tells channels or PDUs apart.    *)
MCSymmetry == Permutations(Channel) \cup Permutations(Pdu)

(* For the same reason it is enough that neighbours differ; and a datagram *)
(* is repeated only among the first two of the client.                     *)
MCConstraint ==
  /\ \A e \in Endpoint : \A i \in DOMAIN sent[e] :
       sent[e][i] = IF i % 2 = 1 THEN x ELSE y
  /\ duplicated = 0 \/ seq_tx[Client] <= 2
=============================================================================

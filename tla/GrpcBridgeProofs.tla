-------------------------- MODULE GrpcBridgeProofs --------------------------
(***************************************************************************)
(* Proofs about GrpcBridge, for every capacity of the pipes, every number  *)
(* of messages and sessions and every way to start the bridge.             *)
(***************************************************************************)
EXTENDS GrpcBridge, SequenceTheorems, TLAPS

(* What the safety properties rest on: the mutex is held exactly during a  *)
(* Write; a forwarder runs only within a session; a pipe that select       *)
(* reported still holds a notification when its callback reads it, since   *)
(* only the main thread takes any out; and only a forwarder at its end     *)
(* writes to the terminator pipe.                                          *)
Handover ==
  /\ busy = "main" <=> main = "write"
  /\ main = "write" => stream
  /\ ~InSession => fwd = "none"
  /\ fwd # "none" => pipes /\ con # "none"
  /\ "data" \in ready => main = "select" /\ data > 0
  /\ "term" \in ready /\ main = "drain" => term = 1
  /\ main = "stop" => term = 1
  /\ term = 1 => fwd \in {"done", "none"}
  /\ fifo # << >> /\ main \in {"recv", "select", "lock", "write"}
       => data > 0 \/ fwd = "notify"

Inv == TypeOK /\ Handover /\ RelayConserved

(* Taking the head of one sequence to the end of another moves nothing.    *)
LEMMA MoveHead ==
  ASSUME NEW a \in Seq(Nat), NEW b \in Seq(Nat), b # << >>
  PROVE  /\ Head(b) \in Nat /\ Tail(b) \in Seq(Nat)
         /\ Append(a, Head(b)) \in Seq(Nat)
         /\ Append(a, Head(b)) \o Tail(b) = a \o b
<1>1. /\ Head(b) \in Nat /\ Tail(b) \in Seq(Nat) /\ Len(Tail(b)) = Len(b) - 1
      /\ \A i \in 1..Len(Tail(b)) : Tail(b)[i] = b[i + 1]
      /\ Len(b) \in Nat \ {0}
  BY HeadTailProperties, EmptySeq
<1>2. Append(a, Head(b)) \in Seq(Nat) /\ Append(a, Head(b)) = a \o <<Head(b)>>
  BY <1>1, AppendProperties, AppendIsConcat
<1>3. <<Head(b)>> \in Seq(Nat)
  BY <1>1
<1>4. <<Head(b)>> \o Tail(b) = b
  <2> DEFINE h == <<Head(b)>>
             t == Tail(b)
  <2>1. h \in Seq(Nat) /\ t \in Seq(Nat) /\ Len(h) = 1 /\ h[1] = b[1]
    BY <1>1, <1>3
  <2>2. /\ h \o t \in Seq(Nat) /\ Len(h \o t) = Len(b)
        /\ \A i \in 1..Len(b) : (h \o t)[i] = IF i <= 1 THEN h[i] ELSE t[i - 1]
    <3> HIDE DEF h, t
    <3>1. /\ h \o t \in Seq(Nat) /\ Len(h \o t) = Len(h) + Len(t)
          /\ \A i \in 1..(Len(h) + Len(t)) :
               (h \o t)[i] = IF i <= Len(h) THEN h[i] ELSE t[i - Len(h)]
      BY <2>1, ConcatProperties
    <3> QED
      BY <1>1, <2>1, <3>1 DEF t
  <2>3. \A i \in 1..Len(b) : (h \o t)[i] = b[i]
    <3> SUFFICES ASSUME NEW i \in 1..Len(b)
                 PROVE  (h \o t)[i] = b[i]
      OBVIOUS
    <3>1. CASE i = 1
      BY <2>1, <2>2, <3>1
    <3>2. CASE i # 1
      <4>1. i - 1 \in 1..Len(t) /\ (i - 1) + 1 = i /\ ~(i <= 1)
        BY <1>1, <3>2
      <4>2. t[i - 1] = b[i]
        BY <1>1, <4>1
      <4> QED
        BY <2>2, <4>1, <4>2
    <3> QED
      BY <3>1, <3>2
  <2> QED
    BY <2>2, <2>3, SeqEqual
<1>5. (a \o <<Head(b)>>) \o Tail(b) = a \o (<<Head(b)>> \o Tail(b))
  BY <1>1, <1>3, ConcatAssociative, SMTT(30)
<1> QED
  BY <1>1, <1>2, <1>4, <1>5

(* The message the forwarder holds is one more at the end of the queue.    *)
LEMMA MoveHeld ==
  ASSUME NEW a \in Seq(Nat), NEW b \in Seq(Nat), NEW m \in Nat
  PROVE  /\ Append(b, m) \in Seq(Nat) /\ a \o b \in Seq(Nat)
         /\ (a \o b) \o <<m>> = a \o Append(b, m)
         /\ (a \o b) \o <<m>> = Append(a \o b, m)
         /\ (a \o b) \o << >> = a \o b
<1>1. a \o b \in Seq(Nat) /\ Append(b, m) \in Seq(Nat) /\ Append(b, m) = b \o <<m>>
  BY ConcatProperties, AppendProperties, AppendIsConcat
<1>2. <<m>> \in Seq(Nat)
  OBVIOUS
<1>3. (a \o b) \o <<m>> = a \o (b \o <<m>>)
  BY <1>2, ConcatAssociative
<1>4. Append(a \o b, m) = (a \o b) \o <<m>>
  BY <1>1, AppendIsConcat
<1>5. (a \o b) \o << >> = a \o b
  BY <1>1, ConcatEmptySeq
<1> QED
  BY <1>1, <1>3, <1>4, <1>5

(* The variables keep their types under every step.                        *)
LEMMA TypeStep ==
  ASSUME Inv, [Next]_vars
  PROVE  TypeOK'
<1> USE PipeAssumption DEF Inv, TypeOK, call, pipe, relay, env, MainAt, FwdAt
<1>1. CASE StreamCalled
  BY <1>1 DEF StreamCalled
<1>2. CASE OpenFails
  BY <1>2 DEF OpenFails, GrpcClient, RastaServer
<1>3. CASE processConnection
  BY <1>3, EmptySeq DEF processConnection, GrpcClient
<1>4. CASE Joined
  BY <1>4 DEF Joined, GrpcClient, RastaServer
<1>5. CASE StreamReturns
  BY <1>5 DEF StreamReturns
<1>6. CASE SelectData
  BY <1>6 DEF SelectData
<1>7. CASE SelectTerm
  BY <1>7 DEF SelectTerm, Handover
<1>8. CASE DrainMessage
  BY <1>8, MoveHead DEF DrainMessage
<1>9. CASE Drained
  BY <1>9 DEF Drained
<1>10. CASE TerminatorCallback
  BY <1>10 DEF TerminatorCallback, Handover
<1>11. CASE MessageReceived
  BY <1>11 DEF MessageReceived
<1>12. CASE ConnectionClosed
  BY <1>12 DEF ConnectionClosed
<1>13. CASE LockStream
  BY <1>13 DEF LockStream
<1>14. CASE WriteReturns
  BY <1>14 DEF WriteReturns
<1>15. CASE TryCancel
  BY <1>15 DEF TryCancel
<1>16. CASE CreateStream
  BY <1>16 DEF CreateStream
<1>17. CASE ReadMessage
  BY <1>17, AppendProperties DEF ReadMessage
<1>18. CASE ReadFails
  BY <1>18 DEF ReadFails, GrpcClient, RastaServer
<1>19. CASE PushMessage
  BY <1>19, AppendProperties DEF PushMessage
<1>20. CASE NotifyData
  BY <1>20 DEF NotifyData
<1>21. CASE ReleaseStream
  BY <1>21 DEF ReleaseStream
<1>22. CASE NotifyTerminator
  BY <1>22 DEF NotifyTerminator, Handover
<1>23. CASE GrpcPeer
  BY <1>23 DEF GrpcPeer
<1>24. CASE UNCHANGED vars
  BY <1>24 DEF vars
<1> QED
  BY <1>1, <1>2, <1>3, <1>4, <1>5, <1>6, <1>7, <1>8, <1>9, <1>10, <1>11,
     <1>12, <1>13, <1>14, <1>15, <1>16, <1>17, <1>18, <1>19, <1>20,
     <1>21, <1>22, <1>23, <1>24 DEF Next, Main, Forwarder

(* The hand-over facts are kept by every step.                             *)
LEMMA HandoverStep ==
  ASSUME Inv, [Next]_vars
  PROVE  Handover'
<1> USE DEF Inv, TypeOK, Handover, InSession, call, pipe, relay, env
<1>1. CASE StreamCalled
  BY <1>1 DEF StreamCalled
<1>2. CASE OpenFails
  BY <1>2 DEF OpenFails, GrpcClient, RastaServer
<1>3. CASE processConnection
  BY <1>3 DEF processConnection, GrpcClient, RastaServer
<1>4. CASE Joined
  BY <1>4 DEF Joined, GrpcClient, RastaServer
<1>5. CASE StreamReturns
  BY <1>5 DEF StreamReturns
<1>6. CASE SelectData
  BY <1>6 DEF SelectData
<1>7. CASE SelectTerm
  BY <1>7 DEF SelectTerm
<1>8. CASE DrainMessage
  BY <1>8 DEF DrainMessage
<1>9. CASE Drained
  BY <1>9 DEF Drained
<1>10. CASE TerminatorCallback
  BY <1>10 DEF TerminatorCallback
<1>11. CASE MessageReceived
  BY <1>11 DEF MessageReceived
<1>12. CASE ConnectionClosed
  BY <1>12 DEF ConnectionClosed
<1>13. CASE LockStream
  BY <1>13 DEF LockStream
<1>14. CASE WriteReturns
  BY <1>14 DEF WriteReturns
<1>15. CASE TryCancel
  BY <1>15 DEF TryCancel
<1>16. CASE CreateStream
  BY <1>16 DEF CreateStream
<1>17. CASE ReadMessage
  BY <1>17 DEF ReadMessage
<1>18. CASE ReadFails
  BY <1>18 DEF ReadFails, GrpcClient, RastaServer
<1>19. CASE PushMessage
  BY <1>19 DEF PushMessage
<1>20. CASE NotifyData
  BY <1>20 DEF NotifyData
<1>21. CASE ReleaseStream
  BY <1>21 DEF ReleaseStream
<1>22. CASE NotifyTerminator
  BY <1>22 DEF NotifyTerminator
<1>23. CASE GrpcPeer
  BY <1>23 DEF GrpcPeer
<1>24. CASE UNCHANGED vars
  BY <1>24 DEF vars
<1> QED
  BY <1>1, <1>2, <1>3, <1>4, <1>5, <1>6, <1>7, <1>8, <1>9, <1>10, <1>11,
     <1>12, <1>13, <1>14, <1>15, <1>16, <1>17, <1>18, <1>19, <1>20,
     <1>21, <1>22, <1>23, <1>24 DEF Next, Main, Forwarder

(* A step neither loses nor repeats nor reorders what is being forwarded.  *)
LEMMA RelayStep ==
  ASSUME Inv, [Next]_vars
  PROVE  RelayConserved'
<1> USE DEF Inv, RelayConserved, Held
<1>1. CASE processConnection
  <2>1. read' = << >> /\ handed' = << >> /\ fifo' = << >> /\ fwd' # "push"
    BY <1>1 DEF processConnection
  <2>2. << >> \o << >> = << >>
    BY EmptySeq, ConcatEmptySeq
  <2> QED
    BY <2>1, <2>2
<1>2. CASE Joined
  BY <1>2 DEF Joined
<1>3. CASE DrainMessage
  <2>1. /\ handed' = Append(handed, Head(fifo)) /\ fifo' = Tail(fifo)
        /\ fifo # << >> /\ UNCHANGED <<pipes, read, fwd, msg>>
    BY <1>3 DEF DrainMessage, pipe
  <2>2. handed' \o fifo' = handed \o fifo
    BY <2>1, MoveHead DEF TypeOK
  <2> QED
    BY <2>1, <2>2
<1>4. CASE ReadMessage
  <2>1. /\ fwd = "read" /\ fwd' = "push" /\ msg' = next
        /\ read' = Append(read, next) /\ UNCHANGED <<pipes, handed, fifo>>
    BY <1>4 DEF ReadMessage, pipe
  <2>2. /\ (handed \o fifo) \o << >> = handed \o fifo
        /\ (handed \o fifo) \o <<next>> = Append(handed \o fifo, next)
    BY MoveHeld DEF TypeOK
  <2> QED
    BY <2>1, <2>2
<1>5. CASE PushMessage
  <2>1. /\ fwd = "push" /\ fwd' = "notify" /\ fifo' = Append(fifo, msg)
        /\ UNCHANGED <<pipes, handed, read>>
    BY <1>5 DEF PushMessage, pipe
  <2> DEFINE longer == Append(fifo, msg)
  <2>2. handed \in Seq(Nat) /\ fifo \in Seq(Nat) /\ msg \in Nat
    BY DEF TypeOK
  <2>3. longer \in Seq(Nat) /\ (handed \o fifo) \o <<msg>> = handed \o longer
    BY <2>2, MoveHeld
  <2>4. (handed \o longer) \o << >> = handed \o longer
    BY <2>2, <2>3, MoveHeld
  <2> QED
    BY <2>1, <2>3, <2>4
<1>6. CASE Forwarder /\ ~ReadMessage /\ ~PushMessage
  <2>1. UNCHANGED <<pipes, handed, read, fifo, msg>> /\ fwd # "push" /\ fwd' # "push"
    BY <1>6 DEF Forwarder, CreateStream, ReadFails, NotifyData, ReleaseStream,
                NotifyTerminator, GrpcClient, pipe, relay
  <2> QED
    BY <2>1
<1>7. CASE \/ Main /\ ~processConnection /\ ~Joined /\ ~DrainMessage
           \/ GrpcPeer \/ UNCHANGED vars
  <2>1. UNCHANGED <<pipes, handed, read, fifo, msg, fwd>>
    BY <1>7 DEF Main, StreamCalled, OpenFails, StreamReturns, SelectData,
                SelectTerm, Drained, TerminatorCallback, MessageReceived,
                ConnectionClosed, LockStream, WriteReturns, TryCancel, GrpcPeer,
                vars, pipe, relay
  <2> QED
    BY <2>1
<1> QED
  BY <1>1, <1>2, <1>3, <1>4, <1>5, <1>6, <1>7 DEF Next, Main

(* The state in which the bridge starts.                                   *)
LEMMA InitInv ==
  ASSUME Init
  PROVE  Inv
<1> USE PipeAssumption DEF Init
<1>1. << >> \in Seq(Nat) /\ << >> \o << >> = << >>
  BY EmptySeq, ConcatEmptySeq
<1>2. TypeOK
  <2>1. 0 \in 0..PipeSize /\ main \in MainAt /\ fwd \in FwdAt
    BY DEF MainAt, FwdAt, GrpcClient
  <2>2. fifo \in Seq(Nat) /\ read \in Seq(Nat) /\ handed \in Seq(Nat)
    BY <1>1
  <2>3. data \in 0..PipeSize /\ term \in 0..1 /\ next \in Nat
    BY <2>1
  <2> QED
    BY <2>1, <2>2, <2>3 DEF TypeOK
<1>3. Handover /\ RelayConserved
  BY DEF Handover, RelayConserved, InSession, GrpcClient
<1> QED
  BY <1>2, <1>3 DEF Inv

(* The inductive invariant holds throughout every behaviour.               *)
THEOREM Invariance == Spec => []Inv
<1>1. Inv /\ [Next]_vars => Inv'
  BY TypeStep, HandoverStep, RelayStep DEF Inv
<1> QED
  BY <1>1, InitInv, PTL DEF Spec

(* The two threads keep what they share well typed; in particular neither  *)
(* pipe overflows and no callback reads from an empty pipe.                *)
THEOREM BridgeTyped == Spec => []TypeOK
<1>1. Inv => TypeOK
  BY DEF Inv
<1> QED
  BY <1>1, Invariance, PTL

(* Whatever the interleaving of forwarder, event loop and gRPC peer, the   *)
(* messages read from the gRPC stream reach rasta_send once and in order.  *)
THEOREM RelayKeepsMessages == Spec => []RelayConserved
<1>1. Inv => RelayConserved
  BY DEF Inv
<1> QED
  BY <1>1, Invariance, PTL

(* A message in s_message_fifo is always announced to the main thread.     *)
THEOREM NoMessageStranded == Spec => []NothingStranded
<1>1. Inv => NothingStranded
  BY DEF Inv, Handover, NothingStranded
<1> QED
  BY <1>1, Invariance, PTL

(* The mutex s_busy keeps the stream alive during a Write.                 *)
THEOREM StreamLivesDuringWrite == Spec => []WriteUsesLiveStream
<1>1. Inv => WriteUsesLiveStream
  BY DEF Inv, Handover, WriteUsesLiveStream
<1> QED
  BY <1>1, Invariance, PTL

(* The forwarder never outlives the pipes and the connection it uses.      *)
THEOREM ForwarderWithinSession == Spec => []ForwarderOwnsPipes
<1>1. Inv => ForwarderOwnsPipes
  BY DEF Inv, Handover, ForwarderOwnsPipes
<1> QED
  BY <1>1, Invariance, PTL
=============================================================================

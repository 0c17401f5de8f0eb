---------------------- MODULE TransportChannelsProofs ----------------------
(***************************************************************************)
(* The transport channels of a process, for any number of channels and     *)
(* descriptors: its types, who owns a descriptor, and how many leak.       *)
(***************************************************************************)
EXTENDS TransportChannels, FiniteSetTheorems, WellFoundedInduction, TLAPS

(***************************************************************************)
(* The inductive invariant, of a process that has not aborted.             *)
(***************************************************************************)
\* A connected channel has a descriptor of its own, which is a connection and
\* the one its receive event watches.
OwnsStream(s) ==
  \A i \in Channel :
    /\ s.ch[i].enabled => /\ s.ch[i].connected
                          /\ s.ch[i].event_fd = s.ch[i].file_descriptor
    /\ s.ch[i].connected =>
         /\ s.ch[i].file_descriptor # None
         /\ s.fds[s.ch[i].file_descriptor] \in {"quiet", "readable", "eof"}
         /\ \A j \in Channel : /\ s.ch[j].connected
                               /\ s.ch[j].file_descriptor = s.ch[i].file_descriptor
                               => j = i

\* A client's channel uses its own socket, whose descriptor is open and no other
\* socket's; before the first dial it is fresh.
OwnsSocket(s) ==
  ~s.listens =>
    /\ s.role = "client"
    /\ \A i \in Channel :
         /\ ~s.sock[i].enabled
         /\ s.ch[i].associated_socket \in {0, i}
         /\ s.ch[i].connected => /\ s.ch[i].associated_socket = i
                                 /\ s.ch[i].file_descriptor = s.sock[i].file_descriptor
         /\ s.sock[i].file_descriptor # None =>
              /\ s.fds[s.sock[i].file_descriptor] # "free"
              /\ \A j \in Channel : s.sock[j].file_descriptor = s.sock[i].file_descriptor => j = i
         /\ s.ch[i].associated_socket = 0 => /\ s.sock[i].file_descriptor # None
                                             /\ s.fds[s.sock[i].file_descriptor] = "fresh"

\* Descriptors that carry no connection and are not lost either: the listening
\* ones of a server, and those a client has not dialled yet.
Spare(s) ==
  IF s.listens THEN 0..(N - 1)
  ELSE {s.sock[i].file_descriptor : i \in {j \in Channel : s.ch[j].associated_socket = 0}}

\* All the other open descriptors, unless a channel is connected over them and
\* its peer is there: those that leaked, and those that will.
Dead(s) ==
  {f \in Fd \ Spare(s) :
     /\ s.fds[f] # "free"
     /\ \A i \in Channel : s.ch[i].connected /\ s.ch[i].file_descriptor = f => s.fds[f] = "eof"}

\* Every one of them goes back to a mishap.
DeadBounded(s) == Cardinality(Dead(s)) <= s.mishaps

Sound(s) == OwnsStream(s) /\ OwnsSocket(s) /\ DeadBounded(s)

AllUnconnected(s) == \A i \in Channel : ~s.ch[i].connected

\* What every operation preserves: the types and, until the process aborts, the
\* rest.
Good(s) == s \in Process /\ (s.aborted \/ Sound(s))

Inv ==
  /\ TypeOK
  /\ Alive => DeadBounded(p)
  /\ Alive /\ call # "cleaned" => Sound(p)
  /\ Alive /\ call = "none" /\ ~p.listens => AllUnconnected(p)
  /\ Alive /\ call = "accept" => p.listens

-----------------------------------------------------------------------------
(* Doing something for each channel.                                       *)

(* A nonempty set of natural numbers has a smallest element.               *)
LEMMA SmallestNat ==
  ASSUME NEW S \in SUBSET Nat, S # {}
  PROVE  \E x \in S : \A y \in S : x <= y
<1> DEFINE R == OpToRel(<, Nat)
<1>1. IsWellFoundedOn(R, Nat)
  BY NatLessThanWellFounded, Zenon
<1>2. R = {ss \in Nat \X Nat : ss[1] < ss[2]}
  BY DEF OpToRel
<1> HIDE DEF R
<1>3. PICK x \in S : \A y \in S : ~(<<y, x>> \in R)
  BY <1>1, WFMin, Zenon
<1>4. ASSUME NEW y \in S PROVE x <= y
  <2>1. x \in Nat /\ y \in Nat /\ <<y, x>> \in Nat \X Nat /\ <<y, x>> \notin R
    BY <1>3
  <2>2. ~(<<y, x>>[1] < <<y, x>>[2])
    BY <1>2, <2>1
  <2> QED BY <2>1, <2>2
<1> QED BY <1>4

(* What holds of 0 and goes from each number to the next holds of N: the   *)
(* set of the numbers up to N for which it does is all of them.            *)
LEMMA CountUp ==
  ASSUME NEW D \in SUBSET (0..N), 0 \in D,
         \A n \in 1..N : n - 1 \in D => n \in D
  PROVE  D = 0..N
<1>1. N \in Nat
  BY BoundsAssumption
<1> DEFINE Bad == (0..N) \ D
<1>2. CASE Bad # {}
  <2>1. Bad \in SUBSET Nat
    BY <1>1
  <2>2. PICK k \in Bad : \A j \in Bad : k <= j
    BY <1>2, <2>1, SmallestNat, Zenon
  <2>3. k \in 1..N /\ k - 1 \in 0..N
    BY <1>1, <2>2
  <2>4. k - 1 \in D
    BY <2>2, <2>3
  <2> QED BY <2>2, <2>3, <2>4
<1> QED BY <1>2, Zenon

(* A step function that stays in a set can be iterated over the channels.  *)
LEMMA IterationExists ==
  ASSUME NEW S, NEW a \in S, NEW g \in [S -> [1..N -> S]]
  PROVE  \E h \in [0..N -> S] :
           h[0] = a /\ \A n \in 1..N : h[n] = g[h[n - 1]][n]
<1>1. N \in Nat
  BY BoundsAssumption
<1> DEFINE Upto(m, h) == h[0] = a /\ \A n \in 1..m : h[n] = g[h[n - 1]][n]
           D == {m \in 0..N : \E h \in [0..N -> S] : Upto(m, h)}
<1>2. 0 \in D
  <2>1. Upto(0, [n \in 0..N |-> a]) /\ [n \in 0..N |-> a] \in [0..N -> S] /\ 0 \in 0..N
    BY <1>1
  <2> QED BY <2>1, Zenon
<1>3. ASSUME NEW m \in 1..N, m - 1 \in D
      PROVE  m \in D
  <2>1. PICK h \in [0..N -> S] : Upto(m - 1, h)
    BY <1>3
  <2>2. m \in 0..N /\ m - 1 \in 0..N /\ m # 0
    BY <1>1
  <2>3. h[m - 1] \in S
    BY <2>2
  <2>4. g[h[m - 1]][m] \in S
    BY <2>3, Zenon
  <2> DEFINE k == [h EXCEPT ![m] = g[h[m - 1]][m]]
  <2>5. k \in [0..N -> S] /\ k[0] = a
    BY <1>1, <2>1, <2>2, <2>4
  <2>6. ASSUME NEW n \in 1..m PROVE k[n] = g[k[n - 1]][n]
    <3>1. n \in 0..N /\ n - 1 \in 0..N /\ n - 1 # m
      BY <1>1
    <3>2. k[n - 1] = h[n - 1]
      BY <3>1
    <3>3. CASE n = m
      BY <2>2, <3>1, <3>2, <3>3
    <3>4. CASE n # m
      <4>1. n \in 1..(m - 1)
        BY <3>4, <1>1
      <4>2. k[n] = h[n] /\ h[n] = g[h[n - 1]][n]
        BY <2>1, <3>1, <3>4, <4>1
      <4> QED BY <3>2, <4>2
    <3> QED BY <3>3, <3>4
  <2> HIDE DEF k
  <2>7. Upto(m, k)
    BY <2>5, <2>6
  <2> QED BY <2>2, <2>5, <2>7, Zenon
<1>4. D = 0..N
  <2> HIDE DEF Upto
  <2>1. D \in SUBSET (0..N)
    OBVIOUS
  <2> HIDE DEF D
  <2>2. \A n \in 1..N : n - 1 \in D => n \in D
    BY <1>3, Zenon
  <2> QED BY <1>2, <2>1, <2>2, CountUp, Zenon
<1>5. N \in D
  <2> HIDE DEF D
  <2> QED BY <1>1, <1>4
<1> QED BY <1>5

(* What is in a set G[n] after n channels is in G[N] after all of them.    *)
LEMMA IterationStays ==
  ASSUME NEW G, NEW h, h[0] \in G[0],
         \A n \in 1..N : h[n - 1] \in G[n - 1] => h[n] \in G[n]
  PROVE  h[N] \in G[N]
<1> DEFINE D == {n \in 0..N : h[n] \in G[n]}
<1>1. N \in Nat
  BY BoundsAssumption
<1>2. D \in SUBSET (0..N) /\ 0 \in D /\ \A n \in 1..N : n - 1 \in D => n \in D
  BY <1>1
<1> HIDE DEF D
<1>3. D = 0..N
  BY <1>2, CountUp, Zenon
<1>4. N \in D
  BY <1>1, <1>3
<1> QED BY <1>4 DEF D

-----------------------------------------------------------------------------
(* What the operations on one channel do to the process.                   *)

\* A channel, a socket
Chan == [file_descriptor : Fd \cup {None}, connected : BOOLEAN,
         event_fd : Fd \cup {None}, enabled : BOOLEAN, associated_socket : {0} \cup Channel]
Sock == [file_descriptor : Fd \cup {None}, event_fd : Fd, enabled : BOOLEAN]

(* The fields of a process have their types, and changing one of them to a *)
(* value of its type gives a process.                                      *)
LEMMA Fields ==
  ASSUME NEW s \in Process
  PROVE  /\ s.fds \in [Fd -> Status] /\ s.ch \in [Channel -> Chan] /\ s.sock \in [Channel -> Sock]
         /\ s.listens \in BOOLEAN /\ s.role \in {"client", "server"}
         /\ s.state \in {"CLOSED", "START", "UP", "RETRREQ", "RETRRUN"}
         /\ s.aborted \in BOOLEAN /\ s.mishaps \in Nat
  BY DEF Process, Chan, Sock

\* r is s with other descriptors, channels and sockets
Changed(s, r, fds, ch, sock) ==
  /\ r \in Process
  /\ r.fds = fds /\ r.ch = ch /\ r.sock = sock
  /\ r.listens = s.listens /\ r.role = s.role /\ r.state = s.state

(* Aborting and counting a mishap change nothing else.                     *)
LEMMA Counters ==
  ASSUME NEW s \in Process
  PROVE  /\ Changed(s, Abort(s), s.fds, s.ch, s.sock) /\ Abort(s).aborted = TRUE
         /\ Abort(s).mishaps = s.mishaps
         /\ Changed(s, Mishap(s), s.fds, s.ch, s.sock) /\ Mishap(s).aborted = s.aborted
         /\ Mishap(s).mishaps = s.mishaps + 1
<1>1. s.mishaps \in Nat /\ s.mishaps + 1 \in Nat
  BY Fields
<1>2. Changed(s, Abort(s), s.fds, s.ch, s.sock) /\ Abort(s).aborted = TRUE /\ Abort(s).mishaps = s.mishaps
  BY Zenon DEF Process, Changed, Abort
<1>3. /\ Changed(s, Mishap(s), s.fds, s.ch, s.sock) /\ Mishap(s).aborted = s.aborted
      /\ Mishap(s).mishaps = s.mishaps + 1
  BY <1>1 DEF Process, Changed, Mishap
<1> QED BY <1>2, <1>3

(* One descriptor is given another status.                                 *)
LEMMA FdsSet ==
  ASSUME NEW s \in Process, NEW f, NEW v \in Status
  PROVE  /\ Changed(s, [s EXCEPT !.fds[f] = v], [s.fds EXCEPT ![f] = v], s.ch, s.sock)
         /\ [s EXCEPT !.fds[f] = v].aborted = s.aborted
         /\ [s EXCEPT !.fds[f] = v].mishaps = s.mishaps
  BY DEF Process, Changed

(* One channel is given other fields.                                      *)
LEMMA ChSet ==
  ASSUME NEW s \in Process, NEW i \in Channel, NEW c \in Chan
  PROVE  /\ Changed(s, [s EXCEPT !.ch[i] = c], s.fds, [s.ch EXCEPT ![i] = c], s.sock)
         /\ [s EXCEPT !.ch[i] = c].aborted = s.aborted
         /\ [s EXCEPT !.ch[i] = c].mishaps = s.mishaps
  BY Zenon DEF Process, Changed, Chan

(* Two fields of a channel are changed.                                    *)
LEMMA TwoFields ==
  ASSUME NEW s \in Process, NEW i \in Channel
  PROVE  [s EXCEPT !.ch[i].file_descriptor = None, !.ch[i].connected = FALSE]
           = [s EXCEPT !.ch[i] = [s.ch[i] EXCEPT !.file_descriptor = None, !.connected = FALSE]]
  BY Zenon DEF Process

(* One socket is given other fields.                                       *)
LEMMA SockSet ==
  ASSUME NEW s \in Process, NEW k \in Channel, NEW c \in Sock
  PROVE  /\ Changed(s, [s EXCEPT !.sock[k] = c], s.fds, s.ch, [s.sock EXCEPT ![k] = c])
         /\ [s EXCEPT !.sock[k] = c].aborted = s.aborted
         /\ [s EXCEPT !.sock[k] = c].mishaps = s.mishaps
  BY Zenon DEF Process, Changed, Sock

(* close() of a descriptor frees it, or aborts.                            *)
LEMMA CloseFd ==
  ASSUME NEW s \in Process, NEW f \in Fd \cup {None}
  PROVE  /\ bsd_close(s, f) \in Process
         /\ \/ bsd_close(s, f).aborted
            \/ /\ Changed(s, bsd_close(s, f), IF f = None THEN s.fds ELSE [s.fds EXCEPT ![f] = "free"],
                          s.ch, s.sock)
               /\ bsd_close(s, f).aborted = s.aborted /\ bsd_close(s, f).mishaps = s.mishaps
<1>1. CASE f = None
  BY <1>1 DEF bsd_close, Changed
<1>2. CASE f # None /\ s.fds[f] = "free"
  BY <1>2, Counters, Zenon DEF bsd_close, Changed
<1>3. CASE f # None /\ s.fds[f] # "free"
  <2>1. "free" \in Status
    BY DEF Status
  <2>2. bsd_close(s, f) = [s EXCEPT !.fds[f] = "free"]
    BY <1>3 DEF bsd_close
  <2>3. /\ Changed(s, bsd_close(s, f), [s.fds EXCEPT ![f] = "free"], s.ch, s.sock)
        /\ bsd_close(s, f).aborted = s.aborted /\ bsd_close(s, f).mishaps = s.mishaps
    <3> DEFINE r == [s EXCEPT !.fds[f] = "free"]
    <3>1. /\ Changed(s, r, [s.fds EXCEPT ![f] = "free"], s.ch, s.sock)
          /\ r.aborted = s.aborted /\ r.mishaps = s.mishaps
      BY <2>1, FdsSet, Zenon
    <3> HIDE DEF r
    <3> QED BY <2>2, <3>1, Zenon DEF r
  <2> QED BY <1>3, <2>3, Zenon DEF Changed
<1> QED BY <1>1, <1>2, <1>3

(* The lowest free descriptor is one of them.                              *)
LEMMA NewFdFree ==
  ASSUME NEW s \in Process, Free(s) # {}
  PROVE  NewFd(s) \in Fd /\ s.fds[NewFd(s)] = "free"
<1>1. Free(s) \in SUBSET Nat
  BY BoundsAssumption DEF Free, Fd
<1>2. \E x \in Free(s) : \A y \in Free(s) : x <= y
  BY <1>1, SmallestNat, Zenon
<1>3. NewFd(s) \in Free(s)
  BY <1>2 DEF NewFd, Min
<1> QED BY <1>3 DEF Free

\* Nothing but the channels, the sockets, the descriptors and the mishaps differ
Others(s, r) ==
  r \in Process /\ r.listens = s.listens /\ r.role = s.role /\ r.aborted = s.aborted

\* Channel i gave up its descriptor.
Unhooked(s, r, i) ==
  /\ Others(s, r) /\ r.mishaps = s.mishaps
  /\ \A j \in Channel \ {i} : r.ch[j] = s.ch[j]
  /\ ~r.ch[i].connected /\ ~r.ch[i].enabled
  /\ r.ch[i].associated_socket = s.ch[i].associated_socket
  /\ r.fds = IF s.ch[i].connected /\ s.ch[i].file_descriptor # None
             THEN [s.fds EXCEPT ![s.ch[i].file_descriptor] = "free"] ELSE s.fds

(* transport_close_channel unhooks the channel, or aborts.                 *)
LEMMA CloseTransport ==
  ASSUME NEW s \in Process, NEW i \in Channel
  PROVE  /\ transport_close_channel(s, i) \in Process
         /\ \/ transport_close_channel(s, i).aborted
            \/ /\ Unhooked(s, transport_close_channel(s, i), i)
               /\ transport_close_channel(s, i).sock = s.sock
<1> DEFINE c1 == [s.ch[i] EXCEPT !.enabled = FALSE]
           t == [s EXCEPT !.ch[i] = c1]
           f == s.ch[i].file_descriptor
           u == bsd_close(t, f)
           c2 == [u.ch[i] EXCEPT !.file_descriptor = None, !.connected = FALSE]
           r == transport_close_channel(s, i)
<1>0. s.ch[i] \in Chan
  BY Fields
<1>1. c1 \in Chan /\ f \in Fd \cup {None}
      /\ c1.associated_socket = s.ch[i].associated_socket /\ ~c1.enabled /\ c1.connected = s.ch[i].connected
  BY <1>0, Zenon DEF Chan
<1>2. t = [s EXCEPT !.ch[i].enabled = FALSE]
  OBVIOUS
<1>3. r = IF s.ch[i].connected
          THEN [u EXCEPT !.ch[i].file_descriptor = None, !.ch[i].connected = FALSE] ELSE t
  BY <1>2, Zenon DEF transport_close_channel
<1> HIDE DEF r, t, c1
<1>4. Changed(s, t, s.fds, [s.ch EXCEPT ![i] = c1], s.sock) /\ t.aborted = s.aborted /\ t.mishaps = s.mishaps
  BY <1>1, ChSet DEF t
<1>5. s.ch \in [Channel -> Chan]
  BY Fields
<1>6. CASE ~s.ch[i].connected
  <2>1. r = t
    BY <1>3, <1>6
  <2>2. \A j \in Channel \ {i} : t.ch[j] = s.ch[j]
    BY <1>4, <1>5 DEF Changed
  <2>3. t.ch[i] = c1
    BY <1>4, <1>5 DEF Changed
  <2> QED BY <1>1, <1>4, <1>6, <2>1, <2>2, <2>3, Zenon DEF Changed, Unhooked, Others, r
<1>7. CASE s.ch[i].connected
  <2>0. t \in Process
    BY <1>4 DEF Changed
  <2>1. u \in Process /\
        \/ u.aborted
        \/ /\ Changed(t, u, IF f = None THEN t.fds ELSE [t.fds EXCEPT ![f] = "free"], t.ch, t.sock)
           /\ u.aborted = t.aborted /\ u.mishaps = t.mishaps
    BY <2>0, <1>1, CloseFd, Zenon
  <2> HIDE DEF u, f
  <2>7. [u EXCEPT !.ch[i].file_descriptor = None, !.ch[i].connected = FALSE] = [u EXCEPT !.ch[i] = c2]
    BY <2>1, TwoFields, Zenon
  <2>2. u.ch[i] \in Chan /\ u.ch \in [Channel -> Chan]
    BY <2>1, Fields
  <2>3. c2 \in Chan /\ ~c2.connected /\ c2.enabled = u.ch[i].enabled
        /\ c2.associated_socket = u.ch[i].associated_socket
    BY <2>2, Zenon DEF Chan
  <2> HIDE DEF c2
  <2>4. /\ Changed(u, r, u.fds, [u.ch EXCEPT ![i] = c2], u.sock)
        /\ r.aborted = u.aborted /\ r.mishaps = u.mishaps
    BY <1>3, <1>7, <2>1, <2>3, <2>7, ChSet
  <2>5. CASE u.aborted
    BY <2>4, <2>5 DEF Changed, r
  <2>6. CASE ~u.aborted
    <3>1. /\ Changed(t, u, IF f = None THEN t.fds ELSE [t.fds EXCEPT ![f] = "free"], t.ch, t.sock)
          /\ u.aborted = t.aborted /\ u.mishaps = t.mishaps
      BY <2>1, <2>6
    <3>2. /\ r.fds = (IF f = None THEN s.fds ELSE [s.fds EXCEPT ![f] = "free"])
          /\ r.sock = s.sock /\ Others(s, r) /\ r.mishaps = s.mishaps
      BY <1>4, <2>4, <3>1 DEF Changed, Others
    <3>3. u.ch = [s.ch EXCEPT ![i] = c1] /\ r.ch = [u.ch EXCEPT ![i] = c2]
      BY <1>4, <2>4, <3>1 DEF Changed
    <3>4. \A j \in Channel \ {i} : r.ch[j] = s.ch[j]
      BY <1>5, <3>3
    <3>5. r.ch[i] = c2 /\ u.ch[i] = c1
      BY <1>5, <2>2, <3>3
    <3>6. Unhooked(s, r, i)
      BY <1>1, <1>7, <2>3, <3>2, <3>4, <3>5 DEF Unhooked, f
    <3> QED BY <3>2, <3>6 DEF Others, r
  <2> QED BY <2>5, <2>6
<1> QED BY <1>6, <1>7

\* redundancy_channel_close: the socket of a client's channel is given up too.
Closed(s, r, i) ==
  LET k == s.ch[i].associated_socket IN
  /\ Unhooked(s, r, i)
  /\ IF s.role = "client"
     THEN /\ k # 0
          /\ \A j \in Channel \ {k} : r.sock[j] = s.sock[j]
          /\ r.sock[k].file_descriptor = None /\ r.sock[k].enabled = s.sock[k].enabled
     ELSE r.sock = s.sock

(* Closing one channel in redundancy_channel_close.                        *)
LEMMA CloseChannelDoes ==
  ASSUME NEW s \in Process, NEW i \in Channel
  PROVE  /\ CloseChannel(s, i) \in Process
         /\ CloseChannel(s, i).aborted \/ Closed(s, CloseChannel(s, i), i)
<1> DEFINE t == transport_close_channel(s, i)
           k == t.ch[i].associated_socket
           r == CloseChannel(s, i)
           c == [t.sock[k] EXCEPT !.file_descriptor = None]
<1>1. t \in Process /\ (t.aborted \/ (Unhooked(s, t, i) /\ t.sock = s.sock))
  BY CloseTransport, Zenon
<1>2. r = IF t.role # "client" THEN t ELSE IF k = 0 THEN Abort(t)
          ELSE [t EXCEPT !.sock[k].file_descriptor = None]
  BY Zenon DEF CloseChannel
<1>6. [t EXCEPT !.sock[k].file_descriptor = None] = [t EXCEPT !.sock[k] = c]
  OBVIOUS
<1> HIDE DEF t, r
<1>3. CASE t.role # "client"
  BY <1>1, <1>2, <1>3 DEF Closed, Unhooked, Others, r
<1>4. CASE t.role = "client" /\ k = 0
  <2>1. r = Abort(t)
    BY <1>2, <1>4
  <2>2. r \in Process /\ r.aborted
    BY <1>1, <2>1, Counters, Zenon DEF Changed
  <2> QED BY <2>2 DEF r
<1>5. CASE t.role = "client" /\ k # 0
  <2>1. t.ch[i] \in Chan /\ t.sock \in [Channel -> Sock]
    BY <1>1, Fields
  <2>2. k \in Channel
    BY <1>5, <2>1 DEF Chan
  <2> HIDE DEF k
  <2>3. c \in Sock /\ c.file_descriptor = None /\ c.enabled = t.sock[k].enabled
    BY <2>1, <2>2 DEF Sock
  <2> HIDE DEF c
  <2>4. /\ Changed(t, r, t.fds, t.ch, [t.sock EXCEPT ![k] = c])
        /\ r.aborted = t.aborted /\ r.mishaps = t.mishaps
    BY <1>1, <1>2, <1>5, <1>6, <2>2, <2>3, SockSet, Zenon DEF k, c
  <2>5. CASE t.aborted
    BY <2>4, <2>5 DEF Changed, r
  <2>6. CASE ~t.aborted
    <3>1. Unhooked(s, t, i) /\ t.sock = s.sock
      BY <1>1, <2>6
    <3>2. k = s.ch[i].associated_socket /\ s.role = "client"
      BY <1>5, <3>1 DEF Unhooked, Others, k
    <3>3. Unhooked(s, r, i)
      BY <2>4, <3>1 DEF Unhooked, Others, Changed
    <3>4. /\ \A j \in Channel \ {k} : r.sock[j] = s.sock[j]
          /\ r.sock[k].file_descriptor = None /\ r.sock[k].enabled = s.sock[k].enabled
      BY <2>1, <2>2, <2>3, <2>4, <3>1 DEF Changed
    <3>5. Closed(s, r, i)
      BY <1>5, <3>2, <3>3, <3>4 DEF Closed
    <3> QED BY <2>4, <3>5 DEF Changed, r
  <2> QED BY <2>5, <2>6
<1> QED
  <2>1. t.role \in {"client", "server"}
    BY <1>1, Fields
  <2> QED BY <1>3, <1>4, <1>5, <2>1

-----------------------------------------------------------------------------
(* Each operation keeps a process sound.                                   *)

(* When no descriptor dies, or one does with a mishap, the bound is kept.  *)
LEMMA DeadKept ==
  ASSUME NEW s \in Process, DeadBounded(s), NEW r \in Process,
         \/ Dead(r) \subseteq Dead(s) /\ r.mishaps >= s.mishaps
         \/ \E x : Dead(r) \subseteq Dead(s) \cup {x} /\ r.mishaps = s.mishaps + 1
  PROVE  DeadBounded(r)
<1>1. Descriptors - 1 \in Int /\ 0 \in Int
  BY BoundsAssumption
<1>2. IsFiniteSet(Fd)
  BY <1>1, FS_Interval DEF Fd
<1>3. Dead(s) \in SUBSET Fd /\ Dead(r) \in SUBSET Fd
  BY Zenon DEF Dead
<1>4. IsFiniteSet(Dead(s)) /\ IsFiniteSet(Dead(r))
  BY <1>2, <1>3, FS_Subset, Zenon
<1>5. Cardinality(Dead(s)) \in Nat /\ Cardinality(Dead(r)) \in Nat /\ s.mishaps \in Nat /\ r.mishaps \in Nat
  BY <1>4, FS_CardinalityType, Fields
<1>6. CASE Dead(r) \subseteq Dead(s) /\ r.mishaps >= s.mishaps
  <2>1. Cardinality(Dead(r)) <= Cardinality(Dead(s))
    BY <1>4, <1>6, FS_Subset
  <2> QED BY <1>5, <1>6, <2>1 DEF DeadBounded
<1>7. ASSUME NEW x, Dead(r) \subseteq Dead(s) \cup {x}, r.mishaps = s.mishaps + 1
      PROVE  DeadBounded(r)
  <2>1. /\ IsFiniteSet(Dead(s) \cup {x})
        /\ Cardinality(Dead(s) \cup {x}) = IF x \in Dead(s) THEN Cardinality(Dead(s))
                                          ELSE Cardinality(Dead(s)) + 1
    BY <1>4, FS_AddElement
  <2>2. Cardinality(Dead(r)) <= Cardinality(Dead(s) \cup {x})
    BY <1>7, <2>1, FS_Subset
  <2> QED BY <1>5, <1>7, <2>1, <2>2 DEF DeadBounded
<1> QED BY <1>6, <1>7

(* The fields the conditions are about have their types.                   *)
LEMMA ChannelTypes ==
  ASSUME NEW s \in Process, NEW i \in Channel
  PROVE  /\ s.ch[i].file_descriptor \in Fd \cup {None} /\ s.sock[i].file_descriptor \in Fd \cup {None}
         /\ s.ch[i].event_fd \in Fd \cup {None} /\ s.sock[i].event_fd \in Fd
         /\ s.ch[i].connected \in BOOLEAN /\ s.ch[i].enabled \in BOOLEAN /\ s.sock[i].enabled \in BOOLEAN
         /\ s.ch[i].associated_socket \in {0} \cup Channel
         /\ None \notin Fd /\ 0 \notin Channel
<1>1. s.ch[i] \in Chan /\ s.sock[i] \in Sock
  BY Fields
<1> QED BY <1>1, BoundsAssumption DEF Chan, Sock, Fd, None, Channel

(* Closing a channel.                                                      *)
LEMMA ClosedSound ==
  ASSUME NEW s \in Process, NEW i \in Channel, Sound(s), NEW r, Closed(s, r, i)
  PROVE  Sound(r)
<1> DEFINE f == s.ch[i].file_descriptor
           k == s.ch[i].associated_socket
<1>1. /\ r \in Process /\ r.listens = s.listens /\ r.role = s.role /\ r.mishaps = s.mishaps
      /\ \A j \in Channel \ {i} : r.ch[j] = s.ch[j]
      /\ ~r.ch[i].connected /\ ~r.ch[i].enabled /\ r.ch[i].associated_socket = k
  BY DEF Closed, Unhooked, Others
<1>2. s.fds \in [Fd -> Status] /\ s.sock \in [Channel -> Sock]
  BY Fields
<1>3. f \in Fd \cup {None} /\ (s.ch[i].connected => f \in Fd)
  BY ChannelTypes DEF Sound, OwnsStream
<1>4. /\ s.ch[i].connected => r.fds = [s.fds EXCEPT ![f] = "free"]
      /\ ~s.ch[i].connected => r.fds = s.fds
  BY <1>3, ChannelTypes DEF Closed, Unhooked
<1>5. ASSUME NEW j \in Channel \ {i}, s.ch[j].connected
      PROVE  r.fds[s.ch[j].file_descriptor] = s.fds[s.ch[j].file_descriptor]
  <2>1. s.ch[j].file_descriptor \in Fd /\ (s.ch[i].connected => s.ch[j].file_descriptor # f)
    BY <1>5, ChannelTypes DEF Sound, OwnsStream
  <2> QED BY <1>2, <1>3, <1>4, <2>1, ChannelTypes
<1>6. OwnsStream(r)
  <2> SUFFICES ASSUME NEW j \in Channel
               PROVE  /\ r.ch[j].enabled => /\ r.ch[j].connected
                                             /\ r.ch[j].event_fd = r.ch[j].file_descriptor
                      /\ r.ch[j].connected =>
                           /\ r.ch[j].file_descriptor # None
                           /\ r.fds[r.ch[j].file_descriptor] \in {"quiet", "readable", "eof"}
                           /\ \A l \in Channel : /\ r.ch[l].connected
                                                 /\ r.ch[l].file_descriptor = r.ch[j].file_descriptor
                                                 => l = j
    BY Zenon DEF OwnsStream
  <2>1. CASE j = i
    BY <1>1, <2>1
  <2>2. CASE j # i
    <3>1. r.ch[j] = s.ch[j] /\ \A l \in Channel : r.ch[l].connected => r.ch[l] = s.ch[l]
      BY <1>1, <2>2
    <3> QED BY <1>5, <2>2, <3>1 DEF Sound, OwnsStream
  <2> QED BY <2>1, <2>2
<1>7. OwnsSocket(r)
  <2> SUFFICES ASSUME ~s.listens PROVE OwnsSocket(r)
    BY <1>1 DEF OwnsSocket
  <2>1. /\ s.role = "client" /\ k = i
        /\ \A j \in Channel \ {i} : r.sock[j] = s.sock[j]
        /\ r.sock[i].file_descriptor = None /\ r.sock[i].enabled = s.sock[i].enabled
    BY DEF Closed, Sound, OwnsSocket
  <2>2. ASSUME NEW j \in Channel \ {i}, s.sock[j].file_descriptor # None
        PROVE  r.fds[s.sock[j].file_descriptor] = s.fds[s.sock[j].file_descriptor]
    <3>1. s.sock[j].file_descriptor \in Fd /\ (s.ch[i].connected => s.sock[j].file_descriptor # f)
      BY <2>2, ChannelTypes DEF Sound, OwnsSocket
    <3> QED BY <1>2, <1>3, <1>4, <3>1, ChannelTypes
  <2> SUFFICES ASSUME NEW j \in Channel
               PROVE  /\ ~r.sock[j].enabled
                      /\ r.ch[j].associated_socket \in {0, j}
                      /\ r.ch[j].connected => /\ r.ch[j].associated_socket = j
                                              /\ r.ch[j].file_descriptor = r.sock[j].file_descriptor
                      /\ r.sock[j].file_descriptor # None =>
                           /\ r.fds[r.sock[j].file_descriptor] # "free"
                           /\ \A l \in Channel :
                                r.sock[l].file_descriptor = r.sock[j].file_descriptor => l = j
                      /\ r.ch[j].associated_socket = 0 =>
                           /\ r.sock[j].file_descriptor # None
                           /\ r.fds[r.sock[j].file_descriptor] = "fresh"
    BY <1>1, <2>1, Zenon DEF OwnsSocket
  <2>3. CASE j = i
    BY <1>1, <2>1, <2>3, ChannelTypes DEF Sound, OwnsSocket
  <2>4. CASE j # i
    <3>1. r.ch[j] = s.ch[j] /\ r.sock[j] = s.sock[j]
      BY <1>1, <2>1, <2>4
    <3>2. \A l \in Channel : l = i \/ r.sock[l] = s.sock[l]
      BY <2>1
    <3> QED BY <2>1, <2>2, <2>4, <3>1, <3>2 DEF Sound, OwnsSocket
  <2> QED BY <2>3, <2>4
<1>8. Spare(r) = Spare(s)
  <2>1. CASE s.listens
    BY <1>1, <2>1 DEF Spare
  <2>2. CASE ~s.listens
    <3>1. k = i /\ k # 0 /\ \A j \in Channel \ {i} : r.sock[j] = s.sock[j]
      BY <2>2 DEF Closed, Sound, OwnsSocket
    <3>2. {j \in Channel : r.ch[j].associated_socket = 0} = {j \in Channel : s.ch[j].associated_socket = 0}
      BY <1>1, <3>1
    <3>3. \A j \in Channel : s.ch[j].associated_socket = 0 => r.sock[j] = s.sock[j]
      BY <3>1
    <3> QED BY <1>1, <2>2, <3>2, <3>3 DEF Spare
  <2> QED BY <2>1, <2>2
<1>9. Dead(r) \subseteq Dead(s)
  <2> SUFFICES ASSUME NEW x \in Fd, x \notin Spare(s), r.fds[x] # "free",
                      \A j \in Channel : r.ch[j].connected /\ r.ch[j].file_descriptor = x => r.fds[x] = "eof"
               PROVE  /\ s.fds[x] # "free"
                      /\ \A j \in Channel : s.ch[j].connected /\ s.ch[j].file_descriptor = x => s.fds[x] = "eof"
    BY <1>8 DEF Dead
  <2>1. r.fds[x] = s.fds[x] /\ (s.ch[i].connected => x # f)
    BY <1>2, <1>3, <1>4, ChannelTypes
  <2> QED BY <1>1, <2>1
<1>10. DeadBounded(r)
  <2>1. r.mishaps >= s.mishaps /\ DeadBounded(s)
    BY <1>1, Fields DEF Sound
  <2> QED BY <1>1, <1>9, <2>1, DeadKept
<1> QED BY <1>6, <1>7, <1>10 DEF Sound

(* The process after each channel in turn, when the operation on one       *)
(* channel is a function of the process and the channel.                   *)
LEMMA Iteration ==
  ASSUME NEW s \in Process, NEW g \in [Process -> [Channel -> Process]]
  PROVE  \E h : h = [n \in 0..N |-> IF n = 0 THEN s ELSE g[h[n - 1]][n]] /\ h \in [0..N -> Process]
<1>1. N \in Nat /\ Channel = 1..N
  BY BoundsAssumption DEF Channel
<1>2. PICK h \in [0..N -> Process] : h[0] = s /\ \A n \in 1..N : h[n] = g[h[n - 1]][n]
  <2>1. g \in [Process -> [1..N -> Process]]
    BY <1>1
  <2> QED BY <2>1, IterationExists, SMTT(20)
<1>3. \A n \in 0..N : h[n] = IF n = 0 THEN s ELSE g[h[n - 1]][n]
  <2>1. ASSUME NEW n \in 0..N, n # 0 PROVE h[n] = g[h[n - 1]][n]
    <3>1. n \in 1..N
      BY <1>1, <2>1
    <3> QED BY <1>2, <3>1, Zenon
  <2> QED BY <1>2, <2>1, Zenon
<1>4. h = [n \in 0..N |-> IF n = 0 THEN s ELSE g[h[n - 1]][n]]
  BY <1>2, <1>3
<1> QED BY <1>2, <1>4, Zenon

(* redundancy_channel_close closes one channel after the other.            *)
LEMMA CloseInTurn ==
  ASSUME NEW s \in Process
  PROVE  \E h : /\ h[0] = s /\ redundancy_channel_close(s) = h[N]
                /\ \A n \in 1..N : h[n] = CloseChannel(h[n - 1], n)
<1>1. N \in Nat /\ Channel = 1..N
  BY BoundsAssumption DEF Channel
<1> DEFINE g == [t \in Process |-> [n \in Channel |-> CloseChannel(t, n)]]
           h == CHOOSE h : h = [n \in 0..N |-> IF n = 0 THEN s ELSE CloseChannel(h[n - 1], n)]
<1>2. g \in [Process -> [Channel -> Process]]
  BY CloseChannelDoes
<1>3. PICK k : k = [n \in 0..N |-> IF n = 0 THEN s ELSE g[k[n - 1]][n]] /\ k \in [0..N -> Process]
  BY <1>2, Iteration, Zenon
<1>4. k = [n \in 0..N |-> IF n = 0 THEN s ELSE CloseChannel(k[n - 1], n)]
  <2>1. ASSUME NEW n \in 0..N, n # 0 PROVE g[k[n - 1]][n] = CloseChannel(k[n - 1], n)
    <3>1. n \in Channel /\ n - 1 \in 0..N
      BY <1>1, <2>1
    <3>2. k[n - 1] \in Process
      BY <1>3, <3>1, Zenon
    <3> QED BY <3>1, <3>2
  <2>2. [n \in 0..N |-> IF n = 0 THEN s ELSE g[k[n - 1]][n]]
          = [n \in 0..N |-> IF n = 0 THEN s ELSE CloseChannel(k[n - 1], n)]
    BY <2>1, Zenon
  <2> QED BY <1>3, <2>2, Zenon
<1>5. h = [n \in 0..N |-> IF n = 0 THEN s ELSE CloseChannel(h[n - 1], n)]
  BY <1>4, Zenon
<1>6. redundancy_channel_close(s) = h[N]
  BY Zenon DEF redundancy_channel_close, ForAllChannels
<1> HIDE DEF h
<1>7. h[0] = s /\ \A n \in 1..N : h[n] = CloseChannel(h[n - 1], n)
  BY <1>1, <1>5
<1> QED BY <1>6, <1>7, Zenon

\* r is what an operation of the library makes of s.
Follows(s, r) == Good(r) /\ (~r.aborted => ~s.aborted /\ r.listens = s.listens)

(* redundancy_channel_close keeps a process good and, unless it aborts,    *)
(* leaves no channel connected.                                            *)
LEMMA CloseAllGood ==
  ASSUME NEW s, Good(s)
  PROVE  /\ Follows(s, redundancy_channel_close(s))
         /\ redundancy_channel_close(s).aborted \/ AllUnconnected(redundancy_channel_close(s))
<1>1. N \in Nat /\ Channel = 1..N /\ s \in Process
  BY BoundsAssumption DEF Channel, Good
<1> DEFINE Upto(t, n) == /\ Follows(s, t)
                         /\ t.aborted \/ \A i \in 1..n : ~t.ch[i].connected
           G == [n \in 0..N |-> {t \in Process : Upto(t, n)}]
<1>2. PICK h : /\ h[0] = s /\ redundancy_channel_close(s) = h[N]
               /\ \A n \in 1..N : h[n] = CloseChannel(h[n - 1], n)
  BY <1>1, CloseInTurn
<1>3. Upto(s, 0)
  BY DEF Follows, Good
<1>4. ASSUME NEW n \in 1..N, NEW t \in Process, Upto(t, n - 1)
      PROVE  CloseChannel(t, n) \in Process /\ Upto(CloseChannel(t, n), n)
  <2> DEFINE r == CloseChannel(t, n)
  <2>1. r \in Process /\ (r.aborted \/ Closed(t, r, n)) /\ n \in Channel
    BY <1>1, CloseChannelDoes
  <2> HIDE DEF r
  <2>2. CASE r.aborted
    BY <2>1, <2>2 DEF Follows, Good, r
  <2>3. CASE ~r.aborted
    <3>1. Closed(t, r, n) /\ ~t.aborted /\ r.listens = t.listens
      BY <2>1, <2>3 DEF Closed, Unhooked, Others
    <3>2. Sound(r)
      BY <1>4, <2>1, <3>1, ClosedSound DEF Follows, Good
    <3>3. Follows(s, r)
      BY <1>4, <2>1, <3>1, <3>2 DEF Follows, Good
    <3>4. ASSUME NEW i \in 1..n PROVE ~r.ch[i].connected
      <4>1. CASE i = n
        BY <3>1, <4>1 DEF Closed, Unhooked
      <4>2. CASE i # n
        <5>1. i \in 1..(n - 1) /\ i \in Channel \ {n}
          BY <1>1, <4>2
        <5>2. r.ch[i] = t.ch[i] /\ ~t.ch[i].connected
          BY <1>4, <3>1, <5>1 DEF Closed, Unhooked
        <5> QED BY <5>2
      <4> QED BY <4>1, <4>2
    <3> QED BY <2>1, <3>3, <3>4 DEF r
  <2> QED BY <2>2, <2>3
<1> HIDE DEF Upto
<1>5. h[0] \in G[0]
  BY <1>1, <1>2, <1>3
<1>6. ASSUME NEW n \in 1..N, h[n - 1] \in G[n - 1] PROVE h[n] \in G[n]
  <2>1. n - 1 \in 0..N /\ n \in 0..N
    BY <1>1
  <2>2. h[n - 1] \in Process /\ Upto(h[n - 1], n - 1)
    BY <1>6, <2>1
  <2>3. h[n] \in Process /\ Upto(h[n], n)
    BY <1>2, <1>4, <2>2
  <2> QED BY <2>1, <2>3
<1> HIDE DEF G
<1>7. h[N] \in G[N]
  BY <1>5, <1>6, IterationStays, Zenon
<1>8. Upto(h[N], N)
  BY <1>1, <1>7 DEF G
<1> QED BY <1>1, <1>2, <1>8 DEF Upto, AllUnconnected

-----------------------------------------------------------------------------
(* Dialling.                                                               *)

\* Channel i has dialled over the descriptor f of socket k, and acc is whether
\* the peer took the connection.
Dials(s, r, i, k, f, acc) ==
  /\ Others(s, r) /\ f \in Fd
  /\ r.mishaps = s.mishaps + IF acc THEN 0 ELSE 1
  /\ r.fds = [s.fds EXCEPT ![f] = IF acc THEN "quiet" ELSE "fresh"]
  /\ \A j \in Channel \ {i} : r.ch[j] = s.ch[j]
  /\ r.ch[i].file_descriptor = f /\ r.ch[i].associated_socket = k /\ r.ch[i].connected = acc
  /\ acc => r.ch[i].event_fd = f
  /\ ~acc => r.ch[i].enabled = s.ch[i].enabled
  /\ \A j \in Channel \ {k} : r.sock[j] = s.sock[j]
  /\ r.sock[k].file_descriptor = f /\ r.sock[k].enabled = s.sock[k].enabled

\* Channel i has no descriptor to dial over.
CannotDial(s, r, i, k) ==
  /\ Others(s, r) /\ r.mishaps = s.mishaps /\ r.fds = s.fds /\ r.sock = s.sock
  /\ \A j \in Channel \ {i} : r.ch[j] = s.ch[j]
  /\ r.ch[i].associated_socket = k /\ ~r.ch[i].connected
  /\ r.ch[i].enabled = s.ch[i].enabled

(* What transport_connect does.                                            *)
LEMMA ConnectDoes ==
  ASSUME NEW s \in Process, NEW i \in Channel, NEW k \in Channel, NEW acc \in BOOLEAN
  PROVE  LET f == s.sock[k].file_descriptor
             r == transport_connect(s, i, k, acc)
         IN  /\ r \in Process
             /\ IF f = None \/ s.fds[f] # "fresh" THEN CannotDial(s, r, i, k)
                ELSE Dials(s, r, i, k, f, acc) /\ r.sock = s.sock
<1> DEFINE f == s.sock[k].file_descriptor
           r == transport_connect(s, i, k, acc)
           c == [s.ch[i] EXCEPT !.file_descriptor = f, !.associated_socket = k, !.connected = FALSE]
           t == [s EXCEPT !.ch[i] = c]
           raw == [s EXCEPT !.ch[i].file_descriptor = f, !.ch[i].associated_socket = k,
                            !.ch[i].connected = FALSE]
<1>1. s.ch[i] \in Chan /\ s.sock[k] \in Sock /\ s.ch \in [Channel -> Chan] /\ s.fds \in [Fd -> Status]
  BY Fields
<1>2. f \in Fd \cup {None}
  BY <1>1 DEF Sock
<1>3. t = raw
  BY Zenon DEF Process
<1>40. r = IF f = None \/ s.fds[f] # "fresh" THEN raw
          ELSE IF ~acc THEN Mishap(raw)
          ELSE [raw EXCEPT !.fds[f] = "quiet", !.ch[i].connected = TRUE,
                           !.ch[i].event_fd = f, !.ch[i].enabled = TRUE]
  BY Zenon DEF transport_connect
<1> HIDE DEF t, raw, r, f
<1>4. r = IF f = None \/ s.fds[f] # "fresh" THEN t
          ELSE IF ~acc THEN Mishap(t)
          ELSE [t EXCEPT !.fds[f] = "quiet", !.ch[i].connected = TRUE,
                         !.ch[i].event_fd = f, !.ch[i].enabled = TRUE]
  BY <1>3, <1>40
<1>5. /\ c \in Chan /\ c.file_descriptor = f /\ c.associated_socket = k /\ c.connected = FALSE
      /\ c.enabled = s.ch[i].enabled
  BY <1>1, <1>2, Zenon DEF Chan
<1> HIDE DEF c
<1>6. /\ Changed(s, t, s.fds, [s.ch EXCEPT ![i] = c], s.sock)
      /\ t.aborted = s.aborted /\ t.mishaps = s.mishaps
  BY <1>5, ChSet DEF t
<1>7. t.ch[i] = c /\ \A j \in Channel \ {i} : t.ch[j] = s.ch[j]
  BY <1>1, <1>6 DEF Changed
<1>8. CannotDial(s, t, i, k)
  BY <1>5, <1>6, <1>7 DEF CannotDial, Changed, Others
<1>9. CASE f = None \/ s.fds[f] # "fresh"
  <2>1. r = t
    BY <1>4, <1>9
  <2>2. r \in Process /\ CannotDial(s, r, i, k)
    BY <1>8, <2>1 DEF CannotDial, Others
  <2> QED BY <1>9, <2>2 DEF r, f
<1>10. CASE ~(f = None \/ s.fds[f] # "fresh") /\ ~acc
  <2>1. r = Mishap(t) /\ f \in Fd
    BY <1>2, <1>4, <1>10
  <2>2. s.fds = [s.fds EXCEPT ![f] = "fresh"]
    BY <1>1, <1>10, <2>1
  <2>3. /\ Changed(t, r, t.fds, t.ch, t.sock) /\ r.aborted = t.aborted /\ r.mishaps = t.mishaps + 1
    BY <1>6, <2>1, Counters, Zenon DEF Changed
  <2>4. /\ Others(s, r) /\ r.mishaps = s.mishaps + 1 /\ r.fds = s.fds /\ r.ch = t.ch /\ r.sock = s.sock
    BY <1>6, <2>3 DEF Changed, Others
  <2>5. Dials(s, r, i, k, f, acc)
    <3>1. (IF acc THEN 0 ELSE 1) = 1 /\ (IF acc THEN "quiet" ELSE "fresh") = "fresh" /\ acc = FALSE
      BY <1>10
    <3> QED BY <1>5, <1>7, <2>1, <2>2, <2>4, <3>1, Zenon DEF Dials, f
  <2> QED BY <1>10, <2>4, <2>5 DEF Others, r, f
<1>11. CASE ~(f = None \/ s.fds[f] # "fresh") /\ acc
  <2> DEFINE c2 == [t.ch[i] EXCEPT !.connected = TRUE, !.event_fd = f, !.enabled = TRUE]
             u == [t EXCEPT !.fds[f] = "quiet"]
  <2>1. f \in Fd /\ "quiet" \in Status /\ t \in Process
    BY <1>2, <1>6, <1>11 DEF Status, Changed
  <2>2. /\ Changed(t, u, [t.fds EXCEPT ![f] = "quiet"], t.ch, t.sock)
        /\ u.aborted = t.aborted /\ u.mishaps = t.mishaps
    BY <2>1, FdsSet, Zenon
  <2>3. [t EXCEPT !.fds[f] = "quiet", !.ch[i].connected = TRUE,
                  !.ch[i].event_fd = f, !.ch[i].enabled = TRUE] = [u EXCEPT !.ch[i] = c2]
    BY <2>1, Zenon DEF Process
  <2> HIDE DEF u
  <2>4. /\ c2 \in Chan /\ c2.file_descriptor = f /\ c2.associated_socket = k /\ c2.connected = TRUE
        /\ c2.event_fd = f /\ c2.enabled
    BY <1>5, <1>7, <2>1, Zenon DEF Chan
  <2> HIDE DEF c2
  <2>5. r = [u EXCEPT !.ch[i] = c2] /\ u \in Process
    BY <1>4, <1>11, <2>2, <2>3 DEF Changed
  <2>6. /\ Changed(u, r, u.fds, [u.ch EXCEPT ![i] = c2], u.sock)
        /\ r.aborted = u.aborted /\ r.mishaps = u.mishaps
    BY <2>4, <2>5, ChSet
  <2>7. /\ Others(s, r) /\ r.mishaps = s.mishaps /\ r.fds = [s.fds EXCEPT ![f] = "quiet"]
        /\ r.ch = [t.ch EXCEPT ![i] = c2] /\ r.sock = s.sock
    BY <1>6, <2>2, <2>6 DEF Changed, Others
  <2>8. t.ch \in [Channel -> Chan] /\ s.mishaps \in Nat
    BY <2>1, Fields
  <2>9. r.ch[i] = c2 /\ \A j \in Channel \ {i} : r.ch[j] = s.ch[j]
    BY <1>7, <2>7, <2>8
  <2>10. Dials(s, r, i, k, f, acc)
    <3>1. (IF acc THEN 0 ELSE 1) = 0 /\ (IF acc THEN "quiet" ELSE "fresh") = "quiet" /\ acc = TRUE
      BY <1>11
    <3>2. r.mishaps = s.mishaps + 0
      BY <2>7, <2>8
    <3> QED BY <2>1, <2>4, <2>7, <2>9, <3>1, <3>2, Zenon DEF Dials, f
  <2> QED BY <1>11, <2>7, <2>10, Zenon DEF Others, r, f
<1> QED BY <1>9, <1>10, <1>11

(* transport_redial takes a new descriptor for the socket of the channel   *)
(* and dials over it, or aborts.                                           *)
LEMMA RedialDoes ==
  ASSUME NEW s \in Process, NEW i \in Channel, NEW acc \in BOOLEAN
  PROVE  /\ transport_redial(s, i, acc) \in Process
         /\ \/ transport_redial(s, i, acc).aborted
            \/ \E f \in Fd :
                 /\ s.fds[f] = "free" /\ s.ch[i].associated_socket \in Channel
                 /\ Dials(s, transport_redial(s, i, acc), i, s.ch[i].associated_socket, f, acc)
<1> DEFINE k == s.ch[i].associated_socket
           f == NewFd(s)
           u == [s EXCEPT !.fds[f] = "fresh", !.sock[k].file_descriptor = f]
           t == transport_connect(u, i, k, acc)
           r == transport_redial(s, i, acc)
<1>1. r = IF k = 0 \/ Free(s) = {} THEN Abort(s)
          ELSE IF t.ch[i].connected THEN [t EXCEPT !.sock[k].event_fd = f] ELSE t
  BY Zenon DEF transport_redial
<1> HIDE DEF r, t
<1>2. CASE k = 0 \/ Free(s) = {}
  <2>1. r = Abort(s)
    BY <1>1, <1>2
  <2>2. r \in Process /\ r.aborted
    BY <2>1, Counters, Zenon DEF Changed
  <2> QED BY <2>2 DEF r
<1>3. CASE ~(k = 0 \/ Free(s) = {})
  <2>1. k \in Channel /\ f \in Fd /\ s.fds[f] = "free" /\ "fresh" \in Status /\ f # None
    BY <1>3, ChannelTypes, NewFdFree DEF Status
  <2> DEFINE a == [s EXCEPT !.fds[f] = "fresh"]
             c == [s.sock[k] EXCEPT !.file_descriptor = f]
  <2>2. u = [a EXCEPT !.sock[k] = c]
    BY <2>1 DEF Process
  <2> HIDE DEF u, f, k
  <2>3. /\ Changed(s, a, [s.fds EXCEPT ![f] = "fresh"], s.ch, s.sock)
        /\ a.aborted = s.aborted /\ a.mishaps = s.mishaps
    BY <2>1, FdsSet
  <2> HIDE DEF a
  <2>4. s.sock[k] \in Sock /\ s.sock \in [Channel -> Sock] /\ s.fds \in [Fd -> Status]
    BY <2>1, Fields
  <2>5. c \in Sock /\ c.file_descriptor = f /\ c.enabled = s.sock[k].enabled
    BY <2>1, <2>4 DEF Sock
  <2> HIDE DEF c
  <2>6. /\ Changed(a, u, a.fds, a.ch, [a.sock EXCEPT ![k] = c])
        /\ u.aborted = a.aborted /\ u.mishaps = a.mishaps
    <3>1. a \in Process
      BY <2>3 DEF Changed
    <3> QED BY <2>1, <2>2, <2>5, <3>1, SockSet
  <2>7. /\ Others(s, u) /\ u.mishaps = s.mishaps /\ u.ch = s.ch
        /\ u.fds = [s.fds EXCEPT ![f] = "fresh"] /\ u.sock = [s.sock EXCEPT ![k] = c]
    BY <2>3, <2>6 DEF Changed, Others
  <2>8. u \in Process /\ u.sock[k].file_descriptor = f /\ u.fds[f] = "fresh"
    BY <2>1, <2>4, <2>5, <2>7 DEF Others
  <2>9. t \in Process /\ Dials(u, t, i, k, f, acc) /\ t.sock = u.sock
    BY <2>1, <2>8, ConnectDoes DEF t
  <2>10. [s.fds EXCEPT ![f] = IF acc THEN "quiet" ELSE "fresh"]
           = [u.fds EXCEPT ![f] = IF acc THEN "quiet" ELSE "fresh"]
    BY <2>1, <2>4, <2>7
  <2>11. Dials(s, t, i, k, f, acc)
    <3>1. /\ \A j \in Channel \ {k} : t.sock[j] = s.sock[j]
          /\ t.sock[k].file_descriptor = f /\ t.sock[k].enabled = s.sock[k].enabled
      BY <2>1, <2>4, <2>5, <2>7, <2>9
    <3> QED BY <2>7, <2>9, <2>10, <3>1 DEF Dials, Others
  <2>12. CASE ~t.ch[i].connected
    <3>1. r = t
      BY <1>1, <1>3, <2>12
    <3> QED BY <2>1, <2>9, <2>11, <3>1 DEF r, k
  <2>13. CASE t.ch[i].connected
    <3> DEFINE d == [t.sock[k] EXCEPT !.event_fd = f]
    <3>1. r = [t EXCEPT !.sock[k] = d]
      BY <1>1, <1>3, <2>13
    <3>2. t.sock[k] \in Sock /\ t.sock \in [Channel -> Sock]
      BY <2>1, <2>9, Fields
    <3>3. /\ d \in Sock /\ d.file_descriptor = t.sock[k].file_descriptor
          /\ d.enabled = t.sock[k].enabled
      BY <2>1, <3>2 DEF Sock
    <3> HIDE DEF d
    <3>4. /\ Changed(t, r, t.fds, t.ch, [t.sock EXCEPT ![k] = d])
          /\ r.aborted = t.aborted /\ r.mishaps = t.mishaps
      BY <2>1, <2>9, <3>1, <3>3, SockSet
    <3>5. /\ \A j \in Channel \ {k} : r.sock[j] = t.sock[j]
          /\ r.sock[k] = d
      BY <2>1, <3>2, <3>4 DEF Changed
    <3>6. r \in Process /\ r.fds = t.fds /\ r.ch = t.ch /\ Others(t, r)
      BY <3>4 DEF Changed, Others
    <3>7. Dials(s, r, i, k, f, acc)
      BY <2>11, <3>3, <3>4, <3>5, <3>6 DEF Dials, Others
    <3> QED BY <2>1, <3>6, <3>7 DEF r, k
  <2> QED BY <2>12, <2>13
<1> QED BY <1>2, <1>3

(* Dialling keeps a process sound, be it over a new descriptor or, for a   *)
(* client, over the fresh one of its own socket.                           *)
LEMMA DialsSound ==
  ASSUME NEW s \in Process, NEW i \in Channel, NEW k \in Channel, NEW f \in Fd,
         NEW acc \in BOOLEAN, NEW r,
         Sound(s), ~s.ch[i].connected, Dials(s, r, i, k, f, acc),
         \/ s.fds[f] = "free" /\ k = s.ch[i].associated_socket
         \/ s.fds[f] = "fresh" /\ s.sock[k].file_descriptor = f /\ k = i /\ ~s.listens
  PROVE  Sound(r)
<1>1. /\ r \in Process /\ r.listens = s.listens /\ r.role = s.role
      /\ r.mishaps = s.mishaps + IF acc THEN 0 ELSE 1
      /\ r.fds = [s.fds EXCEPT ![f] = IF acc THEN "quiet" ELSE "fresh"]
      /\ \A j \in Channel \ {i} : r.ch[j] = s.ch[j]
      /\ r.ch[i].file_descriptor = f /\ r.ch[i].associated_socket = k /\ r.ch[i].connected = acc
      /\ acc => r.ch[i].event_fd = f
      /\ ~acc => r.ch[i].enabled = s.ch[i].enabled
      /\ \A j \in Channel \ {k} : r.sock[j] = s.sock[j]
      /\ r.sock[k].file_descriptor = f /\ r.sock[k].enabled = s.sock[k].enabled
  BY Zenon DEF Dials, Others
<1>2. s.fds \in [Fd -> Status] /\ s.mishaps \in Nat /\ f # None /\ s.fds[f] \in {"free", "fresh"}
  BY Fields, ChannelTypes
<1>3. /\ \A x \in Fd \ {f} : r.fds[x] = s.fds[x]
      /\ acc => r.fds[f] = "quiet"
      /\ ~acc => r.fds[f] = "fresh"
  BY <1>1, <1>2
<1>4. ASSUME NEW j \in Channel, s.ch[j].connected
      PROVE  /\ j # i /\ s.ch[j].file_descriptor \in Fd \ {f} /\ r.ch[j] = s.ch[j]
             /\ r.fds[s.ch[j].file_descriptor] = s.fds[s.ch[j].file_descriptor]
  <2>1. s.ch[j].file_descriptor \in Fd \ {f} /\ j # i
    BY <1>2, <1>4, ChannelTypes DEF Sound, OwnsStream
  <2> QED BY <1>1, <1>3, <2>1
<1>5. OwnsStream(r)
  <2> SUFFICES ASSUME NEW j \in Channel
               PROVE  /\ r.ch[j].enabled => /\ r.ch[j].connected
                                             /\ r.ch[j].event_fd = r.ch[j].file_descriptor
                      /\ r.ch[j].connected =>
                           /\ r.ch[j].file_descriptor # None
                           /\ r.fds[r.ch[j].file_descriptor] \in {"quiet", "readable", "eof"}
                           /\ \A l \in Channel : /\ r.ch[l].connected
                                                 /\ r.ch[l].file_descriptor = r.ch[j].file_descriptor
                                                 => l = j
    BY Zenon DEF OwnsStream
  <2>1. CASE j = i
    <3>1. ~acc => ~r.ch[i].enabled
      BY <1>1 DEF Sound, OwnsStream
    <3>2. \A l \in Channel \ {i} : r.ch[l].connected => r.ch[l].file_descriptor # f
      BY <1>1, <1>4
    <3> QED BY <1>1, <1>2, <1>3, <2>1, <3>1, <3>2
  <2>2. CASE j # i
    <3>1. r.ch[j] = s.ch[j]
      BY <1>1, <2>2
    <3>2. ASSUME s.ch[j].connected, NEW l \in Channel, r.ch[l].connected,
                 r.ch[l].file_descriptor = s.ch[j].file_descriptor
          PROVE  l = j
      <4>1. l # i
        BY <1>1, <1>4, <3>2
      <4>2. r.ch[l] = s.ch[l]
        BY <1>1, <4>1
      <4> QED BY <3>2, <4>2 DEF Sound, OwnsStream
    <3> QED BY <1>4, <3>1, <3>2 DEF Sound, OwnsStream
  <2> QED BY <2>1, <2>2
<1>6. OwnsSocket(r)
  <2> SUFFICES ASSUME ~s.listens PROVE OwnsSocket(r)
    BY <1>1 DEF OwnsSocket
  <2>1. /\ s.role = "client" /\ k = i
    BY ChannelTypes DEF Sound, OwnsSocket
  <2>2. ASSUME NEW j \in Channel \ {i}, s.sock[j].file_descriptor # None
        PROVE  s.sock[j].file_descriptor # f /\ r.fds[s.sock[j].file_descriptor] = s.fds[s.sock[j].file_descriptor]
    <3>1. s.sock[j].file_descriptor \in Fd
      BY <2>2, ChannelTypes
    <3>2. s.sock[j].file_descriptor # f
      BY <2>1, <2>2 DEF Sound, OwnsSocket
    <3> QED BY <1>3, <3>1, <3>2
  <2> SUFFICES ASSUME NEW j \in Channel
               PROVE  /\ ~r.sock[j].enabled
                      /\ r.ch[j].associated_socket \in {0, j}
                      /\ r.ch[j].connected => /\ r.ch[j].associated_socket = j
                                              /\ r.ch[j].file_descriptor = r.sock[j].file_descriptor
                      /\ r.sock[j].file_descriptor # None =>
                           /\ r.fds[r.sock[j].file_descriptor] # "free"
                           /\ \A l \in Channel :
                                r.sock[l].file_descriptor = r.sock[j].file_descriptor => l = j
                      /\ r.ch[j].associated_socket = 0 =>
                           /\ r.sock[j].file_descriptor # None
                           /\ r.fds[r.sock[j].file_descriptor] = "fresh"
    BY <1>1, <2>1, Zenon DEF OwnsSocket
  <2>3. CASE j = i
    <3>1. \A l \in Channel \ {i} : r.sock[l].file_descriptor # f
      BY <1>1, <1>2, <2>1, <2>2
    <3>2. ~s.sock[i].enabled /\ i # 0
      BY ChannelTypes DEF Sound, OwnsSocket
    <3>3. r.fds[f] # "free"
      BY <1>3
    <3> QED BY <1>1, <2>1, <2>3, <3>1, <3>2, <3>3
  <2>4. CASE j # i
    <3>1. r.ch[j] = s.ch[j] /\ r.sock[j] = s.sock[j]
      BY <1>1, <2>1, <2>4
    <3>2. \A l \in Channel : (l = i /\ r.sock[l].file_descriptor = f) \/ r.sock[l] = s.sock[l]
      BY <1>1, <2>1
    <3> QED BY <2>2, <2>4, <3>1, <3>2 DEF Sound, OwnsSocket
  <2> QED BY <2>3, <2>4
<1>7. Spare(s) \subseteq Spare(r) \cup {f}
  <2>1. CASE s.listens
    BY <1>1, <2>1 DEF Spare
  <2>2. CASE ~s.listens
    <3>1. k = i /\ (s.ch[i].associated_socket = 0 => s.sock[i].file_descriptor = f)
      BY <2>2, ChannelTypes DEF Sound, OwnsSocket
    <3>2. ASSUME NEW j \in Channel, s.ch[j].associated_socket = 0, s.sock[j].file_descriptor # f
          PROVE  s.sock[j].file_descriptor \in Spare(r)
      <4>1. j # i
        BY <3>1, <3>2
      <4>2. r.ch[j] = s.ch[j] /\ r.sock[j] = s.sock[j]
        BY <1>1, <3>1, <4>1
      <4> QED BY <1>1, <2>2, <3>2, <4>2 DEF Spare
    <3> QED BY <2>2, <3>2, Zenon DEF Spare
  <2> QED BY <2>1, <2>2
<1>8. Dead(r) \subseteq Dead(s) \cup {f} /\ (acc => f \notin Dead(r))
  <2>1. ASSUME NEW x \in Dead(r), x # f PROVE x \in Dead(s)
    <3>1. x \in Fd /\ x \notin Spare(s) /\ r.fds[x] = s.fds[x]
      BY <1>3, <1>7, <2>1 DEF Dead
    <3> QED BY <1>4, <2>1, <3>1 DEF Dead
  <2>2. acc => f \notin Dead(r)
    BY <1>1, <1>3, Zenon DEF Dead
  <2> QED BY <2>1, <2>2
<1>9. DeadBounded(r)
  <2>1. DeadBounded(s)
    BY DEF Sound
  <2>2. CASE acc
    <3>1. Dead(r) \subseteq Dead(s) /\ r.mishaps >= s.mishaps
      BY <1>1, <1>2, <1>8, <2>2
    <3> QED BY <1>1, <2>1, <3>1, DeadKept
  <2>3. CASE ~acc
    <3>1. Dead(r) \subseteq Dead(s) \cup {f} /\ r.mishaps = s.mishaps + 1
      BY <1>1, <1>8, <2>3
    <3> QED BY <1>1, <2>1, <3>1, DeadKept
  <2> QED BY <2>2, <2>3
<1> QED BY <1>5, <1>6, <1>9 DEF Sound

(* A client's channel that has no descriptor to dial over.                 *)
LEMMA CannotDialSound ==
  ASSUME NEW s \in Process, NEW i \in Channel, NEW r,
         Sound(s), ~s.listens, ~s.ch[i].connected, CannotDial(s, r, i, i),
         s.sock[i].file_descriptor = None \/ s.fds[s.sock[i].file_descriptor] # "fresh"
  PROVE  Sound(r)
<1>1. /\ r \in Process /\ r.listens = s.listens /\ r.role = s.role
      /\ r.mishaps = s.mishaps /\ r.fds = s.fds /\ r.sock = s.sock
      /\ \A j \in Channel \ {i} : r.ch[j] = s.ch[j]
      /\ r.ch[i].associated_socket = i /\ ~r.ch[i].connected
      /\ r.ch[i].enabled = s.ch[i].enabled
  BY Zenon DEF CannotDial, Others
<1>2. s.ch[i].associated_socket # 0 /\ i # 0 /\ ~s.ch[i].enabled
  BY ChannelTypes DEF Sound, OwnsSocket, OwnsStream
<1>3. \A j \in Channel : s.ch[j].connected => r.ch[j] = s.ch[j]
  BY <1>1
<1>4. \A j \in Channel : r.ch[j].connected => r.ch[j] = s.ch[j]
  BY <1>1
<1>5. OwnsStream(r)
  <2>1. \A j \in Channel : r.ch[j].enabled => r.ch[j] = s.ch[j]
    BY <1>1, <1>2
  <2> QED BY <1>1, <1>4, <2>1 DEF Sound, OwnsStream
<1>6. OwnsSocket(r)
  <2>1. \A j \in Channel : r.ch[j].associated_socket = 0 => r.ch[j] = s.ch[j]
    BY <1>1, <1>2
  <2>2. \A j \in Channel : r.ch[j].associated_socket \in {0, j}
    BY <1>1 DEF Sound, OwnsSocket
  <2> QED BY <1>1, <1>4, <2>1, <2>2 DEF Sound, OwnsSocket
<1>7. Spare(r) = Spare(s)
  <2>1. {j \in Channel : r.ch[j].associated_socket = 0} = {j \in Channel : s.ch[j].associated_socket = 0}
    BY <1>1, <1>2
  <2> QED BY <1>1, <2>1 DEF Spare
<1>8. Dead(r) \subseteq Dead(s)
  BY <1>1, <1>3, <1>7 DEF Dead
<1>9. DeadBounded(r)
  <2>1. r.mishaps >= s.mishaps /\ DeadBounded(s)
    BY <1>1, Fields DEF Sound
  <2> QED BY <1>1, <1>8, <2>1, DeadKept
<1> QED BY <1>5, <1>6, <1>9 DEF Sound

-----------------------------------------------------------------------------
(* Sending.                                                                *)

(* redundancy_mux_send on one channel yields a process, and keeps a good   *)
(* one good.                                                               *)
LEMMA SendOnGood ==
  ASSUME NEW s \in Process, NEW i \in Channel, NEW env \in Env
  PROVE  /\ SendOn(s, i, env) \in Process
         /\ Good(s) => Follows(s, SendOn(s, i, env))
<1> DEFINE acc == env[i].accepts
           t == IF ~s.aborted /\ ~s.ch[i].connected /\ s.role = "client"
                THEN transport_redial(s, i, acc) ELSE s
           r == SendOn(s, i, env)
<1>1. r = IF t.aborted \/ ~t.ch[i].connected THEN t
          ELSE IF t.fds[t.ch[i].file_descriptor] = "eof" /\ ~env[i].sends THEN Abort(t) ELSE t
  BY Zenon DEF SendOn
<1>2. acc \in BOOLEAN
  BY DEF Env
<1> HIDE DEF acc, r
<1>3. t \in Process /\ (Good(s) => Follows(s, t))
  <2>1. CASE ~(~s.aborted /\ ~s.ch[i].connected /\ s.role = "client")
    BY <2>1 DEF Follows
  <2>2. CASE ~s.aborted /\ ~s.ch[i].connected /\ s.role = "client"
    <3> DEFINE d == transport_redial(s, i, acc)
    <3>1. t = d
      BY <2>2
    <3>2. /\ d \in Process
          /\ \/ d.aborted
             \/ \E f \in Fd : /\ s.fds[f] = "free" /\ s.ch[i].associated_socket \in Channel
                              /\ Dials(s, d, i, s.ch[i].associated_socket, f, acc)
      BY <1>2, RedialDoes
    <3> HIDE DEF d, t
    <3>3. CASE d.aborted
      BY <3>1, <3>2, <3>3 DEF Follows, Good
    <3>4. CASE ~d.aborted
      <4>1. PICK f \in Fd : /\ s.fds[f] = "free" /\ s.ch[i].associated_socket \in Channel
                            /\ Dials(s, d, i, s.ch[i].associated_socket, f, acc)
        BY <3>2, <3>4
      <4>2. d.listens = s.listens
        BY <4>1 DEF Dials, Others
      <4>3. Good(s) => Sound(d)
        BY <1>2, <2>2, <4>1, DialsSound DEF Good
      <4> QED BY <2>2, <3>1, <3>2, <4>2, <4>3 DEF Follows, Good
    <3> QED BY <3>3, <3>4
  <2> QED BY <2>1, <2>2
<1> HIDE DEF t
<1>4. CASE r = t
  BY <1>3, <1>4 DEF r
<1>5. CASE r = Abort(t)
  <2>1. r \in Process /\ r.aborted
    BY <1>3, <1>5, Counters, Zenon DEF Changed
  <2> QED BY <2>1 DEF r, Follows, Good
<1> QED BY <1>1, <1>4, <1>5

(* redundancy_mux_send goes over the channels in turn.                     *)
LEMMA SendInTurn ==
  ASSUME NEW s \in Process, NEW env \in Env
  PROVE  \E h : /\ h[0] = s /\ redundancy_mux_send(s, env) = h[N]
                /\ \A n \in 1..N : h[n] = SendOn(h[n - 1], n, env)
<1>1. N \in Nat /\ Channel = 1..N
  BY BoundsAssumption DEF Channel
<1> DEFINE g == [t \in Process |-> [n \in Channel |-> SendOn(t, n, env)]]
           h == CHOOSE h : h = [n \in 0..N |-> IF n = 0 THEN s ELSE SendOn(h[n - 1], n, env)]
<1>2. g \in [Process -> [Channel -> Process]]
  BY SendOnGood
<1>3. PICK k : k = [n \in 0..N |-> IF n = 0 THEN s ELSE g[k[n - 1]][n]] /\ k \in [0..N -> Process]
  BY <1>2, Iteration, Zenon
<1>4. k = [n \in 0..N |-> IF n = 0 THEN s ELSE SendOn(k[n - 1], n, env)]
  <2>1. ASSUME NEW n \in 0..N, n # 0 PROVE g[k[n - 1]][n] = SendOn(k[n - 1], n, env)
    <3>1. n \in Channel /\ n - 1 \in 0..N
      BY <1>1, <2>1
    <3>2. k[n - 1] \in Process
      BY <1>3, <3>1, Zenon
    <3> QED BY <3>1, <3>2
  <2>2. [n \in 0..N |-> IF n = 0 THEN s ELSE g[k[n - 1]][n]]
          = [n \in 0..N |-> IF n = 0 THEN s ELSE SendOn(k[n - 1], n, env)]
    BY <2>1, Zenon
  <2> QED BY <1>3, <2>2, Zenon
<1>5. h = [n \in 0..N |-> IF n = 0 THEN s ELSE SendOn(h[n - 1], n, env)]
  BY <1>4, Zenon
<1>6. redundancy_mux_send(s, env) = h[N]
  BY Zenon DEF redundancy_mux_send, ForAllChannels
<1> HIDE DEF h
<1>7. h[0] = s /\ \A n \in 1..N : h[n] = SendOn(h[n - 1], n, env)
  BY <1>1, <1>5
<1> QED BY <1>6, <1>7, Zenon

(* A process that every channel in turn keeps good.                        *)
LEMMA FollowsAll ==
  ASSUME NEW s, Good(s), NEW h, h[0] = s,
         \A n \in 1..N : Good(h[n - 1]) => Follows(h[n - 1], h[n])
  PROVE  Follows(s, h[N])
<1>1. N \in Nat
  BY BoundsAssumption
<1> DEFINE D == {n \in 0..N : Follows(s, h[n])}
<1>2. 0 \in D
  BY <1>1 DEF Follows
<1>3. ASSUME NEW n \in 1..N, n - 1 \in D PROVE n \in D
  <2>1. n \in 0..N
    BY <1>1
  <2> QED BY <1>3, <2>1 DEF Follows
<1>4. D = 0..N
  <2> HIDE DEF D
  <2>1. D \in SUBSET (0..N)
    BY DEF D
  <2> QED BY <1>2, <1>3, <2>1, CountUp
<1> QED BY <1>1, <1>4

(* redundancy_mux_send keeps a process good.                               *)
LEMMA SendAllGood ==
  ASSUME NEW s, Good(s), NEW env \in Env
  PROVE  Follows(s, redundancy_mux_send(s, env))
<1>1. s \in Process /\ Channel = 1..N
  BY DEF Good, Channel
<1>2. PICK h : /\ h[0] = s /\ redundancy_mux_send(s, env) = h[N]
               /\ \A n \in 1..N : h[n] = SendOn(h[n - 1], n, env)
  BY <1>1, SendInTurn
<1>3. ASSUME NEW n \in 1..N, Good(h[n - 1]) PROVE Follows(h[n - 1], h[n])
  <2>1. h[n - 1] \in Process /\ n \in Channel
    BY <1>1, <1>3 DEF Good
  <2> QED BY <1>2, <1>3, <2>1, SendOnGood
<1>4. Follows(s, h[N])
  BY <1>2, <1>3, FollowsAll
<1> QED BY <1>2, <1>4

-----------------------------------------------------------------------------
(* Connecting, and cleaning up.                                            *)

(* redundancy_channel_connect goes over the channels in turn.              *)
LEMMA ConnectInTurn ==
  ASSUME NEW s \in Process, NEW env \in Env
  PROVE  \E h : /\ h[0] = s /\ redundancy_channel_connect(s, env) = h[N]
                /\ \A n \in 1..N : h[n] = transport_connect(h[n - 1], n, n, env[n].accepts)
<1>1. N \in Nat /\ Channel = 1..N
  BY BoundsAssumption DEF Channel
<1> DEFINE g == [t \in Process |-> [n \in Channel |-> transport_connect(t, n, n, env[n].accepts)]]
           h == CHOOSE h : h = [n \in 0..N |-> IF n = 0 THEN s ELSE transport_connect(h[n - 1], n, n, env[n].accepts)]
<1>2. g \in [Process -> [Channel -> Process]]
  <2>1. \A n \in Channel : env[n].accepts \in BOOLEAN
    BY DEF Env
  <2> QED BY <2>1, ConnectDoes
<1>3. PICK k : k = [n \in 0..N |-> IF n = 0 THEN s ELSE g[k[n - 1]][n]] /\ k \in [0..N -> Process]
  BY <1>2, Iteration, Zenon
<1>4. k = [n \in 0..N |-> IF n = 0 THEN s ELSE transport_connect(k[n - 1], n, n, env[n].accepts)]
  <2>1. ASSUME NEW n \in 0..N, n # 0 PROVE g[k[n - 1]][n] = transport_connect(k[n - 1], n, n, env[n].accepts)
    <3>1. n \in Channel /\ n - 1 \in 0..N
      BY <1>1, <2>1
    <3>2. k[n - 1] \in Process
      BY <1>3, <3>1, Zenon
    <3> QED BY <3>1, <3>2
  <2>2. [n \in 0..N |-> IF n = 0 THEN s ELSE g[k[n - 1]][n]]
          = [n \in 0..N |-> IF n = 0 THEN s ELSE transport_connect(k[n - 1], n, n, env[n].accepts)]
    BY <2>1, Zenon
  <2> QED BY <1>3, <2>2, Zenon
<1>5. h = [n \in 0..N |-> IF n = 0 THEN s ELSE transport_connect(h[n - 1], n, n, env[n].accepts)]
  BY <1>4, Zenon
<1>6. redundancy_channel_connect(s, env) = h[N]
  BY Zenon DEF redundancy_channel_connect, ForAllChannels
<1> HIDE DEF h
<1>7. h[0] = s /\ \A n \in 1..N : h[n] = transport_connect(h[n - 1], n, n, env[n].accepts)
  BY <1>1, <1>5
<1> QED BY <1>6, <1>7, Zenon

(* A client that connects with no channel connected stays good.            *)
LEMMA ConnectAllGood ==
  ASSUME NEW s, Good(s), ~s.aborted, ~s.listens, AllUnconnected(s), NEW env \in Env
  PROVE  Follows(s, redundancy_channel_connect(s, env))
<1>1. N \in Nat /\ Channel = 1..N /\ s \in Process
  BY BoundsAssumption DEF Channel, Good
<1> DEFINE Upto(t, n) == /\ Follows(s, t)
                         /\ ~t.aborted
                         /\ \A i \in Channel : i > n => ~t.ch[i].connected
           G == [n \in 0..N |-> {t \in Process : Upto(t, n)}]
<1>2. PICK h : /\ h[0] = s /\ redundancy_channel_connect(s, env) = h[N]
               /\ \A n \in 1..N : h[n] = transport_connect(h[n - 1], n, n, env[n].accepts)
  BY <1>1, ConnectInTurn
<1>3. Upto(s, 0)
  BY DEF Follows, Good, AllUnconnected
<1>4. ASSUME NEW n \in 1..N, NEW t \in Process, Upto(t, n - 1)
      PROVE  LET r == transport_connect(t, n, n, env[n].accepts) IN r \in Process /\ Upto(r, n)
  <2> DEFINE r == transport_connect(t, n, n, env[n].accepts)
             f == t.sock[n].file_descriptor
             acc == env[n].accepts
  <2>1. n \in Channel /\ acc \in BOOLEAN /\ n > n - 1
    BY <1>1 DEF Env
  <2>2. /\ r \in Process
        /\ IF f = None \/ t.fds[f] # "fresh" THEN CannotDial(t, r, n, n) ELSE Dials(t, r, n, n, f, acc)
    BY <2>1, ConnectDoes, Zenon
  <2>3. Sound(t) /\ ~t.aborted /\ ~t.listens /\ ~t.ch[n].connected /\ f \in Fd \cup {None}
    BY <1>4, <2>1, ChannelTypes DEF Follows, Good
  <2> HIDE DEF r, acc
  <2>4. Sound(r)
    <3>1. CASE f = None \/ t.fds[f] # "fresh"
      BY <2>1, <2>2, <2>3, <3>1, CannotDialSound
    <3>2. CASE ~(f = None \/ t.fds[f] # "fresh")
      BY <2>1, <2>2, <2>3, <3>2, DialsSound
    <3> QED BY <3>1, <3>2
  <2>5. /\ r.aborted = t.aborted /\ r.listens = t.listens
        /\ \A i \in Channel \ {n} : r.ch[i] = t.ch[i]
    BY <2>2 DEF CannotDial, Dials, Others
  <2>6. Follows(s, r) /\ ~r.aborted
    BY <1>4, <2>2, <2>4, <2>5 DEF Follows, Good
  <2>7. ASSUME NEW i \in Channel, i > n PROVE ~r.ch[i].connected
    <3>1. i \in Channel \ {n} /\ i > n - 1
      BY <1>1, <2>7
    <3> QED BY <1>4, <2>5, <3>1
  <2> QED BY <2>2, <2>6, <2>7 DEF r, acc
<1> HIDE DEF Upto
<1>5. h[0] \in G[0]
  BY <1>1, <1>2, <1>3
<1>6. ASSUME NEW n \in 1..N, h[n - 1] \in G[n - 1] PROVE h[n] \in G[n]
  <2>1. n - 1 \in 0..N /\ n \in 0..N
    BY <1>1
  <2>2. h[n - 1] \in Process /\ Upto(h[n - 1], n - 1)
    BY <1>6, <2>1
  <2>3. h[n] \in Process /\ Upto(h[n], n)
    BY <1>2, <1>4, <2>2
  <2> QED BY <2>1, <2>3
<1> HIDE DEF G
<1>7. h[N] \in G[N]
  BY <1>5, <1>6, IterationStays, Zenon
<1>8. Upto(h[N], N)
  BY <1>1, <1>7 DEF G
<1> QED BY <1>2, <1>8 DEF Upto

(* transport_close_socket frees the descriptor of the socket, or aborts;   *)
(* no descriptor dies.                                                     *)
LEMMA CloseSocketDoes ==
  ASSUME NEW s \in Process, NEW k \in Channel
  PROVE  LET r == transport_close_socket(s, k)
         IN  /\ r \in Process
             /\ ~r.aborted => /\ ~s.aborted
                              /\ DeadBounded(s) => DeadBounded(r)
<1> DEFINE f == s.sock[k].file_descriptor
           u == bsd_close(s, f)
           c == [u.sock[k] EXCEPT !.file_descriptor = None, !.enabled = FALSE]
           r == transport_close_socket(s, k)
<1>1. f \in Fd \cup {None} /\ None \notin Fd
  BY ChannelTypes
<1>2. /\ u \in Process
      /\ \/ u.aborted
         \/ /\ Changed(s, u, IF f = None THEN s.fds ELSE [s.fds EXCEPT ![f] = "free"], s.ch, s.sock)
            /\ u.aborted = s.aborted /\ u.mishaps = s.mishaps
  BY <1>1, CloseFd
<1>3. r = [u EXCEPT !.sock[k].file_descriptor = None, !.sock[k].enabled = FALSE]
  BY Zenon DEF transport_close_socket
<1> HIDE DEF u, f, r
<1>4. r = [u EXCEPT !.sock[k] = c]
  BY <1>2, <1>3, Zenon DEF Process
<1>5. u.sock[k] \in Sock /\ u.sock \in [Channel -> Sock]
  BY <1>2, Fields
<1>6. c \in Sock /\ c.file_descriptor = None
  BY <1>5, Zenon DEF Sock
<1> HIDE DEF c
<1>7. /\ Changed(u, r, u.fds, u.ch, [u.sock EXCEPT ![k] = c])
      /\ r.aborted = u.aborted /\ r.mishaps = u.mishaps
  BY <1>2, <1>4, <1>6, SockSet
<1>8. CASE u.aborted
  BY <1>7, <1>8 DEF Changed, r
<1>9. CASE ~u.aborted
  <2>1. /\ r \in Process /\ r.listens = s.listens /\ r.ch = s.ch /\ r.aborted = s.aborted
        /\ r.fds = (IF f = None THEN s.fds ELSE [s.fds EXCEPT ![f] = "free"])
        /\ r.mishaps = s.mishaps /\ r.sock = [s.sock EXCEPT ![k] = c]
    BY <1>2, <1>7, <1>9 DEF Changed
  <2>2. s.fds \in [Fd -> Status] /\ s.sock \in [Channel -> Sock] /\ s.mishaps \in Nat
    BY Fields
  <2>3. \A j \in Channel \ {k} : r.sock[j] = s.sock[j]
    BY <2>1, <2>2
  <2>4. Spare(s) \subseteq Spare(r) \cup {f}
    <3>1. CASE s.listens
      BY <2>1, <3>1 DEF Spare
    <3>2. CASE ~s.listens
      <4>1. ASSUME NEW j \in Channel, s.ch[j].associated_socket = 0, s.sock[j].file_descriptor # f
            PROVE  s.sock[j].file_descriptor \in Spare(r)
        <5>1. r.sock[j] = s.sock[j] /\ r.ch[j] = s.ch[j]
          BY <2>1, <2>3, <4>1 DEF f
        <5> QED BY <2>1, <3>2, <4>1, <5>1 DEF Spare
      <4> QED BY <3>2, <4>1, Zenon DEF Spare
    <3> QED BY <3>1, <3>2
  <2>5. Dead(r) \subseteq Dead(s)
    <3> SUFFICES ASSUME NEW x \in Dead(r) PROVE x \in Dead(s)
      OBVIOUS
    <3>1. x \in Fd /\ r.fds[x] # "free"
      BY DEF Dead
    <3>2. x # f /\ r.fds[x] = s.fds[x]
      BY <1>1, <2>1, <2>2, <3>1
    <3>3. x \notin Spare(s)
      BY <2>4, <3>2 DEF Dead
    <3> QED BY <2>1, <3>2, <3>3 DEF Dead
  <2>6. DeadBounded(s) => DeadBounded(r)
    BY <2>1, <2>2, <2>5, DeadKept
  <2> QED BY <1>9, <2>1, <2>6 DEF r
<1> QED BY <1>8, <1>9

(* rasta_cleanup closes one socket after the other.                        *)
LEMMA SocketsInTurn ==
  ASSUME NEW s \in Process
  PROVE  \E h : /\ h[0] = s /\ ForAllChannels(transport_close_socket, s) = h[N]
                /\ \A n \in 1..N : h[n] = transport_close_socket(h[n - 1], n)
<1>1. N \in Nat /\ Channel = 1..N
  BY BoundsAssumption DEF Channel
<1> DEFINE g == [t \in Process |-> [n \in Channel |-> transport_close_socket(t, n)]]
           h == CHOOSE h : h = [n \in 0..N |-> IF n = 0 THEN s ELSE transport_close_socket(h[n - 1], n)]
<1>2. g \in [Process -> [Channel -> Process]]
  BY CloseSocketDoes
<1>3. PICK k : k = [n \in 0..N |-> IF n = 0 THEN s ELSE g[k[n - 1]][n]] /\ k \in [0..N -> Process]
  BY <1>2, Iteration, Zenon
<1>4. k = [n \in 0..N |-> IF n = 0 THEN s ELSE transport_close_socket(k[n - 1], n)]
  <2>1. ASSUME NEW n \in 0..N, n # 0 PROVE g[k[n - 1]][n] = transport_close_socket(k[n - 1], n)
    <3>1. n \in Channel /\ n - 1 \in 0..N
      BY <1>1, <2>1
    <3>2. k[n - 1] \in Process
      BY <1>3, <3>1, Zenon
    <3> QED BY <3>1, <3>2
  <2>2. [n \in 0..N |-> IF n = 0 THEN s ELSE g[k[n - 1]][n]]
          = [n \in 0..N |-> IF n = 0 THEN s ELSE transport_close_socket(k[n - 1], n)]
    BY <2>1, Zenon
  <2> QED BY <1>3, <2>2, Zenon
<1>5. h = [n \in 0..N |-> IF n = 0 THEN s ELSE transport_close_socket(h[n - 1], n)]
  BY <1>4, Zenon
<1>6. ForAllChannels(transport_close_socket, s) = h[N]
  BY Zenon DEF ForAllChannels
<1> HIDE DEF h
<1>7. h[0] = s /\ \A n \in 1..N : h[n] = transport_close_socket(h[n - 1], n)
  BY <1>1, <1>5
<1> QED BY <1>6, <1>7, Zenon

(* rasta_cleanup leaves no more dead descriptors than before.              *)
LEMMA CleanupBounded ==
  ASSUME NEW s \in Process, DeadBounded(s)
  PROVE  LET r == ForAllChannels(transport_close_socket, s)
         IN  r \in Process /\ (~r.aborted => DeadBounded(r))
<1>1. N \in Nat /\ Channel = 1..N
  BY BoundsAssumption DEF Channel
<1> DEFINE Ok(t) == t \in Process /\ (~t.aborted => DeadBounded(t))
<1>2. PICK h : /\ h[0] = s /\ ForAllChannels(transport_close_socket, s) = h[N]
               /\ \A n \in 1..N : h[n] = transport_close_socket(h[n - 1], n)
  BY SocketsInTurn, Zenon
<1>3. ASSUME NEW n \in 1..N, Ok(h[n - 1]) PROVE Ok(h[n])
  BY <1>1, <1>2, <1>3, CloseSocketDoes
<1> DEFINE D == {n \in 0..N : Ok(h[n])}
<1>4. Ok(h[0])
  BY <1>2
<1> HIDE DEF Ok
<1>5. 0 \in D
  BY <1>1, <1>4
<1>6. ASSUME NEW n \in 1..N, n - 1 \in D PROVE n \in D
  BY <1>1, <1>3, <1>6
<1>7. D \in SUBSET (0..N)
  OBVIOUS
<1>8. D = 0..N
  <2> HIDE DEF D
  <2> QED BY <1>5, <1>6, <1>7, CountUp
<1>9. Ok(h[N])
  BY <1>1, <1>8
<1> QED BY <1>2, <1>9, Zenon DEF Ok

-----------------------------------------------------------------------------
(* What the layers above do.                                               *)

States == {"CLOSED", "START", "UP", "RETRREQ", "RETRRUN"}

LEMMA FollowsTwice ==
  ASSUME NEW s, NEW t, NEW r, Follows(s, t), Follows(t, r)
  PROVE  Follows(s, r)
  BY DEF Follows

LEMMA FollowsSelf ==
  ASSUME NEW s, Good(s)
  PROVE  Follows(s, s)
  BY DEF Follows

(* A change of the state, and of the role of a server, is no matter to the *)
(* channels.                                                               *)
LEMMA RoleAndState ==
  ASSUME NEW s, Good(s), NEW v \in States
  PROVE  /\ Follows(s, [s EXCEPT !.state = v])
         /\ ~s.listens => Follows(s, [s EXCEPT !.role = "client", !.state = v])
         /\ s.listens => Follows(s, [[s EXCEPT !.state = v] EXCEPT !.role = "server"])
<1>1. s \in Process
  BY DEF Good
<1>2. ASSUME NEW r \in Process, r.fds = s.fds, r.ch = s.ch, r.sock = s.sock, r.listens = s.listens,
             r.aborted = s.aborted, r.mishaps = s.mishaps,
             r.role = s.role \/ r.role = "client" \/ s.listens
      PROVE  Follows(s, r)
  <2>1. OwnsStream(s) => OwnsStream(r)
    BY <1>2 DEF OwnsStream
  <2>2. OwnsSocket(s) => OwnsSocket(r)
    <3>1. CASE s.listens
      BY <1>2, <3>1 DEF OwnsSocket
    <3>2. CASE ~s.listens
      <4>1. OwnsSocket(s) => r.role = "client"
        BY <1>2, <3>2 DEF OwnsSocket
      <4> QED BY <1>2, <4>1 DEF OwnsSocket
    <3> QED BY <3>1, <3>2
  <2>3. Spare(r) = Spare(s)
    BY <1>2, Zenon DEF Spare
  <2>4. Dead(r) = Dead(s)
    BY <1>2, <2>3, Zenon DEF Dead
  <2>5. DeadBounded(s) => DeadBounded(r)
    BY <1>2, <2>4 DEF DeadBounded
  <2> QED BY <1>2, <2>1, <2>2, <2>5 DEF Follows, Good, Sound
<1>3. Follows(s, [s EXCEPT !.state = v])
  <2> DEFINE r == [s EXCEPT !.state = v]
  <2>1. /\ r \in Process /\ r.fds = s.fds /\ r.ch = s.ch /\ r.sock = s.sock /\ r.listens = s.listens
        /\ r.aborted = s.aborted /\ r.mishaps = s.mishaps /\ r.role = s.role
    BY <1>1 DEF Process, States
  <2> HIDE DEF r
  <2>2. Follows(s, r)
    BY <1>2, <2>1
  <2> QED BY <2>2 DEF r
<1>4. ~s.listens => Follows(s, [s EXCEPT !.role = "client", !.state = v])
  <2> DEFINE r == [s EXCEPT !.role = "client", !.state = v]
  <2>1. /\ r \in Process /\ r.fds = s.fds /\ r.ch = s.ch /\ r.sock = s.sock /\ r.listens = s.listens
        /\ r.aborted = s.aborted /\ r.mishaps = s.mishaps /\ r.role = "client"
    BY <1>1, Zenon DEF Process, States
  <2> HIDE DEF r
  <2>2. Follows(s, r)
    BY <1>2, <2>1
  <2> QED BY <2>2 DEF r
<1>5. s.listens => Follows(s, [[s EXCEPT !.state = v] EXCEPT !.role = "server"])
  <2> DEFINE r == [[s EXCEPT !.state = v] EXCEPT !.role = "server"]
  <2>1. /\ r \in Process /\ r.fds = s.fds /\ r.ch = s.ch /\ r.sock = s.sock /\ r.listens = s.listens
        /\ r.aborted = s.aborted /\ r.mishaps = s.mishaps
    BY <1>1, Zenon DEF Process, States
  <2> HIDE DEF r
  <2>2. s.listens => Follows(s, r)
    BY <1>2, <2>1, Zenon
  <2> QED BY <2>2 DEF r
<1> QED BY <1>3, <1>4, <1>5

(* Closing the connection leaves no channel connected.                     *)
LEMMA ClosesGood ==
  ASSUME NEW s, Good(s), NEW env \in Env
  PROVE  /\ Follows(s, sr_close_connection(s, env))
         /\ sr_close_connection(s, env).aborted \/ AllUnconnected(sr_close_connection(s, env))
         /\ Follows(s, sr_closed_connection(s))
         /\ sr_closed_connection(s).aborted \/ AllUnconnected(sr_closed_connection(s))
<1>1. "CLOSED" \in States
  BY DEF States
<1> DEFINE t == IF s.state = "CLOSED" THEN s ELSE redundancy_mux_send(s, env)
           u == [t EXCEPT !.state = "CLOSED"]
           w == [s EXCEPT !.state = "CLOSED"]
<1>2. Follows(s, t)
  BY FollowsSelf, SendAllGood
<1>3. sr_close_connection(s, env) = redundancy_channel_close(u)
  BY Zenon DEF sr_close_connection
<1>4. sr_closed_connection(s) = redundancy_channel_close(w)
  BY Zenon DEF sr_closed_connection
<1> HIDE DEF t
<1>5. Follows(t, u)
  BY <1>1, <1>2, RoleAndState, Zenon DEF Follows
<1>6. Follows(s, w)
  BY <1>1, RoleAndState, Zenon
<1> HIDE DEF u, w
<1>7. Follows(u, redundancy_channel_close(u)) /\ (redundancy_channel_close(u).aborted \/ AllUnconnected(redundancy_channel_close(u)))
  BY <1>5, CloseAllGood DEF Follows
<1>8. Follows(w, redundancy_channel_close(w)) /\ (redundancy_channel_close(w).aborted \/ AllUnconnected(redundancy_channel_close(w)))
  BY <1>6, CloseAllGood DEF Follows
<1>9. Follows(s, redundancy_channel_close(u)) /\ Follows(s, redundancy_channel_close(w))
  BY <1>2, <1>5, <1>6, <1>7, <1>8, FollowsTwice
<1> QED BY <1>3, <1>4, <1>7, <1>8, <1>9

(* Whatever the layers above do with a packet.                             *)
LEMMA HandledGood ==
  ASSUME NEW s, Good(s), NEW env \in Env, NEW r \in Handled(s, env)
  PROVE  Follows(s, r)
<1> DEFINE In(state) == [s EXCEPT !.state = state]
           Answers(t) == redundancy_mux_send(t, env)
<1>1. ASSUME NEW v \in States PROVE Follows(s, In(v)) /\ Good(In(v))
  BY RoleAndState, Zenon DEF Follows
<1>2. ASSUME NEW t, Follows(s, t) PROVE Follows(s, Answers(t))
  <2>1. Follows(t, Answers(t))
    BY <1>2, SendAllGood DEF Follows
  <2> QED BY <1>2, <2>1, FollowsTwice
<1>3. \/ r = s \/ r = sr_close_connection(s, env) \/ r = sr_closed_connection(s)
      \/ r = Answers(In("RETRREQ")) \/ r = Answers(s) \/ r = In("RETRRUN")
      \/ r = In("UP") \/ r = Answers(In("UP")) \/ r = Answers(sr_close_connection(s, env))
      \/ r = Answers([In("START") EXCEPT !.role = "server"]) /\ s.listens
  BY Zenon DEF Handled
<1>4. Follows(s, In("RETRREQ")) /\ Follows(s, In("RETRRUN")) /\ Follows(s, In("UP"))
  BY <1>1 DEF States
<1>5. s.listens => Follows(s, [In("START") EXCEPT !.role = "server"])
  <2>1. "START" \in States
    BY DEF States
  <2> QED BY <2>1, RoleAndState, Zenon
<1>6. Follows(s, s) /\ Follows(s, sr_close_connection(s, env)) /\ Follows(s, sr_closed_connection(s))
  BY FollowsSelf, ClosesGood
<1> HIDE DEF In, Answers
<1> QED BY <1>2, <1>3, <1>4, <1>5, <1>6

-----------------------------------------------------------------------------
(* The peer, and the callbacks.                                            *)

(* A descriptor that is in use becomes readable, or is read.               *)
LEMMA ReadableSound ==
  ASSUME NEW s \in Process, Sound(s), NEW f \in Fd, s.fds[f] \in {"quiet", "readable"},
         NEW v \in {"quiet", "readable"}
  PROVE  LET r == [s EXCEPT !.fds[f] = v]
         IN  r \in Process /\ Sound(r) /\ r.ch = s.ch /\ r.listens = s.listens /\ r.sock = s.sock
             /\ r.aborted = s.aborted /\ r.mishaps = s.mishaps /\ r.fds = [s.fds EXCEPT ![f] = v]
             /\ r.role = s.role
<1> DEFINE r == [s EXCEPT !.fds[f] = v]
<1>1. /\ r \in Process /\ r.fds = [s.fds EXCEPT ![f] = v] /\ r.ch = s.ch /\ r.sock = s.sock
      /\ r.listens = s.listens /\ r.role = s.role /\ r.aborted = s.aborted /\ r.mishaps = s.mishaps
  <2>1. v \in Status
    BY DEF Status
  <2> QED BY <2>1, FdsSet DEF Changed
<1> HIDE DEF r
<1>2. s.fds \in [Fd -> Status] /\ s.mishaps \in Nat
  BY Fields
<1>3. /\ \A x \in Fd \ {f} : r.fds[x] = s.fds[x]
      /\ r.fds[f] = v
  BY <1>1, <1>2
<1>4. OwnsStream(r)
  <2>1. \A i \in Channel : s.ch[i].connected => s.ch[i].file_descriptor \in Fd
    BY ChannelTypes DEF Sound, OwnsStream
  <2>2. \A x \in Fd : s.fds[x] \in {"quiet", "readable", "eof"} => r.fds[x] \in {"quiet", "readable", "eof"}
    BY <1>3
  <2> QED BY <1>1, <2>1, <2>2 DEF Sound, OwnsStream
<1>5. OwnsSocket(r)
  <2>1. \A i \in Channel : s.sock[i].file_descriptor # None => s.sock[i].file_descriptor \in Fd
    BY ChannelTypes
  <2>2. \A x \in Fd : (s.fds[x] # "free" => r.fds[x] # "free") /\ (s.fds[x] = "fresh" => r.fds[x] = "fresh")
    BY <1>3
  <2> QED BY <1>1, <2>1, <2>2 DEF Sound, OwnsSocket
<1>6. Spare(r) = Spare(s)
  BY <1>1, Zenon DEF Spare
<1>7. Dead(r) \subseteq Dead(s)
  BY <1>1, <1>3, <1>6 DEF Dead
<1>8. DeadBounded(r)
  BY <1>1, <1>2, <1>7, DeadKept DEF Sound
<1>9. Sound(r)
  BY <1>4, <1>5, <1>8 DEF Sound
<1> QED BY <1>1, <1>9, Zenon DEF r

(* The peer of a connection is gone: with a mishap, its descriptor dies.   *)
LEMMA PeerGoneSound ==
  ASSUME NEW s \in Process, Sound(s), NEW f \in Fd, s.fds[f] \in {"quiet", "readable"}
  PROVE  LET r == Mishap([s EXCEPT !.fds[f] = "eof"])
         IN  r \in Process /\ Sound(r) /\ r.ch = s.ch /\ r.listens = s.listens
             /\ r.aborted = s.aborted
<1> DEFINE t == [s EXCEPT !.fds[f] = "eof"]
           r == Mishap(t)
<1>1. Changed(s, t, [s.fds EXCEPT ![f] = "eof"], s.ch, s.sock) /\ t.aborted = s.aborted /\ t.mishaps = s.mishaps
  <2>1. "eof" \in Status
    BY DEF Status
  <2> QED BY <2>1, FdsSet, Zenon
<1> HIDE DEF t
<1>2. Changed(t, r, t.fds, t.ch, t.sock) /\ r.aborted = t.aborted /\ r.mishaps = t.mishaps + 1
  BY <1>1, Counters, Zenon DEF Changed
<1> HIDE DEF r
<1>3. /\ r \in Process /\ r.fds = [s.fds EXCEPT ![f] = "eof"] /\ r.ch = s.ch /\ r.sock = s.sock
      /\ r.listens = s.listens /\ r.role = s.role /\ r.aborted = s.aborted /\ r.mishaps = s.mishaps + 1
  BY <1>1, <1>2 DEF Changed
<1>4. s.fds \in [Fd -> Status]
  BY Fields
<1>5. /\ \A x \in Fd \ {f} : r.fds[x] = s.fds[x]
      /\ r.fds[f] = "eof"
  BY <1>3, <1>4
<1>6. OwnsStream(r)
  <2>1. \A i \in Channel : s.ch[i].connected => s.ch[i].file_descriptor \in Fd
    BY ChannelTypes DEF Sound, OwnsStream
  <2>2. \A x \in Fd : s.fds[x] \in {"quiet", "readable", "eof"} => r.fds[x] \in {"quiet", "readable", "eof"}
    BY <1>5
  <2> QED BY <1>3, <2>1, <2>2 DEF Sound, OwnsStream
<1>7. OwnsSocket(r)
  <2>1. \A i \in Channel : s.sock[i].file_descriptor # None => s.sock[i].file_descriptor \in Fd
    BY ChannelTypes
  <2>2. \A x \in Fd : (s.fds[x] # "free" => r.fds[x] # "free") /\ (s.fds[x] = "fresh" => r.fds[x] = "fresh")
    BY <1>5
  <2> QED BY <1>3, <2>1, <2>2 DEF Sound, OwnsSocket
<1>8. Spare(r) = Spare(s)
  BY <1>3, Zenon DEF Spare
<1>9. Dead(r) \subseteq Dead(s) \cup {f}
  BY <1>3, <1>5, <1>8 DEF Dead
<1>10. DeadBounded(r)
  BY <1>3, <1>9, DeadKept DEF Sound
<1>11. Sound(r)
  BY <1>6, <1>7, <1>10 DEF Sound
<1> QED BY <1>3, <1>11, Zenon DEF r, t

(* A channel at the end of its stream is unconnected; its descriptor was   *)
(* dead already.                                                           *)
LEMMA UnconnectedSound ==
  ASSUME NEW s \in Process, Sound(s), NEW i \in Channel, s.fds[s.ch[i].file_descriptor] = "eof"
  PROVE  LET r == Unconnected(s, i)
         IN  /\ r \in Process /\ Sound(r) /\ r.listens = s.listens /\ r.aborted = s.aborted
             /\ r.state = s.state
             /\ \A j \in Channel \ {i} : r.ch[j] = s.ch[j]
<1> DEFINE c == [s.ch[i] EXCEPT !.connected = FALSE, !.enabled = FALSE]
           r == Unconnected(s, i)
<1>1. r = [s EXCEPT !.ch[i] = c]
  BY Zenon DEF Unconnected, Process
<1>2. s.ch[i] \in Chan /\ s.ch \in [Channel -> Chan] /\ s.mishaps \in Nat
  BY Fields
<1>3. c \in Chan /\ ~c.connected /\ ~c.enabled /\ c.associated_socket = s.ch[i].associated_socket
  BY <1>2, Zenon DEF Chan
<1> HIDE DEF c, r
<1>4. Changed(s, r, s.fds, [s.ch EXCEPT ![i] = c], s.sock) /\ r.aborted = s.aborted /\ r.mishaps = s.mishaps
  BY <1>1, <1>3, ChSet
<1>5. /\ r \in Process /\ r.fds = s.fds /\ r.sock = s.sock /\ r.listens = s.listens /\ r.role = s.role
      /\ r.state = s.state /\ r.ch[i] = c
      /\ \A j \in Channel \ {i} : r.ch[j] = s.ch[j]
  BY <1>2, <1>4 DEF Changed
<1>6. \A j \in Channel : r.ch[j].connected \/ r.ch[j].enabled => r.ch[j] = s.ch[j]
  BY <1>3, <1>5
<1>7. \A j \in Channel : r.ch[j].associated_socket = s.ch[j].associated_socket
  BY <1>3, <1>5
<1>8. OwnsStream(r)
  BY <1>5, <1>6 DEF Sound, OwnsStream
<1>9. OwnsSocket(r)
  BY <1>5, <1>6, <1>7 DEF Sound, OwnsSocket
<1>10. Spare(r) = Spare(s)
  BY <1>5, <1>7, Zenon DEF Spare
<1>11. Dead(r) \subseteq Dead(s)
  BY <1>5, <1>10 DEF Dead
<1>12. DeadBounded(r)
  BY <1>2, <1>4, <1>5, <1>11, DeadKept DEF Sound
<1>13. Sound(r)
  BY <1>8, <1>9, <1>12 DEF Sound
<1> QED BY <1>4, <1>5, <1>13 DEF r

(* A server's channel takes a connection over; with a mishap, the          *)
(* descriptor it had dies.                                                 *)
LEMMA TakesOverSound ==
  ASSUME NEW s \in Process, Sound(s), s.listens, NEW i \in Channel, NEW k \in Channel,
         NEW f \in Fd, s.fds[f] = "free", NEW r \in Process, r.listens,
         r.fds = [s.fds EXCEPT ![f] = "quiet"],
         r.ch = [s.ch EXCEPT ![i] = [file_descriptor |-> f, connected |-> TRUE, event_fd |-> f,
                                     enabled |-> TRUE, associated_socket |-> k]],
         r.mishaps = IF s.ch[i].connected THEN s.mishaps + 1 ELSE s.mishaps
  PROVE  Sound(r)
<1>1. s.fds \in [Fd -> Status] /\ s.ch \in [Channel -> Chan] /\ s.mishaps \in Nat /\ f # None
  BY Fields, ChannelTypes
<1>2. /\ \A x \in Fd \ {f} : r.fds[x] = s.fds[x]
      /\ r.fds[f] = "quiet"
  BY <1>1
<1>3. /\ \A j \in Channel \ {i} : r.ch[j] = s.ch[j]
      /\ r.ch[i].file_descriptor = f /\ r.ch[i].connected /\ r.ch[i].event_fd = f
  BY <1>1
<1>4. ASSUME NEW j \in Channel, s.ch[j].connected
      PROVE  s.ch[j].file_descriptor \in Fd \ {f}
  BY <1>4, ChannelTypes DEF Sound, OwnsStream
<1>5. OwnsStream(r)
  <2> SUFFICES ASSUME NEW j \in Channel
               PROVE  /\ r.ch[j].enabled => /\ r.ch[j].connected
                                             /\ r.ch[j].event_fd = r.ch[j].file_descriptor
                      /\ r.ch[j].connected =>
                           /\ r.ch[j].file_descriptor # None
                           /\ r.fds[r.ch[j].file_descriptor] \in {"quiet", "readable", "eof"}
                           /\ \A l \in Channel : /\ r.ch[l].connected
                                                 /\ r.ch[l].file_descriptor = r.ch[j].file_descriptor
                                                 => l = j
    BY Zenon DEF OwnsStream
  <2>1. CASE j = i
    <3>1. \A l \in Channel \ {i} : r.ch[l].connected => r.ch[l].file_descriptor # f
      BY <1>3, <1>4
    <3>2. r.fds[r.ch[i].file_descriptor] \in {"quiet", "readable", "eof"} /\ r.ch[i].file_descriptor # None
      BY <1>1, <1>2, <1>3
    <3> QED BY <1>3, <2>1, <3>1, <3>2
  <2>2. CASE j # i
    <3>1. r.ch[j] = s.ch[j]
      BY <1>3, <2>2
    <3>2. ASSUME s.ch[j].connected, NEW l \in Channel, r.ch[l].connected,
                 r.ch[l].file_descriptor = s.ch[j].file_descriptor
          PROVE  l = j
      <4>1. l # i
        BY <1>3, <1>4, <3>2
      <4>2. r.ch[l] = s.ch[l]
        BY <1>3, <4>1
      <4> QED BY <3>2, <4>2 DEF Sound, OwnsStream
    <3> QED BY <1>2, <1>4, <3>1, <3>2 DEF Sound, OwnsStream
  <2> QED BY <2>1, <2>2
<1>6. OwnsSocket(r)
  BY DEF OwnsSocket
<1>7. Spare(r) = Spare(s)
  BY DEF Spare
<1>8. ASSUME NEW x \in Dead(r), ~(s.ch[i].connected /\ s.ch[i].file_descriptor = x)
      PROVE  x \in Dead(s)
  <2>1. x # f
    BY <1>2, <1>3, <1>8 DEF Dead
  <2>2. x \in Fd /\ x \notin Spare(s) /\ r.fds[x] = s.fds[x]
    BY <1>2, <1>7, <2>1 DEF Dead
  <2> QED BY <1>3, <1>8, <2>2 DEF Dead
<1>9. DeadBounded(s)
  BY DEF Sound
<1>10. DeadBounded(r)
  <2>1. CASE s.ch[i].connected
    <3>1. Dead(r) \subseteq Dead(s) \cup {s.ch[i].file_descriptor} /\ r.mishaps = s.mishaps + 1
      BY <1>8, <2>1
    <3> QED BY <1>9, <3>1, DeadKept
  <2>2. CASE ~s.ch[i].connected
    <3>1. Dead(r) \subseteq Dead(s) /\ r.mishaps >= s.mishaps
      BY <1>1, <1>8, <2>2
    <3> QED BY <1>9, <3>1, DeadKept
  <2> QED BY <2>1, <2>2
<1> QED BY <1>5, <1>6, <1>10 DEF Sound

(* channel_accept_event of a server.                                       *)
LEMMA AcceptGood ==
  ASSUME NEW s, Good(s), ~s.aborted, s.listens, NEW k \in Channel, NEW i \in 0..N, NEW known \in BOOLEAN
  PROVE  Follows(s, channel_accept_event(s, k, i, known))
<1> DEFINE l == s.sock[k].file_descriptor
           f == NewFd(s)
           t == [s EXCEPT !.fds[l] = "quiet"]
           m == IF s.ch[i].connected THEN Mishap(t) ELSE t
           c == [file_descriptor |-> f, connected |-> TRUE, event_fd |-> f,
                 enabled |-> TRUE, associated_socket |-> k]
           r == channel_accept_event(s, k, i, known)
<1>1. s \in Process /\ Sound(s)
  BY DEF Good
<1>2. \/ r = Abort(s)
      \/ /\ l # None /\ Free(s) # {} /\ s.fds[l] = "readable"
         /\ r = IF i = 0 THEN t ELSE [m EXCEPT !.fds[f] = "quiet", !.ch[i] = c]
  BY Zenon DEF channel_accept_event
<1> HIDE DEF r
<1>3. CASE r = Abort(s)
  <2>1. r \in Process /\ r.aborted
    BY <1>1, <1>3, Counters, Zenon DEF Changed
  <2> QED BY <2>1 DEF r, Follows, Good
<1>4. CASE /\ l # None /\ Free(s) # {} /\ s.fds[l] = "readable"
           /\ r = IF i = 0 THEN t ELSE [m EXCEPT !.fds[f] = "quiet", !.ch[i] = c]
  <2>1. l \in Fd /\ f \in Fd /\ s.fds[f] = "free"
    BY <1>1, <1>4, ChannelTypes, NewFdFree
  <2> HIDE DEF l, f
  <2>2. /\ t \in Process /\ Sound(t) /\ t.ch = s.ch /\ t.listens = s.listens /\ t.sock = s.sock
        /\ t.aborted = s.aborted /\ t.mishaps = s.mishaps /\ t.fds = [s.fds EXCEPT ![l] = "quiet"]
    BY <1>1, <1>4, <2>1, ReadableSound, Zenon
  <2> HIDE DEF t
  <2>3. CASE i = 0
    BY <1>4, <2>2, <2>3, Zenon DEF Follows, Good, r
  <2>4. CASE i # 0
    <3>1. i \in Channel
      BY <2>4, BoundsAssumption DEF Channel
    <3>2. t.fds[f] = "free"
      <4>1. s.fds \in [Fd -> Status] /\ f # l
        BY <1>1, <1>4, <2>1, Fields
      <4> QED BY <2>1, <2>2, <4>1
    <3>3. /\ Changed(t, m, t.fds, t.ch, t.sock) /\ m.aborted = t.aborted
          /\ m.mishaps = IF t.ch[i].connected THEN t.mishaps + 1 ELSE t.mishaps
      BY <2>2, Counters, Zenon DEF Changed
    <3> HIDE DEF m
    <3> DEFINE a == [m EXCEPT !.fds[f] = "quiet"]
    <3>4. [m EXCEPT !.fds[f] = "quiet", !.ch[i] = c] = [a EXCEPT !.ch[i] = c]
      OBVIOUS
    <3>5. /\ Changed(m, a, [m.fds EXCEPT ![f] = "quiet"], m.ch, m.sock)
          /\ a.aborted = m.aborted /\ a.mishaps = m.mishaps
      <4>1. m \in Process /\ "quiet" \in Status
        BY <3>3 DEF Changed, Status
      <4> QED BY <4>1, FdsSet, Zenon
    <3> HIDE DEF a
    <3>6. c \in Chan
      BY <2>1 DEF Chan
    <3> HIDE DEF c
    <3>7. /\ Changed(a, r, a.fds, [a.ch EXCEPT ![i] = c], a.sock)
          /\ r.aborted = a.aborted /\ r.mishaps = a.mishaps
      <4>1. a \in Process /\ r = [a EXCEPT !.ch[i] = c]
        BY <1>4, <2>4, <3>4, <3>5 DEF Changed
      <4> QED BY <3>1, <3>6, <4>1, ChSet
    <3>8. /\ r \in Process /\ r.listens = t.listens /\ r.aborted = t.aborted
          /\ r.fds = [t.fds EXCEPT ![f] = "quiet"] /\ r.ch = [t.ch EXCEPT ![i] = c]
          /\ r.mishaps = IF t.ch[i].connected THEN t.mishaps + 1 ELSE t.mishaps
      BY <3>3, <3>5, <3>7 DEF Changed
    <3>9. Sound(r)
      BY <2>1, <2>2, <3>1, <3>2, <3>8, TakesOverSound, Zenon DEF c
    <3> QED BY <2>2, <3>8, <3>9 DEF Follows, Good, r
  <2> QED BY <2>3, <2>4
<1> QED BY <1>2, <1>3, <1>4

-----------------------------------------------------------------------------
(* The invariant.                                                          *)

Calls == {"none", "has", "connect", "accept", "recv", "cleaned"}

(* It holds after rasta_bind and rasta_listen.                             *)
LEMMA InitInv == Init => Inv
<1> SUFFICES ASSUME Init PROVE Inv
  OBVIOUS
<1>1. /\ N \in Nat \ {0} /\ Descriptors \in Nat /\ Descriptors >= N /\ MaxDials \in Nat
      /\ Listens \subseteq BOOLEAN
  BY BoundsAssumption
<1>2. PICK server \in Listens :
         p = [fds |-> [f \in Fd |-> IF f >= N THEN "free"
                                    ELSE IF server THEN "quiet" ELSE "fresh"],
              ch |-> [i \in Channel |-> [file_descriptor |-> 0, connected |-> FALSE,
                                         event_fd |-> 0, enabled |-> FALSE,
                                         associated_socket |-> 0]],
              sock |-> [i \in Channel |-> [file_descriptor |-> i - 1, event_fd |-> i - 1,
                                           enabled |-> server]],
              listens |-> server, role |-> "client", state |-> "CLOSED",
              aborted |-> FALSE, mishaps |-> 0]
  BY Zenon DEF Init
<1>3. server \in BOOLEAN
  BY <1>1
<1>4. \A i \in Channel : i \in Nat /\ i - 1 \in Fd /\ i - 1 # None /\ ~(i - 1 >= N) /\ i - 1 \in 0..(N - 1)
  BY <1>1 DEF Channel, Fd, None
<1>5. 0 \in Fd
  BY <1>1 DEF Fd
<1>6. p.fds \in [Fd -> Status]
  BY <1>2 DEF Status
<1>7. \A i \in Channel : /\ p.ch[i].connected = FALSE /\ p.ch[i].enabled = FALSE
                          /\ p.ch[i].associated_socket = 0
                          /\ p.sock[i].file_descriptor = i - 1 /\ p.sock[i].enabled = server
  BY <1>2
<1>8. p.ch \in [Channel -> Chan] /\ p.sock \in [Channel -> Sock]
  BY <1>2, <1>3, <1>4, <1>5 DEF Chan, Sock
<1>9. p \in Process
  BY <1>2, <1>3, <1>6, <1>8 DEF Process, Chan, Sock
<1>10. TypeOK
  BY <1>1, <1>9 DEF Init, TypeOK
<1>11. p.listens = server /\ p.role = "client" /\ p.mishaps = 0
  BY <1>2
<1>12. /\ \A x \in Fd : x >= N => p.fds[x] = "free"
       /\ ~server => \A i \in Channel : p.fds[i - 1] = "fresh"
  BY <1>2, <1>4
<1>13. OwnsStream(p)
  BY <1>7 DEF OwnsStream
<1>14. OwnsSocket(p)
  <2> SUFFICES ASSUME ~server
               PROVE  \A i \in Channel :
                        /\ p.sock[i].file_descriptor # None /\ p.fds[p.sock[i].file_descriptor] = "fresh"
                        /\ \A j \in Channel : p.sock[j].file_descriptor = p.sock[i].file_descriptor => j = i
    BY <1>7, <1>11 DEF OwnsSocket
  <2> QED BY <1>4, <1>7, <1>12
<1>15. Dead(p) = {}
  <2> SUFFICES ASSUME NEW x \in Fd, p.fds[x] # "free" PROVE x \in Spare(p)
    BY DEF Dead
  <2>1. x \in 0..(N - 1) /\ x + 1 \in Channel /\ (x + 1) - 1 = x
    BY <1>1, <1>12 DEF Fd, Channel
  <2>2. p.sock[x + 1].file_descriptor = x /\ p.ch[x + 1].associated_socket = 0
    BY <1>7, <2>1
  <2> QED BY <2>1, <2>2 DEF Spare
<1>16. DeadBounded(p)
  BY <1>11, <1>15, FS_EmptySet DEF DeadBounded
<1>17. Sound(p)
  BY <1>13, <1>14, <1>16 DEF Sound
<1>18. AllUnconnected(p)
  BY <1>7 DEF AllUnconnected
<1> QED BY <1>10, <1>16, <1>17, <1>18 DEF Inv, Init

(* The state in which an operation finds the process.                      *)
LEMMA Before ==
  ASSUME Inv, Alive, call # "cleaned"
  PROVE  Good(p) /\ Sound(p) /\ p \in Process /\ ~p.aborted /\ at \in 0..(2 * N) /\ ready \subseteq Fd
         /\ dials \in 0..MaxDials
  BY DEF Inv, TypeOK, Good, Alive

(* An operation that keeps the process good keeps the invariant.           *)
LEMMA GoodStep ==
  ASSUME Inv, Follows(p, p'), call' \in Calls, at' \in 0..(2 * N), ready' \subseteq Fd,
         dials' \in 0..MaxDials,
         ~p'.aborted /\ call' = "none" /\ ~p'.listens => AllUnconnected(p'),
         ~p'.aborted /\ call' = "accept" => p'.listens
  PROVE  Inv'
<1>1. p' \in Process /\ (p'.aborted \/ Sound(p'))
  BY DEF Follows, Good
<1>2. TypeOK'
  BY <1>1 DEF TypeOK, Calls
<1>3. Alive' => Sound(p') /\ DeadBounded(p')
  BY <1>1 DEF Alive, Sound
<1>4. AllUnconnected(p)' = AllUnconnected(p') /\ Sound(p)' = Sound(p') /\ DeadBounded(p)' = DeadBounded(p')
  BY Zenon DEF AllUnconnected, Sound, DeadBounded, OwnsStream, OwnsSocket, Dead, Spare
<1> QED BY <1>2, <1>3, <1>4 DEF Inv, Alive

(* Where the walk goes on.                                                 *)
LEMMA GoOnStep ==
  ASSUME Inv, InLoop, NEW s, Follows(p, s), Becomes(s), NEW k \in 1..(2 * N), GoOn(k)
  PROVE  Inv'
<1>1. Good(p) /\ ready \subseteq Fd /\ dials \in 0..MaxDials /\ N \in Nat
  BY Before, BoundsAssumption DEF InLoop
<1>2. p' = s
  BY DEF Becomes
<1>3. at' \in 0..(2 * N) /\ ready' \subseteq Fd /\ call' = call /\ dials' = dials
  BY <1>1 DEF GoOn
<1>4. call \in {"connect", "accept", "recv"} /\ (call = "accept" => p.listens)
  BY DEF InLoop, Inv
<1>5. ~s.aborted => s.listens = p.listens
  BY DEF Follows
<1>6. Follows(p, p') /\ (~p'.aborted => p'.listens = p.listens)
  BY <1>2, <1>5
<1> QED BY <1>1, <1>3, <1>4, <1>6, GoodStep DEF Calls

(* A callback or a timed event that stops the loop.                        *)
LEMMA StopStep ==
  ASSUME Inv, InLoop, NEW s, Follows(p, s), Stop(s)
  PROVE  Inv'
<1> DEFINE r == sr_connect_returns(s)
<1>1. Good(p) /\ dials \in 0..MaxDials /\ N \in Nat
  BY Before, BoundsAssumption DEF InLoop
<1>2. p' = r
  BY DEF Becomes, Stop
<1>3. call \in {"connect", "accept", "recv"} /\ (call = "accept" => p.listens)
  BY DEF InLoop, Inv
<1>4. Follows(p, r) /\ (call = "connect" /\ s.state # "UP" => r.aborted \/ AllUnconnected(r))
  <2>1. CASE call = "connect" /\ s.state # "UP"
    <3>1. r = redundancy_channel_close(s)
      BY <2>1 DEF sr_connect_returns
    <3>2. Follows(s, redundancy_channel_close(s))
          /\ (redundancy_channel_close(s).aborted \/ AllUnconnected(redundancy_channel_close(s)))
      BY CloseAllGood DEF Follows
    <3>3. Follows(p, redundancy_channel_close(s))
      BY <3>2, FollowsTwice
    <3> QED BY <3>1, <3>2, <3>3
  <2>2. CASE ~(call = "connect" /\ s.state # "UP")
    <3>1. r = s
      BY <2>2 DEF sr_connect_returns
    <3> QED BY <2>2, <3>1
  <2> QED BY <2>1, <2>2
<1> HIDE DEF r
<1>5. /\ call' = IF call = "recv" \/ s.state = "UP" THEN "has" ELSE "none"
      /\ at' = 0 /\ ready' = {} /\ dials' = dials
  BY DEF Stop
<1>6. ~r.aborted => r.listens = p.listens
  BY <1>4 DEF Follows
<1>7. Follows(p, p') /\ (~p'.aborted => p'.listens = p.listens)
      /\ (call = "connect" /\ s.state # "UP" => p'.aborted \/ AllUnconnected(p'))
  BY <1>2, <1>4, <1>6
<1>8. 0 \in 0..(2 * N)
  BY <1>1
<1> QED BY <1>1, <1>3, <1>5, <1>7, <1>8, GoodStep DEF Calls

(* An event whose turn it is is enabled.                                   *)
LEMMA TurnEnabled ==
  /\ \A k \in Channel : Turn(k) => p.sock[k].enabled /\ k \in 1..(2 * N)
  /\ \A i \in Channel : Turn(N + i) => p.ch[i].enabled /\ N + i \in 1..(2 * N)
<1>1. N \in Nat
  BY BoundsAssumption
<1>2. ASSUME NEW k \in Channel, Turn(k) PROVE p.sock[k].enabled /\ k \in 1..(2 * N)
  BY <1>1, <1>2 DEF Turn, IsCalled, Channel
<1>3. ASSUME NEW i \in Channel, Turn(N + i) PROVE p.ch[i].enabled /\ N + i \in 1..(2 * N)
  <2>1. ~(N + i <= N) /\ (N + i) - N = i /\ N + i \in 1..(2 * N)
    BY <1>1 DEF Channel
  <2> QED BY <1>3, <2>1 DEF Turn, IsCalled
<1> QED BY <1>2, <1>3

(* Every step keeps the invariant.                                         *)
LEMMA NextInv == Inv /\ [Next]_vars => Inv'
<1> SUFFICES ASSUME Inv, [Next]_vars PROVE Inv'
  OBVIOUS
<1>0. N \in Nat /\ MaxDials \in Nat /\ 0 \in 0..(2 * N) /\ 1 \in 0..(2 * N)
  BY BoundsAssumption
<1>1. CASE Select
  <2>1. Sound(p) /\ Good(p) /\ p \in Process /\ dials \in 0..MaxDials /\ InLoop
    BY <1>1, Before DEF Select, InLoop
  <2>2. Watched \subseteq Fd
    BY <2>1, ChannelTypes DEF Watched, Sound, OwnsStream
  <2>3. ready' \subseteq Fd /\ at' = 1 /\ p' = p /\ call' = call /\ dials' = dials
    BY <1>1, <2>2 DEF Select
  <2>4. Follows(p, p') /\ p'.listens = p.listens
    BY <2>1, <2>3, FollowsSelf
  <2>5. call \in {"connect", "accept", "recv"} /\ (call = "accept" => p.listens)
    BY <2>1 DEF InLoop, Inv
  <2> QED BY <1>0, <2>1, <2>3, <2>4, <2>5, GoodStep DEF Calls
<1>2. CASE WalkDone
  <2>1. Good(p) /\ dials \in 0..MaxDials /\ InLoop
    BY <1>2, Before DEF WalkDone, InLoop
  <2>2. ready' \subseteq Fd /\ at' = 0 /\ p' = p /\ call' = call /\ dials' = dials
    BY <1>2 DEF WalkDone
  <2>3. Follows(p, p') /\ p'.listens = p.listens
    BY <2>1, <2>2, FollowsSelf
  <2>4. call \in {"connect", "accept", "recv"} /\ (call = "accept" => p.listens)
    BY <2>1 DEF InLoop, Inv
  <2> QED BY <1>0, <2>1, <2>2, <2>3, <2>4, GoodStep DEF Calls
<1>3. CASE AcceptEvent
  <2>1. Good(p) /\ Sound(p) /\ ~p.aborted /\ InLoop
    BY <1>3, Before DEF AcceptEvent, InLoop
  <2>2. PICK k \in Channel, i \in 0..N, known \in BOOLEAN :
          /\ Turn(k)
          /\ Becomes(channel_accept_event(p, k, i, known))
          /\ GoOn(k)
    BY <1>3 DEF AcceptEvent
  <2>3. p.sock[k].enabled /\ k \in 1..(2 * N)
    BY <2>2, TurnEnabled
  <2>4. p.listens
    BY <2>1, <2>3 DEF Sound, OwnsSocket
  <2>5. Follows(p, channel_accept_event(p, k, i, known))
    BY <2>1, <2>4, AcceptGood
  <2> QED BY <2>1, <2>2, <2>3, <2>5, GoOnStep
<1>4. CASE ReceiveEnd
  <2>1. Good(p) /\ Sound(p) /\ ~p.aborted /\ InLoop /\ p \in Process
    BY <1>4, Before DEF ReceiveEnd, InLoop
  <2>2. PICK i \in Channel :
          /\ Turn(N + i)
          /\ p.fds[p.ch[i].file_descriptor] = "eof"
          /\ \E s \in {Unconnected(p, i)} :
                IF AllLost(s) THEN Stop(sr_closed_connection(s))
                ELSE Becomes(s) /\ GoOn(N + i)
    BY <1>4 DEF ReceiveEnd
  <2> DEFINE s == Unconnected(p, i)
  <2>3. IF AllLost(s) THEN Stop(sr_closed_connection(s)) ELSE Becomes(s) /\ GoOn(N + i)
    BY <2>2
  <2>4. s \in Process /\ Sound(s) /\ s.listens = p.listens /\ s.aborted = p.aborted
    BY <2>1, <2>2, UnconnectedSound
  <2> HIDE DEF s
  <2>5. Follows(p, s) /\ Good(s)
    BY <2>1, <2>4 DEF Follows, Good
  <2>6. CASE AllLost(s)
    <3>1. \E env : env \in Env
      <4>1. [i0 \in Channel |-> [accepts |-> TRUE, sends |-> TRUE]] \in Env
        BY DEF Env
      <4> QED BY <4>1
    <3>2. Follows(s, sr_closed_connection(s))
      BY <2>5, <3>1, ClosesGood
    <3>3. Follows(p, sr_closed_connection(s))
      BY <2>5, <3>2, FollowsTwice
    <3> QED BY <2>1, <2>3, <2>6, <3>3, StopStep
  <2>7. CASE ~AllLost(s)
    <3>1. N + i \in 1..(2 * N)
      BY <2>2, TurnEnabled
    <3> QED BY <2>1, <2>3, <2>5, <2>7, <3>1, GoOnStep
  <2> QED BY <2>6, <2>7
<1>5. CASE ReceivePacket
  <2>1. Good(p) /\ Sound(p) /\ ~p.aborted /\ InLoop /\ p \in Process
    BY <1>5, Before DEF ReceivePacket, InLoop
  <2>2. PICK i \in Channel :
          /\ Turn(N + i)
          /\ p.fds[p.ch[i].file_descriptor] = "readable"
          /\ \E s \in UNION {Handled([p EXCEPT !.fds[p.ch[i].file_descriptor] = "quiet"], env) :
                             env \in Env} :
                Stop(s) \/ (Becomes(s) /\ GoOn(N + i))
    BY <1>5 DEF ReceivePacket
  <2> DEFINE t == [p EXCEPT !.fds[p.ch[i].file_descriptor] = "quiet"]
  <2>3. PICK env \in Env : \E s \in Handled(t, env) : Stop(s) \/ (Becomes(s) /\ GoOn(N + i))
    BY <2>2, Zenon
  <2>4. PICK s \in Handled(t, env) : Stop(s) \/ (Becomes(s) /\ GoOn(N + i))
    BY <2>3
  <2>5. p.ch[i].file_descriptor \in Fd /\ N + i \in 1..(2 * N)
    BY <2>1, <2>2, TurnEnabled, ChannelTypes DEF Sound, OwnsStream
  <2>6. t \in Process /\ Sound(t) /\ t.listens = p.listens /\ t.aborted = p.aborted
    BY <2>1, <2>2, <2>5, ReadableSound, Zenon
  <2> HIDE DEF t
  <2>7. Follows(p, t) /\ Good(t)
    BY <2>1, <2>6 DEF Follows, Good
  <2>8. Follows(t, s)
    BY <2>4, <2>7, HandledGood
  <2>9. Follows(p, s)
    BY <2>7, <2>8, FollowsTwice
  <2>10. CASE Stop(s)
    BY <2>1, <2>9, <2>10, StopStep
  <2>11. CASE Becomes(s) /\ GoOn(N + i)
    BY <2>1, <2>5, <2>9, <2>11, GoOnStep
  <2> QED BY <2>4, <2>10, <2>11
<1>6. CASE SendDue
  <2>1. Good(p) /\ InLoop /\ at \in 0..(2 * N) /\ ready \subseteq Fd /\ dials \in 0..MaxDials
    BY <1>6, Before DEF SendDue, InLoop
  <2>2. PICK env \in Env : p' = redundancy_mux_send(p, env)
    BY <1>6, Zenon DEF SendDue, Becomes
  <2>3. Follows(p, redundancy_mux_send(p, env))
    BY <2>1, SendAllGood
  <2>4. Follows(p, p')
    BY <2>2, <2>3
  <2>5. call' = call /\ at' = at /\ ready' = ready /\ dials' = dials
    BY <1>6 DEF SendDue, Quiet
  <2>6. call \in {"connect", "accept", "recv"} /\ (call = "accept" => p.listens)
    BY <2>1 DEF InLoop, Inv
  <2>7. ~p'.aborted => p'.listens = p.listens
    BY <2>4 DEF Follows
  <2> QED BY <2>1, <2>4, <2>5, <2>6, <2>7, GoodStep DEF Calls
<1>7. CASE TimeoutExpires
  <2>1. Good(p) /\ InLoop
    BY <1>7, Before DEF TimeoutExpires, InLoop
  <2>2. PICK env \in Env : Stop(sr_close_connection(p, env))
    BY <1>7 DEF TimeoutExpires
  <2>3. Follows(p, sr_close_connection(p, env))
    BY <2>1, ClosesGood
  <2> QED BY <2>1, <2>2, <2>3, StopStep
<1>8. CASE HandshakeTimeout
  <2>1. Good(p) /\ InLoop /\ Stop(p)
    BY <1>8, Before DEF HandshakeTimeout, InLoop
  <2>2. Follows(p, p)
    BY <2>1, FollowsSelf
  <2> QED BY <2>1, <2>2, StopStep
<1>9. CASE RastaConnect
  <2>1. /\ Good(p) /\ ~p.aborted /\ ~p.listens /\ AllUnconnected(p) /\ call = "none"
        /\ at \in 0..(2 * N) /\ ready \subseteq Fd /\ dials \in 0..MaxDials
        /\ at' = at /\ ready' = ready /\ dials' = dials
    BY <1>9, Before DEF RastaConnect, Inv, Alive
  <2>2. PICK env \in Env :
         \E s \in {redundancy_channel_connect(p, env)} :
         IF AllLost(s)
         THEN Becomes(s) /\ UNCHANGED call
         ELSE /\ \E t \in {redundancy_mux_send([s EXCEPT !.role = "client", !.state = "START"],
                                                en) : en \in Env} : Becomes(t)
              /\ call' = "connect"
    BY <1>9, Zenon DEF RastaConnect
  <2> DEFINE s == redundancy_channel_connect(p, env)
             u == [s EXCEPT !.role = "client", !.state = "START"]
  <2>3. Follows(p, s)
    BY <2>1, ConnectAllGood
  <2>4. IF AllLost(s)
        THEN Becomes(s) /\ UNCHANGED call
        ELSE /\ \E en \in Env : Becomes(redundancy_mux_send(u, en))
             /\ call' = "connect"
    BY <2>2, Zenon
  <2> HIDE DEF s
  <2>5. CASE AllLost(s)
    <3>1. p' = s /\ call' = "none"
      BY <2>1, <2>4, <2>5 DEF Becomes
    <3>2. Follows(p, p') /\ AllUnconnected(p')
      BY <2>3, <2>5, <3>1 DEF AllLost, AllUnconnected
    <3> QED BY <2>1, <3>1, <3>2, GoodStep DEF Calls
  <2>6. CASE ~AllLost(s)
    <3>1. PICK en \in Env : p' = redundancy_mux_send(u, en)
      BY <2>4, <2>6 DEF Becomes
    <3>2. call' = "connect"
      BY <2>4, <2>6
    <3>3. Good(s)
      BY <2>3 DEF Follows
    <3>4. CASE s.aborted
      <4>1. s \in Process
        BY <3>3 DEF Good
      <4>2. u \in Process /\ u.aborted = s.aborted
        BY <4>1, Zenon DEF Process
      <4>3. Good(u)
        BY <3>4, <4>2 DEF Good
      <4>4. Follows(u, p')
        BY <3>1, <4>3, SendAllGood
      <4>5. Follows(p, p') /\ p'.aborted
        BY <3>4, <4>2, <4>4 DEF Follows
      <4> QED BY <2>1, <3>2, <4>5, GoodStep DEF Calls
    <3>5. CASE ~s.aborted
      <4>1. ~s.listens /\ "START" \in States
        BY <2>1, <2>3, <3>5 DEF Follows, States
      <4>2. Follows(s, u)
        BY <3>3, <4>1, RoleAndState, Zenon
      <4> HIDE DEF u
      <4>3. Follows(u, redundancy_mux_send(u, en))
        BY <4>2, SendAllGood DEF Follows
      <4>4. Follows(p, redundancy_mux_send(u, en))
        BY <2>3, <4>2, <4>3, FollowsTwice
      <4>5. Follows(p, p')
        BY <3>1, <4>4
      <4> QED BY <2>1, <3>2, <4>5, GoodStep DEF Calls
    <3> QED BY <3>4, <3>5
  <2> QED BY <2>5, <2>6
<1>10. CASE RastaWaits
  <2>1. /\ Good(p) /\ at \in 0..(2 * N) /\ ready \subseteq Fd /\ dials \in 0..MaxDials
    BY <1>10, Before DEF RastaWaits
  <2>2. /\ p' = p /\ at' = at /\ ready' = ready /\ dials' = dials
        /\ (call' = "accept" /\ p.listens) \/ call' = "recv"
    BY <1>10 DEF RastaWaits
  <2>3. Follows(p, p') /\ p'.listens = p.listens
    BY <2>1, <2>2, FollowsSelf
  <2> QED BY <2>1, <2>2, <2>3, GoodStep DEF Calls
<1>11. CASE RastaDisconnect
  <2>1. /\ Good(p) /\ at \in 0..(2 * N) /\ ready \subseteq Fd /\ dials \in 0..MaxDials
    BY <1>11, Before DEF RastaDisconnect
  <2>2. PICK env \in Env : p' = sr_close_connection(p, env)
    BY <1>11, Zenon DEF RastaDisconnect, Becomes
  <2>3. call' = "none" /\ at' = at /\ ready' = ready /\ dials' = dials
    BY <1>11 DEF RastaDisconnect
  <2>4. Follows(p, p') /\ (p'.aborted \/ AllUnconnected(p'))
    BY <2>1, <2>2, ClosesGood
  <2> QED BY <2>1, <2>3, <2>4, GoodStep DEF Calls
<1>12. CASE RastaCleanup
  <2>1. p \in Process /\ DeadBounded(p)
    BY <1>12 DEF RastaCleanup, Inv, TypeOK
  <2>2. p' = ForAllChannels(transport_close_socket, p)
    BY <1>12, Zenon DEF RastaCleanup, Becomes
  <2>3. p' \in Process /\ (~p'.aborted => DeadBounded(p'))
    BY <2>1, <2>2, CleanupBounded, Zenon
  <2>4. call' = "cleaned" /\ at' = at /\ ready' = ready /\ dials' = dials
    BY <1>12 DEF RastaCleanup
  <2>5. TypeOK'
    BY <2>3, <2>4 DEF Inv, TypeOK
  <2>6. Alive' => DeadBounded(p)'
    BY <2>3 DEF Alive, DeadBounded, Dead, Spare
  <2> QED BY <2>4, <2>5, <2>6 DEF Inv
<1>13. CASE PeerSends
  <2>1. /\ Good(p) /\ Sound(p) /\ p \in Process /\ ~p.aborted
        /\ at \in 0..(2 * N) /\ ready \subseteq Fd /\ dials \in 0..MaxDials /\ call \in Calls
    BY <1>13, Before DEF PeerSends, Inv, TypeOK, Calls
  <2>2. PICK f \in Connections : p.fds[f] = "quiet" /\ p' = [p EXCEPT !.fds[f] = "readable"]
    BY <1>13 DEF PeerSends, Becomes
  <2>3. f \in Fd
    BY <2>1, ChannelTypes DEF Connections, Sound, OwnsStream
  <2>4. p' \in Process /\ Sound(p') /\ p'.ch = p.ch /\ p'.listens = p.listens /\ p'.aborted = p.aborted
    BY <2>1, <2>2, <2>3, ReadableSound, Zenon
  <2>5. Follows(p, p')
    BY <2>1, <2>4 DEF Follows, Good
  <2>6. call' = call /\ at' = at /\ ready' = ready /\ dials' = dials
    BY <1>13 DEF PeerSends, Quiet
  <2>7. /\ call = "none" /\ ~p.listens => AllUnconnected(p')
        /\ call = "accept" => p.listens
    BY <2>1, <2>4 DEF Inv, Alive, AllUnconnected
  <2> QED BY <2>1, <2>4, <2>5, <2>6, <2>7, GoodStep
<1>14. CASE PeerCloses
  <2>1. /\ Good(p) /\ Sound(p) /\ p \in Process /\ ~p.aborted
        /\ at \in 0..(2 * N) /\ ready \subseteq Fd /\ dials \in 0..MaxDials /\ call \in Calls
    BY <1>14, Before DEF PeerCloses, Inv, TypeOK, Calls
  <2>2. PICK f \in Connections : /\ p.fds[f] \in {"quiet", "readable"}
                                 /\ p' = Mishap([p EXCEPT !.fds[f] = "eof"])
    BY <1>14, Zenon DEF PeerCloses, Becomes
  <2>3. f \in Fd
    BY <2>1, ChannelTypes DEF Connections, Sound, OwnsStream
  <2>4. p' \in Process /\ Sound(p') /\ p'.ch = p.ch /\ p'.listens = p.listens /\ p'.aborted = p.aborted
    BY <2>1, <2>2, <2>3, PeerGoneSound
  <2>5. Follows(p, p')
    BY <2>1, <2>4 DEF Follows, Good
  <2>6. call' = call /\ at' = at /\ ready' = ready /\ dials' = dials
    BY <1>14 DEF PeerCloses, Quiet
  <2>7. /\ call = "none" /\ ~p.listens => AllUnconnected(p')
        /\ call = "accept" => p.listens
    BY <2>1, <2>4 DEF Inv, Alive, AllUnconnected
  <2> QED BY <2>1, <2>4, <2>5, <2>6, <2>7, GoodStep
<1>15. CASE PeerDials
  <2>1. /\ Good(p) /\ Sound(p) /\ p \in Process /\ ~p.aborted
        /\ at \in 0..(2 * N) /\ ready \subseteq Fd /\ dials \in 0..MaxDials /\ call \in Calls
        /\ p.listens
    BY <1>15, Before DEF PeerDials, Inv, TypeOK, Calls
  <2>2. PICK k \in Channel : /\ p.fds[p.sock[k].event_fd] = "quiet"
                             /\ p' = [p EXCEPT !.fds[p.sock[k].event_fd] = "readable"]
    BY <1>15, Zenon DEF PeerDials, Becomes
  <2>3. p.sock[k].event_fd \in Fd
    BY <2>1, ChannelTypes
  <2>4. p' \in Process /\ Sound(p') /\ p'.listens = p.listens /\ p'.aborted = p.aborted
    BY <2>1, <2>2, <2>3, ReadableSound, Zenon
  <2>5. Follows(p, p')
    BY <2>1, <2>4 DEF Follows, Good
  <2>6. call' = call /\ at' = at /\ ready' = ready /\ dials' \in 0..MaxDials
    BY <1>0, <1>15, <2>1 DEF PeerDials
  <2> QED BY <2>1, <2>4, <2>5, <2>6, GoodStep
<1>16. CASE UNCHANGED vars
  <2>1. p' = p /\ call' = call /\ at' = at /\ ready' = ready /\ dials' = dials
    BY <1>16 DEF vars
  <2>2. TypeOK' /\ Alive' = Alive
    BY <2>1 DEF Inv, TypeOK, Alive
  <2>3. AllUnconnected(p)' = AllUnconnected(p') /\ Sound(p)' = Sound(p') /\ DeadBounded(p)' = DeadBounded(p')
    BY Zenon DEF AllUnconnected, Sound, DeadBounded, OwnsStream, OwnsSocket, Dead, Spare
  <2>4. AllUnconnected(p') = AllUnconnected(p) /\ Sound(p') = Sound(p) /\ DeadBounded(p') = DeadBounded(p)
    BY <2>1
  <2> QED BY <2>1, <2>2, <2>3, <2>4 DEF Inv
<1>17. CASE SendData
  <2>1. /\ Good(p) /\ at \in 0..(2 * N) /\ ready \subseteq Fd /\ dials \in 0..MaxDials
        /\ call \in {"connect", "accept", "recv", "has"}
    BY <1>17, Before DEF SendData, InLoop
  <2>2. PICK env \in Env : p' = redundancy_mux_send(p, env)
    BY <1>17, Zenon DEF SendData, Becomes
  <2>3. Follows(p, redundancy_mux_send(p, env))
    BY <2>1, SendAllGood
  <2>4. Follows(p, p')
    BY <2>2, <2>3
  <2>5. call' = call /\ at' = at /\ ready' = ready /\ dials' = dials
    BY <1>17 DEF SendData, Quiet
  <2>6. call = "accept" => p.listens
    BY <1>17 DEF SendData, Inv
  <2>7. ~p'.aborted => p'.listens = p.listens
    BY <2>4 DEF Follows
  <2> QED BY <2>1, <2>4, <2>5, <2>6, <2>7, GoodStep DEF Calls
<1> QED BY <1>1, <1>2, <1>3, <1>4, <1>5, <1>6, <1>7, <1>8, <1>9, <1>10, <1>11, <1>12, <1>13, <1>14,
           <1>15, <1>16, <1>17, Zenon DEF Next

LEMMA Invariant == Spec => []Inv
  BY InitInv, NextInv, PTL DEF Spec

-----------------------------------------------------------------------------
(* The theorems.                                                           *)

\* The process, the call and the walk keep their types: whatever a callback does
\* to the events, event_system_sleep stays inside its list and select reports
\* only descriptors there are.
THEOREM TypeCorrect == Spec => []TypeOK
<1>1. Inv => TypeOK
  BY DEF Inv
<1> QED BY <1>1, Invariant, PTL

\* However redialling (transport_redial), accepting (channel_accept_event), the
\* end of a stream (channel_receive_event) and closing (redundancy_channel_close)
\* interleave: an enabled receive event belongs to a connected channel and
\* watches that channel's own open descriptor, and a client's sockets have no
\* descriptor that is closed already.
THEOREM EventsStayOwned == Spec => []EventsOwned
<1>1. Inv => EventsOwned
  <2> SUFFICES ASSUME Inv, Alive, call # "cleaned" PROVE EventsOwned
    BY DEF EventsOwned
  <2>1. Sound(p)
    BY DEF Inv
  <2> QED BY <2>1 DEF EventsOwned, Sound, OwnsStream, OwnsSocket
<1> QED BY <1>1, Invariant, PTL

\* The process loses at most one descriptor for every connection that was lost,
\* refused or replaced and, as a server, one for each of its sockets: nothing
\* else in the transport layer leaks, however long the program runs.
THEOREM DescriptorsStayBounded == Spec => []DescriptorsBounded
<1>1. Inv => DescriptorsBounded
  <2> SUFFICES ASSUME Inv, Alive PROVE DescriptorsBounded
    BY DEF DescriptorsBounded
  <2>1. p \in Process /\ DeadBounded(p)
    BY DEF Inv, TypeOK
  <2>2. N \in Nat /\ Descriptors - 1 \in Int /\ 0 \in Int /\ N - 1 \in Int
    BY BoundsAssumption
  <2>3. IsFiniteSet(Fd) /\ IsFiniteSet(0..(N - 1)) /\ Cardinality(0..(N - 1)) = N
    BY <2>2, FS_Interval DEF Fd
  <2>4. Dead(p) \in SUBSET Fd /\ Leaked \in SUBSET Fd
    BY Zenon DEF Dead, Leaked
  <2>5. IsFiniteSet(Dead(p)) /\ IsFiniteSet(Leaked)
    BY <2>3, <2>4, FS_Subset, Zenon
  <2>6. Cardinality(Dead(p)) \in Nat /\ Cardinality(Leaked) \in Nat /\ p.mishaps \in Nat
    BY <2>1, <2>5, FS_CardinalityType, Fields
  <2>7. Leaked \subseteq Dead(p) \cup Spare(p)
    BY DEF Leaked, Dead, Connections
  <2>8. CASE ~p.listens
    <3>1. Leaked \subseteq Dead(p)
      BY <2>7, <2>8 DEF Leaked, Spare
    <3>2. Cardinality(Leaked) <= Cardinality(Dead(p))
      BY <2>5, <3>1, FS_Subset
    <3> QED BY <2>1, <2>6, <2>8, <3>2 DEF DescriptorsBounded, DeadBounded
  <2>9. CASE p.listens
    <3>1. Leaked \subseteq Dead(p) \cup (0..(N - 1))
      BY <2>7, <2>9 DEF Spare
    <3>2. /\ IsFiniteSet(Dead(p) \cup (0..(N - 1)))
          /\ Cardinality(Dead(p) \cup (0..(N - 1)))
               = Cardinality(Dead(p)) + Cardinality(0..(N - 1)) - Cardinality(Dead(p) \cap (0..(N - 1)))
      BY <2>3, <2>5, FS_Union, Zenon
    <3>3. Cardinality(Leaked) <= Cardinality(Dead(p) \cup (0..(N - 1)))
      BY <3>1, <3>2, FS_Subset
    <3>4. Cardinality(Dead(p) \cap (0..(N - 1))) \in Nat
      <4>1. IsFiniteSet(Dead(p) \cap (0..(N - 1)))
        BY <2>5, FS_Subset
      <4> QED BY <4>1, FS_CardinalityType
    <3> QED BY <2>1, <2>2, <2>3, <2>6, <2>9, <3>2, <3>3, <3>4 DEF DescriptorsBounded, DeadBounded
  <2> QED BY <2>8, <2>9
<1> QED BY <1>1, Invariant, PTL

\* The end of one stream (channel_receive_event, handle_closed_transport) ends
\* the connection only when no channel is left that still reaches the peer.
THEOREM LossEndsOnlyLast == Spec => LossKeepsConnection
<1>1. ASSUME Inv, ReceiveEnd, p.state # "CLOSED", p'.state = "CLOSED", NEW f \in Connections
      PROVE  p.fds[f] = "eof"
  <2>1. Sound(p) /\ p \in Process
    BY <1>1, Before DEF ReceiveEnd, InLoop
  <2>2. PICK i \in Channel :
          /\ p.fds[p.ch[i].file_descriptor] = "eof"
          /\ \E s \in {Unconnected(p, i)} :
                IF AllLost(s) THEN Stop(sr_closed_connection(s))
                ELSE Becomes(s) /\ GoOn(N + i)
    BY <1>1 DEF ReceiveEnd
  <2> DEFINE s == Unconnected(p, i)
  <2>3. s.state = p.state /\ \A j \in Channel \ {i} : s.ch[j] = p.ch[j]
    BY <2>1, <2>2, UnconnectedSound
  <2>4. IF AllLost(s) THEN Stop(sr_closed_connection(s)) ELSE Becomes(s) /\ GoOn(N + i)
    BY <2>2
  <2> HIDE DEF s
  <2>5. AllLost(s)
    BY <1>1, <2>3, <2>4 DEF Becomes
  <2>6. \A j \in Channel \ {i} : ~p.ch[j].connected
    BY <2>3, <2>5 DEF AllLost
  <2>7. f = p.ch[i].file_descriptor
    BY <1>1, <2>6 DEF Connections
  <2> QED BY <2>2, <2>7
<1>2. Inv /\ [Next]_vars
        => [ReceiveEnd /\ p.state # "CLOSED" /\ p'.state = "CLOSED"
              => \A f \in Connections : p.fds[f] = "eof"]_vars
  BY <1>1
<1> QED BY <1>2, Invariant, PTL DEF Spec, LossKeepsConnection
=============================================================================

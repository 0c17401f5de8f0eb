------------------------- MODULE EventSystemProofs -------------------------
(***************************************************************************)
(* The event loop is in time, for every list of events, every interval     *)
(* longer than a turn of the events, and every time a callback may take:   *)
(* a timed event is not overdue by more than a turn of the others, and a   *)
(* readable descriptor does not wait longer than that.                     *)
(***************************************************************************)
EXTENDS EventSystem, FiniteSetTheorems, WellFoundedInduction, TLAPS

NTimed == Len(TimedEvents)
NFds == Len(FdEvents)

\* What n callbacks take at most
Time(n) == CallbackTime * n

\* e is what is left of old when the time d has passed and events were touched:
\* no event is older than that, and one that was not enabled starts from zero.
Follows(old, e, d) ==
  /\ e \in Events
  /\ \A t \in Timed \cap e.enabled :
       \/ e.last_call[t] = 0
       \/ t \in old.enabled /\ e.last_call[t] <= old.last_call[t] + d
  /\ \A f \in Fds \cap e.enabled :
       \/ e.readable[f] \in {Never, 0}
       \/ f \in old.enabled /\ old.readable[f] # Never /\ e.readable[f] <= old.readable[f] + d

(***************************************************************************)
(* The inductive invariant: how far the loop can be behind at each place.  *)
(***************************************************************************)
\* In select, no timed event is overdue, and what became readable did so during
\* the last walk or the timed events after it.
SelectInTime ==
  pc = "select" =>
    /\ \A t \in Timed \cap ev.enabled : ev.last_call[t] <= Interval[t]
    /\ \A f \in Ready : ev.readable[f] <= Time(NFds + NTimed)

\* In the walk, w events of the list are behind it: all times are that much
\* older, and what select did not report became readable since.
WalkInTime ==
  pc = "fds" => \E w \in 0..NFds :
    /\ ready \subseteq {FdEvents[j] : j \in (w + 1)..NFds}
    /\ \A t \in Timed \cap ev.enabled : ev.last_call[t] <= Interval[t] + Time(w)
    /\ \A f \in Ready : ev.readable[f] <=
         Time(w) + IF f \in ready THEN Time(NFds + NTimed) ELSE 0

\* Between the walk and select, the timed events in S had their turn: none of
\* them is due again before all the others had theirs.
RoundInTime ==
  pc \in {"loop", "fire"} => \E S \in SUBSET Timed :
    /\ \A t \in Timed \cap ev.enabled : ev.last_call[t] <=
         Time(NFds + Cardinality(S)) + IF t \in S THEN 0 ELSE Interval[t]
    /\ \A f \in Ready : ev.readable[f] <= Time(NFds + Cardinality(S))
    /\ pc = "fire" => Due(next_event)

InTime == TypeOK /\ SelectInTime /\ WalkInTime /\ RoundInTime

-----------------------------------------------------------------------------
(* Numbers.                                                                *)

(* The lists are sequences, and their lengths are natural numbers.         *)
LEMMA Lists ==
  /\ NTimed \in Nat /\ NFds \in Nat /\ NTimed > 0
  /\ DOMAIN TimedEvents = 1..NTimed /\ DOMAIN FdEvents = 1..NFds
  /\ TimedEvents \in [1..NTimed -> Timed] /\ FdEvents \in [1..NFds -> Fds]
  /\ CallbackTime \in Nat
<1>1. TimedEvents \in Seq(Timed) /\ FdEvents \in Seq(Fds) /\ TimedEvents # <<>>
  BY EventsDistinct
<1> QED BY <1>1, IntervalsLong DEF NTimed, NFds

(* The time of n callbacks adds up.                                        *)
LEMMA TimeAdds ==
  ASSUME NEW m \in Nat, NEW n \in Nat
  PROVE  /\ Time(m) \in Nat
         /\ Time(0) = 0
         /\ Time(m + n) = Time(m) + Time(n)
         /\ Time(m + 1) = Time(m) + CallbackTime
         /\ m <= n => Time(m) <= Time(n)
<1> CallbackTime \in Nat
  BY Lists
<1>1. CallbackTime * m \in Nat /\ CallbackTime * 0 = 0
  OBVIOUS
<1>2. CallbackTime * (m + n) = CallbackTime * m + CallbackTime * n
  OBVIOUS
<1>3. CallbackTime * (m + 1) = CallbackTime * m + CallbackTime
  OBVIOUS
<1>4. m <= n => CallbackTime * m <= CallbackTime * n
  <2> SUFFICES ASSUME m <= n PROVE CallbackTime * m <= CallbackTime * n
    OBVIOUS
  <2> DEFINE k == n - m
  <2>1. k \in Nat /\ n = m + k
    OBVIOUS
  <2> HIDE DEF k
  <2>2. CallbackTime * (m + k) = CallbackTime * m + CallbackTime * k /\ CallbackTime * k \in Nat
    BY <2>1
  <2> QED BY <2>1, <2>2, <1>1
<1> QED BY <1>1, <1>2, <1>3, <1>4 DEF Time

(* The times of no callback, and of one of every event, are numbers.       *)
LEMMA WholeTurn ==
  Time(0) = 0 /\ Time(NFds + NTimed) \in Nat /\ Time(NFds) \in Nat
<1>1. NFds + NTimed \in Nat /\ NFds \in Nat
  BY Lists
<1> QED BY <1>1, TimeAdds, Zenon

(* Slack is a turn of the timed events and two walks.                      *)
LEMMA SlackIs ==
  /\ Slack \in Nat
  /\ Slack = Time(NFds + NTimed) + Time(NFds)
  /\ \A t \in Timed : Interval[t] \in Nat /\ Interval[t] > Time(NFds + NTimed)
<1>1. NFds + NTimed \in Nat /\ NFds \in Nat /\ (NFds + NTimed) + NFds = NTimed + 2 * NFds
  BY Lists
<1>2. Time((NFds + NTimed) + NFds) = Time(NFds + NTimed) + Time(NFds) /\ Time(NFds + NTimed) \in Nat /\ Time(NFds) \in Nat
  BY <1>1, TimeAdds, Zenon
<1>3. Slack = Time((NFds + NTimed) + NFds)
  BY <1>1 DEF Slack, Time, NTimed, NFds
<1> QED BY <1>2, <1>3, IntervalsLong

(* A nonempty set of natural numbers has a smallest element.               *)
LEMMA SmallestNat ==
  ASSUME NEW S \in SUBSET Nat, S # {}
  PROVE  \E x \in S : \A y \in S : x <= y
<1> DEFINE R == OpToRel(<, Nat)
<1>1. IsWellFoundedOn(R, Nat)
  BY NatLessThanWellFounded, Zenon
<1>2. R = {ss \in Nat \X Nat : ss[1] < ss[2]}
  BY DEF OpToRel
<1> HIDE DEF R
<1>3. PICK x \in S : \A y \in S : ~(<<y, x>> \in R)
  BY <1>1, WFMin, Zenon
<1>4. ASSUME NEW y \in S PROVE x <= y
  <2>1. x \in Nat /\ y \in Nat /\ <<y, x>> \in Nat \X Nat /\ <<y, x>> \notin R
    BY <1>3
  <2>2. ~(<<y, x>>[1] < <<y, x>>[2])
    BY <1>2, <2>1
  <2> QED BY <2>1, <2>2
<1> QED BY <1>4

(* A list of numbers has an upper bound: the first n of them have one, for *)
(* every n, since there is no first n for which they have none.            *)
LEMMA ListBounded ==
  ASSUME NEW n \in Nat, NEW g \in [1..n -> Nat]
  PROVE  \E m \in Nat : \A i \in 1..n : g[i] <= m
<1> DEFINE Ok(k) == \E m \in Nat : \A i \in 1..k : g[i] <= m
           Bad == {k \in 0..n : ~Ok(k)}
<1>0. Ok(0)
  OBVIOUS
<1>1. ASSUME NEW k \in 1..n, Ok(k - 1)
      PROVE  Ok(k)
  <2>1. PICK m \in Nat : \A i \in 1..(k - 1) : g[i] <= m
    BY <1>1
  <2>2. g[k] \in Nat /\ m + g[k] \in Nat
    OBVIOUS
  <2>3. \A i \in 1..k : g[i] <= m + g[k]
    <3> TAKE i \in 1..k
    <3>1. CASE i = k BY <3>1, <2>2
    <3>2. CASE i # k
      <4>1. i \in 1..(k - 1) /\ g[i] \in Nat
        BY <3>2
      <4>2. g[i] <= m
        BY <4>1, <2>1
      <4> QED BY <4>1, <4>2, <2>2
    <3> QED BY <3>1, <3>2
  <2> QED BY <2>2, <2>3
<1> HIDE DEF Ok
<1>2. Bad = {}
  <2> SUFFICES ASSUME Bad # {} PROVE FALSE
    OBVIOUS
  <2>1. Bad \in SUBSET Nat
    OBVIOUS
  <2>2. PICK k \in Bad : \A j \in Bad : k <= j
    BY <2>1, SmallestNat, Zenon
  <2>3. k \in 1..n /\ k - 1 \in 0..n
    BY <2>2, <1>0
  <2>4. k - 1 \notin Bad
    BY <2>2, <2>3
  <2>5. Ok(k - 1)
    BY <2>3, <2>4
  <2> QED BY <2>2, <2>3, <2>5, <1>1
<1>3. Ok(n)
  BY <1>2
<1> QED BY <1>3 DEF Ok

(* The longest interval exists, so that Horizon is a natural number that   *)
(* no stated bound exceeds.                                                *)
LEMMA HorizonIs ==
  /\ Horizon \in Nat
  /\ \A t \in Timed : Interval[t] + Slack < Horizon
<1> DEFINE V == {Interval[t] : t \in Timed}
           g == [i \in 1..NTimed |-> Interval[TimedEvents[i]]]
           U == {m \in Nat : \A v \in V : v <= m}
<1>0. /\ NTimed \in Nat /\ NTimed > 0 /\ Interval \in [Timed -> Nat] /\ TimedEvents \in [1..NTimed -> Timed]
      /\ Timed = {TimedEvents[i] : i \in 1..NTimed}
  BY Lists, IntervalsLong DEF Timed
<1>1. g \in [1..NTimed -> Nat]
  BY <1>0
<1>2. PICK m \in Nat : \A i \in 1..NTimed : g[i] <= m
  BY <1>0, <1>1, ListBounded, Zenon
<1>3. V \in SUBSET Nat /\ Interval[TimedEvents[1]] \in V
  <2>1. \A t \in Timed : Interval[t] \in Nat
    BY <1>0, Zenon
  <2>2. 1 \in 1..NTimed
    BY <1>0
  <2>3. TimedEvents[1] \in Timed
    BY <1>0, <2>2, Zenon
  <2> QED BY <2>1, <2>3
<1>4. U \in SUBSET Nat /\ m \in U
  <2>1. ASSUME NEW v \in V PROVE v <= m
    <3>1. PICK t \in Timed : v = Interval[t]
      OBVIOUS
    <3>2. PICK i \in 1..NTimed : t = TimedEvents[i]
      BY <1>0
    <3>3. g[i] = v
      BY <3>1, <3>2
    <3> QED BY <3>3, <1>2
  <2> QED BY <2>1
<1>5. PICK u \in U : \A y \in U : u <= y
  BY <1>4, SmallestNat, Zenon
<1>6. u \in V
  <2> SUFFICES ASSUME u \notin V PROVE FALSE
    OBVIOUS
  <2>1. \A v \in V : v \in Nat /\ v <= u /\ v # u
    BY <1>3, <1>5
  <2>2. u \in Nat /\ u > 0
    BY <2>1, <1>3, <1>5
  <2>3. u - 1 \in Nat /\ \A v \in V : v <= u - 1
    BY <2>1, <2>2
  <2>4. u - 1 \in U
    BY <2>3
  <2> QED BY <2>2, <2>4, <1>5
<1>7. \E x \in V : \A y \in V : x >= y
  BY <1>3, <1>5, <1>6, Zenon
<1> HIDE DEF V
<1>8. Max(V) \in V /\ \A y \in V : Max(V) >= y
  BY <1>7 DEF Max
<1>9. Max(V) \in Nat /\ Slack \in Nat
  BY <1>8, <1>3, SlackIs, Zenon
<1>10. Horizon = Max(V) + Slack + 1
  BY DEF Horizon, V
<1>11. \A t \in Timed : Interval[t] \in Nat /\ Max(V) >= Interval[t]
  BY <1>0, <1>8, Zenon DEF V
<1> QED BY <1>9, <1>10, <1>11

(* Older adds up to Horizon.                                               *)
LEMMA OlderIs ==
  ASSUME NEW x \in Ago, NEW d \in Nat
  PROVE  Older(x, d) \in Ago /\ Older(x, d) <= x + d
<1>1. Horizon \in Nat /\ x \in Nat /\ x <= Horizon
  BY HorizonIs DEF Ago
<1> DEFINE a == x + d
           h == Horizon
<1>2. a \in Nat /\ h \in Nat
  BY <1>1
<1> HIDE DEF a, h
<1>3. \E y \in {a, h} : \A z \in {a, h} : y =< z
  <2>1. CASE a <= h BY <2>1, <1>2
  <2>2. CASE h <= a BY <2>2, <1>2
  <2> QED BY <1>2, <2>1, <2>2
<1>4. Min({a, h}) \in {a, h} /\ Min({a, h}) <= a /\ Min({a, h}) <= h
  BY <1>3 DEF Min
<1>5. Older(x, d) = Min({a, h})
  BY DEF Older, a, h
<1> QED BY <1>1, <1>2, <1>4, <1>5 DEF Ago, a, h

-----------------------------------------------------------------------------
(* Time passes, and the events are touched.                                *)

(* What Touched is made of follows what was before, and what follows that  *)
(* without any time follows it too.                                        *)
LEMMA FollowsTwice ==
  ASSUME NEW old \in Events, NEW e, NEW e2, NEW d \in Nat,
         Follows(old, e, d), Follows(e, e2, 0)
  PROVE  Follows(old, e2, d)
<1>1. e \in Events /\ e2 \in Events
  BY DEF Follows
<1>2. ASSUME NEW t \in Timed \cap e2.enabled
      PROVE  \/ e2.last_call[t] = 0
             \/ t \in old.enabled /\ e2.last_call[t] <= old.last_call[t] + d
  <2>1. e.last_call[t] \in Nat /\ e2.last_call[t] \in Nat /\ old.last_call[t] \in Nat
    BY <1>1 DEF Events, Ago
  <2>2. e2.last_call[t] = 0 \/ (t \in e.enabled /\ e2.last_call[t] <= e.last_call[t] + 0)
    BY DEF Follows
  <2>3. t \in e.enabled =>
          \/ e.last_call[t] = 0
          \/ t \in old.enabled /\ e.last_call[t] <= old.last_call[t] + d
    BY DEF Follows
  <2> QED BY <2>1, <2>2, <2>3
<1>3. ASSUME NEW f \in Fds \cap e2.enabled
      PROVE  \/ e2.readable[f] \in {Never, 0}
             \/ /\ f \in old.enabled /\ old.readable[f] # Never
                /\ e2.readable[f] <= old.readable[f] + d
  <2>1. /\ e.readable[f] \in Nat \cup {Never} /\ e2.readable[f] \in Nat \cup {Never}
        /\ old.readable[f] \in Nat \cup {Never}
    BY <1>1 DEF Events, Ago
  <2>2. \/ e2.readable[f] \in {Never, 0}
        \/ f \in e.enabled /\ e.readable[f] # Never /\ e2.readable[f] <= e.readable[f] + 0
    BY DEF Follows
  <2>3. f \in e.enabled =>
          \/ e.readable[f] \in {Never, 0}
          \/ f \in old.enabled /\ old.readable[f] # Never /\ e.readable[f] <= old.readable[f] + d
    BY DEF Follows
  <2> QED BY <2>1, <2>2, <2>3 DEF Never
<1> QED BY <1>1, <1>2, <1>3 DEF Follows

(* Time passes.                                                            *)
LEMMA ElapseFollows ==
  ASSUME NEW e \in Events, NEW d \in Nat
  PROVE  Follows(e, Elapse(e, d), d)
<1> DEFINE L == [t \in Timed |-> IF t \in e.enabled THEN Older(e.last_call[t], d) ELSE 0]
           A == [t \in Timed |-> IF t \in e.enabled \cap Watched THEN Older(e.asked[t], d) ELSE 0]
           R == [f \in Fds |-> IF e.readable[f] = Never THEN Never
                               ELSE IF f \in e.enabled THEN Older(e.readable[f], d) ELSE 0]
<1>0. 0 \in Ago
  BY HorizonIs DEF Ago
<1>1. /\ \A t \in Timed : e.last_call[t] \in Ago /\ e.asked[t] \in Ago
      /\ \A f \in Fds : e.readable[f] # Never => e.readable[f] \in Ago
      /\ e.enabled \in SUBSET (Timed \cup Fds)
  BY DEF Events
<1>2. /\ \A t \in Timed : Older(e.last_call[t], d) \in Ago /\ Older(e.last_call[t], d) <= e.last_call[t] + d
      /\ \A t \in Timed : Older(e.asked[t], d) \in Ago
      /\ \A f \in Fds : e.readable[f] # Never =>
            Older(e.readable[f], d) \in Ago /\ Older(e.readable[f], d) <= e.readable[f] + d
  BY <1>1, OlderIs, Zenon
<1>3. L \in [Timed -> Ago] /\ A \in [Timed -> Ago] /\ R \in [Fds -> {Never} \cup Ago]
  BY <1>0, <1>2, Zenon
<1>4. Elapse(e, d) = [e EXCEPT !.last_call = L, !.asked = A, !.readable = R]
  BY DEF Elapse
<1>5. /\ Elapse(e, d) \in Events
      /\ Elapse(e, d).enabled = e.enabled
      /\ Elapse(e, d).last_call = L /\ Elapse(e, d).readable = R
  <2> HIDE DEF L, A, R
  <2> QED BY <1>3, <1>4, Zenon DEF Events
<1>6. /\ \A t \in Timed \cap e.enabled : L[t] = Older(e.last_call[t], d)
      /\ \A f \in Fds \cap e.enabled : R[f] = IF e.readable[f] = Never THEN Never
                                               ELSE Older(e.readable[f], d)
  OBVIOUS
<1> HIDE DEF L, A, R
<1> QED BY <1>2, <1>5, <1>6 DEF Follows

(* Enabling, rescheduling and disabling take no time.                      *)
LEMMA TouchesFollow ==
  ASSUME NEW e \in Events
  PROVE  /\ Follows(e, e, 0)
         /\ \A S : Follows(e, Disable(e, S), 0)
         /\ \A t \in Timed : Follows(e, reschedule_event(e, t), 0)
         /\ \A t \in Timed : Follows(e, enable_timed_event(e, t), 0)
         /\ \A f \in Fds : Follows(e, enable_fd_event(e, f), 0)
<1>0. 0 \in Ago /\ Ago \subseteq Nat
  BY HorizonIs DEF Ago
<1>1. Follows(e, e, 0)
  <2>1. \A t \in Timed : e.last_call[t] \in Nat
    BY <1>0, Zenon DEF Events
  <2>2. \A f \in Fds : e.readable[f] \in Nat \cup {Never}
    BY <1>0, Zenon DEF Events
  <2> QED BY <2>1, <2>2 DEF Follows
<1>2. ASSUME NEW S PROVE Follows(e, Disable(e, S), 0)
  <2> DEFINE u == [e EXCEPT !.enabled = @ \ S]
  <2>1. /\ u \in Events /\ u.enabled \subseteq e.enabled
        /\ u.last_call = e.last_call /\ u.readable = e.readable
    BY DEF Events
  <2>2. Follows(u, Elapse(u, 0), 0)
    BY <2>1, ElapseFollows
  <2>3. Disable(e, S) = Elapse(u, 0)
    BY DEF Disable
  <2> HIDE DEF u
  <2> QED BY <2>1, <2>2, <2>3, Zenon DEF Follows
<1>3. ASSUME NEW g \in Events, NEW t \in Timed,
             g.last_call = e.last_call, g.readable = e.readable,
             g.enabled = e.enabled \/ g.enabled = e.enabled \cup {t}
      PROVE  Follows(e, reschedule_event(g, t), 0)
  <2> DEFINE u == reschedule_event(g, t)
  <2>1. /\ u \in Events /\ u.enabled = g.enabled /\ u.readable = e.readable
        /\ u.last_call = [e.last_call EXCEPT ![t] = 0]
    BY <1>0, <1>3, Zenon DEF Events, reschedule_event
  <2> HIDE DEF u
  <2>2. ASSUME NEW x \in Timed \cap u.enabled
        PROVE  u.last_call[x] = 0 \/ (x \in e.enabled /\ u.last_call[x] <= e.last_call[x] + 0)
    <3>1. e.last_call \in [Timed -> Nat]
      BY <1>0, Zenon DEF Events
    <3>2. CASE x = t BY <2>1, <3>1, <3>2
    <3>3. CASE x # t
      <4>1. x \in e.enabled /\ u.last_call[x] = e.last_call[x] /\ e.last_call[x] \in Nat
        BY <1>3, <2>1, <3>1, <3>3
      <4> QED BY <4>1
    <3> QED BY <3>2, <3>3
  <2>3. ASSUME NEW f \in Fds \cap u.enabled
        PROVE  f \in e.enabled /\ u.readable[f] = e.readable[f] /\ e.readable[f] \in Nat \cup {Never}
    BY <1>0, <1>3, <2>1, EventsDistinct, Zenon DEF Events
  <2>4. Follows(e, u, 0)
    BY <2>1, <2>2, <2>3 DEF Follows
  <2> QED BY <2>4 DEF u
<1>4. ASSUME NEW t \in Timed PROVE Follows(e, enable_timed_event(e, t), 0)
  <2> DEFINE g == [e EXCEPT !.enabled = @ \cup {t}]
  <2>1. g \in Events /\ g.last_call = e.last_call /\ g.readable = e.readable
        /\ g.enabled = e.enabled \cup {t}
    BY DEF Events
  <2>2. enable_timed_event(e, t) = reschedule_event(g, t)
    BY DEF enable_timed_event
  <2> HIDE DEF g
  <2> QED BY <2>1, <2>2, <1>3
<1>5. ASSUME NEW f \in Fds PROVE Follows(e, enable_fd_event(e, f), 0)
  <2> DEFINE u == enable_fd_event(e, f)
             v == SeenFromNow(e.readable[f])
  <2>0. v \in {Never, 0}
    BY DEF SeenFromNow
  <2>1. u = [e EXCEPT !.enabled = e.enabled \cup {f}, !.readable[f] = v]
    BY DEF enable_fd_event
  <2> HIDE DEF u, v
  <2>2. /\ u \in Events /\ u.enabled = e.enabled \cup {f} /\ u.last_call = e.last_call
        /\ u.readable = [e.readable EXCEPT ![f] = v]
    BY <1>0, <2>0, <2>1, Zenon DEF Events
  <2>3. ASSUME NEW t \in Timed \cap u.enabled
        PROVE  t \in e.enabled /\ u.last_call[t] = e.last_call[t] /\ e.last_call[t] \in Nat
    BY <1>0, <2>2, EventsDistinct, Zenon DEF Events
  <2>4. ASSUME NEW g \in Fds \cap u.enabled
        PROVE  \/ u.readable[g] \in {Never, 0}
               \/ g \in e.enabled /\ e.readable[g] # Never /\ u.readable[g] <= e.readable[g] + 0
    <3>1. e.readable \in [Fds -> Nat \cup {Never}]
      BY <1>0, Zenon DEF Events
    <3>2. CASE g = f BY <2>0, <2>2, <3>1, <3>2
    <3>3. CASE g # f
      <4>1. g \in e.enabled /\ u.readable[g] = e.readable[g] /\ e.readable[g] \in Nat \cup {Never}
        BY <2>2, <3>1, <3>3
      <4> QED BY <4>1
    <3> QED BY <3>2, <3>3
  <2>5. Follows(e, u, 0)
    BY <2>2, <2>3, <2>4 DEF Follows
  <2> QED BY <2>5 DEF u
<1> QED BY <1>1, <1>2, <1>3, <1>4, <1>5, Zenon

(* What a callback or the application leaves behind follows what was       *)
(* before.                                                                 *)
LEMMA TouchedFollows ==
  ASSUME NEW old \in Events, NEW d \in Nat, NEW e \in Touched(old, d)
  PROVE  Follows(old, e, d)
<1> DEFINE g == Elapse(old, d)
<1>1. Follows(old, g, d) /\ g \in Events
  BY ElapseFollows DEF Follows
<1>2. \/ e = g \/ \E S : e = Disable(g, S)
      \/ \E t \in Timed : e = enable_timed_event(g, t)
      \/ \E t \in Timed : e = reschedule_event(g, t)
      \/ \E f \in Fds : e = enable_fd_event(g, f)
  BY Zenon DEF Touched
<1> HIDE DEF g
<1>3. Follows(g, e, 0)
  BY <1>1, <1>2, TouchesFollow, Zenon
<1> QED BY <1>1, <1>3, FollowsTwice, Zenon

-----------------------------------------------------------------------------
(* The steps of the loop.                                                  *)

(* Sets of timed events are no larger than the list.                       *)
LEMMA TurnsBounded ==
  ASSUME NEW S \in SUBSET Timed
  PROVE  IsFiniteSet(S) /\ Cardinality(S) \in 0..NTimed
<1>1. TimedEvents \in Surjection(1..NTimed, Timed)
  BY Lists DEF Surjection, Timed
<1>2. NTimed \in Nat /\ IsFiniteSet(1..NTimed) /\ Cardinality(1..NTimed) = NTimed
  BY Lists, FS_Interval
<1>3. IsFiniteSet(Timed) /\ Cardinality(Timed) <= NTimed
  BY <1>1, <1>2, FS_Surjection
<1>4. IsFiniteSet(S) /\ Cardinality(S) <= Cardinality(Timed)
  BY <1>3, FS_Subset
<1> QED BY <1>2, <1>3, <1>4, FS_CardinalityType

(* The types of what the bounds are about.                                 *)
LEMMA EventTypes ==
  ASSUME NEW e \in Events
  PROVE  /\ \A t \in Timed : e.last_call[t] \in Nat
         /\ \A f \in Fds : e.readable[f] \in Nat \cup {Never}
         /\ 0 \in Ago /\ Ago \subseteq Nat
<1>1. 0 \in Ago /\ Ago \subseteq Nat
  BY HorizonIs DEF Ago
<1> QED BY <1>1, Zenon DEF Events

(* The bound of a round grows with the turns taken, up to that of select.  *)
LEMMA RoundBound ==
  ASSUME NEW S \in SUBSET Timed
  PROVE  /\ Time(NFds + Cardinality(S)) \in Nat
         /\ Time(NFds) <= Time(NFds + Cardinality(S))
         /\ Time(NFds + Cardinality(S)) <= Time(NFds + NTimed)
         /\ Time(NFds + NTimed) \in Nat
<1>1. Cardinality(S) \in 0..NTimed /\ NFds \in Nat /\ NTimed \in Nat
  BY TurnsBounded, Lists
<1>2. /\ NFds + Cardinality(S) \in Nat /\ NFds + NTimed \in Nat
      /\ NFds <= NFds + Cardinality(S) /\ NFds + Cardinality(S) <= NFds + NTimed
  BY <1>1
<1> QED BY <1>1, <1>2, TimeAdds, Zenon

(* The loop starts with every time at zero.                                *)
LEMMA StartInTime ==
  ASSUME InTime, event_system_start
  PROVE  InTime'
<1> DEFINE L == [t \in Timed |-> 0]
           R == [f \in Fds |-> SeenFromNow(ev.readable[f])]
<1>1. ev \in Events /\ next_event \in Timed /\ ready \subseteq Fds
  BY DEF InTime, TypeOK
<1>2. /\ L \in [Timed -> Ago] /\ R \in [Fds -> {Never} \cup Ago]
      /\ \A f \in Fds : R[f] \in {Never, 0}
      /\ \A t \in Timed : L[t] = 0
  BY <1>1, EventTypes DEF SeenFromNow
<1>3. ev' = [ev EXCEPT !.last_call = L, !.readable = R] /\ pc' = "loop"
      /\ next_event' = next_event /\ ready' = ready
  BY DEF event_system_start
<1> HIDE DEF L, R
<1>4. ev' \in Events /\ ev'.last_call = L /\ ev'.readable = R
  BY <1>1, <1>2, <1>3, Zenon DEF Events
<1>5. TypeOK'
  BY <1>1, <1>3, <1>4 DEF TypeOK
<1>6. Cardinality({}) = 0 /\ {} \in SUBSET Timed
  BY FS_EmptySet
<1>7. Time(NFds + Cardinality({})) \in Nat
  BY <1>6, RoundBound
<1>8. RoundInTime'
  <2>1. ASSUME NEW t \in Timed \cap ev'.enabled
        PROVE  ev'.last_call[t] <= Time(NFds + Cardinality({})) + IF t \in {} THEN 0 ELSE Interval[t]
    <3>1. ev'.last_call[t] = 0 /\ Interval[t] \in Nat
      BY <1>2, <1>4, SlackIs
    <3> QED BY <1>7, <3>1
  <2>2. ASSUME NEW f \in Ready'
        PROVE  ev'.readable[f] <= Time(NFds + Cardinality({}))
    BY <1>2, <1>4, <1>7 DEF Ready
  <2> QED BY <2>1, <2>2, <1>3, <1>6 DEF RoundInTime
<1> QED BY <1>3, <1>5, <1>8 DEF InTime, SelectInTime, WalkInTime

(* A round calls a due event, or finds that none is due.                   *)
LEMMA CalcInTime ==
  ASSUME InTime, calc_next_timed_event
  PROVE  InTime'
<1>1. /\ pc = "loop" /\ ev' = ev /\ ready' = ready
      /\ ev \in Events /\ next_event \in Timed /\ ready \subseteq Fds
  BY DEF calc_next_timed_event, InTime, TypeOK
<1>2. PICK S \in SUBSET Timed :
        /\ \A t \in Timed \cap ev.enabled : ev.last_call[t] <=
             Time(NFds + Cardinality(S)) + IF t \in S THEN 0 ELSE Interval[t]
        /\ \A f \in Ready : ev.readable[f] <= Time(NFds + Cardinality(S))
  BY <1>1 DEF InTime, RoundInTime
<1>3. Ready' = Ready
  BY <1>1 DEF Ready
<1>4. CASE \E t \in Timed : /\ IsFirst(TimedEvents, {u \in Timed : Due(u)}, t)
                            /\ next_event' = t /\ pc' = "fire"
  <2>1. next_event' \in Timed /\ Due(next_event)' /\ pc' = "fire"
    BY <1>1, <1>4 DEF IsFirst, Due
  <2>2. TypeOK'
    BY <1>1, <2>1 DEF TypeOK
  <2>3. /\ \A t \in Timed \cap ev'.enabled : ev'.last_call[t] <=
             Time(NFds + Cardinality(S)) + IF t \in S THEN 0 ELSE Interval[t]
        /\ \A f \in Ready' : ev'.readable[f] <= Time(NFds + Cardinality(S))
    BY <1>1, <1>2, <1>3, Zenon
  <2>4. RoundInTime'
    BY <2>1, <2>3, Zenon DEF RoundInTime
  <2> QED BY <2>1, <2>2, <2>4 DEF InTime, SelectInTime, WalkInTime
<1>5. CASE (\A t \in Timed : ~Due(t)) /\ pc' = "select" /\ next_event' = next_event
  <2>1. TypeOK'
    BY <1>1, <1>5 DEF TypeOK
  <2>2. ASSUME NEW t \in Timed \cap ev.enabled PROVE ev.last_call[t] <= Interval[t]
    BY <1>1, <1>5, EventTypes, SlackIs DEF Due
  <2>3. ASSUME NEW f \in Ready PROVE ev.readable[f] <= Time(NFds + NTimed)
    <3>1. ev.readable[f] \in Nat /\ ev.readable[f] <= Time(NFds + Cardinality(S))
      BY <1>1, <1>2, EventTypes DEF Ready
    <3> QED BY <3>1, RoundBound
  <2>4. SelectInTime'
    BY <1>1, <1>3, <2>2, <2>3 DEF SelectInTime
  <2> QED BY <1>5, <2>1, <2>4 DEF InTime, WalkInTime, RoundInTime
<1> QED BY <1>4, <1>5 DEF calc_next_timed_event

(* select waits only while nothing is due and nothing readable.            *)
LEMMA SelectWaitsInTime ==
  ASSUME InTime, SelectWaits
  PROVE  InTime'
<1>1. /\ pc = "select" /\ pc' = pc /\ next_event' = next_event /\ ready' = ready
      /\ Ready = {} /\ TimeLeft /\ ev' = Elapse(ev, 1)
      /\ ev \in Events /\ next_event \in Timed /\ ready \subseteq Fds
  BY DEF SelectWaits, InTime, TypeOK
<1>2. Follows(ev, ev', 1)
  BY <1>1, ElapseFollows
<1>3. ev' \in Events
  BY <1>2 DEF Follows
<1>4. TypeOK'
  BY <1>1, <1>3 DEF TypeOK
<1>5. ASSUME NEW t \in Timed \cap ev'.enabled PROVE ev'.last_call[t] <= Interval[t]
  <2>1. ev'.last_call[t] = 0 \/ (t \in ev.enabled /\ ev'.last_call[t] <= ev.last_call[t] + 1)
    BY <1>2 DEF Follows
  <2>2. t \in ev.enabled => ev.last_call[t] < Interval[t]
    BY <1>1, EventTypes, SlackIs DEF TimeLeft, Due
  <2>3. ev.last_call[t] \in Nat /\ ev'.last_call[t] \in Nat /\ Interval[t] \in Nat
    BY <1>1, <1>3, EventTypes, SlackIs
  <2> QED BY <2>1, <2>2, <2>3
<1>6. ASSUME NEW f \in Ready' PROVE ev'.readable[f] <= Time(NFds + NTimed)
  <2>1. \/ ev'.readable[f] \in {Never, 0}
        \/ f \in ev.enabled /\ ev.readable[f] # Never
    BY <1>2 DEF Follows, Ready
  <2>2. ev'.readable[f] = 0
    BY <1>1, <2>1 DEF Ready
  <2>3. Time(NFds + NTimed) \in Nat
    BY WholeTurn
  <2> QED BY <2>2, <2>3
<1>7. SelectInTime'
  BY <1>5, <1>6 DEF SelectInTime
<1> QED BY <1>1, <1>4, <1>7 DEF InTime, WalkInTime, RoundInTime

(* The walk starts with everything ahead of it.                            *)
LEMMA SelectReturnsInTime ==
  ASSUME InTime, SelectReturns
  PROVE  InTime'
<1>1. /\ pc = "select" /\ pc' = "fds" /\ next_event' = next_event /\ ready' = Ready
      /\ ev' = ev /\ ev \in Events /\ next_event \in Timed
  BY DEF SelectReturns, InTime, TypeOK
<1>2. Ready \subseteq Fds /\ Ready' = Ready
  BY <1>1 DEF Ready
<1>3. TypeOK'
  BY <1>1, <1>2 DEF TypeOK
<1>4. Time(0) = 0 /\ Time(NFds + NTimed) \in Nat /\ 0 \in 0..NFds
  BY Lists, WholeTurn
<1>5. ready' \subseteq {FdEvents[j] : j \in (0 + 1)..NFds}
  BY <1>1, <1>2, Lists DEF Fds
<1>6. ASSUME NEW t \in Timed \cap ev'.enabled PROVE ev'.last_call[t] <= Interval[t] + Time(0)
  BY <1>1, <1>4, EventTypes, SlackIs DEF InTime, SelectInTime
<1>7. ASSUME NEW f \in Ready'
      PROVE  ev'.readable[f] <= Time(0) + IF f \in ready' THEN Time(NFds + NTimed) ELSE 0
  BY <1>1, <1>2, <1>4 DEF InTime, SelectInTime
<1>8. WalkInTime'
  BY <1>4, <1>5, <1>6, <1>7, Zenon DEF WalkInTime
<1> QED BY <1>1, <1>3, <1>8 DEF InTime, SelectInTime, RoundInTime

(* The walk ends: no timed event had its turn yet.                         *)
LEMMA SleepDoneInTime ==
  ASSUME InTime, SleepDone
  PROVE  InTime'
<1>1. /\ pc = "fds" /\ pc' = "loop" /\ next_event' = next_event /\ ready' = {}
      /\ ev' = ev /\ ev \in Events /\ next_event \in Timed /\ ready \cap ev.enabled = {}
  BY DEF SleepDone, InTime, TypeOK
<1>2. TypeOK'
  BY <1>1 DEF TypeOK
<1>3. PICK w \in 0..NFds :
        /\ \A t \in Timed \cap ev.enabled : ev.last_call[t] <= Interval[t] + Time(w)
        /\ \A f \in Ready : ev.readable[f] <=
             Time(w) + IF f \in ready THEN Time(NFds + NTimed) ELSE 0
  BY <1>1 DEF InTime, WalkInTime
<1>4. w \in Nat /\ NFds \in Nat /\ w <= NFds
  BY Lists
<1>5. Time(w) \in Nat /\ Time(NFds) \in Nat /\ Time(w) <= Time(NFds)
  BY <1>4, TimeAdds, Zenon
<1>6. Cardinality({}) = 0 /\ {} \in SUBSET Timed /\ NFds + 0 = NFds
  BY <1>4, FS_EmptySet
<1>7. ASSUME NEW t \in Timed \cap ev'.enabled
      PROVE  ev'.last_call[t] <= Time(NFds + Cardinality({})) + IF t \in {} THEN 0 ELSE Interval[t]
  BY <1>1, <1>3, <1>5, <1>6, EventTypes, SlackIs
<1>8. ASSUME NEW f \in Ready' PROVE ev'.readable[f] <= Time(NFds + Cardinality({}))
  <2>1. f \in Ready /\ f \notin ready /\ ev.readable[f] \in Nat
    BY <1>1, EventTypes DEF Ready
  <2> QED BY <1>1, <1>3, <1>5, <1>6, <2>1
<1>9. RoundInTime'
  BY <1>1, <1>6, <1>7, <1>8, Zenon DEF RoundInTime
<1> QED BY <1>1, <1>2, <1>9 DEF InTime, SelectInTime, WalkInTime

(* Outside the loop nothing is promised but the types.                     *)
LEMMA OutsideInTime ==
  ASSUME TypeOK', pc' = "app"
  PROVE  InTime'
  BY DEF InTime, SelectInTime, WalkInTime, RoundInTime

(* What a callback does to the events, with the types.                     *)
LEMMA CallbackFollows ==
  ASSUME NEW old \in Events, NEW d \in 0..CallbackTime, NEW e \in Touched(old, d)
  PROVE  Follows(old, e, d) /\ e \in Events /\ d \in Nat /\ d <= CallbackTime
<1>1. d \in Nat /\ d <= CallbackTime
  BY Lists
<1>2. Follows(old, e, d)
  BY <1>1, TouchedFollows
<1> QED BY <1>1, <1>2 DEF Follows

(* A timed event is called that had no turn in this round: the set of      *)
(* those that had one grows, and the others are older by one callback.     *)
LEMMA CallTimedInTime ==
  ASSUME InTime, CallTimed
  PROVE  InTime'
<1>1. /\ pc = "fire" /\ next_event' = next_event /\ ready' = ready
      /\ ev \in Events /\ next_event \in Timed /\ ready \subseteq Fds
  BY DEF CallTimed, InTime, TypeOK
<1> DEFINE old == [ev EXCEPT !.asked[next_event] = 0]
<1>0. PICK d \in 0..CallbackTime, stop \in BOOLEAN : \E e \in Touched(old, d) :
        /\ ev' = IF stop THEN e
                 ELSE [e EXCEPT !.last_call[next_event] =
                                    IF next_event \in e.enabled THEN d ELSE 0]
        /\ pc' = IF stop THEN "app" ELSE "loop"
  BY Zenon DEF CallTimed
<1>2. PICK e \in Touched(old, d) :
        /\ ev' = IF stop THEN e
                 ELSE [e EXCEPT !.last_call[next_event] =
                                    IF next_event \in e.enabled THEN d ELSE 0]
        /\ pc' = IF stop THEN "app" ELSE "loop"
  BY <1>0, Zenon
<1>3. /\ old \in Events /\ old.enabled = ev.enabled
      /\ old.last_call = ev.last_call /\ old.readable = ev.readable
  BY <1>1, EventTypes DEF Events
<1> HIDE DEF old
<1>4. Follows(old, e, d) /\ e \in Events /\ d \in Nat /\ d <= CallbackTime
  BY <1>2, <1>3, CallbackFollows
<1>5. CASE stop
  <2>1. TypeOK' /\ pc' = "app"
    BY <1>1, <1>2, <1>4, <1>5 DEF TypeOK
  <2> QED BY <2>1, OutsideInTime
<1>6. CASE ~stop
  <2>1. PICK S \in SUBSET Timed :
          /\ \A t \in Timed \cap ev.enabled : ev.last_call[t] <=
               Time(NFds + Cardinality(S)) + IF t \in S THEN 0 ELSE Interval[t]
          /\ \A f \in Ready : ev.readable[f] <= Time(NFds + Cardinality(S))
          /\ Due(next_event)
    BY <1>1 DEF InTime, RoundInTime
  <2>2. next_event \notin S
    <3> SUFFICES ASSUME next_event \in S PROVE FALSE
      OBVIOUS
    <3>1. next_event \in Timed \cap ev.enabled /\ ev.last_call[next_event] >= Interval[next_event]
      BY <1>1, <2>1 DEF Due
    <3>2. ev.last_call[next_event] <= Time(NFds + Cardinality(S)) + 0
      BY <2>1, <3>1
    <3>3. ev.last_call[next_event] \in Nat
      BY <1>1, EventTypes
    <3> QED BY <1>1, <3>1, <3>2, <3>3, RoundBound, SlackIs
  <2> DEFINE S2 == S \cup {next_event}
             b == Time(NFds + Cardinality(S))
             b2 == Time(NFds + Cardinality(S2))
             n == IF next_event \in e.enabled THEN d ELSE 0
  <2>3. S2 \in SUBSET Timed /\ b \in Nat /\ b2 = b + CallbackTime /\ CallbackTime \in Nat
    <3>1. IsFiniteSet(S) /\ Cardinality(S) \in Nat /\ NFds \in Nat /\ CallbackTime \in Nat
      BY TurnsBounded, Lists
    <3>2. Cardinality(S2) = Cardinality(S) + 1
      BY <2>2, <3>1, FS_AddElement, Zenon
    <3>3. NFds + Cardinality(S) \in Nat /\ NFds + Cardinality(S2) = (NFds + Cardinality(S)) + 1
      BY <3>1, <3>2
    <3>4. Time((NFds + Cardinality(S)) + 1) = b + CallbackTime /\ b \in Nat
      BY <3>3, TimeAdds, Zenon
    <3> QED BY <1>1, <3>1, <3>3, <3>4
  <2>4. n \in Ago /\ n <= CallbackTime
    <3>1. d \in Ago
      <4>1. \E t \in Timed : TRUE
        BY <1>1
      <4>2. CallbackTime <= Horizon
        <5>1. PICK k \in Nat : Slack = CallbackTime * k /\ k > 0
          <6>1. Slack = CallbackTime * (NTimed + 2 * NFds) /\ NTimed + 2 * NFds \in Nat /\ NTimed + 2 * NFds > 0
            BY Lists DEF Slack, NTimed, NFds
          <6> QED BY <6>1
        <5>2. k - 1 \in Nat /\ (k - 1) + 1 = k
          BY <5>1
        <5>3. Time((k - 1) + 1) = Time(k - 1) + CallbackTime /\ Time(k - 1) \in Nat
          BY <5>2, TimeAdds, Zenon
        <5>4. Slack >= CallbackTime
          BY <5>1, <5>2, <5>3, Lists DEF Time
        <5> QED BY <1>1, <5>4, HorizonIs, SlackIs, Lists
      <4> QED BY <1>4, <4>2, HorizonIs, Lists DEF Ago
    <3> QED BY <3>1, <1>4, <2>3, EventTypes
  <2>5. ev' = [e EXCEPT !.last_call[next_event] = n] /\ pc' = "loop"
    BY <1>2, <1>6
  <2> HIDE DEF S2, b, b2, n
  <2>6. /\ ev' \in Events /\ ev'.enabled = e.enabled /\ ev'.readable = e.readable
        /\ ev'.last_call = [e.last_call EXCEPT ![next_event] = n]
    BY <1>1, <1>4, <2>4, <2>5 DEF Events
  <2>7. TypeOK'
    BY <1>1, <2>5, <2>6 DEF TypeOK
  <2>8. ASSUME NEW t \in Timed \cap ev'.enabled
        PROVE  ev'.last_call[t] <= b2 + IF t \in S2 THEN 0 ELSE Interval[t]
    <3>1. e.last_call \in [Timed -> Ago] /\ Interval[t] \in Nat
      BY <1>4, SlackIs DEF Events
    <3>2. CASE t = next_event
      <4>1. ev'.last_call[t] = n /\ n \in Nat
        BY <2>4, <2>6, <3>1, <3>2, <1>4, EventTypes
      <4> QED BY <4>1, <2>3, <2>4, <3>1
    <3>3. CASE t # next_event
      <4>1. ev'.last_call[t] = e.last_call[t] /\ t \in Timed \cap e.enabled
        BY <2>6, <3>1, <3>3
      <4>2. e.last_call[t] = 0 \/ (t \in ev.enabled /\ e.last_call[t] <= ev.last_call[t] + d)
        BY <1>3, <1>4, <4>1 DEF Follows
      <4>3. t \in ev.enabled => ev.last_call[t] <= b + IF t \in S THEN 0 ELSE Interval[t]
        BY <2>1 DEF b
      <4>4. t \in S <=> t \in S2
        BY <3>3 DEF S2
      <4>5. e.last_call[t] \in Nat /\ ev.last_call[t] \in Nat
        BY <1>1, <1>4, EventTypes
      <4>6. CASE t \in S
        BY <4>1, <4>2, <4>3, <4>4, <4>5, <4>6, <2>3, <1>4
      <4>7. CASE t \notin S
        BY <4>1, <4>2, <4>3, <4>4, <4>5, <4>7, <2>3, <1>4, <3>1
      <4> QED BY <4>6, <4>7
    <3> QED BY <3>2, <3>3
  <2>9. ASSUME NEW f \in Ready' PROVE ev'.readable[f] <= b2
    <3>1. f \in Fds \cap e.enabled /\ ev'.readable[f] = e.readable[f] /\ e.readable[f] # Never
      BY <2>6 DEF Ready
    <3>2. \/ e.readable[f] \in {Never, 0}
          \/ f \in ev.enabled /\ ev.readable[f] # Never /\ e.readable[f] <= ev.readable[f] + d
      BY <1>3, <1>4, <3>1 DEF Follows
    <3>3. f \in ev.enabled /\ ev.readable[f] # Never => ev.readable[f] <= b /\ ev.readable[f] \in Nat
      BY <1>1, <2>1, <3>1, EventTypes DEF Ready, b
    <3>4. e.readable[f] \in Nat
      BY <1>4, <3>1, EventTypes
    <3> QED BY <3>1, <3>2, <3>3, <3>4, <2>3, <1>4
  <2>10. RoundInTime'
    BY <2>3, <2>5, <2>8, <2>9, Zenon DEF RoundInTime, b2
  <2> QED BY <2>5, <2>7, <2>10 DEF InTime, SelectInTime, WalkInTime
<1> QED BY <1>5, <1>6

(* The events of the list behind the one that is called, and the first     *)
(* that is still enabled.                                                  *)
LEMMA WalkOrder ==
  ASSUME NEW w \in 0..NFds, ready \subseteq {FdEvents[j] : j \in (w + 1)..NFds},
         NEW f \in Fds, IsFirst(FdEvents, ready \cap ev.enabled, f)
  PROVE  \E v \in 0..NFds :
           /\ v >= w + 1
           /\ ready \cap After(f) \subseteq {FdEvents[j] : j \in (v + 1)..NFds}
           /\ f \in ready /\ f \notin After(f)
           /\ \A g \in ready \cap ev.enabled : g = f \/ g \in After(f)
<1>1. NFds \in Nat /\ DOMAIN FdEvents = 1..NFds
  BY Lists
<1>2. \A i, j \in 1..NFds : FdEvents[i] = FdEvents[j] => i = j
  BY <1>1, EventsDistinct
<1>3. PICK v \in 1..NFds : /\ FdEvents[v] = f /\ f \in ready \cap ev.enabled
                           /\ \A j \in 1..(v - 1) : FdEvents[j] \notin ready \cap ev.enabled
  BY <1>1 DEF IsFirst
<1>4. v >= w + 1
  <2>1. PICK j \in (w + 1)..NFds : f = FdEvents[j]
    BY <1>3
  <2>2. j \in 1..NFds /\ j = v
    BY <2>1, <1>1, <1>2, <1>3
  <2> QED BY <2>1, <2>2
<1>5. After(f) = {FdEvents[j] : j \in {k \in 1..NFds : \E i \in 1..(k - 1) : FdEvents[i] = f}}
  BY <1>1 DEF After
<1>6. {k \in 1..NFds : \E i \in 1..(k - 1) : FdEvents[i] = f} = (v + 1)..NFds
  <2>1. ASSUME NEW k \in 1..NFds, NEW i \in 1..(k - 1), FdEvents[i] = f
        PROVE  k \in (v + 1)..NFds
    <3>1. i \in 1..NFds /\ i = v
      BY <1>1, <1>2, <1>3, <2>1
    <3> QED BY <3>1
  <2>2. ASSUME NEW k \in (v + 1)..NFds
        PROVE  k \in 1..NFds /\ \E i \in 1..(k - 1) : FdEvents[i] = f
    <3>1. k \in 1..NFds /\ v \in 1..(k - 1)
      BY <1>1
    <3> QED BY <3>1, <1>3
  <2> QED BY <2>1, <2>2
<1>7. After(f) = {FdEvents[j] : j \in (v + 1)..NFds}
  BY <1>5, <1>6
<1>8. f \notin After(f)
  <2> SUFFICES ASSUME NEW j \in (v + 1)..NFds, f = FdEvents[j] PROVE FALSE
    BY <1>7
  <2>1. j \in 1..NFds /\ j # v
    BY <1>1
  <2> QED BY <2>1, <1>2, <1>3
<1>9. ASSUME NEW g \in ready \cap ev.enabled, g # f PROVE g \in After(f)
  <2>1. PICK j \in (w + 1)..NFds : g = FdEvents[j]
    OBVIOUS
  <2>2. j \in 1..NFds /\ j # v /\ ~(j \in 1..(v - 1))
    BY <1>1, <1>3, <1>9, <2>1
  <2>3. j \in (v + 1)..NFds
    BY <1>1, <2>2
  <2> QED BY <1>7, <2>1, <2>3
<1>10. v \in 0..NFds
  BY <1>1
<1> QED BY <1>3, <1>4, <1>7, <1>8, <1>9, <1>10, Zenon

(* A descriptor is called: everything else is older by one callback, and   *)
(* it is behind the walk.                                                  *)
LEMMA CallFdInTime ==
  ASSUME InTime, CallFd
  PROVE  InTime'
<1>1. /\ pc = "fds" /\ next_event' = next_event
      /\ ev \in Events /\ next_event \in Timed /\ ready \subseteq Fds
  BY DEF CallFd, InTime, TypeOK
<1>2. PICK f \in Fds, d \in 0..CallbackTime, stop \in BOOLEAN, more \in BOOLEAN :
        /\ IsFirst(FdEvents, ready \cap ev.enabled, f)
        /\ \E e \in Touched([ev EXCEPT !.readable[f] = Never], d) :
              ev' = [e EXCEPT !.readable[f] = IF more THEN 0 ELSE Never]
        /\ ready' = IF stop THEN {} ELSE ready \cap After(f)
        /\ pc' = IF stop THEN "app" ELSE "fds"
  BY Zenon DEF CallFd
<1> DEFINE old == [ev EXCEPT !.readable[f] = Never]
           m == IF more THEN 0 ELSE Never
<1>3. PICK e \in Touched(old, d) : ev' = [e EXCEPT !.readable[f] = m]
  BY <1>2, Zenon
<1>4. /\ old \in Events /\ old.enabled = ev.enabled /\ old.last_call = ev.last_call
      /\ \A g \in Fds : g # f => old.readable[g] = ev.readable[g]
  BY <1>1 DEF Events
<1>5. m \in {Never, 0}
  OBVIOUS
<1> HIDE DEF old, m
<1>6. Follows(old, e, d) /\ e \in Events /\ d \in Nat /\ d <= CallbackTime
  BY <1>3, <1>4, CallbackFollows
<1>7. /\ ev' \in Events /\ ev'.enabled = e.enabled /\ ev'.last_call = e.last_call
      /\ ev'.readable = [e.readable EXCEPT ![f] = m]
  BY <1>3, <1>5, <1>6, EventTypes DEF Events
<1>8. TypeOK'
  BY <1>1, <1>2, <1>7 DEF TypeOK
<1>9. CASE stop
  BY <1>2, <1>8, <1>9, OutsideInTime
<1>10. CASE ~stop
  <2>1. PICK w \in 0..NFds :
          /\ ready \subseteq {FdEvents[j] : j \in (w + 1)..NFds}
          /\ \A t \in Timed \cap ev.enabled : ev.last_call[t] <= Interval[t] + Time(w)
          /\ \A g \in Ready : ev.readable[g] <=
               Time(w) + IF g \in ready THEN Time(NFds + NTimed) ELSE 0
    BY <1>1 DEF InTime, WalkInTime
  <2>2. PICK v \in 0..NFds :
           /\ v >= w + 1
           /\ ready \cap After(f) \subseteq {FdEvents[j] : j \in (v + 1)..NFds}
           /\ f \in ready /\ f \notin After(f)
           /\ \A g \in ready \cap ev.enabled : g = f \/ g \in After(f)
    BY <1>2, <2>1, WalkOrder, Zenon
  <2>3. ready' = ready \cap After(f) /\ pc' = "fds"
    BY <1>2, <1>10
  <2>4. /\ Time(w) \in Nat /\ Time(v) \in Nat /\ Time(v) >= Time(w) + CallbackTime
        /\ CallbackTime \in Nat /\ Time(NFds + NTimed) \in Nat
    <3>1. w \in Nat /\ v \in Nat /\ w + 1 \in Nat /\ w + 1 <= v
      BY <2>2, Lists
    <3>2. Time(w) \in Nat /\ Time(v) \in Nat /\ Time(w + 1) = Time(w) + CallbackTime /\ Time(w + 1) <= Time(v)
      BY <3>1, TimeAdds, Zenon
    <3> QED BY <3>2, Lists, WholeTurn
  <2>5. ASSUME NEW t \in Timed \cap ev'.enabled PROVE ev'.last_call[t] <= Interval[t] + Time(v)
    <3>1. e.last_call[t] = 0 \/ (t \in ev.enabled /\ e.last_call[t] <= ev.last_call[t] + d)
      BY <1>4, <1>6, <1>7 DEF Follows
    <3>2. e.last_call[t] \in Nat /\ ev.last_call[t] \in Nat /\ Interval[t] \in Nat
      BY <1>1, <1>6, EventTypes, SlackIs
    <3>3. t \in ev.enabled => ev.last_call[t] <= Interval[t] + Time(w)
      BY <2>1
    <3> QED BY <1>6, <1>7, <2>4, <3>1, <3>2, <3>3
  <2>6. ASSUME NEW g \in Ready'
        PROVE  ev'.readable[g] <= Time(v) + IF g \in ready' THEN Time(NFds + NTimed) ELSE 0
    <3>1. g \in Fds \cap e.enabled /\ ev'.readable[g] # Never /\ ev'.readable[g] \in Nat
      BY <1>7, EventTypes, Zenon DEF Ready
    <3>2. CASE ev'.readable[g] = 0
      BY <3>2, <2>4
    <3>3. CASE ev'.readable[g] # 0
      <4>1. g # f /\ ev'.readable[g] = e.readable[g]
        BY <1>5, <1>6, <1>7, <3>1, <3>3 DEF Events
      <4>2. g \in Ready /\ e.readable[g] <= ev.readable[g] + d /\ ev.readable[g] \in Nat
        BY <1>1, <1>4, <1>6, <3>1, <3>3, <4>1, EventTypes DEF Follows, Ready
      <4>3. g \in ready <=> g \in ready'
        BY <2>2, <2>3, <4>1, <4>2 DEF Ready
      <4>4. ev.readable[g] <= Time(w) + IF g \in ready THEN Time(NFds + NTimed) ELSE 0
        BY <2>1, <4>2
      <4>5. CASE g \in ready
        BY <1>6, <2>4, <3>1, <4>1, <4>2, <4>3, <4>4, <4>5
      <4>6. CASE g \notin ready
        BY <1>6, <2>4, <3>1, <4>1, <4>2, <4>3, <4>4, <4>6
      <4> QED BY <4>5, <4>6
    <3> QED BY <3>2, <3>3
  <2>7. WalkInTime'
    BY <2>2, <2>3, <2>5, <2>6, Zenon DEF WalkInTime
  <2> QED BY <1>8, <2>3, <2>7 DEF InTime, SelectInTime, RoundInTime
<1> QED BY <1>9, <1>10

(* What arrives waits from now on.                                         *)
LEMMA ArrivesInTime ==
  ASSUME InTime, Arrives
  PROVE  InTime'
<1>1. /\ pc' = pc /\ next_event' = next_event /\ ready' = ready
      /\ ev \in Events /\ TypeOK
  BY DEF Arrives, InTime, TypeOK
<1>2. PICK f \in Fds : ev' = [ev EXCEPT !.readable[f] = 0]
  BY Zenon DEF Arrives
<1>3. /\ ev' \in Events /\ ev'.enabled = ev.enabled /\ ev'.last_call = ev.last_call
      /\ ev'.readable = [ev.readable EXCEPT ![f] = 0]
  BY <1>1, <1>2, EventTypes DEF Events
<1>4. TypeOK'
  BY <1>1, <1>3 DEF TypeOK
<1>5. ASSUME NEW g \in Ready'
      PROVE  ev'.readable[g] = 0 \/ (g \in Ready /\ ev'.readable[g] = ev.readable[g])
  BY <1>1, <1>3 DEF Ready, Events
<1>6. SelectInTime'
  BY <1>1, <1>3, <1>5, WholeTurn DEF InTime, SelectInTime
<1>7. WalkInTime'
  <2> SUFFICES ASSUME pc = "fds" PROVE WalkInTime'
    BY <1>1 DEF WalkInTime
  <2>1. PICK w \in 0..NFds :
          /\ ready \subseteq {FdEvents[j] : j \in (w + 1)..NFds}
          /\ \A t \in Timed \cap ev.enabled : ev.last_call[t] <= Interval[t] + Time(w)
          /\ \A g \in Ready : ev.readable[g] <=
               Time(w) + IF g \in ready THEN Time(NFds + NTimed) ELSE 0
    BY DEF InTime, WalkInTime
  <2>2. w \in Nat
    BY Lists
  <2>3. Time(w) \in Nat
    BY <2>2, TimeAdds, Zenon
  <2>4. ASSUME NEW g \in Ready'
        PROVE  ev'.readable[g] <= Time(w) + IF g \in ready' THEN Time(NFds + NTimed) ELSE 0
    BY <1>1, <1>5, <2>1, <2>3, WholeTurn
  <2>5. \A t \in Timed \cap ev'.enabled : ev'.last_call[t] <= Interval[t] + Time(w)
    BY <1>3, <2>1, Zenon
  <2> QED BY <1>1, <2>1, <2>4, <2>5, Zenon DEF WalkInTime
<1>8. RoundInTime'
  <2> SUFFICES ASSUME pc \in {"loop", "fire"} PROVE RoundInTime'
    BY <1>1 DEF RoundInTime
  <2>1. PICK S \in SUBSET Timed :
          /\ \A t \in Timed \cap ev.enabled : ev.last_call[t] <=
               Time(NFds + Cardinality(S)) + IF t \in S THEN 0 ELSE Interval[t]
          /\ \A g \in Ready : ev.readable[g] <= Time(NFds + Cardinality(S))
          /\ pc = "fire" => Due(next_event)
    BY DEF InTime, RoundInTime
  <2>2. ASSUME NEW g \in Ready' PROVE ev'.readable[g] <= Time(NFds + Cardinality(S))
    BY <1>5, <2>1, RoundBound
  <2>3. pc' = "fire" => Due(next_event)'
    BY <1>1, <1>3, <2>1 DEF Due
  <2>4. \A t \in Timed \cap ev'.enabled : ev'.last_call[t] <=
          Time(NFds + Cardinality(S)) + IF t \in S THEN 0 ELSE Interval[t]
    BY <1>3, <2>1, Zenon
  <2> QED BY <2>2, <2>3, <2>4, Zenon DEF RoundInTime
<1> QED BY <1>4, <1>6, <1>7, <1>8 DEF InTime

(* Outside the loop the application touches the events, and select fails.  *)
LEMMA OutsideStepsInTime ==
  ASSUME InTime, Application \/ SelectFails
  PROVE  InTime'
<1>1. CASE Application
  <2>1. ev \in Events /\ ev' \in Touched(ev, 0) /\ 0 \in Nat
    BY <1>1 DEF Application, InTime, TypeOK
  <2>2. ev' \in Events
    BY <2>1, TouchedFollows DEF Follows
  <2>3. TypeOK' /\ pc' = "app"
    BY <1>1, <2>2 DEF Application, InTime, TypeOK
  <2> QED BY <2>3, OutsideInTime
<1>2. CASE SelectFails
  <2>1. TypeOK' /\ pc' = "app"
    BY <1>2 DEF SelectFails, InTime, TypeOK
  <2> QED BY <2>1, OutsideInTime
<1> QED BY <1>1, <1>2

-----------------------------------------------------------------------------
(* The theorems.                                                           *)

(* The loop has not been started in the initial state.                     *)
LEMMA InitInTime == Init => InTime
<1> SUFFICES ASSUME Init PROVE InTime
  OBVIOUS
<1>1. 0 \in Ago /\ 1 \in 1..NTimed
  BY HorizonIs, Lists DEF Ago
<1>2. TimedEvents[1] \in Timed
  BY <1>1, Lists
<1>3. ev \in Events
  BY <1>1 DEF Init, Events
<1> QED BY <1>2, <1>3 DEF Init, InTime, TypeOK, SelectInTime, WalkInTime, RoundInTime

(* Every step keeps the loop in time.                                      *)
LEMMA NextInTime == InTime /\ [Next]_vars => InTime'
<1> SUFFICES ASSUME InTime, [Next]_vars PROVE InTime'
  OBVIOUS
<1>1. CASE event_system_start
  BY <1>1, StartInTime
<1>2. CASE calc_next_timed_event
  BY <1>2, CalcInTime
<1>3. CASE event_system_sleep
  BY <1>3, SelectWaitsInTime, SelectReturnsInTime, OutsideStepsInTime, CallFdInTime,
     SleepDoneInTime DEF event_system_sleep
<1>4. CASE CallTimed
  BY <1>4, CallTimedInTime
<1>5. CASE Application
  BY <1>5, OutsideStepsInTime
<1>6. CASE Arrives
  BY <1>6, ArrivesInTime
<1>7. CASE UNCHANGED vars
  BY <1>7 DEF vars, InTime, TypeOK, SelectInTime, WalkInTime, RoundInTime, Ready, Due
<1> QED BY <1>1, <1>2, <1>3, <1>4, <1>5, <1>6, <1>7 DEF Next

(* What the invariant says of the events while the loop runs.              *)
LEMMA InTimeSuffices == InTime => TypeOK /\ TimedNotLate /\ FdNotLate
<1> SUFFICES ASSUME InTime PROVE TypeOK /\ TimedNotLate /\ FdNotLate
  OBVIOUS
<1>1. TypeOK /\ ev \in Events
  BY DEF InTime, TypeOK
<1>2. /\ \A t \in Timed : ev.last_call[t] \in Nat /\ Interval[t] \in Nat
      /\ \A f \in Ready : ev.readable[f] \in Nat
  BY <1>1, EventTypes, SlackIs DEF Ready
<1>3. Slack \in Nat /\ Slack = Time(NFds + NTimed) + Time(NFds)
      /\ Time(NFds + NTimed) \in Nat /\ Time(NFds) \in Nat
  BY SlackIs, WholeTurn
<1>4. CASE pc = "app"
  BY <1>1, <1>4 DEF TimedNotLate, FdNotLate, Running
<1>5. CASE pc = "select"
  BY <1>1, <1>2, <1>3, <1>5 DEF InTime, SelectInTime, TimedNotLate, FdNotLate
<1>6. CASE pc = "fds"
  <2>1. PICK w \in 0..NFds :
          /\ \A t \in Timed \cap ev.enabled : ev.last_call[t] <= Interval[t] + Time(w)
          /\ \A g \in Ready : ev.readable[g] <=
               Time(w) + IF g \in ready THEN Time(NFds + NTimed) ELSE 0
    BY <1>6 DEF InTime, WalkInTime
  <2>2. w \in Nat /\ NFds \in Nat /\ w <= NFds
    BY Lists
  <2>3. Time(w) \in Nat /\ Time(w) <= Time(NFds)
    BY <2>2, TimeAdds, Zenon
  <2>4. ASSUME NEW t \in Timed \cap ev.enabled PROVE ev.last_call[t] <= Interval[t] + Slack
    BY <1>2, <1>3, <2>1, <2>3
  <2>5. ASSUME NEW f \in Ready PROVE ev.readable[f] <= Slack
    BY <1>2, <1>3, <2>1, <2>3
  <2> QED BY <1>1, <2>4, <2>5 DEF TimedNotLate, FdNotLate
<1>7. CASE pc \in {"loop", "fire"}
  <2>1. PICK S \in SUBSET Timed :
          /\ \A t \in Timed \cap ev.enabled : ev.last_call[t] <=
               Time(NFds + Cardinality(S)) + IF t \in S THEN 0 ELSE Interval[t]
          /\ \A g \in Ready : ev.readable[g] <= Time(NFds + Cardinality(S))
    BY <1>7 DEF InTime, RoundInTime
  <2>2. Time(NFds + Cardinality(S)) \in Nat /\ Time(NFds + Cardinality(S)) <= Slack
    BY <1>3, RoundBound
  <2>3. ASSUME NEW t \in Timed \cap ev.enabled PROVE ev.last_call[t] <= Interval[t] + Slack
    BY <1>2, <1>3, <2>1, <2>2
  <2>4. ASSUME NEW f \in Ready PROVE ev.readable[f] <= Slack
    BY <1>2, <1>3, <2>1, <2>2
  <2> QED BY <1>1, <2>3, <2>4 DEF TimedNotLate, FdNotLate
<1> QED BY <1>1, <1>4, <1>5, <1>6, <1>7 DEF TypeOK

(* The events and the loop keep their types, and no last_call is ever in   *)
(* the future, whatever the callbacks do to the events.                    *)
THEOREM TypeCorrect == Spec => []TypeOK
  BY InitInTime, NextInTime, InTimeSuffices, PTL DEF Spec

(* While the loop of event_system_start runs, no enabled timed event is    *)
(* overdue by more than a turn of the other events, for any number of      *)
(* timed events and descriptors.                                           *)
THEOREM TimedEventsInTime == Spec => []TimedNotLate
  BY InitInTime, NextInTime, InTimeSuffices, PTL DEF Spec

(* While the loop runs, no readable descriptor that is watched waits for   *)
(* longer than a turn of the timed events and two walks of                 *)
(* event_system_sleep.                                                     *)
THEOREM DescriptorsInTime == Spec => []FdNotLate
  BY InitInTime, NextInTime, InTimeSuffices, PTL DEF Spec
=============================================================================

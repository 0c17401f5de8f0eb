---------------------------- MODULE EventSystem ----------------------------
(***************************************************************************)
(* The event loop of util/event_system.c: one thread that waits in select  *)
(* for file descriptors, never longer than until the next timed event, and *)
(* calls back.  The code compares points in time only by their distance,   *)
(* so the model keeps distances from the present: a point of time is how   *)
(* long ago it was.  A callback takes up to CallbackTime.  What the        *)
(* callbacks of the library do to the events (enable, disable, reschedule  *)
(* one; stop the loop) is a choice.                                        *)
(***************************************************************************)
EXTENDS Integers, Sequences, FiniteSetsExt

CONSTANTS TimedEvents,   \* ev_sys->timed_events: the names in list order
          FdEvents,      \* ev_sys->fd_events: the names in list order
          Interval,      \* timed_event::interval of each timed event
          CallbackTime,  \* bound: what one callback takes at most
          Watched        \* the timed events whose history "asked" is kept

VARIABLES ev,          \* the events, see Events
          pc,          \* where the loop is
          next_event,  \* the local next_event of event_system_start
          ready        \* what select reported and is still to be called

vars == <<ev, pc, next_event, ready>>

Timed == {TimedEvents[i] : i \in DOMAIN TimedEvents}
Fds == {FdEvents[i] : i \in DOMAIN FdEvents}
Never == -1

\* What the other events may take before one that is due gets its turn: the
\* rest of a walk over the descriptors, the timed events, and another walk.
Slack == CallbackTime * (Len(TimedEvents) + 2 * Len(FdEvents))

ASSUME EventsDistinct ==
    /\ TimedEvents \in Seq(Timed) /\ FdEvents \in Seq(Fds)
    /\ TimedEvents # <<>>
    /\ \A i, j \in DOMAIN TimedEvents : TimedEvents[i] = TimedEvents[j] => i = j
    /\ \A i, j \in DOMAIN FdEvents : FdEvents[i] = FdEvents[j] => i = j
    /\ Timed \cap Fds = {}

\* An interval is longer than that: the intervals of the library are 10 ms
\* (IO_INTERVAL) and more.
ASSUME IntervalsLong ==
    /\ CallbackTime \in Nat
    /\ Interval \in [Timed -> Nat]
    /\ \A t \in Timed : Interval[t] > Slack

\* Times are told apart up to Horizon, one past every bound stated on them.
Horizon == Max({Interval[t] : t \in Timed}) + Slack + 1
Ago == 0..Horizon

\* asked and readable are histories.  asked: when a timed event was last
\* enabled, rescheduled or called, whatever the loop did since.  readable: since
\* when the loop could have seen that the descriptor is readable.
Events == [enabled : SUBSET (Timed \cup Fds), last_call : [Timed -> Ago],
           asked : [Timed -> Ago], readable : [Fds -> {Never} \cup Ago]]

\* The events and the loop have their types; last_call is never in the future,
\* where calc_next_timed_event would wait for longer than the interval.
TypeOK ==
    /\ ev \in Events
    /\ pc \in {"app", "loop", "select", "fds", "fire"}
    /\ next_event \in Timed
    /\ ready \subseteq Fds

Init ==
    /\ ev = [enabled |-> {}, last_call |-> [t \in Timed |-> 0],
             asked |-> [t \in Timed |-> 0], readable |-> [f \in Fds |-> Never]]
    /\ pc = "app"
    /\ next_event = TimedEvents[1]
    /\ ready = {}

(***************************************************************************)
(* Time passes, and the events are touched.                                *)
(***************************************************************************)
Older(x, d) == Min({x + d, Horizon})

\* The times of a disabled event do not matter: enabling it sets them.
Elapse(e, d) ==
    [e EXCEPT
       !.last_call = [t \in Timed |-> IF t \in e.enabled THEN Older(@[t], d) ELSE 0],
       !.asked = [t \in Timed |-> IF t \in e.enabled \cap Watched THEN Older(@[t], d) ELSE 0],
       !.readable = [f \in Fds |-> IF @[f] = Never THEN Never
                                   ELSE IF f \in e.enabled THEN Older(@[f], d) ELSE 0]]

\* A mutant of reschedule_event: last_call is when the event is to be called.
reschedule_event_NextCall(e, t) ==
    [e EXCEPT !.last_call[t] = 0 - Interval[t], !.asked[t] = 0]

reschedule_event(e, t) == [e EXCEPT !.last_call[t] = 0, !.asked[t] = 0]

enable_timed_event(e, t) == reschedule_event([e EXCEPT !.enabled = @ \cup {t}], t)

SeenFromNow(since) == IF since = Never THEN Never ELSE 0

enable_fd_event(e, f) ==
    [e EXCEPT !.enabled = @ \cup {f}, !.readable[f] = SeenFromNow(@)]

\* disable_timed_event, disable_fd_event
Disable(e, S) == Elapse([e EXCEPT !.enabled = @ \ S], 0)

\* What a callback or the application leaves behind that takes the time d.
\* Closing a connection disables all of its events at once.
Touched(old, d) ==
    LET e == Elapse(old, d) IN
    {e, Disable(e, Timed \cup Fds)}
    \cup {Disable(e, {x}) : x \in Timed \cup Fds}
    \cup {enable_timed_event(e, t) : t \in Timed}
    \cup {reschedule_event(e, t) : t \in Timed}
    \cup {enable_fd_event(e, f) : f \in Fds}

(***************************************************************************)
(* The loop.                                                               *)
(***************************************************************************)
Due(t) == t \in ev.enabled /\ ev.last_call[t] >= Interval[t]

\* e is the first element of the list that is in S
IsFirst(list, S, e) ==
    \E i \in DOMAIN list : /\ list[i] = e /\ e \in S
                           /\ \A j \in 1..(i - 1) : list[j] \notin S

After(f) == {FdEvents[j] : j \in {k \in DOMAIN FdEvents :
                                    \E i \in 1..(k - 1) : FdEvents[i] = f}}

\* The loop starts: what has passed of the intervals is forgotten.
event_system_start ==
    /\ pc = "app"
    /\ pc' = "loop"
    /\ ev' = [ev EXCEPT !.last_call = [t \in Timed |-> 0],
                        !.readable = [f \in Fds |-> SeenFromNow(@[f])]]
    /\ UNCHANGED <<next_event, ready>>

\* One round: the first due event of the list is called, or else select waits.
calc_next_timed_event ==
    /\ pc = "loop"
    /\ \/ \E t \in Timed : /\ IsFirst(TimedEvents, {u \in Timed : Due(u)}, t)
                           /\ next_event' = t
                           /\ pc' = "fire"
       \/ /\ \A t \in Timed : ~Due(t)
          /\ pc' = "select"
          /\ UNCHANGED next_event
    /\ UNCHANGED <<ev, ready>>

Ready == {f \in Fds \cap ev.enabled : ev.readable[f] # Never}

\* A mutant of TimeLeft: select waits for the last timed event.
TimeLeft_Longest ==
    Timed \cap ev.enabled # {} => \E t \in Timed \cap ev.enabled : ~Due(t)

\* The timeout of select, that of the next timed event, is not over.
TimeLeft == \A t \in Timed \cap ev.enabled : ~Due(t)

SelectWaits ==
    /\ pc = "select"
    /\ Ready = {}
    /\ TimeLeft
    /\ ev' = Elapse(ev, 1)
    /\ UNCHANGED <<pc, next_event, ready>>

\* Any time: the timeout is cut to whole microseconds, so it may end early.
SelectReturns ==
    /\ pc = "select"
    /\ pc' = "fds"
    /\ ready' = Ready
    /\ UNCHANGED <<ev, next_event>>

\* A signal interrupts select: "select failed", the loop ends.
SelectFails ==
    /\ pc = "select"
    /\ pc' = "app"
    /\ UNCHANGED <<ev, next_event, ready>>

\* The first reported event of the list that is still enabled is called.  It
\* reads: the descriptor may have more.
CallFd ==
    /\ pc = "fds"
    /\ \E f \in Fds, d \in 0..CallbackTime, stop, more \in BOOLEAN :
          /\ IsFirst(FdEvents, ready \cap ev.enabled, f)
          /\ \E e \in Touched([ev EXCEPT !.readable[f] = Never], d) :
                ev' = [e EXCEPT !.readable[f] = IF more THEN 0 ELSE Never]
          /\ ready' = IF stop THEN {} ELSE ready \cap After(f)
          /\ pc' = IF stop THEN "app" ELSE "fds"
    /\ UNCHANGED <<next_event>>

SleepDone ==
    /\ pc = "fds"
    /\ ready \cap ev.enabled = {}
    /\ ready' = {}
    /\ pc' = "loop"
    /\ UNCHANGED <<ev, next_event>>

event_system_sleep == SelectWaits \/ SelectReturns \/ SelectFails \/ CallFd \/ SleepDone

\* A mutant of CallTimed: last_call is left to the callback.
CallTimed_NotSet ==
    /\ pc = "fire"
    /\ \E d \in 0..CallbackTime, stop \in BOOLEAN :
          /\ ev' \in Touched([ev EXCEPT !.asked[next_event] = 0], d)
          /\ pc' = IF stop THEN "app" ELSE "loop"
    /\ UNCHANGED <<next_event, ready>>

\* last_call is set after the callback, over a reschedule of the event itself,
\* to the time read before the callback.
CallTimed ==
    /\ pc = "fire"
    /\ \E d \in 0..CallbackTime, stop \in BOOLEAN :
       \E e \in Touched([ev EXCEPT !.asked[next_event] = 0], d) :
          /\ ev' = IF stop THEN e
                   ELSE [e EXCEPT !.last_call[next_event] =
                                      IF next_event \in e.enabled THEN d ELSE 0]
          /\ pc' = IF stop THEN "app" ELSE "loop"
    /\ UNCHANGED <<next_event, ready>>

\* Outside the loop the application touches the events.
Application ==
    /\ pc = "app"
    /\ ev' \in Touched(ev, 0)
    /\ UNCHANGED <<pc, next_event, ready>>

\* Something to read arrives, whatever the loop does.
Arrives ==
    /\ \E f \in Fds : /\ ev.readable[f] = Never
                      /\ ev' = [ev EXCEPT !.readable[f] = 0]
    /\ UNCHANGED <<pc, next_event, ready>>

Next == \/ event_system_start
        \/ calc_next_timed_event
        \/ event_system_sleep
        \/ CallTimed
        \/ Application
        \/ Arrives

Spec == Init /\ [][Next]_vars

(***************************************************************************)
(* Properties.                                                             *)
(***************************************************************************)
Running == pc # "app"

\* While the loop runs, an enabled timed event is never overdue by more than
\* one turn of the other events: neither readable descriptors nor the events
\* before it in the list (calc_next_timed_event) keep it waiting longer.
TimedNotLate ==
    Running => \A t \in Timed \cap ev.enabled : ev.last_call[t] <= Interval[t] + Slack

\* While the loop runs, a readable descriptor that is watched is never left
\* waiting longer than that: timed events, which event_system_start prefers,
\* do not keep select from being reached.
FdNotLate ==
    Running => \A f \in Ready : ev.readable[f] <= Slack

\* "enables a timed event, it will fire in event::interval nanoseconds"
\* (event_system.c:168): an enabled event is called within its interval, and
\* what the other events take, of being enabled, rescheduled or called.
FiresInInterval ==
    \A t \in Watched \cap ev.enabled : ev.asked[t] <= Interval[t] + Slack
=============================================================================

------------------------------- MODULE Timer --------------------------------
(***************************************************************************)
(* The timers (Src/utility/dm_timer.c): a binary heap of events, polled by *)
(* handle_events.  The code counts the heap's places from 0; events[i] is  *)
(* heap[i + 1] here.                                                       *)
(*                                                                         *)
(* handle_events reads the clock once and then runs the callbacks of the   *)
(* events that were due by then, one step each; time goes on meanwhile,    *)
(* and a callback may add a timer.                                         *)
(*                                                                         *)
(* The array of the heap has MAX_EVENTS places, and min_heap_push does not *)
(* look whether one is left: a push into a full heap writes over what lies *)
(* behind it.  So no more timers than places are made here.                *)
(***************************************************************************)
EXTENDS Integers, Sequences

CONSTANTS
  Delays, MaxTimers, MaxTime,   \* delays of timers, and bounds on their number and the clock
  Idle                          \* no handle_events is running

MAX_EVENTS == 1024

\* With more timers than places the heap would not be the code's.
ASSUME HeapAssumption == MaxTimers <= MAX_EVENTS

ASSUME TimerAssumption == Delays \subseteq Nat /\ {MaxTimers, MaxTime} \subseteq Nat

VARIABLES
  heap,          \* events: their timeout, and a number for the callback
  now,           \* time(NULL)
  current_time,  \* of the running handle_events
  made,          \* timers added so far
  fired          \* the events whose callback has run, in order

tvars == <<heap, now, current_time, made, fired>>

TimerInit == heap = <<>> /\ now = 0 /\ current_time = Idle /\ made = 0 /\ fired = <<>>
-----------------------------------------------------------------------------
Parent(i) == (i - 1) \div 2

\* The places from i to the root.
Ancestors[i \in 0 .. MaxTimers] == IF i = 0 THEN {0} ELSE {i} \cup Ancestors[Parent(i)]

\* The event is put below the first ancestor that is not later; the ones it
\* passes go down a place.
min_heap_push(h, event) ==
  LET place[i \in 0 .. MaxTimers] ==
        IF i = 0 THEN 0
        ELSE IF h[Parent(i) + 1].timeout <= event.timeout THEN i ELSE place[Parent(i)]
      p == place[Len(h)]
  IN [k \in 1 .. Len(h) + 1 |->
        IF k - 1 = p THEN event
        ELSE IF k - 1 > p /\ k - 1 \in Ancestors[Len(h)] THEN h[Parent(k - 1) + 1] ELSE h[k]]

\* The heap without its first event, when the last one goes down from the root along the
\* places next names.
Sunk(h, next) ==
  LET n == Len(h) - 1
      event == h[Len(h)]
      place[i \in 0 .. MaxTimers * 2] ==
        IF 2 * i + 1 >= n THEN i
        ELSE IF h[next[i] + 1].timeout >= event.timeout THEN i ELSE place[next[i]]
      p == place[0]
  IN [k \in 1 .. n |->
        IF k - 1 = p THEN event
        ELSE IF k - 1 \in Ancestors[p] THEN h[next[k - 1] + 1] ELSE h[k]]

\* Mutant: the left child is taken for the smaller one.
min_heap_pop_Left(h) == Sunk(h, [i \in 0 .. MaxTimers |-> 2 * i + 1])

\* The last event goes down in the place of the first, past the earlier child.
min_heap_pop(h) ==
  Sunk(h, [i \in 0 .. MaxTimers |->
             IF 2 * i + 2 < Len(h) - 1 /\ h[2 * i + 3].timeout < h[2 * i + 2].timeout
             THEN 2 * i + 2 ELSE 2 * i + 1])
-----------------------------------------------------------------------------
\* A new event for a timer with a delay.
CanAdd(d) == made < MaxTimers /\ now + d <= MaxTime
Event(d) == [timeout |-> now + d, id |-> made]

\* add_timer by the program that polls.
add_timer(d) ==
  /\ current_time = Idle /\ CanAdd(d)
  /\ heap' = min_heap_push(heap, Event(d))
  /\ made' = made + 1
  /\ UNCHANGED <<now, current_time, fired>>

\* Mutant: an event is due a second later.
Due_Later == heap # <<>> /\ heap[1].timeout < current_time

\* The condition of the while loop.
Due == heap # <<>> /\ heap[1].timeout <= current_time

handle_eventsStart ==
  /\ current_time = Idle
  /\ current_time' = now
  /\ UNCHANGED <<heap, now, made, fired>>

\* An event is taken from the heap and its callback runs.
handle_eventsFire ==
  /\ current_time # Idle /\ Due
  /\ fired' = Append(fired, heap[1])
  /\ \/ heap' = min_heap_pop(heap) /\ UNCHANGED made
     \/ \E d \in Delays : /\ CanAdd(d)
                          /\ heap' = min_heap_push(min_heap_pop(heap), Event(d))
                          /\ made' = made + 1
  /\ UNCHANGED <<now, current_time>>

handle_eventsReturn ==
  /\ current_time # Idle /\ ~Due
  /\ current_time' = Idle
  /\ UNCHANGED <<heap, now, made, fired>>

Tick == now < MaxTime /\ now' = now + 1 /\ UNCHANGED <<heap, current_time, made, fired>>

Handle == handle_eventsStart \/ handle_eventsFire \/ handle_eventsReturn

TimerNext == Handle \/ Tick \/ \E d \in Delays : add_timer(d)

\* The program that polls the timers does not stop, and the clock goes on.
TimerFairness == WF_tvars(Handle) /\ WF_tvars(Tick)

TimerSpec == TimerInit /\ [][TimerNext]_tvars /\ TimerFairness
-----------------------------------------------------------------------------
(* Properties *)

Timeouts(s) == {s[i] : i \in DOMAIN s}

\* The callbacks run in the order of their timeouts, none before its own, and every timer
\* is either in the heap or has run, once, although callbacks add timers while the heap is
\* being emptied.
TimersInOrder ==
  /\ \A i \in 1 .. Len(fired) - 1 : fired[i].timeout <= fired[i + 1].timeout
  /\ \A i \in DOMAIN fired : fired[i].timeout <= now
  /\ Len(heap) + Len(fired) = made
  /\ {e.id : e \in Timeouts(heap) \cup Timeouts(fired)} = 0 .. made - 1

\* Every timer runs, if handle_events is called again and again.
TimersFire ==
  \A n \in 0 .. MaxTimers - 1 : (made > n) ~> (\E i \in DOMAIN fired : fired[i].id = n)
=============================================================================

----------------------------- MODULE Containers -----------------------------
(***************************************************************************)
(* The blocking queue and the blocking stack (Src/utility/dm_queue.c and   *)
(* dm_stack.c), with the threads of their tests and a thread that looks at *)
(* the top.  kind says which of the two the threads share.                 *)
(*                                                                         *)
(* An operation holds the mutex from its start to its end or to its        *)
(* pthread_cond_wait, and again after the wakeup, so each of these         *)
(* stretches is one step.  The stack has one condition variable for the    *)
(* threads that wait for room and for the ones that wait for an element.   *)
(*                                                                         *)
(* The queue is its linked list: nodes come from malloc, which hands out   *)
(* freed ones again, and the queue's tail is not reset when it empties.    *)
(***************************************************************************)
EXTENDS Integers, Sequences, FiniteSets

CONSTANTS
  Producers, Consumers, Viewers,  \* threads that add, remove, and read the top
  Nodes,                          \* addresses that malloc has for nodes
  Capacities,                     \* sizes of the stack
  Rounds, Takes, Looks,           \* calls of a producer, consumer and viewer
  None

ASSUME ContainersAssumption ==
  /\ Capacities \subseteq Nat \ {0} /\ {Rounds, Takes, Looks} \subseteq Nat \ {0}
  /\ Producers \cap Consumers = {} /\ Viewers \cap (Producers \cup Consumers) = {}
  /\ IsFiniteSet(Producers) /\ IsFiniteSet(Consumers) /\ IsFiniteSet(Viewers)
  /\ Rounds * Cardinality(Producers) = Takes * Cardinality(Consumers)
  /\ IsFiniteSet(Nodes) /\ None \notin Nodes

Threads == Producers \cup Consumers \cup Viewers

VARIABLES
  kind, capacity,
  head, tail, next, alloc,  \* the queue: two pointers and the allocated nodes
  data,                     \* data of the nodes or, by index, of the stack
  size,
  at,                       \* at[t]: "call", "wait", "woken" or "done"
  left,                     \* left[t]: calls that t has still to make
  added, removed,           \* history: elements in the order of the calls
  dropped,                  \* history: an element was not added
  open                      \* not yet destroyed

cvars == <<kind, capacity, head, tail, next, alloc, data, size, at, left, added,
           removed, dropped, open>>

ContainersInit ==
  /\ kind \in {"queue", "stack"}
  /\ capacity \in Capacities
  /\ head = None /\ tail = None
  /\ next = [n \in Nodes |-> None]
  /\ data = [n \in IF kind = "queue" THEN Nodes ELSE 0 .. capacity - 1 |-> None]
  /\ alloc = {}
  /\ size = 0
  /\ at = [t \in Threads |-> IF kind = "queue" /\ t \in Viewers THEN "done" ELSE "call"]
  /\ left = [t \in Threads |-> IF t \in Producers THEN Rounds
                               ELSE IF t \in Consumers THEN Takes ELSE Looks]
  /\ added = <<>> /\ removed = <<>>
  /\ dropped = FALSE
  /\ open = TRUE
-----------------------------------------------------------------------------
Runs(t) == at[t] \in {"call", "woken"}
Waiting == {t \in Threads : at[t] = "wait"}

\* The condition of the while loop of t's operation.
Blocked(t) == IF t \in Producers THEN kind = "stack" /\ size = capacity ELSE size = 0

\* t returns from its call.
Returned(t) == [at EXCEPT ![t] = IF left[t] = 1 THEN "done" ELSE "call"]

\* Mutant: nobody is woken.
SignalAndReturn_Silent(t) ==
  /\ at' = Returned(t)
  /\ left' = [left EXCEPT ![t] = @ - 1]

\* t signals the condition variable, unlocks and returns.
SignalAndReturn(t) ==
  /\ IF Waiting = {} THEN at' = Returned(t)
     ELSE \E w \in Waiting : at' = [Returned(t) EXCEPT ![w] = "woken"]
  /\ left' = [left EXCEPT ![t] = @ - 1]

\* pthread_cond_wait
Wait(t) ==
  /\ Runs(t) /\ Blocked(t)
  /\ at' = [at EXCEPT ![t] = "wait"]
  /\ UNCHANGED <<kind, capacity, head, tail, next, alloc, data, size, left, added,
                 removed, dropped, open>>

\* POSIX lets pthread_cond_wait return without a signal.
Spurious(t) ==
  /\ at[t] = "wait"
  /\ at' = [at EXCEPT ![t] = "woken"]
  /\ UNCHANGED <<kind, capacity, head, tail, next, alloc, data, size, left, added,
                 removed, dropped, open>>
-----------------------------------------------------------------------------
\* The element of a call: the producer and its loop variable.
Element(t) == <<t, left[t]>>

\* Mutant: tail is taken for the sign of an empty queue.
Linked_ByTail(n) ==
  /\ head' = IF tail = None THEN n ELSE head
  /\ next' = [m \in Nodes |-> IF m = tail THEN n ELSE IF m = n THEN None ELSE next[m]]

\* The new node becomes the head or the successor of the tail.
Linked(n) ==
  /\ head' = IF head = None THEN n ELSE head
  /\ next' = [m \in Nodes |-> IF m = n THEN None
                              ELSE IF head # None /\ m = tail THEN n ELSE next[m]]

queue_enqueue(t) ==
  /\ kind = "queue" /\ t \in Producers /\ Runs(t)
  /\ \E n \in Nodes \ alloc :
       /\ alloc' = alloc \cup {n}
       /\ data' = [data EXCEPT ![n] = Element(t)]
       /\ Linked(n)
       /\ tail' = n
  /\ size' = size + 1
  /\ added' = Append(added, Element(t))
  /\ SignalAndReturn(t)
  /\ UNCHANGED <<kind, capacity, removed, dropped, open>>

\* malloc returns NULL: the element is dropped and nobody is told.
queue_enqueueFails(t) ==
  /\ kind = "queue" /\ t \in Producers /\ Runs(t) /\ alloc = Nodes
  /\ dropped' = TRUE
  /\ at' = Returned(t)
  /\ left' = [left EXCEPT ![t] = @ - 1]
  /\ UNCHANGED <<kind, capacity, head, tail, next, alloc, data, size, added, removed,
                 open>>

queue_dequeue(t) ==
  /\ kind = "queue" /\ t \in Consumers /\ Runs(t) /\ ~Blocked(t)
  /\ head' = next[head]
  /\ alloc' = alloc \ {head}
  /\ removed' = Append(removed, data[head])
  /\ size' = size - 1
  /\ at' = Returned(t)
  /\ left' = [left EXCEPT ![t] = @ - 1]
  /\ UNCHANGED <<kind, capacity, tail, next, data, added, dropped, open>>
-----------------------------------------------------------------------------
stack_push(t) ==
  /\ kind = "stack" /\ t \in Producers /\ Runs(t) /\ ~Blocked(t)
  /\ data' = [data EXCEPT ![size] = Element(t)]
  /\ size' = size + 1
  /\ added' = Append(added, Element(t))
  /\ SignalAndReturn(t)
  /\ UNCHANGED <<kind, capacity, head, tail, next, alloc, removed, dropped, open>>

stack_pop(t) ==
  /\ kind = "stack" /\ t \in Consumers /\ Runs(t) /\ ~Blocked(t)
  /\ removed' = Append(removed, data[size - 1])
  /\ size' = size - 1
  /\ SignalAndReturn(t)
  /\ UNCHANGED <<kind, capacity, head, tail, next, alloc, data, added, dropped, open>>

\* Mutant: the signal that woke the reader is not passed on.
stack_top_Silent(t) ==
  /\ kind = "stack" /\ t \in Viewers /\ Runs(t) /\ ~Blocked(t)
  /\ SignalAndReturn_Silent(t)
  /\ UNCHANGED <<kind, capacity, head, tail, next, alloc, data, size, added, removed,
                 dropped, open>>

stack_top(t) ==
  /\ kind = "stack" /\ t \in Viewers /\ Runs(t) /\ ~Blocked(t)
  /\ SignalAndReturn(t)
  /\ UNCHANGED <<kind, capacity, head, tail, next, alloc, data, size, added, removed,
                 dropped, open>>
-----------------------------------------------------------------------------
\* The k-th node of the list.
Node[k \in 0 .. Cardinality(Nodes)] ==
  IF k = 0 THEN head
  ELSE IF Node[k - 1] = None THEN None ELSE next[Node[k - 1]]

ListNodes == {Node[k] : k \in DOMAIN Node} \ {None}

\* The tests join the threads and then call queue_destroy or stack_destroy.
Destroy ==
  /\ open /\ \A t \in Threads : at[t] = "done"
  /\ open' = FALSE
  /\ alloc' = alloc \ ListNodes
  /\ UNCHANGED <<kind, capacity, head, tail, next, data, size, at, left, added,
                 removed, dropped>>

ThreadStep(t) ==
  \/ Wait(t) \/ queue_enqueue(t) \/ queue_enqueueFails(t) \/ queue_dequeue(t)
  \/ stack_push(t) \/ stack_pop(t) \/ stack_top(t)

ContainersNext == Destroy \/ \E t \in Threads : ThreadStep(t) \/ Spurious(t)

\* Every thread gets the mutex after a while.
ContainersFairness == \A t \in Threads : WF_cvars(ThreadStep(t))

ContainersSpec == ContainersInit /\ [][ContainersNext]_cvars /\ ContainersFairness
-----------------------------------------------------------------------------
(* Properties *)

\* The queue's list has its size, ends at the tail, consists of the allocated
\* nodes and holds the elements that were added and not yet removed, in order;
\* the stack's elements and the removed ones are the added ones, each once;
\* nothing is allocated after the destruction.
ElementsKept ==
  /\ kind = "queue" /\ open =>
       /\ Node[size] = None /\ alloc = {Node[k] : k \in 0 .. size - 1}
       /\ size > 0 => Node[size - 1] = tail
       /\ added = removed \o [k \in 1 .. size |-> data[Node[k - 1]]]
  /\ kind = "stack" =>
       LET gone == {removed[k] : k \in DOMAIN removed}
           kept == {data[k] : k \in 0 .. size - 1}
       IN /\ size \in 0 .. capacity /\ Cardinality(kept) = size
          /\ gone \cap kept = {} /\ gone \cup kept = {added[k] : k \in DOMAIN added}
          /\ Cardinality(gone) = Len(removed)
  /\ ~open => alloc = {}

\* The stack has one condition variable for all.  A signal can go to a thread
\* that waits for the opposite, so the stack must be large for its threads, as
\* in its test (10 for two); stack_top can turn the signal of a push into one
\* for another push, so a thread that calls it counts twice.
BigEnough ==
  kind = "queue"
    \/ 2 * capacity >= Cardinality(Producers \cup Consumers) + 2 * Cardinality(Viewers)

\* Every producer and every consumer finishes: the joins of test_queue and
\* test_stack return, unless an element was dropped.
TestsReturn ==
  BigEnough => <>(dropped \/ \A t \in Producers \cup Consumers : at[t] = "done")
=============================================================================

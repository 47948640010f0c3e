---------------------------- MODULE ResourcePool ----------------------------
(***************************************************************************)
(* What a pool of reusable resources promises its clients, whatever the    *)
(* locks, lists, counters and condition variables it is built from: a      *)
(* resource is either free or lent to exactly one client, and it changes   *)
(* hands only through the pool.  CPool (MySQL connections) and MPool       *)
(* (memory blocks) are shown to implement this specification.              *)
(***************************************************************************)
CONSTANTS Resources,   \* everything the pool may ever hand out
          Clients      \* the threads that ask for resources

VARIABLES free,        \* the resources the pool can hand out now
          lent         \* lent[c]: the resources client c may use

vars == <<free, lent>>

\* The pool starts empty: resources are opened one by one.
Init ==
  /\ free = {}
  /\ lent = [c \in Clients |-> {}]

\* A resource that the pool does not hold and nobody uses is added to it.
Open(r) ==
  /\ r \notin free
  /\ \A c \in Clients : r \notin lent[c]
  /\ free' = free \cup {r}
  /\ UNCHANGED lent

\* A free resource goes to one client.
Acquire(c, r) ==
  /\ r \in free
  /\ free' = free \ {r}
  /\ lent' = [lent EXCEPT ![c] = @ \cup {r}]

\* The client gives back a resource it has.
Release(c, r) ==
  /\ r \in lent[c]
  /\ free' = free \cup {r}
  /\ lent' = [lent EXCEPT ![c] = @ \ {r}]

\* The client drops a resource without giving it back.
Forget(c, r) ==
  /\ r \in lent[c]
  /\ lent' = [lent EXCEPT ![c] = @ \ {r}]
  /\ UNCHANGED free

\* The pool is emptied; what is lent stays with its client.
Drain ==
  /\ free' = {}
  /\ UNCHANGED lent

Next ==
  \/ \E r \in Resources : Open(r)
  \/ \E c \in Clients, r \in Resources :
        Acquire(c, r) \/ Release(c, r) \/ Forget(c, r)
  \/ Drain

Spec == Init /\ [][Next]_vars

-----------------------------------------------------------------------------
\* A resource is never lent to two clients, nor lent while it is free.
Exclusive ==
  \A c \in Clients :
    /\ lent[c] \cap free = {}
    /\ \A d \in Clients \ {c} : lent[c] \cap lent[d] = {}
=============================================================================

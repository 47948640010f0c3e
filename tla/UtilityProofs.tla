--------------------------- MODULE UtilityProofs ----------------------------
(***************************************************************************)
(* Proofs about the parts that main does not start: the queue and the      *)
(* stack keep their elements, for any number of threads, nodes and calls   *)
(* and any size of the stack; the timers run in order, however many there  *)
(* are; and the master process knows its workers and leaves none behind,   *)
(* for any number of workers and of pids.                                  *)
(***************************************************************************)
EXTENDS Containers, Timer, Master, FiniteSetTheorems, SequenceTheorems, WellFoundedInduction, TLAPS

\* Induction over the natural numbers, for a set of them.
LEMMA SetInduction ==
  ASSUME NEW S, 0 \in S, \A n \in Nat : n \in S => n + 1 \in S
  PROVE  \A n \in Nat : n \in S
<1> SUFFICES ASSUME Nat \ S # {}
             PROVE  FALSE
  OBVIOUS
<1>1. PICK x \in Nat \ S : \A y \in Nat \ S : ~(<<y, x>> \in OpToRel(<, Nat))
  BY NatLessThanWellFounded, WFMin
<1>2. x \in Nat /\ x # 0
  OBVIOUS
<1>3. x - 1 \in Nat /\ x - 1 < x /\ (x - 1) + 1 = x
  BY <1>2
<1>4. x - 1 \in S
  BY <1>1, <1>3 DEF OpToRel
<1> QED
  BY <1>3, <1>4

(***************************************************************************)
(* The queue and the stack.                                                *)
(***************************************************************************)
Elements == Producers \X Nat

ContainersTypes ==
  /\ kind \in {"queue", "stack"} /\ capacity \in Capacities
  /\ {head, tail} \subseteq Nodes \cup {None}
  /\ next \in [Nodes -> Nodes \cup {None}]
  /\ alloc \subseteq Nodes
  /\ data \in [IF kind = "queue" THEN Nodes ELSE 0 .. capacity - 1 -> Elements \cup {None}]
  /\ size \in Nat
  /\ at \in [Threads -> {"call", "wait", "woken", "done"}]
  /\ left \in [Threads -> Nat]
  /\ added \in Seq(Elements) /\ removed \in Seq(Elements)
  /\ {dropped, open} \subseteq BOOLEAN

\* A thread that is not done has a call to make; the destruction waits for all.
CallsLeft ==
  /\ \A t \in Threads : at[t] # "done" => left[t] > 0
  /\ ~open => \A t \in Threads : at[t] = "done"

\* ns is the list of nodes from head h over the pointers nx to the tail l.
IsChain(ns, h, l, nx) ==
  /\ ns \in Seq(Nodes)
  /\ \A i, j \in DOMAIN ns : ns[i] = ns[j] => i = j
  /\ h = IF ns = <<>> THEN None ELSE ns[1]
  /\ \A i \in DOMAIN ns : nx[ns[i]] = IF i = Len(ns) THEN None ELSE ns[i + 1]
  /\ ns # <<>> => l = ns[Len(ns)]

\* The elements d of the nodes ns, behind the removed ones gone, are all that were added.
Holds(ns, d, all, gone) ==
  /\ Len(all) = Len(gone) + Len(ns)
  /\ \A i \in DOMAIN gone : all[i] = gone[i]
  /\ \A i \in DOMAIN ns : all[i + Len(gone)] = d[ns[i]]

\* The queue has such a list, of the nodes that are allocated.
QueueInv ==
  kind = "queue" =>
    IF open
    THEN \E ns : /\ IsChain(ns, head, tail, next) /\ Holds(ns, data, added, removed)
                 /\ alloc = {ns[i] : i \in DOMAIN ns} /\ size = Len(ns)
    ELSE alloc = {}

\* What is in the stack, and what was removed from it, are the elements added, each once;
\* the elements that a producer has still to add have smaller numbers.
StackInv ==
  kind = "stack" =>
    /\ alloc = {} /\ size <= capacity
    /\ \A i, j \in 0 .. size - 1 : data[i] = data[j] => i = j
    /\ \A i, j \in DOMAIN removed : removed[i] = removed[j] => i = j
    /\ \A i \in 0 .. size - 1, j \in DOMAIN removed : data[i] # removed[j]
    /\ \A i \in 0 .. size - 1 : \E k \in DOMAIN added : data[i] = added[k]
    /\ \A j \in DOMAIN removed : \E k \in DOMAIN added : removed[j] = added[k]
    /\ \A k \in DOMAIN added : \/ \E i \in 0 .. size - 1 : data[i] = added[k]
                               \/ \E j \in DOMAIN removed : removed[j] = added[k]
    /\ \A k \in DOMAIN added : added[k][2] > left[added[k][1]]

\* The inductive invariant.
ContainersInv == ContainersTypes /\ CallsLeft /\ QueueInv /\ StackInv
-----------------------------------------------------------------------------
\* The equation that defines Node has a solution.
LEMMA NodeIs ==
  Node = [k \in 0 .. Cardinality(Nodes) |->
            IF k = 0 THEN head
            ELSE IF Node[k - 1] = None THEN None ELSE next[Node[k - 1]]]
<1> DEFINE Walk(g, k) == IF k = 0 THEN head
                         ELSE IF g[k - 1] = None THEN None ELSE next[g[k - 1]]
           S == {n \in Nat : \E g : g = [k \in 0 .. n |-> Walk(g, k)]}
<1>1. 0 \in S
  <2> DEFINE g == [k \in 0 .. 0 |-> head]
  <2>1. g = [k \in 0 .. 0 |-> Walk(g, k)]
    OBVIOUS
  <2> QED
    BY <2>1
<1>2. ASSUME NEW n \in Nat, n \in S
      PROVE  n + 1 \in S
  <2>1. PICK g : g = [k \in 0 .. n |-> Walk(g, k)]
    BY <1>2
  <2> DEFINE h == [k \in 0 .. n + 1 |-> IF k = n + 1 THEN Walk(g, n + 1) ELSE g[k]]
  <2>2. ASSUME NEW k \in 0 .. n + 1
        PROVE  h[k] = Walk(h, k)
    <3>1. CASE k = n + 1
      <4>1. k - 1 = n /\ n \in 0 .. n + 1 /\ n # n + 1 /\ k # 0
        BY <3>1
      <4>2. h[k - 1] = g[k - 1]
        BY <4>1
      <4> QED
        BY <3>1, <4>1, <4>2
    <3>2. CASE k # n + 1
      <4>1. k \in 0 .. n /\ h[k] = g[k]
        BY <3>2
      <4>2. g[k] = Walk(g, k)
        BY <2>1, <4>1
      <4>3. k # 0 => k - 1 \in 0 .. n + 1 /\ k - 1 # n + 1
        BY <4>1
      <4>4. k # 0 => h[k - 1] = g[k - 1]
        BY <4>3
      <4> QED
        BY <4>1, <4>2, <4>4
    <3> QED
      BY <3>1, <3>2
  <2>3. h = [k \in 0 .. n + 1 |-> Walk(h, k)]
    <3> HIDE DEF Walk
    <3>1. \A k \in 0 .. n + 1 : h[k] = Walk(h, k)
      BY <2>2
    <3>2. h = [k \in 0 .. n + 1 |-> h[k]]
      OBVIOUS
    <3> HIDE DEF h
    <3> QED
      BY <3>1, <3>2
  <2> HIDE DEF h
  <2>4. \E f : f = [k \in 0 .. n + 1 |-> Walk(f, k)]
    BY <2>3
  <2> QED
    BY <2>4
<1>3. Cardinality(Nodes) \in S
  <2> HIDE DEF S
  <2>1. Cardinality(Nodes) \in Nat
    BY ContainersAssumption, FS_CardinalityType
  <2>2. \A n \in Nat : n \in S => n + 1 \in S
    BY <1>2
  <2> QED
    BY <1>1, <2>1, <2>2, SetInduction
<1>4. \E g : g = [k \in 0 .. Cardinality(Nodes) |->
                    IF k = 0 THEN head ELSE IF g[k - 1] = None THEN None ELSE next[g[k - 1]]]
  BY <1>3
<1> QED
  BY <1>4, Zenon DEF Node

\* What Append and Tail do to a sequence.
LEMMA AppendIs ==
  ASSUME NEW S, NEW s \in Seq(S), NEW x \in S
  PROVE  /\ Append(s, x) \in Seq(S) /\ Len(Append(s, x)) = Len(s) + 1 /\ Append(s, x) # <<>>
         /\ Len(s) \in Nat /\ DOMAIN s = 1 .. Len(s)
         /\ DOMAIN Append(s, x) = 1 .. Len(s) + 1
         /\ \A i \in 1 .. Len(s) : Append(s, x)[i] = s[i]
         /\ Append(s, x)[Len(s) + 1] = x
OBVIOUS

LEMMA TailIs ==
  ASSUME NEW S, NEW s \in Seq(S), s # <<>>
  PROVE  /\ Tail(s) \in Seq(S) /\ Len(Tail(s)) = Len(s) - 1 /\ Len(s) \in Nat /\ Len(s) > 0
         /\ DOMAIN s = 1 .. Len(s) /\ DOMAIN Tail(s) = 1 .. Len(s) - 1
         /\ \A i \in 1 .. Len(s) - 1 : Tail(s)[i] = s[i + 1]
OBVIOUS

\* A node that is put behind the tail, or becomes the head of an empty list.
LEMMA ChainLonger ==
  ASSUME NEW ns, NEW h, NEW l, NEW nx, IsChain(ns, h, l, nx),
         NEW n \in Nodes, \A i \in DOMAIN ns : ns[i] # n,
         NEW ny, ny = [m \in Nodes |-> IF m = n THEN None
                                       ELSE IF h # None /\ m = l THEN n ELSE nx[m]]
  PROVE  IsChain(Append(ns, n), IF h = None THEN n ELSE h, n, ny)
<1> DEFINE ms == Append(ns, n)
<1>1. ns \in Seq(Nodes)
  BY DEF IsChain
<1>2. /\ ms \in Seq(Nodes) /\ Len(ms) = Len(ns) + 1 /\ ms # <<>>
      /\ Len(ns) \in Nat /\ DOMAIN ns = 1 .. Len(ns) /\ DOMAIN ms = 1 .. Len(ns) + 1
      /\ \A i \in 1 .. Len(ns) : ms[i] = ns[i]
      /\ ms[Len(ns) + 1] = n
  BY <1>1, AppendIs
<1> HIDE DEF ms
<1>3. \A i \in 1 .. Len(ns) : ns[i] \in Nodes
  BY <1>1
<1>4. ns = <<>> <=> Len(ns) = 0
  BY <1>1
<1>5. h = None <=> Len(ns) = 0
  BY <1>2, <1>3, <1>4, ContainersAssumption DEF IsChain
<1>6. \A i, j \in DOMAIN ms : ms[i] = ms[j] => i = j
  BY <1>2 DEF IsChain
<1>7. (IF h = None THEN n ELSE h) = ms[1]
  BY <1>2, <1>4, <1>5 DEF IsChain
<1>8. ASSUME NEW i \in DOMAIN ms
      PROVE  ny[ms[i]] = IF i = Len(ms) THEN None ELSE ms[i + 1]
  <2>1. CASE i = Len(ns) + 1
    BY <1>2, <2>1
  <2>2. CASE i = Len(ns)
    <3>1. Len(ns) # 0 /\ i \in 1 .. Len(ns)
      BY <1>2, <2>2
    <3>2. l = ns[i] /\ h # None
      BY <1>4, <1>5, <2>2, <3>1 DEF IsChain
    <3>3. ms[i] = ns[i] /\ ns[i] \in Nodes /\ ns[i] # n
      BY <1>2, <1>3, <3>1
    <3> QED
      BY <1>2, <2>2, <3>2, <3>3
  <2>3. CASE i \in 1 .. Len(ns) - 1
    <3>1. i \in DOMAIN ns /\ i + 1 \in DOMAIN ns /\ Len(ns) \in DOMAIN ns /\ i # Len(ns) /\ ns # <<>>
      BY <1>2, <1>4, <2>3
    <3>2. l = ns[Len(ns)] /\ nx[ns[i]] = ns[i + 1]
      BY <3>1 DEF IsChain
    <3>3. ns[i] # l
      BY <3>1, <3>2 DEF IsChain
    <3>4. ms[i] = ns[i] /\ ms[i + 1] = ns[i + 1] /\ ns[i] \in Nodes /\ ns[i] # n
      BY <1>2, <1>3, <3>1
    <3> QED
      BY <1>2, <3>1, <3>2, <3>3, <3>4
  <2> QED
    BY <1>2, <2>1, <2>2, <2>3
<1>9. n = ms[Len(ms)]
  BY <1>2
<1> QED
  BY <1>2, <1>6, <1>7, <1>8, <1>9 DEF IsChain, ms

\* The head is taken from the list; the tail of a list that becomes empty stays.
LEMMA ChainShorter ==
  ASSUME NEW ns, NEW h, NEW l, NEW nx, IsChain(ns, h, l, nx), ns # <<>>
  PROVE  /\ h = ns[1]
         /\ IsChain(Tail(ns), nx[h], l, nx)
<1> DEFINE ms == Tail(ns)
<1>1. ns \in Seq(Nodes) /\ h = ns[1]
  BY DEF IsChain
<1>2. /\ ms \in Seq(Nodes) /\ Len(ms) = Len(ns) - 1 /\ Len(ns) \in Nat /\ Len(ns) > 0
      /\ DOMAIN ns = 1 .. Len(ns) /\ DOMAIN ms = 1 .. Len(ns) - 1
      /\ \A i \in 1 .. Len(ns) - 1 : ms[i] = ns[i + 1]
  BY <1>1, TailIs
<1> HIDE DEF ms
<1>3. ms = <<>> <=> Len(ms) = 0
  BY <1>2
<1>4. \A i, j \in DOMAIN ms : ms[i] = ms[j] => i = j
  BY <1>2 DEF IsChain
<1>5. nx[h] = IF ms = <<>> THEN None ELSE ms[1]
  BY <1>1, <1>2, <1>3 DEF IsChain
<1>6. \A i \in DOMAIN ms : nx[ms[i]] = IF i = Len(ms) THEN None ELSE ms[i + 1]
  BY <1>2 DEF IsChain
<1>7. ms # <<>> => l = ms[Len(ms)]
  BY <1>2, <1>3 DEF IsChain
<1> QED
  BY <1>1, <1>2, <1>4, <1>5, <1>6, <1>7 DEF IsChain, ms

\* The nodes of a list are the ones Node walks over.
LEMMA ChainNodes ==
  ASSUME NEW ns, IsChain(ns, head, tail, next)
  PROVE  /\ Len(ns) \in 0 .. Cardinality(Nodes)
         /\ \A k \in 0 .. Len(ns) - 1 : Node[k] = ns[k + 1]
         /\ \A k \in Len(ns) .. Cardinality(Nodes) : Node[k] = None
<1> DEFINE C == Cardinality(Nodes)
<1>1. ns \in Seq(Nodes) /\ Len(ns) \in Nat /\ DOMAIN ns = 1 .. Len(ns)
  BY DEF IsChain
<1>2. C \in Nat
  BY ContainersAssumption, FS_CardinalityType
<1>3. Len(ns) <= C
  <2>1. ns \in Injection(1 .. Len(ns), Nodes)
    BY <1>1 DEF IsChain, Injection, IsInjective
  <2>2. IsFiniteSet(1 .. Len(ns)) /\ Cardinality(1 .. Len(ns)) = Len(ns)
    BY <1>1, FS_Interval
  <2> QED
    BY <2>1, <2>2, FS_Injection, ContainersAssumption
<1> HIDE DEF C
<1>4. \A k \in 0 .. C : Node[k] = IF k = 0 THEN head
                                  ELSE IF Node[k - 1] = None THEN None ELSE next[Node[k - 1]]
  BY NodeIs DEF C
<1> DEFINE S == {k \in Nat : k <= C => Node[k] = IF k < Len(ns) THEN ns[k + 1] ELSE None}
<1>5. 0 \in S
  BY <1>1, <1>2, <1>4 DEF IsChain
<1>6. ASSUME NEW k \in Nat, k \in S
      PROVE  k + 1 \in S
  <2> SUFFICES ASSUME k + 1 <= C
               PROVE  Node[k + 1] = IF k + 1 < Len(ns) THEN ns[k + 2] ELSE None
    OBVIOUS
  <2>1. Node[k] = IF k < Len(ns) THEN ns[k + 1] ELSE None
    BY <1>2, <1>6
  <2>2. Node[k + 1] = IF Node[k] = None THEN None ELSE next[Node[k]]
    BY <1>2, <1>4
  <2>3. CASE k < Len(ns)
    <3>1. k + 1 \in DOMAIN ns /\ ns[k + 1] \in Nodes /\ ns[k + 1] # None
      BY <1>1, <2>3, ContainersAssumption
    <3> QED
      BY <1>1, <2>1, <2>2, <2>3, <3>1 DEF IsChain
  <2>4. CASE ~(k < Len(ns))
    BY <1>1, <2>1, <2>2, <2>4
  <2> QED
    BY <2>3, <2>4
<1>7. \A k \in Nat : k \in S
  <2> HIDE DEF S
  <2> QED
    BY <1>5, <1>6, SetInduction
<1> QED
  BY <1>1, <1>2, <1>3, <1>7 DEF C

-----------------------------------------------------------------------------
\* At the start everything is empty.
LEMMA ContainersInitInv == ContainersInit => ContainersInv
<1> SUFFICES ASSUME ContainersInit
             PROVE  ContainersInv
  OBVIOUS
<1> USE ContainersAssumption DEF ContainersInit
<1>1. at \in [Threads -> {"call", "wait", "woken", "done"}]
  OBVIOUS
<1>2. left \in [Threads -> Nat] /\ \A t \in Threads : left[t] > 0
  BY DEF Threads
<1>7. data \in [IF kind = "queue" THEN Nodes ELSE 0 .. capacity - 1 -> Elements \cup {None}]
  <2> DEFINE D == IF kind = "queue" THEN Nodes ELSE 0 .. capacity - 1
  <2>1. data = [n \in D |-> None]
    OBVIOUS
  <2> HIDE DEF D
  <2>2. data \in [D -> Elements \cup {None}]
    BY ONLY <2>1
  <2> QED
    BY <2>2 DEF D
<1>8. added \in Seq(Elements) /\ removed \in Seq(Elements) /\ {dropped, open} \subseteq BOOLEAN
  <2>1. added \in Seq(Elements) /\ removed \in Seq(Elements)
    OBVIOUS
  <2>2. {dropped, open} \subseteq BOOLEAN
    BY Zenon
  <2> QED
    BY <2>1, <2>2
<1>3. ContainersTypes
  BY <1>1, <1>2, <1>7, <1>8 DEF ContainersTypes
<1>4. CallsLeft
  BY <1>2 DEF CallsLeft
<1>5. QueueInv
  <2>1. IsChain(<<>>, head, tail, next)
    BY DEF IsChain
  <2>2. Holds(<<>>, data, added, removed)
    BY DEF Holds
  <2>3. alloc = {<<>>[i] : i \in DOMAIN <<>>} /\ size = Len(<<>>)
    OBVIOUS
  <2> QED
    BY <2>1, <2>2, <2>3 DEF QueueInv
<1>6. StackInv
  BY DEF StackInv
<1> QED
  BY <1>3, <1>4, <1>5, <1>6 DEF ContainersInv

\* A call that returns, with or without a signal to a thread that waits.
Returns(t) ==
  /\ \/ at' = Returned(t)
     \/ \E w \in Waiting : at' = [Returned(t) EXCEPT ![w] = "woken"]
  /\ left' = [left EXCEPT ![t] = @ - 1]

LEMMA SignalReturns ==
  ASSUME NEW t \in Threads, SignalAndReturn(t)
  PROVE  Returns(t)
BY DEF SignalAndReturn, Returns

LEMMA ReturnsCalls ==
  ASSUME ContainersInv, NEW t \in Threads, Runs(t), Returns(t), open' = open
  PROVE  /\ at' \in [Threads -> {"call", "wait", "woken", "done"}]
         /\ left' \in [Threads -> Nat] /\ CallsLeft' /\ open
         /\ left[t] \in Nat \ {0} /\ left'[t] = left[t] - 1
         /\ \A u \in Threads : u # t => left'[u] = left[u]
         /\ \A u \in Threads : left'[u] <= left[u]
<1>1. /\ at \in [Threads -> {"call", "wait", "woken", "done"}] /\ left \in [Threads -> Nat]
      /\ \A u \in Threads : at[u] # "done" => left[u] > 0
      /\ open
  BY DEF ContainersInv, ContainersTypes, CallsLeft, Runs
<1>2. left[t] \in Nat \ {0}
  BY <1>1 DEF Runs
<1>3. /\ left' \in [Threads -> Nat] /\ left'[t] = left[t] - 1
      /\ \A u \in Threads : u # t => left'[u] = left[u]
      /\ \A u \in Threads : left'[u] <= left[u]
  BY <1>1, <1>2 DEF Returns
<1>4. Waiting \subseteq Threads /\ t \notin Waiting
  BY DEF Waiting, Runs
<1>5. at' \in [Threads -> {"call", "wait", "woken", "done"}]
  BY <1>1, <1>4 DEF Returns, Returned
<1>6. ASSUME NEW u \in Threads, at'[u] # "done"
      PROVE  left'[u] > 0
  <2>1. CASE u = t
    <3>1. at'[t] = IF left[t] = 1 THEN "done" ELSE "call"
      BY <1>1, <1>4 DEF Returns, Returned
    <3> QED
      BY <1>2, <1>3, <1>6, <2>1, <3>1
  <2>2. CASE u # t
    <3>1. at'[u] = at[u] \/ (at'[u] = "woken" /\ at[u] = "wait")
      BY <1>1, <1>4, <2>2 DEF Returns, Returned, Waiting
    <3> QED
      BY <1>1, <1>3, <1>6, <2>2, <3>1
  <2> QED
    BY <2>1, <2>2
<1>7. CallsLeft'
  BY <1>1, <1>6 DEF CallsLeft
<1> QED
  BY <1>1, <1>2, <1>3, <1>5, <1>7

\* The element of a call is new: its number is smaller than those of the producer's others.
LEMMA ElementIs ==
  ASSUME ContainersInv, NEW t \in Producers, Runs(t)
  PROVE  Element(t) \in Elements /\ Element(t)[1] = t /\ Element(t)[2] = left[t]
BY DEF ContainersInv, ContainersTypes, Element, Elements, Threads

\* queue_enqueue.
LEMMA EnqueueInv ==
  ASSUME ContainersInv, NEW t \in Threads, queue_enqueue(t)
  PROVE  ContainersInv'
<1> DEFINE e == Element(t)
<1>1. /\ kind = "queue" /\ t \in Producers /\ Runs(t)
      /\ size' = size + 1 /\ added' = Append(added, e) /\ Returns(t)
      /\ UNCHANGED <<kind, capacity, removed, dropped, open>>
  BY SignalReturns DEF queue_enqueue
<1>2. PICK n \in Nodes \ alloc :
       /\ alloc' = alloc \cup {n}
       /\ data' = [data EXCEPT ![n] = e]
       /\ Linked(n) /\ tail' = n
  BY DEF queue_enqueue
<1>3. ContainersTypes /\ open /\ e \in Elements
  BY <1>1, ReturnsCalls, ElementIs DEF ContainersInv
<1> HIDE DEF e
<1>4. /\ data \in [Nodes -> Elements \cup {None}] /\ added \in Seq(Elements) /\ size \in Nat
      /\ removed \in Seq(Elements) /\ next \in [Nodes -> Nodes \cup {None}]
  BY <1>1, <1>3 DEF ContainersTypes
<1>5. PICK ns : /\ IsChain(ns, head, tail, next) /\ Holds(ns, data, added, removed)
                /\ alloc = {ns[i] : i \in DOMAIN ns} /\ size = Len(ns)
  BY <1>1, <1>3 DEF ContainersInv, QueueInv
<1> DEFINE ms == Append(ns, n)
<1>6. /\ ns \in Seq(Nodes) /\ \A i \in DOMAIN ns : ns[i] \in Nodes /\ ns[i] # n
  BY <1>2, <1>5 DEF IsChain
<1>7. /\ ms \in Seq(Nodes) /\ Len(ms) = Len(ns) + 1
      /\ Len(ns) \in Nat /\ DOMAIN ns = 1 .. Len(ns) /\ DOMAIN ms = 1 .. Len(ns) + 1
      /\ \A i \in 1 .. Len(ns) : ms[i] = ns[i]
      /\ ms[Len(ns) + 1] = n
  BY <1>6, AppendIs
<1>8. IsChain(ms, head', tail', next')
  BY <1>2, <1>5, <1>6, ChainLonger DEF Linked
<1> HIDE DEF ms
<1>9. /\ added' \in Seq(Elements) /\ Len(added') = Len(added) + 1 /\ Len(added) \in Nat
      /\ \A i \in 1 .. Len(added) : added'[i] = added[i]
      /\ added'[Len(added) + 1] = e
  BY <1>1, <1>3, <1>4, AppendIs
<1>10. Len(removed) \in Nat /\ DOMAIN removed = 1 .. Len(removed)
  BY <1>4
<1>11. /\ data' \in [Nodes -> Elements \cup {None}] /\ data'[n] = e
       /\ \A i \in DOMAIN ns : data'[ns[i]] = data[ns[i]]
  BY <1>2, <1>3, <1>4, <1>6
<1>12. Holds(ms, data', added', removed)
  <2>1. Len(added') = Len(removed) + Len(ms)
    BY <1>5, <1>7, <1>9, <1>10 DEF Holds
  <2>2. \A i \in DOMAIN removed : added'[i] = removed[i]
    BY <1>5, <1>7, <1>9, <1>10 DEF Holds
  <2>3. ASSUME NEW i \in DOMAIN ms
        PROVE  added'[i + Len(removed)] = data'[ms[i]]
    <3>1. CASE i = Len(ns) + 1
      BY <1>5, <1>7, <1>9, <1>10, <1>11, <3>1 DEF Holds
    <3>2. CASE i \in 1 .. Len(ns)
      <4>1. i + Len(removed) \in 1 .. Len(added)
        BY <1>5, <1>7, <1>10, <3>2 DEF Holds
      <4>2. added[i + Len(removed)] = data[ns[i]]
        BY <1>5, <1>7, <3>2 DEF Holds
      <4> QED
        BY <1>7, <1>9, <1>11, <3>2, <4>1, <4>2
    <3> QED
      BY <1>7, <3>1, <3>2
  <2> QED
    BY <2>1, <2>2, <2>3 DEF Holds
<1>13. alloc' = {ms[i] : i \in DOMAIN ms} /\ size' = Len(ms)
  <2>1. \A i \in DOMAIN ms : ms[i] \in alloc'
    BY <1>2, <1>5, <1>7
  <2>2. ASSUME NEW m \in alloc'
        PROVE  \E i \in DOMAIN ms : ms[i] = m
    <3>1. CASE m = n
      BY <1>7, <3>1
    <3>2. CASE m # n
      <4>1. PICK i \in DOMAIN ns : ns[i] = m
        BY <1>2, <1>5, <3>2
      <4> QED
        BY <1>7, <4>1
    <3> QED
      BY <3>1, <3>2
  <2>3. size' = Len(ms)
    BY <1>1, <1>5, <1>7
  <2> QED
    BY <2>1, <2>2, <2>3
<1>14. QueueInv'
  BY <1>1, <1>3, <1>8, <1>12, <1>13 DEF QueueInv
<1>15. StackInv'
  BY <1>1 DEF StackInv
<1>16. head' \in Nodes \cup {None} /\ tail' \in Nodes \cup {None}
  BY <1>2, <1>3 DEF Linked, ContainersTypes
<1>17. next' \in [Nodes -> Nodes \cup {None}]
  BY <1>2, <1>4 DEF Linked
<1>18. CallsLeft' /\ ContainersTypes'
  BY <1>1, <1>2, <1>3, <1>4, <1>9, <1>11, <1>16, <1>17, ReturnsCalls DEF ContainersTypes
<1> QED
  BY <1>14, <1>15, <1>18 DEF ContainersInv

\* queue_dequeue.
LEMMA DequeueInv ==
  ASSUME ContainersInv, NEW t \in Threads, queue_dequeue(t)
  PROVE  ContainersInv'
<1>1. /\ kind = "queue" /\ t \in Consumers /\ Runs(t) /\ size # 0
      /\ head' = next[head] /\ alloc' = alloc \ {head} /\ removed' = Append(removed, data[head])
      /\ size' = size - 1 /\ Returns(t)
      /\ UNCHANGED <<kind, capacity, tail, next, data, added, dropped, open>>
  BY ContainersAssumption DEF queue_dequeue, Blocked, Returns
<1>2. ContainersTypes /\ open
  BY <1>1, ReturnsCalls DEF ContainersInv
<1>3. /\ data \in [Nodes -> Elements \cup {None}] /\ added \in Seq(Elements) /\ size \in Nat
      /\ removed \in Seq(Elements) /\ next \in [Nodes -> Nodes \cup {None}]
  BY <1>1, <1>2 DEF ContainersTypes
<1>4. PICK ns : /\ IsChain(ns, head, tail, next) /\ Holds(ns, data, added, removed)
                /\ alloc = {ns[i] : i \in DOMAIN ns} /\ size = Len(ns)
  BY <1>1, <1>2 DEF ContainersInv, QueueInv
<1> DEFINE ms == Tail(ns)
<1>5. ns \in Seq(Nodes) /\ ns # <<>>
  BY <1>1, <1>4 DEF IsChain
<1>6. /\ ms \in Seq(Nodes) /\ Len(ms) = Len(ns) - 1 /\ Len(ns) \in Nat /\ Len(ns) > 0
      /\ DOMAIN ns = 1 .. Len(ns) /\ DOMAIN ms = 1 .. Len(ns) - 1
      /\ \A i \in 1 .. Len(ns) - 1 : ms[i] = ns[i + 1]
  BY <1>5, TailIs
<1>7. head = ns[1] /\ head \in Nodes /\ IsChain(ms, head', tail', next')
  BY <1>1, <1>4, <1>5, ChainShorter
<1> HIDE DEF ms
<1>8. /\ Len(removed) \in Nat /\ DOMAIN removed = 1 .. Len(removed)
      /\ Len(added) \in Nat /\ \A i \in 1 .. Len(added) : added[i] \in Elements
  BY <1>3
<1>9. Len(added) = Len(removed) + Len(ns) /\ added[Len(removed) + 1] = data[head]
  BY <1>4, <1>6, <1>7, <1>8 DEF Holds
<1>10. data[head] \in Elements
  BY <1>6, <1>8, <1>9
<1>11. /\ removed' \in Seq(Elements) /\ Len(removed') = Len(removed) + 1
       /\ DOMAIN removed' = 1 .. Len(removed) + 1
       /\ \A i \in 1 .. Len(removed) : removed'[i] = removed[i]
       /\ removed'[Len(removed) + 1] = data[head]
  BY <1>1, <1>3, <1>10, AppendIs
<1>12. Holds(ms, data', added', removed')
  <2>1. Len(added') = Len(removed') + Len(ms)
    BY <1>1, <1>6, <1>8, <1>9, <1>11
  <2>2. \A i \in DOMAIN removed' : added'[i] = removed'[i]
    BY <1>1, <1>4, <1>8, <1>9, <1>11 DEF Holds
  <2>3. ASSUME NEW i \in DOMAIN ms
        PROVE  added'[i + Len(removed')] = data'[ms[i]]
    <3>1. i + 1 \in DOMAIN ns /\ i + Len(removed') = (i + 1) + Len(removed)
      BY <1>6, <1>8, <1>11
    <3>2. added[(i + 1) + Len(removed)] = data[ns[i + 1]]
      BY <1>4, <3>1 DEF Holds
    <3> QED
      BY <1>1, <1>6, <3>1, <3>2
  <2> QED
    BY <2>1, <2>2, <2>3 DEF Holds
<1>13. alloc' = {ms[i] : i \in DOMAIN ms} /\ size' = Len(ms)
  <2>1. ASSUME NEW i \in DOMAIN ms
        PROVE  ms[i] \in alloc'
    <3>1. 1 \in DOMAIN ns /\ i + 1 \in DOMAIN ns /\ i + 1 # 1 /\ ms[i] = ns[i + 1]
      BY <1>6
    <3>2. ns[i + 1] # ns[1]
      BY <1>4, <3>1 DEF IsChain
    <3> QED
      BY <1>1, <1>4, <1>7, <3>1, <3>2
  <2>2. ASSUME NEW m \in alloc'
        PROVE  \E i \in DOMAIN ms : ms[i] = m
    <3>1. PICK i \in DOMAIN ns : ns[i] = m
      BY <1>1, <1>4
    <3>2. i # 1
      BY <1>1, <1>7, <3>1
    <3>3. i - 1 \in DOMAIN ms /\ (i - 1) + 1 = i
      BY <1>6, <3>1, <3>2
    <3> QED
      BY <1>6, <3>1, <3>3
  <2>3. size' = Len(ms)
    BY <1>1, <1>4, <1>6
  <2> QED
    BY <2>1, <2>2, <2>3
<1>14. QueueInv'
  BY <1>1, <1>2, <1>7, <1>12, <1>13 DEF QueueInv
<1>15. StackInv'
  BY <1>1 DEF StackInv
<1>16. head' \in Nodes \cup {None} /\ size' \in Nat /\ alloc' \subseteq Nodes
  BY <1>1, <1>2, <1>3, <1>7 DEF ContainersTypes
<1>17. CallsLeft' /\ ContainersTypes'
  BY <1>1, <1>2, <1>3, <1>11, <1>16, ReturnsCalls DEF ContainersTypes
<1> QED
  BY <1>14, <1>15, <1>17 DEF ContainersInv

\* A step that only concerns the threads.
LEMMA WaitingInv ==
  ASSUME ContainersInv, NEW t \in Threads, Wait(t) \/ Spurious(t)
  PROVE  ContainersInv'
<1>1. /\ at[t] # "done" /\ \E p \in {"wait", "woken"} : at' = [at EXCEPT ![t] = p]
      /\ UNCHANGED <<kind, capacity, head, tail, next, alloc, data, size, left, added,
                     removed, dropped, open>>
  BY DEF Wait, Spurious, Runs
<1>2. ContainersTypes'
  BY <1>1 DEF ContainersInv, ContainersTypes
<1>3. CallsLeft'
  BY <1>1 DEF ContainersInv, ContainersTypes, CallsLeft
<1>4. QueueInv' /\ StackInv'
  BY <1>1 DEF ContainersInv, QueueInv, StackInv
<1> QED
  BY <1>2, <1>3, <1>4 DEF ContainersInv

\* queue_enqueue without a node.
LEMMA EnqueueFailsInv ==
  ASSUME ContainersInv, NEW t \in Threads, queue_enqueueFails(t)
  PROVE  ContainersInv'
<1>1. /\ kind = "queue" /\ Runs(t) /\ Returns(t) /\ dropped' = TRUE
      /\ UNCHANGED <<kind, capacity, head, tail, next, alloc, data, size, added, removed,
                     open>>
  BY DEF queue_enqueueFails, Returns
<1>2. CallsLeft' /\ ContainersTypes'
  BY <1>1, ReturnsCalls DEF ContainersInv, ContainersTypes
<1>3. QueueInv' /\ StackInv'
  BY <1>1 DEF ContainersInv, QueueInv, StackInv
<1> QED
  BY <1>2, <1>3 DEF ContainersInv

\* stack_push.
LEMMA PushInv ==
  ASSUME ContainersInv, NEW t \in Threads, stack_push(t)
  PROVE  ContainersInv'
<1> DEFINE e == Element(t)
<1>1. /\ kind = "stack" /\ t \in Producers /\ Runs(t) /\ size # capacity
      /\ data' = [data EXCEPT ![size] = e] /\ size' = size + 1 /\ added' = Append(added, e)
      /\ Returns(t)
      /\ UNCHANGED <<kind, capacity, head, tail, next, alloc, removed, dropped, open>>
  BY SignalReturns DEF stack_push, Blocked
<1>2. /\ ContainersTypes /\ StackInv /\ open
      /\ left[t] \in Nat \ {0} /\ left'[t] = left[t] - 1
      /\ \A u \in Threads : left'[u] <= left[u]
      /\ left \in [Threads -> Nat] /\ left' \in [Threads -> Nat]
      /\ e \in Elements /\ e[1] = t /\ e[2] = left[t]
  BY <1>1, ReturnsCalls, ElementIs DEF ContainersInv, ContainersTypes
<1> HIDE DEF e
<1>3. /\ capacity \in Nat \ {0} /\ size \in 0 .. capacity - 1
      /\ data \in [0 .. capacity - 1 -> Elements \cup {None}]
      /\ added \in Seq(Elements) /\ removed \in Seq(Elements)
  <2>1. capacity \in Nat \ {0} /\ size \in Nat /\ size <= capacity
    BY <1>1, <1>2, ContainersAssumption DEF ContainersTypes, StackInv
  <2>2. size # capacity
    BY <1>1
  <2>3. size \in 0 .. capacity - 1
    BY ONLY <2>1, <2>2
  <2>4. data \in [0 .. capacity - 1 -> Elements \cup {None}]
    <3>1. kind = "stack" /\ ContainersTypes
      BY <1>1, <1>2
    <3> QED
      BY ONLY <3>1 DEF ContainersTypes
  <2>5. added \in Seq(Elements) /\ removed \in Seq(Elements)
    BY <1>2 DEF ContainersTypes
  <2> QED
    BY ONLY <2>1, <2>3, <2>4, <2>5
<1>4. /\ added' \in Seq(Elements) /\ Len(added) \in Nat
      /\ DOMAIN added = 1 .. Len(added) /\ DOMAIN added' = 1 .. Len(added) + 1
      /\ \A k \in 1 .. Len(added) : added'[k] = added[k]
      /\ added'[Len(added) + 1] = e
  BY <1>1, <1>2, <1>3, AppendIs
<1>5. /\ data' \in [0 .. capacity - 1 -> Elements \cup {None}] /\ data'[size] = e
      /\ \A i \in 0 .. size - 1 : data'[i] = data[i]
      /\ size \in 0 .. size' - 1 /\ \A i \in 0 .. size - 1 : i \in 0 .. size' - 1
      /\ \A i \in 0 .. size' - 1 : i = size \/ i \in 0 .. size - 1
  BY <1>1, <1>2, <1>3
<1>6. \A k \in DOMAIN added : added[k] \in Elements /\ added[k][1] \in Threads /\ added[k][2] \in Nat
  BY <1>3 DEF Elements, Threads
<1>7. \A k \in DOMAIN added : added[k] # e
  BY <1>1, <1>2, <1>6 DEF StackInv
<1>8. /\ \A i \in 0 .. size - 1 : data[i] # e
      /\ \A j \in DOMAIN removed : removed[j] # e
  BY <1>1, <1>2, <1>7 DEF StackInv
<1>9. StackInv'
  <2>1. alloc' = {} /\ size' <= capacity'
    BY <1>1, <1>2, <1>3 DEF StackInv
  <2>2. \A i, j \in 0 .. size' - 1 : data'[i] = data'[j] => i = j
    BY <1>1, <1>2, <1>5, <1>8 DEF StackInv
  <2>3. \A i \in 0 .. size' - 1, j \in DOMAIN removed : data'[i] # removed[j]
    BY <1>1, <1>2, <1>5, <1>8 DEF StackInv
  <2>4. ASSUME NEW i \in 0 .. size' - 1
        PROVE  \E k \in DOMAIN added' : data'[i] = added'[k]
    <3>1. CASE i = size
      BY <1>4, <1>5, <3>1
    <3>2. CASE i # size
      <4>1. PICK k \in DOMAIN added : data[i] = added[k]
        BY <1>1, <1>2, <1>5, <3>2 DEF StackInv
      <4>2. data'[i] = data[i] /\ k \in DOMAIN added' /\ added'[k] = added[k]
        BY <1>4, <1>5, <3>2, <4>1
      <4> QED
        BY <4>1, <4>2
    <3> QED
      BY <3>1, <3>2
  <2>5. ASSUME NEW j \in DOMAIN removed
        PROVE  \E k \in DOMAIN added' : removed[j] = added'[k]
    <3>1. PICK k \in DOMAIN added : removed[j] = added[k]
      BY <1>1, <1>2 DEF StackInv
    <3> QED
      BY <1>4, <3>1
  <2>6. ASSUME NEW k \in DOMAIN added'
        PROVE  /\ \/ \E i \in 0 .. size' - 1 : data'[i] = added'[k]
                  \/ \E j \in DOMAIN removed : removed[j] = added'[k]
               /\ added'[k][2] > left'[added'[k][1]]
    <3>1. CASE k = Len(added) + 1
      <4>1. size \in 0 .. size' - 1 /\ data'[size] = added'[k]
        BY <1>3, <1>4, <1>5, <3>1
      <4>2. added'[k][2] > left'[added'[k][1]]
        BY <1>2, <1>4, <3>1
      <4> QED
        BY <4>1, <4>2
    <3>2. CASE k # Len(added) + 1
      <4>1. k \in DOMAIN added /\ added'[k] = added[k]
        BY <1>4, <3>2
      <4>2. \/ \E i \in 0 .. size - 1 : data[i] = added[k]
            \/ \E j \in DOMAIN removed : removed[j] = added[k]
        BY <1>1, <1>2, <4>1 DEF StackInv
      <4>3. (\E i \in 0 .. size - 1 : data[i] = added[k]) => \E i \in 0 .. size' - 1 : data'[i] = added[k]
        BY <1>3, <1>5
      <4>4. added[k][2] > left[added[k][1]]
        BY <1>1, <1>2, <4>1 DEF StackInv
      <4>5. added[k][1] \in Threads /\ added[k][2] \in Nat
        BY <1>6, <4>1
      <4>6. /\ left[added[k][1]] \in Nat /\ left'[added[k][1]] \in Nat
            /\ left'[added[k][1]] <= left[added[k][1]]
        BY <1>2, <4>5
      <4>7. added[k][2] > left'[added[k][1]]
        BY <4>4, <4>5, <4>6
      <4> QED
        BY <4>1, <4>2, <4>3, <4>7
    <3> QED
      BY <3>1, <3>2
  <2>7. \A i, j \in DOMAIN removed : removed[i] = removed[j] => i = j
    BY <1>1, <1>2 DEF StackInv
  <2> QED
    <3>1. \A k \in DOMAIN added' : \/ \E i \in 0 .. size' - 1 : data'[i] = added'[k]
                                   \/ \E j \in DOMAIN removed : removed[j] = added'[k]
      BY <2>6
    <3>2. \A k \in DOMAIN added' : added'[k][2] > left'[added'[k][1]]
      BY <2>6
    <3> QED
      BY <1>1, <2>1, <2>2, <2>3, <2>4, <2>5, <2>7, <3>1, <3>2, SMTT(60) DEF StackInv
<1>10. QueueInv'
  BY <1>1 DEF QueueInv
<1>11. CallsLeft' /\ ContainersTypes'
  BY <1>1, <1>2, <1>3, <1>4, <1>5, ReturnsCalls DEF ContainersTypes
<1> QED
  BY <1>9, <1>10, <1>11 DEF ContainersInv

\* stack_pop.
LEMMA PopInv ==
  ASSUME ContainersInv, NEW t \in Threads, stack_pop(t)
  PROVE  ContainersInv'
<1> DEFINE e == data[size - 1]
<1>1. /\ kind = "stack" /\ Runs(t) /\ size # 0
      /\ removed' = Append(removed, e) /\ size' = size - 1 /\ Returns(t)
      /\ UNCHANGED <<kind, capacity, head, tail, next, alloc, data, added, dropped, open>>
  BY SignalReturns, ContainersAssumption DEF stack_pop, Blocked
<1>2. /\ ContainersTypes /\ StackInv /\ open
      /\ \A u \in Threads : left'[u] <= left[u]
      /\ left \in [Threads -> Nat] /\ left' \in [Threads -> Nat]
  BY <1>1, ReturnsCalls DEF ContainersInv, ContainersTypes
<1>3. /\ capacity \in Nat \ {0} /\ size \in 1 .. capacity
      /\ added \in Seq(Elements) /\ removed \in Seq(Elements)
  BY <1>1, <1>2, ContainersAssumption DEF ContainersTypes, StackInv
<1>4. size - 1 \in 0 .. size - 1 /\ 0 .. size' - 1 \subseteq 0 .. size - 1 /\ size - 1 \notin 0 .. size' - 1
  BY <1>1, <1>3
<1>5. PICK m \in DOMAIN added : e = added[m]
  BY <1>1, <1>2, <1>4 DEF StackInv
<1>6. e \in Elements
  BY <1>3, <1>5
<1>7. /\ \A i \in 0 .. size' - 1 : data[i] # e
      /\ \A j \in DOMAIN removed : removed[j] # e
  BY <1>1, <1>2, <1>4 DEF StackInv
<1> HIDE DEF e
<1>8. /\ removed' \in Seq(Elements) /\ Len(removed) \in Nat
      /\ DOMAIN removed = 1 .. Len(removed) /\ DOMAIN removed' = 1 .. Len(removed) + 1
      /\ \A j \in 1 .. Len(removed) : removed'[j] = removed[j]
      /\ removed'[Len(removed) + 1] = e
  BY <1>1, <1>3, <1>6, AppendIs
<1>9. StackInv'
  <2>1. alloc' = {} /\ size' <= capacity'
    BY <1>1, <1>2, <1>3 DEF StackInv
  <2>2. \A i, j \in 0 .. size' - 1 : data'[i] = data'[j] => i = j
    BY <1>1, <1>2, <1>4 DEF StackInv
  <2>3. \A i, j \in DOMAIN removed' : removed'[i] = removed'[j] => i = j
    BY <1>1, <1>2, <1>7, <1>8 DEF StackInv
  <2>4. \A i \in 0 .. size' - 1, j \in DOMAIN removed' : data'[i] # removed'[j]
    BY <1>1, <1>2, <1>4, <1>7, <1>8 DEF StackInv
  <2>5. \A i \in 0 .. size' - 1 : \E k \in DOMAIN added' : data'[i] = added'[k]
    BY <1>1, <1>2, <1>4 DEF StackInv
  <2>6. ASSUME NEW j \in DOMAIN removed'
        PROVE  \E k \in DOMAIN added' : removed'[j] = added'[k]
    <3>1. CASE j = Len(removed) + 1
      BY <1>1, <1>5, <1>8, <3>1
    <3>2. CASE j # Len(removed) + 1
      BY <1>1, <1>2, <1>8, <3>2 DEF StackInv
    <3> QED
      BY <3>1, <3>2
  <2>7. ASSUME NEW k \in DOMAIN added
        PROVE  \/ \E i \in 0 .. size' - 1 : data[i] = added[k]
               \/ \E j \in DOMAIN removed' : removed'[j] = added[k]
    <3>1. CASE added[k] = e
      BY <1>8, <3>1
    <3>2. CASE added[k] # e
      <4>1. \/ \E i \in 0 .. size - 1 : data[i] = added[k]
            \/ \E j \in DOMAIN removed : removed[j] = added[k]
        BY <1>1, <1>2 DEF StackInv
      <4>2. ASSUME NEW i \in 0 .. size - 1, data[i] = added[k]
            PROVE  i \in 0 .. size' - 1
        <5>1. i # size - 1
          BY <3>2, <4>2 DEF e
        <5> QED
          BY <1>1, <1>3, <5>1
      <4>3. \A j \in DOMAIN removed : j \in DOMAIN removed' /\ removed'[j] = removed[j]
        BY <1>8
      <4> QED
        BY <4>1, <4>2, <4>3
    <3> QED
      BY <3>1, <3>2
  <2>8. ASSUME NEW k \in DOMAIN added
        PROVE  added[k][2] > left'[added[k][1]]
    <3>1. added[k][1] \in Threads /\ added[k][2] \in Nat
      BY <1>3 DEF Elements, Threads
    <3>2. added[k][2] > left[added[k][1]]
      BY <1>1, <1>2 DEF StackInv
    <3>3. /\ left[added[k][1]] \in Nat /\ left'[added[k][1]] \in Nat
          /\ left'[added[k][1]] <= left[added[k][1]]
      BY <1>2, <3>1
    <3> QED
      BY <3>1, <3>2, <3>3
  <2> QED
    BY <1>1, <2>1, <2>2, <2>3, <2>4, <2>5, <2>6, <2>7, <2>8 DEF StackInv
<1>10. QueueInv'
  BY <1>1 DEF QueueInv
<1>11. CallsLeft' /\ ContainersTypes'
  BY <1>1, <1>2, <1>3, <1>8, ReturnsCalls DEF ContainersTypes
<1> QED
  BY <1>9, <1>10, <1>11 DEF ContainersInv

\* stack_top changes nothing but the threads.
LEMMA TopInv ==
  ASSUME ContainersInv, NEW t \in Threads, stack_top(t)
  PROVE  ContainersInv'
<1>1. /\ kind = "stack" /\ Runs(t) /\ Returns(t)
      /\ UNCHANGED <<kind, capacity, head, tail, next, alloc, data, size, added, removed,
                     dropped, open>>
  BY SignalReturns DEF stack_top
<1>2. CallsLeft' /\ ContainersTypes'
  BY <1>1, ReturnsCalls DEF ContainersInv, ContainersTypes
<1>3. QueueInv'
  BY <1>1 DEF QueueInv
<1>4. ASSUME NEW k \in DOMAIN added
      PROVE  added[k][2] > left'[added[k][1]]
  <2>1. added \in Seq(Elements) /\ left \in [Threads -> Nat]
    BY DEF ContainersInv, ContainersTypes
  <2>2. added[k][1] \in Threads /\ added[k][2] \in Nat
    BY <2>1 DEF Elements, Threads
  <2>3. added[k][2] > left[added[k][1]]
    BY <1>1 DEF ContainersInv, StackInv
  <2>4. /\ left[added[k][1]] \in Nat /\ left'[added[k][1]] \in Nat
        /\ left'[added[k][1]] <= left[added[k][1]]
    BY <1>1, <2>1, <2>2, ReturnsCalls
  <2> QED
    BY <2>2, <2>3, <2>4
<1>5. StackInv'
  BY <1>1, <1>4 DEF ContainersInv, StackInv
<1> QED
  BY <1>2, <1>3, <1>5 DEF ContainersInv

\* queue_destroy finds every node that is allocated.
LEMMA DestroyInv ==
  ASSUME ContainersInv, Destroy
  PROVE  ContainersInv'
<1>1. /\ open /\ open' = FALSE /\ alloc' = alloc \ ListNodes
      /\ \A t \in Threads : at[t] = "done"
      /\ UNCHANGED <<kind, capacity, head, tail, next, data, size, at, left, added,
                     removed, dropped>>
  BY DEF Destroy
<1>2. CallsLeft' /\ ContainersTypes'
  BY <1>1 DEF ContainersInv, ContainersTypes, CallsLeft
<1>3. StackInv'
  <2> SUFFICES ASSUME kind = "stack"
               PROVE  StackInv'
    BY <1>1 DEF StackInv
  <2>1. alloc' = {}
    BY <1>1 DEF ContainersInv, StackInv
  <2> QED
    BY <1>1, <2>1 DEF ContainersInv, StackInv
<1>4. QueueInv'
  <2> SUFFICES ASSUME kind = "queue"
               PROVE  alloc \subseteq ListNodes
    BY <1>1 DEF QueueInv
  <2>1. PICK ns : IsChain(ns, head, tail, next) /\ alloc = {ns[i] : i \in DOMAIN ns}
    BY <1>1 DEF ContainersInv, QueueInv
  <2> SUFFICES ASSUME NEW i \in DOMAIN ns
               PROVE  ns[i] \in ListNodes
    BY <2>1
  <2>2. Len(ns) \in Nat /\ DOMAIN ns = 1 .. Len(ns) /\ ns[i] \in Nodes
    BY <2>1 DEF IsChain
  <2>3. /\ Len(ns) \in 0 .. Cardinality(Nodes)
        /\ \A k \in 0 .. Len(ns) - 1 : Node[k] = ns[k + 1]
    BY <2>1, ChainNodes
  <2>4. Cardinality(Nodes) \in Nat
    BY ContainersAssumption, FS_CardinalityType
  <2>5. i - 1 \in 0 .. Len(ns) - 1 /\ i - 1 \in 0 .. Cardinality(Nodes) /\ (i - 1) + 1 = i
    BY <2>2, <2>3, <2>4
  <2>6. Node[i - 1] = ns[i]
    BY <2>3, <2>5
  <2>7. DOMAIN Node = 0 .. Cardinality(Nodes)
    BY NodeIs
  <2> QED
    BY <2>2, <2>5, <2>6, <2>7, ContainersAssumption DEF ListNodes
<1> QED
  BY <1>2, <1>3, <1>4 DEF ContainersInv

LEMMA ContainersInvariant == ContainersSpec => []ContainersInv
<1>1. ContainersInv /\ [ContainersNext]_cvars => ContainersInv'
  <2> SUFFICES ASSUME ContainersInv, [ContainersNext]_cvars
               PROVE  ContainersInv'
    OBVIOUS
  <2>1. CASE Destroy
    BY <2>1, DestroyInv
  <2>2. ASSUME NEW t \in Threads, ThreadStep(t) \/ Spurious(t)
        PROVE  ContainersInv'
    BY <2>2, WaitingInv, EnqueueInv, EnqueueFailsInv, DequeueInv, PushInv, PopInv, TopInv
    DEF ThreadStep
  <2>3. CASE UNCHANGED cvars
    <3> USE <2>3 DEF cvars
    <3>1. ContainersTypes' /\ CallsLeft'
      BY DEF ContainersInv, ContainersTypes, CallsLeft
    <3>2. QueueInv' /\ StackInv'
      BY DEF ContainersInv, QueueInv, StackInv
    <3> QED
      BY <3>1, <3>2 DEF ContainersInv
  <2> QED
    BY <2>1, <2>2, <2>3 DEF ContainersNext
<1> QED
  BY <1>1, ContainersInitInv, PTL DEF ContainersSpec

\* The members of a sequence without repetition can be counted.
LEMMA CountOnce ==
  ASSUME NEW f, NEW S, IsFiniteSet(S), \A i, j \in S : f[i] = f[j] => i = j,
         NEW T, \A x : x \in T <=> \E i \in S : x = f[i]
  PROVE  Cardinality(T) = Cardinality(S)
<1> DEFINE g == [i \in S |-> f[i]]
<1>2. g \in Bijection(S, T)
  BY DEF Bijection, Injection, IsInjective, Surjection
<1>3. ExistsBijection(S, T)
  BY <1>2 DEF ExistsBijection
<1> QED
  BY <1>3, FS_Bijection

\* The queue's list holds the allocated nodes and the elements in their order, the stack's
\* elements and the removed ones are the added ones, each once, and after the destruction
\* nothing is allocated: whatever the number of threads, nodes and calls and the size of the
\* stack (queue_enqueue, queue_dequeue, stack_push, stack_pop, queue_destroy).
THEOREM ContainersElementsKept == ContainersSpec => []ElementsKept
<1>1. ASSUME ContainersInv
      PROVE  ElementsKept
  <2>1. ASSUME kind = "queue", open
        PROVE  /\ Node[size] = None /\ alloc = {Node[k] : k \in 0 .. size - 1}
               /\ size > 0 => Node[size - 1] = tail
               /\ added = removed \o [k \in 1 .. size |-> data[Node[k - 1]]]
    <3>1. PICK ns : /\ IsChain(ns, head, tail, next) /\ Holds(ns, data, added, removed)
                    /\ alloc = {ns[i] : i \in DOMAIN ns} /\ size = Len(ns)
      BY <1>1, <2>1 DEF ContainersInv, QueueInv
    <3>2. ns \in Seq(Nodes) /\ Len(ns) \in Nat /\ DOMAIN ns = 1 .. Len(ns)
      BY <3>1 DEF IsChain
    <3>3. Cardinality(Nodes) \in Nat
      BY ContainersAssumption, FS_CardinalityType
    <3>4. /\ Len(ns) \in 0 .. Cardinality(Nodes)
          /\ \A k \in 0 .. Len(ns) - 1 : Node[k] = ns[k + 1]
          /\ \A k \in Len(ns) .. Cardinality(Nodes) : Node[k] = None
      BY <3>1, ChainNodes
    <3>5. Node[size] = None
      BY <3>1, <3>3, <3>4
    <3>6. \A i \in 1 .. Len(ns) : i - 1 \in 0 .. Len(ns) - 1 /\ Node[i - 1] = ns[i]
      BY <3>2, <3>4
    <3>7. alloc = {Node[k] : k \in 0 .. size - 1}
      <4>1. \A k \in 0 .. size - 1 : k + 1 \in DOMAIN ns /\ Node[k] = ns[k + 1]
        BY <3>1, <3>2, <3>4
      <4>2. \A i \in DOMAIN ns : i - 1 \in 0 .. size - 1 /\ Node[i - 1] = ns[i]
        BY <3>1, <3>2, <3>6
      <4> QED
        BY <3>1, <4>1, <4>2
    <3>8. size > 0 => Node[size - 1] = tail
      BY <3>1, <3>2, <3>6 DEF IsChain
    <3> DEFINE rest == [k \in 1 .. size |-> data[Node[k - 1]]]
    <3>9. added \in Seq(Elements) /\ removed \in Seq(Elements)
      BY <1>1 DEF ContainersInv, ContainersTypes
    <3>10. /\ Len(added) = Len(removed) + size /\ Len(added) \in Nat /\ Len(removed) \in Nat
           /\ \A i \in 1 .. Len(removed) : added[i] = removed[i]
           /\ \A i \in 1 .. size : added[i + Len(removed)] = rest[i]
      <4>1. Len(added) \in Nat /\ Len(removed) \in Nat /\ DOMAIN removed = 1 .. Len(removed)
        BY <3>9
      <4>2. \A i \in 1 .. size : rest[i] = data[ns[i]]
        BY <3>1, <3>2, <3>6
      <4> HIDE DEF rest
      <4> QED
        BY <3>1, <3>2, <4>1, <4>2 DEF Holds
    <3>11. rest \in Seq(Elements) /\ Len(rest) = size
      <4>1. \A i \in 1 .. size : i + Len(removed) \in 1 .. Len(added)
        BY <3>1, <3>2, <3>10
      <4>2. \A i \in 1 .. size : rest[i] \in Elements
        BY <3>9, <3>10, <4>1
      <4>3. rest \in [1 .. size -> Elements] /\ size \in Nat
        BY <3>1, <3>2, <4>2
      <4> QED
        BY <4>3
    <3> HIDE DEF rest
    <3>12. added = removed \o rest
      <4>1. /\ removed \o rest \in Seq(Elements) /\ Len(removed \o rest) = Len(added)
            /\ \A i \in 1 .. Len(added) :
                 (removed \o rest)[i] = IF i <= Len(removed) THEN removed[i] ELSE rest[i - Len(removed)]
        <5>1. Len(removed) + Len(rest) = Len(added)
          BY <3>1, <3>2, <3>10, <3>11
        <5> QED
          BY <3>9, <3>11, <5>1, ConcatProperties
      <4>2. ASSUME NEW i \in 1 .. Len(added)
            PROVE  added[i] = (removed \o rest)[i]
        <5>1. CASE i <= Len(removed)
          BY <3>10, <4>1, <5>1
        <5>2. CASE ~(i <= Len(removed))
          <6>1. i - Len(removed) \in 1 .. size /\ (i - Len(removed)) + Len(removed) = i
            BY <3>1, <3>2, <3>10, <5>2
          <6> QED
            BY <3>10, <4>1, <5>2, <6>1
        <5> QED
          BY <5>1, <5>2
      <4> QED
        BY <3>9, <4>1, <4>2, SeqEqual
    <3> QED
      BY <3>5, <3>7, <3>8, <3>12 DEF rest
  <2>2. ASSUME kind = "stack"
        PROVE  LET gone == {removed[k] : k \in DOMAIN removed}
                   kept == {data[k] : k \in 0 .. size - 1}
               IN /\ size \in 0 .. capacity /\ Cardinality(kept) = size
                  /\ gone \cap kept = {} /\ gone \cup kept = {added[k] : k \in DOMAIN added}
                  /\ Cardinality(gone) = Len(removed)
    <3> DEFINE gone == {removed[k] : k \in DOMAIN removed}
               kept == {data[k] : k \in 0 .. size - 1}
    <3>1. StackInv /\ size \in Nat /\ capacity \in Nat /\ removed \in Seq(Elements)
      BY <1>1, ContainersAssumption DEF ContainersInv, ContainersTypes
    <3>2. size \in 0 .. capacity
      BY <2>2, <3>1 DEF StackInv
    <3>3. Cardinality(kept) = size
      <4>1. \A i, j \in 0 .. size - 1 : data[i] = data[j] => i = j
        BY <2>2, <3>1 DEF StackInv
      <4>2. IsFiniteSet(0 .. size - 1) /\ Cardinality(0 .. size - 1) = size
        <5>1. 0 \in Int /\ size - 1 \in Int
          BY <3>1
        <5>2. /\ IsFiniteSet(0 .. size - 1)
              /\ Cardinality(0 .. size - 1) = IF 0 > size - 1 THEN 0 ELSE (size - 1) - 0 + 1
          BY <5>1, FS_Interval, Zenon
        <5> QED
          BY <3>1, <5>2
      <4>3. Cardinality(kept) = Cardinality(0 .. size - 1)
        <5>1. \A x : x \in kept <=> \E i \in 0 .. size - 1 : x = data[i]
          OBVIOUS
        <5> HIDE DEF kept
        <5> QED
          BY <4>1, <4>2, <5>1, CountOnce, Zenon
      <4> QED
        BY <4>2, <4>3
    <3>4. Cardinality(gone) = Len(removed)
      <4>1. DOMAIN removed = 1 .. Len(removed) /\ Len(removed) \in Nat
        BY <3>1
      <4>2. \A i, j \in 1 .. Len(removed) : removed[i] = removed[j] => i = j
        BY <2>2, <3>1, <4>1 DEF StackInv
      <4>3. IsFiniteSet(1 .. Len(removed)) /\ Cardinality(1 .. Len(removed)) = Len(removed)
        <5>1. 1 \in Int /\ Len(removed) \in Int
          BY <4>1
        <5>2. /\ IsFiniteSet(1 .. Len(removed))
              /\ Cardinality(1 .. Len(removed)) = IF 1 > Len(removed) THEN 0 ELSE Len(removed) - 1 + 1
          BY <5>1, FS_Interval, Zenon
        <5> QED
          BY <4>1, <5>2
      <4>4. Cardinality(gone) = Cardinality(1 .. Len(removed))
        <5>1. \A x : x \in gone <=> \E i \in 1 .. Len(removed) : x = removed[i]
          BY <4>1
        <5> DEFINE D == 1 .. Len(removed)
        <5>2. IsFiniteSet(D) /\ \A i, j \in D : removed[i] = removed[j] => i = j
          BY <4>2, <4>3
        <5>3. \A x : x \in gone <=> \E i \in D : x = removed[i]
          BY <5>1
        <5> HIDE DEF gone, D
        <5>4. Cardinality(gone) = Cardinality(D)
          BY <5>2, <5>3, CountOnce
        <5> QED
          BY <5>4 DEF D
      <4> QED
        BY <4>1, <4>3, <4>4
    <3>5. gone \cap kept = {}
      BY <2>2, <3>1 DEF StackInv
    <3>6. gone \cup kept = {added[k] : k \in DOMAIN added}
      BY <2>2, <3>1 DEF StackInv
    <3> QED
      BY <3>2, <3>3, <3>4, <3>5, <3>6
  <2>3. ~open => alloc = {}
    BY <1>1 DEF ContainersInv, ContainersTypes, QueueInv, StackInv
  <2> QED
    BY <2>1, <2>2, <2>3 DEF ElementsKept
<1> QED
  BY <1>1, ContainersInvariant, PTL

(***************************************************************************)
(* The timers.                                                             *)
(***************************************************************************)
Events == [timeout : Nat, id : Nat]

\* A heap: no event is earlier than the one at the place above its own.
IsHeap(h) ==
  /\ h \in Seq(Events)
  /\ \A i \in 1 .. Len(h) - 1 : h[Parent(i) + 1].timeout <= h[i + 1].timeout

\* Where an event goes on from i: the function nx leads on, unless i is in Stop.
IsWalk(g, D, Stop, nx) == g = [i \in D |-> IF i \in Stop THEN i ELSE g[nx[i]]]

\* A is the way from the place i to the root.
IsPath(i, A) ==
  /\ i \in A /\ 0 \in A /\ A \subseteq 0 .. i
  /\ \A a \in A : a # 0 => Parent(a) \in A
  /\ \A a \in A : a # i => \E b \in A : b # 0 /\ Parent(b) = a
  /\ \A a, b \in A : a < b => a <= Parent(b)

\* The inductive invariant: next to TimersInOrder, the heap is one, and what has run was
\* not later than what has not.
TimerTypes ==
  /\ now \in Nat /\ made \in 0 .. MaxTimers
  /\ fired \in Seq(Events)
  /\ current_time = Idle \/ current_time \in 0 .. now

FiredFirst ==
  \A i \in DOMAIN fired, k \in DOMAIN heap : fired[i].timeout <= heap[k].timeout

TimerInv == TimerTypes /\ IsHeap(heap) /\ FiredFirst /\ TimersInOrder

-----------------------------------------------------------------------------
\* The place above another one.
LEMMA ParentIs ==
  ASSUME NEW i \in Nat, i # 0
  PROVE  Parent(i) \in Nat /\ Parent(i) < i /\ (i = 2 * Parent(i) + 1 \/ i = 2 * Parent(i) + 2)
BY DEF Parent

LEMMA ParentOfChild ==
  ASSUME NEW i \in Nat
  PROVE  Parent(2 * i + 1) = i /\ Parent(2 * i + 2) = i
BY DEF Parent

\* A walk that comes closer to its end with every step exists.
LEMMA WalkExists ==
  ASSUME NEW D, NEW Stop, NEW nx, NEW m \in Nat, NEW r \in [D -> 0 .. m],
         \A i \in D \ Stop : nx[i] \in D /\ r[nx[i]] < r[i]
  PROVE  \E g : IsWalk(g, D, Stop, nx)
<1> DEFINE Goes(g, i) == g[i] = IF i \in Stop THEN i ELSE g[nx[i]]
           S == {k \in Nat : \E g : \A i \in D : r[i] <= k => Goes(g, i)}
<1>0. \A i \in D : r[i] \in 0 .. m
  OBVIOUS
<1>1. 0 \in S
  <2> DEFINE g == [i \in D |-> i]
  <2>1. \A i \in D : r[i] <= 0 => i \in Stop
    BY <1>0
  <2>2. \A i \in D : r[i] <= 0 => Goes(g, i)
    BY <2>1
  <2> HIDE DEF Goes, g
  <2> QED
    BY <2>2
<1>2. ASSUME NEW k \in Nat, k \in S
      PROVE  k + 1 \in S
  <2>1. PICK g : \A i \in D : r[i] <= k => Goes(g, i)
    BY <1>2
  <2> DEFINE h == [i \in D |-> IF i \in Stop THEN i ELSE g[nx[i]]]
  <2>2. ASSUME NEW i \in D, r[i] <= k + 1
        PROVE  Goes(h, i)
    <3>1. CASE i \in Stop
      BY <3>1
    <3>2. CASE i \notin Stop
      <4>1. nx[i] \in D /\ r[nx[i]] <= k
        BY <1>0, <2>2, <3>2
      <4>2. h[nx[i]] = g[nx[i]]
        BY <2>1, <4>1
      <4> QED
        BY <3>2, <4>2
    <3> QED
      BY <3>1, <3>2
  <2> HIDE DEF Goes, h
  <2>3. \E f : \A i \in D : r[i] <= k + 1 => Goes(f, i)
    BY <2>2
  <2> QED
    BY <2>3
<1>3. m \in S
  <2> HIDE DEF S
  <2> QED
    BY <1>1, <1>2, SetInduction
<1>4. PICK g : \A i \in D : Goes(g, i)
  BY <1>0, <1>3
<1> DEFINE f == [i \in D |-> g[i]]
<1>5. \A i \in D : f[i] = IF i \in Stop THEN i ELSE f[nx[i]]
  BY <1>4
<1>6. f = [i \in D |-> f[i]]
  OBVIOUS
<1> HIDE DEF f
<1>7. f = [i \in D |-> IF i \in Stop THEN i ELSE f[nx[i]]]
  BY <1>5, <1>6
<1> QED
  BY <1>7 DEF IsWalk

\* The equation that defines Ancestors has a solution.
LEMMA AncestorsIs ==
  Ancestors = [i \in 0 .. MaxTimers |-> IF i = 0 THEN {0} ELSE {i} \cup Ancestors[Parent(i)]]
<1> DEFINE D == 0 .. MaxTimers
           Goes(g, i) == g[i] = IF i = 0 THEN {0} ELSE {i} \cup g[Parent(i)]
           S == {k \in Nat : \E g : \A i \in D : i <= k => Goes(g, i)}
<1>0. MaxTimers \in Nat /\ \A i \in D : i # 0 => Parent(i) \in D /\ Parent(i) < i
  BY ParentIs, TimerAssumption
<1>1. 0 \in S
  <2> DEFINE g == [i \in D |-> {0}]
  <2>1. \A i \in D : i <= 0 => Goes(g, i)
    BY <1>0
  <2> HIDE DEF Goes, g
  <2> QED
    BY <2>1
<1>2. ASSUME NEW k \in Nat, k \in S
      PROVE  k + 1 \in S
  <2>1. PICK g : \A i \in D : i <= k => Goes(g, i)
    BY <1>2
  <2> DEFINE h == [i \in D |-> IF i = 0 THEN {0} ELSE {i} \cup g[Parent(i)]]
  <2>2. ASSUME NEW i \in D, i <= k + 1
        PROVE  Goes(h, i)
    <3>1. CASE i = 0
      BY <3>1
    <3>2. CASE i # 0
      <4>1. Parent(i) \in D /\ Parent(i) <= k
        BY <1>0, <2>2, <3>2
      <4>2. h[Parent(i)] = g[Parent(i)]
        BY <2>1, <4>1
      <4> QED
        BY <3>2, <4>2
    <3> QED
      BY <3>1, <3>2
  <2> HIDE DEF Goes, h
  <2>3. \E f : \A i \in D : i <= k + 1 => Goes(f, i)
    BY <2>2
  <2> QED
    BY <2>3
<1>3. MaxTimers \in S
  <2> HIDE DEF S
  <2> QED
    BY <1>0, <1>1, <1>2, SetInduction
<1>4. PICK g : \A i \in D : Goes(g, i)
  <2> HIDE DEF Goes
  <2>1. PICK g : \A i \in D : i <= MaxTimers => Goes(g, i)
    BY <1>3
  <2>2. \A i \in D : Goes(g, i)
    BY <1>0, <2>1
  <2> QED
    BY <2>2
<1> DEFINE f == [i \in D |-> g[i]]
<1>5. \A i \in D : f[i] = IF i = 0 THEN {0} ELSE {i} \cup f[Parent(i)]
  BY <1>0, <1>4
<1>6. f = [i \in D |-> f[i]]
  OBVIOUS
<1> HIDE DEF f
<1>7. f = [i \in D |-> IF i = 0 THEN {0} ELSE {i} \cup f[Parent(i)]]
  BY <1>5, <1>6
<1>8. \E a : a = [i \in 0 .. MaxTimers |-> IF i = 0 THEN {0} ELSE {i} \cup a[Parent(i)]]
  BY <1>7
<1> QED
  BY <1>8, Zenon DEF Ancestors

LEMMA AncestorsArePath == \A i \in 0 .. MaxTimers : IsPath(i, Ancestors[i])
<1> DEFINE S == {k \in Nat : \A i \in 0 .. MaxTimers : i <= k => IsPath(i, Ancestors[i])}
<1>0. MaxTimers \in Nat
  BY TimerAssumption
<1>1. \A i \in 0 .. MaxTimers :
        Ancestors[i] = IF i = 0 THEN {0} ELSE {i} \cup Ancestors[Parent(i)]
  BY AncestorsIs
<1>2. 0 \in S
  <2>1. 0 \in 0 .. MaxTimers
    BY <1>0
  <2>3. Ancestors[0] = {0}
    BY <1>1, <2>1
  <2>2. IsPath(0, Ancestors[0])
    BY <2>3 DEF IsPath
  <2> QED
    BY <1>0, <2>2
<1>3. ASSUME NEW k \in Nat, k \in S
      PROVE  k + 1 \in S
  <2> SUFFICES ASSUME NEW i \in 0 .. MaxTimers, i <= k + 1
               PROVE  IsPath(i, Ancestors[i])
    OBVIOUS
  <2>1. CASE i <= k
    BY <1>3, <2>1
  <2>2. CASE ~(i <= k)
    <3> DEFINE q == Parent(i)
               A == Ancestors[q]
    <3>1. i \in Nat /\ i # 0 /\ q \in Nat /\ q < i /\ q <= k /\ q \in 0 .. MaxTimers
      BY <1>0, <2>2, ParentIs
    <3>2. IsPath(q, A)
      BY <1>3, <3>1
    <3>3. Ancestors[i] = {i} \cup A
      BY <1>1, <3>1
    <3>4. q \in A /\ 0 \in A /\ A \subseteq 0 .. q
      BY <3>2 DEF IsPath
    <3> DEFINE B == {i} \cup A
    <3>5. i \in B /\ 0 \in B /\ B \subseteq 0 .. i
      BY <3>1, <3>4
    <3>6. \A a \in B : a # 0 => Parent(a) \in B
      BY <3>2, <3>4 DEF IsPath
    <3>7. ASSUME NEW a \in B, a # i
          PROVE  \E b \in B : b # 0 /\ Parent(b) = a
      <4>1. CASE a = q
        BY <3>1, <4>1
      <4>2. CASE a # q
        BY <3>2, <3>7, <4>2 DEF IsPath
      <4> QED
        BY <4>1, <4>2
    <3>8. ASSUME NEW a \in B, NEW b \in B, a < b
          PROVE  a <= Parent(b)
      <4>1. CASE b = i
        BY <3>1, <3>4, <3>8, <4>1
      <4>2. CASE b # i
        <5>1. b \in A /\ a \in A
          BY <3>1, <3>4, <3>8, <4>2
        <5> QED
          BY <3>2, <3>8, <5>1 DEF IsPath
      <4> QED
        BY <4>1, <4>2
    <3> HIDE DEF B
    <3>9. IsPath(i, B)
      BY <3>5, <3>6, <3>7, <3>8 DEF IsPath
    <3> QED
      BY <3>3, <3>9 DEF B
  <2> QED
    BY <2>1, <2>2
<1>4. \A k \in Nat : k \in S
  <2> HIDE DEF S
  <2> QED
    BY <1>2, <1>3, SetInduction
<1>5. MaxTimers \in S
  BY <1>0, <1>4
<1>6. \A i \in 0 .. MaxTimers : i <= MaxTimers
  BY <1>0
<1> QED
  BY <1>5, <1>6

\* One place of a way lies below another.
LEMMA OneBelow ==
  ASSUME NEW i \in Nat, NEW A, IsPath(i, A), NEW a \in A, NEW b \in A,
         a # 0, b # 0, Parent(a) = Parent(b)
  PROVE  a = b
<1>1. a \in Nat /\ b \in Nat /\ Parent(a) \in Nat /\ Parent(a) < a /\ Parent(b) < b
  BY ParentIs DEF IsPath
<1>2. ~(a < b) /\ ~(b < a)
  BY <1>1 DEF IsPath
<1> QED
  BY <1>1, <1>2

LEMMA HeapIs ==
  ASSUME NEW h, IsHeap(h)
  PROVE  /\ h \in Seq(Events) /\ Len(h) \in Nat /\ DOMAIN h = 1 .. Len(h)
         /\ \A k \in 1 .. Len(h) : h[k] \in Events /\ h[k].timeout \in Nat
<1>1. h \in Seq(Events)
  BY DEF IsHeap
<1>2. Len(h) \in Nat /\ DOMAIN h = 1 .. Len(h) /\ \A k \in 1 .. Len(h) : h[k] \in Events
  BY <1>1
<1>3. \A e \in Events : e.timeout \in Nat
  BY DEF Events
<1> QED
  BY <1>1, <1>2, <1>3

\* The first event of a heap is the earliest.
LEMMA RootEarliest ==
  ASSUME NEW h, IsHeap(h)
  PROVE  \A k \in DOMAIN h : h[1].timeout <= h[k].timeout
<1> DEFINE S == {k \in Nat : \A i \in 0 .. Len(h) - 1 :
                               i <= k => h[1].timeout <= h[i + 1].timeout}
<1>1. /\ h \in Seq(Events) /\ Len(h) \in Nat /\ DOMAIN h = 1 .. Len(h)
      /\ \A k \in 1 .. Len(h) : h[k] \in Events /\ h[k].timeout \in Nat
  BY HeapIs
<1>2. 0 \in S
  <2>1. \A i \in 0 .. Len(h) - 1 : i <= 0 => i + 1 = 1 /\ 1 \in 1 .. Len(h)
    BY <1>1
  <2> QED
    BY <1>1, <2>1
<1>3. ASSUME NEW k \in Nat, k \in S
      PROVE  k + 1 \in S
  <2> SUFFICES ASSUME NEW i \in 0 .. Len(h) - 1, i <= k + 1
               PROVE  h[1].timeout <= h[i + 1].timeout
    OBVIOUS
  <2>1. CASE i <= k
    BY <1>3, <2>1
  <2>2. CASE ~(i <= k)
    <3>1. i \in Nat /\ i # 0 /\ i \in 1 .. Len(h) - 1
      BY <1>1, <2>2
    <3>2. Parent(i) \in 0 .. Len(h) - 1 /\ Parent(i) <= k
      BY <1>1, <3>1, ParentIs
    <3>3. h[1].timeout <= h[Parent(i) + 1].timeout
      BY <1>3, <3>2
    <3>4. h[Parent(i) + 1].timeout <= h[i + 1].timeout
      BY <3>1 DEF IsHeap
    <3>5. 1 \in 1 .. Len(h) /\ i + 1 \in 1 .. Len(h) /\ Parent(i) + 1 \in 1 .. Len(h)
      BY <1>1, <3>1, <3>2
    <3>6. h[1].timeout \in Nat /\ h[i + 1].timeout \in Nat /\ h[Parent(i) + 1].timeout \in Nat
      BY <1>1, <3>5
    <3> QED
      BY <3>3, <3>4, <3>6
  <2> QED
    BY <2>1, <2>2
<1>4. \A k \in Nat : k \in S
  <2> HIDE DEF S
  <2> QED
    BY <1>2, <1>3, SetInduction
<1>5. \A k \in 1 .. Len(h) : k - 1 \in Nat /\ k - 1 \in 0 .. Len(h) - 1 /\ (k - 1) + 1 = k
  BY <1>1
<1>6. ASSUME NEW k \in 1 .. Len(h)
      PROVE  h[1].timeout <= h[k].timeout
  <2>1. k - 1 \in S /\ k - 1 \in 0 .. Len(h) - 1 /\ (k - 1) + 1 = k /\ k - 1 <= k - 1
    BY <1>4, <1>5
  <2> QED
    BY <2>1
<1> QED
  BY <1>1, <1>6

-----------------------------------------------------------------------------
\* The place from which the event goes no further up, and what lies on the way to it.
LEMMA PushPlace ==
  ASSUME NEW h, NEW event, NEW place,
         place = [i \in 0 .. MaxTimers |->
                    IF i = 0 THEN 0
                    ELSE IF h[Parent(i) + 1].timeout <= event.timeout THEN i
                    ELSE place[Parent(i)]]
  PROVE  \A i \in 0 .. MaxTimers :
           /\ place[i] \in Ancestors[i]
           /\ place[i] # 0 => h[Parent(place[i]) + 1].timeout <= event.timeout
           /\ \A a \in Ancestors[i] :
                a > place[i] => ~(h[Parent(a) + 1].timeout <= event.timeout)
<1> DEFINE Rests(i) ==
             /\ place[i] \in Ancestors[i]
             /\ place[i] # 0 => h[Parent(place[i]) + 1].timeout <= event.timeout
             /\ \A a \in Ancestors[i] :
                  a > place[i] => ~(h[Parent(a) + 1].timeout <= event.timeout)
           S == {k \in Nat : \A i \in 0 .. MaxTimers : i <= k => Rests(i)}
<1>0. MaxTimers \in Nat /\ \A i \in 0 .. MaxTimers : i # 0 => Parent(i) \in 0 .. MaxTimers /\ Parent(i) < i
  BY ParentIs, TimerAssumption
<1>1. \A i \in 0 .. MaxTimers :
        place[i] = IF i = 0 THEN 0
                   ELSE IF h[Parent(i) + 1].timeout <= event.timeout THEN i ELSE place[Parent(i)]
  OBVIOUS
<1>2. \A i \in 0 .. MaxTimers :
        /\ Ancestors[i] = IF i = 0 THEN {0} ELSE {i} \cup Ancestors[Parent(i)]
        /\ i \in Ancestors[i] /\ Ancestors[i] \subseteq 0 .. i
  BY AncestorsIs, AncestorsArePath DEF IsPath
<1> HIDE DEF S
<1>3. ASSUME NEW i \in 0 .. MaxTimers, i = 0 \/ Rests(Parent(i))
      PROVE  Rests(i)
  <2>0. i \in Ancestors[i] /\ \A a \in Ancestors[i] : ~(a > i)
    <3>1. i \in Nat /\ i \in Ancestors[i] /\ Ancestors[i] \subseteq 0 .. i
      <4>1. i \in Nat
        BY <1>0
      <4> QED
        BY <1>2, <4>1
    <3> QED
      BY <3>1
  <2>1. CASE i = 0
    <3>1. place[i] = i
      BY <1>1, <2>1
    <3> QED
      BY <2>0, <2>1, <3>1
  <2>2. CASE i # 0 /\ h[Parent(i) + 1].timeout <= event.timeout
    <3>1. place[i] = i
      BY <1>1, <2>2
    <3> QED
      BY <2>0, <2>2, <3>1
  <2>3. CASE i # 0 /\ ~(h[Parent(i) + 1].timeout <= event.timeout)
    <3>1. place[i] = place[Parent(i)] /\ Ancestors[i] = {i} \cup Ancestors[Parent(i)]
      BY <1>1, <1>2, <2>3
    <3> QED
      BY <1>3, <2>3, <3>1
  <2> QED
    BY <2>1, <2>2, <2>3
<1> HIDE DEF Rests
<1>4. 0 \in S
  BY <1>0, <1>3 DEF S
<1>5. ASSUME NEW k \in Nat, k \in S
      PROVE  k + 1 \in S
  BY <1>0, <1>3, <1>5 DEF S
<1>6. MaxTimers \in S
  BY <1>0, <1>4, <1>5, SetInduction
<1>7. \A i \in 0 .. MaxTimers : Rests(i)
  BY <1>0, <1>6 DEF S
<1> QED
  BY <1>7 DEF Rests

\* An event is pushed: where it goes and which places move down.
LEMMA PushIs ==
  ASSUME NEW h, IsHeap(h), Len(h) < MaxTimers, NEW event \in Events
  PROVE  \E p \in Ancestors[Len(h)] :
           /\ min_heap_push(h, event) =
                [k \in 1 .. Len(h) + 1 |->
                   IF k - 1 = p THEN event
                   ELSE IF k - 1 > p /\ k - 1 \in Ancestors[Len(h)] THEN h[Parent(k - 1) + 1]
                   ELSE h[k]]
           /\ p # 0 => h[Parent(p) + 1].timeout <= event.timeout
           /\ \A a \in Ancestors[Len(h)] :
                a > p => ~(h[Parent(a) + 1].timeout <= event.timeout)
<1> DEFINE D == 0 .. MaxTimers
           place[i \in 0 .. MaxTimers] ==
             IF i = 0 THEN 0
             ELSE IF h[Parent(i) + 1].timeout <= event.timeout THEN i ELSE place[Parent(i)]
           p == place[Len(h)]
<1>1. \E g : g = [i \in 0 .. MaxTimers |->
                    IF i = 0 THEN 0
                    ELSE IF h[Parent(i) + 1].timeout <= event.timeout THEN i ELSE g[Parent(i)]]
  <2> DEFINE Stop == {i \in D : i = 0 \/ h[Parent(i) + 1].timeout <= event.timeout}
             nx == [i \in D |-> Parent(i)]
             r == [i \in D |-> i]
  <2>1. MaxTimers \in Nat /\ r \in [D -> 0 .. MaxTimers]
    BY TimerAssumption
  <2>2. \A i \in D \ Stop : i \in D /\ Parent(i) \in D /\ Parent(i) < i
    BY <2>1, ParentIs
  <2>3. \A i \in D \ Stop : nx[i] \in D /\ r[nx[i]] < r[i]
    BY <2>2
  <2>4. PICK g : IsWalk(g, D, Stop, nx)
    <3> HIDE DEF D, Stop, nx, r
    <3> QED
      BY <2>1, <2>3, WalkExists
  <2>5. \A i \in D : g[i] = IF i \in Stop THEN i ELSE g[nx[i]]
    BY <2>4 DEF IsWalk
  <2>6. \A i \in D : g[i] = IF i = 0 THEN 0
                            ELSE IF h[Parent(i) + 1].timeout <= event.timeout THEN i
                            ELSE g[Parent(i)]
    BY <2>5
  <2>7. g = [i \in D |-> g[i]]
    BY <2>4 DEF IsWalk
  <2>8. g = [i \in D |-> IF i = 0 THEN 0
                         ELSE IF h[Parent(i) + 1].timeout <= event.timeout THEN i
                         ELSE g[Parent(i)]]
    BY <2>6, <2>7
  <2> QED
    BY <2>8
<1>2. place = [i \in 0 .. MaxTimers |->
                 IF i = 0 THEN 0
                 ELSE IF h[Parent(i) + 1].timeout <= event.timeout THEN i ELSE place[Parent(i)]]
  BY <1>1, Zenon
<1>3. min_heap_push(h, event) =
        [k \in 1 .. Len(h) + 1 |->
           IF k - 1 = p THEN event
           ELSE IF k - 1 > p /\ k - 1 \in Ancestors[Len(h)] THEN h[Parent(k - 1) + 1] ELSE h[k]]
  BY Zenon DEF min_heap_push
<1> HIDE DEF place
<1>4. Len(h) \in 0 .. MaxTimers
  BY HeapIs, TimerAssumption
<1>5. /\ place[Len(h)] \in Ancestors[Len(h)]
      /\ place[Len(h)] # 0 => h[Parent(place[Len(h)]) + 1].timeout <= event.timeout
      /\ \A a \in Ancestors[Len(h)] :
           a > place[Len(h)] => ~(h[Parent(a) + 1].timeout <= event.timeout)
  BY <1>2, <1>4, PushPlace
<1> QED
  BY <1>3, <1>5

\* A push leaves a heap, of the events that were there and the new one.
LEMMA PushKeeps ==
  ASSUME NEW h, IsHeap(h), Len(h) < MaxTimers, NEW event \in Events
  PROVE  /\ IsHeap(min_heap_push(h, event)) /\ Len(min_heap_push(h, event)) = Len(h) + 1
         /\ Timeouts(min_heap_push(h, event)) = Timeouts(h) \cup {event}
<1> DEFINE n == Len(h)
           A == Ancestors[n]
           g == min_heap_push(h, event)
<1>1. /\ h \in Seq(Events) /\ n \in Nat /\ DOMAIN h = 1 .. n
      /\ \A k \in 1 .. n : h[k] \in Events /\ h[k].timeout \in Nat
  BY HeapIs
<1>2. event.timeout \in Nat
  BY DEF Events
<1>3. IsPath(n, A)
  BY <1>1, AncestorsArePath, TimerAssumption
<1>4. PICK p \in A :
        /\ g = [k \in 1 .. n + 1 |->
                  IF k - 1 = p THEN event
                  ELSE IF k - 1 > p /\ k - 1 \in A THEN h[Parent(k - 1) + 1] ELSE h[k]]
        /\ p # 0 => h[Parent(p) + 1].timeout <= event.timeout
        /\ \A a \in A : a > p => ~(h[Parent(a) + 1].timeout <= event.timeout)
  BY PushIs
<1>5. n \in A /\ A \subseteq 0 .. n /\ p \in 0 .. n
  BY <1>3, <1>4 DEF IsPath
<1>6. \A i \in 0 .. n - 1 : h[i + 1] \in Events /\ h[i + 1].timeout \in Nat
  BY <1>1
<1>7. \A i \in 1 .. n : i \in Nat /\ i # 0 /\ Parent(i) \in 0 .. n - 1 /\ Parent(i) < i
  BY <1>1, ParentIs
<1> DEFINE At(i) == IF i = p THEN event
                    ELSE IF i > p /\ i \in A THEN h[Parent(i) + 1] ELSE h[i + 1]
<1>8. ASSUME NEW i \in 0 .. n
      PROVE  g[i + 1] = At(i)
  <2>1. i + 1 \in 1 .. n + 1 /\ (i + 1) - 1 = i
    BY <1>1
  <2> QED
    BY <1>4, <2>1
<1>9. ASSUME NEW i \in 0 .. n
      PROVE  At(i) \in Events
  <2>1. n \in Nat /\ i \in 0 .. n /\ p \in 0 .. n /\ n \in A
    BY <1>1, <1>5
  <2>2. i > p /\ i \in A => i \in 1 .. n
    BY <1>5
  <2>3. i = n => i \in A /\ (i = p \/ i > p)
    BY ONLY <2>1
  <2>4. i # n => i \in 0 .. n - 1
    BY ONLY <2>1
  <2> QED
    BY <1>6, <1>7, <2>1, <2>2, <2>3, <2>4
<1>10. DOMAIN g = 1 .. n + 1 /\ g = [k \in 1 .. n + 1 |-> g[k]]
  BY <1>4
<1>11. \A k \in 1 .. n + 1 : k - 1 \in 0 .. n /\ (k - 1) + 1 = k
  BY <1>1
<1> HIDE DEF g
<1>12. \A k \in 1 .. n + 1 : g[k] = At(k - 1) /\ g[k] \in Events
  <2> HIDE DEF At
  <2> TAKE k \in 1 .. n + 1
  <2>1. g[(k - 1) + 1] = At(k - 1) /\ At(k - 1) \in Events /\ (k - 1) + 1 = k
    BY <1>8, <1>9, <1>11
  <2> QED
    BY <2>1
<1>13. g \in Seq(Events) /\ Len(g) = n + 1
  <2>1. n + 1 \in Nat /\ g \in [1 .. n + 1 -> Events]
    BY <1>1, <1>10, <1>12
  <2> QED
    BY <2>1
<1>14. ASSUME NEW i \in 1 .. n
       PROVE  At(Parent(i)).timeout <= At(i).timeout
  <2> DEFINE q == Parent(i)
  <2>0. i \in 0 .. n /\ i # 0 /\ q \in 0 .. n - 1 /\ q < i /\ h[q + 1].timeout \in Nat
    BY <1>1, <1>6, <1>7
  <2>1. i # n => h[i + 1].timeout \in Nat /\ h[q + 1].timeout <= h[i + 1].timeout
    <3>0. n \in Nat
      BY <1>1
    <3>1. i # n => i \in 0 .. n - 1 /\ i \in 1 .. n - 1
      BY ONLY <3>0, i \in 1 .. n
    <3> QED
      BY <1>6, <3>1 DEF IsHeap
  <2>2. q > p /\ q \in A => /\ h[Parent(q) + 1].timeout \in Nat
                            /\ h[Parent(q) + 1].timeout <= h[q + 1].timeout
    <3>1. q > p /\ q \in A => q \in 1 .. n /\ q \in 1 .. n - 1
      BY <1>1, <1>5, <2>0
    <3> QED
      BY <1>6, <1>7, <3>1 DEF IsHeap
  <2>3. q = p => event.timeout <= h[q + 1].timeout
    <3> SUFFICES ASSUME q = p
                 PROVE  event.timeout <= h[q + 1].timeout
      OBVIOUS
    <3>1. p \in A /\ p # n
      BY <1>1, <2>0
    <3>2. PICK b \in A : b # 0 /\ Parent(b) = p
      BY <1>3, <3>1 DEF IsPath
    <3>3. b > p
      BY <1>5, <3>2, ParentIs
    <3> QED
      BY <1>2, <1>4, <2>0, <3>2, <3>3
  <2>4. CASE i = p
    <3>1. ~(q > p) /\ q # p
      BY <1>5, <2>0, <2>4
    <3> QED
      BY <1>4, <2>0, <2>4, <3>1
  <2>5. CASE i # p /\ i > p /\ i \in A
    <3>1. q \in A /\ q >= p
      BY <1>3, <2>0, <2>5 DEF IsPath
    <3>2. At(i) = h[q + 1]
      BY <2>5
    <3>3. CASE q = p
      BY <2>3, <3>2, <3>3
    <3>4. CASE q # p
      <4>1. q > p
        BY <1>5, <2>0, <3>1, <3>4
      <4> QED
        BY <2>2, <3>1, <3>2, <3>4, <4>1
    <3> QED
      BY <3>3, <3>4
  <2>6. CASE i # p /\ ~(i > p /\ i \in A)
    <3>0. n \in A /\ p \in Nat /\ n \in Nat /\ p <= n
      BY <1>1, <1>5
    <3>1. i # n
      BY ONLY <2>6, <3>0
    <3>2. At(i) = h[i + 1]
      BY <2>6
    <3>3. CASE q = p
      BY <1>2, <2>0, <2>1, <2>3, <3>1, <3>2, <3>3
    <3>4. CASE q # p /\ q > p /\ q \in A
      BY <2>0, <2>1, <2>2, <3>1, <3>2, <3>4
    <3>5. CASE q # p /\ ~(q > p /\ q \in A)
      BY <2>1, <3>1, <3>2, <3>5
    <3> QED
      BY <3>3, <3>4, <3>5
  <2> QED
    BY <2>4, <2>5, <2>6
<1>15. IsHeap(g)
  <2>1. ASSUME NEW i \in 1 .. Len(g) - 1
        PROVE  g[Parent(i) + 1].timeout <= g[i + 1].timeout
    <3> HIDE DEF At
    <3>1. i \in 1 .. n
      BY <1>1, <1>13
    <3>2. i \in 0 .. n /\ Parent(i) \in 0 .. n
      BY <1>1, <1>7, <3>1
    <3> QED
      BY <1>8, <1>14, <3>1, <3>2
  <2> QED
    BY <1>13, <2>1 DEF IsHeap
<1>16. Timeouts(g) = Timeouts(h) \cup {event}
  <2>1. Timeouts(g) = {g[k] : k \in 1 .. n + 1} /\ Timeouts(h) = {h[k] : k \in 1 .. n}
    BY <1>1, <1>10 DEF Timeouts
  <2>2. ASSUME NEW k \in 1 .. n + 1
        PROVE  g[k] = event \/ \E j \in 1 .. n : g[k] = h[j]
    <3>1. g[k] = At(k - 1) /\ k - 1 \in 0 .. n
      BY <1>11, <1>12
    <3>2. CASE k - 1 = p
      BY <3>1, <3>2
    <3>3. CASE k - 1 # p /\ k - 1 > p /\ k - 1 \in A
      <4>1. k - 1 \in 1 .. n
        BY <1>5, <3>1, <3>3
      <4>2. Parent(k - 1) + 1 \in 1 .. n
        BY <1>1, <1>7, <4>1, SMTT(60)
      <4> QED
        BY <3>1, <3>3, <4>2
    <3>4. CASE k - 1 # p /\ ~(k - 1 > p /\ k - 1 \in A)
      <4>1. k - 1 # n
        BY <1>1, <1>5, <3>4
      <4>2. k \in 1 .. n /\ (k - 1) + 1 = k
        BY <1>1, <4>1
      <4> QED
        BY <3>1, <3>4, <4>2
    <3> QED
      BY <3>2, <3>3, <3>4
  <2>3. \E k \in 1 .. n + 1 : g[k] = event
    <3>1. p + 1 \in 1 .. n + 1 /\ g[p + 1] = At(p)
      BY <1>1, <1>5, <1>8
    <3> QED
      BY <3>1
  <2>4. ASSUME NEW j \in 1 .. n
        PROVE  \E k \in 1 .. n + 1 : g[k] = h[j]
    <3> DEFINE i == j - 1
    <3>0. i \in 0 .. n /\ i # n /\ i + 1 = j /\ j \in 1 .. n + 1
      BY <1>1
    <3>1. CASE i \in A /\ ~(i < p)
      <4>1. PICK b \in A : b # 0 /\ Parent(b) = i
        BY <1>3, <3>0, <3>1 DEF IsPath
      <4>2. b \in 0 .. n /\ b > p /\ b # p /\ b + 1 \in 1 .. n + 1
        <5>1. b \in 0 .. n /\ i < b
          BY <1>5, <4>1, ParentIs
        <5> QED
          BY <1>1, <1>5, <3>0, <3>1, <5>1
      <4>3. At(b) = h[j]
        BY <3>0, <4>1, <4>2
      <4>4. g[b + 1] = h[j]
        BY <1>8, <4>2, <4>3
      <4> QED
        BY <4>2, <4>4
    <3>2. CASE ~(i \in A /\ ~(i < p))
      <4>1. At(i) = h[j]
        BY <1>4, <1>5, <3>0, <3>2
      <4>2. g[j] = h[j]
        BY <1>8, <3>0, <4>1
      <4> QED
        BY <3>0, <4>2
    <3> QED
      BY <3>1, <3>2
  <2> QED
    BY <2>1, <2>2, <2>3, <2>4
<1> QED
  BY <1>13, <1>15, <1>16 DEF g

-----------------------------------------------------------------------------
\* nx leads from a place of a heap of n events to the earlier of those below it.
IsDown(h, n, nx) ==
  \A i \in 0 .. n - 1 : 2 * i + 1 < n =>
    /\ nx[i] \in 1 .. n - 1 /\ Parent(nx[i]) = i /\ nx[i] > i
    /\ \A c \in 1 .. n - 1 : Parent(c) = i => h[nx[i] + 1].timeout <= h[c + 1].timeout

\* The places the event passes on its way down.
Passed(h, n, event, nx, A, j) ==
  2 * j + 1 < n /\ nx[j] \in A /\ ~(h[nx[j] + 1].timeout >= event.timeout)

\* The equation of Sunk for the place where the event ends.
IsPlace(place, h, n, event, nx) ==
  place = [i \in 0 .. MaxTimers * 2 |->
             IF 2 * i + 1 >= n THEN i
             ELSE IF h[nx[i] + 1].timeout >= event.timeout THEN i ELSE place[nx[i]]]

\* The place from which the event goes no further down, and what lies on the way to it.
LEMMA PopPlace ==
  ASSUME NEW h, NEW n \in Nat, n # 0, n <= MaxTimers, NEW event, NEW nx, IsDown(h, n, nx),
         NEW place, IsPlace(place, h, n, event, nx)
  PROVE  /\ place[0] \in 0 .. n - 1
         /\ 2 * place[0] + 1 < n => h[nx[place[0]] + 1].timeout >= event.timeout
         /\ \A j \in Ancestors[place[0]] :
              j = place[0] \/ Passed(h, n, event, nx, Ancestors[place[0]], j)
<1> DEFINE Rests(i) ==
             /\ place[i] \in 0 .. n - 1 /\ i \in Ancestors[place[i]]
             /\ 2 * place[i] + 1 < n => h[nx[place[i]] + 1].timeout >= event.timeout
             /\ \A j \in Ancestors[place[i]] :
                  \/ j = place[i] \/ (j \in Ancestors[i] /\ j # i)
                  \/ Passed(h, n, event, nx, Ancestors[place[i]], j)
           S == {k \in Nat : \A i \in 0 .. n - 1 : n - 1 - i <= k => Rests(i)}
<1>0. MaxTimers \in Nat /\ \A i \in 0 .. n - 1 : i \in 0 .. MaxTimers /\ i \in 0 .. MaxTimers * 2
  BY TimerAssumption
<1>1. \A i \in 0 .. n - 1 :
        place[i] = IF 2 * i + 1 >= n THEN i
                   ELSE IF h[nx[i] + 1].timeout >= event.timeout THEN i ELSE place[nx[i]]
  BY <1>0 DEF IsPlace
<1>2. \A i \in 0 .. n - 1 :
        /\ Ancestors[i] = IF i = 0 THEN {0} ELSE {i} \cup Ancestors[Parent(i)]
        /\ i \in Ancestors[i]
  BY <1>0, AncestorsIs, AncestorsArePath DEF IsPath
<1> HIDE DEF S
<1>3. ASSUME NEW i \in 0 .. n - 1, 2 * i + 1 >= n \/ Rests(nx[i])
      PROVE  Rests(i)
  <2>0. i \in Nat
    OBVIOUS
  <2>1. CASE 2 * i + 1 >= n
    <3>1. place[i] = i /\ ~(2 * i + 1 < n)
      BY <1>1, <2>0, <2>1
    <3> QED
      BY <1>2, <3>1
  <2>2. CASE ~(2 * i + 1 >= n) /\ h[nx[i] + 1].timeout >= event.timeout
    <3>1. place[i] = i
      BY <1>1, <2>2
    <3> QED
      BY <1>2, <2>2, <3>1
  <2>3. CASE ~(2 * i + 1 >= n) /\ ~(h[nx[i] + 1].timeout >= event.timeout)
    <3>0. place[i] = place[nx[i]]
      BY <1>1, <2>3
    <3>9. 2 * i + 1 < n
      BY <2>0, <2>3
    <3>1. place[i] = place[nx[i]] /\ 2 * i + 1 < n
      BY <3>0, <3>9
    <3>2. nx[i] \in 1 .. n - 1 /\ nx[i] \in 0 .. n - 1 /\ nx[i] # 0 /\ Parent(nx[i]) = i
      BY <3>1 DEF IsDown
    <3>3. Ancestors[nx[i]] = {nx[i]} \cup Ancestors[i]
      BY <1>2, <3>2
    <3>4. Rests(nx[i])
      BY <1>3, <2>3
    <3> DEFINE p == place[nx[i]]
    <3>5. /\ p \in 0 .. n - 1 /\ nx[i] \in Ancestors[p]
          /\ 2 * p + 1 < n => h[nx[p] + 1].timeout >= event.timeout
          /\ \A j \in Ancestors[p] : \/ j = p \/ (j \in Ancestors[nx[i]] /\ j # nx[i])
                                     \/ Passed(h, n, event, nx, Ancestors[p], j)
      BY <3>4
    <3> HIDE DEF Rests
    <3>6. i \in Ancestors[p]
      <4>1. IsPath(p, Ancestors[p])
        BY <1>0, <3>5, AncestorsArePath
      <4> QED
        BY <3>2, <3>5, <4>1 DEF IsPath
    <3>7. Passed(h, n, event, nx, Ancestors[p], i)
      BY <2>3, <3>1, <3>5 DEF Passed
    <3>8. \A j \in Ancestors[p] : \/ j = p \/ (j \in Ancestors[i] /\ j # i)
                                  \/ Passed(h, n, event, nx, Ancestors[p], j)
      BY <3>3, <3>5, <3>7
    <3> QED
      BY <3>1, <3>5, <3>6, <3>8 DEF Rests
  <2> QED
    BY <2>1, <2>2, <2>3
<1> HIDE DEF Rests
<1>4. 0 \in S
  <2>1. \A i \in 0 .. n - 1 : n - 1 - i <= 0 => 2 * i + 1 >= n
    OBVIOUS
  <2> QED
    BY <1>3, <2>1 DEF S
<1>5. ASSUME NEW k \in Nat, k \in S
      PROVE  k + 1 \in S
  <2> SUFFICES ASSUME NEW i \in 0 .. n - 1, n - 1 - i <= k + 1
               PROVE  Rests(i)
    BY DEF S
  <2>1. CASE 2 * i + 1 >= n
    BY <1>3, <2>1
  <2>2. CASE 2 * i + 1 < n
    <3>1. nx[i] \in 0 .. n - 1 /\ nx[i] > i
      BY <2>2 DEF IsDown
    <3>2. n - 1 - nx[i] <= k
      BY <3>1
    <3>3. Rests(nx[i])
      BY <1>5, <3>1, <3>2 DEF S
    <3> QED
      BY <1>3, <3>3
  <2> QED
    BY <2>1, <2>2
<1>6. n \in S
  BY <1>4, <1>5, SetInduction
<1>7. Rests(0)
  BY <1>6 DEF S
<1>8. Ancestors[0] = {0}
  <2>1. 0 \in 0 .. n - 1
    OBVIOUS
  <2> QED
    BY <1>2, <2>1
<1> QED
  BY <1>7, <1>8 DEF Rests

\* min_heap_pop takes the earlier place below.
LEMMA PopGoesDown ==
  ASSUME NEW h, IsHeap(h), Len(h) <= MaxTimers, NEW n, n = Len(h) - 1, NEW nx,
         nx = [i \in 0 .. MaxTimers |->
                 IF 2 * i + 2 < Len(h) - 1 /\ h[2 * i + 3].timeout < h[2 * i + 2].timeout
                 THEN 2 * i + 2 ELSE 2 * i + 1]
  PROVE  IsDown(h, n, nx)
<1>1. /\ Len(h) \in Nat /\ n \in Int /\ MaxTimers \in Nat
      /\ \A k \in 1 .. Len(h) : h[k].timeout \in Nat
  BY HeapIs, TimerAssumption
<1> SUFFICES ASSUME NEW i \in 0 .. n - 1, 2 * i + 1 < n
             PROVE  /\ nx[i] \in 1 .. n - 1 /\ Parent(nx[i]) = i /\ nx[i] > i
                    /\ \A c \in 1 .. n - 1 :
                         Parent(c) = i => h[nx[i] + 1].timeout <= h[c + 1].timeout
  BY DEF IsDown
<1>2. i \in 0 .. MaxTimers /\ i \in Nat
  BY <1>1
<1>3. nx[i] = IF 2 * i + 2 < n /\ h[2 * i + 3].timeout < h[2 * i + 2].timeout
              THEN 2 * i + 2 ELSE 2 * i + 1
  BY <1>2
<1>4. nx[i] \in 1 .. n - 1 /\ Parent(nx[i]) = i /\ nx[i] > i
  <2>1. nx[i] = 2 * i + 1 \/ (nx[i] = 2 * i + 2 /\ 2 * i + 2 < n)
    BY <1>3
  <2>2. Parent(nx[i]) = i
    BY <1>2, <2>1, ParentOfChild
  <2>3. nx[i] \in 1 .. n - 1 /\ nx[i] > i
    BY <1>1, <1>2, <2>1
  <2> QED
    BY <2>2, <2>3
<1>5. ASSUME NEW c \in 1 .. n - 1, Parent(c) = i
      PROVE  h[nx[i] + 1].timeout <= h[c + 1].timeout
  <2>1. c \in Nat /\ (c = 2 * i + 1 \/ c = 2 * i + 2)
    <3>1. c \in Nat /\ c # 0
      BY <1>1
    <3> QED
      BY <1>5, <3>1, ParentIs
  <2>2. c + 1 \in 1 .. Len(h) /\ 2 * i + 2 \in 1 .. Len(h)
    BY <1>1, <1>2
  <2>3. h[c + 1].timeout \in Nat /\ h[2 * i + 2].timeout \in Nat
    BY <1>1, <2>2
  <2>4. CASE c = 2 * i + 2
    <3>1. c + 1 = 2 * i + 3 /\ 2 * i + 2 < n
      BY <1>2, <2>4
    <3>2. h[2 * i + 3].timeout \in Nat
      BY <2>3, <3>1
    <3>3. (2 * i + 2) + 1 = 2 * i + 3 /\ (2 * i + 1) + 1 = 2 * i + 2
      BY <1>2
    <3>4. nx[i] + 1 = 2 * i + 3 \/ (nx[i] + 1 = 2 * i + 2
                                     /\ ~(h[2 * i + 3].timeout < h[2 * i + 2].timeout))
      BY ONLY <1>3, <3>1, <3>3
    <3>5. CASE nx[i] + 1 = 2 * i + 3
      BY ONLY <3>1, <3>2, <3>5
    <3>6. CASE nx[i] + 1 = 2 * i + 2 /\ ~(h[2 * i + 3].timeout < h[2 * i + 2].timeout)
      BY ONLY <2>3, <3>1, <3>2, <3>6
    <3> QED
      BY <3>4, <3>5, <3>6
  <2>5. CASE c = 2 * i + 1
    <3>1. c + 1 = 2 * i + 2
      BY <1>2, <2>5
    <3>2. 2 * i + 2 < n => 2 * i + 3 \in 1 .. Len(h)
      BY <1>1, <1>2
    <3>3. 2 * i + 2 < n => h[2 * i + 3].timeout \in Nat
      BY <1>1, <3>2
    <3>4. (2 * i + 2) + 1 = 2 * i + 3 /\ (2 * i + 1) + 1 = 2 * i + 2
      BY <1>2
    <3> QED
      BY <1>3, <2>3, <3>1, <3>3, <3>4
  <2> QED
    BY <2>1, <2>4, <2>5
<1> QED
  BY <1>4, <1>5

\* The first event is taken: where the last one goes and which places move up.
LEMMA PopIs ==
  ASSUME NEW h, IsHeap(h), Len(h) <= MaxTimers, NEW n \in Nat, n = Len(h) - 1, n # 0
  PROVE  \E nx, p :
           /\ IsDown(h, n, nx) /\ p \in 0 .. n - 1
           /\ min_heap_pop(h) = [k \in 1 .. n |->
                                   IF k - 1 = p THEN h[Len(h)]
                                   ELSE IF k - 1 \in Ancestors[p] THEN h[nx[k - 1] + 1] ELSE h[k]]
           /\ 2 * p + 1 < n => h[nx[p] + 1].timeout >= h[Len(h)].timeout
           /\ \A j \in Ancestors[p] : j = p \/ Passed(h, n, h[Len(h)], nx, Ancestors[p], j)
<1> DEFINE nx == [i \in 0 .. MaxTimers |->
                    IF 2 * i + 2 < Len(h) - 1 /\ h[2 * i + 3].timeout < h[2 * i + 2].timeout
                    THEN 2 * i + 2 ELSE 2 * i + 1]
           event == h[Len(h)]
           D == 0 .. MaxTimers * 2
           place[i \in 0 .. MaxTimers * 2] ==
             IF 2 * i + 1 >= Len(h) - 1 THEN i
             ELSE IF h[nx[i] + 1].timeout >= h[Len(h)].timeout THEN i ELSE place[nx[i]]
           p == place[0]
<1>1. IsDown(h, n, nx)
  BY PopGoesDown
<1>2. n <= MaxTimers /\ MaxTimers \in Nat /\ Len(h) \in Nat
  BY HeapIs, TimerAssumption
<1>3. \E g : g = [i \in 0 .. MaxTimers * 2 |->
                    IF 2 * i + 1 >= Len(h) - 1 THEN i
                    ELSE IF h[nx[i] + 1].timeout >= h[Len(h)].timeout THEN i ELSE g[nx[i]]]
  <2> HIDE DEF nx
  <2> DEFINE Stop == {i \in D : 2 * i + 1 >= Len(h) - 1
                                  \/ h[nx[i] + 1].timeout >= h[Len(h)].timeout}
             m == MaxTimers * 2
             r == [i \in D |-> m - i]
  <2>1. m \in Nat /\ r \in [D -> 0 .. m]
    BY <1>2
  <2>2. \A i \in D \ Stop : nx[i] \in D /\ r[nx[i]] < r[i]
    <3> TAKE i \in D \ Stop
    <3>1. i \in Nat /\ i \in 0 .. n - 1 /\ 2 * i + 1 < n
      BY <1>2
    <3>2. nx[i] \in 1 .. n - 1 /\ nx[i] > i
      BY <1>1, <3>1 DEF IsDown
    <3>3. nx[i] \in D /\ i \in D /\ m - nx[i] < m - i
      BY <1>2, <3>1, <3>2, SMTT(60)
    <3> QED
      BY <3>3
  <2>3. PICK g : IsWalk(g, D, Stop, nx)
    <3> HIDE DEF D, Stop, r, m
    <3> QED
      BY <2>1, <2>2, WalkExists
  <2>4. \A i \in D : g[i] = IF i \in Stop THEN i ELSE g[nx[i]]
    BY <2>3 DEF IsWalk
  <2>5. \A i \in D : g[i] = IF 2 * i + 1 >= Len(h) - 1 THEN i
                            ELSE IF h[nx[i] + 1].timeout >= h[Len(h)].timeout THEN i
                            ELSE g[nx[i]]
    BY <2>4
  <2>6. g = [i \in D |-> g[i]]
    BY <2>3 DEF IsWalk
  <2>7. g = [i \in D |-> IF 2 * i + 1 >= Len(h) - 1 THEN i
                         ELSE IF h[nx[i] + 1].timeout >= h[Len(h)].timeout THEN i
                         ELSE g[nx[i]]]
    BY <2>5, <2>6
  <2> QED
    BY <2>7
<1>4. place = [i \in 0 .. MaxTimers * 2 |->
                 IF 2 * i + 1 >= Len(h) - 1 THEN i
                 ELSE IF h[nx[i] + 1].timeout >= h[Len(h)].timeout THEN i ELSE place[nx[i]]]
  <2> HIDE DEF nx
  <2> QED
    BY <1>3, Zenon
<1>5. min_heap_pop(h) = [k \in 1 .. Len(h) - 1 |->
                           IF k - 1 = p THEN h[Len(h)]
                           ELSE IF k - 1 \in Ancestors[p] THEN h[nx[k - 1] + 1] ELSE h[k]]
  BY Zenon DEF min_heap_pop, Sunk
<1> HIDE DEF place, nx
<1>6. /\ place[0] \in 0 .. n - 1
      /\ 2 * place[0] + 1 < n => h[nx[place[0]] + 1].timeout >= event.timeout
      /\ \A j \in Ancestors[place[0]] :
           j = place[0] \/ Passed(h, n, event, nx, Ancestors[place[0]], j)
  <2>1. IsPlace(place, h, n, event, nx)
    BY <1>4 DEF IsPlace
  <2> HIDE DEF event
  <2> QED
    BY <1>1, <1>2, <2>1, PopPlace
<1> QED
  BY <1>1, <1>5, <1>6

\* A pop leaves a heap of the events that were there but for the first.
LEMMA PopKeeps ==
  ASSUME NEW h, IsHeap(h), Len(h) <= MaxTimers, h # <<>>
  PROVE  /\ IsHeap(min_heap_pop(h)) /\ Len(min_heap_pop(h)) = Len(h) - 1
         /\ Timeouts(h) = {h[1]} \cup Timeouts(min_heap_pop(h))
<1> DEFINE n == Len(h) - 1
           g == min_heap_pop(h)
           event == h[Len(h)]
<1>1. /\ h \in Seq(Events) /\ Len(h) \in Nat /\ n \in Nat /\ DOMAIN h = 1 .. n + 1
      /\ Len(h) = n + 1 /\ n < MaxTimers /\ MaxTimers \in Nat
      /\ \A k \in 1 .. n + 1 : h[k] \in Events /\ h[k].timeout \in Nat
  <2>1. /\ h \in Seq(Events) /\ Len(h) \in Nat /\ DOMAIN h = 1 .. Len(h)
        /\ \A k \in 1 .. Len(h) : h[k] \in Events /\ h[k].timeout \in Nat
    BY HeapIs
  <2>2. Len(h) # 0
    BY <2>1
  <2>3. n \in Nat /\ n + 1 = Len(h) /\ n < MaxTimers /\ MaxTimers \in Nat
    BY <2>1, <2>2, TimerAssumption
  <2> QED
    BY <2>1, <2>3
<1>2. CASE n = 0
  <2>1. DOMAIN g = {} /\ g = [k \in {} |-> g[k]]
    <3> DEFINE nx == [i \in 0 .. MaxTimers |->
                        IF 2 * i + 2 < Len(h) - 1 /\ h[2 * i + 3].timeout < h[2 * i + 2].timeout
                        THEN 2 * i + 2 ELSE 2 * i + 1]
               place[i \in 0 .. MaxTimers * 2] ==
                 IF 2 * i + 1 >= Len(h) - 1 THEN i
                 ELSE IF h[nx[i] + 1].timeout >= h[Len(h)].timeout THEN i ELSE place[nx[i]]
               p == place[0]
    <3>0. g = [k \in 1 .. Len(h) - 1 |->
                 IF k - 1 = p THEN h[Len(h)]
                 ELSE IF k - 1 \in Ancestors[p] THEN h[nx[k - 1] + 1] ELSE h[k]]
      BY Zenon DEF min_heap_pop, Sunk
    <3> HIDE DEF g, place, nx
    <3>1. DOMAIN g = 1 .. Len(h) - 1 /\ g = [k \in 1 .. Len(h) - 1 |-> g[k]]
      BY <3>0
    <3>2. 1 .. Len(h) - 1 = {}
      <4>1. 1 .. Len(h) - 1 = 1 .. 0
        BY <1>2
      <4> QED
        BY ONLY <4>1
    <3> QED
      BY <3>1, <3>2
  <2> HIDE DEF g
  <2>2. g = <<>> /\ Len(g) = 0 /\ g \in Seq(Events)
    BY <2>1
  <2>3. IsHeap(g)
    BY <2>2 DEF IsHeap
  <2>4. Timeouts(h) = {h[1]} /\ Timeouts(g) = {}
    <3>1. DOMAIN h = {1}
      <4>1. DOMAIN h = 1 .. 0 + 1
        BY <1>1, <1>2
      <4> QED
        BY ONLY <4>1
    <3> QED
      BY <2>1, <3>1 DEF Timeouts
  <2> QED
    BY <1>1, <1>2, <2>2, <2>3, <2>4 DEF g
<1>3. CASE n # 0
  <2>1. PICK nx, p :
          /\ IsDown(h, n, nx) /\ p \in 0 .. n - 1
          /\ g = [k \in 1 .. n |->
                    IF k - 1 = p THEN event
                    ELSE IF k - 1 \in Ancestors[p] THEN h[nx[k - 1] + 1] ELSE h[k]]
          /\ 2 * p + 1 < n => h[nx[p] + 1].timeout >= event.timeout
          /\ \A j \in Ancestors[p] : j = p \/ Passed(h, n, event, nx, Ancestors[p], j)
    BY <1>1, <1>3, PopIs
  <2> DEFINE A == Ancestors[p]
             At(i) == IF i = p THEN event ELSE IF i \in A THEN h[nx[i] + 1] ELSE h[i + 1]
  <2>2. IsPath(p, A) /\ p \in A /\ 0 \in A /\ A \subseteq 0 .. p
    <3>1. p \in 0 .. MaxTimers
      BY <1>1, <2>1
    <3> QED
      BY <3>1, AncestorsArePath DEF IsPath
  <2>3. \A i \in 0 .. n - 1 : i \in Nat /\ g[i + 1] = At(i)
    <3> TAKE i \in 0 .. n - 1
    <3>1. i + 1 \in 1 .. n /\ (i + 1) - 1 = i /\ i \in Nat
      BY <1>1
    <3> QED
      BY <2>1, <3>1
  <2>4. DOMAIN g = 1 .. n /\ g = [k \in 1 .. n |-> g[k]]
    BY <2>1
  <2> HIDE DEF g
  \* The places that move: below each of them the way goes on.
  <2>5. ASSUME NEW j \in A, j # p
        PROVE  /\ j \in 0 .. n - 1 /\ 2 * j + 1 < n /\ nx[j] \in A /\ nx[j] \in 1 .. n - 1
               /\ Parent(nx[j]) = j /\ h[nx[j] + 1].timeout < event.timeout
               /\ \A c \in 1 .. n - 1 : Parent(c) = j => h[nx[j] + 1].timeout <= h[c + 1].timeout
    <3>1. j \in 0 .. n - 1
      BY <1>1, <2>1, <2>2
    <3>2. 2 * j + 1 < n /\ nx[j] \in A /\ ~(h[nx[j] + 1].timeout >= event.timeout)
      BY <2>1, <2>5 DEF Passed
    <3>3. /\ nx[j] \in 1 .. n - 1 /\ Parent(nx[j]) = j
          /\ \A c \in 1 .. n - 1 : Parent(c) = j => h[nx[j] + 1].timeout <= h[c + 1].timeout
      BY <2>1, <3>1, <3>2 DEF IsDown
    <3>4. h[nx[j] + 1].timeout \in Nat /\ event.timeout \in Nat
      <4>1. nx[j] + 1 \in 1 .. n + 1 /\ Len(h) \in 1 .. n + 1
        BY <1>1, <3>3
      <4> QED
        BY <1>1, <4>1
    <3> QED
      BY <3>1, <3>2, <3>3, <3>4
  <2>6. \A i \in 0 .. n : h[i + 1] \in Events /\ h[i + 1].timeout \in Nat
    BY <1>1
  <2>7. event = h[n + 1] /\ event \in Events /\ event.timeout \in Nat
    BY <1>1, <2>6
  <2>8. ASSUME NEW i \in 0 .. n - 1
        PROVE  \E j \in 1 .. n : At(i) = h[j + 1]
    <3>1. n \in 1 .. n
      BY <1>1, <1>3
    <3>2. CASE i = p
      BY <2>7, <3>1, <3>2
    <3>3. CASE i # p /\ i \in A
      <4>1. nx[i] \in 1 .. n
        BY <1>1, <2>5, <3>3
      <4> QED
        BY <3>3, <4>1
    <3>4. CASE i # p /\ i \notin A
      <4>1. i \in 1 .. n
        BY <1>1, <2>2, <3>4
      <4> QED
        BY <3>4, <4>1
    <3> QED
      BY <3>2, <3>3, <3>4
  <2>9. \A k \in 1 .. n : k - 1 \in 0 .. n - 1 /\ (k - 1) + 1 = k
    BY <1>1
  <2>10. \A k \in 1 .. n : g[k] = At(k - 1) /\ \E j \in 1 .. n : g[k] = h[j + 1]
    <3> HIDE DEF At
    <3> TAKE k \in 1 .. n
    <3>1. g[(k - 1) + 1] = At(k - 1) /\ (k - 1) + 1 = k /\ \E j \in 1 .. n : At(k - 1) = h[j + 1]
      BY <2>3, <2>8, <2>9
    <3> QED
      BY <3>1
  <2>11. g \in Seq(Events) /\ Len(g) = n
    <3>1. \A j \in 1 .. n : j \in 0 .. n
      BY <1>1
    <3>2. g \in [1 .. n -> Events]
      BY <2>4, <2>6, <2>10, <3>1
    <3>3. n \in Nat
      BY <1>1
    <3> QED
      BY ONLY <3>2, <3>3
  <2>12. ASSUME NEW i \in 1 .. n - 1
         PROVE  At(Parent(i)).timeout <= At(i).timeout
    <3> DEFINE q == Parent(i)
    <3>0. /\ i \in Nat /\ i # 0 /\ i \in 0 .. n - 1 /\ i \in 0 .. n /\ q \in 0 .. n - 1 /\ q < i
          /\ h[i + 1].timeout \in Nat /\ h[q + 1].timeout \in Nat
      <4>1. i \in Nat /\ i # 0 /\ i \in 0 .. n - 1 /\ i \in 0 .. n
        BY <1>1
      <4>2. q \in 0 .. n - 1 /\ q < i /\ q \in 0 .. n
        BY <1>1, <4>1, ParentIs
      <4> QED
        BY <2>6, <4>1, <4>2
    <3>1. h[q + 1].timeout <= h[i + 1].timeout
      <4>1. i \in 1 .. Len(h) - 1
        BY <1>1
      <4> QED
        BY <4>1 DEF IsHeap
    <3>2. i \in A => q \in A /\ q # p
      BY <2>2, <3>0 DEF IsPath
    <3>3. CASE i = p
      <4>1. At(q) = h[nx[q] + 1] /\ At(i) = event /\ h[nx[q] + 1].timeout < event.timeout
        BY <2>2, <2>5, <3>2, <3>3
      <4>2. nx[q] \in 0 .. n
        BY <1>1, <2>2, <2>5, <3>2, <3>3
      <4> QED
        BY <2>6, <2>7, <4>1, <4>2, SMTT(60)
    <3>4. CASE i # p /\ i \in A
      <4>1. nx[q] \in A /\ nx[q] # 0 /\ Parent(nx[q]) = q
        BY <1>1, <2>5, <3>2, <3>4
      <4>2. nx[q] = i
        BY <2>1, <2>2, <3>0, <3>4, <4>1, OneBelow
      <4>3. At(q) = h[i + 1] /\ At(i) = h[nx[i] + 1]
        BY <3>2, <3>4, <4>2
      <4>4. nx[i] \in 1 .. Len(h) - 1 /\ Parent(nx[i]) = i
        BY <1>1, <2>5, <3>4
      <4>5. h[i + 1].timeout <= h[nx[i] + 1].timeout
        BY <4>4 DEF IsHeap
      <4> QED
        BY <4>3, <4>5
    <3>5. CASE i # p /\ i \notin A
      <4>1. At(i) = h[i + 1]
        BY <3>5
      <4>2. CASE q = p
        <5>1. 2 * p + 1 < n
          <6>1. i = 2 * q + 1 \/ i = 2 * q + 2
            BY <3>0, ParentIs
          <6> QED
            BY <1>1, <3>0, <4>2, <6>1
        <5>2. nx[p] \in 1 .. n - 1 /\ h[nx[p] + 1].timeout <= h[i + 1].timeout
          BY <2>1, <4>2, <5>1 DEF IsDown
        <5>3. h[nx[p] + 1].timeout >= event.timeout /\ At(q) = event
          BY <2>1, <4>2, <5>1
        <5>4. h[nx[p] + 1].timeout \in Nat
          BY <1>1, <2>6, <5>2
        <5> HIDE DEF At, event
        <5>5. At(q).timeout <= h[i + 1].timeout
          BY <2>7, <3>0, <5>2, <5>3, <5>4, SMTT(60)
        <5> QED
          BY <4>1, <5>5
      <4>3. CASE q # p /\ q \in A
        BY <2>5, <4>1, <4>3
      <4>4. CASE q # p /\ q \notin A
        BY <3>1, <4>1, <4>4
      <4> QED
        BY <4>2, <4>3, <4>4
    <3> QED
      BY <2>2, <3>3, <3>4, <3>5
  <2>13. IsHeap(g)
    <3>1. ASSUME NEW i \in 1 .. Len(g) - 1
          PROVE  g[Parent(i) + 1].timeout <= g[i + 1].timeout
      <4> HIDE DEF At
      <4>1. i \in 1 .. n - 1 /\ i \in Nat /\ i # 0 /\ i \in 0 .. n - 1
        BY <1>1, <2>11
      <4>2. Parent(i) \in 0 .. n - 1
        BY <1>1, <4>1, ParentIs, SMTT(60)
      <4> QED
        BY <2>3, <2>12, <4>1, <4>2
    <3> QED
      BY <2>11, <3>1 DEF IsHeap
  <2>14. ASSUME NEW j \in 1 .. n
         PROVE  \E k \in 1 .. n : g[k] = h[j + 1]
    <3>1. CASE j = n
      <4>1. p + 1 \in 1 .. n /\ g[p + 1] = At(p)
        BY <1>1, <2>1, <2>3
      <4> QED
        BY <2>7, <3>1, <4>1
    <3>2. CASE j # n /\ j \in A
      <4> DEFINE q == Parent(j)
      <4>1. j \in Nat /\ j # 0 /\ q \in Nat /\ q < j
        BY <1>1, ParentIs
      <4>2. q \in A /\ q # p
        BY <2>2, <3>2, <4>1 DEF IsPath
      <4>3. nx[q] \in A /\ nx[q] # 0 /\ Parent(nx[q]) = q /\ q \in 0 .. n - 1
        BY <1>1, <2>5, <4>2
      <4>4. nx[q] = j
        BY <2>1, <2>2, <3>2, <4>1, <4>3, OneBelow
      <4>5. At(q) = h[j + 1]
        BY <4>2, <4>4
      <4>6. q + 1 \in 1 .. n /\ g[q + 1] = At(q)
        <5>1. n \in Nat /\ q \in 0 .. n - 1
          BY <1>1, <4>3
        <5>2. q + 1 \in 1 .. n
          BY ONLY <5>1
        <5> HIDE DEF At, q
        <5> QED
          BY <2>3, <5>1, <5>2
      <4> QED
        BY <4>5, <4>6
    <3>3. CASE j # n /\ j \notin A
      <4>0. n \in Nat /\ j \in 1 .. n /\ j # n
        BY <1>1, <3>3
      <4>1. j \in 0 .. n - 1 /\ j + 1 \in 1 .. n
        BY ONLY <4>0
      <4>2. At(j) = h[j + 1] /\ g[j + 1] = At(j)
        BY <2>2, <2>3, <3>3, <4>1
      <4> QED
        BY <4>1, <4>2
    <3> QED
      BY <3>1, <3>2, <3>3
  <2>15. Timeouts(h) = {h[1]} \cup Timeouts(g)
    <3>1. Timeouts(h) = {h[k] : k \in 1 .. n + 1} /\ Timeouts(g) = {g[k] : k \in 1 .. n}
      BY <1>1, <2>4 DEF Timeouts
    <3>2. \A k \in 1 .. n + 1 : k = 1 \/ (k - 1 \in 1 .. n /\ (k - 1) + 1 = k)
      BY <1>1
    <3>3. \A j \in 1 .. n : j + 1 \in 1 .. n + 1
      BY <1>1
    <3>4. 1 \in 1 .. n + 1
      BY <1>1
    <3>5. \A x \in Timeouts(g) : x \in Timeouts(h)
      BY <2>10, <3>1, <3>3
    <3>6. ASSUME NEW k \in 1 .. n + 1, k # 1
          PROVE  h[k] \in Timeouts(g)
      BY <2>14, <3>1, <3>2, <3>6
    <3> QED
      BY <3>1, <3>4, <3>5, <3>6
  <2> QED
    BY <2>11, <2>13, <2>15 DEF g
<1> QED
  BY <1>2, <1>3

-----------------------------------------------------------------------------
\* A new event is not earlier than now.
LEMMA EventIs ==
  ASSUME TimerTypes, NEW d \in Delays
  PROVE  Event(d) \in Events /\ Event(d).timeout >= now /\ Event(d).id = made
<1>1. now \in Nat /\ made \in Nat /\ d \in Nat
  BY TimerAssumption DEF TimerTypes
<1> QED
  BY <1>1 DEF Event, Events

LEMMA TimerInitInv == TimerInit => TimerInv
<1> SUFFICES ASSUME TimerInit
             PROVE  TimerInv
  OBVIOUS
<1> USE DEF TimerInit
<1>1. TimerTypes
  BY TimerAssumption DEF TimerTypes
<1>2. IsHeap(heap) /\ FiredFirst
  BY DEF IsHeap, FiredFirst
<1>3. TimersInOrder
  <2>1. Timeouts(heap) = {} /\ Timeouts(fired) = {}
    BY DEF Timeouts
  <2>2. 0 .. made - 1 = {} /\ Len(heap) + Len(fired) = made
    OBVIOUS
  <2>3. \A i \in 1 .. Len(fired) - 1 : fired[i].timeout <= fired[i + 1].timeout
    OBVIOUS
  <2>4. \A i \in DOMAIN fired : fired[i].timeout <= now
    OBVIOUS
  <2> QED
    BY <2>1, <2>2, <2>3, <2>4 DEF TimersInOrder
<1> QED
  BY <1>1, <1>2, <1>3 DEF TimerInv

\* The lengths and the members of the two sequences.
LEMMA TimerLengths ==
  ASSUME TimerInv
  PROVE  /\ Len(heap) \in Nat /\ Len(fired) \in Nat /\ made \in Nat /\ MaxTimers \in Nat
         /\ Len(heap) + Len(fired) = made /\ Len(heap) <= MaxTimers
         /\ made < MaxTimers => Len(heap) < MaxTimers
         /\ \A e \in Timeouts(heap) \cup Timeouts(fired) : e \in Events /\ e.timeout \in Nat
         /\ \A x \in Timeouts(fired), y \in Timeouts(heap) : x.timeout <= y.timeout
         /\ \A x \in Timeouts(fired) : x.timeout <= now
<1>1. heap \in Seq(Events) /\ fired \in Seq(Events) /\ made \in 0 .. MaxTimers /\ MaxTimers \in Nat
  BY TimerAssumption DEF TimerInv, TimerTypes, IsHeap
<1>2. Len(heap) \in Nat /\ Len(fired) \in Nat /\ made \in Nat
  BY <1>1
<1>3. Len(heap) + Len(fired) = made
  BY DEF TimerInv, TimersInOrder
<1>4. \A e \in Timeouts(heap) \cup Timeouts(fired) : e \in Events
  BY <1>1 DEF Timeouts
<1>5. \A e \in Events : e.timeout \in Nat
  BY DEF Events
<1>6. \A x \in Timeouts(fired), y \in Timeouts(heap) : x.timeout <= y.timeout
  BY DEF TimerInv, FiredFirst, Timeouts
<1>7. \A x \in Timeouts(fired) : x.timeout <= now
  BY DEF TimerInv, TimersInOrder, Timeouts
<1>8. Len(heap) <= MaxTimers /\ (made < MaxTimers => Len(heap) < MaxTimers)
  BY <1>1, <1>2, <1>3
<1> QED
  BY <1>1, <1>2, <1>3, <1>4, <1>5, <1>6, <1>7, <1>8

LEMMA AddInv ==
  ASSUME TimerInv, NEW d \in Delays, add_timer(d)
  PROVE  TimerInv'
<1> DEFINE e == Event(d)
<1>1. /\ now' = now /\ current_time' = current_time /\ fired' = fired /\ made' = made + 1
      /\ heap' = min_heap_push(heap, e) /\ made < MaxTimers
  BY DEF add_timer, CanAdd
<1>2. /\ Len(heap) \in Nat /\ Len(fired) \in Nat /\ made \in Nat /\ MaxTimers \in Nat
      /\ Len(heap) + Len(fired) = made /\ Len(heap) < MaxTimers
      /\ \A x \in Timeouts(heap) \cup Timeouts(fired) : x \in Events /\ x.timeout \in Nat
      /\ \A x \in Timeouts(fired), y \in Timeouts(heap) : x.timeout <= y.timeout
      /\ \A x \in Timeouts(fired) : x.timeout <= now
  BY <1>1, TimerLengths
<1>3. e \in Events /\ e.timeout >= now /\ e.id = made
  BY EventIs DEF TimerInv
<1>4. IsHeap(heap') /\ Len(heap') = Len(heap) + 1 /\ Timeouts(heap') = Timeouts(heap) \cup {e}
  BY <1>1, <1>2, <1>3, PushKeeps DEF TimerInv
<1> HIDE DEF e
<1>5. TimerTypes'
  BY <1>1, <1>2 DEF TimerInv, TimerTypes
<1>6. FiredFirst'
  <2>1. now \in Nat /\ e.timeout \in Nat
    BY <1>3 DEF TimerInv, TimerTypes, Events
  <2>2. \A x \in Timeouts(fired) : x.timeout <= e.timeout
    BY <1>2, <1>3, <2>1
  <2>3. \A x \in Timeouts(fired), y \in Timeouts(heap') : x.timeout <= y.timeout
    BY <1>2, <1>4, <2>2
  <2> QED
    BY <1>1, <2>3 DEF FiredFirst, Timeouts
<1>7. TimersInOrder'
  <2>1. Len(heap') + Len(fired') = made'
    BY <1>1, <1>2, <1>4
  <2>2. {x.id : x \in Timeouts(heap') \cup Timeouts(fired')} = 0 .. made' - 1
    <3>1. {x.id : x \in Timeouts(heap) \cup Timeouts(fired)} = 0 .. made - 1
      BY DEF TimerInv, TimersInOrder
    <3>2. 0 .. made' - 1 = (0 .. made - 1) \cup {made}
      BY <1>1, <1>2
    <3>3. Timeouts(heap') \cup Timeouts(fired') = (Timeouts(heap) \cup Timeouts(fired)) \cup {e}
      BY <1>1, <1>4
    <3> QED
      BY <1>3, <3>1, <3>2, <3>3
  <2>3. /\ \A i \in 1 .. Len(fired') - 1 : fired'[i].timeout <= fired'[i + 1].timeout
        /\ \A i \in DOMAIN fired' : fired'[i].timeout <= now'
    BY <1>1 DEF TimerInv, TimersInOrder
  <2> QED
    BY <2>1, <2>2, <2>3 DEF TimersInOrder
<1> QED
  BY <1>4, <1>5, <1>6, <1>7 DEF TimerInv

\* The first event is taken from the heap and runs.
LEMMA FirePops ==
  ASSUME TimerInv, current_time # Idle, Due,
         NEW h, h = min_heap_pop(heap), NEW f, f = Append(fired, heap[1])
  PROVE  /\ IsHeap(h) /\ Len(h) = Len(heap) - 1 /\ Len(heap) > 0
         /\ Timeouts(heap) = {heap[1]} \cup Timeouts(h)
         /\ f \in Seq(Events) /\ Len(f) = Len(fired) + 1
         /\ Timeouts(f) = Timeouts(fired) \cup {heap[1]}
         /\ \A i \in 1 .. Len(f) - 1 : f[i].timeout <= f[i + 1].timeout
         /\ \A i \in DOMAIN f : f[i].timeout <= now
         /\ \A x \in Timeouts(f), y \in Timeouts(h) : x.timeout <= y.timeout
<1> DEFINE e == heap[1]
<1>1. /\ Len(heap) \in Nat /\ Len(fired) \in Nat /\ Len(heap) <= MaxTimers
      /\ \A x \in Timeouts(heap) \cup Timeouts(fired) : x \in Events /\ x.timeout \in Nat
      /\ \A x \in Timeouts(fired), y \in Timeouts(heap) : x.timeout <= y.timeout
      /\ \A x \in Timeouts(fired) : x.timeout <= now
  BY TimerLengths
<1>2. IsHeap(heap) /\ heap \in Seq(Events) /\ DOMAIN heap = 1 .. Len(heap) /\ heap # <<>>
  BY HeapIs DEF TimerInv, Due
<1>3. Len(heap) > 0
  BY <1>1, <1>2
<1>4. e \in Timeouts(heap) /\ e \in Events /\ e.timeout \in Nat
  <2>1. 1 \in DOMAIN heap
    BY <1>1, <1>2, <1>3
  <2>2. e \in Timeouts(heap)
    BY <2>1 DEF Timeouts
  <2> QED
    BY <1>1, <2>2
<1>5. e.timeout <= now
  <2>1. current_time \in 0 .. now /\ now \in Nat
    BY DEF TimerInv, TimerTypes
  <2> QED
    BY <1>4, <2>1 DEF Due
<1>6. \A y \in Timeouts(heap) : e.timeout <= y.timeout
  BY <1>2, RootEarliest DEF Timeouts
<1>7. IsHeap(h) /\ Len(h) = Len(heap) - 1 /\ Timeouts(heap) = {e} \cup Timeouts(h)
  BY <1>1, <1>2, PopKeeps
<1>8. fired \in Seq(Events)
  BY DEF TimerInv, TimerTypes
<1> HIDE DEF e
<1>9. /\ f \in Seq(Events) /\ Len(f) = Len(fired) + 1
      /\ DOMAIN fired = 1 .. Len(fired) /\ DOMAIN f = 1 .. Len(fired) + 1
      /\ \A i \in 1 .. Len(fired) : f[i] = fired[i]
      /\ f[Len(fired) + 1] = e
  <2>1. f = Append(fired, e)
    BY DEF e
  <2> QED
    BY <1>4, <1>8, <2>1
<1>10. Timeouts(f) = Timeouts(fired) \cup {e}
  <2>1. \A i \in 1 .. Len(fired) + 1 : i = Len(fired) + 1 \/ i \in 1 .. Len(fired)
    BY <1>1
  <2>2. \A i \in 1 .. Len(fired) : i \in 1 .. Len(fired) + 1
    BY <1>1
  <2>3. Len(fired) + 1 \in 1 .. Len(fired) + 1
    BY <1>1
  <2> QED
    BY <1>9, <2>1, <2>2, <2>3 DEF Timeouts
<1>11. ASSUME NEW i \in 1 .. Len(f) - 1
       PROVE  f[i].timeout <= f[i + 1].timeout
  <2>1. i \in 1 .. Len(fired) /\ fired[i] \in Timeouts(fired)
    <3>1. i \in 1 .. Len(fired)
      BY <1>1, <1>9
    <3> QED
      BY <1>9, <3>1 DEF Timeouts
  <2>2. CASE i = Len(fired)
    BY <1>1, <1>4, <1>9, <2>1, <2>2
  <2>3. CASE i # Len(fired)
    <3>1. i \in 1 .. Len(fired) - 1 /\ i + 1 \in 1 .. Len(fired)
      BY <1>1, <2>1, <2>3
    <3> QED
      BY <1>9, <2>1, <3>1 DEF TimerInv, TimersInOrder
  <2> QED
    BY <2>2, <2>3
<1>12. \A x \in Timeouts(f) : x.timeout <= now
  BY <1>1, <1>5, <1>10
<1>13. \A i \in DOMAIN f : f[i].timeout <= now
  BY <1>12 DEF Timeouts
<1>14. \A x \in Timeouts(f), y \in Timeouts(h) : x.timeout <= y.timeout
  BY <1>1, <1>6, <1>7, <1>10
<1> QED
  BY <1>3, <1>7, <1>9, <1>10, <1>11, <1>13, <1>14 DEF e

LEMMA FireInv ==
  ASSUME TimerInv, handle_eventsFire
  PROVE  TimerInv'
<1> DEFINE h == min_heap_pop(heap)
<1>1. current_time # Idle /\ Due /\ fired' = Append(fired, heap[1]) /\ now' = now
        /\ current_time' = current_time
  BY DEF handle_eventsFire
<1>2. /\ IsHeap(h) /\ Len(h) = Len(heap) - 1 /\ Len(heap) > 0
      /\ Timeouts(heap) = {heap[1]} \cup Timeouts(h)
      /\ fired' \in Seq(Events) /\ Len(fired') = Len(fired) + 1
      /\ Timeouts(fired') = Timeouts(fired) \cup {heap[1]}
      /\ \A i \in 1 .. Len(fired') - 1 : fired'[i].timeout <= fired'[i + 1].timeout
      /\ \A i \in DOMAIN fired' : fired'[i].timeout <= now
      /\ \A x \in Timeouts(fired'), y \in Timeouts(h) : x.timeout <= y.timeout
  BY <1>1, FirePops
<1>3. /\ Len(heap) \in Nat /\ Len(fired) \in Nat /\ made \in Nat /\ MaxTimers \in Nat
      /\ Len(heap) + Len(fired) = made /\ Len(heap) <= MaxTimers
      /\ made < MaxTimers => Len(heap) < MaxTimers
      /\ \A x \in Timeouts(heap) \cup Timeouts(fired) : x \in Events /\ x.timeout \in Nat
  BY TimerLengths
<1>4. {x.id : x \in Timeouts(heap) \cup Timeouts(fired)} = 0 .. made - 1
  BY DEF TimerInv, TimersInOrder
<1>5. Timeouts(h) \cup Timeouts(fired') = Timeouts(heap) \cup Timeouts(fired)
  BY <1>2
<1> HIDE DEF h
<1>9. /\ Len(heap) \in Nat /\ Len(fired) \in Nat /\ made \in Nat /\ MaxTimers \in Nat
      /\ Len(heap) + Len(fired) = made
      /\ Len(h) = Len(heap) - 1 /\ Len(fired') = Len(fired) + 1
  BY <1>2, <1>3
\* Whatever the callback does to the heap, the rest of the invariant follows from these.
<1>6. ASSUME IsHeap(heap'), Len(heap') + Len(fired') = made', made' \in 0 .. MaxTimers,
             {x.id : x \in Timeouts(heap') \cup Timeouts(fired')} = 0 .. made' - 1,
             \A x \in Timeouts(fired'), y \in Timeouts(heap') : x.timeout <= y.timeout
      PROVE  TimerInv'
  <2>1. TimerTypes'
    BY <1>1, <1>2, <1>6 DEF TimerInv, TimerTypes
  <2>2. FiredFirst'
    BY <1>6 DEF FiredFirst, Timeouts
  <2>3. TimersInOrder'
    BY <1>1, <1>2, <1>6 DEF TimersInOrder
  <2> QED
    BY <1>6, <2>1, <2>2, <2>3 DEF TimerInv
<1>7. CASE heap' = h /\ UNCHANGED made
  <2>1. Len(heap') + Len(fired') = made' /\ made' \in 0 .. MaxTimers
    <3>1. made' \in 0 .. MaxTimers
      BY <1>7 DEF TimerInv, TimerTypes
    <3>2. Len(h) + Len(fired') = made
      BY ONLY <1>9
    <3> QED
      BY ONLY <1>7, <3>1, <3>2
  <2> QED
    BY <1>2, <1>4, <1>5, <1>6, <1>7, <2>1
<1>8. ASSUME NEW d \in Delays, CanAdd(d), heap' = min_heap_push(h, Event(d)), made' = made + 1
      PROVE  TimerInv'
  <2> DEFINE e == Event(d)
  <2>1. e \in Events /\ e.timeout >= now /\ e.id = made /\ made < MaxTimers
    BY <1>8, EventIs DEF TimerInv, CanAdd
  <2>2. Len(h) < MaxTimers
    BY <1>2, <1>3
  <2>3. IsHeap(heap') /\ Len(heap') = Len(h) + 1 /\ Timeouts(heap') = Timeouts(h) \cup {e}
    BY <1>2, <1>8, <2>1, <2>2, PushKeeps
  <2> HIDE DEF e
  <2>4. Len(heap') + Len(fired') = made' /\ made' \in 0 .. MaxTimers
    <3>1. made' \in 0 .. MaxTimers
      BY ONLY <1>8, <1>9, <2>1
    <3>2. Len(h) + 1 + Len(fired') = made + 1
      BY ONLY <1>9
    <3> QED
      BY ONLY <1>8, <2>3, <3>1, <3>2
  <2>5. {x.id : x \in Timeouts(heap') \cup Timeouts(fired')} = 0 .. made' - 1
    <3>1. Timeouts(heap') \cup Timeouts(fired') = (Timeouts(heap) \cup Timeouts(fired)) \cup {e}
      BY <1>5, <2>3
    <3>2. 0 .. made' - 1 = (0 .. made - 1) \cup {made}
      BY <1>3, <1>8
    <3> QED
      BY <1>4, <2>1, <3>1, <3>2
  <2>6. \A x \in Timeouts(fired') : x.timeout <= e.timeout
    <3>1. now \in Nat /\ e.timeout \in Nat
      BY <2>1 DEF TimerInv, TimerTypes, Events
    <3>2. \A x \in Timeouts(fired') : x.timeout \in Nat /\ x.timeout <= now
      BY <1>2, <1>3 DEF Timeouts
    <3> QED
      BY <2>1, <3>1, <3>2
  <2>7. \A x \in Timeouts(fired'), y \in Timeouts(heap') : x.timeout <= y.timeout
    BY <1>2, <2>3, <2>6
  <2> QED
    BY <1>6, <2>3, <2>4, <2>5, <2>7
<1> QED
  BY <1>7, <1>8 DEF handle_eventsFire, h

\* The steps that leave the heap and the callbacks as they are.
LEMMA TimerQuietInv ==
  ASSUME TimerInv,
         handle_eventsStart \/ handle_eventsReturn \/ Tick \/ UNCHANGED tvars
  PROVE  TimerInv'
<1>1. heap' = heap /\ made' = made /\ fired' = fired
  BY DEF handle_eventsStart, handle_eventsReturn, Tick, tvars
<1>2. now \in Nat /\ (current_time = Idle \/ current_time \in 0 .. now)
  BY DEF TimerInv, TimerTypes
<1>3. /\ now' \in Nat /\ now <= now'
      /\ current_time' = Idle \/ current_time' \in 0 .. now'
  <2>1. CASE handle_eventsStart
    BY <1>2, <2>1 DEF handle_eventsStart
  <2>2. CASE handle_eventsReturn
    BY <1>2, <2>2 DEF handle_eventsReturn
  <2>3. CASE Tick
    BY <1>2, <2>3 DEF Tick
  <2>4. CASE UNCHANGED tvars
    BY <1>2, <2>4 DEF tvars
  <2> QED
    BY <2>1, <2>2, <2>3, <2>4
<1>4. TimerTypes' /\ IsHeap(heap') /\ FiredFirst'
  BY <1>1, <1>3 DEF TimerInv, TimerTypes, FiredFirst
<1>5. TimersInOrder'
  <2>1. \A i \in DOMAIN fired : fired[i].timeout \in Nat /\ fired[i].timeout <= now
    <3>1. \A e \in Events : e.timeout \in Nat
      BY DEF Events
    <3>2. \A i \in DOMAIN fired : fired[i] \in Events
      BY DEF TimerInv, TimerTypes
    <3> QED
      BY <3>1, <3>2 DEF TimerInv, TimersInOrder
  <2>2. \A i \in DOMAIN fired' : fired'[i].timeout <= now'
    BY <1>1, <1>2, <1>3, <2>1
  <2> QED
    BY <1>1, <2>2 DEF TimerInv, TimersInOrder
<1> QED
  BY <1>4, <1>5 DEF TimerInv

LEMMA TimerInvariant == TimerSpec => []TimerInv
<1>1. TimerInv /\ [TimerNext]_tvars => TimerInv'
  BY AddInv, FireInv, TimerQuietInv DEF TimerNext, Handle
<1> QED
  BY <1>1, TimerInitInv, PTL DEF TimerSpec

\* However many timers are added, up to the 1024 that the heap has places for
\* (HeapAssumption), and with whatever delays, by the program that polls or by a callback
\* while the heap is emptied: the callbacks run in the order of their timeouts, none before
\* its own, and every timer is in the heap or has run (add_timer, handle_events,
\* min_heap_push, min_heap_pop).
THEOREM TimerTimersInOrder == TimerSpec => []TimersInOrder
<1>1. TimerInv => TimersInOrder
  BY DEF TimerInv
<1> QED
  BY <1>1, TimerInvariant, PTL

(***************************************************************************)
(* The master process: every child of the daemon has one slot of worker[], *)
(* the daemon gives up only after one of its forks failed, and a daemon    *)
(* that is asked to end while it sleeps or starts its workers leaves none  *)
(* behind.                                                                 *)
(***************************************************************************)

Records == [pc : MasterPlaces \cup WorkerPlaces \cup {"none", "zombie"},
            i : Slots, pid : Pids \cup {0}, parent : Pids \cup {0},
            worker : [Slots -> Pids \cup {0}], running : BOOLEAN]

\* The daemon's pid is its own, and only the daemon's children name it as their
\* parent; a pid that is free has no process.
Tree ==
  /\ proc[Daemon].parent = 0
  /\ proc[Daemon].pc \in MasterPlaces \cup {"none"}
  /\ \A p \in Pids : proc[p].pc = "none" => proc[p] = NoProcess
  /\ ~Live(Daemon) => Children(Daemon) = {}

\* While the daemon still forks or waits, ...
Tends(d) == d.pc \in {"launch", "fork", "store", "scan", "refork", "restore", "sleep"}

\* ... a slot holds a child of the daemon, except the one whose worker was just
\* reaped; ...
Reaped(d, s) == d.pc \in {"refork", "restore"} /\ s = d.i

\* ... and a slot that holds none is one that start_worker has not come to, or
\* whose fork failed.
NotStarted(d, s) == d.pc = "launch" \/ (d.pc \in {"fork", "store"} /\ s >= d.i)

\* worker[] of a daemon d whose children are C; failed says whether a fork of
\* it has failed.
Registers(d, C, failed) ==
  /\ \A s, t \in Slots : d.worker[s] = d.worker[t] /\ d.worker[s] # 0 => s = t
  /\ \A c \in C : \/ \E s \in Slots : d.worker[s] = c
                  \/ d.pc \in {"store", "restore"} /\ d.pid = c
  /\ Tends(d) => \A s \in Slots :
       /\ d.worker[s] # 0 => d.worker[s] \in C \/ Reaped(d, s)
       /\ d.worker[s] = 0 => failed \/ NotStarted(d, s)
       /\ NotStarted(d, s) => d.worker[s] = 0
  /\ d.pc = "launch" => d.i = 0
  /\ d.pc \in {"store", "restore"} =>
       /\ d.pid \in C
       /\ \A s \in Slots : d.worker[s] = d.pid => Reaped(d, s)
  /\ d.pc \in {"refork", "restore"} =>
       d.worker[d.i] \notin C \/ (d.pc = "restore" /\ d.worker[d.i] = d.pid)
  /\ d.pc = "fail" => failed

Table == Registers(proc[Daemon], Children(Daemon), forkFailed)

\* As long as no worker function of start_worker has returned, the daemon is
\* the only master.
OneMaster ==
  ~returned => \A p \in Pids \ {Daemon} :
    /\ proc[p].pc \in WorkerPlaces \cup {"none", "zombie", "exit"}
    /\ Live(p) /\ Live(Daemon) => proc[p].parent = Daemon

\* A daemon that was asked to end at a good moment starts nothing more, and all
\* that live were told.
AllTold ==
  ~returned /\ stopped \in {"fork", "store", "sleep"} =>
    /\ \A p \in Pids \ {Daemon} : Live(p) => p \in term
    /\ Live(Daemon) => proc[Daemon].pc \in {"sleep", "exit"} /\ ~proc[Daemon].running

\* The inductive invariant.
MasterInv ==
  TypeOK /\ Tree /\ Table /\ OneMaster /\ AllTold
-----------------------------------------------------------------------------
(***************************************************************************)
(* What the parts of an action do to a record.                             *)
(***************************************************************************)
Places == MasterPlaces \cup WorkerPlaces \cup {"none", "zombie"}

\* n differs from r in where it is, in its index and in the pid of the loop.
Moved(r, n) ==
  /\ n \in Records /\ n.parent = r.parent /\ n.worker = r.worker /\ n.running = r.running

\* An assignment to pc alone.
LEMMA SetPc ==
  ASSUME NEW r \in Records, NEW x \in Places
  PROVE  LET n == [r EXCEPT !.pc = x] IN
         Moved(r, n) /\ n.pc = x /\ n.i = r.i /\ n.pid = r.pid
BY DEF Records, Places, Moved

\* worker[i] = pid.
LEMMA SetWorker ==
  ASSUME NEW r \in Records
  PROVE  LET n == [r EXCEPT !.worker[r.i] = r.pid] IN
         /\ n \in Records
         /\ n.pc = r.pc /\ n.i = r.i /\ n.pid = r.pid /\ n.parent = r.parent
         /\ n.worker = [r.worker EXCEPT ![r.i] = r.pid]
         /\ n.running = r.running
BY DEF Records

\* No process is a record.
LEMMA NoProcessType ==
  /\ NoProcess \in Records /\ NoProcess.pc = "none" /\ NoProcess.parent = 0
  /\ \A x : [NoProcess EXCEPT !.pc = "zombie", !.parent = x].pc = "zombie"
  /\ \A x : [NoProcess EXCEPT !.pc = "zombie", !.parent = x].parent = x
  /\ \A x \in Pids : [NoProcess EXCEPT !.pc = "zombie", !.parent = x] \in Records
<1>1. 0 \in Slots
  BY MasterAssumption DEF Slots
<1> QED
  BY <1>1 DEF NoProcess, Records

\* Another round of check_and_restart, or its end.
LEMMA LoopIs ==
  ASSUME NEW r \in Records
  PROVE  /\ Moved(r, Loop(r)) /\ Loop(r).i = 0
         /\ r.running => Loop(r).pc = "scan"
         /\ ~r.running => Loop(r).pc = "exit"
<1>0. 0 \in Slots
  BY MasterAssumption DEF Slots
<1>1. ASSUME NEW x \in {"scan", "exit"}
      PROVE  LET n == [r EXCEPT !.pc = x, !.i = 0, !.pid = 0] IN
             Moved(r, n) /\ n.i = 0 /\ n.pc = x
  BY <1>0 DEF Records, Moved, MasterPlaces
<1>2. CASE r.running
  <2>1. Loop(r) = [r EXCEPT !.pc = "scan", !.i = 0, !.pid = 0]
    BY <1>2 DEF Loop
  <2> QED
    BY <1>1, <1>2, <2>1
<1>3. CASE ~r.running
  <2>1. Loop(r) = [r EXCEPT !.pc = "exit", !.i = 0, !.pid = 0]
    BY <1>3 DEF Loop
  <2> QED
    BY <1>1, <1>3, <2>1
<1> QED
  BY <1>2, <1>3

\* The next turn of start_worker's loop, or its end.
LEMMA NextStartIs ==
  ASSUME NEW r \in Records
  PROVE  /\ Moved(r, NextStart(r))
         /\ \/ NextStart(r).pc = "fork" /\ NextStart(r).i = r.i + 1 /\ r.i + 1 \in Slots
            \/ /\ \A s \in Slots : s <= r.i
               /\ r.running => NextStart(r).pc = "scan"
               /\ ~r.running => NextStart(r).pc = "exit"
<1>1. CASE r.i + 1 < DEFAULT_WORKER_NUM
  <2>1. r.i \in Nat /\ r.i + 1 \in Slots
    BY <1>1, MasterAssumption DEF Records, Slots
  <2>2. NextStart(r) = [r EXCEPT !.pc = "fork", !.i = r.i + 1, !.pid = 0]
    BY <1>1 DEF NextStart
  <2> QED
    BY <2>1, <2>2 DEF Records, Moved, MasterPlaces
<1>2. CASE ~(r.i + 1 < DEFAULT_WORKER_NUM)
  <2>1. r.i \in Slots /\ \A s \in Slots : s <= r.i
    BY <1>2, MasterAssumption DEF Records, Slots
  <2>2. NextStart(r) = Loop(r)
    BY <1>2 DEF NextStart
  <2> QED
    BY <2>1, <2>2, LoopIs
<1> QED
  BY <1>1, <1>2

\* The next turn of check_and_restart's for loop, or the sleep after it.
LEMMA NextScanIs ==
  ASSUME NEW r \in Records
  PROVE  Moved(r, NextScan(r)) /\ NextScan(r).pc \in {"scan", "sleep"}
<1>1. CASE r.i + 1 < DEFAULT_WORKER_NUM
  <2>1. r.i \in Nat /\ r.i + 1 \in Slots
    BY <1>1, MasterAssumption DEF Records, Slots
  <2>2. NextScan(r) = [r EXCEPT !.pc = "scan", !.i = r.i + 1, !.pid = 0]
    BY <1>1 DEF NextScan
  <2> QED
    BY <2>1, <2>2 DEF Records, Moved, MasterPlaces
<1>2. CASE ~(r.i + 1 < DEFAULT_WORKER_NUM)
  <2>1. NextScan(r) = [r EXCEPT !.pc = "sleep", !.pid = 0]
    BY <1>2 DEF NextScan
  <2> QED
    BY <2>1 DEF Records, Moved, MasterPlaces
<1> QED
  BY <1>1, <1>2

-----------------------------------------------------------------------------
(***************************************************************************)
(* What a step does to the processes: one goes on, one forks, one reaps a  *)
(* child, or one ends.                                                     *)
(***************************************************************************)
ProcTypes == proc \in [Pids -> Records]

\* Process p goes on as n.
LEMMA GoesOn ==
  ASSUME ProcTypes, Tree, NEW p \in Pids, NEW n \in Records, Live(p),
         proc' = [proc EXCEPT ![p] = n], n.parent = proc[p].parent,
         n.pc \in MasterPlaces \cup WorkerPlaces, p = Daemon => n.pc \in MasterPlaces
  PROVE  /\ ProcTypes' /\ Tree'
         /\ proc'[p] = n /\ \A q \in Pids \ {p} : proc'[q] = proc[q]
         /\ Children(Daemon)' = Children(Daemon)
         /\ \A q \in Pids : Live(q)' <=> Live(q)
<1> USE MasterAssumption
<1>1. ProcTypes' /\ proc'[p] = n /\ \A q \in Pids \ {p} : proc'[q] = proc[q]
  BY DEF ProcTypes
<1>2. \A q \in Pids : Live(q)' <=> Live(q)
  BY <1>1 DEF Live
<1>3. proc[p].pc # "none" /\ n.pc # "none"
  BY DEF Live, MasterPlaces, WorkerPlaces
<1>4. Children(Daemon)' = Children(Daemon)
  BY <1>1, <1>3 DEF Children
<1>5. Tree'
  BY <1>1, <1>2, <1>3, <1>4 DEF Tree
<1> QED
  BY <1>1, <1>2, <1>4, <1>5

\* Process p forks c.
LEMMA Forks ==
  ASSUME ProcTypes, Tree, NEW p \in Pids, NEW c \in Free, Live(p),
         NEW to \in MasterPlaces, NEW child \in WorkerPlaces,
         proc' = [proc EXCEPT ![p].pc = to, ![p].pid = c,
                              ![c] = [proc[p] EXCEPT !.pc = child, !.parent = p]]
  PROVE  /\ ProcTypes' /\ Tree' /\ c # p /\ c # Daemon /\ c \in Pids
         /\ Moved(proc[p], proc'[p]) /\ proc'[p].pc = to /\ proc'[p].pid = c
         /\ proc'[p].i = proc[p].i
         /\ proc'[c].pc = child /\ proc'[c].parent = p
         /\ \A q \in Pids \ {p, c} : proc'[q] = proc[q]
         /\ Children(Daemon)' = Children(Daemon) \cup (IF p = Daemon THEN {c} ELSE {})
         /\ c \notin Children(Daemon)
         /\ \A q \in Pids : Live(q)' <=> Live(q) \/ q = c
<1> USE MasterAssumption
<1>1. c \in Pids /\ c # Daemon /\ proc[c].pc = "none" /\ c # p
  BY DEF Free, Live, MasterPlaces, WorkerPlaces
<1> DEFINE n == [proc[p] EXCEPT !.pc = to, !.pid = c]
           m == [proc[p] EXCEPT !.pc = child, !.parent = p]
<1>2. /\ Moved(proc[p], n) /\ n.pc = to /\ n.pid = c /\ n.i = proc[p].i
      /\ m \in Records /\ m.pc = child /\ m.parent = p
  BY <1>1, ZenonT(40) DEF ProcTypes, Records, Moved
<1>3. proc'[p] = n /\ proc'[c] = m /\ \A q \in Pids \ {p, c} : proc'[q] = proc[q]
  BY <1>1 DEF ProcTypes
<1>4. ProcTypes'
  <2>1. proc' = [q \in Pids |-> IF q = p THEN n ELSE IF q = c THEN m ELSE proc[q]]
    BY <1>1 DEF ProcTypes
  <2> HIDE DEF n, m
  <2> QED
    BY <1>2, <2>1, ZenonT(40) DEF ProcTypes, Moved
<1> HIDE DEF n, m
<1>5. /\ to # "none" /\ child # "none" /\ proc[p].pc # "none"
      /\ child \in MasterPlaces \cup WorkerPlaces /\ to \in MasterPlaces \cup WorkerPlaces
      /\ "none" \notin MasterPlaces \cup WorkerPlaces
  BY DEF MasterPlaces, WorkerPlaces, Live
<1>6. \A q \in Pids : Live(q)' <=> Live(q) \/ q = c
  BY <1>2, <1>3, <1>5 DEF Live
<1>7. c \notin Children(Daemon)
  BY <1>1 DEF Children
<1>8. Children(Daemon)' = Children(Daemon) \cup (IF p = Daemon THEN {c} ELSE {})
  <2>1. ASSUME NEW q \in Pids
        PROVE  /\ proc'[q].parent = IF q = c THEN p ELSE proc[q].parent
               /\ proc'[q].pc # "none" <=> proc[q].pc # "none" \/ q = c
    <3>1. CASE q = p
      BY <1>1, <1>2, <1>3, <1>5, <3>1 DEF Moved
    <3>2. CASE q = c
      BY <1>2, <1>3, <1>5, <3>2
    <3>3. CASE q # p /\ q # c
      <4>1. proc'[q] = proc[q]
        BY <1>3, <3>3
      <4> QED
        BY <3>3, <4>1
    <3> QED
      BY <3>1, <3>2, <3>3
  <2>2. \A q \in Pids : /\ q \in Children(Daemon)' <=>
                             proc'[q].parent = Daemon /\ proc'[q].pc # "none"
                        /\ q \in Children(Daemon) <=>
                             proc[q].parent = Daemon /\ proc[q].pc # "none"
    BY DEF Children
  <2>3. Children(Daemon)' \subseteq Pids /\ Children(Daemon) \subseteq Pids
    BY DEF Children
  <2>4. ASSUME NEW q \in Pids
        PROVE  q \in Children(Daemon)' <=> q \in Children(Daemon) \/ (p = Daemon /\ q = c)
    <3>1. CASE q = c
      BY <1>1, <2>1, <2>2, <3>1
    <3>2. CASE q # c
      BY <2>1, <2>2, <3>2
    <3> QED
      BY <3>1, <3>2
  <2> QED
    BY <1>1, <2>3, <2>4
<1>9. Tree'
  <2>1. proc'[Daemon].parent = 0 /\ proc'[Daemon].pc \in MasterPlaces \cup {"none"}
    BY <1>1, <1>2, <1>3 DEF Tree, Moved
  <2>2. \A q \in Pids : proc'[q].pc = "none" => q # p /\ q # c
    BY <1>2, <1>3, <1>5
  <2>3. \A q \in Pids : proc'[q].pc = "none" => proc'[q] = NoProcess
    BY <1>3, <2>2 DEF Tree
  <2>4. ~Live(Daemon)' => Children(Daemon)' = {}
    BY <1>6, <1>8 DEF Tree
  <2> QED
    BY <2>1, <2>3, <2>4 DEF Tree
<1> QED
  BY <1>1, <1>2, <1>3, <1>4, <1>6, <1>7, <1>8, <1>9

\* Process p, which goes on at x, reaps its dead child c.
LEMMA Reaps ==
  ASSUME ProcTypes, Tree, NEW p \in Pids, Live(p), NEW c \in Children(p),
         proc[c].pc = "zombie", NEW x \in MasterPlaces,
         proc' = [proc EXCEPT ![p].pc = x, ![c] = NoProcess]
  PROVE  /\ ProcTypes' /\ Tree' /\ c # p /\ c # Daemon /\ c \in Pids
         /\ Moved(proc[p], proc'[p]) /\ proc'[p].pc = x
         /\ proc'[p].i = proc[p].i /\ proc'[p].pid = proc[p].pid
         /\ \A q \in Pids \ {p, c} : proc'[q] = proc[q]
         /\ Children(Daemon)' = Children(Daemon) \ {c}
         /\ p # Daemon => c \notin Children(Daemon)
         /\ \A q \in Pids : Live(q)' <=> Live(q)
<1> USE MasterAssumption
<1>1. /\ c \in Pids /\ c # p /\ c # Daemon /\ proc[c].parent = p
      /\ x # "none" /\ proc[p].pc # "none"
      /\ "zombie" \notin MasterPlaces \cup WorkerPlaces
      /\ "none" \notin MasterPlaces \cup WorkerPlaces
  BY DEF Children, Live, MasterPlaces, WorkerPlaces, Tree
<1> DEFINE n == [proc[p] EXCEPT !.pc = x]
<1>2. Moved(proc[p], n) /\ n.pc = x /\ n.i = proc[p].i /\ n.pid = proc[p].pid
  BY SetPc DEF ProcTypes, Places
<1>3. proc'[p] = n /\ proc'[c] = NoProcess /\ \A q \in Pids \ {p, c} : proc'[q] = proc[q]
  BY <1>1 DEF ProcTypes
<1>4. ProcTypes'
  <2>1. proc' = [q \in Pids |-> IF q = p THEN n ELSE IF q = c THEN NoProcess ELSE proc[q]]
    BY <1>1 DEF ProcTypes
  <2> HIDE DEF n
  <2> QED
    BY <1>2, <2>1, NoProcessType, ZenonT(40) DEF ProcTypes, Moved
<1> HIDE DEF n
<1>5. \A q \in Pids : Live(q)' <=> Live(q)
  <2>1. ASSUME NEW q \in Pids
        PROVE  Live(q)' <=> Live(q)
    <3>1. CASE q = p
      BY <1>2, <1>3, <3>1 DEF Live
    <3>2. CASE q = c
      <4>1. proc'[q].pc = "none" /\ proc[q].pc = "zombie"
        BY <1>3, <3>2, NoProcessType
      <4> QED
        BY <1>1, <4>1 DEF Live
    <3>3. CASE q # p /\ q # c
      BY <1>3, <3>3 DEF Live
    <3> QED
      BY <3>1, <3>2, <3>3
  <2> QED
    BY <2>1
<1>6. Children(Daemon)' = Children(Daemon) \ {c}
  <2>1. /\ \A q \in Pids \ {c} : proc'[q].parent = proc[q].parent
        /\ \A q \in Pids \ {c} : proc'[q].pc # "none" <=> proc[q].pc # "none"
        /\ proc'[c].pc = "none"
    BY <1>1, <1>2, <1>3, NoProcessType, ZenonT(40) DEF Moved
  <2>2. \A q \in Pids : /\ q \in Children(Daemon)' <=>
                             proc'[q].parent = Daemon /\ proc'[q].pc # "none"
                        /\ q \in Children(Daemon) <=>
                             proc[q].parent = Daemon /\ proc[q].pc # "none"
    BY DEF Children
  <2>3. Children(Daemon)' \subseteq Pids /\ Children(Daemon) \subseteq Pids
    BY DEF Children
  <2>4. \A q \in Pids : q \in Children(Daemon)' <=> q \in Children(Daemon) /\ q # c
    BY <1>1, <2>1, <2>2
  <2> QED
    BY <2>3, <2>4
<1>7. p # Daemon => c \notin Children(Daemon)
  BY <1>1 DEF Children
<1>8. Tree'
  <2>1. proc'[Daemon].parent = 0 /\ proc'[Daemon].pc \in MasterPlaces \cup {"none"}
    BY <1>1, <1>2, <1>3 DEF Tree, Moved
  <2>2. \A q \in Pids : proc'[q].pc = "none" => q # p
    BY <1>1, <1>2, <1>3
  <2>3. \A q \in Pids : proc'[q].pc = "none" => proc'[q] = NoProcess
    BY <1>3, <2>2 DEF Tree
  <2>4. ~Live(Daemon)' => Children(Daemon)' = {}
    BY <1>5, <1>6 DEF Tree
  <2> QED
    BY <2>1, <2>3, <2>4 DEF Tree
<1> QED
  BY <1>1, <1>2, <1>3, <1>4, <1>5, <1>6, <1>7, <1>8

\* A process ends: what becomes of process q.
LEMMA AfterEndIs ==
  ASSUME ProcTypes, NEW p \in Pids, NEW q \in Pids, proc' = AfterEnd({p}, proc)
  PROVE  /\ q = p /\ proc[p].parent \in Pids \ {p} =>
              /\ proc'[q].pc = "zombie" /\ proc'[q].parent = proc[p].parent
              /\ proc'[q] \in Records
         /\ q = p /\ proc[p].parent \notin Pids \ {p} => proc'[q] = NoProcess
         /\ q # p /\ proc[q].parent # p => proc'[q] = proc[q]
         /\ q # p /\ proc[q].parent = p /\ proc[q].pc = "zombie" => proc'[q] = NoProcess
         /\ q # p /\ proc[q].parent = p /\ proc[q].pc # "zombie" =>
              /\ proc'[q] \in Records /\ proc'[q].parent = 0 /\ proc'[q].pc = proc[q].pc
              /\ proc'[q].worker = proc[q].worker
<1>1. CASE q = p
  <2>1. proc'[q] = IF proc[p].parent \in Pids \ {p}
                   THEN [NoProcess EXCEPT !.pc = "zombie", !.parent = proc[p].parent]
                   ELSE NoProcess
    BY <1>1 DEF AfterEnd
  <2> QED
    BY <1>1, <2>1, NoProcessType
<1>2. CASE q # p
  <2>1. proc'[q] = IF proc[q].parent = p
                   THEN IF proc[q].pc = "zombie" THEN NoProcess
                        ELSE [proc[q] EXCEPT !.parent = 0]
                   ELSE proc[q]
    BY <1>2 DEF AfterEnd
  <2>2. LET n == [proc[q] EXCEPT !.parent = 0] IN
        n \in Records /\ n.parent = 0 /\ n.pc = proc[q].pc /\ n.worker = proc[q].worker
    BY DEF ProcTypes, Records
  <2> QED
    BY <1>2, <2>1, <2>2
<1> QED
  BY <1>1, <1>2

\* Process p ends.
LEMMA Ends ==
  ASSUME ProcTypes, Tree, NEW p \in Pids, Live(p), proc' = AfterEnd({p}, proc)
  PROVE  /\ ProcTypes' /\ Tree'
         /\ Children(Daemon)' = IF p = Daemon THEN {} ELSE Children(Daemon)
         /\ p # Daemon => proc'[Daemon] = proc[Daemon]
         /\ p = Daemon => proc'[Daemon] = NoProcess
         /\ \A q \in Pids \ {p} : proc[q].parent # p => proc'[q] = proc[q]
         /\ \A q \in Pids \ {p} : proc'[q].pc \in {proc[q].pc, "none"}
         /\ proc'[p].pc \in {"none", "zombie"}
         /\ \A q \in Pids : Live(q)' <=> Live(q) /\ q # p
<1> USE MasterAssumption
<1>0. "zombie" \notin MasterPlaces \cup WorkerPlaces /\ "none" \notin MasterPlaces \cup WorkerPlaces
  BY DEF MasterPlaces, WorkerPlaces
<1>a. ASSUME NEW q \in Pids
      PROVE  /\ q = p /\ proc[p].parent \in Pids \ {p} =>
                  /\ proc'[q].pc = "zombie" /\ proc'[q].parent = proc[p].parent
                  /\ proc'[q] \in Records
             /\ q = p /\ proc[p].parent \notin Pids \ {p} => proc'[q] = NoProcess
             /\ q # p /\ proc[q].parent # p => proc'[q] = proc[q]
             /\ q # p /\ proc[q].parent = p /\ proc[q].pc = "zombie" => proc'[q] = NoProcess
             /\ q # p /\ proc[q].parent = p /\ proc[q].pc # "zombie" =>
                  /\ proc'[q] \in Records /\ proc'[q].parent = 0 /\ proc'[q].pc = proc[q].pc
  BY AfterEndIs
<1>b. NoProcess \in Records /\ NoProcess.pc = "none" /\ NoProcess.parent = 0
  BY NoProcessType
<1>2. ProcTypes'
  <2>1. \A q \in Pids : proc'[q] \in Records
    BY <1>a, <1>b DEF ProcTypes
  <2> QED
    BY <2>1 DEF ProcTypes, AfterEnd
<1>3. ASSUME NEW q \in Pids \ {p}
      PROVE  /\ proc[q].parent # p => proc'[q] = proc[q]
             /\ proc'[q].pc \in {proc[q].pc, "none"}
             /\ Live(q)' <=> Live(q)
  <2>1. CASE proc[q].parent # p
    BY <1>a, <2>1 DEF Live
  <2>2. CASE proc[q].parent = p /\ proc[q].pc = "zombie"
    BY <1>a, <1>b, <1>0, <2>2 DEF Live
  <2>3. CASE proc[q].parent = p /\ proc[q].pc # "zombie"
    BY <1>a, <2>3 DEF Live
  <2> QED
    BY <2>1, <2>2, <2>3
<1>4. proc'[p].pc \in {"none", "zombie"} /\ ~Live(p)'
  <2>1. CASE proc[p].parent \in Pids \ {p}
    BY <1>a, <1>0, <2>1 DEF Live
  <2>2. CASE proc[p].parent \notin Pids \ {p}
    BY <1>a, <1>b, <1>0, <2>2 DEF Live
  <2> QED
    BY <2>1, <2>2
<1>5. /\ p # Daemon => proc'[Daemon] = proc[Daemon]
      /\ p = Daemon => proc'[Daemon] = NoProcess
  <2>1. proc[Daemon].parent = 0 /\ 0 \notin Pids /\ p # 0
    BY DEF Tree
  <2> QED
    BY <2>1, <1>a
<1>6. Children(Daemon)' = IF p = Daemon THEN {} ELSE Children(Daemon)
  <2>2. \A q \in Pids : /\ q \in Children(Daemon)' <=>
                             proc'[q].parent = Daemon /\ proc'[q].pc # "none"
                        /\ q \in Children(Daemon) <=>
                             proc[q].parent = Daemon /\ proc[q].pc # "none"
    BY DEF Children
  <2>3. Children(Daemon)' \subseteq Pids /\ Children(Daemon) \subseteq Pids
    BY DEF Children
  <2>4. Daemon # 0 /\ proc[p].pc # "none"
    BY <1>0 DEF Live
  <2>5. ASSUME NEW q \in Pids
        PROVE  q \in Children(Daemon)' <=> p # Daemon /\ q \in Children(Daemon)
    <3>1. CASE q = p /\ proc[p].parent \in Pids \ {p}
      <4>1. proc'[q].pc = "zombie" /\ proc'[q].parent = proc[p].parent
        BY <1>a, <3>1
      <4> QED
        BY <2>2, <2>4, <3>1, <4>1
    <3>2. CASE q = p /\ proc[p].parent \notin Pids \ {p}
      <4>1. proc'[q] = NoProcess
        BY <1>a, <3>2
      <4> QED
        BY <1>b, <2>2, <2>4, <3>2, <4>1
    <3>3. CASE q # p /\ proc[q].parent # p
      <4>1. proc'[q] = proc[q]
        BY <1>a, <3>3
      <4> QED
        BY <2>2, <3>3, <4>1
    <3>4. CASE q # p /\ proc[q].parent = p
      <4>1. proc'[q].parent = 0
        BY <1>a, <1>b, <3>4
      <4> QED
        BY <2>2, <2>4, <3>4, <4>1
    <3> QED
      BY <3>1, <3>2, <3>3, <3>4
  <2> QED
    BY <2>3, <2>5
<1>7. Tree'
  <2>1. proc'[Daemon].parent = 0 /\ proc'[Daemon].pc \in MasterPlaces \cup {"none"}
    BY <1>5, <1>b DEF Tree
  <2>2. ASSUME NEW q \in Pids, proc'[q].pc = "none"
        PROVE  proc'[q] = NoProcess
    <3>1. CASE q = p
      BY <1>a, <2>2, <3>1
    <3>2. CASE q # p /\ proc[q].parent # p
      <4>1. proc'[q] = proc[q]
        BY <1>a, <3>2
      <4> QED
        BY <2>2, <4>1 DEF Tree
    <3>3. CASE q # p /\ proc[q].parent = p /\ proc[q].pc = "zombie"
      BY <1>a, <3>3
    <3>4. CASE q # p /\ proc[q].parent = p /\ proc[q].pc # "zombie"
      <4>1. proc[q].pc = "none" /\ proc[q] = NoProcess
        BY <1>a, <2>2, <3>4 DEF Tree
      <4> QED
        BY <1>b, <3>4, <4>1
    <3> QED
      BY <3>1, <3>2, <3>3, <3>4
  <2>3. ~Live(Daemon)' => Children(Daemon)' = {}
    BY <1>3, <1>6 DEF Tree
  <2> QED
    BY <2>1, <2>2, <2>3 DEF Tree
<1> QED
  BY <1>2, <1>3, <1>4, <1>5, <1>6, <1>7
-----------------------------------------------------------------------------
(***************************************************************************)
(* What the steps of the daemon do to worker[].                            *)
(***************************************************************************)

\* A step of another process leaves the daemon alone; a failed fork stays one.
LEMMA SameTable ==
  ASSUME NEW d, NEW C, NEW failed, NEW failed2, Registers(d, C, failed), failed => failed2
  PROVE  Registers(d, C, failed2)
BY DEF Registers

\* start_worker goes on to the next slot after a failed fork.
LEMMA StartSkips ==
  ASSUME NEW d \in Records, NEW C, NEW failed, Registers(d, C, failed), d.pc = "fork"
  PROVE  Registers(NextStart(d), C, TRUE)
<1> DEFINE n == NextStart(d)
<1>1. /\ n.worker = d.worker
      /\ \/ n.pc = "fork" /\ n.i = d.i + 1
         \/ n.pc \in {"scan", "exit"}
  BY NextStartIs DEF Moved
<1>2. d.i \in Nat /\ \A s \in Slots : s \in Nat
  BY MasterAssumption DEF Records, Slots
<1> HIDE DEF n
<1>3. Registers(n, C, TRUE)
  BY <1>1, <1>2 DEF Registers, Tends, Reaped, NotStarted
<1> QED
  BY <1>3 DEF n

\* start_worker has forked c.
LEMMA StartForks ==
  ASSUME NEW d \in Records, NEW n, NEW C, NEW failed, NEW c \in Pids,
         Registers(d, C, failed), C \subseteq Pids, c \notin C, d.pc = "fork",
         n.worker = d.worker, n.pc = "store", n.i = d.i, n.pid = c
  PROVE  Registers(n, C \cup {c}, failed)
<1>1. c # 0
  BY MasterAssumption
<1>2. \A s \in Slots : d.worker[s] # c
  BY <1>1 DEF Registers, Tends, Reaped, NotStarted
<1> QED
  BY <1>1, <1>2 DEF Registers, Tends, Reaped, NotStarted

\* start_worker keeps the pid.
LEMMA StartStores ==
  ASSUME NEW d \in Records, NEW C, NEW failed, Registers(d, C, failed), C \subseteq Pids,
         d.pc = "store"
  PROVE  Registers(NextStart([d EXCEPT !.worker[d.i] = d.pid]), C, failed)
<1> DEFINE m == [d EXCEPT !.worker[d.i] = d.pid]
           n == NextStart(m)
<1>1. m \in Records /\ m.i = d.i /\ m.worker = [d.worker EXCEPT ![d.i] = d.pid]
  BY SetWorker
<1> HIDE DEF m
<1>2. /\ n.worker = m.worker
      /\ \/ n.pc = "fork" /\ n.i = d.i + 1
         \/ n.pc \in {"scan", "exit"} /\ \A s \in Slots : s <= d.i
  BY <1>1, NextStartIs DEF Moved
<1>3. d.i \in Slots /\ d.i \in Nat /\ (\A s \in Slots : s \in Nat) /\ d.worker \in [Slots -> Pids \cup {0}]
  BY MasterAssumption DEF Records, Slots
<1> HIDE DEF n
<1>4. \A s \in Slots : n.worker[s] = IF s = d.i THEN d.pid ELSE d.worker[s]
  BY <1>1, <1>2, <1>3
<1>5. d.pid # 0 /\ d.pid \in C /\ \A s \in Slots : d.worker[s] # d.pid
  BY MasterAssumption DEF Registers, Reaped
<1>6. \A c \in C : \E s \in Slots : n.worker[s] = c
  <2>1. ASSUME NEW c \in C
        PROVE  \E s \in Slots : n.worker[s] = c
    <3>1. CASE c = d.pid
      BY <1>3, <1>4, <3>1
    <3>2. CASE c # d.pid
      <4>1. PICK s \in Slots : d.worker[s] = c
        BY <3>2 DEF Registers
      <4>2. s # d.i
        BY <1>3, <4>1, MasterAssumption DEF Registers, Tends, NotStarted
      <4> QED
        BY <1>4, <4>1, <4>2
    <3> QED
      BY <3>1, <3>2
  <2> QED
    BY <2>1
<1>7. \A s, t \in Slots : n.worker[s] = n.worker[t] /\ n.worker[s] # 0 => s = t
  BY <1>4, <1>5 DEF Registers
<1>8. \A s \in Slots : /\ n.worker[s] # 0 => n.worker[s] \in C
                       /\ n.worker[s] = 0 => failed \/ NotStarted(n, s)
                       /\ NotStarted(n, s) => n.worker[s] = 0
  <2>1. \A s \in Slots : /\ d.worker[s] # 0 => d.worker[s] \in C
                         /\ d.worker[s] = 0 => failed \/ s >= d.i
                         /\ s >= d.i => d.worker[s] = 0
    BY DEF Registers, Tends, Reaped, NotStarted
  <2> QED
    BY <1>2, <1>3, <1>4, <1>5, <2>1 DEF NotStarted
<1>9. n.pc \in {"fork", "scan", "exit"}
  BY <1>2
<1> QED
  BY <1>6, <1>7, <1>8, <1>9 DEF Registers, n, m

\* A scan, a sleep or a call that fails moves on without touching worker[].
LEMMA ScanGoesOn ==
  ASSUME NEW d, NEW n, NEW C, NEW failed, NEW failed2, Registers(d, C, failed),
         failed => failed2, d.pc \in {"scan", "sleep"}, n.worker = d.worker,
         n.pc \in {"scan", "sleep", "exit"}
  PROVE  Registers(n, C, failed2)
BY DEF Registers, Tends, Reaped, NotStarted

\* The daemon gives up after a failed fork.
LEMMA GivesUp ==
  ASSUME NEW d, NEW n, NEW C, NEW C2, NEW failed, Registers(d, C, failed),
         d.pc \in {"scan", "refork"}, n.worker = d.worker, n.pc = "fail", C2 \subseteq C
  PROVE  Registers(n, C2, TRUE)
BY DEF Registers, Tends, Reaped, NotStarted

\* The worker of slot i is reaped.
LEMMA ScanReaps ==
  ASSUME NEW d, NEW n, NEW C, NEW failed, Registers(d, C, failed), d.pc = "scan",
         d.i \in Slots, d.worker[d.i] # 0,
         n.worker = d.worker, n.pc = "refork", n.i = d.i
  PROVE  Registers(n, C \ {d.worker[d.i]}, failed)
BY DEF Registers, Tends, Reaped, NotStarted

\* check_and_restart has forked c.
LEMMA ScanForks ==
  ASSUME NEW d, NEW n, NEW C, NEW failed, NEW c, Registers(d, C, failed), c # 0, c \notin C,
         d.pc = "refork", n.worker = d.worker, n.pc = "restore", n.i = d.i, n.pid = c
  PROVE  Registers(n, C \cup {c}, failed)
BY DEF Registers, Tends, Reaped, NotStarted

\* check_and_restart keeps the pid.
LEMMA ScanStores ==
  ASSUME NEW d \in Records, NEW C, NEW failed, Registers(d, C, failed), C \subseteq Pids,
         d.pc = "restore"
  PROVE  Registers(NextScan([d EXCEPT !.worker[d.i] = d.pid]), C, failed)
<1> DEFINE m == [d EXCEPT !.worker[d.i] = d.pid]
           n == NextScan(m)
<1>1. m \in Records /\ m.i = d.i /\ m.worker = [d.worker EXCEPT ![d.i] = d.pid]
  BY SetWorker
<1> HIDE DEF m
<1>2. n.worker = m.worker /\ n.pc \in {"scan", "sleep"}
  BY <1>1, NextScanIs DEF Moved
<1>3. d.i \in Slots /\ d.worker \in [Slots -> Pids \cup {0}]
  BY DEF Records
<1> HIDE DEF n
<1>4. \A s \in Slots : n.worker[s] = IF s = d.i THEN d.pid ELSE d.worker[s]
  BY <1>1, <1>2, <1>3
<1>5. d.pid # 0 /\ d.pid \in C /\ \A s \in Slots : s # d.i => d.worker[s] # d.pid
  BY MasterAssumption DEF Registers, Reaped
<1>6. \A c \in C : \E s \in Slots : n.worker[s] = c
  <2>1. ASSUME NEW c \in C
        PROVE  \E s \in Slots : n.worker[s] = c
    <3>1. CASE c = d.pid
      BY <1>3, <1>4, <3>1
    <3>2. CASE c # d.pid
      <4>1. PICK s \in Slots : d.worker[s] = c
        BY <3>2 DEF Registers
      <4>2. s # d.i
        BY <3>2, <4>1 DEF Registers
      <4> QED
        BY <1>4, <4>1, <4>2
    <3> QED
      BY <3>1, <3>2
  <2> QED
    BY <2>1
<1>7. \A s, t \in Slots : n.worker[s] = n.worker[t] /\ n.worker[s] # 0 => s = t
  BY <1>4, <1>5 DEF Registers
<1>8. \A s \in Slots : /\ n.worker[s] # 0 => n.worker[s] \in C
                       /\ n.worker[s] = 0 => failed
                       /\ ~NotStarted(n, s)
  BY <1>2, <1>4, <1>5 DEF Registers, Tends, Reaped, NotStarted
<1> QED
  BY <1>2, <1>6, <1>7, <1>8 DEF Registers, n, m
-----------------------------------------------------------------------------
\* A daemon that is no more has no children and no slots.
LEMMA NoTable ==
  ASSUME NEW failed
  PROVE  Registers(NoProcess, {}, failed)
BY DEF Registers, Tends, NoProcess

\* The daemon is told to end at a good moment only to sleep or to exit.
LEMMA NotAsked ==
  ASSUME AllTold, Live(Daemon), proc[Daemon].pc \notin {"sleep", "exit"}
  PROVE  ~(~returned /\ stopped \in {"fork", "store", "sleep"})
BY DEF AllTold

\* A step in which the daemon alone goes on leaves the other processes what
\* they are.
LEMMA DaemonMoves ==
  ASSUME OneMaster, AllTold, Live(Daemon), Live(Daemon)',
         UNCHANGED <<stopped, returned, term>>,
         \A q \in Pids \ {Daemon} :
           \/ proc'[q].pc = proc[q].pc /\ proc'[q].parent = proc[q].parent
           \/ proc'[q].pc = "none",
         \/ proc[Daemon].pc \notin {"sleep", "exit"}
         \/ proc'[Daemon].pc \in {"sleep", "exit"} /\ proc'[Daemon].running = proc[Daemon].running
         \/ proc[Daemon].running
  PROVE  OneMaster' /\ AllTold'
<1>0. "none" \notin MasterPlaces \cup WorkerPlaces
  BY DEF MasterPlaces, WorkerPlaces
<1>1. ASSUME NEW q \in Pids \ {Daemon}, Live(q)'
      PROVE  Live(q) /\ proc'[q].parent = proc[q].parent
  BY <1>0, <1>1 DEF Live
<1>2. OneMaster'
  BY <1>1 DEF OneMaster
<1>3. AllTold'
  BY <1>1 DEF AllTold
<1> QED
  BY <1>2, <1>3

\* The types of all but the processes.
LEMMA AllTypes ==
  ASSUME ProcTypes', term' \subseteq Pids, stopped' \in MasterPlaces \cup {"no"},
         forkFailed' \in BOOLEAN, returned' \in BOOLEAN
  PROVE  TypeOK'
BY DEF TypeOK, ProcTypes, Records

\* What the type invariant says, in the words of the lemmas.
LEMMA TypesAre ==
  ASSUME TypeOK
  PROVE  /\ ProcTypes /\ term \subseteq Pids /\ stopped \in MasterPlaces \cup {"no"}
         /\ forkFailed \in BOOLEAN /\ returned \in BOOLEAN
BY DEF TypeOK, ProcTypes, Records

\* The daemon goes on as n.
LEMMA DaemonGoesOn ==
  ASSUME MasterInv, NEW n \in Records, Live(Daemon), proc' = [proc EXCEPT ![Daemon] = n],
         n.parent = proc[Daemon].parent, n.pc \in MasterPlaces,
         UNCHANGED <<term, stopped, returned>>, forkFailed' \in BOOLEAN,
         Registers(n, Children(Daemon), forkFailed'),
         \/ proc[Daemon].pc \notin {"sleep", "exit"}
         \/ n.pc \in {"sleep", "exit"} /\ n.running = proc[Daemon].running
         \/ proc[Daemon].running
  PROVE  MasterInv'
<1> USE MasterAssumption DEF MasterInv
<1>0. ProcTypes /\ term \subseteq Pids /\ stopped \in MasterPlaces \cup {"no"}
      /\ returned \in BOOLEAN
  BY TypesAre
<1>1. /\ ProcTypes' /\ Tree'
      /\ proc'[Daemon] = n /\ \A q \in Pids \ {Daemon} : proc'[q] = proc[q]
      /\ Children(Daemon)' = Children(Daemon)
      /\ \A q \in Pids : Live(q)' <=> Live(q)
  BY <1>0, GoesOn
<1>2. TypeOK'
  BY <1>0, <1>1, AllTypes
<1>3. Table'
  BY <1>1 DEF Table
<1>4. OneMaster' /\ AllTold'
  <2>1. Live(Daemon)'
    BY <1>1
  <2> QED
    BY <1>1, <2>1, DaemonMoves
<1> QED
  BY <1>1, <1>2, <1>3, <1>4

\* Another process goes on as n: a worker that has been started first turns
\* into a master only when its function returns.
LEMMA OtherGoesOn ==
  ASSUME MasterInv, NEW p \in Pids \ {Daemon}, NEW n \in Records, Live(p),
         proc' = [proc EXCEPT ![p] = n], n.parent = proc[p].parent,
         n.pc \in MasterPlaces \cup WorkerPlaces, UNCHANGED <<term, stopped>>,
         forkFailed' \in BOOLEAN, forkFailed => forkFailed',
         returned' \in BOOLEAN, returned => returned', ~returned' => n.pc = "exit"
  PROVE  MasterInv'
<1> USE MasterAssumption DEF MasterInv
<1>0. ProcTypes /\ term \subseteq Pids /\ stopped \in MasterPlaces \cup {"no"}
  BY TypesAre
<1>1. /\ ProcTypes' /\ Tree'
      /\ proc'[p] = n /\ \A q \in Pids \ {p} : proc'[q] = proc[q]
      /\ Children(Daemon)' = Children(Daemon)
      /\ \A q \in Pids : Live(q)' <=> Live(q)
  BY <1>0, GoesOn
<1>2. TypeOK'
  BY <1>0, <1>1, AllTypes
<1>3. proc'[Daemon] = proc[Daemon]
  BY <1>1
<1>4. Table'
  BY <1>1, <1>3, SameTable DEF Table
<1>5. \A q \in Pids \ {Daemon} : /\ proc'[q].parent = proc[q].parent
                                 /\ q # p => proc'[q].pc = proc[q].pc
  BY <1>1
<1>6. OneMaster'
  BY <1>1, <1>5 DEF OneMaster
<1>7. AllTold'
  BY <1>1, <1>3 DEF AllTold
<1> QED
  BY <1>1, <1>2, <1>4, <1>6, <1>7

\* The first master forks c, or another one does.
LEMMA ForkInv ==
  ASSUME MasterInv, NEW p \in Pids, NEW from \in {"fork", "refork"},
         NEW to \in {"store", "restore"}, NEW child \in WorkerPlaces,
         from = "fork" <=> to = "store", Fork(p, from, to, child)
  PROVE  MasterInv'
<1> USE MasterAssumption DEF MasterInv
<1>0. ProcTypes /\ term \subseteq Pids /\ stopped \in MasterPlaces \cup {"no"}
      /\ returned \in BOOLEAN /\ forkFailed \in BOOLEAN
  BY TypesAre
<1>1. /\ proc[p].pc = from /\ UNCHANGED <<term, stopped, forkFailed, returned>>
      /\ Live(p) /\ to \in MasterPlaces
  BY DEF Fork, Live, MasterPlaces
<1>2. PICK c \in Free :
        proc' = [proc EXCEPT ![p].pc = to, ![p].pid = c,
                             ![c] = [proc[p] EXCEPT !.pc = child, !.parent = p]]
  BY DEF Fork
<1>3. /\ ProcTypes' /\ Tree' /\ c # p /\ c # Daemon /\ c \in Pids
      /\ Moved(proc[p], proc'[p]) /\ proc'[p].pc = to /\ proc'[p].pid = c
      /\ proc'[p].i = proc[p].i
      /\ proc'[c].pc = child /\ proc'[c].parent = p
      /\ \A q \in Pids \ {p, c} : proc'[q] = proc[q]
      /\ Children(Daemon)' = Children(Daemon) \cup (IF p = Daemon THEN {c} ELSE {})
      /\ c \notin Children(Daemon)
      /\ \A q \in Pids : Live(q)' <=> Live(q) \/ q = c
  BY <1>0, <1>1, <1>2, Forks
<1>4. TypeOK'
  BY <1>0, <1>1, <1>3, AllTypes
<1>5. CASE p = Daemon
  <2>1. Table'
    <3>1. Children(Daemon) \subseteq Pids /\ proc[Daemon] \in Records /\ c # 0
      BY <1>0, <1>3 DEF Children, ProcTypes
    <3>2. CASE from = "fork"
      BY <1>1, <1>3, <1>5, <3>1, <3>2, StartForks DEF Table, Moved
    <3>3. CASE from = "refork"
      <4>1. to = "restore"
        BY <3>3
      <4> QED
        BY <1>1, <1>3, <1>5, <3>1, <3>3, <4>1, ScanForks DEF Table, Moved
    <3> QED
      BY <3>2, <3>3
  <2>2. OneMaster'
    <3>1. \A q \in Pids \ {Daemon} :
            \/ proc'[q] = proc[q] /\ (Live(q)' <=> Live(q))
            \/ proc'[q].pc = child /\ proc'[q].parent = Daemon
      BY <1>3, <1>5
    <3>2. Live(Daemon)
      BY <1>1, <1>5
    <3> QED
      BY <1>1, <3>1, <3>2 DEF OneMaster
  <2>3. AllTold'
    BY <1>1, <1>5, NotAsked DEF AllTold
  <2> QED
    BY <1>3, <1>4, <2>1, <2>2, <2>3
<1>6. CASE p # Daemon
  <2>1. proc'[Daemon] = proc[Daemon] /\ Children(Daemon)' = Children(Daemon)
    BY <1>3, <1>6
  <2>2. Table'
    BY <1>1, <2>1 DEF Table
  <2>3. returned
    BY <1>1, <1>6 DEF OneMaster, WorkerPlaces
  <2> QED
    BY <1>1, <1>3, <1>4, <2>2, <2>3 DEF OneMaster, AllTold
<1> QED
  BY <1>5, <1>6

\* A process ends.
LEMMA EndInv ==
  ASSUME MasterInv, NEW p \in Pids, Live(p), proc' = AfterEnd({p}, proc),
         UNCHANGED <<forkFailed, returned>>, stopped' \in MasterPlaces \cup {"no"},
         \/ stopped' = stopped /\ term' = term \ {p}
         \/ term' = {q \in Pids \ {Daemon} : Live(q)},
         p # Daemon => stopped' = stopped /\ term' = term \ {p}
  PROVE  MasterInv'
<1> USE MasterAssumption DEF MasterInv
<1>0. ProcTypes /\ term \subseteq Pids /\ returned \in BOOLEAN /\ forkFailed \in BOOLEAN
  BY TypesAre
<1>1. /\ ProcTypes' /\ Tree'
      /\ Children(Daemon)' = IF p = Daemon THEN {} ELSE Children(Daemon)
      /\ p # Daemon => proc'[Daemon] = proc[Daemon]
      /\ p = Daemon => proc'[Daemon] = NoProcess
      /\ \A q \in Pids \ {p} : proc[q].parent # p => proc'[q] = proc[q]
      /\ \A q \in Pids \ {p} : proc'[q].pc \in {proc[q].pc, "none"}
      /\ proc'[p].pc \in {"none", "zombie"}
      /\ \A q \in Pids : Live(q)' <=> Live(q) /\ q # p
  BY <1>0, Ends
<1>2. TypeOK'
  BY <1>0, <1>1, AllTypes
<1>3. CASE p = Daemon
  <2>1. Table'
    BY <1>1, <1>3, NoTable DEF Table
  <2>2. ~Live(Daemon)'
    BY <1>1, <1>3
  <2>3. \A q \in Pids \ {Daemon} : proc'[q].pc \in {proc[q].pc, "none"} /\ (Live(q)' => Live(q))
    BY <1>1, <1>3
  <2>4. OneMaster'
    BY <2>2, <2>3 DEF OneMaster
  <2>5. AllTold'
    BY <1>3, <2>2, <2>3 DEF AllTold
  <2> QED
    BY <1>1, <1>2, <2>1, <2>4, <2>5
<1>4. CASE p # Daemon
  <2>1. Table'
    BY <1>1, <1>4 DEF Table
  <2>2. OneMaster'
    <3> SUFFICES ASSUME ~returned, NEW q \in Pids \ {Daemon}
                 PROVE  /\ proc'[q].pc \in WorkerPlaces \cup {"none", "zombie", "exit"}
                        /\ Live(q)' /\ Live(Daemon)' => proc'[q].parent = Daemon
      BY DEF OneMaster
    <3>1. proc'[q].pc \in WorkerPlaces \cup {"none", "zombie", "exit"}
      BY <1>1 DEF OneMaster
    <3>2. ASSUME Live(q)', Live(Daemon)'
          PROVE  proc'[q].parent = Daemon
      <4>1. Live(q) /\ q # p /\ Live(Daemon)
        BY <1>1, <3>2
      <4>2. proc[q].parent = Daemon
        BY <4>1 DEF OneMaster
      <4> QED
        BY <1>1, <1>4, <4>1, <4>2
    <3> QED
      BY <3>1, <3>2
  <2>3. AllTold'
    BY <1>1, <1>4 DEF AllTold
  <2> QED
    BY <1>1, <1>2, <2>1, <2>2, <2>3
<1> QED
  BY <1>3, <1>4

\* A call of waitpid that neither finds the worker of slot i running nor reaps
\* it is one for a slot whose fork failed.
LEMMA WaitFails ==
  ASSUME MasterInv, proc[Daemon].pc = "scan",
         ~WaitRunning(Daemon, proc[Daemon].worker[proc[Daemon].i]),
         ~WaitReaps(Daemon, proc[Daemon].worker[proc[Daemon].i])
  PROVE  forkFailed
<1> DEFINE d == proc[Daemon]
           w == d.worker[d.i]
<1>1. ProcTypes /\ d \in Records /\ d.i \in Slots
  BY MasterAssumption, TypesAre DEF MasterInv, ProcTypes, Records
<1>2. /\ w # 0 => w \in Children(Daemon)
      /\ w = 0 => forkFailed
  BY <1>1 DEF MasterInv, Table, Registers, Tends, Reaped, NotStarted
<1>3. ASSUME w # 0
      PROVE  FALSE
  <2>1. w \in Children(Daemon) /\ w \in Pids /\ proc[w].pc # "none" /\ proc[w] \in Records
    BY <1>1, <1>2, <1>3 DEF Children, ProcTypes
  <2>2. proc[w].pc = "zombie" \/ Live(w)
    BY <2>1 DEF Records, Live
  <2> QED
    BY <1>3, <2>1, <2>2 DEF WaitRunning, WaitReaps
<1> QED
  BY <1>2, <1>3

\* A dead child is waited for: the one of slot i, which is started again, or,
\* for an empty slot, another one, and the master gives up.
LEMMA ReapInv ==
  ASSUME MasterInv, NEW p \in Pids, NEW c \in Children(p), proc[c].pc = "zombie",
         proc[p].pc = "scan", NEW x \in {"refork", "fail"},
         proc' = [proc EXCEPT ![p].pc = x, ![c] = NoProcess],
         UNCHANGED <<term, stopped, forkFailed, returned>>,
         \/ x = "refork" /\ c = proc[p].worker[proc[p].i]
         \/ x = "fail" /\ (p = Daemon => forkFailed)
  PROVE  MasterInv'
<1> USE MasterAssumption DEF MasterInv
<1>0. ProcTypes /\ term \subseteq Pids /\ stopped \in MasterPlaces \cup {"no"}
      /\ returned \in BOOLEAN /\ forkFailed \in BOOLEAN
  BY TypesAre
<1>1. Live(p) /\ x \in MasterPlaces
  BY DEF Live, MasterPlaces
<1>2. /\ ProcTypes' /\ Tree' /\ c # p /\ c # Daemon /\ c \in Pids
      /\ Moved(proc[p], proc'[p]) /\ proc'[p].pc = x
      /\ proc'[p].i = proc[p].i /\ proc'[p].pid = proc[p].pid
      /\ \A q \in Pids \ {p, c} : proc'[q] = proc[q]
      /\ Children(Daemon)' = Children(Daemon) \ {c}
      /\ p # Daemon => c \notin Children(Daemon)
      /\ \A q \in Pids : Live(q)' <=> Live(q)
  BY <1>0, <1>1, Reaps
<1>3. TypeOK'
  BY <1>0, <1>2, AllTypes
<1>4. CASE p = Daemon
  <2>1. Table'
    <3>1. proc[Daemon].i \in Slots /\ c # 0
      BY <1>0, <1>2 DEF ProcTypes, Records
    <3>2. CASE x = "refork" /\ c = proc[p].worker[proc[p].i]
      BY <1>2, <1>4, <3>1, <3>2, ScanReaps DEF Table, Moved
    <3>3. CASE x = "fail" /\ forkFailed
      <4>1. Children(Daemon)' \subseteq Children(Daemon)
        BY <1>2
      <4>2. Registers(proc'[Daemon], Children(Daemon)', TRUE)
        BY <1>2, <1>4, <3>3, <4>1, GivesUp DEF Table, Moved
      <4> QED
        BY <3>3, <4>2, SameTable DEF Table
    <3> QED
      BY <1>4, <3>2, <3>3
  <2>2. OneMaster' /\ AllTold'
    <3>1. Live(Daemon) /\ Live(Daemon)'
      BY <1>1, <1>2, <1>4
    <3>2. \A q \in Pids \ {Daemon} :
            \/ proc'[q].pc = proc[q].pc /\ proc'[q].parent = proc[q].parent
            \/ proc'[q].pc = "none"
      <4>1. proc'[c].pc = "none"
        BY <1>0, <1>2, NoProcessType DEF ProcTypes
      <4> QED
        BY <1>2, <1>4, <4>1
    <3> QED
      BY <1>4, <3>1, <3>2, DaemonMoves
  <2> QED
    BY <1>2, <1>3, <2>1, <2>2
<1>5. CASE p # Daemon
  <2>1. proc'[Daemon] = proc[Daemon] /\ Children(Daemon)' = Children(Daemon)
    BY <1>2, <1>5
  <2>2. Table'
    BY <2>1 DEF Table
  <2>3. returned
    BY <1>5 DEF OneMaster, WorkerPlaces
  <2> QED
    BY <1>2, <1>3, <2>2, <2>3 DEF OneMaster, AllTold
<1> QED
  BY <1>4, <1>5

\* The daemon takes a step of its program.
LEMMA DaemonStepInv ==
  ASSUME MasterInv, Step(Daemon)
  PROVE  MasterInv'
<1> DEFINE d == proc[Daemon]
<1>0. /\ ProcTypes /\ forkFailed \in BOOLEAN /\ stopped \in MasterPlaces \cup {"no"}
      /\ Daemon \in Pids /\ d \in Records
  BY MasterAssumption, TypesAre DEF MasterInv, ProcTypes
<1>t. /\ Registers(d, Children(Daemon), forkFailed) /\ Children(Daemon) \subseteq Pids
      /\ d.i \in Slots /\ d.running \in BOOLEAN
  BY <1>0 DEF MasterInv, Table, Children, Records
<1>p. /\ {"fork", "store", "scan", "refork", "restore", "sleep", "exit", "fail"} \subseteq MasterPlaces
      /\ \A x \in MasterPlaces : x \in Places
  BY DEF MasterPlaces, Places
<1>l. d.pc \in MasterPlaces => Live(Daemon)
  BY DEF Live
<1>1. CASE start_workerFork(Daemon) \/ check_and_restartFork(Daemon)
  BY <1>0, <1>1, ForkInv DEF start_workerFork, check_and_restartFork, WorkerPlaces
<1>2. CASE start_workerForkFails(Daemon)
  <2>1. /\ d.pc = "fork" /\ proc' = [proc EXCEPT ![Daemon] = NextStart(d)]
        /\ forkFailed' = TRUE /\ UNCHANGED <<term, stopped, returned>>
    BY <1>2 DEF start_workerForkFails
  <2>2. /\ NextStart(d) \in Records /\ NextStart(d).parent = d.parent
        /\ NextStart(d).pc \in MasterPlaces
    BY <1>0, <1>t, <1>p, NextStartIs DEF Moved
  <2>3. Registers(NextStart(d), Children(Daemon), forkFailed')
    BY <1>0, <1>t, <2>1, StartSkips
  <2>4. Live(Daemon)
    BY <1>p, <1>l, <2>1
  <2> QED
    BY <2>1, <2>2, <2>3, <2>4, DaemonGoesOn
<1>3. CASE start_workerStore(Daemon)
  <2> DEFINE m == [d EXCEPT !.worker[d.i] = d.pid]
  <2>1. /\ d.pc = "store" /\ proc' = [proc EXCEPT ![Daemon] = NextStart(m)]
        /\ UNCHANGED <<term, stopped, forkFailed, returned>>
    BY <1>3 DEF start_workerStore
  <2>2. m \in Records /\ m.parent = d.parent /\ m.running = d.running
    BY <1>0, SetWorker
  <2>3. Registers(NextStart(m), Children(Daemon), forkFailed)
    BY <1>0, <1>t, <2>1, StartStores
  <2> HIDE DEF m
  <2>4. /\ NextStart(m) \in Records /\ NextStart(m).parent = d.parent
        /\ NextStart(m).pc \in MasterPlaces
    BY <1>t, <1>p, <2>2, NextStartIs DEF Moved
  <2>5. Live(Daemon)
    BY <1>p, <1>l, <2>1
  <2> QED
    BY <1>0, <2>1, <2>3, <2>4, <2>5, DaemonGoesOn
<1>4. CASE scanRunning(Daemon)
  <2>1. /\ d.pc = "scan" /\ proc' = [proc EXCEPT ![Daemon] = NextScan(d)]
        /\ UNCHANGED <<term, stopped, forkFailed, returned>>
    BY <1>4 DEF scanRunning
  <2>2. Moved(d, NextScan(d)) /\ NextScan(d).pc \in {"scan", "sleep"}
    BY <1>0, NextScanIs
  <2>3. Registers(NextScan(d), Children(Daemon), forkFailed)
    BY <1>t, <2>1, <2>2, ScanGoesOn DEF Moved
  <2>4. Live(Daemon) /\ NextScan(d).pc \in MasterPlaces
    BY <1>p, <1>l, <2>1, <2>2
  <2> QED
    BY <1>0, <2>1, <2>2, <2>3, <2>4, DaemonGoesOn DEF Moved
<1>5. CASE scanDown(Daemon)
  <2>1. /\ d.pc = "scan" /\ WaitReaps(Daemon, d.worker[d.i])
        /\ proc' = [proc EXCEPT ![Daemon].pc = "refork", ![d.worker[d.i]] = NoProcess]
        /\ UNCHANGED <<term, stopped, forkFailed, returned>>
    BY <1>5 DEF scanDown
  <2>2. d.worker[d.i] \in Children(Daemon) /\ proc[d.worker[d.i]].pc = "zombie"
    BY <2>1 DEF WaitReaps
  <2> QED
    BY <1>0, <2>1, <2>2, ReapInv
<1>6. CASE scanFails(Daemon)
  <2>1. /\ d.pc = "scan" /\ UNCHANGED <<term, stopped, forkFailed, returned>>
        /\ ~WaitRunning(Daemon, d.worker[d.i]) /\ ~WaitReaps(Daemon, d.worker[d.i])
    BY <1>6 DEF scanFails
  <2>2. forkFailed
    BY <2>1, WaitFails
  <2>3. CASE proc' = [proc EXCEPT ![Daemon].pc = "fail"]
    <3> DEFINE n == [d EXCEPT !.pc = "fail"]
    <3>1. proc' = [proc EXCEPT ![Daemon] = n]
      BY <2>3
    <3>2. Moved(d, n) /\ n.pc = "fail"
      BY <1>0, <1>p, SetPc
    <3> HIDE DEF n
    <3>3. Registers(n, Children(Daemon), TRUE)
      BY <1>t, <2>1, <3>2, GivesUp DEF Moved
    <3>4. Registers(n, Children(Daemon), forkFailed')
      BY <2>1, <2>2, <3>3, SameTable
    <3>5. Live(Daemon) /\ n.pc \in MasterPlaces
      BY <1>p, <1>l, <2>1, <3>2
    <3> QED
      BY <1>0, <2>1, <3>1, <3>2, <3>4, <3>5, DaemonGoesOn DEF Moved
  <2>4. CASE \E c \in Children(Daemon) :
               /\ proc[c].pc = "zombie"
               /\ proc' = [proc EXCEPT ![Daemon].pc = "fail", ![c] = NoProcess]
    <3>1. PICK c \in Children(Daemon) :
               /\ proc[c].pc = "zombie"
               /\ proc' = [proc EXCEPT ![Daemon].pc = "fail", ![c] = NoProcess]
      BY <2>4
    <3> QED
      BY <1>0, <2>1, <2>2, <3>1, ReapInv
  <2> QED
    BY <1>6, <2>3, <2>4 DEF scanFails
<1>7. CASE check_and_restartForkFails(Daemon)
  <2> DEFINE n == [d EXCEPT !.pc = "fail"]
  <2>1. /\ d.pc = "refork" /\ proc' = [proc EXCEPT ![Daemon] = n]
        /\ forkFailed' = TRUE /\ UNCHANGED <<term, stopped, returned>>
    BY <1>7 DEF check_and_restartForkFails
  <2>2. Moved(d, n) /\ n.pc = "fail"
    BY <1>0, <1>p, SetPc
  <2> HIDE DEF n
  <2>3. Registers(n, Children(Daemon), forkFailed')
    BY <1>t, <2>1, <2>2, GivesUp DEF Moved
  <2>4. Live(Daemon) /\ n.pc \in MasterPlaces
    BY <1>p, <1>l, <2>1, <2>2
  <2> QED
    BY <2>1, <2>2, <2>3, <2>4, DaemonGoesOn DEF Moved
<1>8. CASE check_and_restartStore(Daemon)
  <2> DEFINE m == [d EXCEPT !.worker[d.i] = d.pid]
  <2>1. /\ d.pc = "restore" /\ proc' = [proc EXCEPT ![Daemon] = NextScan(m)]
        /\ UNCHANGED <<term, stopped, forkFailed, returned>>
    BY <1>8 DEF check_and_restartStore
  <2>2. m \in Records /\ m.parent = d.parent
    BY <1>0, SetWorker
  <2>3. Registers(NextScan(m), Children(Daemon), forkFailed)
    BY <1>0, <1>t, <2>1, ScanStores
  <2> HIDE DEF m
  <2>4. /\ NextScan(m) \in Records /\ NextScan(m).parent = d.parent
        /\ NextScan(m).pc \in MasterPlaces
    BY <1>p, <2>2, NextScanIs DEF Moved
  <2>5. Live(Daemon)
    BY <1>p, <1>l, <2>1
  <2> QED
    BY <1>0, <2>1, <2>3, <2>4, <2>5, DaemonGoesOn
<1>9. CASE sleep(Daemon)
  <2>1. /\ d.pc = "sleep" /\ proc' = [proc EXCEPT ![Daemon] = Loop(d)]
        /\ UNCHANGED <<term, stopped, forkFailed, returned>>
    BY <1>9 DEF sleep
  <2>2. Moved(d, Loop(d)) /\ (d.running => Loop(d).pc = "scan")
        /\ (~d.running => Loop(d).pc = "exit")
    BY <1>0, LoopIs
  <2>3. Registers(Loop(d), Children(Daemon), forkFailed)
    BY <1>t, <2>1, <2>2, ScanGoesOn DEF Moved
  <2>4. Live(Daemon) /\ Loop(d).pc \in MasterPlaces
    BY <1>p, <1>l, <1>t, <2>1, <2>2
  <2> QED
    BY <1>0, <1>t, <2>1, <2>2, <2>3, <2>4, DaemonGoesOn DEF Moved
<1>10. CASE Exit(Daemon)
  <2>1. Live(Daemon)
    BY <1>p, <1>l, <1>10 DEF Exit
  <2> QED
    BY <1>0, <1>10, <2>1, EndInv DEF Exit
<1> QED
  BY <1>1, <1>2, <1>3, <1>4, <1>5, <1>6, <1>7, <1>8, <1>9, <1>10 DEF Step

\* A process other than the daemon takes a step of the program: only a worker
\* whose function has returned does.
LEMMA OtherStepInv ==
  ASSUME MasterInv, NEW p \in Pids \ {Daemon}, Step(p)
  PROVE  MasterInv'
<1> DEFINE r == proc[p]
<1>0. /\ ProcTypes /\ forkFailed \in BOOLEAN /\ stopped \in MasterPlaces \cup {"no"}
      /\ returned \in BOOLEAN /\ r \in Records
  BY TypesAre DEF MasterInv, ProcTypes
<1>p. /\ {"fork", "store", "scan", "refork", "restore", "sleep", "exit", "fail"} \subseteq MasterPlaces
      /\ \A x \in MasterPlaces : x \in Places
      /\ WorkerPlaces = {"work", "rework"}
  BY DEF MasterPlaces, Places, WorkerPlaces
<1>l. r.pc \in MasterPlaces => Live(p)
  BY DEF Live
<1>m. r.pc \in {"fork", "store", "scan", "refork", "restore", "sleep"} => returned
  BY <1>p DEF MasterInv, OneMaster
<1>n. r.running \in BOOLEAN
  BY <1>0 DEF Records
<1>1. CASE start_workerFork(p) \/ check_and_restartFork(p)
  BY <1>0, <1>1, ForkInv DEF start_workerFork, check_and_restartFork, WorkerPlaces
<1>2. CASE start_workerForkFails(p)
  <2>1. /\ r.pc = "fork" /\ proc' = [proc EXCEPT ![p] = NextStart(r)]
        /\ forkFailed' = forkFailed /\ UNCHANGED <<term, stopped, returned>>
    BY <1>0, <1>2 DEF start_workerForkFails
  <2>2. /\ NextStart(r) \in Records /\ NextStart(r).parent = r.parent
        /\ NextStart(r).pc \in MasterPlaces
    BY <1>0, <1>n, <1>p, NextStartIs DEF Moved
  <2>3. Live(p) /\ returned
    BY <1>p, <1>l, <1>m, <2>1
  <2> QED
    BY <1>0, <2>1, <2>2, <2>3, OtherGoesOn
<1>3. CASE start_workerStore(p)
  <2> DEFINE m == [r EXCEPT !.worker[r.i] = r.pid]
  <2>1. /\ r.pc = "store" /\ proc' = [proc EXCEPT ![p] = NextStart(m)]
        /\ UNCHANGED <<term, stopped, forkFailed, returned>>
    BY <1>3 DEF start_workerStore
  <2>2. m \in Records /\ m.parent = r.parent /\ m.running = r.running
    BY <1>0, SetWorker
  <2> HIDE DEF m
  <2>3. /\ NextStart(m) \in Records /\ NextStart(m).parent = r.parent
        /\ NextStart(m).pc \in MasterPlaces
    BY <1>n, <1>p, <2>2, NextStartIs DEF Moved
  <2>4. Live(p) /\ returned
    BY <1>p, <1>l, <1>m, <2>1
  <2> QED
    BY <1>0, <2>1, <2>3, <2>4, OtherGoesOn
<1>4. CASE scanRunning(p)
  <2>1. /\ r.pc = "scan" /\ proc' = [proc EXCEPT ![p] = NextScan(r)]
        /\ UNCHANGED <<term, stopped, forkFailed, returned>>
    BY <1>4 DEF scanRunning
  <2>2. Moved(r, NextScan(r)) /\ NextScan(r).pc \in MasterPlaces
    BY <1>0, <1>p, NextScanIs
  <2>3. Live(p) /\ returned
    BY <1>p, <1>l, <1>m, <2>1
  <2> QED
    BY <1>0, <2>1, <2>2, <2>3, OtherGoesOn DEF Moved
<1>5. CASE scanDown(p)
  <2>1. /\ r.pc = "scan" /\ WaitReaps(p, r.worker[r.i])
        /\ proc' = [proc EXCEPT ![p].pc = "refork", ![r.worker[r.i]] = NoProcess]
        /\ UNCHANGED <<term, stopped, forkFailed, returned>>
    BY <1>5 DEF scanDown
  <2>2. r.worker[r.i] \in Children(p) /\ proc[r.worker[r.i]].pc = "zombie"
    BY <2>1 DEF WaitReaps
  <2> QED
    BY <2>1, <2>2, ReapInv
<1>6. CASE scanFails(p)
  <2>1. r.pc = "scan" /\ UNCHANGED <<term, stopped, forkFailed, returned>>
    BY <1>6 DEF scanFails
  <2>3. CASE proc' = [proc EXCEPT ![p].pc = "fail"]
    <3> DEFINE n == [r EXCEPT !.pc = "fail"]
    <3>1. proc' = [proc EXCEPT ![p] = n]
      BY <2>3
    <3>2. Moved(r, n) /\ n.pc = "fail"
      BY <1>0, <1>p, SetPc
    <3> HIDE DEF n
    <3>3. Live(p) /\ returned /\ n.pc \in MasterPlaces
      BY <1>p, <1>l, <1>m, <2>1, <3>2
    <3> QED
      BY <1>0, <2>1, <3>1, <3>2, <3>3, OtherGoesOn DEF Moved
  <2>4. CASE \E c \in Children(p) :
               /\ proc[c].pc = "zombie"
               /\ proc' = [proc EXCEPT ![p].pc = "fail", ![c] = NoProcess]
    <3>1. PICK c \in Children(p) :
               /\ proc[c].pc = "zombie"
               /\ proc' = [proc EXCEPT ![p].pc = "fail", ![c] = NoProcess]
      BY <2>4
    <3> QED
      BY <2>1, <3>1, ReapInv
  <2> QED
    BY <1>6, <2>3, <2>4 DEF scanFails
<1>7. CASE check_and_restartForkFails(p)
  <2> DEFINE n == [r EXCEPT !.pc = "fail"]
  <2>1. /\ r.pc = "refork" /\ proc' = [proc EXCEPT ![p] = n]
        /\ forkFailed' = forkFailed /\ UNCHANGED <<term, stopped, returned>>
    BY <1>0, <1>7 DEF check_and_restartForkFails
  <2>2. Moved(r, n) /\ n.pc = "fail"
    BY <1>0, <1>p, SetPc
  <2> HIDE DEF n
  <2>3. Live(p) /\ returned /\ n.pc \in MasterPlaces
    BY <1>p, <1>l, <1>m, <2>1, <2>2
  <2> QED
    BY <1>0, <2>1, <2>2, <2>3, OtherGoesOn DEF Moved
<1>8. CASE check_and_restartStore(p)
  <2> DEFINE m == [r EXCEPT !.worker[r.i] = r.pid]
  <2>1. /\ r.pc = "restore" /\ proc' = [proc EXCEPT ![p] = NextScan(m)]
        /\ UNCHANGED <<term, stopped, forkFailed, returned>>
    BY <1>8 DEF check_and_restartStore
  <2>2. m \in Records /\ m.parent = r.parent
    BY <1>0, SetWorker
  <2> HIDE DEF m
  <2>3. /\ NextScan(m) \in Records /\ NextScan(m).parent = r.parent
        /\ NextScan(m).pc \in MasterPlaces
    BY <1>p, <2>2, NextScanIs DEF Moved
  <2>4. Live(p) /\ returned
    BY <1>p, <1>l, <1>m, <2>1
  <2> QED
    BY <1>0, <2>1, <2>3, <2>4, OtherGoesOn
<1>9. CASE sleep(p)
  <2>1. /\ r.pc = "sleep" /\ proc' = [proc EXCEPT ![p] = Loop(r)]
        /\ UNCHANGED <<term, stopped, forkFailed, returned>>
    BY <1>9 DEF sleep
  <2>2. Moved(r, Loop(r)) /\ Loop(r).pc \in MasterPlaces
    BY <1>0, <1>n, <1>p, LoopIs
  <2>3. Live(p) /\ returned
    BY <1>p, <1>l, <1>m, <2>1
  <2> QED
    BY <1>0, <2>1, <2>2, <2>3, OtherGoesOn DEF Moved
<1>10. CASE Exit(p)
  <2>1. Live(p)
    BY <1>p, <1>l, <1>10 DEF Exit
  <2> QED
    BY <1>0, <1>10, <2>1, EndInv DEF Exit
<1> QED
  BY <1>1, <1>2, <1>3, <1>4, <1>5, <1>6, <1>7, <1>8, <1>9, <1>10 DEF Step

\* A worker function returns: start_worker's child becomes a second master.
LEMMA WorkerReturnsInv ==
  ASSUME MasterInv, NEW p \in Pids, wfReturns(p)
  PROVE  MasterInv'
<1> DEFINE r == proc[p]
           n == IF r.pc = "work" THEN NextStart(r) ELSE [r EXCEPT !.pc = "exit"]
<1>0. ProcTypes /\ forkFailed \in BOOLEAN /\ returned \in BOOLEAN /\ r \in Records
  BY TypesAre DEF MasterInv, ProcTypes
<1>1. /\ r.pc \in WorkerPlaces /\ proc' = [proc EXCEPT ![p] = n]
      /\ returned' = (returned \/ r.pc = "work")
      /\ UNCHANGED <<term, stopped, forkFailed>>
  BY DEF wfReturns
<1>2. p # Daemon /\ Live(p)
  BY <1>1 DEF MasterInv, Tree, MasterPlaces, WorkerPlaces, Live
<1>3. /\ n \in Records /\ n.parent = r.parent /\ n.pc \in MasterPlaces
      /\ r.pc # "work" => n.pc = "exit"
  <2>1. CASE r.pc = "work"
    <3>1. r.running \in BOOLEAN
      BY <1>0 DEF Records
    <3> QED
      BY <1>0, <2>1, <3>1, NextStartIs DEF Moved, MasterPlaces
  <2>2. CASE r.pc # "work"
    <3>1. "exit" \in MasterPlaces /\ "exit" \in Places
      BY DEF MasterPlaces, Places
    <3> QED
      BY <1>0, <2>2, <3>1, SetPc DEF Moved
  <2> QED
    BY <2>1, <2>2
<1> HIDE DEF n
<1>4. returned' \in BOOLEAN /\ (returned => returned') /\ (~returned' => n.pc = "exit")
  BY <1>0, <1>1, <1>3
<1> QED
  BY <1>0, <1>1, <1>2, <1>3, <1>4, OtherGoesOn
-----------------------------------------------------------------------------
(***************************************************************************)
(* The daemon starts, and is asked to end.                                 *)
(***************************************************************************)

\* worker[] is not touched by a change of the other variables of the daemon.
LEMMA SameSlots ==
  ASSUME NEW d, NEW n, NEW C, NEW failed, Registers(d, C, failed),
         n.worker = d.worker, n.pc = d.pc, n.i = d.i, n.pid = d.pid
  PROVE  Registers(n, C, failed)
BY DEF Registers, Tends, Reaped, NotStarted

\* The launching process forks the daemon, whose worker[] is empty.
LEMMA DaemonizeInv ==
  ASSUME MasterInv, daemonize
  PROVE  MasterInv'
<1> DEFINE d == proc[Daemon]
           n == [d EXCEPT !.pc = "fork"]
<1>0. /\ ProcTypes /\ forkFailed \in BOOLEAN /\ d \in Records
      /\ "fork" \in MasterPlaces /\ "launch" \in MasterPlaces /\ "fork" \in Places
  BY MasterAssumption, TypesAre DEF MasterInv, ProcTypes, MasterPlaces, Places
<1>1. /\ d.pc = "launch" /\ proc' = [proc EXCEPT ![Daemon] = n]
      /\ UNCHANGED <<term, stopped, forkFailed, returned>>
  BY DEF daemonize
<1>2. Moved(d, n) /\ n.pc = "fork" /\ n.i = d.i
  BY <1>0, SetPc
<1> HIDE DEF n
<1>3. Registers(n, Children(Daemon), forkFailed)
  <2>1. \A s \in Slots : s >= 0
    BY DEF Slots
  <2> QED
    BY <1>1, <1>2, <2>1
    DEF MasterInv, Table, Registers, Moved, Tends, Reaped, NotStarted
<1>4. Live(Daemon)
  BY <1>0, <1>1 DEF Live
<1> QED
  BY <1>0, <1>1, <1>2, <1>3, <1>4, DaemonGoesOn DEF Moved

\* The fork of the daemon fails: there is no process and no child of one.
LEMMA DaemonizeFailsInv ==
  ASSUME MasterInv, daemonizeFails
  PROVE  MasterInv'
<1> USE MasterAssumption DEF MasterInv
<1>0. ProcTypes /\ term \subseteq Pids /\ stopped \in MasterPlaces \cup {"no"}
      /\ returned \in BOOLEAN
  BY TypesAre
<1>1. /\ proc[Daemon].pc = "launch" /\ proc' = [proc EXCEPT ![Daemon] = NoProcess]
      /\ forkFailed' = TRUE /\ UNCHANGED <<term, stopped, returned>>
  BY DEF daemonizeFails
<1>2. NoProcess \in Records /\ NoProcess.pc = "none" /\ NoProcess.parent = 0
  BY NoProcessType
<1>3. proc'[Daemon] = NoProcess /\ \A q \in Pids \ {Daemon} : proc'[q] = proc[q]
  BY <1>0, <1>1 DEF ProcTypes
<1>4. ProcTypes'
  BY <1>0, <1>1, <1>2 DEF ProcTypes
<1>5. Children(Daemon) = {}
  BY <1>1, ZenonT(40) DEF Table, Registers, Tends, NotStarted, Children
<1>6. Children(Daemon)' = {}
  BY <1>2, <1>3, <1>5 DEF Children
<1>7. Tree'
  BY <1>2, <1>3, <1>6 DEF Tree
<1>8. Table'
  BY <1>1, <1>3, <1>6, NoTable DEF Table
<1>9. Live(Daemon) /\ ~Live(Daemon)'
  BY <1>1, <1>2, <1>3 DEF Live, MasterPlaces, WorkerPlaces
<1>10. OneMaster'
  BY <1>1, <1>3, <1>9 DEF OneMaster
<1>11. AllTold'
  BY <1>1, <1>9, NotAsked DEF AllTold
<1> QED
  BY <1>0, <1>1, <1>4, <1>7, <1>8, <1>10, <1>11, AllTypes

\* SIGUSR1: with an empty slot the daemon ends and all are told; otherwise those
\* of worker[] are, which are all its children when it sleeps.
LEMMA SignalInv ==
  ASSUME MasterInv, signal_handle
  PROVE  MasterInv'
<1> USE MasterAssumption DEF MasterInv
<1> DEFINE d == proc[Daemon]
           n == [d EXCEPT !.running = FALSE]
<1>0. /\ ProcTypes /\ term \subseteq Pids /\ stopped \in MasterPlaces \cup {"no"}
      /\ returned \in BOOLEAN /\ forkFailed \in BOOLEAN /\ d \in Records
  BY TypesAre DEF ProcTypes
<1>1. /\ d.pc \in MasterPlaces /\ Live(Daemon)
      /\ stopped' = IF stopped = "no" THEN d.pc ELSE stopped
      /\ UNCHANGED <<forkFailed, returned>>
  BY DEF signal_handle, Live
<1>2. stopped' \in MasterPlaces \cup {"no"}
  BY <1>0, <1>1
<1>3. CASE \E s \in Slots : d.worker[s] = 0
  <2>1. proc' = AfterEnd({Daemon}, proc) /\ term' = {q \in Pids \ {Daemon} : Live(q)}
    BY <1>3 DEF signal_handle
  <2> QED
    BY <1>1, <1>2, <2>1, EndInv
<1>4. CASE \A s \in Slots : d.worker[s] # 0
  <2>1. /\ proc' = [proc EXCEPT ![Daemon] = n]
        /\ term' = term \cup {q \in Pids : Live(q) /\ \E s \in Slots : d.worker[s] = q}
    BY <1>4 DEF signal_handle
  <2>2. /\ n \in Records /\ n.pc = d.pc /\ n.i = d.i /\ n.pid = d.pid
        /\ n.parent = d.parent /\ n.worker = d.worker /\ n.running = FALSE
    BY <1>0 DEF Records
  <2> HIDE DEF n
  <2>3. /\ ProcTypes' /\ Tree'
        /\ proc'[Daemon] = n /\ \A q \in Pids \ {Daemon} : proc'[q] = proc[q]
        /\ Children(Daemon)' = Children(Daemon)
        /\ \A q \in Pids : Live(q)' <=> Live(q)
    BY <1>0, <1>1, <2>1, <2>2, GoesOn
  <2>4. Table'
    BY <1>1, <2>2, <2>3, SameSlots DEF Table
  <2>5. OneMaster'
    BY <1>1, <2>3 DEF OneMaster
  <2>6. ASSUME ~returned, stopped' \in {"fork", "store", "sleep"}
        PROVE  /\ \A q \in Pids \ {Daemon} : Live(q) => q \in term'
               /\ d.pc \in {"sleep", "exit"}
    <3>1. CASE stopped = "no"
      <4>1. d.pc \in {"fork", "store", "sleep"}
        BY <1>1, <2>6, <3>1
      <4>2. d.pc = "sleep"
        <5>1. d.i \in Slots /\ d.i >= d.i
          BY <1>0 DEF Records, Slots
        <5>2. d.pc \in {"fork", "store"} => d.worker[d.i] = 0
          BY <5>1 DEF Table, Registers, Tends, NotStarted
        <5> QED
          BY <1>4, <4>1, <5>1, <5>2
      <4>3. ASSUME NEW q \in Pids \ {Daemon}, Live(q)
            PROVE  q \in term'
        <5>1. q \in Children(Daemon)
          BY <1>1, <2>6, <4>3 DEF OneMaster, Children, Live, MasterPlaces, WorkerPlaces
        <5>2. \E s \in Slots : d.worker[s] = q
          BY <4>2, <5>1 DEF Table, Registers
        <5> QED
          BY <2>1, <4>3, <5>2
      <4> QED
        BY <4>2, <4>3
    <3>2. CASE stopped # "no"
      BY <1>1, <2>1, <2>6, <3>2 DEF AllTold
    <3> QED
      BY <3>1, <3>2
  <2>7. AllTold'
    BY <1>1, <2>2, <2>3, <2>6 DEF AllTold
  <2>8. term' \subseteq Pids
    BY <1>0, <2>1
  <2> QED
    BY <1>0, <1>1, <1>2, <2>3, <2>4, <2>5, <2>7, <2>8, AllTypes
<1> QED
  BY <1>3, <1>4
-----------------------------------------------------------------------------
\* Before the daemon is forked there is nothing but the launching process.
LEMMA MasterInitInv == MasterInit => MasterInv
<1> SUFFICES ASSUME MasterInit
             PROVE  MasterInv
  OBVIOUS
<1> USE MasterAssumption
<1> DEFINE d == [NoProcess EXCEPT !.pc = "launch"]
<1>1. 0 \in Slots
  BY DEF Slots
<1>2. /\ d \in Records /\ d.pc = "launch" /\ d.parent = 0 /\ d.i = 0
      /\ \A s \in Slots : d.worker[s] = 0
  BY <1>1 DEF NoProcess, Records, MasterPlaces
<1> HIDE DEF d
<1>3. /\ proc = [p \in Pids |-> IF p = Daemon THEN d ELSE NoProcess]
      /\ term = {} /\ stopped = "no" /\ forkFailed = FALSE /\ returned = FALSE
  BY DEF MasterInit, d
<1>4. NoProcess \in Records /\ NoProcess.pc = "none" /\ NoProcess.parent = 0
  BY NoProcessType
<1>5. proc[Daemon] = d /\ \A p \in Pids \ {Daemon} : proc[p] = NoProcess
  BY <1>3
<1>6. proc \in [Pids -> Records]
  BY <1>2, <1>3, <1>4
<1>7. TypeOK
  BY <1>3, <1>6 DEF TypeOK, Records
<1>8. Live(Daemon) /\ \A p \in Pids \ {Daemon} : ~Live(p)
  BY <1>2, <1>4, <1>5 DEF Live, MasterPlaces, WorkerPlaces
<1>9. Children(Daemon) = {}
  BY <1>2, <1>4, <1>5 DEF Children
<1>10. Tree
  BY <1>2, <1>5, <1>8 DEF Tree, MasterPlaces
<1>11. Table
  BY <1>2, <1>5, <1>9 DEF Table, Registers, Tends, NotStarted
<1>12. OneMaster
  BY <1>4, <1>5, <1>8 DEF OneMaster
<1>13. AllTold
  BY <1>3 DEF AllTold
<1> QED
  BY <1>7, <1>10, <1>11, <1>12, <1>13 DEF MasterInv

\* Every step of the daemon, of its workers and of the signals keeps the
\* invariant.
LEMMA MasterStepInv == MasterInv /\ [MasterNext]_mvars => MasterInv'
<1> SUFFICES ASSUME MasterInv, [MasterNext]_mvars
             PROVE  MasterInv'
  OBVIOUS
<1>1. CASE daemonize
  BY <1>1, DaemonizeInv
<1>2. CASE daemonizeFails
  BY <1>2, DaemonizeFailsInv
<1>3. CASE signal_handle
  BY <1>3, SignalInv
<1>4. ASSUME NEW p \in Pids, Step(p)
      PROVE  MasterInv'
  BY <1>4, DaemonStepInv, OtherStepInv
<1>5. ASSUME NEW p \in Pids, wfReturns(p)
      PROVE  MasterInv'
  BY <1>5, WorkerReturnsInv
<1>6. ASSUME NEW p \in Pids, Die(p)
      PROVE  MasterInv'
  <2>1. stopped \in MasterPlaces \cup {"no"}
    BY TypesAre DEF MasterInv
  <2> QED
    BY <1>6, <2>1, EndInv DEF Die
<1>7. CASE UNCHANGED mvars
  BY <1>7 DEF mvars, MasterInv, TypeOK, Tree, Table, OneMaster, AllTold, Children, Live
<1> QED
  BY <1>1, <1>2, <1>3, <1>4, <1>5, <1>6, <1>7 DEF MasterNext

\* The invariant holds in every reachable state.
LEMMA MasterInvariant == MasterSpec => []MasterInv
BY MasterInitInv, MasterStepInv, PTL DEF MasterSpec
-----------------------------------------------------------------------------
\* start_worker and check_and_restart keep every child in one slot of worker[],
\* except the one that was forked and is about to be stored, although a pid
\* comes back after its process was reaped.
THEOREM MasterWorkersRegistered == MasterSpec => []WorkersRegistered
<1>1. MasterInv => WorkersRegistered
  <2> SUFFICES ASSUME MasterInv, NEW c \in Children(Daemon),
                      ~(proc[Daemon].pc \in {"store", "restore"} /\ proc[Daemon].pid = c)
               PROVE  Cardinality({s \in Slots : proc[Daemon].worker[s] = c}) = 1
    BY DEF MasterInv, WorkersRegistered
  <2>1. c # 0
    BY MasterAssumption DEF Children
  <2>2. PICK s \in Slots : proc[Daemon].worker[s] = c
    BY DEF MasterInv, Table, Registers
  <2>3. \A t \in Slots : proc[Daemon].worker[t] = c => t = s
    BY <2>1, <2>2 DEF MasterInv, Table, Registers
  <2>4. {t \in Slots : proc[Daemon].worker[t] = c} = {s}
    BY <2>2, <2>3
  <2> QED
    BY <2>4, FS_Singleton
<1> QED
  BY <1>1, MasterInvariant, PTL

\* The daemon gives up only after one of its forks failed: as long as none has,
\* waitpid(worker[i]) finds the worker running or reaps it.
THEOREM MasterFailsOnlyAfterFork == MasterSpec => []FailsOnlyAfterFork
<1>1. MasterInv => FailsOnlyAfterFork
  BY DEF MasterInv, Table, Registers, FailsOnlyAfterFork
<1> QED
  BY <1>1, MasterInvariant, PTL

\* A daemon that gets SIGUSR1 while it sleeps or starts its workers has sent
\* SIGTERM to every process that it leaves behind.
THEOREM MasterShutdownLeavesNone == MasterSpec => []ShutdownLeavesNone
<1>1. MasterInv => ShutdownLeavesNone
  BY MasterAssumption DEF MasterInv, AllTold, ShutdownLeavesNone, Ended
<1> QED
  BY <1>1, MasterInvariant, PTL
=============================================================================

------------------------------- MODULE MPool --------------------------------
(***************************************************************************)
(* The memory pool of the server (Src/mpool.c): fixed-size blocks, a list  *)
(* of nodes with a "used" flag each, a counter, one mutex, one condition   *)
(* variable.  Its client is Src/connection.c under __SERVER_MPOOL__, where *)
(* new_connection takes a block and connection_free gives it back; a       *)
(* client here is a connection, its calls may come from different threads. *)
(* A client gives back what it got once (Epoll and Iocp look at the paths  *)
(* of the server that do not keep to that).                                *)
(***************************************************************************)
EXTENDS Integers, FiniteSets

CONSTANTS
  Clients,           \* the connections that need a block
  block_size,
  total_size

num_blocks == total_size \div block_size
Blocks == 1 .. num_blocks
NoBlock == 0     \* the null pointer

ASSUME MPoolAssumption ==
  /\ IsFiniteSet(Clients)
  /\ block_size \in Nat \ {0}
  /\ total_size \in Nat

VARIABLES
  used,    \* used[b]: the flag of the node of block b; its place in the list is b
  count,
  linked,  \* number of nodes pool_init has linked so far
  pos,     \* pos[c]: where connection c is
  data     \* data[c]: what pool_alloc returned to c

mpoolvars == <<used, count, linked, pos, data>>

Waiters == {c \in Clients : pos[c] = "waiting"}
Woken   == {c \in Clients : pos[c] = "woken"}

\* The nodes pool_alloc may take: linked, and with the flag clear.
Free == {b \in Blocks : b <= linked /\ used[b] = 0}

-----------------------------------------------------------------------------
MPoolInit ==
  /\ used = [b \in Blocks |-> 0]
  /\ count = 0
  /\ linked = 0
  /\ pos = [c \in Clients |-> "none"]
  /\ data = [c \in Clients |-> NoBlock]

\* The condition of the loop in pool_init.
MoreToLink == linked < num_blocks

\* One turn of the loop in pool_init: a node is linked in at the head.
pool_init ==
  /\ MoreToLink
  /\ linked' = linked + 1
  /\ count' = count + 1
  /\ UNCHANGED <<used, pos, data>>

\* pool_alloc after its test of count: take the first node that is not in use
\* (the list starts with the block linked last), or return NULL.
TakeBlock(c) ==
  /\ \/ \E b \in Free :
          /\ \A f \in Free : f <= b
          /\ used' = [used EXCEPT ![b] = 1]
          /\ count' = count - 1
          /\ data' = [data EXCEPT ![c] = b]
     \/ /\ Free = {}
        /\ data' = [data EXCEPT ![c] = NoBlock]
        /\ UNCHANGED <<used, count>>
  /\ pos' = [pos EXCEPT ![c] = "has"]
  /\ UNCHANGED linked

\* pool_alloc: wait when nothing is left, otherwise take a block.
pool_alloc(c) ==
  /\ linked = num_blocks
  /\ pos[c] = "none"
  /\ IF count = 0
     THEN /\ pos' = [pos EXCEPT ![c] = "waiting"]
          /\ UNCHANGED <<used, count, linked, data>>
     ELSE TakeBlock(c)

\* pthread_cond_wait may return without a signal.
WakesSpuriously(c) ==
  /\ pos[c] = "waiting"
  /\ pos' = [pos EXCEPT ![c] = "woken"]
  /\ UNCHANGED <<used, count, linked, data>>

\* pool_alloc after pthread_cond_wait: count is not looked at again.
AllocAfterWait(c) ==
  /\ pos[c] = "woken"
  /\ TakeBlock(c)

\* Mutant: nobody is signalled.
SignalOne_Silent(c, s) == pos' = [pos EXCEPT ![c] = s]

\* pthread_cond_signal in pool_free, with the rest of the effect on pos: one
\* waiting connection, if there is one, is woken.
SignalOne(c, s) ==
  IF Waiters = {}
  THEN pos' = [pos EXCEPT ![c] = s]
  ELSE \E w \in Waiters : pos' = [pos EXCEPT ![c] = s, ![w] = "woken"]

\* pool_free: clear the flag, count, signal one waiter.
pool_free(c) ==
  /\ pos[c] = "has"
  /\ data[c] \in Blocks
  /\ used' = [used EXCEPT ![data[c]] = 0]
  /\ count' = count + 1
  /\ data' = [data EXCEPT ![c] = NoBlock]
  /\ SignalOne(c, "none")
  /\ UNCHANGED linked

\* pool_free of a pointer that belongs to no node (the NULL of a failed
\* pool_alloc): a message, and nothing changes in the pool.
FreeInvalidPointer(c) ==
  /\ pos[c] = "has"
  /\ data[c] \notin Blocks
  /\ pos' = [pos EXCEPT ![c] = "none"]
  /\ UNCHANGED <<used, count, linked, data>>

MPoolNext ==
  \/ pool_init
  \/ \E c \in Clients :
       \/ pool_alloc(c)
       \/ WakesSpuriously(c)
       \/ AllocAfterWait(c)
       \/ pool_free(c)
       \/ FreeInvalidPointer(c)

MPoolSpec == MPoolInit /\ [][MPoolNext]_mpoolvars

-----------------------------------------------------------------------------
\* Type correctness of the pool and of its clients.
MPoolTypeOK ==
  /\ used \in [Blocks -> {0, 1}]
  /\ count \in Int
  /\ linked \in 0 .. num_blocks
  /\ pos \in [Clients -> {"none", "waiting", "woken", "has"}]
  /\ data \in [Clients -> Blocks \cup {NoBlock}]

\* As long as a connection waits for a block, every free block has a
\* connection that was already woken for it.
BlockNotForgotten == MPoolTypeOK /\ (Waiters # {} => count <= Cardinality(Woken))

-----------------------------------------------------------------------------
BlockPool == INSTANCE ResourcePool WITH
          Resources <- Blocks,
          free      <- Free,
          lent      <- [c \in Clients |-> {data[c]} \ {NoBlock}]

\* Every step of the memory pool is a step of ResourcePool or invisible: in
\* particular the flags used say who has what, and two connections never share
\* per_io_data.
ImplementsBlockPool == BlockPool!Spec
=============================================================================

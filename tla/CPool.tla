------------------------------- MODULE CPool --------------------------------
(***************************************************************************)
(* The MySQL connection pool (Src/cpool.c) and the three pieces of code    *)
(* that take connections from it: mysql_execute_query (Src/cpool.c),       *)
(* exe_sql (Src/model.c) and the view mysqltest (Src/testviews/mysql.c).   *)
(*                                                                         *)
(* Everything between pthread_mutex_lock and pthread_mutex_unlock is one   *)
(* action; pthread_cond_wait ends an action and returning from it starts   *)
(* another.  A thread that was signalled (or woke spuriously, which POSIX  *)
(* allows) is "woken" until it gets the mutex back: other threads may run  *)
(* in between and take the connection it was signalled for.                *)
(***************************************************************************)
EXTENDS Integers, Sequences, FiniteSets

CONSTANTS
  Threads,            \* server threads that run views
  min_connections,    \* mysql_pool_init tries to open this many (20 in the code)
  Callers,            \* which callers of the pool the application contains
  SpuriousWakeups,    \* whether pthread_cond_wait may return without a signal
  NULL

AllCallers ==
  {"mysql_execute_query", "exe_sql", "mysqltest",
   "get_mysql_connection", "destroy_mysql_pool"}

Conns == 1 .. min_connections

ASSUME CPoolAssumption ==
  /\ IsFiniteSet(Threads)
  /\ min_connections \in Nat \ {0}
  /\ NULL \notin Conns
  /\ Callers \subseteq AllCallers
  /\ SpuriousWakeups \in BOOLEAN

VARIABLES
  mysql_list,         \* the linked list of idle connections, head first
  free_connections,
  is_idle_block,
  opened,             \* how far the loop of mysql_pool_init has come
  live,               \* connections allocated and not destroyed
  pc,                 \* pc[t]: where thread t is
  caller,             \* caller[t]: the code on whose behalf t uses the pool
  conn,               \* conn[t]: the connection t was given, or NULL
  crashed             \* the process was killed by a fault

vars == <<mysql_list, free_connections, is_idle_block, opened, live,
          pc, caller, conn, crashed>>

waiting == {t \in Threads : pc[t] = "waiting"}
woken   == {t \in Threads : pc[t] = "woken"}

-----------------------------------------------------------------------------
\* conn_push: append at the tail and count.
conn_push(c) ==
  /\ mysql_list' = Append(mysql_list, c)
  /\ free_connections' = free_connections + 1

\* What conn_pop returns, and what it leaves behind.
Popped == IF mysql_list = <<>> THEN NULL ELSE Head(mysql_list)

\* Mutant: the head is handed out and stays linked.
conn_pop_KeepsHead ==
  IF mysql_list = <<>>
  THEN UNCHANGED <<mysql_list, free_connections>>
  ELSE /\ free_connections' = free_connections - 1
       /\ UNCHANGED mysql_list

conn_pop ==
  IF mysql_list = <<>>
  THEN UNCHANGED <<mysql_list, free_connections>>
  ELSE /\ mysql_list' = Tail(mysql_list)
       /\ free_connections' = free_connections - 1

\* pthread_cond_signal on idle_signal, together with the rest of the action's
\* effect on pc: t moves to state s, and one waiter, if there is one, is woken.
SignalAndMove(t, s) ==
  IF waiting = {}
  THEN pc' = [pc EXCEPT ![t] = s]
  ELSE \E w \in waiting : pc' = [pc EXCEPT ![t] = s, ![w] = "woken"]

\* Mutant: a single blocked thread is overlooked.
ThreadsBlock_OffByOne == is_idle_block > 1

\* The test of is_idle_block in release_mysql_connection.
ThreadsBlock == is_idle_block # 0

\* release_mysql_connection, after which t is idle again.  The signal is sent
\* only when is_idle_block says that a thread blocks.
release_mysql_connection(t) ==
  /\ conn_push(conn[t])
  /\ IF ThreadsBlock
     THEN SignalAndMove(t, "idle")
     ELSE pc' = [pc EXCEPT ![t] = "idle"]
  /\ conn' = [conn EXCEPT ![t] = NULL]
  /\ UNCHANGED <<is_idle_block, opened, live, caller, crashed>>

-----------------------------------------------------------------------------
Init ==
  /\ mysql_list = <<>>
  /\ free_connections = 0
  /\ is_idle_block = 0
  /\ opened = 0
  /\ live = {}
  /\ pc = [t \in Threads |-> "idle"]
  /\ caller = [t \in Threads |-> NULL]
  /\ conn = [t \in Threads |-> NULL]
  /\ crashed = FALSE

\* The condition of the loop in mysql_pool_init.
MoreToOpen == opened < min_connections

\* One turn of the loop in mysql_pool_init: mysql_new_connection either
\* connects, and the connection is pushed, or fails and the slot stays empty.
\* main runs the whole loop before it starts the server threads.
mysql_pool_init ==
  /\ MoreToOpen
  /\ opened' = opened + 1
  /\ \/ /\ conn_push(opened + 1)
        /\ live' = live \cup {opened + 1}
     \/ UNCHANGED <<mysql_list, free_connections, live>>
  /\ UNCHANGED <<is_idle_block, pc, caller, conn, crashed>>

Running ==
  /\ opened = min_connections
  /\ ~crashed

\* get_mysql_connection_block up to its return, or up to pthread_cond_wait.
get_mysql_connection_block(t, who) ==
  /\ Running
  /\ pc[t] = "idle"
  /\ who \in Callers \cap {"mysql_execute_query", "exe_sql", "mysqltest"}
  /\ caller' = [caller EXCEPT ![t] = who]
  /\ conn_pop
  /\ conn' = [conn EXCEPT ![t] = Popped]
  /\ IF Popped = NULL
     THEN /\ is_idle_block' = is_idle_block + 1
          /\ pc' = [pc EXCEPT ![t] = "waiting"]
     ELSE /\ pc' = [pc EXCEPT ![t] = "using"]
          /\ UNCHANGED is_idle_block
  /\ UNCHANGED <<opened, live, crashed>>

\* pthread_cond_wait may return without a signal.
SpuriousWakeup(t) ==
  /\ Running
  /\ SpuriousWakeups
  /\ pc[t] = "waiting"
  /\ pc' = [pc EXCEPT ![t] = "woken"]
  /\ UNCHANGED <<mysql_list, free_connections, is_idle_block, opened, live,
                 caller, conn, crashed>>

\* Mutant: the thread that leaves the blocking branch is still counted.
AfterWait_KeepsCount(t) ==
  /\ Running
  /\ pc[t] = "woken"
  /\ conn_pop
  /\ conn' = [conn EXCEPT ![t] = Popped]
  /\ pc' = [pc EXCEPT ![t] = "using"]
  /\ UNCHANGED <<is_idle_block, opened, live, caller, crashed>>

\* The rest of get_mysql_connection_block, once the mutex is held again: the
\* code pops once, whether or not the list has become empty in the meantime.
AfterWait(t) ==
  /\ Running
  /\ pc[t] = "woken"
  /\ conn_pop
  /\ conn' = [conn EXCEPT ![t] = Popped]
  /\ is_idle_block' = is_idle_block - 1
  /\ pc' = [pc EXCEPT ![t] = "using"]
  /\ UNCHANGED <<opened, live, caller, crashed>>

\* get_mysql_connection: the same without blocking; NULL when empty.
get_mysql_connection(t) ==
  /\ Running
  /\ pc[t] = "idle"
  /\ "get_mysql_connection" \in Callers
  /\ caller' = [caller EXCEPT ![t] = "get_mysql_connection"]
  /\ conn_pop
  /\ conn' = [conn EXCEPT ![t] = Popped]
  /\ pc' = [pc EXCEPT ![t] = "using"]
  /\ UNCHANGED <<is_idle_block, opened, live, crashed>>

\* mysql_execute_query and a client of get_mysql_connection test for NULL and
\* give up.
ReturnWithoutConn(t) ==
  /\ Running
  /\ pc[t] = "using"
  /\ conn[t] = NULL
  /\ caller[t] \in {"mysql_execute_query", "get_mysql_connection"}
  /\ pc' = [pc EXCEPT ![t] = "idle"]
  /\ UNCHANGED <<mysql_list, free_connections, is_idle_block, opened, live,
                 caller, conn, crashed>>

\* Every caller's normal end: the query is done, the connection goes back.
\* mysql_execute_query comes here when the query failed, too.
ReturnConn(t) ==
  /\ Running
  /\ pc[t] = "using"
  /\ conn[t] # NULL
  /\ release_mysql_connection(t)

\* exe_sql returns at once when the query fails and keeps the connection.
ExeSqlQueryError(t) ==
  /\ Running
  /\ pc[t] = "using"
  /\ conn[t] # NULL
  /\ caller[t] = "exe_sql"
  /\ pc' = [pc EXCEPT ![t] = "idle"]
  /\ conn' = [conn EXCEPT ![t] = NULL]
  /\ UNCHANGED <<mysql_list, free_connections, is_idle_block, opened, live,
                 caller, crashed>>

\* exe_sql and mysqltest do not test for NULL (a fault), and free a result that
\* mysql_free_result has freed (undefined: the process may be aborted, or run
\* on to ReturnConn).
Fault(t) ==
  /\ Running
  /\ pc[t] = "using"
  /\ caller[t] \in {"exe_sql", "mysqltest"}
  /\ crashed' = TRUE
  /\ UNCHANGED <<mysql_list, free_connections, is_idle_block, opened, live,
                 pc, caller, conn>>

\* Mutant: the connections are destroyed and stay in the list.
destroy_mysql_pool_KeepsList(t) ==
  /\ Running
  /\ pc[t] = "idle"
  /\ "destroy_mysql_pool" \in Callers
  /\ live' = live \ {mysql_list[i] : i \in DOMAIN mysql_list}
  /\ UNCHANGED <<mysql_list, free_connections, is_idle_block, opened, pc,
                 caller, conn, crashed>>

\* destroy_mysql_pool closes and frees every idle connection.
destroy_mysql_pool(t) ==
  /\ Running
  /\ pc[t] = "idle"
  /\ "destroy_mysql_pool" \in Callers
  /\ live' = live \ {mysql_list[i] : i \in DOMAIN mysql_list}
  /\ mysql_list' = <<>>
  /\ free_connections' = free_connections - Len(mysql_list)
  /\ UNCHANGED <<is_idle_block, opened, pc, caller, conn, crashed>>

ThreadStep(t) ==
  \/ \E who \in AllCallers : get_mysql_connection_block(t, who)
  \/ SpuriousWakeup(t)
  \/ AfterWait(t)
  \/ get_mysql_connection(t)
  \/ ReturnWithoutConn(t)
  \/ ReturnConn(t)
  \/ ExeSqlQueryError(t)
  \/ Fault(t)
  \/ destroy_mysql_pool(t)

Next == mysql_pool_init \/ \E t \in Threads : ThreadStep(t)

Spec == Init /\ [][Next]_vars

\* The scheduler runs every runnable thread, and a query ends (the client
\* library returns or times out).  Nothing obliges a thread to call the pool,
\* a waiter to wake without a signal, or a fault to happen.
Fairness ==
  /\ WF_vars(mysql_pool_init)
  /\ \A t \in Threads :
       /\ WF_vars(AfterWait(t))
       /\ WF_vars(ReturnWithoutConn(t) \/ ReturnConn(t) \/ ExeSqlQueryError(t))

FairSpec == Spec /\ Fairness

-----------------------------------------------------------------------------
PcStates == {"idle", "waiting", "woken", "using"}

\* Type correctness of the pool's fields and of the threads' control state.
TypeOK ==
  /\ mysql_list \in Seq(Conns)
  /\ free_connections \in Int
  /\ is_idle_block \in Int
  /\ opened \in 0 .. min_connections
  /\ live \in SUBSET Conns
  /\ pc \in [Threads -> PcStates]
  /\ caller \in [Threads -> AllCallers \cup {NULL}]
  /\ conn \in [Threads -> Conns \cup {NULL}]
  /\ crashed \in BOOLEAN

\* A connection is linked into the list at most once, is never in the list
\* while a thread uses it, and is never used by two threads: the hand-over in
\* conn_push/conn_pop is exclusive.
OneOwner ==
  /\ \A i, j \in DOMAIN mysql_list : mysql_list[i] = mysql_list[j] => i = j
  /\ \A t \in Threads, i \in DOMAIN mysql_list : conn[t] # mysql_list[i]
  /\ \A t, u \in Threads : conn[t] = conn[u] /\ conn[t] # NULL => t = u

\* No connection is used or lent again after destroy_mysql_connection freed it.
NoUseAfterDestroy ==
  /\ \A i \in DOMAIN mysql_list : mysql_list[i] \in live
  /\ \A t \in Threads : conn[t] # NULL => conn[t] \in live

\* The two counters say what they stand for: free_connections is the length
\* of the list, is_idle_block the number of threads inside the blocking branch
\* of get_mysql_connection_block.
CountersAgree ==
  /\ free_connections = Len(mysql_list)
  /\ is_idle_block = Cardinality(waiting) + Cardinality(woken)

\* No wakeup is lost: as long as a thread sleeps in pthread_cond_wait, every
\* idle connection has a thread that was already woken to fetch it.
NoLostWakeup ==
  waiting # {} => Len(mysql_list) <= Cardinality(woken)

\* cpool.c:145: "如果为空，则阻塞" (if the pool is empty, block): a caller of
\* get_mysql_connection_block comes back with a connection.
BlocksUntilConnection ==
  \A t \in Threads :
    pc[t] = "using" /\ caller[t] # "get_mysql_connection" => conn[t] # NULL

\* An idle connection and a sleeping thread do not face each other forever.
IdleConnectionFound ==
  (mysql_list # <<>> /\ waiting # {}) ~>
    (mysql_list = <<>> \/ waiting = {} \/ crashed)

-----------------------------------------------------------------------------
\* The pool as its clients see it: which connections are idle, who has which.
Pool == INSTANCE ResourcePool WITH
          Resources <- Conns,
          Clients   <- Threads,
          free      <- {mysql_list[i] : i \in DOMAIN mysql_list},
          lent      <- [t \in Threads |-> {conn[t]} \ {NULL}]

\* Every step of the pool is a step of ResourcePool, or invisible to clients.
ImplementsResourcePool == Pool!Spec
=============================================================================

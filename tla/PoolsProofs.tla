---------------------------- MODULE PoolsProofs -----------------------------
(***************************************************************************)
(* Proofs about the two pools: the connection pool, for every number of    *)
(* threads and of connections, every set of callers, with and without      *)
(* spurious wakeups; and the memory pool, for every set of connections and *)
(* every size of the pool and of its blocks.                               *)
(***************************************************************************)
EXTENDS CPool, MPool, FiniteSetTheorems, SequenceTheorems, TLAPS

(***************************************************************************)
(* The connection pool.                                                    *)
(***************************************************************************)

\* Until mysql_pool_init is done no thread has entered the pool, so that its
\* pushes, which signal nobody, meet no waiter.
InitFirst == opened < min_connections => \A t \in Threads : pc[t] = "idle"

\* mysql_pool_init pushes connections that are new.
Fresh ==
  /\ \A i \in DOMAIN mysql_list : mysql_list[i] <= opened
  /\ \A t \in Threads : conn[t] # NULL => conn[t] <= opened

\* Only a thread that is using the pool has a connection.
UsersOwn == \A t \in Threads : conn[t] # NULL => pc[t] = "using"

\* The inductive invariant.
IInv ==
  /\ TypeOK
  /\ InitFirst
  /\ Fresh
  /\ UsersOwn
  /\ OneOwner
  /\ NoUseAfterDestroy
  /\ CountersAgree
  /\ NoLostWakeup

-----------------------------------------------------------------------------
\* What Append and Tail do to a sequence, in the form the steps below use.
LEMMA AppendFacts ==
  ASSUME NEW S, NEW s \in Seq(S), NEW e \in S
  PROVE  /\ Append(s, e) \in Seq(S)
         /\ Len(Append(s, e)) = Len(s) + 1
         /\ DOMAIN Append(s, e) = DOMAIN s \cup {Len(s) + 1}
         /\ Len(s) + 1 \notin DOMAIN s
         /\ \A i \in DOMAIN s : Append(s, e)[i] = s[i]
         /\ Append(s, e)[Len(s) + 1] = e
<1>1. /\ Append(s, e) \in Seq(S)
      /\ Len(Append(s, e)) = Len(s) + 1
      /\ \A i \in 1 .. Len(s) : Append(s, e)[i] = s[i]
      /\ Append(s, e)[Len(s) + 1] = e
  BY AppendProperties
<1>2. /\ Len(s) \in Nat
      /\ DOMAIN s = 1 .. Len(s)
      /\ DOMAIN Append(s, e) = 1 .. Len(Append(s, e))
  BY <1>1, LenProperties
<1> QED
  BY <1>1, <1>2

\* What Tail does to a sequence, in the same form.
LEMMA TailFacts ==
  ASSUME NEW S, NEW s \in Seq(S), s # <<>>
  PROVE  /\ Head(s) = s[1]
         /\ 1 \in DOMAIN s
         /\ Head(s) \in S
         /\ Tail(s) \in Seq(S)
         /\ Len(Tail(s)) = Len(s) - 1
         /\ \A i \in DOMAIN Tail(s) :
              /\ i \in Nat \ {0}
              /\ i + 1 \in DOMAIN s
              /\ Tail(s)[i] = s[i + 1]
         /\ \A i \in DOMAIN s : i # 1 => i - 1 \in DOMAIN Tail(s)
<1>1. /\ Head(s) \in S
      /\ Tail(s) \in Seq(S)
      /\ Len(Tail(s)) = Len(s) - 1
      /\ \A i \in 1 .. Len(Tail(s)) : Tail(s)[i] = s[i + 1]
  BY HeadTailProperties
<1>2. /\ Len(s) \in Nat \ {0}
      /\ DOMAIN s = 1 .. Len(s)
      /\ DOMAIN Tail(s) = 1 .. Len(Tail(s))
  BY <1>1, LenProperties, EmptySeq
<1>3. Head(s) = s[1]
  BY <1>2
<1> QED
  BY <1>1, <1>2, <1>3

\* The sets of sleeping and of woken threads are finite.
LEMMA FiniteThreads ==
  ASSUME pc \in [Threads -> PcStates]
  PROVE  /\ IsFiniteSet(waiting) /\ Cardinality(waiting) \in Nat
         /\ IsFiniteSet(woken) /\ Cardinality(woken) \in Nat
         /\ Cardinality(waiting) = 0 <=> waiting = {}
         /\ Cardinality(woken) = 0 <=> woken = {}
<1>1. waiting \subseteq Threads /\ woken \subseteq Threads
  BY DEF waiting, woken
<1>2. IsFiniteSet(waiting) /\ IsFiniteSet(woken)
  BY <1>1, FS_Subset, CPoolAssumption
<1> QED
  BY <1>2, FS_CardinalityType, FS_EmptySet

\* A move that neither begins nor ends a stay in pthread_cond_wait.
LEMMA QuietMove ==
  ASSUME pc \in [Threads -> PcStates], NEW t \in Threads,
         NEW s \in {"idle", "using"}, pc[t] \in {"idle", "using"},
         pc' = [pc EXCEPT ![t] = s]
  PROVE  /\ pc' \in [Threads -> PcStates]
         /\ waiting' = waiting /\ woken' = woken
BY DEF PcStates, waiting, woken

\* A thread begins to sleep.
LEMMA Sleeps ==
  ASSUME pc \in [Threads -> PcStates], NEW t \in Threads, pc[t] = "idle",
         pc' = [pc EXCEPT ![t] = "waiting"]
  PROVE  /\ pc' \in [Threads -> PcStates]
         /\ Cardinality(waiting') = Cardinality(waiting) + 1
         /\ woken' = woken
<1>1. t \notin waiting /\ waiting' = waiting \cup {t} /\ woken' = woken
  BY DEF PcStates, waiting, woken
<1>2. pc' \in [Threads -> PcStates]
  BY DEF PcStates
<1> QED
  BY <1>1, <1>2, FiniteThreads, FS_AddElement

\* A sleeper is woken, by a signal or spuriously; another thread u may move at
\* the same time from using to idle.
LEMMA WakesUp ==
  ASSUME pc \in [Threads -> PcStates], NEW w \in Threads, pc[w] = "waiting",
         \/ pc' = [pc EXCEPT ![w] = "woken"]
         \/ \E u \in Threads : /\ pc[u] = "using"
                              /\ pc' = [pc EXCEPT ![u] = "idle", ![w] = "woken"]
  PROVE  /\ pc' \in [Threads -> PcStates]
         /\ waiting # {}
         /\ Cardinality(waiting') = Cardinality(waiting) - 1
         /\ Cardinality(woken') = Cardinality(woken) + 1
<1>1. /\ w \in waiting /\ waiting' = waiting \ {w}
      /\ w \notin woken /\ woken' = woken \cup {w}
  BY DEF PcStates, waiting, woken
<1>2. pc' \in [Threads -> PcStates]
  BY DEF PcStates
<1> QED
  BY <1>1, <1>2, FiniteThreads, FS_AddElement, FS_RemoveElement

\* A woken thread has the mutex again and leaves the blocking branch.
LEMMA GoesOn ==
  ASSUME pc \in [Threads -> PcStates], NEW t \in Threads, pc[t] = "woken",
         pc' = [pc EXCEPT ![t] = "using"]
  PROVE  /\ pc' \in [Threads -> PcStates]
         /\ waiting' = waiting
         /\ Cardinality(woken') = Cardinality(woken) - 1
<1>1. t \in woken /\ waiting' = waiting /\ woken' = woken \ {t}
  BY DEF PcStates, waiting, woken
<1>2. pc' \in [Threads -> PcStates]
  BY DEF PcStates
<1> QED
  BY <1>1, <1>2, FiniteThreads, FS_RemoveElement

\* conn_pop either finds the list empty or takes its first element.
LEMMA PopFacts ==
  ASSUME TypeOK, conn_pop
  PROVE  /\ mysql_list' \in Seq(Conns)
         /\ free_connections' \in Int
         /\ Popped \in Conns \cup {NULL}
         /\ free_connections = Len(mysql_list) => free_connections' = Len(mysql_list')
         /\ \A i \in DOMAIN mysql_list' :
              \E j \in DOMAIN mysql_list : j = i + 1 /\ j # 1
                                          /\ mysql_list'[i] = mysql_list[j]
         /\ \/ /\ Popped = NULL /\ Len(mysql_list) = 0 /\ Len(mysql_list') = 0
            \/ /\ Popped # NULL /\ 1 \in DOMAIN mysql_list /\ Popped = mysql_list[1]
               /\ Len(mysql_list') = Len(mysql_list) - 1
<1>1. CASE mysql_list = <<>>
  BY <1>1, EmptySeq DEF conn_pop, Popped, TypeOK
<1>2. CASE mysql_list # <<>>
  <2>1. Popped = mysql_list[1] /\ Popped \in Conns /\ 1 \in DOMAIN mysql_list
    BY <1>2, TailFacts DEF Popped, TypeOK
  <2>2. Popped # NULL
    BY <2>1, CPoolAssumption
  <2>3. /\ mysql_list' = Tail(mysql_list)
        /\ free_connections' = free_connections - 1
    BY <1>2 DEF conn_pop
  <2>4. /\ mysql_list' \in Seq(Conns)
        /\ Len(mysql_list') = Len(mysql_list) - 1
        /\ \A i \in DOMAIN mysql_list' :
             /\ i \in Nat \ {0}
             /\ i + 1 \in DOMAIN mysql_list
             /\ mysql_list'[i] = mysql_list[i + 1]
    BY <1>2, <2>3, TailFacts DEF TypeOK
  <2>5. \A i \in DOMAIN mysql_list' :
              \E j \in DOMAIN mysql_list : j = i + 1 /\ j # 1
                                          /\ mysql_list'[i] = mysql_list[j]
    BY <2>4
  <2>6. /\ free_connections' \in Int
        /\ free_connections = Len(mysql_list) => free_connections' = Len(mysql_list')
    <3>1. free_connections \in Int
      BY DEF TypeOK
    <3>2. Len(mysql_list') = Len(mysql_list) - 1
      BY <2>4
    <3> QED
      BY <2>3, <3>1, <3>2
  <2> QED
    BY <2>1, <2>2, <2>4, <2>5, <2>6
<1> QED
  BY <1>1, <1>2

\* Handing the popped connection to thread t keeps ownership exclusive.
LEMMA HandOver ==
  ASSUME TypeOK, Fresh, OneOwner, NoUseAfterDestroy, NEW t \in Threads,
         conn_pop, conn' = [conn EXCEPT ![t] = Popped],
         opened' = opened, live' = live
  PROVE  Fresh' /\ OneOwner' /\ NoUseAfterDestroy'
<1> USE PopFacts
<1>1. /\ conn' \in [Threads -> Conns \cup {NULL}]
      /\ conn'[t] = Popped
      /\ \A u \in Threads : u # t => conn'[u] = conn[u]
  BY DEF TypeOK
<1>2. \A i \in DOMAIN mysql_list' : mysql_list'[i] # Popped
  BY CPoolAssumption, ElementOfSeq, LenProperties DEF OneOwner, TypeOK
<1>3. Fresh'
  BY <1>1 DEF Fresh
<1>4. NoUseAfterDestroy'
  BY <1>1 DEF NoUseAfterDestroy
<1>5. OneOwner'
  <2>1. \A i, j \in DOMAIN mysql_list' : mysql_list'[i] = mysql_list'[j] => i = j
    <3> SUFFICES ASSUME NEW i \in DOMAIN mysql_list', NEW j \in DOMAIN mysql_list',
                        mysql_list'[i] = mysql_list'[j]
                 PROVE  i = j
      OBVIOUS
    <3>1. i \in Int /\ j \in Int
      BY LenProperties
    <3> QED
      BY <3>1 DEF OneOwner
  <2>2. \A u \in Threads, i \in DOMAIN mysql_list' : conn'[u] # mysql_list'[i]
    BY <1>1, <1>2 DEF OneOwner
  <2>3. \A u, v \in Threads : conn'[u] = conn'[v] /\ conn'[u] # NULL => u = v
    BY <1>1 DEF OneOwner
  <2> QED
    BY <2>1, <2>2, <2>3 DEF OneOwner
<1> QED
  BY <1>3, <1>4, <1>5

-----------------------------------------------------------------------------
\* The empty pool satisfies the inductive invariant.
LEMMA InitIInv == Init => IInv
<1> SUFFICES ASSUME Init PROVE IInv
  OBVIOUS
<1>1. TypeOK
  <2>1. mysql_list \in Seq(Conns)
    BY EmptySeq DEF Init
  <2>2. free_connections \in Int /\ is_idle_block \in Int
    BY DEF Init
  <2>6. crashed \in BOOLEAN
    BY Zenon DEF Init
  <2>3. opened \in 0 .. min_connections
    BY CPoolAssumption DEF Init
  <2>4. live \in SUBSET Conns /\ pc \in [Threads -> PcStates]
    BY DEF Init, PcStates
  <2>5. /\ caller \in [Threads -> AllCallers \cup {NULL}]
        /\ conn \in [Threads -> Conns \cup {NULL}]
    BY DEF Init
  <2> QED
    BY <2>1, <2>2, <2>3, <2>4, <2>5, <2>6 DEF TypeOK
<1>2. waiting = {} /\ woken = {}
  BY DEF Init, waiting, woken
<1>3. Cardinality(waiting) = 0 /\ Cardinality(woken) = 0
  BY <1>2, FS_EmptySet
<1>4. CountersAgree
  BY <1>3, EmptySeq DEF Init, CountersAgree
<1>5. NoLostWakeup
  BY <1>2 DEF NoLostWakeup
<1> QED
  BY <1>1, <1>4, <1>5
  DEF IInv, Init, InitFirst, Fresh, UsersOwn, OneOwner, NoUseAfterDestroy

-----------------------------------------------------------------------------
\* mysql_pool_init pushes a connection that nobody has, while nobody waits.
LEMMA StepPoolInit == IInv /\ mysql_pool_init => IInv'
<1> SUFFICES ASSUME IInv, mysql_pool_init PROVE IInv'
  OBVIOUS
<1> USE DEF IInv
<1>1. /\ opened \in 0 .. min_connections /\ opened < min_connections
      /\ opened' = opened + 1 /\ opened' \in 0 .. min_connections
      /\ opened + 1 \in Conns
  BY CPoolAssumption DEF mysql_pool_init, MoreToOpen, TypeOK, Conns
<1>2. /\ UNCHANGED <<is_idle_block, pc, caller, conn, crashed>>
      /\ waiting' = waiting /\ woken' = woken
  BY DEF mysql_pool_init, waiting, woken
<1>3. waiting = {}
  BY <1>1 DEF InitFirst, waiting
<1>4. InitFirst' /\ NoLostWakeup'
  BY <1>1, <1>2, <1>3 DEF InitFirst, NoLostWakeup
<1>0. \A i \in DOMAIN mysql_list : mysql_list[i] \in Conns
  BY ElementOfSeq, LenProperties DEF TypeOK
<1>5. CASE UNCHANGED <<mysql_list, free_connections, live>>
  <2>1. TypeOK'
    BY <1>1, <1>2, <1>5 DEF TypeOK
  <2>2. Fresh' /\ UsersOwn'
    <3>1. \A i \in DOMAIN mysql_list : mysql_list[i] \in Int
      BY <1>0 DEF Conns
    <3>2. \A t \in Threads : conn[t] # NULL => conn[t] \in Int
      BY DEF TypeOK, Conns
    <3> QED
      BY <1>1, <1>2, <1>5, <3>1, <3>2 DEF Fresh, UsersOwn
  <2>3. OneOwner' /\ NoUseAfterDestroy' /\ CountersAgree'
    BY <1>2, <1>5 DEF OneOwner, NoUseAfterDestroy, CountersAgree
  <2> QED
    BY <1>4, <2>1, <2>2, <2>3
<1>6. CASE conn_push(opened + 1) /\ live' = live \cup {opened + 1}
  <2> DEFINE n == Len(mysql_list) + 1
  <2>1. /\ mysql_list' \in Seq(Conns)
        /\ Len(mysql_list') = n
        /\ DOMAIN mysql_list' = DOMAIN mysql_list \cup {n}
        /\ n \notin DOMAIN mysql_list
        /\ \A i \in DOMAIN mysql_list : mysql_list'[i] = mysql_list[i]
        /\ mysql_list'[n] = opened + 1
    BY <1>1, <1>6, AppendFacts DEF conn_push, TypeOK
  <2>2. free_connections' = free_connections + 1
    BY <1>6 DEF conn_push
  <2> HIDE DEF n
  <2>3. \A i \in DOMAIN mysql_list : mysql_list[i] \in Int /\ mysql_list[i] <= opened
    BY <1>0 DEF Conns, Fresh
  <2>4. \A t \in Threads : conn[t] # NULL => conn[t] \in Int /\ conn[t] <= opened
    BY DEF TypeOK, Conns, Fresh
  <2>5. TypeOK'
    <3>1. free_connections' \in Int
      BY <2>2 DEF TypeOK
    <3>2. live' \in SUBSET Conns
      BY <1>1, <1>6 DEF TypeOK
    <3> QED
      BY <1>1, <1>2, <2>1, <3>1, <3>2 DEF TypeOK
  <2>6. Fresh' /\ UsersOwn'
    BY <1>1, <1>2, <2>1, <2>3, <2>4 DEF Fresh, UsersOwn
  <2>7. OneOwner'
    <3>1. \A i \in DOMAIN mysql_list : mysql_list[i] # opened + 1
      BY <1>1, <2>3
    <3>2. \A t \in Threads : conn[t] # opened + 1
      BY <1>1, <2>4, CPoolAssumption
    <3> QED
      BY <1>2, <2>1, <3>1, <3>2 DEF OneOwner
  <2>8. NoUseAfterDestroy'
    BY <1>2, <1>6, <2>1 DEF NoUseAfterDestroy
  <2>9. CountersAgree'
    BY <1>2, <2>1, <2>2 DEF CountersAgree, n
  <2> QED
    BY <1>4, <2>5, <2>6, <2>7, <2>8, <2>9
<1> QED
  BY <1>5, <1>6 DEF mysql_pool_init

\* The steps that pop: the two first halves and the second half of the call.
LEMMA StepPop ==
  ASSUME IInv, NEW t \in Threads, NEW who \in AllCallers,
         \/ get_mysql_connection_block(t, who)
         \/ AfterWait(t)
         \/ get_mysql_connection(t)
  PROVE  IInv'
<1> USE DEF IInv
<1>1. /\ conn_pop /\ conn' = [conn EXCEPT ![t] = Popped]
      /\ opened' = opened /\ live' = live /\ crashed' = crashed
      /\ opened = min_connections
  BY DEF get_mysql_connection_block, AfterWait, get_mysql_connection, Running
<1>2. Fresh' /\ OneOwner' /\ NoUseAfterDestroy'
  BY <1>1, HandOver
<1>3. InitFirst'
  BY <1>1, CPoolAssumption DEF InitFirst
<1>4. /\ mysql_list' \in Seq(Conns)
      /\ free_connections' \in Int
      /\ Popped \in Conns \cup {NULL}
      /\ free_connections' = Len(mysql_list')
      /\ \/ Popped = NULL /\ Len(mysql_list) = 0 /\ Len(mysql_list') = 0
         \/ Popped # NULL /\ Len(mysql_list') = Len(mysql_list) - 1
      /\ Len(mysql_list) \in Nat
  BY <1>1, PopFacts, LenProperties DEF CountersAgree, TypeOK
<1>5. conn' \in [Threads -> Conns \cup {NULL}]
  BY <1>1, <1>4 DEF TypeOK
<1>6. /\ is_idle_block \in Int
      /\ is_idle_block = Cardinality(waiting) + Cardinality(woken)
      /\ Cardinality(waiting) \in Nat /\ Cardinality(woken) \in Nat
      /\ pc \in [Threads -> PcStates]
  BY FiniteThreads DEF TypeOK, CountersAgree
<1>7. caller' \in [Threads -> AllCallers \cup {NULL}]
  BY DEF get_mysql_connection_block, AfterWait, get_mysql_connection, TypeOK, AllCallers
<1>8. /\ pc' \in [Threads -> PcStates]
      /\ is_idle_block' = Cardinality(waiting') + Cardinality(woken')
      /\ is_idle_block' \in Int
      /\ NoLostWakeup'
      /\ UsersOwn'
  <2>1. CASE pc[t] = "idle" /\ Popped = NULL /\ is_idle_block' = is_idle_block + 1
             /\ pc' = [pc EXCEPT ![t] = "waiting"]
    <3>1. /\ pc' \in [Threads -> PcStates]
          /\ Cardinality(waiting') = Cardinality(waiting) + 1
          /\ woken' = woken
      BY <1>6, <2>1, Sleeps
    <3>2. NoLostWakeup'
      BY <1>4, <1>6, <2>1, <3>1 DEF NoLostWakeup
    <3>3. UsersOwn'
      BY <1>1, <1>6, <2>1 DEF UsersOwn, TypeOK
    <3> QED
      BY <1>6, <2>1, <3>1, <3>2, <3>3
  <2>2. CASE pc[t] = "idle" /\ is_idle_block' = is_idle_block
             /\ pc' = [pc EXCEPT ![t] = "using"]
    <3>1. /\ pc' \in [Threads -> PcStates]
          /\ waiting' = waiting /\ woken' = woken
      BY <1>6, <2>2, QuietMove
    <3>2. NoLostWakeup'
      BY <1>4, <1>6, <3>1 DEF NoLostWakeup
    <3>3. UsersOwn'
      BY <1>1, <1>6, <2>2 DEF UsersOwn, TypeOK
    <3> QED
      BY <1>6, <2>2, <3>1, <3>2, <3>3
  <2>3. CASE pc[t] = "woken" /\ is_idle_block' = is_idle_block - 1
             /\ pc' = [pc EXCEPT ![t] = "using"]
    <3>1. /\ pc' \in [Threads -> PcStates]
          /\ waiting' = waiting
          /\ Cardinality(woken') = Cardinality(woken) - 1
          /\ Cardinality(woken') \in Nat
      <4>1. /\ pc' \in [Threads -> PcStates]
            /\ waiting' = waiting
            /\ Cardinality(woken') = Cardinality(woken) - 1
        BY <1>6, <2>3, GoesOn
      <4>2. t \in woken
        BY <2>3 DEF woken
      <4> QED
        BY <1>6, <4>1, <4>2, FiniteThreads
    <3>2. NoLostWakeup'
      BY <1>4, <1>6, <3>1 DEF NoLostWakeup
    <3>3. UsersOwn'
      BY <1>1, <1>6, <2>3 DEF UsersOwn, TypeOK
    <3> QED
      BY <1>6, <2>3, <3>1, <3>2, <3>3
  <2> QED
    BY <2>1, <2>2, <2>3
    DEF get_mysql_connection_block, AfterWait, get_mysql_connection
<1>9. TypeOK'
  BY <1>1, <1>4, <1>5, <1>7, <1>8 DEF TypeOK
<1>10. CountersAgree'
  BY <1>4, <1>8 DEF CountersAgree
<1> QED
  BY <1>2, <1>3, <1>8, <1>9, <1>10

\* Giving a connection back, with or without a signal.
LEMMA StepReturnConn ==
  ASSUME IInv, NEW t \in Threads, ReturnConn(t)
  PROVE  IInv'
<1> USE DEF IInv
<1> DEFINE c == conn[t]
           n == Len(mysql_list) + 1
<1>1. /\ opened = min_connections /\ pc[t] = "using" /\ c # NULL /\ c \in Conns
      /\ mysql_list' = Append(mysql_list, c)
      /\ free_connections' = free_connections + 1
      /\ conn' = [conn EXCEPT ![t] = NULL]
      /\ UNCHANGED <<is_idle_block, opened, live, caller, crashed>>
  BY DEF ReturnConn, Running, release_mysql_connection, conn_push, TypeOK
<1>2. /\ mysql_list' \in Seq(Conns)
      /\ Len(mysql_list') = n
      /\ DOMAIN mysql_list' = DOMAIN mysql_list \cup {n}
      /\ n \notin DOMAIN mysql_list
      /\ \A i \in DOMAIN mysql_list : mysql_list'[i] = mysql_list[i]
      /\ mysql_list'[n] = c
      /\ Len(mysql_list) \in Nat
  BY <1>1, AppendFacts, LenProperties DEF TypeOK
<1>3. /\ conn' \in [Threads -> Conns \cup {NULL}]
      /\ conn'[t] = NULL
      /\ \A u \in Threads : u # t => conn'[u] = conn[u]
  BY <1>1 DEF TypeOK
<1>4. Fresh' /\ NoUseAfterDestroy'
  BY <1>1, <1>2, <1>3 DEF Fresh, NoUseAfterDestroy
<1>5. OneOwner'
  <2>1. \A i, j \in DOMAIN mysql_list' : mysql_list'[i] = mysql_list'[j] => i = j
    BY <1>2 DEF OneOwner
  <2>2. \A i \in DOMAIN mysql_list' : mysql_list'[i] # NULL
    BY <1>2, ElementOfSeq, LenProperties, CPoolAssumption
  <2>3. \A u \in Threads, i \in DOMAIN mysql_list' : conn'[u] # mysql_list'[i]
    BY <1>1, <1>2, <1>3, <2>2 DEF OneOwner
  <2>4. \A u, v \in Threads : conn'[u] = conn'[v] /\ conn'[u] # NULL => u = v
    BY <1>3 DEF OneOwner
  <2> QED
    BY <2>1, <2>3, <2>4 DEF OneOwner
<1>6. /\ is_idle_block = Cardinality(waiting) + Cardinality(woken)
      /\ Cardinality(waiting) \in Nat /\ Cardinality(woken) \in Nat
      /\ (Cardinality(waiting) = 0 <=> waiting = {})
      /\ pc \in [Threads -> PcStates]
  BY FiniteThreads DEF TypeOK, CountersAgree
<1>7. /\ pc' \in [Threads -> PcStates]
      /\ is_idle_block' = Cardinality(waiting') + Cardinality(woken')
      /\ NoLostWakeup'
      /\ UsersOwn'
  <2>1. CASE waiting = {} /\ pc' = [pc EXCEPT ![t] = "idle"]
    <3>1. /\ pc' \in [Threads -> PcStates]
          /\ waiting' = waiting /\ woken' = woken
      BY <1>1, <1>6, <2>1, QuietMove
    <3>2. UsersOwn'
      BY <1>3, <1>6, <2>1 DEF UsersOwn
    <3> QED
      BY <1>1, <1>6, <2>1, <3>1, <3>2 DEF NoLostWakeup
  <2>2. CASE waiting # {} /\
             \E w \in waiting : pc' = [pc EXCEPT ![t] = "idle", ![w] = "woken"]
    <3>1. PICK w \in waiting : pc' = [pc EXCEPT ![t] = "idle", ![w] = "woken"]
      BY <2>2
    <3>2. w \in Threads /\ pc[w] = "waiting"
      BY DEF waiting
    <3>3. /\ pc' \in [Threads -> PcStates]
          /\ Cardinality(waiting') = Cardinality(waiting) - 1
          /\ Cardinality(woken') = Cardinality(woken) + 1
      BY <1>1, <1>6, <3>1, <3>2, WakesUp
    <3>4. UsersOwn'
      BY <1>1, <1>3, <1>6, <3>1, <3>2 DEF UsersOwn
    <3>5. Len(mysql_list') <= Cardinality(woken')
      BY <1>2, <1>6, <2>2, <3>3 DEF NoLostWakeup
    <3> QED
      BY <1>1, <1>6, <3>3, <3>4, <3>5 DEF NoLostWakeup
  <2>3. ~ThreadsBlock => waiting = {}
    BY <1>6 DEF ThreadsBlock
  <2> QED
    BY <2>1, <2>2, <2>3
    DEF ReturnConn, release_mysql_connection, SignalAndMove
<1>8. TypeOK'
  <2>1. free_connections' \in Int
    BY <1>1 DEF TypeOK
  <2> QED
    BY <1>1, <1>2, <1>3, <1>7, <2>1 DEF TypeOK
<1>9. CountersAgree'
  <2>1. free_connections = Len(mysql_list)
    BY DEF CountersAgree
  <2> QED
    BY <1>1, <1>2, <1>7, <2>1 DEF CountersAgree
<1>10. InitFirst'
  BY <1>1, CPoolAssumption DEF InitFirst
<1> QED
  BY <1>4, <1>5, <1>7, <1>8, <1>9, <1>10

\* The steps that leave the list and the counters alone.
LEMMA StepAside ==
  ASSUME IInv, NEW t \in Threads,
         \/ SpuriousWakeup(t)
         \/ ReturnWithoutConn(t)
         \/ ExeSqlQueryError(t)
         \/ Fault(t)
  PROVE  IInv'
<1> USE DEF IInv
<1>1. /\ UNCHANGED <<mysql_list, free_connections, is_idle_block, opened, live,
                     caller>>
      /\ opened = min_connections
  BY DEF SpuriousWakeup, ReturnWithoutConn, ExeSqlQueryError, Fault, Running
<1>2. /\ conn' \in [Threads -> Conns \cup {NULL}]
      /\ \A u \in Threads : conn'[u] # NULL => conn'[u] = conn[u]
  BY DEF SpuriousWakeup, ReturnWithoutConn, ExeSqlQueryError, Fault, TypeOK
<1>3. crashed' \in BOOLEAN
  BY Zenon DEF SpuriousWakeup, ReturnWithoutConn, ExeSqlQueryError, Fault, TypeOK
<1>4. InitFirst'
  BY <1>1, CPoolAssumption DEF InitFirst
<1>5. Fresh' /\ NoUseAfterDestroy'
  BY <1>1, <1>2 DEF Fresh, NoUseAfterDestroy
<1>6. OneOwner'
  <2>1. \A i \in DOMAIN mysql_list : mysql_list[i] # NULL
    BY ElementOfSeq, LenProperties, CPoolAssumption DEF TypeOK
  <2> QED
    BY <1>1, <1>2, <2>1 DEF OneOwner
<1>7. /\ is_idle_block = Cardinality(waiting) + Cardinality(woken)
      /\ Cardinality(waiting) \in Nat /\ Cardinality(woken) \in Nat
      /\ pc \in [Threads -> PcStates]
      /\ Len(mysql_list) \in Nat
  BY FiniteThreads, LenProperties DEF TypeOK, CountersAgree
<1>8. /\ pc' \in [Threads -> PcStates]
      /\ is_idle_block = Cardinality(waiting') + Cardinality(woken')
      /\ NoLostWakeup'
      /\ UsersOwn'
  <2>1. CASE SpuriousWakeup(t)
    <3>1. /\ pc[t] = "waiting" /\ conn' = conn
          /\ pc' = [pc EXCEPT ![t] = "woken"]
      BY <2>1 DEF SpuriousWakeup
    <3>2. /\ pc' \in [Threads -> PcStates]
          /\ waiting # {}
          /\ Cardinality(waiting') = Cardinality(waiting) - 1
          /\ Cardinality(woken') = Cardinality(woken) + 1
      BY <1>7, <3>1, WakesUp
    <3>3. UsersOwn'
      BY <1>7, <3>1 DEF UsersOwn
    <3>4. NoLostWakeup'
      BY <1>1, <1>7, <3>2 DEF NoLostWakeup
    <3> QED
      BY <1>7, <3>2, <3>3, <3>4
  <2>2. CASE ReturnWithoutConn(t) \/ ExeSqlQueryError(t)
    <3>1. /\ pc[t] = "using" /\ conn'[t] = NULL
          /\ pc' = [pc EXCEPT ![t] = "idle"]
      BY <2>2 DEF ReturnWithoutConn, ExeSqlQueryError, TypeOK
    <3>2. /\ pc' \in [Threads -> PcStates]
          /\ waiting' = waiting /\ woken' = woken
      BY <1>7, <3>1, QuietMove
    <3>3. UsersOwn'
      BY <1>2, <1>7, <3>1 DEF UsersOwn
    <3> QED
      BY <1>1, <1>7, <3>2, <3>3 DEF NoLostWakeup
  <2>3. CASE Fault(t)
    <3>1. pc' = pc /\ conn' = conn
      BY <2>3 DEF Fault
    <3>2. waiting' = waiting /\ woken' = woken
      BY <3>1 DEF waiting, woken
    <3> QED
      BY <1>1, <1>7, <3>1, <3>2 DEF NoLostWakeup, UsersOwn
  <2> QED
    BY <2>1, <2>2, <2>3
<1>9. TypeOK'
  BY <1>1, <1>2, <1>3, <1>8 DEF TypeOK
<1>10. CountersAgree'
  BY <1>1, <1>8 DEF CountersAgree
<1> QED
  BY <1>4, <1>5, <1>6, <1>8, <1>9, <1>10

\* destroy_mysql_pool frees what is in the list; what is lent stays live.
LEMMA StepDestroy ==
  ASSUME IInv, NEW t \in Threads, destroy_mysql_pool(t)
  PROVE  IInv'
<1> USE DEF IInv
<1>1. /\ mysql_list' = <<>>
      /\ free_connections' = free_connections - Len(mysql_list)
      /\ live' = live \ {mysql_list[i] : i \in DOMAIN mysql_list}
      /\ UNCHANGED <<is_idle_block, opened, pc, caller, conn, crashed>>
      /\ opened = min_connections
  BY DEF destroy_mysql_pool, Running
<1>2. /\ mysql_list' \in Seq(Conns) /\ Len(mysql_list') = 0
      /\ DOMAIN mysql_list' = {}
      /\ Len(mysql_list) \in Nat
  BY <1>1, EmptySeq, LenProperties DEF TypeOK
<1>3. waiting' = waiting /\ woken' = woken /\ Cardinality(woken) \in Nat
  BY <1>1, FiniteThreads DEF waiting, woken, TypeOK
<1>4. free_connections' = 0
  BY <1>1, <1>2 DEF CountersAgree
<1>5. TypeOK'
  <2>1. live' \in SUBSET Conns /\ free_connections' \in Int
    BY <1>1, <1>4 DEF TypeOK
  <2> QED
    BY <1>1, <1>2, <2>1 DEF TypeOK
<1>6. InitFirst' /\ Fresh' /\ UsersOwn'
  BY <1>1, <1>2 DEF InitFirst, Fresh, UsersOwn
<1>7. OneOwner'
  BY <1>1, <1>2 DEF OneOwner
<1>8. NoUseAfterDestroy'
  BY <1>1, <1>2 DEF NoUseAfterDestroy, OneOwner
<1>9. CountersAgree' /\ NoLostWakeup'
  BY <1>1, <1>2, <1>3, <1>4 DEF CountersAgree, NoLostWakeup
<1> QED
  BY <1>5, <1>6, <1>7, <1>8, <1>9

\* Every step of the threads keeps it.
LEMMA NextIInv == IInv /\ [Next]_vars => IInv'
<1> SUFFICES ASSUME IInv, [Next]_vars PROVE IInv'
  OBVIOUS
<1>1. CASE mysql_pool_init
  BY <1>1, StepPoolInit
<1>2. ASSUME NEW t \in Threads, ThreadStep(t) PROVE IInv'
  BY <1>2, StepPop, StepReturnConn, StepAside, StepDestroy DEF ThreadStep, AllCallers
<1>3. CASE UNCHANGED vars
  <2>1. waiting' = waiting /\ woken' = woken
    BY <1>3 DEF vars, waiting, woken
  <2> QED
    BY <1>3, <2>1
    DEF vars, IInv, TypeOK, InitFirst, Fresh, UsersOwn, OneOwner,
        NoUseAfterDestroy, CountersAgree, NoLostWakeup
<1> QED
  BY <1>1, <1>2, <1>3 DEF Next

-----------------------------------------------------------------------------
\* The inductive invariant holds in every behaviour of the pool.
THEOREM CPoolInvariant == Spec => []IInv
BY InitIInv, NextIInv, PTL DEF Spec

\* The fields of mysql_pool and the threads' control state keep their types.
THEOREM CPoolTypeOK == Spec => []TypeOK
<1>1. IInv => TypeOK
  BY DEF IInv
<1> QED
  BY <1>1, CPoolInvariant, PTL

\* conn_push/conn_pop hand a connection to one owner at a time.
THEOREM CPoolOneOwner == Spec => []OneOwner
<1>1. IInv => OneOwner
  BY DEF IInv
<1> QED
  BY <1>1, CPoolInvariant, PTL

\* destroy_mysql_pool frees no connection that is used or lent afterwards.
THEOREM CPoolNoUseAfterDestroy == Spec => []NoUseAfterDestroy
<1>1. IInv => NoUseAfterDestroy
  BY DEF IInv
<1> QED
  BY <1>1, CPoolInvariant, PTL

\* free_connections and is_idle_block count what they stand for.
THEOREM CPoolCountersAgree == Spec => []CountersAgree
<1>1. IInv => CountersAgree
  BY DEF IInv
<1> QED
  BY <1>1, CPoolInvariant, PTL

\* The signal of release_mysql_connection, guarded by is_idle_block, is never
\* missed: while a thread sleeps each idle connection has a woken thread.
THEOREM CPoolNoLostWakeup == Spec => []NoLostWakeup
<1>1. IInv => NoLostWakeup
  BY DEF IInv
<1> QED
  BY <1>1, CPoolInvariant, PTL

-----------------------------------------------------------------------------
(***************************************************************************)
(* The pool implements ResourcePool: the list is the set of free           *)
(* connections, conn says who has what.                                    *)
(***************************************************************************)
Idle == {mysql_list[i] : i \in DOMAIN mysql_list}
Lent == [t \in Threads |-> {conn[t]} \ {NULL}]

\* Taking the first connection is Acquire; finding none is invisible.
LEMMA PopAcquires ==
  ASSUME IInv, NEW t \in Threads, pc[t] # "using",
         conn_pop, conn' = [conn EXCEPT ![t] = Popped]
  PROVE  \/ \E r \in Conns : Pool!Acquire(t, r)
         \/ Idle' = Idle /\ Lent' = Lent
<1>1. conn[t] = NULL /\ conn \in [Threads -> Conns \cup {NULL}]
  BY DEF IInv, UsersOwn, TypeOK
<1>2. CASE mysql_list = <<>>
  <2>1. mysql_list' = mysql_list /\ Popped = NULL
    BY <1>2 DEF conn_pop, Popped
  <2>2. conn' = conn
    BY <1>1, <2>1
  <2> QED
    BY <2>1, <2>2 DEF Idle, Lent
<1>3. CASE mysql_list # <<>>
  <2> DEFINE r == mysql_list[1]
  <2>1. /\ mysql_list' = Tail(mysql_list) /\ Popped = r
        /\ 1 \in DOMAIN mysql_list /\ r \in Conns /\ r # NULL
    BY <1>3, TailFacts, CPoolAssumption DEF conn_pop, Popped, IInv, TypeOK
  <2>2. /\ \A i \in DOMAIN mysql_list' :
             i \in Nat \ {0} /\ i + 1 \in DOMAIN mysql_list
             /\ mysql_list'[i] = mysql_list[i + 1]
        /\ \A i \in DOMAIN mysql_list : i # 1 => i - 1 \in DOMAIN mysql_list'
        /\ \A i \in DOMAIN mysql_list : i \in Nat
    BY <1>3, <2>1, TailFacts, LenProperties DEF IInv, TypeOK
  <2>3. \A i, j \in DOMAIN mysql_list : mysql_list[i] = mysql_list[j] => i = j
    BY DEF IInv, OneOwner
  <2>4. Idle' = Idle \ {r}
    <3>1. ASSUME NEW x \in Idle' PROVE x \in Idle \ {r}
      <4>1. PICK i \in DOMAIN mysql_list' : x = mysql_list'[i]
        BY <3>1 DEF Idle
      <4>2. i + 1 \in DOMAIN mysql_list /\ x = mysql_list[i + 1] /\ i + 1 # 1
        BY <2>2, <4>1
      <4> QED
        BY <2>1, <2>3, <4>2 DEF Idle
    <3>2. ASSUME NEW x \in Idle \ {r} PROVE x \in Idle'
      <4>1. PICK i \in DOMAIN mysql_list : x = mysql_list[i]
        BY <3>2 DEF Idle
      <4>2. i # 1
        BY <3>2, <4>1
      <4>3. i - 1 \in DOMAIN mysql_list' /\ mysql_list'[i - 1] = x
        <5>1. i \in Nat /\ i - 1 \in DOMAIN mysql_list' /\ (i - 1) + 1 = i
          BY <2>2, <4>2
        <5> QED
          BY <2>2, <4>1, <5>1
      <4> QED
        BY <4>3 DEF Idle
    <3> QED
      BY <3>1, <3>2
  <2>5. Lent' = [Lent EXCEPT ![t] = @ \cup {r}]
    BY <1>1, <2>1 DEF Lent
  <2>6. r \in Idle
    BY <2>1 DEF Idle
  <2> QED
    BY <2>1, <2>4, <2>5, <2>6 DEF Pool!Acquire, Idle, Lent
<1> QED
  BY <1>2, <1>3

\* Pushing a connection adds it to the set of idle ones.
LEMMA PushAdds ==
  ASSUME IInv, NEW c \in Conns, mysql_list' = Append(mysql_list, c)
  PROVE  Idle' = Idle \cup {c}
<1>1. /\ DOMAIN mysql_list' = DOMAIN mysql_list \cup {Len(mysql_list) + 1}
      /\ Len(mysql_list) + 1 \notin DOMAIN mysql_list
      /\ \A i \in DOMAIN mysql_list : mysql_list'[i] = mysql_list[i]
      /\ mysql_list'[Len(mysql_list) + 1] = c
  BY AppendFacts DEF IInv, TypeOK
<1> HIDE DEF IInv
<1> QED
  BY <1>1 DEF Idle

\* The empty pool is an empty resource pool.
LEMMA InitRefines == Init => Pool!Init
<1> SUFFICES ASSUME Init PROVE Pool!Init
  OBVIOUS
<1>1. DOMAIN mysql_list = {}
  BY DEF Init
<1>2. Lent = [t \in Threads |-> {}]
  BY DEF Init, Lent
<1> QED
  BY <1>1, <1>2 DEF Pool!Init, Lent

\* Every step of the threads is a step of the resource pool or none of it.
LEMMA NextRefines == IInv /\ [Next]_vars => [Pool!Next]_(Pool!vars)
<1> SUFFICES ASSUME IInv, [Next]_vars
             PROVE  Pool!Next \/ (Idle' = Idle /\ Lent' = Lent)
  BY DEF Pool!vars, Idle, Lent
<1>1. CASE mysql_pool_init
  <2>1. opened + 1 \in Conns /\ conn' = conn /\ Lent' = Lent
    BY <1>1, CPoolAssumption DEF mysql_pool_init, MoreToOpen, IInv, TypeOK, Conns, Lent
  <2>2. CASE mysql_list' = mysql_list
    BY <2>1, <2>2 DEF Idle
  <2>3. CASE mysql_list' = Append(mysql_list, opened + 1)
    <3>1. Idle' = Idle \cup {opened + 1}
      BY <2>1, <2>3, PushAdds
    <3>2. /\ \A i \in DOMAIN mysql_list : mysql_list[i] # opened + 1
          /\ \A t \in Threads : conn[t] # opened + 1
      <4>1. opened \in Int
        BY CPoolAssumption DEF IInv, TypeOK
      <4>2. \A i \in DOMAIN mysql_list : mysql_list[i] <= opened
        BY DEF IInv, Fresh
      <4>3. \A t \in Threads : conn[t] # NULL => conn[t] <= opened
        BY DEF IInv, Fresh
      <4> QED
        BY <2>1, <4>1, <4>2, <4>3, CPoolAssumption
    <3>3. opened + 1 \notin Idle /\ \A t \in Threads : opened + 1 \notin Lent[t]
      BY <3>2 DEF Idle, Lent
    <3>4. \E r \in Conns : Pool!Open(r)
      BY <2>1, <3>1, <3>3 DEF Pool!Open, Idle, Lent
    <3> QED
      BY <3>4 DEF Pool!Next
  <2> QED
    BY <1>1, <2>2, <2>3 DEF mysql_pool_init, conn_push
<1>2. ASSUME NEW t \in Threads, NEW who \in AllCallers,
             \/ get_mysql_connection_block(t, who)
             \/ AfterWait(t)
             \/ get_mysql_connection(t)
      PROVE  Pool!Next \/ (Idle' = Idle /\ Lent' = Lent)
  <2>1. pc[t] # "using" /\ conn_pop /\ conn' = [conn EXCEPT ![t] = Popped]
    BY <1>2 DEF get_mysql_connection_block, AfterWait, get_mysql_connection
  <2> QED
    BY <2>1, PopAcquires DEF Pool!Next
<1>3. ASSUME NEW t \in Threads, ReturnConn(t)
      PROVE  Pool!Next
  <2> DEFINE c == conn[t]
  <2>1. /\ c \in Conns /\ c # NULL /\ mysql_list' = Append(mysql_list, c)
        /\ conn' = [conn EXCEPT ![t] = NULL] /\ conn \in [Threads -> Conns \cup {NULL}]
    BY <1>3 DEF ReturnConn, release_mysql_connection, conn_push, IInv, TypeOK
  <2>2. Idle' = Idle \cup {c}
    BY <2>1, PushAdds
  <2>3. c \in Lent[t] /\ Lent' = [Lent EXCEPT ![t] = @ \ {c}]
    BY <2>1 DEF Lent
  <2>4. \E r \in Conns : Pool!Release(t, r)
    BY <2>1, <2>2, <2>3 DEF Pool!Release, Idle, Lent
  <2> QED
    BY <2>4 DEF Pool!Next
<1>4. ASSUME NEW t \in Threads, ExeSqlQueryError(t)
      PROVE  Pool!Next
  <2> DEFINE c == conn[t]
  <2>1. /\ c \in Conns /\ c # NULL /\ mysql_list' = mysql_list
        /\ conn' = [conn EXCEPT ![t] = NULL] /\ conn \in [Threads -> Conns \cup {NULL}]
    BY <1>4 DEF ExeSqlQueryError, IInv, TypeOK
  <2>2. c \in Lent[t] /\ Lent' = [Lent EXCEPT ![t] = @ \ {c}]
    BY <2>1 DEF Lent
  <2>3. Idle' = Idle
    BY <2>1 DEF Idle
  <2>4. \E r \in Conns : Pool!Forget(t, r)
    <3>1. c \in Conns
      BY <2>1
    <3> QED
      BY <2>2, <2>3, <3>1 DEF Pool!Forget, Idle, Lent
  <2> QED
    BY <2>4 DEF Pool!Next
<1>5. ASSUME NEW t \in Threads, destroy_mysql_pool(t)
      PROVE  Pool!Next
  <2>1. mysql_list' = <<>> /\ conn' = conn
    BY <1>5 DEF destroy_mysql_pool
  <2>2. Idle' = {} /\ Lent' = Lent
    BY <2>1 DEF Idle, Lent
  <2> QED
    BY <2>2 DEF Pool!Next, Pool!Drain, Idle, Lent
<1>6. ASSUME NEW t \in Threads,
             SpuriousWakeup(t) \/ ReturnWithoutConn(t) \/ Fault(t)
      PROVE  Idle' = Idle /\ Lent' = Lent
  BY <1>6 DEF SpuriousWakeup, ReturnWithoutConn, Fault, Idle, Lent
<1>7. CASE UNCHANGED vars
  BY <1>7 DEF vars, Idle, Lent
<1>8. ASSUME NEW t \in Threads, ThreadStep(t)
      PROVE  Pool!Next \/ (Idle' = Idle /\ Lent' = Lent)
  BY <1>2, <1>3, <1>4, <1>5, <1>6, <1>8 DEF ThreadStep, AllCallers
<1> QED
  BY <1>1, <1>7, <1>8 DEF Next

\* To its clients the pool with its list, counters, mutex and condition
\* variable is a ResourcePool: cpool.c hands connections over exclusively.
THEOREM CPoolRefinement == Spec => ImplementsResourcePool
BY CPoolInvariant, InitRefines, NextRefines, PTL
DEF ImplementsResourcePool, Pool!Spec, Spec

(***************************************************************************)
(* The memory pool.                                                        *)
(***************************************************************************)

\* Until pool_init is done no connection has called the pool, so that its
\* nodes, which are linked without a signal, meet nobody who waits.
LinkedFirst == linked < num_blocks => \A c \in Clients : pos[c] = "none"

\* Only a connection for which pool_alloc has returned has a block.
HasBlock == \A c \in Clients : data[c] # NoBlock => pos[c] = "has"

\* The flag of a node is set exactly while one connection has its block.
FlagsAgree ==
  /\ \A b \in Blocks : used[b] = 1 <=> \E c \in Clients : data[c] = b
  /\ \A c, d \in Clients : data[c] = data[d] /\ data[c] # NoBlock => c = d

\* count is the number of nodes that pool_alloc would find.
CountAgrees == count = Cardinality(Free)

\* The inductive invariant.
MPoolInv ==
  /\ MPoolTypeOK
  /\ LinkedFirst
  /\ HasBlock
  /\ FlagsAgree
  /\ CountAgrees
  /\ BlockNotForgotten

-----------------------------------------------------------------------------
\* The number of blocks is a natural number, also when total_size is no
\* multiple of block_size.
LEMMA BlocksFacts ==
  /\ num_blocks \in Nat
  /\ NoBlock \notin Blocks
  /\ IsFiniteSet(Blocks)
<1>1. num_blocks \in Nat
  BY MPoolAssumption DEF num_blocks
<1>2. NoBlock \notin Blocks
  BY <1>1 DEF NoBlock, Blocks
<1> QED
  BY <1>1, <1>2, FS_Interval DEF Blocks

\* The sets that are counted are finite.
LEMMA CountedSets ==
  /\ IsFiniteSet(Free) /\ Cardinality(Free) \in Nat
  /\ Cardinality(Free) = 0 <=> Free = {}
  /\ IsFiniteSet(Woken) /\ Cardinality(Woken) \in Nat
  /\ Cardinality(Woken) = 0 <=> Woken = {}
<1>1. Free \subseteq Blocks /\ Woken \subseteq Clients
  BY DEF Free, Woken
<1>2. IsFiniteSet(Free) /\ IsFiniteSet(Woken)
  BY <1>1, FS_Subset, BlocksFacts, MPoolAssumption
<1> QED
  BY <1>2, FS_CardinalityType, FS_EmptySet

\* After the first call the whole pool is linked.
LEMMA CalledLinked ==
  ASSUME MPoolInv, NEW c \in Clients, pos[c] # "none"
  PROVE  linked = num_blocks
BY BlocksFacts DEF MPoolInv, MPoolTypeOK, LinkedFirst

\* A pool that has not been created satisfies the invariant.
LEMMA MPoolInitInv == MPoolInit => MPoolInv
<1> SUFFICES ASSUME MPoolInit
             PROVE  MPoolInv
  OBVIOUS
<1> USE DEF MPoolInit
<1>1. MPoolTypeOK
  BY BlocksFacts DEF MPoolTypeOK
<1>2. LinkedFirst /\ HasBlock /\ FlagsAgree
  BY BlocksFacts DEF LinkedFirst, HasBlock, FlagsAgree
<1>3. Free = {} /\ Waiters = {}
  BY BlocksFacts DEF Free, Waiters, Blocks
<1>4. CountAgrees /\ BlockNotForgotten
  BY <1>1, <1>3, FS_EmptySet DEF CountAgrees, BlockNotForgotten
<1> QED
  BY <1>1, <1>2, <1>4 DEF MPoolInv

-----------------------------------------------------------------------------
\* One turn of the loop of pool_init.
LEMMA pool_initInv ==
  ASSUME MPoolInv, pool_init
  PROVE  MPoolInv' /\ Free' = Free \cup {linked + 1}
         /\ linked + 1 \in Blocks \ Free
         /\ \A c \in Clients : data[c] = NoBlock /\ data'[c] = NoBlock
<1> USE BlocksFacts DEF MPoolInv, pool_init, MoreToLink
<1>1. linked + 1 \in Blocks /\ linked + 1 \notin Free
  BY DEF MPoolTypeOK, Blocks, Free
<1>2. \A c \in Clients : pos[c] = "none" /\ data[c] = NoBlock
  BY DEF LinkedFirst, HasBlock
<1>3. used[linked + 1] = 0
  BY <1>1, <1>2 DEF FlagsAgree, MPoolTypeOK
<1>4. Free' = Free \cup {linked + 1}
  BY <1>1, <1>3 DEF Free, Blocks, MPoolTypeOK
<1>5. Cardinality(Free') = Cardinality(Free) + 1
  BY <1>1, <1>4, CountedSets, FS_AddElement
<1>6. CountAgrees'
  BY <1>5 DEF CountAgrees
<1>7. MPoolTypeOK'
  BY DEF MPoolTypeOK
<1>8. Waiters' = {}
  BY <1>2 DEF Waiters
<1>9. LinkedFirst' /\ HasBlock' /\ FlagsAgree'
  BY <1>2 DEF LinkedFirst, HasBlock, FlagsAgree
<1> QED
  BY <1>1, <1>2, <1>4, <1>6, <1>7, <1>8, <1>9 DEF BlockNotForgotten

\* What pool_alloc does after its test, to the pool and to the flags; what it
\* does to the ones that wait is left to the two callers.
LEMMA TakeBlockInv ==
  ASSUME MPoolInv, NEW c \in Clients, TakeBlock(c), data[c] = NoBlock,
         linked = num_blocks
  PROVE  /\ MPoolTypeOK' /\ LinkedFirst' /\ HasBlock' /\ FlagsAgree' /\ CountAgrees'
         /\ \/ Free = {} /\ Free' = {} /\ data' = data /\ count = 0 /\ count' = 0
            \/ \E b \in Free : /\ Free' = Free \ {b}
                               /\ data' = [data EXCEPT ![c] = b]
                               /\ count' = count - 1 /\ count > 0
<1> USE BlocksFacts DEF MPoolInv
<1>0. /\ pos \in [Clients -> {"none", "waiting", "woken", "has"}]
      /\ data \in [Clients -> Blocks \cup {NoBlock}]
      /\ used \in [Blocks -> {0, 1}]
      /\ pos' = [pos EXCEPT ![c] = "has"] /\ linked' = linked
  BY DEF MPoolTypeOK, TakeBlock
<1>1. CASE Free = {} /\ data' = [data EXCEPT ![c] = NoBlock] /\ UNCHANGED <<used, count>>
  <2>1. data' = data
    BY <1>0, <1>1
  <2>2. Free' = Free
    BY <1>0, <1>1 DEF Free
  <2>3. count = 0
    BY <1>1, CountedSets DEF CountAgrees
  <2>4. MPoolTypeOK' /\ LinkedFirst' /\ HasBlock' /\ FlagsAgree' /\ CountAgrees'
    BY <1>0, <1>1, <2>1, <2>2
      DEF MPoolTypeOK, LinkedFirst, HasBlock, FlagsAgree, CountAgrees
  <2> QED
    BY <1>1, <2>1, <2>2, <2>3, <2>4
<1>2. ASSUME NEW b \in Free, used' = [used EXCEPT ![b] = 1], count' = count - 1,
             data' = [data EXCEPT ![c] = b]
      PROVE  /\ MPoolTypeOK' /\ LinkedFirst' /\ HasBlock' /\ FlagsAgree' /\ CountAgrees'
             /\ Free' = Free \ {b} /\ count > 0
  <2>1. b \in Blocks /\ used[b] = 0 /\ b # NoBlock
    BY DEF Free
  <2>2. Free' = Free \ {b}
    BY <1>0, <1>2, <2>1 DEF Free
  <2>3. Cardinality(Free') = Cardinality(Free) - 1 /\ Cardinality(Free) \in Nat \ {0}
    BY <2>2, CountedSets, FS_RemoveElement
  <2>4. CountAgrees' /\ count > 0
    BY <1>2, <2>3 DEF CountAgrees
  <2>5. MPoolTypeOK'
    BY <1>0, <1>2, <2>1 DEF MPoolTypeOK
  <2>6. LinkedFirst' /\ HasBlock'
    BY <1>0, <1>2 DEF LinkedFirst, HasBlock
  <2>7. \A d \in Clients : data[d] # b
    BY <2>1 DEF FlagsAgree
  <2>8. \A x \in Blocks : used'[x] = 1 <=> \E d \in Clients : data'[d] = x
    <3> SUFFICES ASSUME NEW x \in Blocks
                 PROVE  used'[x] = 1 <=> \E d \in Clients : data'[d] = x
      OBVIOUS
    <3>1. CASE x = b
      BY <1>0, <1>2, <2>1, <3>1
    <3>2. CASE x # b
      <4>1. used'[x] = used[x]
        BY <1>0, <1>2, <2>1, <3>2
      <4>2. \A d \in Clients : data'[d] = x <=> data[d] = x
        BY <1>0, <1>2, <3>2
      <4> QED
        BY <4>1, <4>2 DEF FlagsAgree
    <3> QED
      BY <3>1, <3>2
  <2>9. \A d, e \in Clients : data'[d] = data'[e] /\ data'[d] # NoBlock => d = e
    BY <1>0, <1>2, <2>7 DEF FlagsAgree
  <2> QED
    BY <2>2, <2>4, <2>5, <2>6, <2>8, <2>9 DEF FlagsAgree
<1> QED
  BY <1>1, <1>2 DEF TakeBlock

-----------------------------------------------------------------------------
\* pool_alloc: a connection waits only when no block is free, and takes one
\* without touching those that wait.
LEMMA pool_allocInv ==
  ASSUME MPoolInv, NEW c \in Clients, pool_alloc(c)
  PROVE  MPoolInv'
<1> USE BlocksFacts DEF MPoolInv
<1>0. /\ pos \in [Clients -> {"none", "waiting", "woken", "has"}]
      /\ linked = num_blocks /\ pos[c] = "none"
  BY DEF MPoolTypeOK, pool_alloc
<1>1. data[c] = NoBlock
  BY <1>0 DEF HasBlock
<1>2. CASE count = 0
  <2>1. /\ pos' = [pos EXCEPT ![c] = "waiting"]
        /\ used' = used /\ count' = count /\ linked' = linked /\ data' = data
    BY <1>2 DEF pool_alloc
  <2>2. MPoolTypeOK' /\ LinkedFirst' /\ HasBlock' /\ FlagsAgree'
    BY <1>0, <1>1, <2>1 DEF MPoolTypeOK, LinkedFirst, HasBlock, FlagsAgree
  <2>3. CountAgrees'
    BY <2>1 DEF CountAgrees, Free
  <2>4. Woken' \subseteq Clients /\ IsFiniteSet(Woken')
    BY MPoolAssumption, FS_Subset DEF Woken
  <2>5. count' <= Cardinality(Woken')
    BY <1>2, <2>1, <2>4, FS_CardinalityType
  <2> QED
    BY <2>2, <2>3, <2>5 DEF BlockNotForgotten
<1>3. CASE count # 0
  <2>1. TakeBlock(c)
    BY <1>3 DEF pool_alloc
  <2>2. /\ MPoolTypeOK' /\ LinkedFirst' /\ HasBlock' /\ FlagsAgree' /\ CountAgrees'
        /\ count' <= count
    BY <1>0, <1>1, <2>1, TakeBlockInv DEF MPoolTypeOK
  <2>3. Waiters' = Waiters /\ Woken' = Woken
    BY <1>0, <2>1 DEF TakeBlock, Waiters, Woken
  <2> QED
    BY <2>2, <2>3, CountedSets DEF BlockNotForgotten, MPoolTypeOK
<1> QED
  BY <1>2, <1>3

\* pool_alloc after the wait: the block that the connection was woken for and
\* the connection leave together, or there was no block at all.
LEMMA AllocAfterWaitInv ==
  ASSUME MPoolInv, NEW c \in Clients, AllocAfterWait(c)
  PROVE  MPoolInv'
<1> USE BlocksFacts DEF MPoolInv
<1>0. /\ pos \in [Clients -> {"none", "waiting", "woken", "has"}]
      /\ pos[c] = "woken" /\ TakeBlock(c) /\ linked = num_blocks /\ data[c] = NoBlock
  BY CalledLinked DEF MPoolTypeOK, AllocAfterWait, HasBlock
<1>1. /\ MPoolTypeOK' /\ LinkedFirst' /\ HasBlock' /\ FlagsAgree' /\ CountAgrees'
      /\ count' = 0 \/ count' = count - 1
  BY <1>0, TakeBlockInv
<1>2. Waiters' = Waiters /\ c \in Woken /\ Woken' = Woken \ {c}
  BY <1>0 DEF TakeBlock, Waiters, Woken
<1>3. Cardinality(Woken') = Cardinality(Woken) - 1 /\ Cardinality(Woken) \in Nat \ {0}
  BY <1>2, CountedSets, FS_RemoveElement
<1> QED
  BY <1>1, <1>2, <1>3 DEF BlockNotForgotten, MPoolTypeOK

\* A connection wakes without a signal.
LEMMA WakesSpuriouslyInv ==
  ASSUME MPoolInv, NEW c \in Clients, WakesSpuriously(c)
  PROVE  MPoolInv'
<1> USE BlocksFacts DEF MPoolInv, WakesSpuriously
<1>0. pos \in [Clients -> {"none", "waiting", "woken", "has"}]
  BY DEF MPoolTypeOK
<1>1. MPoolTypeOK' /\ LinkedFirst' /\ HasBlock' /\ FlagsAgree'
  BY <1>0 DEF MPoolTypeOK, LinkedFirst, HasBlock, FlagsAgree
<1>2. CountAgrees'
  BY DEF CountAgrees, Free
<1>3. Waiters # {} /\ c \notin Woken /\ Woken' = Woken \cup {c}
  BY <1>0 DEF Waiters, Woken
<1>4. Cardinality(Woken') = Cardinality(Woken) + 1
  BY <1>3, CountedSets, FS_AddElement
<1> QED
  BY <1>1, <1>2, <1>3, <1>4, CountedSets DEF BlockNotForgotten, MPoolTypeOK

\* pool_free: the block is free again, and one of those that wait is woken.
LEMMA pool_freeInv ==
  ASSUME MPoolInv, NEW c \in Clients, pool_free(c)
  PROVE  /\ MPoolInv'
         /\ data[c] \in Blocks \ Free /\ Free' = Free \cup {data[c]}
<1> USE BlocksFacts DEF MPoolInv
<1>0. /\ pos \in [Clients -> {"none", "waiting", "woken", "has"}]
      /\ data \in [Clients -> Blocks \cup {NoBlock}]
      /\ used \in [Blocks -> {0, 1}]
      /\ pos[c] = "has" /\ data[c] \in Blocks /\ linked = num_blocks
      /\ used' = [used EXCEPT ![data[c]] = 0] /\ count' = count + 1
      /\ data' = [data EXCEPT ![c] = NoBlock] /\ linked' = linked
  BY CalledLinked DEF MPoolTypeOK, pool_free
<1>1. used[data[c]] = 1
  BY <1>0 DEF FlagsAgree
<1>2. data[c] \notin Free /\ Free' = Free \cup {data[c]}
  BY <1>0, <1>1 DEF Free, Blocks
<1>3. CountAgrees'
  BY <1>0, <1>2, CountedSets, FS_AddElement DEF CountAgrees
<1>4. /\ pos' \in [Clients -> {"none", "waiting", "woken", "has"}]
      /\ \A d \in Clients \ {c} : pos[d] = "has" => pos'[d] = "has"
  BY <1>0 DEF pool_free, SignalOne, Waiters
<1>5. MPoolTypeOK'
  <2>1. used' \in [Blocks -> {0, 1}] /\ data' \in [Clients -> Blocks \cup {NoBlock}]
    BY <1>0
  <2>2. count' \in Int /\ linked' \in 0 .. num_blocks
    BY <1>0 DEF MPoolTypeOK
  <2> QED
    BY <1>4, <2>1, <2>2 DEF MPoolTypeOK
<1>6. LinkedFirst' /\ HasBlock'
  BY <1>0, <1>4 DEF LinkedFirst, HasBlock
<1>7. \A x \in Blocks : used'[x] = 1 <=> \E d \in Clients : data'[d] = x
  <2> SUFFICES ASSUME NEW x \in Blocks
               PROVE  used'[x] = 1 <=> \E d \in Clients : data'[d] = x
    OBVIOUS
  <2>1. CASE x = data[c]
    <3>1. \A d \in Clients : data'[d] # x
      BY <1>0, <2>1 DEF FlagsAgree
    <3> QED
      BY <1>0, <2>1, <3>1
  <2>2. CASE x # data[c]
    <3>1. used'[x] = used[x]
      BY <1>0, <2>2
    <3>2. \A d \in Clients : data'[d] = x <=> data[d] = x
      BY <1>0, <2>2
    <3> QED
      BY <3>1, <3>2 DEF FlagsAgree
  <2> QED
    BY <2>1, <2>2
<1>8. FlagsAgree'
  BY <1>0, <1>7 DEF FlagsAgree
<1>9. BlockNotForgotten'
  <2>1. CASE Waiters = {}
    <3>1. pos' = [pos EXCEPT ![c] = "none"]
      BY <2>1 DEF pool_free, SignalOne
    <3>2. Waiters' = {}
      BY <1>0, <2>1, <3>1 DEF Waiters
    <3> QED
      BY <1>5, <3>2 DEF BlockNotForgotten
  <2>2. CASE Waiters # {}
    <3>1. PICK w \in Waiters : pos' = [pos EXCEPT ![c] = "none", ![w] = "woken"]
      BY <2>2 DEF pool_free, SignalOne
    <3>2. w \notin Woken /\ Woken' = Woken \cup {w}
      BY <1>0, <3>1 DEF Waiters, Woken
    <3>3. Cardinality(Woken') = Cardinality(Woken) + 1
      BY <3>2, CountedSets, FS_AddElement
    <3> QED
      BY <1>0, <1>5, <2>2, <3>3, CountedSets DEF BlockNotForgotten, MPoolTypeOK
  <2> QED
    BY <2>1, <2>2
<1> QED
  BY <1>0, <1>2, <1>3, <1>5, <1>6, <1>8, <1>9

\* pool_free of no block.
LEMMA FreeInvalidPointerInv ==
  ASSUME MPoolInv, NEW c \in Clients, FreeInvalidPointer(c)
  PROVE  MPoolInv'
<1> USE BlocksFacts DEF MPoolInv, FreeInvalidPointer
<1>0. /\ pos \in [Clients -> {"none", "waiting", "woken", "has"}]
      /\ data[c] = NoBlock /\ linked = num_blocks
  BY CalledLinked DEF MPoolTypeOK
<1>1. MPoolTypeOK' /\ LinkedFirst' /\ HasBlock' /\ FlagsAgree'
  BY <1>0 DEF MPoolTypeOK, LinkedFirst, HasBlock, FlagsAgree
<1>2. CountAgrees'
  BY DEF CountAgrees, Free
<1>3. Waiters' = Waiters /\ Woken' = Woken
  BY <1>0 DEF Waiters, Woken
<1> QED
  BY <1>1, <1>2, <1>3 DEF BlockNotForgotten

\* Every step of the callers keeps it.
LEMMA MPoolStepInv == MPoolInv /\ [MPoolNext]_mpoolvars => MPoolInv'
<1> SUFFICES ASSUME MPoolInv, [MPoolNext]_mpoolvars
             PROVE  MPoolInv'
  OBVIOUS
<1>1. CASE UNCHANGED mpoolvars
  BY <1>1 DEF mpoolvars, MPoolInv, MPoolTypeOK, LinkedFirst, HasBlock, FlagsAgree,
              CountAgrees, BlockNotForgotten, Free, Waiters, Woken
<1>2. CASE MPoolNext
  BY <1>2, pool_initInv, pool_allocInv, WakesSpuriouslyInv, AllocAfterWaitInv,
     pool_freeInv, FreeInvalidPointerInv DEF MPoolNext
<1> QED
  BY <1>1, <1>2

\* So it holds in every state.
LEMMA MPoolInvariant == MPoolSpec => []MPoolInv
BY MPoolInitInv, MPoolStepInv, PTL DEF MPoolSpec

\* Type correctness of the memory pool and of its clients.
THEOREM MPoolTypesOK == MPoolSpec => []MPoolTypeOK
<1>1. MPoolInv => MPoolTypeOK
  BY DEF MPoolInv
<1> QED
  BY MPoolInvariant, <1>1, PTL

\* While a connection waits in pool_alloc, every free block has a connection
\* that was already woken for it: no signal of pool_free is lost, although
\* pool_alloc tests count only once and takes what it finds after the wait.
THEOREM MPoolBlockNotForgotten == MPoolSpec => []BlockNotForgotten
<1>1. MPoolInv => BlockNotForgotten
  BY DEF MPoolInv
<1> QED
  BY MPoolInvariant, <1>1, PTL

\* count and the flags of the nodes agree with who has what: pool_alloc finds
\* a node with the flag clear exactly when count is not zero, and returns NULL
\* only when every block is lent.
THEOREM MPoolFlagsAgree == MPoolSpec => [](FlagsAgree /\ CountAgrees)
<1>1. MPoolInv => FlagsAgree /\ CountAgrees
  BY DEF MPoolInv
<1> QED
  BY MPoolInvariant, <1>1, PTL

(***************************************************************************)
(* The pool implements ResourcePool: a node that is linked and has its     *)
(* flag clear is free, and data says to whom a block is lent.              *)
(***************************************************************************)

\* The initial pool holds nothing.
LEMMA MPoolInitRefines == MPoolInit => BlockPool!Init
<1> SUFFICES ASSUME MPoolInit
             PROVE  BlockPool!Init
  OBVIOUS
<1>1. Free = {}
  BY BlocksFacts DEF MPoolInit, Free, Blocks
<1>2. [c \in Clients |-> {data[c]} \ {NoBlock}] = [c \in Clients |-> {}]
  BY DEF MPoolInit
<1> QED
  BY <1>1, <1>2 DEF BlockPool!Init

\* What is lent, as the refinement sees it.
BlocksOut == [c \in Clients |-> {data[c]} \ {NoBlock}]

\* A step that takes a block, or finds none.
LEMMA TakeRefines ==
  ASSUME MPoolInv, NEW c \in Clients, TakeBlock(c), data[c] = NoBlock,
         linked = num_blocks
  PROVE  [BlockPool!Next]_(BlockPool!vars)
<1>1. CASE Free = {} /\ Free' = {} /\ data' = data
  <2>1. Free' = Free /\ BlocksOut' = BlocksOut
    BY <1>1 DEF BlocksOut
  <2> QED
    BY <2>1 DEF BlockPool!vars, BlocksOut
<1>2. ASSUME NEW b \in Free, Free' = Free \ {b}, data' = [data EXCEPT ![c] = b]
      PROVE  [BlockPool!Next]_(BlockPool!vars)
  <2>1. b \in Blocks /\ b # NoBlock
    BY BlocksFacts DEF Free
  <2>2. BlocksOut' = [BlocksOut EXCEPT ![c] = @ \cup {b}]
    <3>1. \A d \in Clients : {data'[d]} \ {NoBlock} =
                               IF d = c THEN ({data[c]} \ {NoBlock}) \cup {b}
                               ELSE {data[d]} \ {NoBlock}
      BY <1>2, <2>1 DEF MPoolInv, MPoolTypeOK
    <3> QED
      BY <3>1 DEF BlocksOut
  <2>3. BlockPool!Acquire(c, b)
    BY <1>2, <2>2 DEF BlockPool!Acquire, BlocksOut
  <2> QED
    BY <2>1, <2>3 DEF BlockPool!Next
<1> QED
  BY <1>1, <1>2, TakeBlockInv

\* Every step is a step of the pool of blocks or none of it.
LEMMA MPoolNextRefines ==
  MPoolInv /\ [MPoolNext]_mpoolvars => [BlockPool!Next]_(BlockPool!vars)
<1> SUFFICES ASSUME MPoolInv, [MPoolNext]_mpoolvars
             PROVE  [BlockPool!Next]_(BlockPool!vars)
  OBVIOUS
<1>0. ASSUME UNCHANGED <<used, linked, data>>
      PROVE  [BlockPool!Next]_(BlockPool!vars)
  BY <1>0 DEF BlockPool!vars, Free
<1>1. CASE pool_init
  <2>1. /\ Free' = Free \cup {linked + 1} /\ linked + 1 \in Blocks \ Free
        /\ \A c \in Clients : data[c] = NoBlock /\ data'[c] = NoBlock
    BY <1>1, pool_initInv
  <2>2. BlocksOut' = BlocksOut /\ \A c \in Clients : linked + 1 \notin BlocksOut[c]
    BY <2>1 DEF BlocksOut
  <2>3. BlockPool!Open(linked + 1)
    BY <2>1, <2>2 DEF BlockPool!Open, BlocksOut
  <2>4. linked + 1 \in Blocks
    BY <2>1
  <2> QED
    BY <2>3, <2>4 DEF BlockPool!Next
<1>2. ASSUME NEW c \in Clients, pool_alloc(c)
      PROVE  [BlockPool!Next]_(BlockPool!vars)
  <2>1. data[c] = NoBlock /\ linked = num_blocks
    BY <1>2 DEF pool_alloc, MPoolInv, HasBlock
  <2>2. CASE count = 0
    BY <1>0, <1>2, <2>2 DEF pool_alloc
  <2>3. CASE count # 0
    BY <1>2, <2>1, <2>3, TakeRefines DEF pool_alloc
  <2> QED
    BY <2>2, <2>3
<1>3. ASSUME NEW c \in Clients, AllocAfterWait(c)
      PROVE  [BlockPool!Next]_(BlockPool!vars)
  <2>1. data[c] = NoBlock /\ linked = num_blocks
    BY <1>3, CalledLinked DEF AllocAfterWait, MPoolInv, HasBlock
  <2> QED
    BY <1>3, <2>1, TakeRefines DEF AllocAfterWait
<1>4. ASSUME NEW c \in Clients, pool_free(c)
      PROVE  [BlockPool!Next]_(BlockPool!vars)
  <2>1. PICK b \in Blocks : b = data[c] /\ b # NoBlock /\ Free' = Free \cup {b}
    BY <1>4, pool_freeInv, BlocksFacts
  <2>2. BlocksOut' = [BlocksOut EXCEPT ![c] = @ \ {b}]
    <3>1. \A d \in Clients : {data'[d]} \ {NoBlock} =
                               IF d = c THEN ({data[c]} \ {NoBlock}) \ {b}
                               ELSE {data[d]} \ {NoBlock}
      BY <1>4, <2>1 DEF pool_free, MPoolInv, MPoolTypeOK
    <3> QED
      BY <3>1 DEF BlocksOut
  <2>3. BlockPool!Release(c, b)
    BY <2>1, <2>2 DEF BlockPool!Release, BlocksOut
  <2> QED
    BY <2>3 DEF BlockPool!Next
<1>5. ASSUME NEW c \in Clients, WakesSpuriously(c) \/ FreeInvalidPointer(c)
      PROVE  [BlockPool!Next]_(BlockPool!vars)
  BY <1>0, <1>5 DEF WakesSpuriously, FreeInvalidPointer
<1>6. CASE UNCHANGED mpoolvars
  BY <1>0, <1>6 DEF mpoolvars
<1> QED
  BY <1>1, <1>2, <1>3, <1>4, <1>5, <1>6 DEF MPoolNext

\* mpool.c hands out blocks exclusively: with its flags, counter and condition
\* variable it is a ResourcePool, for every number of blocks and connections.
THEOREM MPoolRefinement == MPoolSpec => ImplementsBlockPool
BY MPoolInvariant, MPoolInitRefines, MPoolNextRefines, PTL
DEF ImplementsBlockPool, BlockPool!Spec, MPoolSpec
=============================================================================

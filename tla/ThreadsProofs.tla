---------------------------- MODULE ThreadsProofs ----------------------------
(***************************************************************************)
(* Proofs about the threads of the server's own: the thread pool, for      *)
(* every number of workers, every set of tasks, with and without failing   *)
(* calls and spurious wakeups, and the log, for every set of writers, every*)
(* size of the buffer and every number of records.                         *)
(***************************************************************************)
EXTENDS ThreadPool, Log, FiniteSetTheorems, SequenceTheorems, TLAPS

(***************************************************************************)
(* The thread pool.                                                        *)
(***************************************************************************)
\* The members of a list.
Members(s) == {s[i] : i \in DOMAIN s}

\* A task is accepted once.
Once == \A i, j \in DOMAIN added : added[i] = added[j] => i = j

\* A worker has a task exactly while it runs it.
RunningHas == \A w \in Workers : task[w] # NULL <=> pc[w] = "running"

\* A task that was taken is finished or still with a worker; and nothing is
\* finished or with a worker that was not taken.
TakenOrDone ==
  /\ finished \subseteq Members(started)
  /\ \A w \in Workers : task[w] # NULL => task[w] \in Members(started)
  /\ \A x \in Members(started) : x \in finished \/ \E w \in Workers : task[w] = x

\* The flag follows the owner, and the pool is freed after the last join.
OwnerPhase ==
  /\ shutdown <=> owner \notin {"creating", "using"}
  /\ owner = "freed" => thread_list = <<>>

\* While the pool is created, the workers to come are not there yet.
Unmade ==
  owner = "creating" =>
    \A w \in Workers : w > Len(thread_list) => pc[w] = "absent"

\* A worker that may still touch the pool is on the list of threads to join.
Listed ==
  \A w \in Workers : pc[w] \notin {"exited", "absent"} => w \in Members(thread_list)

\* After the owner saw an empty list and destroyed the pool, everything that
\* was added has been taken.
PolledTaken == polled => shutdown /\ task_list = <<>> /\ started = added

\* The inductive invariant.
PoolInv ==
  /\ FirstInFirstOut
  /\ Once
  /\ RunningHas
  /\ TakenOrDone
  /\ OwnerPhase
  /\ Unmade
  /\ Listed
  /\ PolledTaken
  /\ FreedAfterExit

-----------------------------------------------------------------------------
\* Append adds a last member.
LEMMA AppendMembers ==
  ASSUME NEW S, NEW s \in Seq(S), NEW e \in S
  PROVE  /\ Append(s, e) \in Seq(S)
         /\ Members(Append(s, e)) = Members(s) \cup {e}
         /\ DOMAIN Append(s, e) = DOMAIN s \cup {Len(s) + 1}
         /\ \A i \in DOMAIN s : Append(s, e)[i] = s[i]
         /\ Append(s, e)[Len(s) + 1] = e
<1>1. /\ Append(s, e) \in Seq(S)
      /\ Len(Append(s, e)) = Len(s) + 1
      /\ \A i \in 1 .. Len(s) : Append(s, e)[i] = s[i]
      /\ Append(s, e)[Len(s) + 1] = e
  BY AppendProperties
<1>2. /\ Len(s) \in Nat /\ DOMAIN s = 1 .. Len(s)
      /\ DOMAIN Append(s, e) = 1 .. Len(Append(s, e))
  BY <1>1, LenProperties
<1>3. DOMAIN Append(s, e) = DOMAIN s \cup {Len(s) + 1}
  BY <1>1, <1>2
<1> QED
  BY <1>1, <1>2, <1>3 DEF Members

\* A node linked at the head is a new member.
LEMMA ConsMembers ==
  ASSUME NEW S, NEW s \in Seq(S), NEW e \in S
  PROVE  /\ <<e>> \o s \in Seq(S)
         /\ Members(<<e>> \o s) = Members(s) \cup {e}
<1>1. <<e>> \in Seq(S) /\ Len(<<e>>) = 1 /\ <<e>>[1] = e
  OBVIOUS
<1>2. /\ <<e>> \o s \in Seq(S)
      /\ Len(<<e>> \o s) = Len(s) + 1
      /\ \A i \in 1 .. Len(s) + 1 : (<<e>> \o s)[i] = IF i <= 1 THEN <<e>>[i] ELSE s[i - 1]
  BY <1>1, ConcatProperties, LenProperties
<1>3. /\ Len(s) \in Nat /\ DOMAIN s = 1 .. Len(s)
      /\ DOMAIN (<<e>> \o s) = 1 .. Len(s) + 1
  BY <1>2, LenProperties
<1>4. (<<e>> \o s)[1] = e /\ \A i \in 1 .. Len(s) : (<<e>> \o s)[i + 1] = s[i]
  BY <1>1, <1>2, <1>3
<1>5. Members(s) \cup {e} \subseteq Members(<<e>> \o s)
  <2>1. e \in Members(<<e>> \o s)
    BY <1>3, <1>4 DEF Members
  <2>2. \A i \in 1 .. Len(s) : i + 1 \in DOMAIN (<<e>> \o s)
    BY <1>3
  <2>3. \A i \in 1 .. Len(s) : s[i] \in Members(<<e>> \o s)
    BY <1>4, <2>2 DEF Members
  <2> QED
    BY <1>3, <2>1, <2>3 DEF Members
<1>6. Members(<<e>> \o s) \subseteq Members(s) \cup {e}
  <2> SUFFICES ASSUME NEW i \in 1 .. Len(s) + 1
               PROVE  (<<e>> \o s)[i] \in Members(s) \cup {e}
    BY <1>3 DEF Members
  <2>1. CASE i = 1
    BY <1>4, <2>1
  <2>2. CASE i # 1
    <3>1. i - 1 \in DOMAIN s /\ (<<e>> \o s)[i] = s[i - 1]
      BY <1>2, <1>3, <2>2
    <3> QED
      BY <3>1 DEF Members
  <2> QED
    BY <2>1, <2>2
<1> QED
  BY <1>2, <1>5, <1>6

\* Head and Tail split the members.
LEMMA TailMembers ==
  ASSUME NEW S, NEW s \in Seq(S), s # <<>>
  PROVE  /\ Head(s) \in S /\ Tail(s) \in Seq(S)
         /\ \A x \in Members(s) : x # Head(s) => x \in Members(Tail(s))
<1>1. /\ Head(s) \in S /\ Tail(s) \in Seq(S)
      /\ Len(Tail(s)) = Len(s) - 1
      /\ \A i \in 1 .. Len(Tail(s)) : Tail(s)[i] = s[i + 1]
  BY HeadTailProperties
<1>2. /\ Len(s) \in Nat \ {0} /\ DOMAIN s = 1 .. Len(s)
      /\ DOMAIN Tail(s) = 1 .. Len(Tail(s)) /\ Head(s) = s[1]
  BY <1>1, LenProperties, EmptySeq
<1>3. ASSUME NEW i \in DOMAIN s, s[i] # Head(s)
      PROVE  s[i] \in Members(Tail(s))
  <2>1. i - 1 \in DOMAIN Tail(s) /\ i - 1 \in 1 .. Len(Tail(s)) /\ (i - 1) + 1 = i
    BY <1>1, <1>2, <1>3
  <2>2. Tail(s)[i - 1] = s[i]
    BY <1>1, <2>1
  <2> QED
    BY <2>1, <2>2 DEF Members
<1> QED
  BY <1>1, <1>3 DEF Members

\* The first of what is left moves behind what was taken: the whole list is
\* the same, and where the elements are distinct the one that moves was not
\* among those taken.
LEMMA MoveHead ==
  ASSUME NEW S, NEW s \in Seq(S), NEW t \in Seq(S), t # <<>>
  PROVE  /\ Append(s, Head(t)) \o Tail(t) = s \o t
         /\ (\A i, j \in DOMAIN (s \o t) : (s \o t)[i] = (s \o t)[j] => i = j)
              => Head(t) \notin Members(s)
<1>1. Head(t) \in S /\ Tail(t) \in Seq(S) /\ <<Head(t)>> \in Seq(S)
  BY HeadTailProperties
<1>2. t = <<Head(t)>> \o Tail(t)
  <2>1. /\ Len(t) \in Nat \ {0} /\ Len(<<Head(t)>>) = 1 /\ <<Head(t)>>[1] = Head(t)
        /\ Len(Tail(t)) = Len(t) - 1 /\ Head(t) = t[1]
        /\ \A i \in 1 .. Len(Tail(t)) : Tail(t)[i] = t[i + 1]
    BY HeadTailProperties, EmptySeq
  <2>2. /\ <<Head(t)>> \o Tail(t) \in Seq(S)
        /\ Len(<<Head(t)>> \o Tail(t)) = Len(t)
        /\ \A i \in 1 .. Len(t) : (<<Head(t)>> \o Tail(t))[i] =
             IF i <= 1 THEN <<Head(t)>>[i] ELSE Tail(t)[i - 1]
    BY <1>1, <2>1, ConcatProperties
  <2>3. \A i \in 1 .. Len(t) : t[i] = (<<Head(t)>> \o Tail(t))[i]
    BY <2>1, <2>2
  <2> QED
    BY <2>2, <2>3, SeqEqual
<1>3. Append(s, Head(t)) = s \o <<Head(t)>>
  BY <1>1, AppendIsConcat
<1>4. (s \o <<Head(t)>>) \o Tail(t) = s \o (<<Head(t)>> \o Tail(t))
  BY <1>1, ConcatAssociative
<1>5. ASSUME \A i, j \in DOMAIN (s \o t) : (s \o t)[i] = (s \o t)[j] => i = j,
             Head(t) \in Members(s)
      PROVE  FALSE
  <2>1. /\ Len(s) \in Nat /\ Len(t) \in Nat \ {0} /\ DOMAIN s = 1 .. Len(s)
        /\ Head(t) = t[1]
    BY LenProperties, EmptySeq
  <2>2. /\ DOMAIN (s \o t) = 1 .. Len(s) + Len(t)
        /\ \A i \in 1 .. Len(s) + Len(t) :
             (s \o t)[i] = IF i <= Len(s) THEN s[i] ELSE t[i - Len(s)]
    BY ConcatProperties, LenProperties
  <2>3. PICK i \in 1 .. Len(s) : s[i] = Head(t)
    BY <1>5, <2>1 DEF Members
  <2>4. (s \o t)[i] = Head(t) /\ (s \o t)[Len(s) + 1] = Head(t)
    BY <2>1, <2>2, <2>3
  <2> QED
    BY <1>5, <2>1, <2>2, <2>4
<1> QED
  BY <1>2, <1>3, <1>4, <1>5

-----------------------------------------------------------------------------
\* A pool that has not been created satisfies it.
LEMMA PoolInitInv == Init => PoolInv
<1> SUFFICES ASSUME Init
             PROVE  PoolInv
  OBVIOUS
<1> USE DEF Init
<1>1. TypeOK
  <2>1. pc \in [Workers -> WorkerStates] /\ task \in [Workers -> Tasks \cup {NULL}]
    BY DEF WorkerStates
  <2>2. /\ task_list \in Seq(Tasks) /\ thread_list \in Seq(Workers)
        /\ added \in Seq(Tasks) /\ started \in Seq(Tasks)
    BY EmptySeq
  <2>3. shutdown \in BOOLEAN /\ polled \in BOOLEAN
    OBVIOUS
  <2> QED
    BY <2>1, <2>2, <2>3 DEF TypeOK
<1>2. started \o task_list = added
  OBVIOUS
<1>3. FirstInFirstOut
  BY <1>1, <1>2 DEF FirstInFirstOut
<1>4. Once /\ RunningHas /\ OwnerPhase /\ Unmade /\ Listed /\ PolledTaken /\ FreedAfterExit
  BY DEF Once, RunningHas, OwnerPhase, Unmade, Listed, PolledTaken, FreedAfterExit
<1>5. TakenOrDone
  BY DEF TakenOrDone, Members
<1> QED
  BY <1>3, <1>4, <1>5 DEF PoolInv

\* A broadcast moves sleepers only.
LEMMA BroadcastFacts ==
  ASSUME TypeOK, pc' = Broadcast(pc)
  PROVE  /\ pc' \in [Workers -> WorkerStates]
         /\ \A w \in Workers : /\ pc'[w] = "running" <=> pc[w] = "running"
                               /\ pc'[w] = "absent" <=> pc[w] = "absent"
                               /\ pc'[w] = "exited" <=> pc[w] = "exited"
BY DEF TypeOK, Broadcast, WorkerStates

\* A worker is linked and started.
LEMMA CreateInv ==
  ASSUME PoolInv, thread_pool_create
  PROVE  PoolInv'
<1> USE DEF PoolInv
<1>0. TypeOK
  BY DEF FirstInFirstOut
<1> DEFINE w == NextThread
<1>1. /\ w \in Workers /\ thread_list \in Seq(Workers) /\ Len(thread_list) \in Nat
      /\ w = Len(thread_list) + 1 /\ owner = "creating" /\ ~shutdown
  BY <1>0, ThreadPoolAssumption, LenProperties
    DEF thread_pool_create, TypeOK, NextThread, Workers, OwnerPhase
<1>2. UNCHANGED <<task_list, task, added, started, finished, polled>>
  BY DEF thread_pool_create
<1>3. pc[w] = "absent"
  BY <1>1 DEF Unmade
<1>4. /\ <<w>> \o thread_list \in Seq(Workers)
      /\ Members(<<w>> \o thread_list) = Members(thread_list) \cup {w}
      /\ Len(<<w>> \o thread_list) = Len(thread_list) + 1
  <2>1. /\ <<w>> \o thread_list \in Seq(Workers)
        /\ Members(<<w>> \o thread_list) = Members(thread_list) \cup {w}
    BY <1>1, ConsMembers
  <2>2. Len(<<w>> \o thread_list) = Len(thread_list) + 1
    BY <1>1
  <2> QED
    BY <2>1, <2>2
<1>5. \/ /\ thread_list' = <<w>> \o thread_list
         /\ pc' = [pc EXCEPT ![w] = "ready"]
         /\ owner' = IF w = thread_count THEN "using" ELSE "creating"
         /\ shutdown' = shutdown
      \/ /\ thread_list' \in {thread_list, <<w>> \o thread_list}
         /\ shutdown' = TRUE /\ owner' = "joining" /\ pc' = Broadcast(pc)
  BY DEF thread_pool_create, BeginDestroy
<1>6. TypeOK'
  BY <1>0, <1>1, <1>2, <1>4, <1>5, BroadcastFacts DEF TypeOK, WorkerStates
<1>7. Listed' /\ RunningHas'
  BY <1>0, <1>1, <1>2, <1>3, <1>4, <1>5, BroadcastFacts DEF TypeOK, Listed, RunningHas
<1>8. Unmade' /\ OwnerPhase'
  <2>1. OwnerPhase'
    BY <1>1, <1>5 DEF OwnerPhase
  <2>2. ASSUME NEW v \in Workers, owner' = "creating", v > Len(thread_list')
        PROVE  pc'[v] = "absent"
    <3>1. thread_list' = <<w>> \o thread_list /\ pc' = [pc EXCEPT ![w] = "ready"]
      BY <1>5, <2>2
    <3>2. v \in Nat /\ v > Len(thread_list) /\ v # w
      BY <1>1, <1>4, <2>2, <3>1, ThreadPoolAssumption DEF Workers
    <3> QED
      BY <1>0, <1>1, <3>1, <3>2 DEF Unmade, TypeOK
  <2> QED
    BY <2>1, <2>2 DEF Unmade
<1>9. FirstInFirstOut' /\ Once' /\ TakenOrDone' /\ PolledTaken' /\ FreedAfterExit'
  BY <1>1, <1>2, <1>5, <1>6
    DEF FirstInFirstOut, Once, TakenOrDone, PolledTaken, FreedAfterExit
<1> QED
  BY <1>7, <1>8, <1>9

\* A task is accepted: it is new, and the last of all.
LEMMA AddInv ==
  ASSUME PoolInv, NEW x \in Tasks, thread_pool_add_task(x)
  PROVE  PoolInv'
<1> USE DEF PoolInv
<1>0. /\ TypeOK /\ task_list \in Seq(Tasks) /\ added \in Seq(Tasks)
      /\ started \in Seq(Tasks) /\ pc \in [Workers -> WorkerStates]
  BY DEF FirstInFirstOut, TypeOK
<1>1. /\ owner = "using" /\ ~shutdown /\ started \o task_list = added
      /\ \A i \in DOMAIN added : added[i] # x
      /\ task_list' = Append(task_list, x) /\ added' = Append(added, x)
      /\ UNCHANGED <<shutdown, thread_list, owner, task, started, finished, polled>>
  BY DEF thread_pool_add_task, Linked, FirstInFirstOut, OwnerPhase
<1>2. /\ pc' \in [Workers -> WorkerStates]
      /\ \A w \in Workers : /\ pc'[w] = "running" <=> pc[w] = "running"
                            /\ pc'[w] = "absent" <=> pc[w] = "absent"
                            /\ pc'[w] = "exited" <=> pc[w] = "exited"
  BY <1>0 DEF thread_pool_add_task, Signal, waiting, WorkerStates
<1>3. task_list' \in Seq(Tasks) /\ added' \in Seq(Tasks)
  BY <1>0, <1>1, AppendMembers
<1>4. TypeOK'
  BY <1>0, <1>1, <1>2, <1>3 DEF TypeOK
<1>5. started' \o task_list' = added'
  <2>1. <<x>> \in Seq(Tasks)
    OBVIOUS
  <2>2. Append(task_list, x) = task_list \o <<x>> /\ Append(added, x) = added \o <<x>>
    BY <1>0, AppendIsConcat
  <2>3. started \o (task_list \o <<x>>) = (started \o task_list) \o <<x>>
    BY <1>0, <2>1, ConcatAssociative
  <2> QED
    BY <1>1, <2>2, <2>3
<1>6. FirstInFirstOut'
  BY <1>1, <1>4, <1>5 DEF FirstInFirstOut
<1>7. Once'
  <2>1. /\ DOMAIN added' = DOMAIN added \cup {Len(added) + 1}
        /\ \A i \in DOMAIN added : added'[i] = added[i]
        /\ added'[Len(added) + 1] = x
    BY <1>0, <1>1, AppendMembers
  <2> QED
    BY <1>1, <2>1 DEF Once
<1>8. RunningHas' /\ Listed' /\ Unmade'
  BY <1>1, <1>2 DEF RunningHas, Listed, Unmade
<1>9. TakenOrDone' /\ OwnerPhase' /\ PolledTaken' /\ FreedAfterExit'
  BY <1>1 DEF TakenOrDone, OwnerPhase, PolledTaken, FreedAfterExit
<1> QED
  BY <1>6, <1>7, <1>8, <1>9

\* The owner sets the flag; when it has seen an empty list before, all that
\* was added has been taken.
LEMMA DestroyInv ==
  ASSUME PoolInv, thread_pool_destroy
  PROVE  PoolInv'
<1> USE DEF PoolInv
<1>0. /\ TypeOK /\ started \in Seq(Tasks) /\ task_list \in Seq(Tasks)
  BY DEF FirstInFirstOut, TypeOK
<1>1. /\ owner = "using" /\ ~shutdown /\ started \o task_list = added
      /\ polled' \in {FALSE, task_list = <<>>}
      /\ shutdown' = TRUE /\ owner' = "joining" /\ pc' = Broadcast(pc)
      /\ UNCHANGED <<task_list, thread_list, task, added, started, finished>>
  BY DEF thread_pool_destroy, BeginDestroy, FirstInFirstOut, OwnerPhase
<1>2. TypeOK'
  BY <1>0, <1>1, BroadcastFacts DEF TypeOK
<1>3. RunningHas' /\ Listed' /\ Unmade'
  BY <1>0, <1>1, BroadcastFacts DEF RunningHas, Listed, Unmade
<1>4. PolledTaken'
  <2>1. task_list = <<>> => started = added
    BY <1>0, <1>1, ConcatEmptySeq
  <2> QED
    BY <1>1, <2>1 DEF PolledTaken
<1>5. FirstInFirstOut' /\ Once' /\ TakenOrDone' /\ OwnerPhase' /\ FreedAfterExit'
  BY <1>1, <1>2 DEF FirstInFirstOut, Once, TakenOrDone, OwnerPhase, FreedAfterExit
<1> QED
  BY <1>3, <1>4, <1>5

\* A join returns only for a thread that touches the pool no more.
LEMMA JoinInv ==
  ASSUME PoolInv, JoinThread
  PROVE  PoolInv'
<1> USE DEF PoolInv
<1>0. TypeOK /\ thread_list \in Seq(Workers)
  BY DEF FirstInFirstOut, TypeOK
<1>1. /\ owner = "joining" /\ thread_list # <<>>
      /\ UNCHANGED <<task_list, shutdown, pc, task, added, started, finished, polled>>
      /\ \/ /\ pc[Head(thread_list)] \in {"exited", "absent"}
            /\ thread_list' = Tail(thread_list) /\ owner' = owner
         \/ owner' \in Undefined /\ thread_list' = thread_list
  BY DEF JoinThread, Joined
<1>2. /\ Tail(thread_list) \in Seq(Workers)
      /\ \A x \in Members(thread_list) :
           x # Head(thread_list) => x \in Members(Tail(thread_list))
  BY <1>0, <1>1, TailMembers
<1>3. TypeOK'
  BY <1>0, <1>1, <1>2 DEF TypeOK
<1>4. Listed'
  BY <1>1, <1>2 DEF Listed
<1>5. Unmade' /\ OwnerPhase' /\ FreedAfterExit'
  BY <1>1 DEF Unmade, OwnerPhase, FreedAfterExit, Undefined
<1>6. FirstInFirstOut' /\ Once' /\ RunningHas' /\ TakenOrDone' /\ PolledTaken'
  BY <1>1, <1>3 DEF FirstInFirstOut, Once, RunningHas, TakenOrDone, PolledTaken
<1> QED
  BY <1>4, <1>5, <1>6

\* The pool is freed after the last join: nobody is left on the list.
LEMMA FreeInv ==
  ASSUME PoolInv, FreePool
  PROVE  PoolInv'
<1> USE DEF PoolInv
<1>0. TypeOK
  BY DEF FirstInFirstOut
<1>1. /\ owner = "joining" /\ thread_list = <<>> /\ owner' = "freed" /\ task_list' = <<>>
      /\ UNCHANGED <<shutdown, thread_list, pc, task, added, started, finished, polled>>
  BY DEF FreePool
<1>2. TypeOK'
  BY <1>0, <1>1 DEF TypeOK
<1>3. \A w \in Workers : pc[w] \in {"exited", "absent"}
  BY <1>1 DEF Listed, Members
<1>4. \A w \in Workers : task[w] = NULL
  BY <1>3 DEF RunningHas
<1>5. polled => \A i \in DOMAIN added : added[i] \in finished
  <2> SUFFICES ASSUME polled, NEW i \in DOMAIN added
               PROVE  added[i] \in finished
    OBVIOUS
  <2>1. added = started /\ added[i] \in Members(started)
    BY DEF PolledTaken, Members
  <2>2. added[i] # NULL
    BY <1>0, ThreadPoolAssumption, LenProperties, ElementOfSeq DEF TypeOK
  <2> QED
    BY <1>4, <2>1, <2>2 DEF TakenOrDone
<1>6. FreedAfterExit'
  BY <1>1, <1>3, <1>5 DEF FreedAfterExit
<1>7. FirstInFirstOut' /\ PolledTaken' /\ OwnerPhase' /\ Unmade'
  BY <1>1, <1>2 DEF FirstInFirstOut, PolledTaken, OwnerPhase, Unmade
<1>8. Once' /\ RunningHas' /\ TakenOrDone' /\ Listed'
  BY <1>1 DEF Once, RunningHas, TakenOrDone, Listed
<1> QED
  BY <1>6, <1>7, <1>8

-----------------------------------------------------------------------------
\* A worker moves between places in which it has no task, without leaving the
\* list of those that may touch the pool, or it exits.
LEMMA WorkerMoves ==
  ASSUME PoolInv, NEW w \in Workers, pc[w] \in {"ready", "waiting", "woken"},
         NEW s \in {"waiting", "woken", "exited"}, pc' = [pc EXCEPT ![w] = s],
         UNCHANGED <<task_list, shutdown, thread_list, owner, task,
                     added, started, finished, polled>>
  PROVE  PoolInv'
<1> USE DEF PoolInv
<1>0. TypeOK /\ pc \in [Workers -> WorkerStates]
  BY DEF FirstInFirstOut, TypeOK
<1>1. TypeOK'
  BY <1>0 DEF TypeOK, WorkerStates
<1>2. RunningHas' /\ Listed' /\ Unmade' /\ FreedAfterExit'
  BY <1>0 DEF RunningHas, Listed, Unmade, FreedAfterExit
<1>3. FirstInFirstOut' /\ Once' /\ TakenOrDone' /\ OwnerPhase' /\ PolledTaken'
  BY <1>1 DEF FirstInFirstOut, Once, TakenOrDone, OwnerPhase, PolledTaken
<1> QED
  BY <1>2, <1>3

\* A worker takes the first task: it was not taken before.
LEMMA TakesFirst ==
  ASSUME PoolInv, NEW w \in Workers, pc[w] \in {"ready", "woken"},
         task_list # <<>>, ~shutdown,
         task_list' = Unlinked,
         task' = [task EXCEPT ![w] = Head(task_list)],
         started' = Append(started, Head(task_list)),
         pc' = [pc EXCEPT ![w] = "running"],
         UNCHANGED <<shutdown, thread_list, owner, added, finished, polled>>
  PROVE  PoolInv'
<1> USE DEF PoolInv
<1>0. /\ TypeOK /\ task_list \in Seq(Tasks) /\ started \in Seq(Tasks)
      /\ pc \in [Workers -> WorkerStates] /\ task \in [Workers -> Tasks \cup {NULL}]
  BY DEF FirstInFirstOut, TypeOK
<1>1. owner \in {"creating", "using"} /\ started \o task_list = added /\ ~polled
  BY <1>0 DEF OwnerPhase, FirstInFirstOut, PolledTaken, TypeOK
<1> DEFINE x == Head(task_list)
<1>2. x \in Tasks /\ x # NULL /\ Tail(task_list) \in Seq(Tasks)
  BY <1>0, TailMembers, ThreadPoolAssumption
<1>3. started' \o task_list' = added /\ x \notin Members(started)
  <2>1. Append(started, x) \o Tail(task_list) = started \o task_list
    BY <1>0, MoveHead
  <2>2. x \notin Members(started)
    BY <1>0, <1>1, MoveHead DEF Once
  <2> QED
    BY <1>1, <2>1, <2>2 DEF Unlinked
<1>4. started' \in Seq(Tasks) /\ Members(started') = Members(started) \cup {x}
  BY <1>0, <1>2, AppendMembers
<1> HIDE DEF x
<1>5. x \notin finished /\ \A v \in Workers : task[v] # x
  BY <1>2, <1>3 DEF TakenOrDone
<1>6. TypeOK'
  BY <1>0, <1>2, <1>4 DEF TypeOK, WorkerStates, Unlinked, x
<1>7. task' = [task EXCEPT ![w] = x]
  BY DEF x
<1>8. FirstInFirstOut'
  <2>1. \A v \in Workers : task'[v] # NULL =>
          /\ task'[v] \notin finished'
          /\ \A u \in Workers \ {v} : task'[u] # task'[v]
    BY <1>0, <1>2, <1>5, <1>7 DEF FirstInFirstOut
  <2> QED
    BY <1>3, <1>6, <2>1 DEF FirstInFirstOut
<1>9. RunningHas' /\ Listed' /\ Unmade' /\ FreedAfterExit'
  BY <1>0, <1>1, <1>2, <1>7 DEF RunningHas, Listed, Unmade, FreedAfterExit
<1>10. TakenOrDone'
  <2>1. task[w] = NULL
    BY DEF RunningHas
  <2>2. finished' \subseteq Members(started')
    BY <1>4 DEF TakenOrDone
  <2>3. \A v \in Workers : task'[v] # NULL => task'[v] \in Members(started')
    BY <1>0, <1>4, <1>7 DEF TakenOrDone
  <2>4. ASSUME NEW y \in Members(started')
        PROVE  y \in finished' \/ \E v \in Workers : task'[v] = y
    <3>1. CASE y = x
      BY <1>0, <1>7, <3>1
    <3>2. CASE y \in finished
      BY <3>2
    <3>3. ASSUME NEW v \in Workers, task[v] = y, y # x, y \in Members(started)
          PROVE  \E u \in Workers : task'[u] = y
      <4>1. y # NULL
        BY <1>0, <3>3, ThreadPoolAssumption, LenProperties, ElementOfSeq DEF Members
      <4>2. v # w
        BY <2>1, <3>3, <4>1
      <4> QED
        BY <1>0, <1>7, <3>3, <4>2
    <3> QED
      BY <1>4, <3>1, <3>2, <3>3 DEF TakenOrDone
  <2> QED
    BY <2>2, <2>3, <2>4 DEF TakenOrDone
<1>11. Once' /\ OwnerPhase' /\ PolledTaken'
  BY <1>1 DEF Once, OwnerPhase, PolledTaken
<1> QED
  BY <1>8, <1>9, <1>10, <1>11

\* The task's function has returned.
LEMMA RunInv ==
  ASSUME PoolInv, NEW w \in Workers, RunTask(w)
  PROVE  PoolInv'
<1> USE DEF PoolInv
<1>0. /\ TypeOK /\ pc \in [Workers -> WorkerStates]
      /\ task \in [Workers -> Tasks \cup {NULL}] /\ finished \in SUBSET Tasks
  BY DEF FirstInFirstOut, TypeOK
<1>1. /\ pc[w] = "running" /\ finished' = finished \cup {task[w]}
      /\ task' = [task EXCEPT ![w] = NULL] /\ pc' = [pc EXCEPT ![w] = "ready"]
      /\ UNCHANGED <<task_list, shutdown, thread_list, owner, added, started, polled>>
  BY DEF RunTask
<1>2. task[w] # NULL /\ task[w] \in Tasks
  BY <1>0, <1>1 DEF RunningHas
<1>3. TypeOK'
  BY <1>0, <1>1, <1>2 DEF TypeOK, WorkerStates
<1>4. FirstInFirstOut'
  BY <1>0, <1>1, <1>2, <1>3 DEF FirstInFirstOut
<1>5. RunningHas' /\ Listed' /\ Unmade' /\ FreedAfterExit'
  BY <1>0, <1>1 DEF RunningHas, Listed, Unmade, FreedAfterExit
<1>6. TakenOrDone'
  BY <1>0, <1>1, <1>2 DEF TakenOrDone
<1>7. Once' /\ OwnerPhase' /\ PolledTaken'
  BY <1>1 DEF Once, OwnerPhase, PolledTaken
<1> QED
  BY <1>4, <1>5, <1>6, <1>7

\* Every step of the owner and of the workers keeps it.
LEMMA PoolStepInv == PoolInv /\ [Next]_vars => PoolInv'
<1> SUFFICES ASSUME PoolInv, [Next]_vars
             PROVE  PoolInv'
  OBVIOUS
<1>1. CASE UNCHANGED vars
  BY <1>1 DEF vars, PoolInv, FirstInFirstOut, TypeOK, Once, RunningHas, TakenOrDone,
              OwnerPhase, Unmade, Listed, PolledTaken, FreedAfterExit
<1>2. CASE OwnerStep
  BY <1>2, CreateInv, AddInv, DestroyInv, JoinInv, FreeInv DEF OwnerStep
<1>3. ASSUME NEW w \in Workers, TakeTask(w)
      PROVE  PoolInv'
  <2>1. CASE task_list = <<>> /\ ~shutdown
    BY <1>3, <2>1, WorkerMoves DEF TakeTask
  <2>2. CASE shutdown
    BY <1>3, <2>2, WorkerMoves DEF TakeTask
  <2>3. CASE task_list # <<>> /\ ~shutdown
    BY <1>3, <2>3, TakesFirst DEF TakeTask
  <2> QED
    BY <2>1, <2>2, <2>3
<1>4. ASSUME NEW w \in Workers, SpuriousWakeup(w)
      PROVE  PoolInv'
  BY <1>4, WorkerMoves DEF SpuriousWakeup
<1>5. ASSUME NEW w \in Workers, RunTask(w)
      PROVE  PoolInv'
  BY <1>5, RunInv
<1> QED
  BY <1>1, <1>2, <1>3, <1>4, <1>5 DEF Next, WorkerStep

\* So it holds in every state.
LEMMA PoolInvariant == Spec => []PoolInv
BY PoolInitInv, PoolStepInv, PTL DEF Spec

\* Type correctness of the pool and of its threads.
THEOREM ThreadPoolTypeOK == Spec => []TypeOK
<1>1. PoolInv => TypeOK
  BY DEF PoolInv, FirstInFirstOut
<1> QED
  BY PoolInvariant, <1>1, PTL

\* No task is lost, repeated, overtaken or given to two workers, for every
\* number of workers and every way they interleave with the owner.
THEOREM ThreadPoolFirstInFirstOut == Spec => []FirstInFirstOut
<1>1. PoolInv => FirstInFirstOut
  BY DEF PoolInv
<1> QED
  BY PoolInvariant, <1>1, PTL

\* The pool is freed only when no worker can touch it any more, and, after
\* is_thread_pool_empty has said so, when every accepted task has run.
THEOREM ThreadPoolFreedAfterExit == Spec => []FreedAfterExit
<1>1. PoolInv => FreedAfterExit
  BY DEF PoolInv
<1> QED
  BY PoolInvariant, <1>1, PTL

-----------------------------------------------------------------------------
(***************************************************************************)
(* That a sleeper is never left behind: the safety half of TasksAreTaken   *)
(* and DestroyReturns.                                                     *)
(***************************************************************************)

\* While a worker sleeps the pool is not shut down, and every task in the list
\* has a worker that was woken for it.
NoLostSignal == waiting # {} => ~shutdown /\ Len(task_list) <= Cardinality(woken)

\* The workers that were woken can be counted.
LEMMA FiniteWoken ==
  IsFiniteSet(woken) /\ Cardinality(woken) \in Nat
<1>1. IsFiniteSet(Workers) /\ woken \subseteq Workers
  BY ThreadPoolAssumption, FS_Interval DEF Workers, woken
<1> QED
  BY <1>1, FS_Subset, FS_CardinalityType

\* thread_pool_add_task wakes a sleeper for the task, if there is one.
LEMMA AddSignals ==
  ASSUME TypeOK, NoLostSignal, NEW x \in Tasks, thread_pool_add_task(x)
  PROVE  NoLostSignal'
<1>0. /\ task_list \in Seq(Tasks) /\ Len(task_list) \in Nat /\ shutdown' = shutdown
      /\ Len(task_list') = Len(task_list) + 1 /\ pc \in [Workers -> WorkerStates]
  BY LenProperties, AppendProperties DEF TypeOK, thread_pool_add_task, Linked
<1>1. CASE waiting = {}
  BY <1>1 DEF thread_pool_add_task, Signal, NoLostSignal, waiting
<1>2. CASE waiting # {}
  <2>1. PICK w \in waiting : pc' = [pc EXCEPT ![w] = "woken"]
    BY <1>2 DEF thread_pool_add_task, Signal
  <2>2. w \notin woken /\ woken' = woken \cup {w}
    BY <1>0, <2>1 DEF waiting, woken
  <2>3. Cardinality(woken') = Cardinality(woken) + 1
    BY <2>2, FiniteWoken, FS_AddElement
  <2> QED
    BY <1>0, <1>2, <2>3, FiniteWoken DEF NoLostSignal
<1> QED
  BY <1>1, <1>2

\* A worker sleeps on an empty list only, and takes a task when it was woken.
LEMMA TakeSignals ==
  ASSUME TypeOK, NoLostSignal, NEW w \in Workers, TakeTask(w)
  PROVE  NoLostSignal'
<1>0. /\ task_list \in Seq(Tasks) /\ Len(task_list) \in Nat /\ shutdown' = shutdown
      /\ pc \in [Workers -> WorkerStates] /\ pc[w] \in {"ready", "woken"}
  BY LenProperties DEF TypeOK, TakeTask
<1>1. CASE task_list = <<>> /\ ~shutdown
  <2>1. Len(task_list') = 0 /\ shutdown' = FALSE
    BY <1>0, <1>1 DEF TakeTask
  <2>2. Cardinality(woken') \in Nat
    <3>1. IsFiniteSet(Workers) /\ woken' \subseteq Workers
      BY ThreadPoolAssumption, FS_Interval DEF Workers, woken
    <3> QED
      BY <3>1, FS_Subset, FS_CardinalityType
  <2> QED
    BY <2>1, <2>2 DEF NoLostSignal
<1>2. CASE shutdown
  <2>1. waiting = {} /\ pc' = [pc EXCEPT ![w] = "exited"]
    BY <1>2 DEF NoLostSignal, TakeTask
  <2>2. waiting' = {}
    BY <1>0, <2>1 DEF waiting
  <2> QED
    BY <2>2 DEF NoLostSignal
<1>3. CASE task_list # <<>> /\ ~shutdown
  <2>1. pc' = [pc EXCEPT ![w] = "running"] /\ Len(task_list') = Len(task_list) - 1
    BY <1>0, <1>3, HeadTailProperties DEF TakeTask, Unlinked
  <2>2. waiting' = waiting /\ woken' = woken \ {w}
    BY <1>0, <2>1 DEF waiting, woken
  <2>3. Cardinality(woken') = IF w \in woken THEN Cardinality(woken) - 1 ELSE Cardinality(woken)
    BY <2>2, FiniteWoken, FS_RemoveElement
  <2> QED
    BY <1>0, <1>3, <2>1, <2>2, <2>3, FiniteWoken DEF NoLostSignal
<1> QED
  BY <1>1, <1>2, <1>3

\* thread_pool_destroy wakes everybody, and the other steps put nobody to
\* sleep.
LEMMA OthersSignal ==
  ASSUME TypeOK, NoLostSignal,
         \/ thread_pool_create \/ thread_pool_destroy \/ JoinThread \/ FreePool
         \/ \E w \in Workers : SpuriousWakeup(w) \/ RunTask(w),
         Listed, OwnerPhase, Unmade
  PROVE  NoLostSignal'
<1>0. /\ pc \in [Workers -> WorkerStates] /\ Len(task_list) \in Nat
      /\ thread_list \in Seq(Workers) /\ Len(thread_list) \in Nat
  BY LenProperties DEF TypeOK
<1>1. ASSUME pc' = Broadcast(pc)
      PROVE  NoLostSignal'
  <2>1. waiting' = {}
    BY <1>1 DEF waiting, Broadcast
  <2> QED
    BY <2>1 DEF NoLostSignal
<1>2. ASSUME waiting' = waiting, woken' = woken, UNCHANGED <<shutdown, task_list>>
      PROVE  NoLostSignal'
  BY <1>2 DEF NoLostSignal
<1>3. CASE thread_pool_create
  <2>1. CASE BeginDestroy(pc)
    BY <1>1, <2>1 DEF BeginDestroy
  <2>2. CASE pc' = [pc EXCEPT ![NextThread] = "ready"] /\ UNCHANGED shutdown
    <3>1. NextThread \in Workers /\ pc[NextThread] = "absent"
      BY <1>0, <1>3, ThreadPoolAssumption
        DEF thread_pool_create, NextThread, Workers, Unmade
    <3>2. waiting' = waiting /\ woken' = woken
      BY <1>0, <2>2, <3>1 DEF waiting, woken
    <3> QED
      BY <1>2, <1>3, <2>2, <3>2 DEF thread_pool_create
  <2> QED
    BY <1>3, <2>1, <2>2 DEF thread_pool_create
<1>4. CASE thread_pool_destroy
  BY <1>1, <1>4 DEF thread_pool_destroy, BeginDestroy
<1>5. CASE JoinThread
  BY <1>2, <1>5 DEF JoinThread, waiting, woken
<1>6. CASE FreePool
  <2>1. waiting = {}
    BY <1>6 DEF FreePool, Listed, Members, waiting
  <2> QED
    BY <1>6, <2>1 DEF FreePool, NoLostSignal, waiting
<1>7. ASSUME NEW w \in Workers, SpuriousWakeup(w)
      PROVE  NoLostSignal'
  <2>1. /\ w \in waiting /\ w \notin woken /\ woken' = woken \cup {w}
        /\ UNCHANGED <<shutdown, task_list>>
    BY <1>0, <1>7 DEF SpuriousWakeup, waiting, woken
  <2>2. Cardinality(woken') = Cardinality(woken) + 1
    BY <2>1, FiniteWoken, FS_AddElement
  <2> QED
    BY <1>0, <2>1, <2>2, FiniteWoken DEF NoLostSignal
<1>8. ASSUME NEW w \in Workers, RunTask(w)
      PROVE  NoLostSignal'
  <2>1. waiting' = waiting /\ woken' = woken
    BY <1>0, <1>8 DEF RunTask, waiting, woken
  <2> QED
    BY <1>2, <1>8, <2>1 DEF RunTask
<1> QED
  BY <1>3, <1>4, <1>5, <1>6, <1>7, <1>8

\* No worker ever sleeps on a task nobody was woken for, nor in a pool that is
\* being destroyed: neither the signal of thread_pool_add_task nor the
\* broadcast of thread_pool_destroy is lost on a worker about to sleep.
THEOREM ThreadPoolNoLostSignal == Spec => []NoLostSignal
<1>1. Init => NoLostSignal
  BY DEF Init, NoLostSignal, waiting
<1>2. PoolInv /\ NoLostSignal /\ [Next]_vars => NoLostSignal'
  <2> SUFFICES ASSUME PoolInv, NoLostSignal, [Next]_vars
               PROVE  NoLostSignal'
    OBVIOUS
  <2>1. TypeOK /\ Listed /\ OwnerPhase /\ Unmade
    BY DEF PoolInv, FirstInFirstOut
  <2>2. CASE UNCHANGED vars
    BY <2>2 DEF vars, NoLostSignal, waiting, woken
  <2>3. CASE Next
    BY <2>1, <2>3, AddSignals, TakeSignals, OthersSignal DEF Next, OwnerStep, WorkerStep
  <2> QED
    BY <2>2, <2>3
<1> QED
  BY PoolInvariant, <1>1, <1>2, PTL DEF Spec
-----------------------------------------------------------------------------
(***************************************************************************)
(* The log.                                                                *)
(***************************************************************************)
\* Slot 0, the only one that is printed, holds an accepted record when
\* something is counted, and never one older than a line of the file.
SlotZero ==
  /\ log_buffer[0] <= accepted
  /\ log_buffer_count > 0 => log_buffer[0] > 0
  /\ \A i \in DOMAIN file : file[i] <= log_buffer[0]

\* The inductive invariant for the log file.
FileInv == LinesInOrder /\ SlotZero

\* The writers that sleep.
SleepingWriters == {w \in Writers : at[w] = "waiting"}

\* While the log thread sleeps every record uses up a sleeping writer, and the
\* first record needs a writer that is awake.
WritersUsedUp ==
  at[logger] = "waiting" /\ log_buffer_count > 0 =>
    log_buffer_count + Cardinality(SleepingWriters) < Cardinality(Writers)

\* The inductive invariant for the wakeup of the log thread.
WakeInv == LogTypeOK /\ WritersUsedUp /\ LoggerIsWoken

\* There are no more threads that log than slots.
FewWriters == Cardinality(Writers) <= LOG_BUFFER_SIZE

-----------------------------------------------------------------------------
\* What Append does to a sequence, in the form the steps below use.
LEMMA AppendFacts ==
  ASSUME NEW S, NEW s \in Seq(S), NEW e \in S
  PROVE  /\ Append(s, e) \in Seq(S)
         /\ Len(s) \in Nat
         /\ Len(Append(s, e)) = Len(s) + 1
         /\ DOMAIN s = 1 .. Len(s)
         /\ DOMAIN Append(s, e) = 1 .. Len(s) + 1
         /\ \A i \in 1 .. Len(s) : Append(s, e)[i] = s[i]
         /\ Append(s, e)[Len(s) + 1] = e
<1>1. /\ Append(s, e) \in Seq(S)
      /\ Len(Append(s, e)) = Len(s) + 1
      /\ \A i \in 1 .. Len(s) : Append(s, e)[i] = s[i]
      /\ Append(s, e)[Len(s) + 1] = e
  BY AppendProperties
<1>2. /\ Len(s) \in Nat
      /\ DOMAIN s = 1 .. Len(s)
      /\ DOMAIN Append(s, e) = 1 .. Len(Append(s, e))
  BY <1>1, LenProperties
<1> QED
  BY <1>1, <1>2

\* The buffer has a slot 0, and slots only below its size.
LEMMA SlotFacts ==
  /\ 0 \in Slots
  /\ Slots \subseteq Nat
  /\ \A n \in Nat : n < LOG_BUFFER_SIZE => n \in Slots
BY LogAssumption DEF Slots

\* Nothing logged yet: both invariants hold.
LEMMA LogInitInv == LogInit => FileInv /\ WakeInv
<1> SUFFICES ASSUME LogInit
             PROVE  FileInv /\ WakeInv
  OBVIOUS
<1> USE LogAssumption, LoggerIsNoWriter, SlotFacts DEF LogInit
<1>1. LogTypeOK
  BY DEF LogTypeOK, LogThreads
<1>2. file = <<>> /\ DOMAIN file = {} /\ Len(file) = 0
  OBVIOUS
<1>3. LinesInOrder
  BY <1>1, <1>2 DEF LinesInOrder
<1>4. SlotZero
  BY <1>2 DEF SlotZero
<1>5. WritersUsedUp /\ LoggerIsWoken
  BY DEF WritersUsedUp, LoggerIsWoken
<1> QED
  BY <1>1, <1>3, <1>4, <1>5 DEF FileInv, WakeInv

\* The types are kept by every step: in particular a record never goes behind
\* the end of the buffer.
LEMMA LogStepTypes ==
  ASSUME LogTypeOK, LogNext
  PROVE  LogTypeOK'
<1> USE LogAssumption, SlotFacts DEF LogTypeOK
<1>1. CASE OpenFile
  BY <1>1 DEF OpenFile
<1>2. CASE log_thread
  <2>1. log_buffer_count \in Nat
    OBVIOUS
  <2>2. CASE Empty
    BY <1>2, <2>2 DEF log_thread
  <2>3. CASE ~Empty
    <3>1. log_buffer[0] \in 0 .. MaxRecords
      OBVIOUS
    <3>2. file' \in Seq(0 .. MaxRecords)
      BY <1>2, <2>3, <3>1, AppendFacts, SMTT(40) DEF log_thread
    <3> QED
      BY <1>2, <2>3, <3>2 DEF log_thread, Empty
  <2> QED
    BY <2>2, <2>3
<1>3. ASSUME NEW w \in Writers, log_write(w)
      PROVE  LogTypeOK'
  <2>1. CASE Full
    BY <1>3, <2>1 DEF log_write
  <2>2. CASE ~Full
    <3>1. at' \in [LogThreads -> {"idle", "opening", "running", "ended", "waiting", "woken"}]
      BY <1>3, <2>2 DEF log_write, SignalOne
    <3> QED
      BY <1>3, <2>2, <3>1 DEF log_write, Claimed, Full
  <2> QED
    BY <2>1, <2>2
<1>4. ASSUME NEW t \in LogThreads, WakesSpuriously(t)
      PROVE  LogTypeOK'
  BY <1>4 DEF WakesSpuriously
<1> QED
  BY <1>1, <1>2, <1>3, <1>4 DEF LogNext

-----------------------------------------------------------------------------
\* log_thread prints slot 0.
LEMMA PrintKeepsOrder ==
  ASSUME FileInv, log_thread
  PROVE  (Len(file) + log_buffer_count = accepted)' /\ SlotZero'
         /\ (\A i \in DOMAIN file : file[i] \in 1 .. accepted)'
         /\ (\A i, j \in DOMAIN file : i < j => file[i] <= file[j])'
<1> USE DEF FileInv, LinesInOrder, SlotZero
<1>0. /\ log_buffer[0] \in 0 .. MaxRecords /\ log_buffer_count \in Nat
      /\ accepted \in Nat /\ file \in Seq(0 .. MaxRecords)
  BY SlotFacts, LogAssumption DEF LogTypeOK
<1>1. CASE Empty
  BY <1>1 DEF log_thread
<1>2. CASE ~Empty
  <2>1. /\ file' = Append(file, log_buffer[0])
        /\ log_buffer_count' = log_buffer_count - 1
        /\ log_buffer' = log_buffer /\ accepted' = accepted
        /\ log_buffer_count > 0
    BY <1>0, <1>2 DEF log_thread, Empty
  <2>2. /\ Len(file) \in Nat
        /\ Len(file') = Len(file) + 1
        /\ DOMAIN file = 1 .. Len(file)
        /\ DOMAIN file' = 1 .. Len(file) + 1
        /\ \A i \in 1 .. Len(file) : file'[i] = file[i]
        /\ file'[Len(file) + 1] = log_buffer[0]
    BY <1>0, <2>1, AppendFacts
  <2>3. log_buffer[0] \in 1 .. accepted
    BY <1>0, <2>1
  <2>4. \A i \in 1 .. Len(file) : file[i] \in 1 .. accepted /\ file[i] <= log_buffer[0]
    BY <2>2
  <2>5. \A i \in DOMAIN file' : file'[i] \in 1 .. accepted /\ file'[i] <= log_buffer[0]
    BY <2>2, <2>3, <2>4
  <2>6. \A i, j \in DOMAIN file' : i < j => file'[i] <= file'[j]
    <3> SUFFICES ASSUME NEW i \in DOMAIN file', NEW j \in DOMAIN file', i < j
                 PROVE  file'[i] <= file'[j]
      OBVIOUS
    <3>1. i \in 1 .. Len(file)
      BY <2>2
    <3>2. CASE j = Len(file) + 1
      BY <2>2, <2>4, <3>1, <3>2
    <3>3. CASE j \in 1 .. Len(file)
      BY <2>2, <3>1, <3>3
    <3> QED
      BY <2>2, <3>2, <3>3
  <2> QED
    BY <1>0, <2>1, <2>2, <2>3, <2>5, <2>6, SMTT(40)
<1> QED
  BY <1>1, <1>2

\* log_write fills the slot that log_buffer_count names: slot 0 only when
\* nothing is counted, and then with a record newer than every line.
LEMMA WriteKeepsOrder ==
  ASSUME FileInv, NEW w \in Writers, log_write(w)
  PROVE  (Len(file) + log_buffer_count = accepted)' /\ SlotZero'
         /\ (\A i \in DOMAIN file : file[i] \in 1 .. accepted)'
         /\ (\A i, j \in DOMAIN file : i < j => file[i] <= file[j])'
<1> USE DEF FileInv, LinesInOrder, SlotZero
<1>0. /\ log_buffer[0] \in Nat /\ log_buffer_count \in Nat
      /\ accepted \in Nat /\ file \in Seq(0 .. MaxRecords) /\ Len(file) \in Nat
  BY SlotFacts, LogAssumption, LenProperties DEF LogTypeOK
<1>1. CASE Full
  BY <1>1 DEF log_write
<1>2. CASE ~Full
  <2>1. /\ file' = file /\ accepted' = accepted + 1
        /\ log_buffer_count' = log_buffer_count + 1
        /\ log_buffer' = [log_buffer EXCEPT ![log_buffer_count] = accepted + 1]
        /\ log_buffer_count \in Slots
    BY <1>0, <1>2, SlotFacts, LogAssumption DEF log_write, Full, Claimed
  <2>2. log_buffer'[0] = IF log_buffer_count = 0 THEN accepted + 1 ELSE log_buffer[0]
    BY <2>1, SlotFacts DEF LogTypeOK
  <2>3. \A i \in DOMAIN file : file[i] \in 1 .. accepted
    OBVIOUS
  <2>4. /\ log_buffer'[0] <= accepted + 1 /\ log_buffer'[0] > 0
        /\ \A i \in DOMAIN file : file[i] <= log_buffer'[0]
    BY <1>0, <2>2, <2>3
  <2>5. (Len(file) + log_buffer_count = accepted)'
    BY <1>0, <2>1, SMTT(40)
  <2>6. (\A i \in DOMAIN file : file[i] \in 1 .. accepted)'
    BY <1>0, <2>1, <2>3
  <2>7. (\A i, j \in DOMAIN file : i < j => file[i] <= file[j])'
    BY <2>1
  <2>8. SlotZero'
    BY <2>1, <2>4
  <2> QED
    BY <2>5, <2>6, <2>7, <2>8
<1> QED
  BY <1>1, <1>2

\* Every step of the writers and of the log thread keeps the file in order.
LEMMA LogFileStep == FileInv /\ [LogNext]_logvars => FileInv'
<1> SUFFICES ASSUME FileInv, [LogNext]_logvars
             PROVE  FileInv'
  OBVIOUS
<1>1. CASE UNCHANGED logvars
  BY <1>1 DEF logvars, FileInv, LinesInOrder, SlotZero, LogTypeOK
<1>2. CASE LogNext
  <2>1. LogTypeOK'
    BY <1>2, LogStepTypes DEF FileInv, LinesInOrder
  <2>2. CASE log_thread
    BY <2>1, <2>2, PrintKeepsOrder DEF FileInv, LinesInOrder
  <2>3. CASE \E w \in Writers : log_write(w)
    BY <2>1, <2>3, WriteKeepsOrder DEF FileInv, LinesInOrder
  <2>4. CASE OpenFile \/ \E t \in LogThreads : WakesSpuriously(t)
    BY <2>1, <2>4
      DEF OpenFile, WakesSpuriously, FileInv, LinesInOrder, SlotZero
  <2> QED
    BY <1>2, <2>2, <2>3, <2>4 DEF LogNext
<1> QED
  BY <1>1, <1>2

\* Type correctness of the logger; log_buffer is never indexed out of bounds.
THEOREM LogTypesOK == LogSpec => []LogTypeOK
<1>1. FileInv => LogTypeOK
  BY DEF FileInv, LinesInOrder
<1> QED
  BY LogInitInv, LogFileStep, <1>1, PTL DEF LogSpec

\* Every record accepted accounts for one line, and the lines never go back
\* in time, however many threads log and however small the buffer is.
THEOREM LogLinesInOrder == LogSpec => []LinesInOrder
<1>1. FileInv => LinesInOrder
  BY DEF FileInv
<1> QED
  BY LogInitInv, LogFileStep, <1>1, PTL DEF LogSpec

-----------------------------------------------------------------------------
\* The writers are finitely many, so those that sleep can be counted.
LEMMA FiniteWriters ==
  /\ IsFiniteSet(Writers) /\ Cardinality(Writers) \in Nat
  /\ IsFiniteSet(SleepingWriters) /\ Cardinality(SleepingWriters) \in Nat
  /\ \A w \in Writers \ SleepingWriters :
       Cardinality(SleepingWriters) < Cardinality(Writers)
<1>1. SleepingWriters \subseteq Writers /\ IsFiniteSet(Writers)
  BY LogAssumption DEF SleepingWriters
<1>2. IsFiniteSet(SleepingWriters) /\ Cardinality(SleepingWriters) <= Cardinality(Writers)
  BY <1>1, FS_Subset
<1>3. SleepingWriters # Writers => Cardinality(SleepingWriters) < Cardinality(Writers)
  BY <1>1, <1>2, FS_Subset, FS_CardinalityType
<1> QED
  BY <1>1, <1>2, <1>3, FS_CardinalityType

\* A writer that is awake writes and wakes writer t: fewer writers sleep.
LEMMA OneSleeperLess ==
  ASSUME LogTypeOK, NEW w \in Writers, at[w] # "waiting",
         NEW t \in Writers, at[t] = "waiting",
         at' = [at EXCEPT ![w] = "idle", ![t] = "woken"]
  PROVE  /\ Cardinality(SleepingWriters') = Cardinality(SleepingWriters) - 1
         /\ at'[t] = "woken"
<1>1. t \in SleepingWriters /\ SleepingWriters' = SleepingWriters \ {t} /\ at'[t] = "woken"
  BY DEF SleepingWriters, LogTypeOK, LogThreads
<1> QED
  BY <1>1, FiniteWriters, FS_RemoveElement

\* log_write while the log thread sleeps: the buffer is not full, since there
\* are too few writers; so the record is put in, and its signal goes to the
\* log thread or to a writer that sleeps.
LEMMA WriteWakes ==
  ASSUME FewWriters, WakeInv, NEW w \in Writers, log_write(w)
  PROVE  WritersUsedUp' /\ LoggerIsWoken'
<1> USE DEF WakeInv
<1>0. /\ log_buffer_count \in Nat /\ LOG_BUFFER_SIZE \in Nat \ {0} /\ logger # w
      /\ w \in LogThreads /\ logger \in LogThreads
      /\ at \in [LogThreads -> {"idle", "opening", "running", "ended", "waiting", "woken"}]
  BY LogAssumption, LoggerIsNoWriter DEF LogTypeOK, LogThreads
<1>1. w \notin SleepingWriters /\ at[w] # "waiting"
  BY DEF SleepingWriters, log_write
<1>2. CASE at'[logger] # "waiting"
  BY <1>2 DEF WritersUsedUp, LoggerIsWoken
<1>3. CASE at'[logger] = "waiting"
  <2>1. at[logger] = "waiting"
    BY <1>0, <1>3 DEF log_write, SignalOne
  <2>2. ~Full
    BY <1>0, <2>1, FiniteWriters DEF Full, WritersUsedUp, FewWriters
  <2>3. Waiters # {}
    BY <1>0, <2>1 DEF Waiters
  <2>4. PICK t \in Waiters : at' = [at EXCEPT ![w] = "idle", ![t] = "woken"]
    BY <2>2, <2>3 DEF log_write, SignalOne
  <2>5. t \in Writers /\ at[t] = "waiting"
    BY <1>0, <1>3, <2>4 DEF Waiters, LogThreads
  <2>6. /\ Cardinality(SleepingWriters') = Cardinality(SleepingWriters) - 1
        /\ at'[t] = "woken"
    BY <1>1, <2>4, <2>5, OneSleeperLess
  <2>7. log_buffer_count + Cardinality(SleepingWriters) < Cardinality(Writers)
    BY <1>0, <1>1, <2>1, FiniteWriters DEF WritersUsedUp
  <2>8. log_buffer_count' = log_buffer_count + 1
    BY <2>2 DEF log_write, Claimed
  <2> QED
    BY <1>0, <2>5, <2>6, <2>7, <2>8, FiniteWriters DEF WritersUsedUp, LoggerIsWoken
<1> QED
  BY <1>2, <1>3

\* A wakeup that nobody asked for only helps.
LEMMA SpuriousWakes ==
  ASSUME WakeInv, NEW t \in LogThreads, WakesSpuriously(t)
  PROVE  WritersUsedUp' /\ LoggerIsWoken'
<1> USE DEF WakeInv
<1>0. /\ at \in [LogThreads -> {"idle", "opening", "running", "ended", "waiting", "woken"}]
      /\ at' = [at EXCEPT ![t] = "woken"] /\ log_buffer_count' = log_buffer_count
      /\ log_buffer_count \in Nat
  BY DEF LogTypeOK, WakesSpuriously
<1>1. SleepingWriters' \subseteq SleepingWriters
  BY <1>0 DEF SleepingWriters, LogThreads
<1>2. /\ Cardinality(SleepingWriters') <= Cardinality(SleepingWriters)
      /\ Cardinality(SleepingWriters') \in Nat
  BY <1>1, FiniteWriters, FS_Subset, FS_CardinalityType
<1>3. \A w \in Writers : at[w] = "woken" => at'[w] = "woken"
  BY <1>0 DEF LogThreads
<1>4. at'[logger] = "waiting" => at[logger] = "waiting"
  BY <1>0 DEF LogThreads
<1> QED
  BY <1>0, <1>2, <1>3, <1>4, FiniteWriters DEF WritersUsedUp, LoggerIsWoken

\* ... and leaves the log thread somebody to wake it.
LEMMA LogWakeStep ==
  ASSUME FewWriters
  PROVE  WakeInv /\ [LogNext]_logvars => WakeInv'
<1> SUFFICES ASSUME WakeInv, [LogNext]_logvars
             PROVE  WakeInv'
  OBVIOUS
<1>1. CASE UNCHANGED logvars
  BY <1>1 DEF logvars, WakeInv, WritersUsedUp, LoggerIsWoken, LogTypeOK, SleepingWriters
<1>2. CASE LogNext
  <2>1. LogTypeOK'
    BY <1>2, LogStepTypes DEF WakeInv
  <2>2. CASE OpenFile \/ log_thread
    <3>1. at'[logger] = "waiting" => log_buffer_count' = 0
      BY <2>2, LogAssumption
        DEF WakeInv, LogTypeOK, LogThreads, OpenFile, log_thread, Empty
    <3> QED
      BY <2>1, <3>1 DEF WakeInv, WritersUsedUp, LoggerIsWoken
  <2>3. CASE \E w \in Writers : log_write(w)
    BY <2>1, <2>3, WriteWakes DEF WakeInv
  <2>4. CASE \E t \in LogThreads : WakesSpuriously(t)
    BY <2>1, <2>4, SpuriousWakes DEF WakeInv
  <2> QED
    BY <1>2, <2>2, <2>3, <2>4 DEF LogNext
<1> QED
  BY <1>1, <1>2

\* When no more threads log than the buffer has slots (2048 in log.h), the log
\* thread never sleeps on a non-empty buffer with nobody about to signal it,
\* although writers and log thread share one condition variable.
THEOREM LogLoggerIsWoken ==
  ASSUME FewWriters
  PROVE  LogSpec => []LoggerIsWoken
<1>1. LogInit => WakeInv
  BY LogInitInv
<1>2. WakeInv /\ [LogNext]_logvars => WakeInv'
  BY LogWakeStep
<1>3. WakeInv => LoggerIsWoken
  BY DEF WakeInv
<1> QED
  BY <1>1, <1>2, <1>3, PTL DEF LogSpec
=============================================================================

----------------------------- MODULE ThreadPool -----------------------------
(***************************************************************************)
(* The thread pool (Src/utility/dm_thread_pool.c): the thread that owns    *)
(* the pool (creates it, adds tasks, destroys it) and the worker threads.  *)
(* What happens under pool->lock is one action; pthread_cond_wait splits   *)
(* thread_func, and a worker that was signalled or broadcast to is "woken" *)
(* until it has the mutex back.                                            *)
(***************************************************************************)
EXTENDS Integers, Sequences, FiniteSets

CONSTANTS
  thread_count,      \* argument of thread_pool_create
  Tasks,             \* the tasks the owner may submit, each once
  CreateMayFail,     \* whether malloc and pthread_create may fail in create
  SpuriousWakeups,   \* whether pthread_cond_wait may return without a signal
  NULL

Workers == 1 .. thread_count

ASSUME ThreadPoolAssumption ==
  /\ thread_count \in Nat \ {0}
  /\ IsFiniteSet(Tasks)
  /\ NULL \notin Tasks
  /\ {CreateMayFail, SpuriousWakeups} \subseteq BOOLEAN

VARIABLES
  task_list,         \* the tasks not yet taken, head first
  shutdown,
  thread_list,       \* linked list of thread_t, head first
  owner,             \* where the owner is
  pc,                \* pc[w]: where worker w is
  task,              \* task[w]: the task w has taken
  added,             \* history: the tasks accepted by add_task, in order
  started,           \* history: the tasks taken by workers, in order
  finished,          \* history: the tasks whose function has returned
  polled             \* history: is_thread_pool_empty said so before the owner
                     \* destroyed the pool, as in test_thread_pool

vars == <<task_list, shutdown, thread_list, owner, pc, task,
          added, started, finished, polled>>

waiting == {w \in Workers : pc[w] = "waiting"}
woken   == {w \in Workers : pc[w] = "woken"}
Undefined == {"crashed", "stuck"}

-----------------------------------------------------------------------------
Init ==
  /\ task_list = <<>>
  /\ shutdown = FALSE
  /\ thread_list = <<>>
  /\ owner = "creating"
  /\ pc = [w \in Workers |-> "absent"]
  /\ task = [w \in Workers |-> NULL]
  /\ added = <<>>
  /\ started = <<>>
  /\ finished = {}
  /\ polled = FALSE

\* Mutant: nobody is woken.
Broadcast_Silent(p) == p

\* pthread_cond_broadcast on notify, in control state p: all sleepers wake.
Broadcast(p) == [w \in Workers |-> IF p[w] = "waiting" THEN "woken" ELSE p[w]]

\* The first half of thread_pool_destroy: set the flag, wake everybody.  p is
\* the workers' control state otherwise.
BeginDestroy(p) ==
  /\ shutdown' = TRUE
  /\ owner' = "joining"
  /\ pc' = Broadcast(p)

\* The thread that the loop of thread_pool_create makes now.
NextThread == Len(thread_list) + 1

\* One turn of the loop in thread_pool_create.  The node is linked before
\* pthread_create is called; when that fails, or malloc does, the pool is
\* destroyed, with the unstarted thread still in the list.
thread_pool_create ==
  LET w == NextThread IN
  /\ owner = "creating"
  /\ Len(thread_list) < thread_count
  /\ \/ /\ thread_list' = <<w>> \o thread_list
        /\ pc' = [pc EXCEPT ![w] = "ready"]
        /\ owner' = IF w = thread_count THEN "using" ELSE "creating"
        /\ UNCHANGED shutdown
     \/ /\ CreateMayFail
        /\ UNCHANGED thread_list
        /\ BeginDestroy(pc)
     \/ /\ CreateMayFail
        /\ thread_list' = <<w>> \o thread_list
        /\ BeginDestroy(pc)
  /\ UNCHANGED <<task_list, task, added, started, finished, polled>>

\* Mutant: the new task goes to the head.
Linked_AtHead(x) == <<x>> \o task_list

\* The list after thread_pool_add_task has walked to its end.
Linked(x) == Append(task_list, x)

\* Mutant: nobody is signalled.
Signal_Silent == UNCHANGED pc

\* pthread_cond_signal on notify: one sleeper, if there is one, wakes.
Signal ==
  IF waiting = {}
  THEN UNCHANGED pc
  ELSE \E w \in waiting : pc' = [pc EXCEPT ![w] = "woken"]

\* thread_pool_add_task: append, signal one worker.  (When malloc fails it
\* returns -1 and changes nothing.)
thread_pool_add_task(x) ==
  /\ owner = "using"
  /\ \A i \in DOMAIN added : added[i] # x
  /\ task_list' = Linked(x)
  /\ added' = Append(added, x)
  /\ Signal
  /\ UNCHANGED <<shutdown, thread_list, owner, task, started, finished, polled>>

\* thread_pool_destroy is called: at any time, or only once
\* is_thread_pool_empty has said so.
thread_pool_destroy ==
  /\ owner = "using"
  /\ polled' \in {FALSE, task_list = <<>>}
  /\ BeginDestroy(pc)
  /\ UNCHANGED <<task_list, thread_list, task, added, started, finished>>

\* Mutant: the thread is not waited for.
Joined_AtOnce(w) == TRUE

\* pthread_join(w) returns.
Joined(w) == pc[w] \in {"exited", "absent"}

\* One pthread_join of thread_pool_destroy.  To join a thread that was never
\* created is undefined: the call may return, crash, or block forever.
JoinThread ==
  LET w == Head(thread_list) IN
  /\ owner = "joining"
  /\ thread_list # <<>>
  /\ \/ /\ Joined(w)
        /\ thread_list' = Tail(thread_list)
        /\ UNCHANGED owner
     \/ /\ pc[w] = "absent"
        /\ owner' \in Undefined
        /\ UNCHANGED thread_list
  /\ UNCHANGED <<task_list, shutdown, pc, task, added, started, finished, polled>>

\* The end of thread_pool_destroy: the tasks left are freed, and the pool too.
FreePool ==
  /\ owner = "joining"
  /\ thread_list = <<>>
  /\ owner' = "freed"
  /\ task_list' = <<>>
  /\ UNCHANGED <<shutdown, thread_list, pc, task, added, started, finished, polled>>

-----------------------------------------------------------------------------
\* The list after thread_func has taken its first task.
Unlinked == Tail(task_list)

\* thread_func from taking the mutex to releasing it: sleep, exit or take the
\* first task.  Shutdown comes before the tasks that are left.
TakeTask(w) ==
  /\ owner # "crashed"
  /\ pc[w] \in {"ready", "woken"}
  /\ \/ /\ task_list = <<>> /\ ~shutdown
        /\ pc' = [pc EXCEPT ![w] = "waiting"]
        /\ UNCHANGED <<task_list, task, started>>
     \/ /\ shutdown
        /\ pc' = [pc EXCEPT ![w] = "exited"]
        /\ UNCHANGED <<task_list, task, started>>
     \/ /\ task_list # <<>> /\ ~shutdown
        /\ task_list' = Unlinked
        /\ task' = [task EXCEPT ![w] = Head(task_list)]
        /\ started' = Append(started, Head(task_list))
        /\ pc' = [pc EXCEPT ![w] = "running"]
  /\ UNCHANGED <<shutdown, thread_list, owner, added, finished, polled>>

\* pthread_cond_wait may return without a signal.
SpuriousWakeup(w) ==
  /\ SpuriousWakeups
  /\ owner # "crashed"
  /\ pc[w] = "waiting"
  /\ pc' = [pc EXCEPT ![w] = "woken"]
  /\ UNCHANGED <<task_list, shutdown, thread_list, owner, task,
                 added, started, finished, polled>>

\* thread_func outside the mutex: the task's function returns, it is freed.
RunTask(w) ==
  /\ owner # "crashed"
  /\ pc[w] = "running"
  /\ finished' = finished \cup {task[w]}
  /\ task' = [task EXCEPT ![w] = NULL]
  /\ pc' = [pc EXCEPT ![w] = "ready"]
  /\ UNCHANGED <<task_list, shutdown, thread_list, owner, added, started, polled>>

OwnerStep ==
  \/ thread_pool_create
  \/ \E x \in Tasks : thread_pool_add_task(x)
  \/ thread_pool_destroy
  \/ JoinThread
  \/ FreePool

WorkerStep(w) == TakeTask(w) \/ SpuriousWakeup(w) \/ RunTask(w)

Next == OwnerStep \/ \E w \in Workers : WorkerStep(w)

Spec == Init /\ [][Next]_vars

\* Every thread that can run does, and the tasks' functions return.  The owner
\* goes on with a call it has begun; nothing obliges it to add or to destroy.
Fairness ==
  /\ WF_vars(thread_pool_create) /\ WF_vars(JoinThread) /\ WF_vars(FreePool)
  /\ \A w \in Workers : WF_vars(TakeTask(w)) /\ WF_vars(RunTask(w))

FairSpec == Spec /\ Fairness

-----------------------------------------------------------------------------
WorkerStates ==
  {"absent", "ready", "waiting", "woken", "running", "exited"}

\* Type correctness of the pool and of its threads.
TypeOK ==
  /\ task_list \in Seq(Tasks)
  /\ shutdown \in BOOLEAN
  /\ thread_list \in Seq(Workers)
  /\ owner \in {"creating", "using", "joining", "freed"} \cup Undefined
  /\ pc \in [Workers -> WorkerStates]
  /\ task \in [Workers -> Tasks \cup {NULL}]
  /\ added \in Seq(Tasks)
  /\ started \in Seq(Tasks)
  /\ finished \in SUBSET Tasks
  /\ polled \in BOOLEAN

\* Until the pool is freed the tasks taken, then those in the list, are the
\* tasks added, in the order they were added: none is lost, repeated or
\* overtaken, whatever the interleaving of adders and workers; and a task that
\* a worker has is that worker's alone and not finished: it is run once and
\* freed once.
FirstInFirstOut ==
  /\ TypeOK
  /\ owner # "freed" => started \o task_list = added
  /\ \A w \in Workers : task[w] # NULL =>
       /\ task[w] \notin finished
       /\ \A v \in Workers \ {w} : task[v] # task[w]

\* When thread_pool_destroy frees the pool, no worker can touch it any more:
\* each has exited, or was never started.  And dm_thread_pool.c:290: after
\* polling is_thread_pool_empty the owner has waited for all tasks: every
\* accepted task has run when the pool is gone, also those that were still
\* running when the list became empty.
FreedAfterExit ==
  owner = "freed" =>
    /\ \A w \in Workers : pc[w] \in {"exited", "absent"}
    /\ polled => \A i \in DOMAIN added : added[i] \in finished

\* An accepted task is taken, or the pool is shut down: no signal is lost on a
\* worker that was running or about to sleep.
TasksAreTaken ==
  \A x \in Tasks :
    (\E i \in DOMAIN task_list : task_list[i] = x)
      ~> (shutdown \/ \E i \in DOMAIN started : started[i] = x)

\* thread_pool_destroy returns, unless it joined a thread that never existed.
DestroyReturns == shutdown ~> (owner \in {"freed"} \cup Undefined)
=============================================================================

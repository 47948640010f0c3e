------------------------------- MODULE Master -------------------------------
(***************************************************************************)
(* The master process (Src/master.c): a daemon forks the workers, restarts *)
(* the ones that died and ends at SIGUSR1, after sending SIGTERM to them.  *)
(*                                                                         *)
(* Every process runs the same program with its own copy of the variables, *)
(* so a process is a record: where it is, the index i and the pid of the   *)
(* loops, and the globals worker[] and is_running2.  SIGUSR1 is handled    *)
(* between any two steps of the daemon.  The kernel gives out the pids     *)
(* that no live or unreaped process has, so a pid comes back.              *)
(***************************************************************************)
EXTENDS Integers, FiniteSets

CONSTANTS
  Pids,                 \* pids of the daemon's process group
  Daemon,
  DEFAULT_WORKER_NUM

ASSUME MasterAssumption ==
  /\ Pids \subseteq Nat \ {0} /\ Daemon \in Pids
  /\ DEFAULT_WORKER_NUM \in Nat \ {0}

Slots == 0 .. DEFAULT_WORKER_NUM - 1

VARIABLES
  proc,         \* proc[p]: the process with pid p
  term,         \* processes that SIGTERM was sent to and that still live
  stopped,      \* history: where the daemon was when SIGUSR1 came first
  forkFailed,   \* history: a fork of the daemon failed
  returned      \* history: the worker function of a first worker returned

mvars == <<proc, term, stopped, forkFailed, returned>>

(***************************************************************************)
(* Where a process is.  fork, store: start_worker before fork() and before *)
(* worker[i] = pid; scan, refork, restore, sleep: check_and_restart before *)
(* waitpid(), before fork(), before worker[i] = pid, in sleep(); work and  *)
(* rework: in wf(), called by start_worker and by check_and_restart; exit  *)
(* and fail: about to end, with 0 and with 1.                              *)
(***************************************************************************)
MasterPlaces == {"launch", "fork", "store", "scan", "refork", "restore", "sleep",
                 "exit", "fail"}
WorkerPlaces == {"work", "rework"}

NoProcess == [pc |-> "none", i |-> 0, pid |-> 0, parent |-> 0,
              worker |-> [s \in Slots |-> 0], running |-> TRUE]

Live(p) == proc[p].pc \in MasterPlaces \cup WorkerPlaces
Children(p) == {c \in Pids : proc[c].parent = p /\ proc[c].pc # "none"}
Free == {p \in Pids \ {Daemon} : proc[p].pc = "none"}
Ended == ~Live(Daemon)

\* The table when the processes in P end: a child that is not waited for stays
\* as a zombie while its parent lives; the children of P go to init.
AfterEnd(P, table) ==
  [p \in Pids |->
     IF p \in P
     THEN IF table[p].parent \in Pids \ P
          THEN [NoProcess EXCEPT !.pc = "zombie", !.parent = table[p].parent]
          ELSE NoProcess
     ELSE IF table[p].parent \in P
          THEN IF table[p].pc = "zombie" THEN NoProcess
               ELSE [table[p] EXCEPT !.parent = 0]
          ELSE table[p]]
-----------------------------------------------------------------------------
MasterInit ==
  /\ proc = [p \in Pids |-> IF p = Daemon THEN [NoProcess EXCEPT !.pc = "launch"]
                            ELSE NoProcess]
  /\ term = {}
  /\ stopped = "no"
  /\ forkFailed = FALSE
  /\ returned = FALSE

\* check_and_restart's while: another round, or the end of the program.
Loop(r) == [r EXCEPT !.pc = IF r.running THEN "scan" ELSE "exit", !.i = 0, !.pid = 0]

\* The end of the body of start_worker's loop.
NextStart(r) ==
  IF r.i + 1 < DEFAULT_WORKER_NUM THEN [r EXCEPT !.pc = "fork", !.i = @ + 1, !.pid = 0]
  ELSE Loop(r)

\* The end of the body of check_and_restart's for loop.
NextScan(r) ==
  IF r.i + 1 < DEFAULT_WORKER_NUM THEN [r EXCEPT !.pc = "scan", !.i = @ + 1, !.pid = 0]
  ELSE [r EXCEPT !.pc = "sleep", !.pid = 0]

\* daemonize: the launching process forks the daemon and exits.
daemonize ==
  /\ proc[Daemon].pc = "launch"
  /\ proc' = [proc EXCEPT ![Daemon].pc = "fork"]
  /\ UNCHANGED <<term, stopped, forkFailed, returned>>

daemonizeFails ==
  /\ proc[Daemon].pc = "launch"
  /\ proc' = [proc EXCEPT ![Daemon] = NoProcess]
  /\ forkFailed' = TRUE
  /\ UNCHANGED <<term, stopped, returned>>

\* fork(): the child starts in wf() with a copy of its parent's variables.
Fork(p, from, to, child) ==
  /\ proc[p].pc = from
  /\ \E c \in Free :
       proc' = [proc EXCEPT ![p].pc = to, ![p].pid = c,
                            ![c] = [proc[p] EXCEPT !.pc = child, !.parent = p]]
  /\ UNCHANGED <<term, stopped, forkFailed, returned>>

start_workerFork(p) == Fork(p, "fork", "store", "work")

start_workerForkFails(p) ==
  /\ proc[p].pc = "fork"
  /\ proc' = [proc EXCEPT ![p] = NextStart(@)]
  /\ forkFailed' = (forkFailed \/ p = Daemon)
  /\ UNCHANGED <<term, stopped, returned>>

\* Mutant: the pid is not kept.
start_workerStore_Nothing(p) ==
  /\ proc[p].pc = "store"
  /\ proc' = [proc EXCEPT ![p] = NextStart(@)]
  /\ UNCHANGED <<term, stopped, forkFailed, returned>>

start_workerStore(p) ==
  /\ proc[p].pc = "store"
  /\ LET r == proc[p] IN
       proc' = [proc EXCEPT ![p] = NextStart([r EXCEPT !.worker[r.i] = r.pid])]
  /\ UNCHANGED <<term, stopped, forkFailed, returned>>
-----------------------------------------------------------------------------
\* waitpid(worker[i], WNOHANG) finds the worker running.
WaitRunning(p, w) == \/ w # 0 /\ w \in Children(p) /\ Live(w)
                     \/ w = 0 /\ Children(p) # {} /\ \A c \in Children(p) : Live(c)

\* It reaps the worker.
WaitReaps(p, w) == w # 0 /\ w \in Children(p) /\ proc[w].pc = "zombie"

scanRunning(p) ==
  LET r == proc[p] IN
  /\ r.pc = "scan" /\ WaitRunning(p, r.worker[r.i])
  /\ proc' = [proc EXCEPT ![p] = NextScan(r)]
  /\ UNCHANGED <<term, stopped, forkFailed, returned>>

scanDown(p) ==
  LET r == proc[p] IN
  /\ r.pc = "scan" /\ WaitReaps(p, r.worker[r.i])
  /\ proc' = [proc EXCEPT ![p].pc = "refork", ![r.worker[r.i]] = NoProcess]
  /\ UNCHANGED <<term, stopped, forkFailed, returned>>

\* waitpid returns -1 or, for the pid 0, another child, which it reaps.
scanFails(p) ==
  LET r == proc[p]
      w == r.worker[r.i]
      dead == {c \in Children(p) : proc[c].pc = "zombie"}
  IN
  /\ r.pc = "scan" /\ ~WaitRunning(p, w) /\ ~WaitReaps(p, w)
  /\ IF w = 0 /\ dead # {}
     THEN \E c \in dead : proc' = [proc EXCEPT ![p].pc = "fail", ![c] = NoProcess]
     ELSE proc' = [proc EXCEPT ![p].pc = "fail"]
  /\ UNCHANGED <<term, stopped, forkFailed, returned>>

check_and_restartFork(p) == Fork(p, "refork", "restore", "rework")

check_and_restartForkFails(p) ==
  /\ proc[p].pc = "refork"
  /\ proc' = [proc EXCEPT ![p].pc = "fail"]
  /\ forkFailed' = (forkFailed \/ p = Daemon)
  /\ UNCHANGED <<term, stopped, returned>>

\* Mutant: the pid is not kept.
check_and_restartStore_Nothing(p) ==
  /\ proc[p].pc = "restore"
  /\ proc' = [proc EXCEPT ![p] = NextScan(@)]
  /\ UNCHANGED <<term, stopped, forkFailed, returned>>

check_and_restartStore(p) ==
  LET r == proc[p] IN
  /\ r.pc = "restore"
  /\ proc' = [proc EXCEPT ![p] = NextScan([r EXCEPT !.worker[r.i] = r.pid])]
  /\ UNCHANGED <<term, stopped, forkFailed, returned>>

\* Mutant: a later round begins at the second slot.
sleep_Second(p) ==
  /\ proc[p].pc = "sleep"
  /\ proc' = [proc EXCEPT ![p] = [Loop(@) EXCEPT !.i = 1]]
  /\ UNCHANGED <<term, stopped, forkFailed, returned>>

\* sleep(1) returns, after a second or because of a signal.
sleep(p) ==
  /\ proc[p].pc = "sleep"
  /\ proc' = [proc EXCEPT ![p] = Loop(@)]
  /\ UNCHANGED <<term, stopped, forkFailed, returned>>

Exit(p) ==
  /\ proc[p].pc \in {"exit", "fail"}
  /\ proc' = AfterEnd({p}, proc)
  /\ term' = term \ {p}
  /\ UNCHANGED <<stopped, forkFailed, returned>>
-----------------------------------------------------------------------------
\* The worker function returns: start_worker's child goes on in the loop that
\* forked it, check_and_restart's child exits.
wfReturns(p) ==
  /\ proc[p].pc \in WorkerPlaces
  /\ proc' = [proc EXCEPT ![p] = IF @.pc = "work" THEN NextStart(@)
                                 ELSE [@ EXCEPT !.pc = "exit"]]
  /\ returned' = (returned \/ proc[p].pc = "work")
  /\ UNCHANGED <<term, stopped, forkFailed>>

\* A worker crashes, or a process other than the daemon gets SIGTERM.
Die(p) ==
  /\ p # Daemon /\ Live(p)
  /\ proc[p].pc \in WorkerPlaces \/ p \in term
  /\ proc' = AfterEnd({p}, proc)
  /\ term' = term \ {p}
  /\ UNCHANGED <<stopped, forkFailed, returned>>

\* Mutant: the last worker is forgotten.
signal_handle_AllButOne ==
  /\ proc[Daemon].pc \in MasterPlaces
  /\ \A s \in Slots : proc[Daemon].worker[s] # 0
  /\ stopped' = IF stopped = "no" THEN proc[Daemon].pc ELSE stopped
  /\ proc' = [proc EXCEPT ![Daemon].running = FALSE]
  /\ term' = term \cup {p \in Pids : Live(p) /\ proc[Daemon].worker[0] = p}
  /\ UNCHANGED <<forkFailed, returned>>

\* signal_handle for SIGUSR1.  kill(0, SIGTERM), for a slot that holds no pid,
\* goes to the whole group and ends the daemon itself before kill returns; or
\* the launching process, since the handler is installed before daemonize.
signal_handle ==
  /\ proc[Daemon].pc \in MasterPlaces
  /\ stopped' = IF stopped = "no" THEN proc[Daemon].pc ELSE stopped
  /\ IF \E s \in Slots : proc[Daemon].worker[s] = 0
     THEN /\ proc' = AfterEnd({Daemon}, proc)
          /\ term' = {p \in Pids \ {Daemon} : Live(p)}
     ELSE /\ proc' = [proc EXCEPT ![Daemon].running = FALSE]
          /\ term' = term \cup
                 {p \in Pids : Live(p) /\ \E s \in Slots : proc[Daemon].worker[s] = p}
  /\ UNCHANGED <<forkFailed, returned>>
-----------------------------------------------------------------------------
\* A step of the program of process p, outside wf().
Step(p) ==
  \/ start_workerFork(p) \/ start_workerForkFails(p) \/ start_workerStore(p)
  \/ scanRunning(p) \/ scanDown(p) \/ scanFails(p)
  \/ check_and_restartFork(p) \/ check_and_restartForkFails(p)
  \/ check_and_restartStore(p)
  \/ sleep(p) \/ Exit(p)

MasterNext ==
  \/ daemonize \/ daemonizeFails \/ signal_handle
  \/ \E p \in Pids : Step(p) \/ wfReturns(p) \/ Die(p)

MasterSpec == MasterInit /\ [][MasterNext]_mvars
-----------------------------------------------------------------------------
(* Properties *)

\* Every process is in one of the places of the program, with indices and pids
\* in their ranges.
TypeOK ==
  /\ proc \in [Pids -> [pc : MasterPlaces \cup WorkerPlaces \cup {"none", "zombie"},
                        i : Slots, pid : Pids \cup {0}, parent : Pids \cup {0},
                        worker : [Slots -> Pids \cup {0}], running : BOOLEAN]]
  /\ term \subseteq Pids
  /\ stopped \in MasterPlaces \cup {"no"}
  /\ {forkFailed, returned} \subseteq BOOLEAN

\* Every child of the daemon, running or not yet reaped, has one slot of
\* worker[], except the one that was forked and is about to be stored: so none
\* is left out by the restarts, and there are never more than the slots.
WorkersRegistered ==
  /\ TypeOK
  /\ LET d == proc[Daemon] IN
     \A c \in Children(Daemon) :
       \/ Cardinality({s \in Slots : d.worker[s] = c}) = 1
       \/ d.pc \in {"store", "restore"} /\ d.pid = c

\* The daemon gives up (waitpid failed) only after one of its forks failed:
\* worker[] never names a process that is not its child, although pids come
\* back.
FailsOnlyAfterFork == proc[Daemon].pc = "fail" => forkFailed

\* A daemon that was asked to end while it slept or started its workers leaves
\* no worker that was not sent SIGTERM.  (In the middle of a scan it starts
\* again the ones it has just killed; and a worker function that returned
\* leaves a second master behind.)
ShutdownLeavesNone ==
  (Ended /\ stopped \in {"fork", "store", "sleep"} /\ ~returned)
    => \A p \in Pids : Live(p) => p \in term

\* A dead worker is replaced, as long as the daemon lives.
DeadIsReplaced ==
  LET Registered(p) == \E s \in Slots : proc[Daemon].worker[s] = p
  IN \A p \in Pids \ {Daemon} :
       (Registered(p) /\ proc[p].pc = "zombie") ~> (Ended \/ ~Registered(p) \/ Live(p))
=============================================================================

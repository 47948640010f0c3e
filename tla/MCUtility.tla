----------------------------- MODULE MCUtility ------------------------------
(***************************************************************************)
(* The parts that main does not start, for TLC.  A behaviour is one of the *)
(* threads on a queue or a stack, one of the timers, or one of the master  *)
(* process; job says which, and the other parts stay as they begin.        *)
(***************************************************************************)
EXTENDS Containers, Timer, Master

VARIABLE job

vars == <<cvars, tvars, mvars, job>>

Init ==
  /\ ContainersInit /\ TimerInit /\ MasterInit
  /\ job \in {"container", "timer", "master"}
  /\ job # "container" => kind = "queue" /\ capacity = CHOOSE c \in Capacities : TRUE

Container(A) == job = "container" /\ A /\ UNCHANGED <<tvars, mvars, job>>
Timers(A) == job = "timer" /\ A /\ UNCHANGED <<cvars, mvars, job>>
Daemons(A) == job = "master" /\ A /\ UNCHANGED <<cvars, tvars, job>>

Next == Container(ContainersNext) \/ Timers(TimerNext) \/ Daemons(MasterNext)

\* Every thread gets the mutex after a while; the clock goes on, and the program that polls
\* the timers does not stop; the kernel lets the daemon run.
Spec ==
  /\ Init /\ [][Next]_vars
  /\ \A t \in Threads : WF_vars(Container(ThreadStep(t)))
  /\ WF_vars(Timers(Handle)) /\ WF_vars(Timers(Tick))
  /\ WF_vars(Daemons(Step(Daemon)))

\* TestsReturn where the threads run: the joins of test_queue and test_stack
\* return unless an element was dropped or the stack is too small.
JoinsReturn == (job = "container") => TestsReturn
=============================================================================

----------------------------- MODULE MCThreads ------------------------------
(***************************************************************************)
(* The threads of the server's own: the thread pool and the log, for TLC.  *)
(* They share nothing, so a behaviour is one of the one or one of the      *)
(* other; job says which, and the other part stays as it begins.  There    *)
(* are as many tasks as workers, so that both run out, and more records    *)
(* than slots.                                                             *)
(***************************************************************************)
EXTENDS ThreadPool, Log

VARIABLE job

ThreadsInit == Init /\ LogInit /\ job \in {"pool", "log"}

Pooling(A) == job = "pool" /\ A /\ UNCHANGED <<logvars, job>>
Logging(A) == job = "log" /\ A /\ UNCHANGED <<vars, job>>

\* The fairness of ThreadPool where its threads run.
ThreadsSpec ==
  /\ ThreadsInit /\ [][Pooling(Next) \/ Logging(LogNext)]_<<vars, logvars, job>>
  /\ WF_vars(Pooling(thread_pool_create)) /\ WF_vars(Pooling(JoinThread))
  /\ WF_vars(Pooling(FreePool))
  /\ \A w \in Workers : WF_vars(Pooling(TakeTask(w))) /\ WF_vars(Pooling(RunTask(w)))
=============================================================================

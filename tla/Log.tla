-------------------------------- MODULE Log ---------------------------------
(***************************************************************************)
(* The logger (Src/log.c): server threads call log_write, through log_info *)
(* and its siblings; log_thread writes the records to the log file.  Both  *)
(* sides wait on the one condition variable log_cond, and only log_write   *)
(* signals it.                                                             *)
(*                                                                         *)
(* A record's level, file name, line and text are abstracted to its        *)
(* serial number: records are numbered in the order log_write puts them    *)
(* into the buffer.  The log file is the sequence of the records printed.  *)
(***************************************************************************)
EXTENDS Integers, Sequences, FiniteSets

CONSTANTS
  Writers,           \* threads that log
  LOG_BUFFER_SIZE,
  MaxRecords,        \* bound: records put into the buffer in a behaviour
  OpenMayFail        \* whether fopen of the log file (or the creation of
                     \* the log thread, which is not checked) may fail

ASSUME LogAssumption ==
  /\ IsFiniteSet(Writers)
  /\ LOG_BUFFER_SIZE \in Nat \ {0}
  /\ MaxRecords \in Nat
  /\ OpenMayFail \in BOOLEAN

\* The name of the log thread among the threads.
logger == "logger"

ASSUME LoggerIsNoWriter == logger \notin Writers

VARIABLES
  log_buffer,        \* log_buffer[i]: the record in slot i, 0 before the first
  log_buffer_count,
  accepted,          \* history: number of records put into the buffer
  file,              \* the log file
  at                 \* at[t]: where thread t is

logvars == <<log_buffer, log_buffer_count, accepted, file, at>>

LogThreads == Writers \cup {logger}
Slots   == 0 .. LOG_BUFFER_SIZE - 1
Waiters == {t \in LogThreads : at[t] = "waiting"}

-----------------------------------------------------------------------------
LogInit ==
  /\ log_buffer = [i \in Slots |-> 0]
  /\ log_buffer_count = 0
  /\ accepted = 0
  /\ file = <<>>
  /\ at = [t \in LogThreads |-> IF t = logger THEN "opening" ELSE "idle"]

\* log_init has started log_thread, which opens the file, or ends.
OpenFile ==
  /\ at[logger] = "opening"
  /\ \/ at' = [at EXCEPT ![logger] = "running"]
     \/ OpenMayFail /\ at' = [at EXCEPT ![logger] = "ended"]
  /\ UNCHANGED <<log_buffer, log_buffer_count, accepted, file>>

\* Mutant: an empty buffer passes for a filled one.
Empty_OffByOne == log_buffer_count < 0

\* log_thread waits.
Empty == log_buffer_count <= 0

\* One turn of log_thread's loop, from taking the mutex to releasing it or to
\* pthread_cond_wait: slot 0 is copied and the count goes down.  The other
\* records do not move, and nobody is signalled.
log_thread ==
  /\ at[logger] \in {"running", "woken"}
  /\ IF Empty
     THEN /\ at' = [at EXCEPT ![logger] = "waiting"]
          /\ UNCHANGED <<log_buffer_count, file>>
     ELSE /\ file' = Append(file, log_buffer[0])
          /\ log_buffer_count' = log_buffer_count - 1
          /\ at' = [at EXCEPT ![logger] = "running"]
  /\ UNCHANGED <<log_buffer, accepted>>

\* log_write waits.
Full == log_buffer_count >= LOG_BUFFER_SIZE

\* log_buffer_count after log_write has claimed a slot.
Claimed == log_buffer_count + 1

\* Mutant: nobody is signalled.
SignalOne_Silent(w, s) == at' = [at EXCEPT ![w] = s]

\* pthread_cond_signal on log_cond, with the rest of the effect on at: one
\* thread that waits, the log thread or a writer, is woken.
SignalOne(w, s) ==
  IF Waiters = {}
  THEN at' = [at EXCEPT ![w] = s]
  ELSE \E t \in Waiters : at' = [at EXCEPT ![w] = s, ![t] = "woken"]

\* log_write from taking the mutex, for the first time or after
\* pthread_cond_wait, to releasing it or waiting (again): the record goes into
\* slot log_buffer_count, and one thread waiting on log_cond is woken,
\* whichever it is.
log_write(w) ==
  /\ at[w] \in {"idle", "woken"}
  /\ IF Full
     THEN /\ at' = [at EXCEPT ![w] = "waiting"]
          /\ UNCHANGED <<log_buffer, log_buffer_count, accepted>>
     ELSE /\ accepted < MaxRecords
          /\ accepted' = accepted + 1
          /\ log_buffer' = [log_buffer EXCEPT ![log_buffer_count] = accepted + 1]
          /\ log_buffer_count' = Claimed
          /\ SignalOne(w, "idle")
  /\ UNCHANGED file

\* pthread_cond_wait may return without a signal.
WakesSpuriously(t) ==
  /\ at[t] = "waiting"
  /\ at' = [at EXCEPT ![t] = "woken"]
  /\ UNCHANGED <<log_buffer, log_buffer_count, accepted, file>>

LogNext ==
  \/ OpenFile
  \/ log_thread
  \/ \E w \in Writers : log_write(w)
  \/ \E t \in LogThreads : WakesSpuriously(t)

LogSpec == LogInit /\ [][LogNext]_logvars

\* The log thread and a writer that was woken are scheduled; nothing obliges
\* a thread to log.
LogFairness ==
  /\ WF_logvars(OpenFile)
  /\ WF_logvars(log_thread)
  /\ \A w \in Writers : WF_logvars(at[w] = "woken" /\ log_write(w))

LogFairSpec == LogSpec /\ LogFairness

-----------------------------------------------------------------------------
\* Type correctness; in particular log_buffer is never indexed outside its
\* bounds, since its domain would then not be Slots.
LogTypeOK ==
  /\ log_buffer \in [Slots -> 0 .. MaxRecords]
  /\ log_buffer_count \in 0 .. LOG_BUFFER_SIZE
  /\ accepted \in 0 .. MaxRecords
  /\ file \in Seq(0 .. MaxRecords)
  /\ at \in [LogThreads -> {"idle", "opening", "running", "ended", "waiting", "woken"}]

\* Every call of log_write accounts for one line: the lines printed and the
\* records still counted add up to the records accepted.  A line never shows a
\* slot that was not written, nor a record from the future, and the lines never
\* go back in time although slots are reused.
LinesInOrder ==
  /\ LogTypeOK
  /\ Len(file) + log_buffer_count = accepted
  /\ \A i \in DOMAIN file : file[i] \in 1 .. accepted
  /\ \A i, j \in DOMAIN file : i < j => file[i] <= file[j]

\* With at most LOG_BUFFER_SIZE writers the wakeup for the log thread is
\* never lost to writers: it does not sleep on a non-empty buffer unless a
\* woken writer is about to run.
LoggerIsWoken ==
  at[logger] = "waiting" /\ log_buffer_count > 0 =>
    \E w \in Writers : at[w] = "woken"

\* log.c:95: "如果缓冲区已满，则等待条件变量" (while the buffer is full, wait):
\* a writer that waits goes on once there is room.
WriterGoesOn ==
  \A w \in Writers :
    (at[w] = "waiting" /\ log_buffer_count < LOG_BUFFER_SIZE)
      ~> (at[w] # "waiting" \/ accepted = MaxRecords)
=============================================================================

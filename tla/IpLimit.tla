------------------------------ MODULE IpLimit -------------------------------
(***************************************************************************)
(* The request limit: ip_check_valid (Src/mdb/mdb_operate.c), which the    *)
(* middleware calls for every request.                                     *)
(*                                                                         *)
(* An address counts in the slot of its hash; slots share nothing but the  *)
(* mutex, so one slot is modelled.  The mutex covers the whole update, but *)
(* the time is read before it is taken: a thread may count with a time     *)
(* older than the slot's, and set the slot back to it.                     *)
(*                                                                         *)
(* ab_ban is never set to anything but 0, and invalid_num only decides     *)
(* about ab_ban: both are left out.                                        *)
(***************************************************************************)
EXTENDS Integers, Sequences, FiniteSets

CONSTANTS
  Workers,      \* threads that handle requests
  Limit,        \* requests let through in a window: 1000 in the code
  Window,       \* length of the window: 60 seconds in the code
  MaxTime       \* bound: the clock stops here

ASSUME IpLimitAssumption ==
  /\ Limit \in Nat \ {0} /\ Window \in Nat \ {0}
  /\ MaxTime \in Nat /\ MaxTime >= Window

VARIABLES
  now,          \* the clock
  time_start,   \* the slot: when its window began
  request_num,  \* the slot: requests counted in this window
  curr_time,    \* curr_time[w]: the time thread w has read for its check, 0
                \* outside of ip_check_valid
  checks,       \* history: when the checks were made
  refused       \* history: refusals, each with the time it read and the
                \* number of checks made before it

ipVars   == <<now, time_start, request_num, curr_time, checks, refused>>
ipSlot   == <<time_start, request_num, checks, refused>>

\* mdb_operate_init clears the slot; the clock is far beyond 0 by then.
IpInit ==
  /\ now = Window
  /\ time_start = 0
  /\ request_num = 0
  /\ curr_time = [w \in Workers |-> 0]
  /\ checks = <<>>
  /\ refused = {}

Tick ==
  /\ now < MaxTime
  /\ now' = now + 1
  /\ UNCHANGED <<ipSlot, curr_time>>

\* ip_check_valid up to the mutex: the time is read.
ReadTime(w) ==
  /\ curr_time' = [curr_time EXCEPT ![w] = now]
  /\ UNCHANGED <<now, ipSlot>>

\* Mutant: a window never ends.
Expired_Never(w) == FALSE

\* The slot's window is over, by the time that w has read.
Expired(w) == curr_time[w] - time_start >= Window

\* ip_check_valid under the mutex: a new window, or one more request in it, or
\* a refusal, which starts a new window and counts in it.
Check(w, verdict) ==
  /\ \/ /\ Expired(w)
        /\ verdict = "valid"
        /\ time_start' = curr_time[w] /\ request_num' = 1
        /\ UNCHANGED refused
     \/ /\ ~Expired(w) /\ request_num < Limit
        /\ verdict = "valid"
        /\ request_num' = request_num + 1
        /\ UNCHANGED <<time_start, refused>>
     \/ /\ ~Expired(w) /\ request_num >= Limit
        /\ verdict = "refused"
        /\ time_start' = curr_time[w] /\ request_num' = 1
        /\ refused' = refused \cup {[time |-> curr_time[w], before |-> Len(checks)]}
  /\ checks' = Append(checks, now)
  /\ curr_time' = [curr_time EXCEPT ![w] = 0]
  /\ UNCHANGED now

\* The shared memory cannot be mapped: the result is neither 2 nor 3, the
\* middleware lets the request pass and nothing is counted.
CheckFails(w) ==
  /\ curr_time' = [curr_time EXCEPT ![w] = 0]
  /\ UNCHANGED <<now, ipSlot>>

-----------------------------------------------------------------------------
IpTypeOK ==
  /\ now \in Nat
  /\ time_start \in 0 .. now
  /\ request_num \in 0 .. Limit
  /\ curr_time \in [Workers -> 0 .. now]
  /\ checks \in Seq(0 .. now)
  /\ refused \in SUBSET [time : Nat, before : Nat]

\* Requests are refused only when they come too often (middleware.c:53): at
\* least Limit earlier requests were checked less than Window before the time
\* that the refused one read, although threads come to the slot with times
\* that are old by then and set its window back.
RefusedOnlyTooOften ==
  \A r \in refused :
    Cardinality({i \in 1 .. r.before : checks[i] > r.time - Window}) >= Limit
=============================================================================

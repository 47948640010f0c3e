----------------------------- MODULE IocpProofs ------------------------------
(***************************************************************************)
(* Proofs about the Windows server and the request limit its threads use,  *)
(* for any number of threads, clients, handles and objects, any limit and  *)
(* any window: requests are refused only when they come too often; a       *)
(* connection is in one hand at a time; and its object and its socket are  *)
(* its own until one is closed twice.                                      *)
(***************************************************************************)
EXTENDS Iocp, FiniteSetTheorems, SequenceTheorems, TLAPS

\* The checks that were made at time t or later.
Since(s, t) == {i \in 1 .. Len(s) : s[i] >= t}

\* The slot never counts more requests than were checked since its window
\* began.
Counted == request_num <= Cardinality(Since(checks, time_start))

\* What the times and counters are.
IpTypes ==
  /\ now \in Nat
  /\ time_start \in Nat /\ time_start <= now
  /\ request_num \in Nat
  /\ curr_time \in [Workers -> Nat]
  /\ \A w \in Workers : curr_time[w] <= now
  /\ checks \in Seq(Nat)

\* A refusal looks back on checks that were made.
RefusedTypes ==
  \A r \in refused : r.time \in Nat /\ r.before \in 0 .. Len(checks)

\* The inductive invariant.
IpIInv == IpTypes /\ Counted /\ RefusedTypes /\ RefusedOnlyTooOften

\* What a step of Iocp may do to the slot.
IpStep ==
  \/ Tick
  \/ \E w \in Workers :
       \/ ReadTime(w)
       \/ \E verdict \in {"valid", "refused"} : Check(w, verdict)
       \/ CheckFails(w)
  \/ UNCHANGED ipVars

-----------------------------------------------------------------------------
\* Since is a finite set.
LEMMA SinceFinite ==
  ASSUME NEW s \in Seq(Nat), NEW t \in Nat
  PROVE  IsFiniteSet(Since(s, t)) /\ Cardinality(Since(s, t)) \in Nat
<1>1. Len(s) \in Nat
  OBVIOUS
<1>2. IsFiniteSet(1 .. Len(s))
  BY <1>1, FS_Interval
<1>3. Since(s, t) \subseteq 1 .. Len(s)
  BY DEF Since
<1>4. IsFiniteSet(Since(s, t))
  BY <1>2, <1>3, FS_Subset
<1> QED
  BY <1>4, FS_CardinalityType

\* One more check, at time t or later, is one more member of Since.
LEMMA SinceAppend ==
  ASSUME NEW s \in Seq(Nat), NEW t \in Nat, NEW x \in Nat, x >= t
  PROVE  Cardinality(Since(Append(s, x), t)) = Cardinality(Since(s, t)) + 1
<1>1. Since(Append(s, x), t) = Since(s, t) \cup {Len(s) + 1}
  BY DEF Since
<1>2. Len(s) + 1 \notin Since(s, t)
  BY DEF Since
<1>3. IsFiniteSet(Since(s, t))
  BY SinceFinite
<1> QED
  BY <1>1, <1>2, <1>3, FS_AddElement

\* A later check changes nothing about the checks before it.
LEMMA EarlierUnchanged ==
  ASSUME NEW s \in Seq(Nat), NEW x \in Nat, NEW n \in 0 .. Len(s), NEW c \in Int
  PROVE  {i \in 1 .. n : Append(s, x)[i] > c} = {i \in 1 .. n : s[i] > c}
  OBVIOUS

-----------------------------------------------------------------------------
\* The invariant holds of the slot that mdb_operate_init has cleared.
LEMMA IpInitInv == IpInit => IpIInv
<1> SUFFICES ASSUME IpInit PROVE IpIInv
  OBVIOUS
<1>1. IpTypes
  BY IpLimitAssumption DEF IpInit, IpTypes
<1>2. Counted
  <2>1. Cardinality(Since(checks, time_start)) \in Nat
    BY <1>1, SinceFinite DEF IpTypes
  <2> QED
    BY <2>1 DEF IpInit, Counted
<1> QED
  BY <1>1, <1>2 DEF IpInit, IpIInv, RefusedTypes, RefusedOnlyTooOften

\* A check keeps what holds of earlier refusals.
LEMMA EarlierRefusals ==
  ASSUME IpIInv, NEW x \in Nat, checks' = Append(checks, x),
         NEW r \in refused
  PROVE  /\ r.time \in Nat /\ r.before \in 0 .. Len(checks')
         /\ Cardinality({i \in 1 .. r.before : checks'[i] > r.time - Window}) >= Limit
<1>1. /\ r.time \in Nat /\ r.before \in 0 .. Len(checks)
      /\ checks \in Seq(Nat)
      /\ Cardinality({i \in 1 .. r.before : checks[i] > r.time - Window}) >= Limit
  BY DEF IpIInv, IpTypes, RefusedTypes, RefusedOnlyTooOften
<1>2. r.time - Window \in Int
  BY <1>1, IpLimitAssumption
<1>3. {i \in 1 .. r.before : Append(checks, x)[i] > r.time - Window}
        = {i \in 1 .. r.before : checks[i] > r.time - Window}
  BY <1>1, <1>2, EarlierUnchanged
<1>4. Cardinality({i \in 1 .. r.before : checks'[i] > r.time - Window}) >= Limit
  BY <1>1, <1>3
<1>5. r.before \in 0 .. Len(checks')
  BY <1>1
<1> QED
  BY <1>1, <1>4, <1>5

\* The check keeps the types.
LEMMA CheckTypes ==
  ASSUME IpIInv, NEW w \in Workers, NEW verdict, Check(w, verdict)
  PROVE  IpTypes'
<1> USE DEF IpIInv, IpTypes
<1>1. time_start' \in Nat /\ time_start' <= now' /\ request_num' \in Nat
  BY DEF Check
<1>2. curr_time' \in [Workers -> Nat] /\ \A v \in Workers : curr_time'[v] <= now'
  BY DEF Check
<1>3. checks' \in Seq(Nat) /\ now' \in Nat
  BY DEF Check
<1> QED
  BY <1>1, <1>2, <1>3

\* A new window counts one check, and every other check counts once more; a
\* check is made no earlier than the time it has read, nor than the window's.
LEMMA CheckCounted ==
  ASSUME IpIInv, NEW w \in Workers, NEW verdict, Check(w, verdict)
  PROVE  Counted'
<1>1. /\ now \in Nat /\ checks \in Seq(Nat) /\ request_num \in Nat
      /\ time_start \in Nat /\ time_start <= now
      /\ curr_time[w] \in Nat /\ curr_time[w] <= now
      /\ request_num <= Cardinality(Since(checks, time_start))
      /\ checks' = Append(checks, now)
  BY DEF IpIInv, IpTypes, Counted, Check
<1>2. CASE time_start' = curr_time[w] /\ request_num' = 1
  <2>1. Cardinality(Since(checks, curr_time[w])) \in Nat
    BY <1>1, SinceFinite
  <2>2. Cardinality(Since(checks', curr_time[w]))
          = Cardinality(Since(checks, curr_time[w])) + 1
    BY <1>1, SinceAppend
  <2> QED
    BY <1>2, <2>1, <2>2 DEF Counted
<1>3. CASE time_start' = time_start /\ request_num' = request_num + 1
  <2>1. Cardinality(Since(checks, time_start)) \in Nat
    BY <1>1, SinceFinite
  <2>2. Cardinality(Since(checks', time_start))
          = Cardinality(Since(checks, time_start)) + 1
    BY <1>1, SinceAppend
  <2> QED
    BY <1>1, <1>3, <2>1, <2>2 DEF Counted
<1> QED
  BY <1>2, <1>3 DEF Check

\* When the check refuses, the slot's window began less than Window before the
\* time that was read, and Limit requests were counted in it.
LEMMA CheckRefusals ==
  ASSUME IpIInv, NEW w \in Workers, NEW verdict, Check(w, verdict)
  PROVE  RefusedTypes' /\ RefusedOnlyTooOften'
<1>1. /\ now \in Nat /\ checks \in Seq(Nat) /\ request_num \in Nat
      /\ time_start \in Nat /\ curr_time[w] \in Nat
      /\ Limit \in Nat /\ Window \in Nat
      /\ checks' = Append(checks, now)
  BY IpLimitAssumption DEF IpIInv, IpTypes, Check
<1>2. CASE refused' = refused
  <2>1. \A r \in refused' :
          /\ r.time \in Nat /\ r.before \in 0 .. Len(checks')
          /\ Cardinality({i \in 1 .. r.before : checks'[i] > r.time - Window}) >= Limit
    BY <1>1, <1>2, EarlierRefusals
  <2> QED
    BY <2>1 DEF RefusedTypes, RefusedOnlyTooOften
<1>3. CASE /\ ~Expired(w) /\ request_num >= Limit
           /\ refused' = refused \cup {[time |-> curr_time[w], before |-> Len(checks)]}
  <2> DEFINE new == [time |-> curr_time[w], before |-> Len(checks)]
             recent == {i \in 1 .. Len(checks) : checks[i] > curr_time[w] - Window}
  <2>1. Since(checks, time_start) \subseteq recent
    BY <1>1, <1>3, SMTT(40) DEF Since, Expired
  <2>2. IsFiniteSet(recent)
    <3>1. IsFiniteSet(1 .. Len(checks))
      BY <1>1, FS_Interval
    <3> QED
      BY <3>1, FS_Subset
  <2>3. Cardinality(recent) >= Limit
    <3>1. Cardinality(Since(checks, time_start)) <= Cardinality(recent)
      BY <2>1, <2>2, FS_Subset
    <3>2. /\ Cardinality(recent) \in Nat
          /\ Cardinality(Since(checks, time_start)) \in Nat
      BY <1>1, <2>2, SinceFinite, FS_CardinalityType
    <3>3. request_num <= Cardinality(Since(checks, time_start))
      BY DEF IpIInv, Counted
    <3> HIDE DEF recent
    <3> QED
      BY <1>1, <1>3, <3>1, <3>2, <3>3
  <2>4. {i \in 1 .. Len(checks) : checks'[i] > curr_time[w] - Window} = recent
    <3>1. /\ Len(checks) \in 0 .. Len(checks)
          /\ curr_time[w] - Window \in Int
      BY <1>1
    <3> QED
      BY <1>1, <3>1, EarlierUnchanged
  <2>5. /\ new.time \in Nat /\ new.before \in 0 .. Len(checks')
        /\ Cardinality({i \in 1 .. new.before : checks'[i] > new.time - Window}) >= Limit
    <3>1. Len(checks) \in 0 .. Len(checks')
      BY <1>1
    <3> HIDE DEF recent
    <3> QED
      BY <1>1, <2>3, <2>4, <3>1
  <2>6. \A r \in refused :
          /\ r.time \in Nat /\ r.before \in 0 .. Len(checks')
          /\ Cardinality({i \in 1 .. r.before : checks'[i] > r.time - Window}) >= Limit
    BY <1>1, EarlierRefusals
  <2>7. refused' = refused \cup {new}
    BY <1>3
  <2> HIDE DEF new
  <2> QED
    BY <2>5, <2>6, <2>7 DEF RefusedTypes, RefusedOnlyTooOften
<1> QED
  BY <1>2, <1>3 DEF Check

\* Every step on the slot keeps the invariant.
LEMMA IpStepInv == IpIInv /\ IpStep => IpIInv'
<1> SUFFICES ASSUME IpIInv, IpStep PROVE IpIInv'
  OBVIOUS
<1>1. CASE Tick
  BY <1>1 DEF Tick, ipSlot, IpIInv, IpTypes, Counted, RefusedTypes, RefusedOnlyTooOften
<1>2. ASSUME NEW w \in Workers, ReadTime(w) PROVE IpIInv'
  BY <1>2 DEF ReadTime, ipSlot, IpIInv, IpTypes, Counted, RefusedTypes, RefusedOnlyTooOften
<1>3. ASSUME NEW w \in Workers, NEW verdict \in {"valid", "refused"}, Check(w, verdict)
      PROVE  IpIInv'
  BY <1>3, CheckTypes, CheckCounted, CheckRefusals DEF IpIInv
<1>4. ASSUME NEW w \in Workers, CheckFails(w) PROVE IpIInv'
  BY <1>4 DEF CheckFails, ipSlot, IpIInv, IpTypes, Counted, RefusedTypes, RefusedOnlyTooOften
<1>5. CASE UNCHANGED ipVars
  BY <1>5 DEF ipVars, IpIInv, IpTypes, Counted, RefusedTypes, RefusedOnlyTooOften
<1> QED
  BY <1>1, <1>2, <1>3, <1>4, <1>5 DEF IpStep

\* Every step of Iocp is a step on the slot, or leaves it alone.
LEMMA IocpIpStep == [Next]_vars => IpStep
<1> SUFFICES ASSUME [Next]_vars PROVE IpStep
  OBVIOUS
<1>1. CASE Clock
  BY <1>1 DEF Clock, IpStep
<1>2. CASE \E k \in Clients : Connect(k)
  BY <1>2 DEF Connect, IpStep
<1>3. CASE Accept
  BY <1>3 DEF Accept, IpStep
<1>4. CASE \E r \in recvs, kind \in {"data", "zero", "aborted"} : Complete(r, kind)
  BY <1>4 DEF Complete, IpStep
<1>5. ASSUME NEW w \in Workers, WorkerStep(w) PROVE IpStep
  <2>1. CASE Dequeue(w)
    BY <2>1 DEF Dequeue, IpStep
  <2>2. CASE middleware_check_if_too_often(w)
    BY <2>2 DEF middleware_check_if_too_often, IpStep
  <2>3. CASE middleware_handle(w)
    BY <2>3 DEF middleware_handle, IpStep
  <2>4. CASE router_handle(w)
    BY <2>4 DEF router_handle, IpStep
  <2>5. CASE res_handle(w)
    BY <2>5 DEF res_handle, IpStep
  <2>6. CASE res_file_handle(w)
    BY <2>6 DEF res_file_handle, IpStep
  <2>7. CASE upto_ws_prot(w)
    BY <2>7 DEF upto_ws_prot, IpStep
  <2>8. CASE WsEnd(w)
    BY <2>8 DEF WsEnd, IpStep
  <2>9. CASE connection_close(w)
    BY <2>9 DEF connection_close, IpStep
  <2>10. CASE connection_free(w)
    BY <2>10 DEF connection_free, IpStep
  <2> QED
    BY <1>5, <2>1, <2>2, <2>3, <2>4, <2>5, <2>6, <2>7, <2>8, <2>9, <2>10 DEF WorkerStep
<1>6. CASE UNCHANGED vars
  BY <1>6 DEF vars, IpStep
<1> QED
  BY <1>1, <1>2, <1>3, <1>4, <1>5, <1>6 DEF Next

-----------------------------------------------------------------------------
\* ip_check_valid refuses a request only when at least Limit requests were
\* checked in the Window before the time it read, however the threads that
\* have read the time are delayed on their way to the slot.
THEOREM IocpRefusedOnlyTooOften == Spec => []RefusedOnlyTooOften
<1>1. Init => IpIInv
  BY IpInitInv DEF Init
<1>2. IpIInv /\ [Next]_vars => IpIInv'
  BY IpStepInv, IocpIpStep
<1>3. IpIInv => RefusedOnlyTooOften
  BY DEF IpIInv
<1> QED
  BY <1>1, <1>2, <1>3, PTL DEF Spec

-----------------------------------------------------------------------------
(***************************************************************************)
(* The connections.                                                        *)
(***************************************************************************)

\* A thread has calls left to do exactly in the cleanup, and a thread that is
\* busy works on an object for a client.  An object that anyone knows of has
\* been given a socket, also after it was freed.
BusyHas ==
  /\ \A w \in Workers : pc[w] = "cleanup" <=> todo[w] # <<>>
  /\ \A w \in Busy : /\ conn[w] \in Addrs /\ serving[w] \in Clients
                     /\ Socket[conn[w]] \in Handles
  /\ \A r \in recvs : Socket[r[2]] \in Handles
  /\ \A e \in port : Socket[e[2]] \in Handles

Types == TypeOK /\ BusyHas

\* A connection is in one hand: that of the system (recvs), of the port, or of
\* one thread; and only a connection that was accepted is in any.
OneHand ==
  /\ \A r, s \in recvs : r[1] = s[1] => r = s
  /\ \A d, e \in port : d[1] = e[1] => d = e
  /\ \A v, w \in Busy : serving[v] = serving[w] => v = w
  /\ \A r \in recvs, e \in port : r[1] # e[1]
  /\ \A r \in recvs, w \in Busy : r[1] # serving[w]
  /\ \A e \in port, w \in Busy : e[1] # serving[w]
  /\ \A r \in recvs : peer[r[1]] = "accepted"
  /\ \A e \in port : peer[e[1]] = "accepted"
  /\ \A w \in Busy : peer[serving[w]] = "accepted"

\* Thread w has not closed its socket yet.
SocketOpen(w) == pc[w] # "cleanup" \/ Head(todo[w]) = "close"

\* What a thread may have left to do with a connection that is its own.
OwnTodo ==
  {<<"close", "free">>, <<"close", "release">>, <<"close">>, <<"free">>, <<"release">>}

\* Until something is closed twice, whoever has a connection has its object
\* and, until it closes it, its socket to itself.
OwnObject ==
  ~twice =>
    /\ \A r \in recvs : r[2] \in live /\ handle[Socket[r[2]]] = r[1]
    /\ \A e \in port : e[2] \in live /\ handle[Socket[e[2]]] = e[1]
    /\ \A w \in Busy : /\ conn[w] \in live
                       /\ SocketOpen(w) => handle[Socket[conn[w]]] = serving[w]
                       /\ pc[w] = "cleanup" => todo[w] \in OwnTodo
    /\ \A v, w \in Busy : conn[v] = conn[w] => v = w
    /\ \A w \in Busy, r \in recvs : r[2] # conn[w]
    /\ \A w \in Busy, e \in port : e[2] # conn[w]

\* The inductive invariant.
IocpInv == Types /\ OneHand /\ OwnObject

-----------------------------------------------------------------------------
\* Types of the request limit: in particular no window ever counts more than
\* Limit requests.
LEMMA IpTypeStep ==
  ASSUME IpTypeOK, IpStep
  PROVE  IpTypeOK'
<1> USE IpLimitAssumption DEF IpTypeOK
<1>1. CASE Tick
  <2>1. 0 .. now \subseteq 0 .. now' /\ now' \in Nat
    BY <1>1 DEF Tick
  <2>2. checks' \in Seq(0 .. now')
    BY <1>1, <2>1, SeqMonotonic DEF Tick, ipSlot
  <2>3. curr_time' \in [Workers -> 0 .. now']
    BY <1>1, <2>1 DEF Tick
  <2> QED
    BY <1>1, <2>1, <2>2, <2>3 DEF Tick, ipSlot
<1>2. ASSUME NEW w \in Workers, ReadTime(w) \/ CheckFails(w)
      PROVE  IpTypeOK'
  <2>1. UNCHANGED <<now, time_start, request_num, checks, refused>>
    BY <1>2 DEF ReadTime, CheckFails, ipSlot
  <2>2. curr_time' \in [Workers -> 0 .. now]
    BY <1>2, SMTT(40) DEF ReadTime, CheckFails
  <2> QED
    BY <2>1, <2>2
<1>3. ASSUME NEW w \in Workers, NEW verdict \in {"valid", "refused"}, Check(w, verdict)
      PROVE  IpTypeOK'
  <2>1. checks' \in Seq(0 .. now') /\ now' = now
    BY <1>3, AppendProperties DEF Check
  <2>2. curr_time' \in [Workers -> 0 .. now']
    BY <1>3 DEF Check
  <2>3. curr_time[w] \in 0 .. now
    OBVIOUS
  <2>4. time_start' \in 0 .. now' /\ request_num' \in 0 .. Limit
    BY <1>3, <2>3 DEF Check
  <2>5. refused' \in SUBSET [time : Nat, before : Nat]
    <3>1. [time |-> curr_time[w], before |-> Len(checks)] \in [time : Nat, before : Nat]
      BY <2>3, LenProperties
    <3> QED
      BY <1>3, <3>1 DEF Check
  <2> QED
    BY <2>1, <2>2, <2>4, <2>5
<1>4. CASE UNCHANGED ipVars
  BY <1>4 DEF ipVars
<1> QED
  BY <1>1, <1>2, <1>3, <1>4 DEF IpStep

\* What a thread has still to do is a sequence of calls.
LEMMA TodoFacts ==
  /\ <<>> \in Seq(Calls) /\ <<"close">> \in Seq(Calls) /\ <<"close">> # <<>>
  /\ closeAndFree \in Seq(Calls) /\ closeAndFree # <<>>
  /\ closeAndRelease \in Seq(Calls) /\ closeAndRelease # <<>>
  /\ \A s, t \in {<<>>, closeAndFree} :
       /\ (s \o closeAndFree) \o t \in Seq(Calls)
       /\ (s \o closeAndFree) \o t # <<>>
  /\ (<<>> \o closeAndFree) \o <<>> = closeAndFree
<1>1. /\ <<>> \in Seq(Calls) /\ <<"close">> \in Seq(Calls) /\ <<"close">> # <<>>
      /\ closeAndFree \in Seq(Calls) /\ closeAndFree # <<>> /\ Len(closeAndFree) = 2
      /\ closeAndRelease \in Seq(Calls) /\ closeAndRelease # <<>>
  BY DEF closeAndFree, closeAndRelease, Calls
<1>2. ASSUME NEW s \in {<<>>, closeAndFree}, NEW t \in {<<>>, closeAndFree}
      PROVE  /\ (s \o closeAndFree) \o t \in Seq(Calls)
             /\ (s \o closeAndFree) \o t # <<>>
  <2>0. s \in Seq(Calls) /\ t \in Seq(Calls) /\ Len(s) \in Nat /\ Len(t) \in Nat
    <3>1. s \in Seq(Calls) /\ t \in Seq(Calls)
      BY <1>1, Zenon
    <3> QED
      BY <3>1, LenProperties
  <2> HIDE DEF Calls
  <2>1. s \o closeAndFree \in Seq(Calls) /\ Len(s \o closeAndFree) = Len(s) + 2
    <3>1. closeAndFree \in Seq(Calls) /\ Len(closeAndFree) = 2
      BY <1>1
    <3>2. /\ s \o closeAndFree \in Seq(Calls)
          /\ Len(s \o closeAndFree) = Len(s) + Len(closeAndFree)
      BY ONLY <2>0, <3>1, ConcatProperties, Zenon
    <3> QED
      BY ONLY <3>1, <3>2
  <2>2. /\ (s \o closeAndFree) \o t \in Seq(Calls)
        /\ Len((s \o closeAndFree) \o t) = Len(s) + 2 + Len(t)
    BY <2>0, <2>1, ConcatProperties
  <2>3. Len(s) + 2 + Len(t) # 0
    BY <2>0
  <2> QED
    BY <2>2, <2>3, EmptySeq
<1>3. (<<>> \o closeAndFree) \o <<>> = closeAndFree
  BY <1>1
<1> QED
  BY <1>1, <1>2, <1>3

\* What is left after a send is close and free, once unless twice says so.
LEMMA AfterSendFacts ==
  ASSUME NEW w \in Workers, NEW failed \in BOOLEAN
  PROVE  /\ AfterSend(w, failed) \in Seq(Calls) /\ AfterSend(w, failed) # <<>>
         /\ ~failed /\ pc[w] # "refuse" => AfterSend(w, failed) = closeAndFree
<1>1. /\ (IF failed THEN closeAndFree ELSE <<>>) \in {<<>>, closeAndFree}
      /\ (IF pc[w] = "refuse" THEN closeAndFree ELSE <<>>) \in {<<>>, closeAndFree}
  OBVIOUS
<1> QED
  BY <1>1, TodoFacts DEF AfterSend

\* The server that has started satisfies the invariant.
LEMMA IocpInitInv == Init => IocpInv
<1> SUFFICES ASSUME Init
             PROVE  IocpInv
  OBVIOUS
<1>1. IpTypeOK
  BY IpLimitAssumption, EmptySeq DEF Init, IpInit, IpTypeOK
<1>2. TypeOK
  <2>1. todo \in [Workers -> Seq(Calls)]
    BY TodoFacts DEF Init
  <2>2. {twice, crashed} \subseteq BOOLEAN
    BY DEF Init
  <2>3. /\ peer \in [Clients -> {"new", "waiting", "accepted"}]
        /\ handle \in [Handles -> Clients \cup {None}]
        /\ Socket \in [Addrs -> Handles \cup {None}]
        /\ pc \in [Workers -> Places]
        /\ conn \in [Workers -> Addrs \cup {None}]
        /\ serving \in [Workers -> Clients \cup {None}]
    BY DEF Init, Places
  <2>4. /\ aborts \in 0 .. MaxAborts /\ live = {} /\ recvs = {} /\ port = {}
        /\ answered = {}
    BY IocpAssumption DEF Init
  <2> QED
    BY <1>1, <2>1, <2>2, <2>3, <2>4 DEF TypeOK
<1>3. Busy = {} /\ recvs = {} /\ port = {}
  BY DEF Init, Busy
<1>4. BusyHas
  BY <1>3 DEF Init, BusyHas
<1>5. OneHand /\ OwnObject
  BY <1>3 DEF OneHand, OwnObject
<1> QED
  BY <1>2, <1>4, <1>5 DEF IocpInv, Types

\* Every step keeps the types of the request limit.
LEMMA IpTypeNext ==
  ASSUME TypeOK, [Next]_vars
  PROVE  IpTypeOK'
BY IocpIpStep, IpTypeStep DEF TypeOK

\* A step that leaves the hands as they are, or lets a thread finish.
LEMMA HandsKept ==
  ASSUME OneHand, recvs' = recvs, port' = port, Busy' \subseteq Busy, serving' = serving,
         \A k \in Clients : peer[k] = "accepted" => peer'[k] = "accepted", Types
  PROVE  OneHand'
<1>1. /\ \A r \in recvs : r[1] \in Clients
      /\ \A e \in port : e[1] \in Clients
      /\ \A w \in Busy : serving[w] \in Clients
  BY DEF Types, TypeOK, BusyHas
<1> QED
  BY <1>1 DEF OneHand

-----------------------------------------------------------------------------
\* A client connects, or the clock ticks: the server has nothing to do with it.
LEMMA OutsideInv ==
  ASSUME IocpInv, IpTypeOK', UNCHANGED <<aborts, handle, live, Socket, recvs, port,
                                         workerVars, answered, twice, crashed>>,
         peer' \in [Clients -> {"new", "waiting", "accepted"}],
         \A k \in Clients : peer[k] = "accepted" => peer'[k] = "accepted"
  PROVE  IocpInv'
<1> USE DEF IocpInv, Types, workerVars
<1>1. Busy' = Busy
  BY DEF Busy
<1>2. TypeOK'
  BY DEF TypeOK
<1>3. BusyHas'
  BY <1>1 DEF BusyHas
<1>4. OneHand'
  BY <1>1, HandsKept
<1>5. OwnObject'
  BY <1>1 DEF OwnObject, SocketOpen
<1> QED
  BY <1>2, <1>3, <1>4, <1>5

\* A connection is accepted: client, handle and address are new.
LEMMA AcceptInv ==
  ASSUME IocpInv, IpTypeOK', Accept
  PROVE  IocpInv'
<1> USE DEF IocpInv, Types
<1>0. PICK k \in Clients, h \in Handles, a \in Addrs \ live :
       /\ peer[k] = "waiting"
       /\ handle[h] = None
       /\ peer' = [peer EXCEPT ![k] = "accepted"]
       /\ handle' = [handle EXCEPT ![h] = k]
       /\ live' = live \cup {a}
       /\ Socket' = [Socket EXCEPT ![a] = h]
       /\ recvs' = recvs \cup {<<k, a>>}
  BY DEF Accept, StoredSocket
<1>1. UNCHANGED <<aborts, port, pc, conn, serving, todo, answered, twice, crashed>>
  BY DEF Accept, workerVars
<1>2. Busy' = Busy
  BY <1>1 DEF Busy
<1>3. /\ \A b \in Addrs : Socket'[b] = IF b = a THEN h ELSE Socket[b]
      /\ \A g \in Handles : handle'[g] = IF g = h THEN k ELSE handle[g]
      /\ \A c \in Clients : peer'[c] = IF c = k THEN "accepted" ELSE peer[c]
  BY <1>0 DEF TypeOK
<1>4. /\ \A r \in recvs : r[1] \in Clients /\ r[2] \in Addrs
      /\ \A e \in port : e[1] \in Clients /\ e[2] \in Addrs
      /\ \A w \in Busy : serving[w] \in Clients /\ conn[w] \in Addrs
      /\ <<k, a>>[1] = k /\ <<k, a>>[2] = a /\ None \notin Clients
  BY IocpAssumption DEF TypeOK, BusyHas
<1>5. TypeOK'
  BY <1>0, <1>1, <1>3 DEF TypeOK
<1>6. BusyHas'
  BY <1>0, <1>1, <1>2, <1>3, <1>4 DEF BusyHas
<1>7. OneHand'
  <2>1. /\ \A r \in recvs : r[1] # k
        /\ \A e \in port : e[1] # k
        /\ \A w \in Busy : serving[w] # k
    BY <1>0 DEF OneHand
  <2> QED
    BY <1>0, <1>1, <1>2, <1>3, <1>4, <2>1 DEF OneHand
<1>8. OwnObject'
  <2> SUFFICES ASSUME ~twice
               PROVE  OwnObject'
    BY <1>1 DEF OwnObject
  <2>1. \A b \in live : b # a /\ b \in Addrs
    BY <1>0 DEF TypeOK
  <2>2. ASSUME NEW b \in live, NEW c \in Clients, handle[Socket[b]] = c, Socket[b] \in Handles
        PROVE  handle'[Socket'[b]] = c
    BY <1>0, <1>3, <1>4, <2>1, <2>2
  <2>3. handle'[Socket'[a]] = k
    BY <1>0, <1>3
  <2>4. /\ \A r \in recvs : r[2] \in live /\ handle'[Socket'[r[2]]] = r[1]
        /\ \A e \in port : e[2] \in live /\ handle'[Socket'[e[2]]] = e[1]
    BY <1>4, <2>2 DEF OwnObject, BusyHas
  <2>5. \A w \in Busy : /\ conn[w] \in live
                        /\ SocketOpen(w) => handle'[Socket'[conn[w]]] = serving[w]
    BY <1>4, <2>2 DEF OwnObject, BusyHas
  <2>6. \A w \in Workers : SocketOpen(w)' <=> SocketOpen(w)
    BY <1>1 DEF SocketOpen
  <2>7. \A w \in Busy : w \in Workers
    BY DEF Busy
  <2> QED
    BY <1>0, <1>1, <1>2, <1>4, <2>1, <2>3, <2>4, <2>5, <2>6, <2>7 DEF OwnObject
<1> QED
  BY <1>5, <1>6, <1>7, <1>8

\* The system hands the connection on to the port.
LEMMA CompleteInv ==
  ASSUME IocpInv, IpTypeOK', NEW r \in recvs, NEW kind \in {"data", "zero", "aborted"},
         Complete(r, kind)
  PROVE  IocpInv'
<1> USE DEF IocpInv, Types
<1> DEFINE e == <<r[1], r[2], kind>>
<1>1. /\ recvs' = recvs \ {r} /\ port' = port \cup {e}
      /\ aborts' \in 0 .. MaxAborts
      /\ UNCHANGED <<peer, handle, live, Socket, pc, conn, serving, todo,
                     answered, twice, crashed>>
  BY IocpAssumption DEF Complete, Consumed, workerVars, TypeOK
<1>2. Busy' = Busy
  BY <1>1 DEF Busy
<1>3. e \in Clients \X Addrs \X {"data", "zero", "aborted"} /\ e[1] = r[1] /\ e[2] = r[2]
  BY DEF TypeOK
<1> HIDE DEF e
<1>4. TypeOK'
  BY <1>1, <1>3 DEF TypeOK
<1>5. BusyHas'
  BY <1>1, <1>2, <1>3 DEF BusyHas
<1>6. OneHand'
  BY <1>1, <1>2, <1>3 DEF OneHand
<1>7. OwnObject'
  BY <1>1, <1>2, <1>3 DEF OwnObject, SocketOpen
<1> QED
  BY <1>4, <1>5, <1>6, <1>7

\* A thread takes a completion: the connection leaves the port, for the thread
\* or, after an abort, for good.
LEMMA DequeueInv ==
  ASSUME IocpInv, IpTypeOK', NEW w \in Workers, Dequeue(w)
  PROVE  IocpInv'
<1> USE DEF IocpInv, Types
<1>0. PICK e \in port :
       /\ port' = port \ {e}
       /\ \/ /\ e[3] = "aborted"
             /\ pc' = [pc EXCEPT ![w] = "ended"]
             /\ UNCHANGED <<conn, serving, todo, crashed>>
          \/ /\ e[3] # "aborted"
             /\ pc' = [pc EXCEPT ![w] = IF e[3] = "zero" THEN "cleanup" ELSE "middleware"]
             /\ todo' = [todo EXCEPT ![w] = IF e[3] = "zero" THEN closeAndRelease ELSE <<>>]
             /\ conn' = [conn EXCEPT ![w] = e[2]]
             /\ serving' = [serving EXCEPT ![w] = e[1]]
             /\ crashed' \in {FALSE, e[3] = "data"}
  BY DEF Dequeue
<1>1. /\ UNCHANGED <<peer, aborts, handle, live, Socket, recvs, answered, twice>>
      /\ pc[w] = "idle" /\ w \notin Busy
      /\ e[1] \in Clients /\ e[2] \in Addrs /\ Socket[e[2]] \in Handles
      /\ pc \in [Workers -> Places]
      /\ conn \in [Workers -> Addrs \cup {None}]
      /\ serving \in [Workers -> Clients \cup {None}]
      /\ todo \in [Workers -> Seq(Calls)]
  BY DEF Dequeue, TypeOK, Busy, BusyHas
<1>2. CASE e[3] = "aborted"
  <2>1. Busy' = Busy
    BY <1>0, <1>1, <1>2 DEF Busy
  <2>2. TypeOK'
    <3>1. pc' \in [Workers -> Places]
      BY <1>0, <1>1, <1>2 DEF Places
    <3> QED
      BY <1>0, <1>1, <1>2, <3>1 DEF TypeOK
  <2>3. BusyHas'
    BY <1>0, <1>1, <1>2, <2>1 DEF BusyHas
  <2>4. OneHand'
    BY <1>0, <1>1, <1>2, <2>1 DEF OneHand
  <2>5. \A v \in Busy : v # w /\ pc'[v] = pc[v] /\ todo' = todo
    BY <1>0, <1>1, <1>2 DEF Busy
  <2>6. OwnObject'
    BY <1>0, <1>1, <1>2, <2>1, <2>5 DEF OwnObject, SocketOpen
  <2> QED
    BY <2>2, <2>3, <2>4, <2>6
<1>3. CASE e[3] # "aborted"
  <2>1. Busy' = Busy \cup {w}
    BY <1>0, <1>1, <1>3 DEF Busy
  <2>2. /\ conn'[w] = e[2] /\ serving'[w] = e[1]
        /\ todo'[w] = IF pc'[w] = "cleanup" THEN closeAndRelease ELSE <<>>
        /\ \A v \in Workers : v # w =>
             /\ conn'[v] = conn[v] /\ serving'[v] = serving[v]
             /\ todo'[v] = todo[v] /\ pc'[v] = pc[v]
    BY <1>0, <1>1, <1>3
  <2>3. TypeOK'
    <3>1. todo' \in [Workers -> Seq(Calls)]
      BY <1>0, <1>1, <1>3, TodoFacts
    <3>2. /\ pc' \in [Workers -> Places]
          /\ conn' \in [Workers -> Addrs \cup {None}]
          /\ serving' \in [Workers -> Clients \cup {None}]
          /\ crashed' \in BOOLEAN
      BY <1>0, <1>1, <1>3 DEF Places
    <3> QED
      BY <1>0, <1>1, <3>1, <3>2 DEF TypeOK
  <2>4. BusyHas'
    <3>1. \A v \in Busy : v \in Workers /\ v # w
      BY <1>1 DEF Busy
    <3>2. \A v \in Workers : pc'[v] = "cleanup" <=> todo'[v] # <<>>
      BY <2>2, TodoFacts DEF BusyHas
    <3> QED
      BY <1>0, <1>1, <2>1, <2>2, <3>1, <3>2 DEF BusyHas
  <2>5. \A v \in Busy : v \in Workers /\ v # w
    BY <1>1 DEF Busy
  <2>6. OneHand'
    BY <1>0, <1>1, <2>1, <2>2, <2>5 DEF OneHand
  <2>7. OwnObject'
    <3> SUFFICES ASSUME ~twice
                 PROVE  OwnObject'
      BY <1>1 DEF OwnObject
    <3>1. \A v \in Busy : SocketOpen(v)' <=> SocketOpen(v)
      BY <2>2, <2>5 DEF SocketOpen
    <3>2. SocketOpen(w)'
      BY <2>2 DEF SocketOpen, closeAndRelease
    <3>3. e[2] \in live /\ handle[Socket[e[2]]] = e[1]
      BY DEF OwnObject
    <3>4. \A r \in recvs : r[2] # e[2]
      BY <3>3 DEF OwnObject, OneHand
    <3>5. \A d \in port' : d[2] # e[2]
      BY <1>0, <3>3 DEF OwnObject, OneHand
    <3>6. \A v \in Busy' : /\ conn'[v] \in live'
                           /\ SocketOpen(v)' => handle'[Socket'[conn'[v]]] = serving'[v]
                           /\ pc'[v] = "cleanup" => todo'[v] \in OwnTodo
      <4>1. closeAndRelease \in OwnTodo
        BY DEF closeAndRelease, OwnTodo
      <4> QED
        BY <1>1, <2>1, <2>2, <2>5, <3>1, <3>2, <3>3, <4>1 DEF OwnObject
    <3> QED
      BY <1>0, <1>1, <2>1, <2>2, <2>5, <3>3, <3>4, <3>5, <3>6 DEF OwnObject
  <2> QED
    BY <2>3, <2>4, <2>6, <2>7
<1> QED
  BY <1>2, <1>3

\* A thread has something left to do with its own connection, or goes on
\* without: what it holds stays its own, and it is busy as before.
LEMMA MovesInv ==
  ASSUME IocpInv, IpTypeOK', NEW w \in Busy, pc[w] # "cleanup",
         NEW s \in Places \ {"idle", "ended"}, pc' = [pc EXCEPT ![w] = s],
         NEW calls \in Seq(Calls), todo' = [todo EXCEPT ![w] = calls],
         s = "cleanup" <=> calls # <<>>,
         s = "cleanup" /\ ~twice' => calls \in {closeAndFree, <<"close">>},
         twice' \in BOOLEAN, twice => twice', crashed' \in BOOLEAN,
         answered' \in SUBSET Clients,
         UNCHANGED <<peer, aborts, handle, live, Socket, recvs, port, conn, serving>>
  PROVE  IocpInv'
<1> USE DEF IocpInv, Types
<1>1. w \in Workers /\ pc \in [Workers -> Places] /\ todo \in [Workers -> Seq(Calls)]
  BY DEF TypeOK, Busy
<1>2. /\ Busy' = Busy
      /\ pc'[w] = s /\ todo'[w] = calls
      /\ \A v \in Workers : v # w => pc'[v] = pc[v] /\ todo'[v] = todo[v]
  BY <1>1 DEF Busy
<1>3. TypeOK'
  <2>1. pc' \in [Workers -> Places] /\ todo' \in [Workers -> Seq(Calls)]
    BY <1>1
  <2> QED
    BY <2>1 DEF TypeOK
<1>4. BusyHas'
  BY <1>2 DEF BusyHas
<1>5. OneHand'
  BY <1>2, HandsKept
<1>6. OwnObject'
  <2> SUFFICES ASSUME ~twice'
               PROVE  OwnObject'
    BY DEF OwnObject
  <2>1. ~twice
    OBVIOUS
  <2>2. s = "cleanup" => Head(calls) = "close" /\ calls \in OwnTodo
    BY DEF closeAndFree, OwnTodo
  <2>3. SocketOpen(w) /\ SocketOpen(w)'
    BY <1>2, <2>2 DEF SocketOpen
  <2>4. \A v \in Busy : v # w => todo'[v] = todo[v] /\ (SocketOpen(v)' <=> SocketOpen(v))
    BY <1>2 DEF SocketOpen, Busy
  <2>5. \A v \in Busy : pc'[v] = "cleanup" => todo'[v] \in OwnTodo
    BY <1>2, <2>1, <2>2 DEF OwnObject, Busy
  <2>6. \A v \in Busy : SocketOpen(v)' => handle[Socket[conn[v]]] = serving[v]
    BY <2>1, <2>3, <2>4 DEF OwnObject
  <2> QED
    BY <1>2, <2>1, <2>5, <2>6 DEF OwnObject
<1> QED
  BY <1>3, <1>4, <1>5, <1>6

\* A thread that has nothing left to do yet goes on.
LEMMA MovesOnInv ==
  ASSUME IocpInv, IpTypeOK', NEW w \in Busy, pc[w] # "cleanup",
         NEW s \in Places \ {"idle", "ended", "cleanup"}, pc' = [pc EXCEPT ![w] = s],
         answered' \in SUBSET Clients,
         UNCHANGED <<peer, aborts, handle, live, Socket, recvs, port, conn,
                     serving, todo, twice, crashed>>
  PROVE  IocpInv'
<1>1. /\ todo[w] = <<>> /\ todo \in [Workers -> Seq(Calls)] /\ w \in Workers
      /\ twice \in BOOLEAN /\ crashed \in BOOLEAN
  BY DEF IocpInv, Types, TypeOK, BusyHas, Busy
<1>2. todo' = [todo EXCEPT ![w] = <<>>] /\ <<>> \in Seq(Calls)
  BY <1>1, TodoFacts
<1> QED
  BY <1>1, <1>2, MovesInv

\* An answer is sent to whoever is behind the handle.
LEMMA SendFacts ==
  ASSUME IocpInv, NEW w \in Busy, SendEnds(w)
  PROVE  answered' \in SUBSET Clients
<1>1. handle[Socket[conn[w]]] \in Clients \cup {None} /\ answered \in SUBSET Clients
  BY DEF IocpInv, Types, TypeOK, BusyHas
<1> QED
  BY <1>1 DEF SendEnds

\* The ways a thread answers.
LEMMA AnswerInv ==
  ASSUME IocpInv, IpTypeOK', NEW w \in Workers,
         res_handle(w) \/ res_file_handle(w) \/ upto_ws_prot(w) \/ WsEnd(w)
  PROVE  IocpInv'
<1>1. twice \in BOOLEAN /\ crashed \in BOOLEAN /\ answered \in SUBSET Clients
  BY DEF IocpInv, Types, TypeOK
<1>2. w \in Busy /\ pc[w] # "cleanup"
  BY DEF res_handle, res_file_handle, upto_ws_prot, WsEnd, Busy
<1>3. "cleanup" \in Places \ {"idle", "ended"} /\ "frames" \in Places \ {"idle", "ended", "cleanup"}
  BY DEF Places
<1>4. CASE res_handle(w)
  <2>1. PICK failed \in BOOLEAN :
          /\ todo' = [todo EXCEPT ![w] = AfterSend(w, failed)]
          /\ twice' = (twice \/ failed \/ pc[w] = "refuse")
    BY <1>4 DEF res_handle
  <2>2. /\ AfterSend(w, failed) \in Seq(Calls) /\ AfterSend(w, failed) # <<>>
        /\ ~twice' => AfterSend(w, failed) = closeAndFree
    BY <2>1, AfterSendFacts
  <2>3. /\ pc' = [pc EXCEPT ![w] = "cleanup"] /\ SendEnds(w)
        /\ UNCHANGED <<peer, aborts, handle, live, Socket, recvs, port, conn, serving, crashed>>
    BY <1>4 DEF res_handle
  <2>4. twice' \in BOOLEAN /\ (twice => twice')
    BY <1>1, <2>1, Zenon
  <2> HIDE DEF AfterSend
  <2> QED
    BY <1>1, <1>2, <1>3, <2>1, <2>2, <2>3, <2>4, SendFacts, MovesInv
<1>5. CASE res_file_handle(w)
  <2>1. /\ pc' = [pc EXCEPT ![w] = "cleanup"] /\ SendEnds(w)
        /\ todo' = [todo EXCEPT ![w] = <<"close">>]
        /\ UNCHANGED <<peer, aborts, handle, live, Socket, recvs, port, conn, serving, twice, crashed>>
    BY <1>5 DEF res_file_handle
  <2> QED
    BY <1>1, <1>2, <1>3, <2>1, TodoFacts, SendFacts, MovesInv
<1>6. CASE upto_ws_prot(w)
  <2>1. /\ pc' = [pc EXCEPT ![w] = "frames"] /\ SendEnds(w)
        /\ UNCHANGED <<peer, aborts, handle, live, Socket, recvs, port, conn,
                       serving, todo, twice, crashed>>
    BY <1>6 DEF upto_ws_prot
  <2> QED
    BY <1>2, <1>3, <2>1, SendFacts, MovesOnInv
<1>7. CASE WsEnd(w)
  <2>1. /\ pc' = [pc EXCEPT ![w] = "cleanup"]
        /\ todo' = [todo EXCEPT ![w] = <<"close">>] /\ crashed' \in BOOLEAN
        /\ UNCHANGED <<peer, aborts, handle, live, Socket, recvs, port, conn, serving,
                       answered, twice>>
    BY <1>7 DEF WsEnd
  <2> QED
    BY <1>1, <1>2, <1>3, <2>1, TodoFacts, MovesInv
<1> QED
  BY <1>4, <1>5, <1>6, <1>7

-----------------------------------------------------------------------------
\* Closing comes first, freeing last, of what a thread does with its own.
LEMMA OwnTodoFacts ==
  /\ \A s \in OwnTodo : Head(s) = "close" => Tail(s) \in {<<>>, <<"free">>, <<"release">>}
  /\ \A s \in OwnTodo : Head(s) \in {"free", "release"} => Tail(s) = <<>>
  /\ \A s \in {<<"free">>, <<"release">>} : Head(s) # "close" /\ s \in OwnTodo /\ s # <<>>
<1>1. /\ Tail(<<"close", "free">>) = <<"free">>
      /\ Tail(<<"close", "release">>) = <<"release">>
      /\ Tail(<<"close">>) = <<>> /\ Tail(<<"free">>) = <<>> /\ Tail(<<"release">>) = <<>>
  OBVIOUS
<1>2. /\ Head(<<"close", "free">>) = "close" /\ Head(<<"close", "release">>) = "close"
      /\ Head(<<"close">>) = "close" /\ Head(<<"free">>) = "free"
      /\ Head(<<"release">>) = "release" /\ <<"free">> # <<>> /\ <<"release">> # <<>>
  OBVIOUS
<1> QED
  BY <1>1, <1>2, Zenon DEF OwnTodo

\* One call of the cleanup is done: the thread leaves with the last of them.
LEMMA CleanupStep ==
  ASSUME Types, NEW w \in Workers, pc[w] = "cleanup", CleanupDone(w)
  PROVE  /\ w \in Busy /\ Busy' \subseteq Busy
         /\ todo' \in [Workers -> Seq(Calls)]
         /\ pc' \in [Workers -> Places]
         /\ \A v \in Workers : pc'[v] = "cleanup" <=> todo'[v] # <<>>
         /\ \A v \in Workers \ {w} : todo'[v] = todo[v] /\ pc'[v] = pc[v]
         /\ todo'[w] = Tail(todo[w])
         /\ todo'[w] = <<>> => w \notin Busy'
<1> USE DEF Types
<1>1. /\ todo[w] \in Seq(Calls) /\ todo[w] # <<>>
      /\ pc \in [Workers -> Places] /\ todo \in [Workers -> Seq(Calls)]
  BY DEF TypeOK, BusyHas, Places
<1>2. Tail(todo[w]) \in Seq(Calls) /\ Len(Tail(todo[w])) = Len(todo[w]) - 1
  BY <1>1, HeadTailProperties
<1>3. Tail(todo[w]) = <<>> <=> Len(todo[w]) = 1
  <2>1. Len(todo[w]) \in Nat
    BY <1>1
  <2>2. Len(Tail(todo[w])) = 0 <=> Tail(todo[w]) = <<>>
    BY <1>2, EmptySeq
  <2> QED
    BY <1>2, <2>1, <2>2
<1>4. /\ todo' = [todo EXCEPT ![w] = Tail(todo[w])]
      /\ pc' = [pc EXCEPT ![w] = IF Len(todo[w]) = 1 THEN "idle" ELSE "cleanup"]
  BY DEF CleanupDone
<1>5. \A v \in Workers : pc'[v] = "cleanup" <=> todo'[v] # <<>>
  BY <1>1, <1>3, <1>4 DEF BusyHas
<1>6. w \in Busy /\ Busy' \subseteq Busy
  BY <1>1, <1>4 DEF Busy
<1>7. todo'[w] = <<>> => w \notin Busy'
  BY <1>1, <1>3, <1>4 DEF Busy
<1> QED
  BY <1>1, <1>2, <1>4, <1>5, <1>6, <1>7 DEF Places

\* A socket is closed: until something is closed twice, the thread's own, on
\* which nothing is outstanding.
LEMMA CloseInv ==
  ASSUME IocpInv, IpTypeOK', NEW w \in Workers, connection_close(w)
  PROVE  IocpInv'
<1> USE DEF IocpInv, Types
<1> DEFINE h == Socket[conn[w]]
           cancelled == {r \in recvs : r[1] = handle[h]}
           gone == {<<r[1], r[2], "aborted">> : r \in cancelled}
<1>1. /\ pc[w] = "cleanup" /\ Head(todo[w]) = "close" /\ CleanupDone(w)
      /\ handle' = [handle EXCEPT ![h] = None]
      /\ recvs' = recvs \ cancelled /\ port' = port \cup gone
      /\ UNCHANGED <<peer, aborts, live, Socket, conn, serving, answered, twice, crashed>>
  BY DEF connection_close
<1>2. /\ w \in Busy /\ Busy' \subseteq Busy
      /\ todo' \in [Workers -> Seq(Calls)]
      /\ pc' \in [Workers -> Places]
      /\ \A v \in Workers : pc'[v] = "cleanup" <=> todo'[v] # <<>>
      /\ \A v \in Workers \ {w} : todo'[v] = todo[v] /\ pc'[v] = pc[v]
      /\ todo'[w] = Tail(todo[w])
      /\ todo'[w] = <<>> => w \notin Busy'
  BY <1>1, CleanupStep
<1>3. h \in Handles
  BY <1>2 DEF BusyHas
<1>4. \A g \in gone : \E r \in recvs : g = <<r[1], r[2], "aborted">> /\ r \notin recvs'
  BY <1>1
<1>5. \A g \in gone : \E r \in recvs : g[1] = r[1] /\ g[2] = r[2] /\ r \notin recvs'
                                       /\ g[3] = "aborted"
  BY <1>4
<1>6. recvs' \subseteq recvs
  BY <1>1
<1>7. gone \subseteq Clients \X Addrs \X {"data", "zero", "aborted"}
  <2>1. \A r \in recvs : <<r[1], r[2], "aborted">> \in Clients \X Addrs \X {"data", "zero", "aborted"}
    BY DEF TypeOK
  <2> QED
    BY <1>4, <2>1
<1> HIDE DEF gone, cancelled, h
<1>8. TypeOK'
  BY <1>1, <1>2, <1>3, <1>6, <1>7 DEF TypeOK, Places
<1>9. BusyHas'
  BY <1>1, <1>2, <1>5, <1>6, ZenonT(40) DEF BusyHas
<1>10. OneHand'
  <2>1. \A d, g \in gone : d[1] = g[1] => d = g
    BY <1>4 DEF OneHand
  <2>2. \A g \in gone : /\ \A e \in port : g[1] # e[1]
                        /\ \A r \in recvs' : g[1] # r[1]
                        /\ \A v \in Busy : g[1] # serving[v]
                        /\ peer[g[1]] = "accepted"
    BY <1>5, <1>6 DEF OneHand
  <2>3. \A d, e \in port' : d[1] = e[1] => d = e
    BY <1>1, <2>1, <2>2 DEF OneHand
  <2> QED
    BY <1>1, <1>2, <1>6, <2>2, <2>3 DEF OneHand
<1>11. OwnObject'
  <2> SUFFICES ASSUME ~twice
               PROVE  OwnObject'
    BY <1>1 DEF OwnObject
  <2>1. todo[w] \in OwnTodo /\ handle[h] = serving[w]
    BY <1>1, <1>2 DEF OwnObject, SocketOpen, h
  <2>2. recvs' = recvs /\ port' = port
    <3>1. cancelled = {}
      BY <1>2, <2>1 DEF cancelled, OneHand
    <3> QED
      BY <1>1, <3>1 DEF gone
  <2>3. todo'[w] \in {<<>>, <<"free">>, <<"release">>}
    BY <1>1, <1>2, <2>1, OwnTodoFacts
  <2>4. \A g \in Handles : g # h => handle'[g] = handle[g]
    BY <1>1 DEF TypeOK
  <2>5. /\ \A r \in recvs : handle'[Socket[r[2]]] = r[1]
        /\ \A e \in port : handle'[Socket[e[2]]] = e[1]
    <3>1. /\ \A r \in recvs : Socket[r[2]] \in Handles /\ handle[Socket[r[2]]] # handle[h]
          /\ \A e \in port : Socket[e[2]] \in Handles /\ handle[Socket[e[2]]] # handle[h]
      BY <1>2, <2>1 DEF OwnObject, OneHand, BusyHas
    <3>2. /\ \A r \in recvs : handle[Socket[r[2]]] = r[1]
          /\ \A e \in port : handle[Socket[e[2]]] = e[1]
      BY DEF OwnObject
    <3> QED
      BY <2>4, <3>1, <3>2
  <2>6. \A v \in Busy' : v # w => /\ v \in Busy /\ (SocketOpen(v)' <=> SocketOpen(v))
                                  /\ todo'[v] = todo[v]
    BY <1>2 DEF SocketOpen, Busy
  <2>7. \A v \in Busy' : v # w /\ SocketOpen(v) => handle'[Socket[conn[v]]] = serving[v]
    BY <1>2, <2>1, <2>4, <2>6 DEF OwnObject, OneHand, BusyHas
  <2>8. w \in Busy' => ~SocketOpen(w)' /\ todo'[w] \in OwnTodo
    <3>1. todo'[w] # <<>> => pc'[w] = "cleanup" /\ Head(todo'[w]) # "close" /\ todo'[w] \in OwnTodo
      BY <1>2, <2>3, OwnTodoFacts
    <3> QED
      BY <1>2, <3>1 DEF SocketOpen
  <2>9. /\ \A r \in recvs' : r[2] \in live' /\ handle'[Socket'[r[2]]] = r[1]
        /\ \A e \in port' : e[2] \in live' /\ handle'[Socket'[e[2]]] = e[1]
    BY <1>1, <2>2, <2>5 DEF OwnObject
  <2>10. \A v \in Busy' : /\ conn'[v] \in live'
                          /\ SocketOpen(v)' => handle'[Socket'[conn'[v]]] = serving'[v]
                          /\ pc'[v] = "cleanup" => todo'[v] \in OwnTodo
    <3> SUFFICES ASSUME NEW v \in Busy'
                 PROVE  /\ conn[v] \in live
                        /\ SocketOpen(v)' => handle'[Socket[conn[v]]] = serving[v]
                        /\ pc'[v] = "cleanup" => todo'[v] \in OwnTodo
      BY <1>1
    <3>1. CASE v = w
      BY <1>2, <2>8, <3>1 DEF OwnObject
    <3>2. CASE v # w
      <4>1. pc'[v] = pc[v]
        BY <1>2, <3>2 DEF Busy
      <4> QED
        BY <2>6, <2>7, <3>2, <4>1 DEF OwnObject
    <3> QED
      BY <3>1, <3>2
  <2> QED
    BY <1>1, <1>2, <2>2, <2>9, <2>10 DEF OwnObject
<1> QED
  BY <1>8, <1>9, <1>10, <1>11

\* An object is freed: until something is freed twice, it is the thread's own
\* and the last thing it has to do with it.
LEMMA FreeInv ==
  ASSUME IocpInv, IpTypeOK', NEW w \in Workers, connection_free(w)
  PROVE  IocpInv'
<1> USE DEF IocpInv, Types
<1>1. /\ pc[w] = "cleanup" /\ Head(todo[w]) \in {"free", "release"} /\ CleanupDone(w)
      /\ live' = live \ {conn[w]} /\ crashed' \in BOOLEAN
      /\ UNCHANGED <<peer, aborts, handle, Socket, recvs, port, conn, serving, answered, twice>>
  BY DEF connection_free
<1>2. /\ w \in Busy /\ Busy' \subseteq Busy
      /\ todo' \in [Workers -> Seq(Calls)]
      /\ pc' \in [Workers -> Places]
      /\ \A v \in Workers : pc'[v] = "cleanup" <=> todo'[v] # <<>>
      /\ \A v \in Workers \ {w} : todo'[v] = todo[v] /\ pc'[v] = pc[v]
      /\ todo'[w] = Tail(todo[w])
      /\ todo'[w] = <<>> => w \notin Busy'
  BY <1>1, CleanupStep
<1>3. TypeOK'
  BY <1>1, <1>2 DEF TypeOK, Places
<1>4. BusyHas'
  BY <1>1, <1>2 DEF BusyHas
<1>5. OneHand'
  BY <1>1, <1>2, HandsKept
<1>6. OwnObject'
  <2> SUFFICES ASSUME ~twice
               PROVE  OwnObject'
    BY <1>1 DEF OwnObject
  <2>1. todo[w] \in OwnTodo
    BY <1>1, <1>2 DEF OwnObject
  <2>2. w \notin Busy'
    BY <1>1, <1>2, <2>1, OwnTodoFacts
  <2>3. \A v \in Busy' : /\ v \in Busy /\ v # w /\ (SocketOpen(v)' <=> SocketOpen(v))
                         /\ todo'[v] = todo[v] /\ pc'[v] = pc[v]
    BY <1>2, <2>2 DEF SocketOpen, Busy
  <2> QED
    BY <1>1, <1>2, <2>3 DEF OwnObject
<1> QED
  BY <1>3, <1>4, <1>5, <1>6

\* Every step keeps the invariant.
LEMMA IocpStepInv == IocpInv /\ [Next]_vars => IocpInv'
<1> SUFFICES ASSUME IocpInv, [Next]_vars
             PROVE  IocpInv'
  OBVIOUS
<1>0. IpTypeOK'
  BY IpTypeNext DEF IocpInv, Types
<1>1. CASE Clock
  BY <1>0, <1>1, OutsideInv DEF Clock, iocpVars, workerVars, IocpInv, Types, TypeOK
<1>2. ASSUME NEW k \in Clients, Connect(k)
      PROVE  IocpInv'
  <2>1. /\ peer' \in [Clients -> {"new", "waiting", "accepted"}]
        /\ \A c \in Clients : peer[c] = "accepted" => peer'[c] = "accepted"
    BY <1>2 DEF Connect, IocpInv, Types, TypeOK
  <2> QED
    BY <1>0, <1>2, <2>1, OutsideInv DEF Connect
<1>3. CASE Accept
  BY <1>0, <1>3, AcceptInv
<1>4. ASSUME NEW r \in recvs, NEW kind \in {"data", "zero", "aborted"}, Complete(r, kind)
      PROVE  IocpInv'
  BY <1>0, <1>4, CompleteInv
<1>5. ASSUME NEW w \in Workers, WorkerStep(w)
      PROVE  IocpInv'
  <2>1. CASE Dequeue(w)
    BY <1>0, <2>1, DequeueInv
  <2>2. CASE middleware_check_if_too_often(w) \/ middleware_handle(w) \/ router_handle(w)
    <3>1. /\ pc[w] \in {"middleware", "check", "log"}
          /\ \E s \in {"check", "log", "refuse"} \cup Routes : pc' = [pc EXCEPT ![w] = s]
          /\ UNCHANGED <<peer, aborts, handle, live, Socket, recvs, port, conn,
                         serving, todo, answered, twice, crashed>>
      BY <2>2 DEF middleware_check_if_too_often, middleware_handle, router_handle
    <3>2. PICK s \in {"check", "log", "refuse"} \cup Routes : pc' = [pc EXCEPT ![w] = s]
      BY <3>1
    <3>3. s \in Places \ {"idle", "ended", "cleanup"}
      BY IocpAssumption DEF Places, AllRoutes
    <3>4. w \in Busy /\ pc[w] # "cleanup" /\ answered' \in SUBSET Clients
      BY <3>1 DEF Busy, IocpInv, Types, TypeOK
    <3> QED
      BY <1>0, <3>1, <3>2, <3>3, <3>4, MovesOnInv
  <2>3. CASE res_handle(w) \/ res_file_handle(w) \/ upto_ws_prot(w) \/ WsEnd(w)
    BY <1>0, <2>3, AnswerInv
  <2>4. CASE connection_close(w)
    BY <1>0, <2>4, CloseInv
  <2>5. CASE connection_free(w)
    BY <1>0, <2>5, FreeInv
  <2> QED
    BY <1>5, <2>1, <2>2, <2>3, <2>4, <2>5 DEF WorkerStep
<1>6. CASE UNCHANGED vars
  BY <1>0, <1>6, OutsideInv DEF vars, iocpVars, workerVars, IocpInv, Types, TypeOK
<1> QED
  BY <1>1, <1>2, <1>3, <1>4, <1>5, <1>6 DEF Next

\* The inductive invariant holds in every reachable state.
LEMMA IocpInvariant == Spec => []IocpInv
<1>1. Init => IocpInv
  BY IocpInitInv
<1>2. IocpInv /\ [Next]_vars => IocpInv'
  BY IocpStepInv
<1> QED
  BY <1>1, <1>2, PTL DEF Spec

\* Until a thread closes and frees a connection twice, no matter how many
\* threads take completions and how soon handles and addresses are reused: an
\* object is in one thread's hands, allocated, and its socket its client's own.
THEOREM IocpOneHandler == Spec => []OneHandler
<1>1. IocpInv => OneHandler
  BY DEF IocpInv, OwnObject, OneHandler, SocketOpen
<1> QED
  BY <1>1, IocpInvariant, PTL

\* A set whose members are all the same has one at most.
LEMMA AtMostOne ==
  ASSUME NEW S, \A x, y \in S : x = y
  PROVE  /\ Cardinality(S) \in {0, 1}
         /\ Cardinality(S) = 1 => S # {}
<1>1. CASE S = {}
  BY <1>1, FS_EmptySet
<1>2. CASE S # {}
  <2>1. PICK x \in S : S = {x}
    BY <1>2
  <2> QED
    BY <2>1, FS_Singleton
<1> QED
  BY <1>1, <1>2

\* Whatever fails: a connection's WSARecv, its completion and the thread that
\* took it are never there at the same time, nor twice.
THEOREM IocpOneCompletion == Spec => []OneCompletion
<1>1. ASSUME IocpInv
      PROVE  OneCompletion
  <2> SUFFICES ASSUME NEW k \in Clients
               PROVE  Cardinality({r \in recvs : r[1] = k}) + Cardinality({e \in port : e[1] = k})
                        + Cardinality({w \in Busy : serving[w] = k}) <= 1
    BY <1>1 DEF OneCompletion, IocpInv, Types
  <2> DEFINE R == {r \in recvs : r[1] = k}
             E == {e \in port : e[1] = k}
             W == {w \in Busy : serving[w] = k}
  <2>1. /\ \A x, y \in R : x = y
        /\ \A x, y \in E : x = y
        /\ \A x, y \in W : x = y
    BY <1>1 DEF IocpInv, OneHand
  <2>2. (R = {} \/ E = {}) /\ (R = {} \/ W = {}) /\ (E = {} \/ W = {})
    BY <1>1 DEF IocpInv, OneHand
  <2> HIDE DEF R, E, W
  <2>3. /\ Cardinality(R) \in {0, 1} /\ (Cardinality(R) = 1 => R # {})
        /\ Cardinality(E) \in {0, 1} /\ (Cardinality(E) = 1 => E # {})
        /\ Cardinality(W) \in {0, 1} /\ (Cardinality(W) = 1 => W # {})
    BY <2>1, AtMostOne
  <2>4. Cardinality(R) + Cardinality(E) + Cardinality(W) <= 1
    BY <2>2, <2>3
  <2> QED
    BY <2>4 DEF R, E, W
<1> QED
  BY <1>1, IocpInvariant, PTL
=============================================================================

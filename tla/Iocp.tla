-------------------------------- MODULE Iocp --------------------------------
(***************************************************************************)
(* The Windows server: iocp_container_make accepts connections and posts   *)
(* one WSARecv for each; the threads of iocp_handle (Src/container.c) take *)
(* completions from the port, run the middleware (Src/middleware) and the  *)
(* view, and close and free the connection (Src/connection.c,              *)
(* Src/response.c).                                                        *)
(*                                                                         *)
(* The acceptor reuses socket handles and heap addresses as soon as they   *)
(* are free.  A freed connection_t keeps its contents until its address is *)
(* allocated again, so a thread that still uses a freed connection sees    *)
(* the old contents or another connection's.                               *)
(*                                                                         *)
(* The middleware is the request limit of module IpLimit; its Workers are  *)
(* the threads of iocp_handle, twice the number of processors.  All        *)
(* clients count in one slot.                                              *)
(*                                                                         *)
(* A thread can be held, for ever: in log_info while the buffer of the log *)
(* is full (module Log), in send while the client does not read, and in    *)
(* the loop of a websocket view.  Nothing happens after the process was    *)
(* killed.                                                                 *)
(***************************************************************************)
EXTENDS IpLimit

CONSTANTS
  Clients,
  NumHandles,   \* bound: socket handles in use at a time
  NumAddrs,     \* bound: connection objects in use at a time
  MaxAborts,    \* bound: connections the network or the client aborts
  Routes,       \* how the views of the application answer
  None

Handles == 1 .. NumHandles
Addrs   == 1 .. NumAddrs

\* "respond": what ends in res_handle; "bigfile": res_file_handle; "ws":
\* upto_ws_prot.
AllRoutes == {"respond", "bigfile", "ws"}

ASSUME IocpAssumption ==
  /\ NumHandles \in Nat /\ NumAddrs \in Nat /\ MaxAborts \in Nat
  /\ Routes \subseteq AllRoutes
  /\ None \notin Clients \cup Int

VARIABLES
  peer,       \* peer[k]: "new", "waiting" (to be accepted), "accepted"
  aborts,     \* how many connections were aborted
  handle,     \* handle[h]: the client behind socket handle h
  live,       \* addresses of allocated connection objects
  Socket,     \* Socket[a]: the handle stored at a (kept after free)
  recvs,      \* outstanding WSARecv: <<client, address of its object>>
  port,       \* completions: <<client, address, kind>>
  pc,         \* pc[w]: where worker w is, see Places
  conn,       \* conn[w]: the address worker w works on
  serving,    \* serving[w]: the client whose completion w took
  todo,       \* todo[w]: closes and frees that w has still to do
  answered,   \* history: clients for which a send of the answer has returned
  twice,      \* history: a thread has set out to close and free twice
  crashed     \* the process was killed

iocpVars == <<peer, aborts, handle, live, Socket, recvs, port, pc, conn, serving,
              todo, answered, twice, crashed>>
vars == <<ipVars, iocpVars>>
workerVars == <<pc, conn, serving, todo>>

\* Waiting for a completion; before and after the clock is read; in the send of
\* res_without_permission; in log_info; in a send of one of the answers; in the
\* loop over websocket frames; in the calls of todo; or the thread has returned.
Places == {"idle", "middleware", "check", "refuse", "log", "frames", "cleanup", "ended"}
            \cup AllRoutes

\* connection_close, connection_free, and what iocp_handle does in place of the
\* latter for a client that has left.
Calls == {"close", "free", "release"}

Init ==
  /\ IpInit
  /\ peer = [k \in Clients |-> "new"]
  /\ aborts = 0
  /\ handle = [h \in Handles |-> None]
  /\ live = {}
  /\ Socket = [a \in Addrs |-> None]
  /\ recvs = {}
  /\ port = {}
  /\ pc = [w \in Workers |-> "idle"]
  /\ conn = [w \in Workers |-> None]
  /\ serving = [w \in Workers |-> None]
  /\ todo = [w \in Workers |-> <<>>]
  /\ answered = {}
  /\ twice = FALSE
  /\ crashed = FALSE

-----------------------------------------------------------------------------
\* A client connects.
Connect(k) ==
  /\ peer[k] = "new"
  /\ peer' = [peer EXCEPT ![k] = "waiting"]
  /\ UNCHANGED <<ipVars, aborts, handle, live, Socket, recvs, port, workerVars,
                 answered, twice, crashed>>

\* The handle that iocp_container_make stores in the new object.
StoredSocket(h) == h

\* iocp_container_make: WSAAccept, new_connection, CreateIoCompletionPort,
\* WSARecv.
Accept ==
  /\ \E k \in Clients, h \in Handles, a \in Addrs \ live :
       /\ peer[k] = "waiting"
       /\ handle[h] = None
       /\ peer' = [peer EXCEPT ![k] = "accepted"]
       /\ handle' = [handle EXCEPT ![h] = k]
       /\ live' = live \cup {a}
       /\ Socket' = [Socket EXCEPT ![a] = StoredSocket(h)]
       /\ recvs' = recvs \cup {<<k, a>>}
  /\ UNCHANGED <<ipVars, aborts, port, workerVars, answered, twice, crashed>>

\* Mutant: another WSARecv is posted at once (send_next).
Consumed_Reposted(r) == recvs

\* The outstanding operations once r is complete: none is posted again.
Consumed(r) == recvs \ {r}

\* The system completes a WSARecv: the client has sent its request, has shut
\* down (no bytes), or the connection was aborted.
Complete(r, kind) ==
  /\ r \in recvs
  /\ kind = "aborted" => aborts < MaxAborts
  /\ aborts' = IF kind = "aborted" THEN aborts + 1 ELSE aborts
  /\ recvs' = Consumed(r)
  /\ port' = port \cup {<<r[1], r[2], kind>>}
  /\ UNCHANGED <<ipVars, peer, handle, live, Socket, workerVars, answered, twice, crashed>>

-----------------------------------------------------------------------------
\* Mutant: the pair is executed twice.
closeAndFree_Twice == <<"close", "free", "close", "free">>

\* connection_close(conn); connection_free(conn);
closeAndFree == <<"close", "free">>

\* connection_close(conn_ptr), then the four calls that free the parts.
closeAndRelease == <<"close", "release">>

\* GetQueuedCompletionStatus, up to the middleware.  When it reports an error
\* the thread prints it and ends.  Zero bytes: the client has left, the
\* connection is closed and released.  Otherwise the request is parsed, which
\* may fault (module Request).
Dequeue(w) ==
  /\ pc[w] = "idle"
  /\ \E e \in port :
       /\ port' = port \ {e}
       /\ \/ /\ e[3] = "aborted"
             /\ pc' = [pc EXCEPT ![w] = "ended"]
             /\ UNCHANGED <<conn, serving, todo, crashed>>
          \/ /\ e[3] # "aborted"
             /\ pc' = [pc EXCEPT ![w] = IF e[3] = "zero" THEN "cleanup" ELSE "middleware"]
             /\ todo' = [todo EXCEPT ![w] = IF e[3] = "zero" THEN closeAndRelease ELSE <<>>]
             /\ conn' = [conn EXCEPT ![w] = e[2]]
             /\ serving' = [serving EXCEPT ![w] = e[1]]
             /\ crashed' \in {FALSE, e[3] = "data"}
  /\ UNCHANGED <<ipVars, peer, aborts, handle, live, Socket, recvs, answered, twice>>

\* middleware_handle: ip_check_valid reads the time, ...
middleware_check_if_too_often(w) ==
  /\ pc[w] = "middleware"
  /\ ReadTime(w)
  /\ pc' = [pc EXCEPT ![w] = "check"]
  /\ UNCHANGED <<peer, aborts, handle, live, Socket, recvs, port, conn,
                 serving, todo, answered, twice, crashed>>

\* ... then counts the request, which goes on to log_info or is refused.
middleware_handle(w) ==
  /\ pc[w] = "check"
  /\ \/ (Check(w, "valid") \/ CheckFails(w)) /\ pc' = [pc EXCEPT ![w] = "log"]
     \/ Check(w, "refused") /\ pc' = [pc EXCEPT ![w] = "refuse"]
  /\ UNCHANGED <<peer, aborts, handle, live, Socket, recvs, port, conn,
                 serving, todo, answered, twice, crashed>>

\* Mutant: the view returns without calling the response module.
router_handle_Silent(w) ==
  /\ pc[w] = "log"
  /\ pc' = [pc EXCEPT ![w] = "idle"]
  /\ UNCHANGED <<ipVars, peer, aborts, handle, live, Socket, recvs, port, conn,
                 serving, todo, answered, twice, crashed>>

\* log_info has returned.  router_handle calls the view, or finds a static file
\* or nothing, and the answer is sent in one of the ways of Routes.
router_handle(w) ==
  /\ pc[w] = "log"
  /\ \E r \in Routes : pc' = [pc EXCEPT ![w] = r]
  /\ UNCHANGED <<ipVars, peer, aborts, handle, live, Socket, recvs, port, conn,
                 serving, todo, answered, twice, crashed>>

\* send returns.  It went to the socket that the object names.
SendEnds(w) == answered' = answered \cup ({handle[Socket[conn[w]]]} \ {None})

\* What w does with the connection after the send in res_handle: close and
\* free; once more before that when send has failed; and once more after it, in
\* iocp_handle, when the request was refused.
AfterSend(w, failed) ==
  (IF failed THEN closeAndFree ELSE <<>>) \o closeAndFree
    \o (IF pc[w] = "refuse" THEN closeAndFree ELSE <<>>)

\* The send in res_handle, called by a view or by res_without_permission.
res_handle(w) ==
  /\ pc[w] \in {"respond", "refuse"}
  /\ SendEnds(w)
  /\ \E failed \in BOOLEAN :
       /\ todo' = [todo EXCEPT ![w] = AfterSend(w, failed)]
       /\ twice' = (twice \/ failed \/ pc[w] = "refuse")
  /\ pc' = [pc EXCEPT ![w] = "cleanup"]
  /\ UNCHANGED <<ipVars, peer, aborts, handle, live, Socket, recvs, port, conn,
                 serving, crashed>>

\* res_file_handle: the sends, then the socket is closed.  The object is not
\* freed.
res_file_handle(w) ==
  /\ pc[w] = "bigfile"
  /\ SendEnds(w)
  /\ todo' = [todo EXCEPT ![w] = <<"close">>]
  /\ pc' = [pc EXCEPT ![w] = "cleanup"]
  /\ UNCHANGED <<ipVars, peer, aborts, handle, live, Socket, recvs, port, conn,
                 serving, twice, crashed>>

\* upto_ws_prot up to its loop: the answer and a first frame are sent.
upto_ws_prot(w) ==
  /\ pc[w] = "ws"
  /\ SendEnds(w)
  /\ pc' = [pc EXCEPT ![w] = "frames"]
  /\ UNCHANGED <<ipVars, peer, aborts, handle, live, Socket, recvs, port, conn,
                 serving, todo, twice, crashed>>

\* The end of its loop: nothing is received, or a closing frame, and the socket
\* is closed, or the parser of frames has faulted.  The object is not freed.
WsEnd(w) ==
  /\ pc[w] = "frames"
  /\ todo' = [todo EXCEPT ![w] = <<"close">>]
  /\ pc' = [pc EXCEPT ![w] = "cleanup"]
  /\ crashed' \in BOOLEAN
  /\ UNCHANGED <<ipVars, peer, aborts, handle, live, Socket, recvs, port, conn,
                 serving, answered, twice>>

\* After one of the calls on w's list.
CleanupDone(w) ==
  /\ todo' = [todo EXCEPT ![w] = Tail(@)]
  /\ pc' = [pc EXCEPT ![w] = IF Len(todo[w]) = 1 THEN "idle" ELSE "cleanup"]

\* connection_close: closes the handle that the object names now.  A WSARecv
\* outstanding on it is completed with an error.
connection_close(w) ==
  LET h == Socket[conn[w]]
      cancelled == {r \in recvs : r[1] = handle[h]} IN
  /\ pc[w] = "cleanup"
  /\ Head(todo[w]) = "close"
  /\ handle' = [handle EXCEPT ![h] = None]
  /\ recvs' = recvs \ cancelled
  /\ port' = port \cup {<<r[1], r[2], "aborted">> : r \in cancelled}
  /\ CleanupDone(w)
  /\ UNCHANGED <<ipVars, peer, aborts, live, Socket, conn, serving, answered, twice, crashed>>

\* connection_free: frees whatever is at the address now.  When that is free
\* already the heap's consistency check may kill the process, and so may
\* req_free when the parser has not stored everything ("release" is without).
connection_free(w) ==
  /\ pc[w] = "cleanup"
  /\ Head(todo[w]) \in {"free", "release"}
  /\ live' = live \ {conn[w]}
  /\ crashed' \in {FALSE, conn[w] \notin live \/ Head(todo[w]) = "free"}
  /\ CleanupDone(w)
  /\ UNCHANGED <<ipVars, peer, aborts, handle, Socket, recvs, port, conn, serving, answered, twice>>

WorkerStep(w) ==
  \/ Dequeue(w)
  \/ middleware_check_if_too_often(w)
  \/ middleware_handle(w)
  \/ router_handle(w)
  \/ res_handle(w)
  \/ res_file_handle(w)
  \/ upto_ws_prot(w)
  \/ WsEnd(w)
  \/ connection_close(w)
  \/ connection_free(w)

Clock == Tick /\ UNCHANGED iocpVars

Next ==
  /\ ~crashed
  /\ \/ Clock
     \/ \E k \in Clients : Connect(k)
     \/ Accept
     \/ \E r \in recvs, kind \in {"data", "zero", "aborted"} : Complete(r, kind)
     \/ \E w \in Workers : WorkerStep(w)

Spec == Init /\ [][Next]_vars

\* Thread w is in a call that somebody else must end: log_info, a send to a
\* client that need not read, the recv of a websocket view.
Held(w) == pc[w] \in {"log", "refuse", "frames"} \cup AllRoutes

\* A thread runs while nobody holds it, and the acceptor runs; nothing is
\* assumed about the clients and about the log.
FairSpec ==
  /\ Spec
  /\ WF_vars(~crashed /\ Accept)
  /\ \A w \in Workers : WF_vars(~crashed /\ ~Held(w) /\ WorkerStep(w))

-----------------------------------------------------------------------------
\* Type correctness of the sockets, the objects and the threads.
TypeOK ==
  /\ IpTypeOK
  /\ peer \in [Clients -> {"new", "waiting", "accepted"}]
  /\ aborts \in 0 .. MaxAborts
  /\ handle \in [Handles -> Clients \cup {None}]
  /\ live \in SUBSET Addrs
  /\ Socket \in [Addrs -> Handles \cup {None}]
  /\ \A a \in live : Socket[a] \in Handles
  /\ recvs \in SUBSET (Clients \X Addrs)
  /\ port \in SUBSET (Clients \X Addrs \X {"data", "zero", "aborted"})
  /\ pc \in [Workers -> Places]
  /\ conn \in [Workers -> Addrs \cup {None}]
  /\ serving \in [Workers -> Clients \cup {None}]
  /\ todo \in [Workers -> Seq(Calls)]
  /\ answered \in SUBSET Clients
  /\ {twice, crashed} \subseteq BOOLEAN

\* The threads that have taken a completion and are not through with it.
Busy == {w \in Workers : pc[w] \notin {"idle", "ended"}}

\* Until a thread closes and frees a connection twice (a refused request, a
\* failed send): an object is in the hands of one thread at most, is allocated
\* while a thread will still use it, and a socket that will still be written to
\* is the client's own, although handles and addresses are reused at once.
OneHandler ==
  ~twice =>
    /\ \A w \in Busy : conn[w] \in live
    /\ \A v, w \in Busy : conn[v] = conn[w] => v = w
    /\ \A w \in Busy : pc[w] # "cleanup" => handle[Socket[conn[w]]] = serving[w]

\* response.c:25: the response closes "此次TCP连接" (this TCP connection), not
\* another client's: a handle is closed by a thread that serves its client.
ClosesThisConnection ==
  [][\A h \in Handles :
       handle[h] # None /\ handle'[h] = None =>
         \E w \in Workers : pc[w] = "cleanup" /\ serving[w] = handle[h]]_handle

\* Whatever fails, refusals and failed sends included: a connection's one
\* WSARecv, its one completion and the thread that took it are never there at
\* the same time, nor twice.
OneCompletion ==
  /\ TypeOK
  /\ \A k \in Clients :
       Cardinality({r \in recvs : r[1] = k}) + Cardinality({e \in port : e[1] = k})
         + Cardinality({w \in Busy : serving[w] = k}) <= 1

\* Every aborted connection ends a thread.  As long as fewer were aborted than
\* there are threads, as nobody holds one for ever, and as nothing was closed
\* twice, a request that has arrived is answered, however the threads share the
\* completions and whatever the other connections do.
RequestsAnswered ==
  (\A w \in Workers : []<>~Held(w)) =>
    \A k \in Clients :
      (\E a \in Addrs : <<k, a, "data">> \in port) ~>
        \/ k \in answered
        \/ twice
        \/ crashed
        \/ aborts >= Cardinality(Workers)
=============================================================================

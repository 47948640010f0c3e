------------------------------- MODULE Epoll --------------------------------
(***************************************************************************)
(* The Linux server: the loop of epoll_handle (Src/container.c) with the   *)
(* connection objects of Src/connection.c and the ways a request ends in   *)
(* Src/response.c, Src/router.c and Src/ws.c.                              *)
(*                                                                         *)
(* epoll_container_make starts four threads but joins each before it       *)
(* starts the next, so one thread runs the loop.  The clients (external)   *)
(* run beside it: they connect, send a request, shut down or reset.        *)
(*                                                                         *)
(* A request is abstracted to the client it came from, a view to the way   *)
(* it answers.  A connection_t with its per_handle_data, per_io_data and   *)
(* req is one object at one address.                                       *)
(*                                                                         *)
(* Between recv and the answer the thread can be held, for ever: in        *)
(* log_info while the buffer of the log is full (module Log), in send      *)
(* while the client does not read, and in the loop of a websocket view.    *)
(* Nothing happens after the process was killed.                           *)
(***************************************************************************)
EXTENDS Integers, FiniteSets

CONSTANTS
  Clients,
  NumFds,       \* bound: descriptors the process may have for clients
  NumAddrs,     \* bound: connection objects that fit into memory
  Routes,       \* how the views of the application answer
  None

Fds   == 1 .. NumFds
Addrs == 1 .. NumAddrs

\* "respond": res_row, res_render, res_notfound, res_static of a small file
\* and everything else that ends in res_handle; "bigfile": res_file_handle;
\* "ws": upto_ws_prot.
AllRoutes == {"respond", "bigfile", "ws"}

ASSUME EpollAssumption ==
  /\ NumFds \in Nat /\ NumAddrs \in Nat
  /\ Routes \subseteq AllRoutes
  /\ None \notin Clients \cup Int

VARIABLES
  peer,         \* peer[k]: "new", "open", "left" (FIN) or "reset" (RST)
  backlog,      \* clients connected and not yet accepted
  unread,       \* clients whose request waits in the socket's buffer
  fdtab,        \* fdtab[f]: the client behind descriptor f
  epoll,        \* epoll[f]: the pointer registered for f
  live,         \* addresses of allocated connection objects
  Socket,       \* Socket[a]: the descriptor stored in the object at a
  events,       \* what is left of the last epoll_wait's result
  res_str,      \* whose request the receive buffer holds
  at,           \* where the thread is: see Places
  conn,         \* the object it handles there, or None
  answered,     \* history: <<client answered, client whose request it was>>
  leaked,       \* history: objects to which nothing points any more
  crashed       \* the process was killed

clientVars == <<peer, backlog, unread>>
connVars   == <<fdtab, epoll, live, Socket>>
threadVars == <<events, res_str, at, conn, answered, leaked, crashed>>
vars == <<clientVars, connVars, threadVars>>

\* In the loop over the events, in log_info, in a send of one of the answers,
\* or in the loop over websocket frames.
Places == {"loop", "log", "frames"} \cup AllRoutes

listen == 0     \* the event of the listening socket

Init ==
  /\ peer = [k \in Clients |-> "new"]
  /\ backlog = {}
  /\ unread = {}
  /\ fdtab = [f \in Fds |-> None]
  /\ epoll = [f \in Fds |-> None]
  /\ live = {}
  /\ Socket = [a \in Addrs |-> None]
  /\ events = {}
  /\ res_str = None
  /\ at = "loop"
  /\ conn = None
  /\ answered = {}
  /\ leaked = {}
  /\ crashed = FALSE

-----------------------------------------------------------------------------
\* The clients.
Connect(k) ==
  /\ peer[k] = "new"
  /\ peer' = [peer EXCEPT ![k] = "open"]
  /\ backlog' = backlog \cup {k}
  /\ UNCHANGED <<unread, connVars, threadVars>>

SendRequest(k) ==
  /\ peer[k] = "open"
  /\ k \in backlog \/ \E f \in Fds : fdtab[f] = k
  /\ unread' = unread \cup {k}
  /\ UNCHANGED <<peer, backlog, connVars, threadVars>>

\* close() by the client, or the loss of it, also after its close(): a reset
\* discards what is unread.
Leave(k) ==
  /\ \/ peer[k] = "open" /\ peer' = [peer EXCEPT ![k] = "left"] /\ UNCHANGED unread
     \/ /\ peer[k] \in {"open", "left"}
        /\ peer' = [peer EXCEPT ![k] = "reset"]
        /\ unread' = unread \ {k}
  /\ UNCHANGED <<backlog, connVars, threadVars>>

-----------------------------------------------------------------------------
\* Mutant: only hang-ups are reported, not data.
Readable_OnlyHangup(k) == peer[k] \in {"left", "reset"}

\* recv on the socket of client k would not block.
Readable(k) == k \in unread \/ peer[k] \in {"left", "reset"}

ReadyFds == {f \in Fds : epoll[f] # None /\ Readable(fdtab[f])}

\* epoll_wait: the pending events with their pointers (their number stays
\* below the 1024 of the array).
epoll_wait ==
  /\ at = "loop" /\ events = {}
  /\ events' = {<<f, epoll[f]>> : f \in ReadyFds}
                 \cup (IF backlog = {} THEN {} ELSE {<<listen, None>>})
  /\ events' # {}
  /\ UNCHANGED <<clientVars, connVars, res_str, at, conn, answered, leaked, crashed>>

FreeFds   == {f \in Fds : fdtab[f] = None}
FreeAddrs == Addrs \ live

\* Mutant: an event of a client stays in the batch after it was handled.
RestOfBatch_Keeps(e) == events \ {<<listen, None>>}

\* The events of the batch after e.
RestOfBatch(e) == events \ {e}

\* The pointer registered for a new connection.
Registered(a) == a

\* An event of the listening socket: accept, allocate a connection, register
\* it.  The result of accept is not tested: without a free descriptor the new
\* object holds -1, epoll_ctl refuses it and nothing refers to it any more.
\* Without memory the first assignment through conn_ptr faults.
Accept ==
  /\ at = "loop"
  /\ <<listen, None>> \in events
  /\ events' = RestOfBatch(<<listen, None>>)
  /\ \/ \E a \in FreeAddrs, f \in FreeFds, k \in backlog :
          /\ \A g \in FreeFds : f <= g
          /\ backlog' = backlog \ {k}
          /\ fdtab' = [fdtab EXCEPT ![f] = k]
          /\ live' = live \cup {a}
          /\ Socket' = [Socket EXCEPT ![a] = f]
          /\ epoll' = [epoll EXCEPT ![f] = Registered(a)]
          /\ UNCHANGED <<leaked, crashed>>
     \/ /\ FreeFds = {}
        /\ \E a \in FreeAddrs :
             /\ live' = live \cup {a}
             /\ Socket' = [Socket EXCEPT ![a] = None]
             /\ leaked' = leaked \cup {a}
        /\ UNCHANGED <<backlog, fdtab, epoll, crashed>>
     \/ /\ FreeAddrs = {}
        /\ crashed' = TRUE
        /\ UNCHANGED <<backlog, connVars, leaked>>
  /\ UNCHANGED <<peer, unread, res_str, at, conn, answered>>

\* Mutant: the descriptor is closed and stays registered.
connection_close_NoDel(a) ==
  /\ fdtab' = [fdtab EXCEPT ![Socket[a]] = None]
  /\ UNCHANGED epoll

\* connection_close: epoll_ctl(DEL) and close.  close_socket alone has the
\* same effect, since closing a descriptor unregisters it.
connection_close(a) ==
  /\ fdtab' = [fdtab EXCEPT ![Socket[a]] = None]
  /\ epoll' = [epoll EXCEPT ![Socket[a]] = None]

\* Mutant: the object is forgotten.
connection_free_Forgets(a) == UNCHANGED live

\* connection_free: req_free, then the object and its parts.
connection_free(a) == live' = live \ {a}

\* Mutant: the request goes to another buffer.
Received_Elsewhere(k) == res_str

\* What the receive buffer holds after recv on the socket of client k: 0, for
\* a client that has shut down, is not told apart, and the buffer still holds
\* what an earlier recv put there.
Received(k) == IF k \in unread THEN k ELSE res_str

\* An event of a client's socket, up to log_info.  After -1 from recv the
\* object is freed with a req in which nothing was stored but its maps;
\* otherwise the buffer is parsed.  Both may fault (module Request).
HandleEvent(f, a) ==
  LET k == fdtab[Socket[a]] IN
  /\ at = "loop"
  /\ <<f, a>> \in events
  /\ events' = RestOfBatch(<<f, a>>)
  /\ \/ /\ peer[k] = "reset"
        /\ connection_close(a)
        /\ connection_free(a)
        /\ UNCHANGED <<Socket, unread, res_str, at, conn>>
     \/ /\ peer[k] # "reset"
        /\ res_str' = Received(k)
        /\ unread' = unread \ {k}
        /\ at' = "log" /\ conn' = a
        /\ UNCHANGED connVars
  /\ crashed' \in BOOLEAN
  /\ UNCHANGED <<peer, backlog, answered, leaked>>

\* log_info has returned.  router_handle calls the view, or finds a static file
\* or nothing, and the answer is sent in one of the ways of Routes.
router_handle ==
  /\ at = "log"
  /\ at' \in Routes
  /\ UNCHANGED <<clientVars, connVars, events, res_str, conn, answered, leaked,
                 crashed>>

\* The client whose connection is handled.
Client == fdtab[Socket[conn]]

\* send returns: the client has taken the answer, or is lost.
SendEnds ==
  IF peer[Client] = "reset" THEN UNCHANGED answered
  ELSE answered' = answered \cup {<<Client, res_str>>}

ToLoop == at' = "loop" /\ conn' = None

\* res_handle: send; close and free when send failed; close and free.  The
\* second pair works on freed memory, and req_free may meet what the parser has
\* not stored: the process is killed, or goes on (the descriptor is closed).
res_handle ==
  /\ at = "respond"
  /\ SendEnds
  /\ connection_close(conn)
  /\ connection_free(conn)
  /\ crashed' \in BOOLEAN
  /\ ToLoop
  /\ UNCHANGED <<clientVars, Socket, events, res_str, leaked>>

\* A second send to a client that is lost raises SIGPIPE, which nothing handles.
SigPipe == crashed' \in {FALSE, peer[Client] = "reset"}

\* res_file_handle closes the socket and leaves the object allocated.
res_file_handle ==
  /\ at = "bigfile"
  /\ SendEnds
  /\ connection_close(conn)
  /\ leaked' = leaked \cup {conn}
  /\ SigPipe
  /\ ToLoop
  /\ UNCHANGED <<clientVars, live, Socket, events, res_str>>

\* upto_ws_prot up to its loop: the answer and a first frame are sent.
upto_ws_prot ==
  /\ at = "ws"
  /\ SendEnds
  /\ SigPipe
  /\ at' = "frames"
  /\ UNCHANGED <<clientVars, connVars, events, res_str, conn, leaked>>

\* One turn of the loop of upto_ws_prot that receives a frame: it is answered
\* with a frame; after a closing frame the socket is closed.  The object is
\* not freed.  A send to a client that has left may raise SIGPIPE.
WsFrame ==
  /\ at = "frames"
  /\ Client \in unread
  /\ unread' = unread \ {Client}
  /\ \/ UNCHANGED <<at, conn, fdtab, epoll, leaked>>
     \/ ToLoop /\ connection_close(conn) /\ leaked' = leaked \cup {conn}
  /\ crashed' \in {FALSE, peer[Client] # "open"}
  /\ UNCHANGED <<peer, backlog, live, Socket, events, res_str, answered>>

\* The turn of the loop that receives nothing: the socket is closed.  After a
\* reset there is an error first, and a send that may raise SIGPIPE.
WsEnd ==
  /\ at = "frames"
  /\ Client \notin unread
  /\ peer[Client] \in {"left", "reset"}
  /\ connection_close(conn)
  /\ leaked' = leaked \cup {conn}
  /\ ToLoop
  /\ SigPipe
  /\ UNCHANGED <<clientVars, live, Socket, events, res_str, answered>>

ServerStep ==
  \/ epoll_wait
  \/ Accept
  \/ \E f \in Fds, a \in Addrs : HandleEvent(f, a)
  \/ router_handle
  \/ res_handle
  \/ res_file_handle
  \/ upto_ws_prot
  \/ WsFrame
  \/ WsEnd

ClientStep == \E k \in Clients : Connect(k) \/ SendRequest(k) \/ Leave(k)

Next == ~crashed /\ (ServerStep \/ ClientStep)

Spec == Init /\ [][Next]_vars

\* The thread is in a call that somebody else must end: log_info, a send to a
\* client that is there and need not read, the recv and the send of a websocket
\* view.
Held ==
  \/ at \in {"log", "frames"}
  \/ at \in AllRoutes /\ peer[Client] # "reset"

\* The thread runs while nobody holds it; nothing is assumed about the clients
\* and about the log.
FairSpec == Spec /\ WF_vars(~Held /\ ~crashed /\ ServerStep)

-----------------------------------------------------------------------------
\* Type correctness of the descriptor table, the objects and the loop.
TypeOK ==
  /\ peer \in [Clients -> {"new", "open", "left", "reset"}]
  /\ backlog \in SUBSET Clients
  /\ unread \in SUBSET Clients
  /\ fdtab \in [Fds -> Clients \cup {None}]
  /\ epoll \in [Fds -> Addrs \cup {None}]
  /\ live \in SUBSET Addrs
  /\ leaked \in SUBSET Addrs
  /\ Socket \in [Addrs -> Fds \cup {None}]
  /\ events \in SUBSET ((Fds \X Addrs) \cup {<<listen, None>>})
  /\ res_str \in Clients \cup {None}
  /\ at \in Places
  /\ conn \in Addrs \cup {None}
  /\ answered \in SUBSET (Clients \X (Clients \cup {None}))
  /\ crashed \in BOOLEAN

\* Kernel and server agree on every connection: an open descriptor belongs to
\* one client, is registered with the address of an allocated object, and that
\* object names this descriptor.
ConnectionTable ==
  /\ TypeOK
  /\ \A f \in Fds : fdtab[f] # None =>
       /\ epoll[f] \in live
       /\ Socket[epoll[f]] = f
  /\ \A f \in Fds : epoll[f] # None => fdtab[f] # None
  /\ \A f, g \in Fds : fdtab[f] = fdtab[g] /\ fdtab[f] # None => f = g

\* Events are handled one after the other from an array that was filled
\* before: the connection of an event that is still to be handled has not been
\* closed or freed by an earlier one, nor its descriptor or memory reused.
NoStaleEvent ==
  \A f \in Fds, a \in Addrs : <<f, a>> \in events =>
    /\ a \in live
    /\ epoll[f] = a
    /\ Socket[a] = f

\* Every allocated object belongs to an open socket, except those that big
\* files, websockets and accepts without a descriptor leave behind: whatever
\* else happens, in whatever order, frees its object.
NoOtherLeak == \A a \in live \ leaked : \E f \in Fds : epoll[f] = a

\* A client that stays is answered its own request only, although one buffer
\* serves all connections: another's request goes to a client only after that
\* client has shut down or was lost.
AnswersOwnRequest ==
  \A p \in answered : p[2] # p[1] => peer[p[1]] \in {"left", "reset"}

\* As long as nobody holds the only thread for ever, a client that has sent its
\* request and stays is answered, however the others connect, leave and are
\* lost, and as long as the process lives.
RequestsAnswered ==
  ([]<>~Held) =>
    \A k \in Clients :
      k \in unread ~> \/ \E r \in Clients : <<k, r>> \in answered
                      \/ peer[k] # "open"
                      \/ crashed
=============================================================================

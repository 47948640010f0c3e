----------------------------- MODULE EpollProofs -----------------------------
(***************************************************************************)
(* Proofs about the Linux server, for every set of clients, every number   *)
(* of descriptors and of objects and every set of routes.                  *)
(***************************************************************************)
EXTENDS Epoll, TLAPS

\* A client is new, in the backlog or accepted, one of them only.
ClientPhase ==
  /\ \A k \in Clients : peer[k] = "new" => k \notin backlog
  /\ \A f \in Fds : fdtab[f] # None =>
       peer[fdtab[f]] # "new" /\ fdtab[f] \notin backlog

\* The object that the thread works on outside the loop over the events belongs
\* to an open socket, and its event has been handled.
ThreadConn ==
  /\ at = "loop" <=> conn = None
  /\ at # "loop" =>
       /\ \E f \in Fds : epoll[f] = conn
       /\ \A f \in Fds : <<f, conn>> \notin events

\* What the invariant says about the tables.
Tables ==
  /\ \A f \in Fds : fdtab[f] # None => epoll[f] \in live /\ Socket[epoll[f]] = f
  /\ \A f \in Fds : epoll[f] # None => fdtab[f] # None
  /\ \A f, g \in Fds : fdtab[f] = fdtab[g] /\ fdtab[f] # None => f = g

\* The inductive invariant, without the types.
Links == Tables /\ NoStaleEvent /\ NoOtherLeak /\ ClientPhase /\ ThreadConn

EpollInv == TypeOK /\ Links

-----------------------------------------------------------------------------
\* None is neither a client nor a number, and listen is no descriptor.
LEMMA NoneFacts ==
  /\ None \notin Clients /\ None \notin Fds /\ None \notin Addrs
  /\ listen \notin Fds
  /\ \A f \in Fds, a \in Addrs : <<f, a>> # <<listen, None>>
BY EpollAssumption DEF Fds, Addrs, listen

\* A pointer that is registered is the address of the object of that socket.
LEMMA RegisteredFacts ==
  ASSUME EpollInv, NEW f \in Fds, epoll[f] # None
  PROVE  /\ epoll[f] \in live /\ epoll[f] \in Addrs /\ Socket[epoll[f]] = f
         /\ fdtab[f] \in Clients /\ fdtab[f] # None
         /\ \A g \in Fds : epoll[g] = epoll[f] => g = f
<1> USE DEF EpollInv, Links, Tables
<1>1. fdtab[f] # None /\ epoll[f] \in live /\ Socket[epoll[f]] = f
  OBVIOUS
<1>2. epoll[f] \in Addrs /\ fdtab[f] \in Clients
  BY <1>1 DEF TypeOK
<1>3. ASSUME NEW g \in Fds, epoll[g] = epoll[f]
      PROVE  g = f
  BY <1>3
<1> QED
  BY <1>1, <1>2, <1>3

\* The server that has started satisfies the invariant.
LEMMA EpollInitInv == Init => EpollInv
<1> SUFFICES ASSUME Init
             PROVE  EpollInv
  OBVIOUS
<1> USE NoneFacts DEF Init
<1>1. TypeOK
  BY DEF TypeOK, Places
<1>2. Tables /\ NoStaleEvent /\ NoOtherLeak /\ ClientPhase /\ ThreadConn
  BY DEF Tables, NoStaleEvent, NoOtherLeak, ClientPhase, ThreadConn
<1> QED
  BY <1>1, <1>2 DEF EpollInv, Links

-----------------------------------------------------------------------------
\* The clients do not touch what the server has.
LEMMA ConnectInv ==
  ASSUME EpollInv, NEW k \in Clients, Connect(k)
  PROVE  EpollInv'
<1> USE NoneFacts DEF EpollInv, Links, Connect, connVars, threadVars
<1>1. TypeOK'
  BY DEF TypeOK
<1>2. Tables' /\ NoStaleEvent' /\ NoOtherLeak' /\ ThreadConn'
  BY DEF Tables, NoStaleEvent, NoOtherLeak, ThreadConn
<1>3. ClientPhase'
  <2>1. \A f \in Fds : fdtab[f] # k
    BY DEF ClientPhase
  <2> QED
    BY <2>1 DEF ClientPhase, TypeOK
<1> QED
  BY <1>1, <1>2, <1>3

\* A client that sends changes nothing of the server.
LEMMA SendRequestInv ==
  ASSUME EpollInv, NEW k \in Clients, SendRequest(k)
  PROVE  EpollInv'
<1> USE DEF EpollInv, Links, SendRequest, connVars, threadVars
<1>1. TypeOK'
  BY DEF TypeOK
<1>2. Tables' /\ NoStaleEvent' /\ NoOtherLeak' /\ ThreadConn' /\ ClientPhase'
  BY DEF Tables, NoStaleEvent, NoOtherLeak, ThreadConn, ClientPhase
<1> QED
  BY <1>1, <1>2

\* A client that leaves changes nothing of the server but what it is told next.
LEMMA LeaveInv ==
  ASSUME EpollInv, NEW k \in Clients, Leave(k)
  PROVE  EpollInv'
<1> USE NoneFacts DEF EpollInv, Links, Leave, connVars, threadVars
<1>1. TypeOK'
  BY DEF TypeOK
<1>2. Tables' /\ NoStaleEvent' /\ NoOtherLeak' /\ ThreadConn'
  BY DEF Tables, NoStaleEvent, NoOtherLeak, ThreadConn
<1>3. ClientPhase'
  BY DEF ClientPhase, TypeOK
<1> QED
  BY <1>1, <1>2, <1>3

-----------------------------------------------------------------------------
\* The batch is what the table says now.
LEMMA epoll_waitInv ==
  ASSUME EpollInv, epoll_wait
  PROVE  EpollInv'
<1> USE NoneFacts DEF EpollInv, Links, epoll_wait, clientVars, connVars
<1>1. \A e \in events' :
        e = <<listen, None>> \/ \E f \in Fds : epoll[f] # None /\ e = <<f, epoll[f]>>
  BY DEF ReadyFds
<1>2. TypeOK'
  <2>1. \A f \in Fds : epoll[f] # None => <<f, epoll[f]>> \in Fds \X Addrs
    BY RegisteredFacts
  <2>2. events' \in SUBSET ((Fds \X Addrs) \cup {<<listen, None>>})
    BY <1>1, <2>1
  <2> QED
    BY <2>2 DEF TypeOK
<1>3. NoStaleEvent'
  <2> SUFFICES ASSUME NEW f \in Fds, NEW a \in Addrs, <<f, a>> \in events'
               PROVE  a \in live /\ epoll[f] = a /\ Socket[a] = f
    BY DEF NoStaleEvent
  <2>1. epoll[f] = a /\ a # None
    BY <1>1
  <2> QED
    BY <2>1, RegisteredFacts
<1>4. Tables' /\ NoOtherLeak' /\ ClientPhase'
  BY DEF Tables, NoOtherLeak, ClientPhase
<1>5. ThreadConn'
  BY DEF ThreadConn
<1> QED
  BY <1>2, <1>3, <1>4, <1>5

\* A client is accepted: descriptor and object are both new.
LEMMA AcceptInv ==
  ASSUME EpollInv, Accept
  PROVE  EpollInv'
<1> USE NoneFacts DEF EpollInv, Links
<1>0. /\ at = "loop" /\ at' = at /\ conn' = conn /\ peer' = peer /\ unread' = unread
      /\ res_str' = res_str /\ answered' = answered
      /\ events' \subseteq events
  BY DEF Accept, RestOfBatch
<1>1. ASSUME NEW a \in FreeAddrs, NEW f \in FreeFds, NEW k \in backlog,
             backlog' = backlog \ {k}, fdtab' = [fdtab EXCEPT ![f] = k],
             live' = live \cup {a}, Socket' = [Socket EXCEPT ![a] = f],
             epoll' = [epoll EXCEPT ![f] = a], UNCHANGED <<leaked, crashed>>
      PROVE  EpollInv'
  <2>1. /\ a \in Addrs /\ a \notin live /\ f \in Fds /\ fdtab[f] = None /\ epoll[f] = None
        /\ k \in Clients /\ \A g \in Fds : fdtab[g] # k
    BY DEF FreeAddrs, FreeFds, Tables, ClientPhase, TypeOK
  <2>2. TypeOK'
    BY <1>0, <1>1, <2>1 DEF TypeOK
  <2>3. /\ \A g \in Fds : fdtab'[g] = IF g = f THEN k ELSE fdtab[g]
        /\ \A g \in Fds : epoll'[g] = IF g = f THEN a ELSE epoll[g]
        /\ \A b \in Addrs : Socket'[b] = IF b = a THEN f ELSE Socket[b]
    BY <1>1, <2>1 DEF TypeOK
  <2>4. \A g \in Fds : fdtab[g] # None => epoll[g] \in Addrs /\ epoll[g] # a
    BY <2>1 DEF Tables, TypeOK
  <2>5. Tables'
    BY <1>1, <2>1, <2>3, <2>4 DEF Tables
  <2>6. NoStaleEvent'
    BY <1>0, <1>1, <2>1, <2>3 DEF NoStaleEvent
  <2>7. NoOtherLeak'
    <3> SUFFICES ASSUME NEW b \in live' \ leaked'
                 PROVE  \E g \in Fds : epoll'[g] = b
      BY DEF NoOtherLeak
    <3>1. CASE b = a
      BY <2>1, <2>3, <3>1
    <3>2. CASE b # a
      <4>1. PICK g \in Fds : epoll[g] = b
        BY <1>1, <3>2 DEF NoOtherLeak
      <4>2. g # f
        BY <1>1, <2>1, <3>2, <4>1 DEF TypeOK
      <4> QED
        BY <2>3, <4>1, <4>2
    <3> QED
      BY <3>1, <3>2
  <2>8. ClientPhase'
    BY <1>0, <1>1, <2>1, <2>3 DEF ClientPhase
  <2> QED
    BY <1>0, <2>2, <2>5, <2>6, <2>7, <2>8 DEF ThreadConn
<1>2. ASSUME NEW a \in FreeAddrs, live' = live \cup {a},
             Socket' = [Socket EXCEPT ![a] = None], leaked' = leaked \cup {a},
             UNCHANGED <<backlog, fdtab, epoll, crashed>>
      PROVE  EpollInv'
  <2>1. a \in Addrs /\ a \notin live
    BY DEF FreeAddrs
  <2>2. TypeOK'
    BY <1>0, <1>2, <2>1 DEF TypeOK
  <2>3. \A b \in live : b \in Addrs /\ Socket'[b] = Socket[b]
    BY <1>2, <2>1 DEF TypeOK
  <2>4. Tables' /\ NoStaleEvent'
    BY <1>0, <1>2, <2>3 DEF Tables, NoStaleEvent
  <2>5. NoOtherLeak' /\ ClientPhase' /\ ThreadConn'
    BY <1>0, <1>2 DEF NoOtherLeak, ClientPhase, ThreadConn
  <2> QED
    BY <2>2, <2>4, <2>5
<1>3. ASSUME crashed' = TRUE, UNCHANGED <<backlog, connVars, leaked>>
      PROVE  EpollInv'
  <2>1. TypeOK'
    BY <1>0, <1>3 DEF TypeOK, connVars
  <2>2. Tables' /\ NoStaleEvent' /\ NoOtherLeak' /\ ClientPhase' /\ ThreadConn'
    BY <1>0, <1>3 DEF connVars, Tables, NoStaleEvent, NoOtherLeak, ClientPhase, ThreadConn
  <2> QED
    BY <2>1, <2>2
<1> QED
  BY <1>1, <1>2, <1>3 DEF Accept, Registered

-----------------------------------------------------------------------------
\* A socket is closed and its object a freed, or left behind and recorded: the
\* other sockets keep descriptor, registration and object.  The event of a has
\* been taken from the batch, and the thread is back in its loop.
LEMMA CloseLinks ==
  ASSUME EpollInv, NEW a \in Addrs, \E f \in Fds : epoll[f] = a,
         connection_close(a), Socket' = Socket,
         \/ live' = live \ {a} /\ leaked' = leaked
         \/ live' = live /\ leaked' = leaked \cup {a},
         events' \subseteq events, \A f \in Fds : <<f, a>> \notin events',
         at' = "loop", conn' = None, backlog' = backlog, peer' = peer
  PROVE  /\ Links'
         /\ fdtab' \in [Fds -> Clients \cup {None}]
         /\ epoll' \in [Fds -> Addrs \cup {None}]
<1> USE NoneFacts DEF EpollInv
<1>1. PICK f \in Fds : epoll[f] = a
  OBVIOUS
<1>2. /\ epoll[f] # None /\ Socket[a] = f /\ a \in live
      /\ \A g \in Fds : epoll[g] = a => g = f
  BY <1>1, RegisteredFacts
<1>3. /\ \A g \in Fds : fdtab'[g] = IF g = f THEN None ELSE fdtab[g]
      /\ \A g \in Fds : epoll'[g] = IF g = f THEN None ELSE epoll[g]
      /\ fdtab' \in [Fds -> Clients \cup {None}]
      /\ epoll' \in [Fds -> Addrs \cup {None}]
  BY <1>1, <1>2 DEF connection_close, TypeOK
<1>4. \A g \in Fds : fdtab[g] # None /\ g # f => epoll[g] # a /\ epoll[g] \in live'
  BY <1>2 DEF Links, Tables
<1>5. Tables'
  BY <1>3, <1>4 DEF Links, Tables
<1>6. NoStaleEvent'
  <2> SUFFICES ASSUME NEW g \in Fds, NEW b \in Addrs, <<g, b>> \in events'
               PROVE  b \in live' /\ epoll'[g] = b /\ Socket'[b] = g
    BY DEF NoStaleEvent
  <2>1. b # a /\ b \in live /\ epoll[g] = b /\ Socket[b] = g
    BY DEF Links, NoStaleEvent
  <2> QED
    BY <1>1, <1>2, <1>3, <2>1
<1>7. NoOtherLeak'
  <2> SUFFICES ASSUME NEW b \in live' \ leaked'
               PROVE  \E g \in Fds : epoll'[g] = b
    BY DEF NoOtherLeak
  <2>1. b # a /\ b \in live \ leaked
    OBVIOUS
  <2>2. PICK g \in Fds : epoll[g] = b
    BY <2>1 DEF Links, NoOtherLeak
  <2> QED
    BY <1>1, <1>3, <2>1, <2>2
<1>8. ClientPhase'
  BY <1>3 DEF Links, ClientPhase, TypeOK
<1> QED
  BY <1>3, <1>5, <1>6, <1>7, <1>8 DEF Links, ThreadConn

\* The thread turns to another place with the object it has: nothing is closed.
LEMMA MoveLinks ==
  ASSUME EpollInv, at # "loop", at' \in Places, at' # "loop", conn' = conn,
         UNCHANGED <<connVars, leaked, events, backlog, peer>>
  PROVE  Links'
<1> USE DEF EpollInv, Links, connVars
<1>1. Tables' /\ NoStaleEvent' /\ NoOtherLeak'
  BY DEF Tables, NoStaleEvent, NoOtherLeak
<1>2. ClientPhase' /\ ThreadConn'
  BY DEF ClientPhase, ThreadConn
<1> QED
  BY <1>1, <1>2

\* The object that the thread has is that of an open socket, and the client
\* behind it has connected.
LEMMA ConnFacts ==
  ASSUME EpollInv, at # "loop"
  PROVE  /\ conn \in Addrs /\ (\E f \in Fds : epoll[f] = conn)
         /\ \A f \in Fds : <<f, conn>> \notin events
         /\ Client \in Clients /\ peer[Client] # "new"
<1> USE NoneFacts DEF EpollInv, Links
<1>1. conn \in Addrs /\ \A f \in Fds : <<f, conn>> \notin events
  BY DEF ThreadConn, TypeOK
<1>2. PICK f \in Fds : epoll[f] = conn
  BY DEF ThreadConn
<1>3. epoll[f] # None /\ Socket[conn] = f /\ fdtab[f] \in Clients /\ fdtab[f] # None
  BY <1>1, <1>2, RegisteredFacts
<1> QED
  BY <1>1, <1>2, <1>3 DEF Client, ClientPhase

\* What send leaves in the history has its type.
LEMMA SendEndsType ==
  ASSUME EpollInv, at # "loop", SendEnds
  PROVE  answered' \in SUBSET (Clients \X (Clients \cup {None}))
<1>1. <<Client, res_str>> \in Clients \X (Clients \cup {None})
  BY ConnFacts DEF EpollInv, TypeOK
<1> QED
  BY <1>1 DEF SendEnds, EpollInv, TypeOK

\* The thread closes the socket of its object, frees the object or leaves it
\* behind, and is back in its loop.
LEMMA EndInv ==
  ASSUME EpollInv, at # "loop", ToLoop, connection_close(conn),
         \/ live' = live \ {conn} /\ leaked' = leaked
         \/ live' = live /\ leaked' = leaked \cup {conn},
         unread' \in SUBSET Clients, crashed' \in BOOLEAN,
         answered' \in SUBSET (Clients \X (Clients \cup {None})),
         UNCHANGED <<peer, backlog, Socket, events, res_str>>
  PROVE  EpollInv'
<1>1. /\ conn \in Addrs /\ (\E f \in Fds : epoll[f] = conn)
      /\ \A f \in Fds : <<f, conn>> \notin events
  BY ConnFacts
<1>2. at' = "loop" /\ conn' = None
  BY DEF ToLoop
<1>3. /\ Links' /\ fdtab' \in [Fds -> Clients \cup {None}]
      /\ epoll' \in [Fds -> Addrs \cup {None}]
  BY <1>1, <1>2, CloseLinks
<1>4. live' \in SUBSET Addrs /\ leaked' \in SUBSET Addrs
  BY <1>1 DEF EpollInv, TypeOK
<1> QED
  BY <1>2, <1>3, <1>4 DEF EpollInv, TypeOK, Places

\* An event is handled: its connection is the one it was reported for.
LEMMA HandleEventInv ==
  ASSUME EpollInv, NEW f \in Fds, NEW a \in Addrs, HandleEvent(f, a)
  PROVE  EpollInv'
<1> USE NoneFacts DEF EpollInv
<1> DEFINE k == fdtab[Socket[a]]
<1>1. /\ <<f, a>> \in events /\ at = "loop" /\ backlog' = backlog /\ peer' = peer
      /\ events' = events \ {<<f, a>>} /\ answered' = answered /\ leaked' = leaked
      /\ crashed' \in BOOLEAN
  BY DEF HandleEvent, RestOfBatch
<1>2. epoll[f] = a /\ Socket[a] = f /\ a \in live /\ conn = None
  BY <1>1 DEF Links, NoStaleEvent, ThreadConn
<1>3. k \in Clients
  BY <1>2, RegisteredFacts
<1>4. events' \in SUBSET ((Fds \X Addrs) \cup {<<listen, None>>})
  BY <1>1 DEF TypeOK
<1>5. \A g \in Fds : <<g, a>> \notin events'
  BY <1>1, <1>2 DEF Links, NoStaleEvent
<1>6. CASE /\ connection_close(a) /\ connection_free(a)
           /\ UNCHANGED <<Socket, unread, res_str, at, conn>>
  <2>1. live' = live \ {a}
    BY <1>6 DEF connection_free
  <2>2. /\ Links' /\ fdtab' \in [Fds -> Clients \cup {None}]
        /\ epoll' \in [Fds -> Addrs \cup {None}]
    BY <1>1, <1>2, <1>5, <1>6, <2>1, CloseLinks
  <2> QED
    BY <1>1, <1>4, <1>6, <2>1, <2>2 DEF TypeOK
<1>7. CASE /\ res_str' = Received(k) /\ unread' = unread \ {k}
           /\ at' = "log" /\ conn' = a /\ UNCHANGED connVars
  <2>1. res_str' \in Clients \cup {None}
    BY <1>3, <1>7 DEF Received, TypeOK
  <2>2. Links'
    BY <1>1, <1>2, <1>5, <1>7
      DEF Links, Tables, NoStaleEvent, NoOtherLeak, ClientPhase, ThreadConn, connVars
  <2> QED
    BY <1>1, <1>4, <1>7, <2>1, <2>2 DEF TypeOK, Places, connVars
<1> QED
  BY <1>6, <1>7 DEF HandleEvent

\* log_info returns, and an answer is begun.
LEMMA router_handleInv ==
  ASSUME EpollInv, router_handle
  PROVE  EpollInv'
<1>1. /\ at # "loop" /\ at' \in Places /\ at' # "loop" /\ conn' = conn
      /\ UNCHANGED <<clientVars, connVars, events, res_str, answered, leaked, crashed>>
  BY EpollAssumption DEF router_handle, Places, AllRoutes
<1>2. Links'
  BY <1>1, MoveLinks DEF clientVars
<1> QED
  BY <1>1, <1>2 DEF EpollInv, TypeOK, clientVars, connVars

\* An answer, however it ends.
LEMMA AnswerInv ==
  ASSUME EpollInv, res_handle \/ res_file_handle \/ upto_ws_prot
  PROVE  EpollInv'
<1>1. /\ at # "loop" /\ SendEnds /\ crashed' \in BOOLEAN
      /\ UNCHANGED <<clientVars, Socket, events, res_str>>
  BY DEF res_handle, res_file_handle, upto_ws_prot, SigPipe, connVars
<1>2. unread' \in SUBSET Clients
  BY <1>1 DEF EpollInv, TypeOK, clientVars
<1>3. answered' \in SUBSET (Clients \X (Clients \cup {None}))
  BY <1>1, SendEndsType
<1>4. CASE res_handle
  BY <1>1, <1>2, <1>3, <1>4, EndInv DEF res_handle, connection_free, clientVars
<1>5. CASE res_file_handle
  BY <1>1, <1>2, <1>3, <1>5, EndInv DEF res_file_handle, clientVars
<1>6. CASE upto_ws_prot
  <2>1. at' \in Places /\ at' # "loop" /\ conn' = conn /\ UNCHANGED <<connVars, leaked>>
    BY <1>6 DEF upto_ws_prot, Places
  <2>2. Links'
    BY <1>1, <2>1, MoveLinks DEF clientVars
  <2> QED
    BY <1>1, <1>2, <1>3, <2>1, <2>2 DEF EpollInv, TypeOK, clientVars, connVars
<1> QED
  BY <1>4, <1>5, <1>6

\* One turn of the WebSocket loop that receives a frame.
LEMMA WsFrameInv ==
  ASSUME EpollInv, WsFrame
  PROVE  EpollInv'
<1>1. /\ at # "loop" /\ unread' \in SUBSET Clients /\ crashed' \in BOOLEAN
      /\ UNCHANGED <<peer, backlog, live, Socket, events, res_str, answered>>
  BY DEF WsFrame, EpollInv, TypeOK
<1>2. CASE UNCHANGED <<at, conn, fdtab, epoll, leaked>>
  <2>1. TypeOK'
    BY <1>1, <1>2 DEF EpollInv, TypeOK
  <2>2. Links'
    BY <1>1, <1>2
      DEF EpollInv, Links, Tables, NoStaleEvent, NoOtherLeak, ClientPhase, ThreadConn
  <2> QED
    BY <2>1, <2>2 DEF EpollInv
<1>3. CASE ToLoop /\ connection_close(conn) /\ leaked' = leaked \cup {conn}
  BY <1>1, <1>3, EndInv DEF EpollInv, TypeOK
<1> QED
  BY <1>2, <1>3 DEF WsFrame

\* The turn of the WebSocket loop that receives nothing.
LEMMA WsEndInv ==
  ASSUME EpollInv, WsEnd
  PROVE  EpollInv'
BY EndInv DEF WsEnd, SigPipe, EpollInv, TypeOK, clientVars

-----------------------------------------------------------------------------
\* Every step of the clients, of the loop and of the threads keeps the invariant.
LEMMA EpollStepInv == EpollInv /\ [Next]_vars => EpollInv'
<1> SUFFICES ASSUME EpollInv, [Next]_vars
             PROVE  EpollInv'
  OBVIOUS
<1>1. CASE UNCHANGED vars
  BY <1>1 DEF vars, clientVars, connVars, threadVars, EpollInv, TypeOK, Links, Tables,
              NoStaleEvent, NoOtherLeak, ClientPhase, ThreadConn
<1>2. CASE ServerStep
  BY <1>2, epoll_waitInv, AcceptInv, HandleEventInv, router_handleInv, AnswerInv,
     WsFrameInv, WsEndInv DEF ServerStep
<1>3. CASE ClientStep
  BY <1>3, ConnectInv, SendRequestInv, LeaveInv DEF ClientStep
<1> QED
  BY <1>1, <1>2, <1>3 DEF Next

\* So it holds in every state.
LEMMA EpollInvariant == Spec => []EpollInv
BY EpollInitInv, EpollStepInv, PTL DEF Spec

\* The kernel's descriptors, the registered pointers and the objects agree,
\* whatever clients do and however requests end.
THEOREM EpollConnectionTable == Spec => []ConnectionTable
<1>1. EpollInv => ConnectionTable
  BY DEF EpollInv, Links, Tables, ConnectionTable
<1> QED
  BY EpollInvariant, <1>1, PTL

\* No event of the array that epoll_wait filled names a connection that was
\* closed, freed or replaced while earlier events were handled.
THEOREM EpollNoStaleEvent == Spec => []NoStaleEvent
<1>1. EpollInv => NoStaleEvent
  BY DEF EpollInv, Links
<1> QED
  BY EpollInvariant, <1>1, PTL

\* Objects are lost only through big files, websockets and accepts without a
\* descriptor.
THEOREM EpollNoOtherLeak == Spec => []NoOtherLeak
<1>1. EpollInv => NoOtherLeak
  BY DEF EpollInv, Links
<1> QED
  BY EpollInvariant, <1>1, PTL

-----------------------------------------------------------------------------
\* An event that is still to be handled would not block its recv.
Batch == \A f \in Fds, a \in Addrs : <<f, a>> \in events => Readable(fdtab[f])

\* Between recv and the end of the answer the buffer holds the request of the
\* client that is answered, unless that client has shut down or was lost.
Current ==
  at \notin {"loop", "frames"} => res_str = Client \/ peer[Client] \in {"left", "reset"}

OwnInv == AnswersOwnRequest /\ Batch /\ Current

\* The clients: who has left stays away, and what was readable stays so.
LEMMA ClientStepOwn ==
  ASSUME EpollInv, OwnInv, ClientStep
  PROVE  OwnInv'
<1>1. /\ UNCHANGED <<connVars, threadVars>> /\ Client' = Client
      /\ \A k \in Clients : peer[k] \in {"left", "reset"} => peer'[k] \in {"left", "reset"}
      /\ \A k \in Clients : Readable(k) => Readable(k)'
  BY DEF ClientStep, Connect, SendRequest, Leave, EpollInv, TypeOK, Readable, Client,
         connVars, threadVars
<1>2. AnswersOwnRequest'
  <2>1. \A p \in answered : p[1] \in Clients
    BY DEF EpollInv, TypeOK
  <2> QED
    BY <1>1, <2>1 DEF OwnInv, AnswersOwnRequest, threadVars
<1>3. Batch'
  <2>1. \A f \in Fds, a \in Addrs : <<f, a>> \in events => fdtab[f] \in Clients
    <3> SUFFICES ASSUME NEW f \in Fds, NEW a \in Addrs, <<f, a>> \in events
                 PROVE  fdtab[f] \in Clients
      OBVIOUS
    <3>1. epoll[f] = a /\ a # None
      BY NoneFacts DEF EpollInv, Links, NoStaleEvent
    <3> QED
      BY <3>1, RegisteredFacts
  <2> QED
    BY <1>1, <2>1 DEF OwnInv, Batch, connVars, threadVars
<1>4. Current'
  <2>1. at # "loop" => Client \in Clients
    BY ConnFacts
  <2> QED
    BY <1>1, <2>1 DEF OwnInv, Current, threadVars
<1> QED
  BY <1>2, <1>3, <1>4 DEF OwnInv

\* epoll_wait reports what is readable.
LEMMA epoll_waitOwn ==
  ASSUME EpollInv, OwnInv, epoll_wait
  PROVE  OwnInv'
<1>1. \A f \in Fds, a \in Addrs : <<f, a>> \in events' => Readable(fdtab[f])
  BY NoneFacts DEF epoll_wait, ReadyFds
<1> QED
  BY <1>1 DEF epoll_wait, OwnInv, AnswersOwnRequest, Batch, Current, Readable, Client,
              clientVars, connVars

\* A descriptor that is new has no event in the batch.
LEMMA AcceptOwn ==
  ASSUME EpollInv, OwnInv, Accept
  PROVE  OwnInv'
<1>1. /\ at' = "loop" /\ UNCHANGED <<peer, unread, answered>> /\ events' \subseteq events
  BY DEF Accept, RestOfBatch
<1>2. ASSUME NEW f \in Fds, NEW a \in Addrs, <<f, a>> \in events
      PROVE  fdtab[f] # None /\ fdtab'[f] = fdtab[f]
  <2>1. fdtab[f] # None
    BY <1>2, NoneFacts DEF EpollInv, Links, NoStaleEvent, Tables
  <2> QED
    BY <2>1 DEF Accept, FreeFds, EpollInv, TypeOK, connVars
<1> QED
  BY <1>1, <1>2 DEF OwnInv, AnswersOwnRequest, Batch, Current, Readable

\* An event that is handled was readable: the client's request is received, or
\* the client has shut down or was lost.
LEMMA HandleEventOwn ==
  ASSUME EpollInv, OwnInv, NEW f \in Fds, NEW a \in Addrs, HandleEvent(f, a)
  PROVE  OwnInv'
<1> USE NoneFacts
<1>1. /\ <<f, a>> \in events /\ at = "loop" /\ UNCHANGED <<peer, answered>>
      /\ events' = events \ {<<f, a>>}
  BY DEF HandleEvent, RestOfBatch
<1>2. /\ epoll[f] = a /\ Socket[a] = f /\ fdtab[f] \in Clients
      /\ Readable(fdtab[f])
  <2>1. epoll[f] = a /\ Socket[a] = f /\ a # None
    BY <1>1 DEF EpollInv, Links, NoStaleEvent
  <2> QED
    BY <1>1, <2>1, RegisteredFacts DEF OwnInv, Batch
<1>3. ASSUME NEW g \in Fds, NEW b \in Addrs, <<g, b>> \in events'
      PROVE  g # f /\ fdtab[g] # None /\ fdtab[g] # fdtab[f] /\ Readable(fdtab[g])
  <2>1. g # f
    BY <1>1, <1>2, <1>3 DEF EpollInv, Links, NoStaleEvent
  <2>2. fdtab[g] # None
    BY <1>1, <1>3 DEF EpollInv, Links, NoStaleEvent, Tables
  <2> QED
    BY <1>1, <1>3, <2>1, <2>2 DEF EpollInv, Links, Tables, OwnInv, Batch
<1>4. Batch'
  <2>1. ASSUME NEW g \in Fds, g # f
        PROVE  fdtab'[g] = fdtab[g]
    BY <1>2, <2>1 DEF HandleEvent, connection_close, EpollInv, TypeOK, connVars
  <2>2. unread' = unread \/ unread' = unread \ {fdtab[f]}
    BY <1>2 DEF HandleEvent
  <2> QED
    BY <1>1, <1>3, <2>1, <2>2 DEF Batch, Readable
<1>5. Current'
  <2>1. CASE at' = "loop"
    BY <2>1 DEF Current
  <2>2. CASE at' # "loop"
    <3>1. /\ res_str' = Received(fdtab[f]) /\ conn' = a /\ UNCHANGED <<fdtab, Socket>>
      BY <1>1, <1>2, <2>2 DEF HandleEvent, connVars
    <3>2. Client' = fdtab[f]
      BY <1>2, <3>1 DEF Client
    <3> QED
      BY <1>1, <1>2, <3>1, <3>2 DEF Current, Received, Readable
  <2> QED
    BY <2>1, <2>2
<1> QED
  BY <1>1, <1>4, <1>5 DEF OwnInv, AnswersOwnRequest

\* The thread answers, or takes a frame: the other connections keep their
\* clients and what these have sent.
LEMMA ConnStepOwn ==
  ASSUME EpollInv, OwnInv,
         router_handle \/ res_handle \/ res_file_handle \/ upto_ws_prot \/ WsFrame \/ WsEnd
  PROVE  OwnInv'
<1> USE NoneFacts
<1>1. at # "loop" /\ events' = events /\ peer' = peer /\ res_str' = res_str
  BY DEF router_handle, res_handle, res_file_handle, upto_ws_prot, WsFrame, WsEnd, clientVars
<1>2. PICK f \in Fds : /\ epoll[f] = conn /\ Socket[conn] = f /\ Client = fdtab[f]
                       /\ Client \in Clients /\ Client # None
  <2>1. PICK f \in Fds : epoll[f] = conn
    BY <1>1, ConnFacts
  <2>2. epoll[f] # None
    BY <1>1, <2>1, ConnFacts
  <2> QED
    BY <2>1, <2>2, RegisteredFacts DEF Client
<1>3. ASSUME NEW g \in Fds, NEW b \in Addrs, <<g, b>> \in events
      PROVE  g # f /\ fdtab[g] # Client /\ Readable(fdtab[g])
  <2>1. g # f
    BY <1>1, <1>2, <1>3, ConnFacts DEF EpollInv, Links, NoStaleEvent
  <2> QED
    BY <1>2, <1>3, <2>1 DEF EpollInv, Links, Tables, OwnInv, Batch
<1>4. Batch'
  <2>1. ASSUME NEW g \in Fds, g # f
        PROVE  fdtab'[g] = fdtab[g]
    BY <1>2, <2>1
      DEF router_handle, res_handle, res_file_handle, upto_ws_prot, WsFrame, WsEnd,
          connection_close, EpollInv, TypeOK, connVars
  <2>2. unread' = unread \/ unread' = unread \ {Client}
    BY DEF router_handle, res_handle, res_file_handle, upto_ws_prot, WsFrame, WsEnd, clientVars
  <2> QED
    BY <1>1, <1>3, <2>1, <2>2 DEF Batch, Readable
<1>5. Current'
  <2>1. CASE at' \in {"loop", "frames"}
    BY <2>1 DEF Current
  <2>2. CASE at' \notin {"loop", "frames"}
    <3>1. router_handle
      BY <2>2 DEF res_handle, res_file_handle, upto_ws_prot, WsFrame, WsEnd, ToLoop
    <3>2. at = "log" /\ Client' = Client
      BY <3>1 DEF router_handle, Client, connVars
    <3> QED
      BY <1>1, <3>2 DEF OwnInv, Current
  <2> QED
    BY <2>1, <2>2
<1>6. AnswersOwnRequest'
  <2>1. CASE answered' = answered
    BY <1>1, <2>1 DEF OwnInv, AnswersOwnRequest
  <2>2. CASE answered' # answered
    <3>1. SendEnds /\ at \notin {"loop", "frames"}
      BY <2>2 DEF router_handle, res_handle, res_file_handle, upto_ws_prot, WsFrame, WsEnd
    <3>2. answered' = answered \cup {<<Client, res_str>>}
      BY <2>2, <3>1 DEF SendEnds
    <3> QED
      BY <1>1, <3>1, <3>2 DEF OwnInv, AnswersOwnRequest, Current
  <2> QED
    BY <2>1, <2>2
<1> QED
  BY <1>4, <1>5, <1>6 DEF OwnInv

\* Nobody who stays is answered another's request, although all connections
\* share one receive buffer and the thread may be held between recv and send.
THEOREM EpollAnswersOwnRequest == Spec => []AnswersOwnRequest
<1>1. Init => OwnInv
  BY NoneFacts DEF Init, OwnInv, AnswersOwnRequest, Batch, Current
<1>2. EpollInv /\ OwnInv /\ [Next]_vars => OwnInv'
  <2> SUFFICES ASSUME EpollInv, OwnInv, [Next]_vars
               PROVE  OwnInv'
    OBVIOUS
  <2>1. CASE UNCHANGED vars
    BY <2>1 DEF vars, clientVars, connVars, threadVars, OwnInv, AnswersOwnRequest, Batch,
                Current, Readable, Client
  <2>2. CASE ServerStep
    BY <2>2, epoll_waitOwn, AcceptOwn, HandleEventOwn, ConnStepOwn DEF ServerStep
  <2>3. CASE ClientStep
    BY <2>3, ClientStepOwn
  <2> QED
    BY <2>1, <2>2, <2>3 DEF Next
<1>3. OwnInv => AnswersOwnRequest
  BY DEF OwnInv
<1> QED
  BY EpollInvariant, <1>1, <1>2, <1>3, PTL DEF Spec
=============================================================================

----------------------------- MODULE MdbServer ------------------------------
(***************************************************************************)
(* The cache server (Src/mdb/mdbserver.c): a thread that accepts, and       *)
(* threads that take completions from one port, log clients in and serve   *)
(* their inserts and finds on the cache of module Mdb, which the web        *)
(* server's views use at the same time.                                    *)
(*                                                                         *)
(* next() posts the WSARecv for the following message first and sets        *)
(* status afterwards; in between another thread may take that message.     *)
(***************************************************************************)
EXTENDS Mdb, Sequences

CONSTANTS
  Clients,
  Addrs,        \* addresses of connection objects (per_handle_data_t with
                \* its per_io_data_t)
  MaxMsgs,      \* bound: messages a client sends
  None

ASSUME MdbServerAssumption ==
  /\ IsFiniteSet(Clients) /\ IsFiniteSet(Addrs)
  /\ MaxMsgs \in Nat
  /\ None \notin Clients \cup Addrs
  /\ Clients \cup Views \subseteq Writers

\* "login" is the password, "insert" and "find" are an entry_t with that op.
Msgs == {"login", "insert", "find"}

VARIABLES
  peer,         \* peer[k]: "new", "open", "left" (FIN) or "reset" (RST)
  backlog,      \* clients connected and not yet accepted
  unread,       \* unread[k]: messages on their way to the server
  sent,         \* sent[k]: how many messages k has sent
  open,         \* clients whose socket the server has open
  live,         \* addresses of allocated objects
  Socket,       \* Socket[a]: the client behind the socket stored at a
  status,       \* status[a]
  recvs,        \* WSARecv calls under way: <<a, k>>
  port,         \* completions: <<a, k, message or outcome, message is alone>>
  pc,           \* pc[w]: where thread w is
  job,          \* job[w]: the completion it works on
  loggedIn,     \* history: clients that were told "authorized"
  overtaken,    \* history: a client was rejected while its login was being
                \* noted
  crashed       \* the cache server died

clientVars == <<peer, backlog, unread, sent>>
connVars   == <<open, live, Socket, status>>
ioVars     == <<recvs, port, pc, job>>
histVars   == <<loggedIn, overtaken>>
vars == <<mdbVars, clientVars, connVars, ioVars, histVars, crashed>>

NoJob == <<None, None, None, TRUE>>

Init ==
  /\ MdbInit
  /\ peer = [k \in Clients |-> "new"]
  /\ backlog = {}
  /\ unread = [k \in Clients |-> <<>>]
  /\ sent = [k \in Clients |-> 0]
  /\ open = {}
  /\ live = {}
  /\ Socket = [a \in Addrs |-> None]
  /\ status = [a \in Addrs |-> 0]
  /\ recvs = {}
  /\ port = {}
  /\ pc = [w \in Workers |-> "idle"]
  /\ job = [w \in Workers |-> NoJob]
  /\ loggedIn = {}
  /\ overtaken = FALSE
  /\ crashed = FALSE

-----------------------------------------------------------------------------
\* The clients.
Connect(k) ==
  /\ peer[k] = "new"
  /\ peer' = [peer EXCEPT ![k] = "open"]
  /\ backlog' = backlog \cup {k}
  /\ UNCHANGED <<mdbVars, unread, sent, connVars, ioVars, histVars, crashed>>

Send(k) ==
  /\ peer[k] = "open" /\ sent[k] < MaxMsgs
  /\ k \in backlog \cup open
  /\ sent' = [sent EXCEPT ![k] = @ + 1]
  /\ \E m \in Msgs : unread' = [unread EXCEPT ![k] = Append(@, m)]
  /\ UNCHANGED <<mdbVars, peer, backlog, connVars, ioVars, histVars, crashed>>

Leave(k) ==
  /\ peer[k] = "open"
  /\ \/ peer' = [peer EXCEPT ![k] = "left"] /\ UNCHANGED unread
     \/ peer' = [peer EXCEPT ![k] = "reset"] /\ unread' = [unread EXCEPT ![k] = <<>>]
  /\ UNCHANGED <<mdbVars, backlog, sent, connVars, ioVars, histVars, crashed>>

-----------------------------------------------------------------------------
\* WSARecv: on a socket that was reset it may fail at once, without a
\* completion; the result is not looked at.
WSARecv(a, k) ==
  \/ recvs' = recvs \cup {<<a, k>>}
  \/ peer[k] = "reset" /\ UNCHANGED recvs

\* Mutant: status is not set for a new connection.
FirstStatus_Kept(a) == status[a]

FirstStatus(a) == 0

\* main: accept a client, allocate its object, post the first WSARecv.
Accept ==
  \E k \in backlog, a \in Addrs \ live :
    /\ ~crashed
    /\ backlog' = backlog \ {k}
    /\ open' = open \cup {k}
    /\ live' = live \cup {a}
    /\ Socket' = [Socket EXCEPT ![a] = k]
    /\ status' = [status EXCEPT ![a] = FirstStatus(a)]
    /\ WSARecv(a, k)
    /\ UNCHANGED <<mdbVars, peer, unread, sent, port, pc, job, histVars, crashed>>

\* The system completes a WSARecv: with a message, or with several that have
\* run together; with nothing after the client has shut down; with an error.
Complete(a, k) ==
  /\ ~crashed
  /\ <<a, k>> \in recvs
  /\ recvs' = recvs \ {<<a, k>>}
  /\ \/ \E n \in 1 .. Len(unread[k]) :
          /\ port' = port \cup {<<a, k, Head(unread[k]), n = 1>>}
          /\ unread' = [unread EXCEPT ![k] = SubSeq(@, n + 1, Len(@))]
     \/ /\ unread[k] = <<>> /\ peer[k] = "left"
        /\ port' = port \cup {<<a, k, "zero", TRUE>>}
        /\ UNCHANGED unread
     \/ /\ peer[k] = "reset"
        /\ \E e \in {"deleted", "failed"} : port' = port \cup {<<a, k, e, TRUE>>}
        /\ UNCHANGED unread
  /\ UNCHANGED <<mdbVars, peer, backlog, sent, connVars, pc, job, histVars, crashed>>

\* Threads that have posted a WSARecv for address a and will still set status.
SettingStatus(a) == {w \in Workers : pc[w] = "status" /\ job[w][1] = a}

\* closesocket, and free of both parts of the object.
CloseAndFree(a, k) ==
  /\ open' = open \ {k}
  /\ live' = live \ {a}
  /\ overtaken' = (overtaken \/ SettingStatus(a) # {})
  /\ UNCHANGED <<Socket, status>>

\* The process is killed by a fault.
Crash ==
  /\ crashed' = TRUE
  /\ Die(Workers)

Lives == UNCHANGED <<mdbVars, crashed>>

\* ProcessIO takes a completion.  An error other than a lost connection ends
\* the thread, or the process: OutErr prints the error's number as a string.
Dequeue(w) ==
  \E j \in port :
    /\ ~crashed
    /\ pc[w] = "idle"
    /\ port' = port \ {j}
    /\ \/ /\ j[3] \in {"zero", "deleted"}
          /\ CloseAndFree(j[1], j[2])
          /\ UNCHANGED <<pc, job>>
          /\ Lives
       \/ /\ j[3] = "failed"
          /\ pc' = [pc EXCEPT ![w] = "ended"]
          /\ Lives \/ Crash
          /\ UNCHANGED <<connVars, job, overtaken>>
       \/ /\ j[3] \in Msgs
          /\ pc' = [pc EXCEPT ![w] = "handle"]
          /\ job' = [job EXCEPT ![w] = j]
          /\ UNCHANGED <<connVars, overtaken>>
          /\ Lives
    /\ UNCHANGED <<clientVars, recvs, loggedIn>>

\* status is 0: the password alone is answered with "authorized", anything
\* else closes the connection.
Login(w) ==
  LET a == job[w][1] k == job[w][2] IN
  /\ ~crashed /\ pc[w] = "handle" /\ status[a] = 0
  /\ \/ /\ job[w][3] = "login" /\ job[w][4]
        /\ loggedIn' = loggedIn \cup {k}
        /\ pc' = [pc EXCEPT ![w] = "next"]
        /\ UNCHANGED <<connVars, job, overtaken>>
     \/ /\ ~(job[w][3] = "login" /\ job[w][4])
        /\ CloseAndFree(a, k)
        /\ pc' = [pc EXCEPT ![w] = "idle"]
        /\ job' = [job EXCEPT ![w] = NoJob]
        /\ UNCHANGED loggedIn
  /\ UNCHANGED <<mdbVars, clientVars, recvs, port, crashed>>

\* status is not 0: the message is taken for an entry_t; what has run together
\* with it is lost.
Serve(w) ==
  /\ ~crashed /\ pc[w] = "handle" /\ status[job[w][1]] # 0
  /\ \/ /\ job[w][3] = "insert"
        /\ \E key \in Keys : mdb_insert(w, key, job[w][2])
        /\ pc' = [pc EXCEPT ![w] = "store"]
     \/ /\ job[w][3] = "find"
        /\ \E key \in Keys : mdb_find(w, key)
        /\ pc' = [pc EXCEPT ![w] = "store"]
     \/ /\ job[w][3] = "login"
        /\ pc' = [pc EXCEPT ![w] = "next"]
        /\ UNCHANGED mdbVars
  /\ UNCHANGED <<clientVars, connVars, recvs, port, job, histVars, crashed>>

\* The call of mdb_insert or mdb_find goes on.
StoreStep(w) ==
  /\ ~crashed /\ pc[w] = "store"
  /\ WriteEnd(w) \/ Copy(w)
  /\ UNCHANGED <<clientVars, connVars, ioVars, histVars, crashed>>

\* It has returned; the answer is sent.  After a find that found nothing a
\* constant string is freed: the heap may stop the process.
Answer(w) ==
  /\ ~crashed /\ pc[w] = "store"
  /\ \/ /\ StoreDone(w)
        /\ pc' = [pc EXCEPT ![w] = "next"]
        /\ UNCHANGED crashed
     \/ /\ sp[w] = "done" /\ job[w][3] = "find" /\ res[w] = Empty
        /\ Crash
        /\ UNCHANGED pc
  /\ UNCHANGED <<clientVars, connVars, recvs, port, job, histVars>>

\* Mutant: the buffer is posted twice.
AfterPost_Again == "next"

AfterPost == "status"

\* next(): WSARecv ...
Post(w) ==
  /\ ~crashed /\ pc[w] = "next"
  /\ WSARecv(job[w][1], job[w][2])
  /\ pc' = [pc EXCEPT ![w] = AfterPost]
  /\ UNCHANGED <<mdbVars, clientVars, connVars, port, job, histVars, crashed>>

NextStatus(a) == 1

\* ... and status = 1, by then perhaps in memory that was freed.
SetStatus(w) ==
  LET a == job[w][1] IN
  /\ ~crashed /\ pc[w] = "status"
  /\ status' = [status EXCEPT ![a] = NextStatus(a)]
  /\ Lives \/ (a \notin live /\ Crash)
  /\ pc' = [pc EXCEPT ![w] = "idle"]
  /\ job' = [job EXCEPT ![w] = NoJob]
  /\ UNCHANGED <<clientVars, open, live, Socket, recvs, port, histVars>>

WorkerStep(w) ==
  \/ Dequeue(w)
  \/ Login(w)
  \/ Serve(w)
  \/ StoreStep(w)
  \/ Answer(w)
  \/ Post(w)
  \/ SetStatus(w)

View(t) == ViewStep(t) /\ UNCHANGED <<clientVars, connVars, ioVars, histVars, crashed>>

Completion == \E a \in Addrs, k \in Clients : Complete(a, k)

Next ==
  \/ \E k \in Clients : Connect(k) \/ Send(k) \/ Leave(k)
  \/ Accept
  \/ Completion
  \/ \E w \in Workers : WorkerStep(w)
  \/ \E t \in Views : View(t)

Spec == Init /\ [][Next]_vars

-----------------------------------------------------------------------------
\* Type correctness of the connections and the threads.
TypeOK ==
  /\ MdbTypeOK
  /\ peer \in [Clients -> {"new", "open", "left", "reset"}]
  /\ unread \in [Clients -> Seq(Msgs)]
  /\ open \in SUBSET Clients /\ backlog \in SUBSET Clients
  /\ live \in SUBSET Addrs
  /\ Socket \in [Addrs -> Clients \cup {None}]
  /\ status \in [Addrs -> {0, 1}]
  /\ recvs \in SUBSET (Addrs \X Clients)
  /\ pc \in [Workers -> {"idle", "handle", "store", "next", "status", "ended"}]
  /\ {overtaken, crashed} \subseteq BOOLEAN

\* The threads that have k's message in hand.
Handling(k) == {w \in Workers : job[w][2] = k /\ pc[w] \in {"handle", "store", "next"}}

\* A client that stays is never forgotten, and never in two hands: either a
\* WSARecv is under way for it, or one completion is queued, or one thread has
\* its message, although threads post the next WSARecv before they are done.
OneReceiver ==
  /\ TypeOK
  /\ ~crashed => \A k \in open :
       LET hands == Cardinality({r \in recvs : r[2] = k})
                      + Cardinality({j \in port : j[2] = k})
                      + Cardinality(Handling(k))
       IN  hands <= 1 /\ (peer[k] # "reset" => hands = 1)

\* Inserts and finds are carried out only for clients that have logged in,
\* although memory and status of a connection are reused for later ones; until
\* a message overtakes the login it follows.
ServedAfterLogin ==
  ~overtaken => \A w \in Workers : pc[w] = "store" => job[w][2] \in loggedIn
=============================================================================

-------------------------- MODULE MdbServerProofs ---------------------------
(***************************************************************************)
(* Proofs about the cache server and the cache it shares with the views of *)
(* the web server, for any number of threads, clients, keys and objects: a *)
(* find returns what was inserted under its key; a client that stays is in *)
(* one hand at any time; and only clients that logged in are served.       *)
(***************************************************************************)
EXTENDS MdbServer, FiniteSetTheorems, SequenceTheorems, TLAPS

(***************************************************************************)
(* The cache.                                                              *)
(***************************************************************************)

\* A call that has not come to its end has found nothing yet, and the pair of
\* an insert that is writing is a pair.
CallTypes ==
  /\ \A t \in Threads : sp[t] = "write" => arg[t] \in [key : Keys, value : Writers]
  /\ \A t \in Threads : sp[t] \in {"idle", "write", "copy"} => res[t] = Empty

\* As long as no process dies in the middle of an insert: whoever holds the
\* mutex is writing the pair it was called with; a slot that nobody writes is
\* empty or holds an inserted pair; and it still has the key of a find that is
\* copying, unless an insert ran into the copy.
SlotKept ==
  ~abandoned =>
    /\ \A t \in Threads : sp[t] = "write" <=> mutex = t
    /\ \A t \in Threads : sp[t] = "write" => entry.key = arg[t].key
    /\ mutex = Empty /\ entry.value # Empty => entry \in inserted
    /\ \A t \in Threads : sp[t] = "copy" /\ t \notin overlap =>
         mutex = Empty /\ entry.key = arg[t].key

\* The inductive invariant of the cache.
MdbInv == MdbTypeOK /\ CallTypes /\ SlotKept /\ FoundPair

\* What a step of the server or of a view may do to the cache.
MdbStep ==
  \/ \E t \in Threads, k \in Keys, v \in Writers : mdb_insert(t, k, v)
  \/ \E t \in Threads, k \in Keys : mdb_find(t, k)
  \/ \E t \in Threads : WriteEnd(t) \/ Copy(t) \/ StoreDone(t)
  \/ Die(Workers)
  \/ UNCHANGED mdbVars

(***************************************************************************)
(* The connections.                                                        *)
(***************************************************************************)

\* What the port holds and a thread works on.
Completions == Addrs \X Clients \X (Msgs \cup {"zero", "deleted", "failed"}) \X BOOLEAN

\* The threads that work on a message; the ones that have it in hand.
Working == {w \in Workers : pc[w] \in {"handle", "store", "next", "status"}}
Hands == {w \in Workers : pc[w] \in {"handle", "store", "next"}}

Types ==
  /\ TypeOK
  /\ port \in SUBSET Completions
  /\ job \in [Workers -> Completions \cup {NoJob}]
  /\ \A w \in Working : job[w] \in Completions

\* A client is in one hand: that of the system, of the port, or of one thread.
OneHand ==
  /\ \A r, s \in recvs : r[2] = s[2] => r = s
  /\ \A d, e \in port : d[2] = e[2] => d = e
  /\ \A v, w \in Hands : job[v][2] = job[w][2] => v = w
  /\ \A r \in recvs, e \in port : r[2] # e[2]
  /\ \A r \in recvs, w \in Hands : r[2] # job[w][2]
  /\ \A e \in port, w \in Hands : e[2] # job[w][2]

\* Client k is in a hand.
InHand(k) ==
  \/ \E r \in recvs : r[2] = k
  \/ \E e \in port : e[2] = k
  \/ \E w \in Hands : job[w][2] = k

\* A client is in a hand only while its socket is open, and is in one as long
\* as it is, unless it reset the connection.
OpenInHand ==
  /\ \A k \in Clients : InHand(k) => k \in open
  /\ \A k \in open : peer[k] # "reset" => InHand(k)
  /\ \A k \in open : k \notin backlog /\ peer[k] # "new"
  /\ \A k \in backlog : peer[k] # "new"
  /\ \A e \in port : e[3] \in {"deleted", "failed"} => peer[e[2]] = "reset"

\* Until a message overtakes the login it follows: whoever has a message, or
\* has still to set status, has the client's own object; and status is set only
\* for clients that have logged in.
OwnObject ==
  ~overtaken =>
    /\ \A r \in recvs : r[1] \in live /\ Socket[r[1]] = r[2]
    /\ \A e \in port : e[1] \in live /\ Socket[e[1]] = e[2]
    /\ \A w \in Working : job[w][1] \in live /\ Socket[job[w][1]] = job[w][2]
    /\ \A w \in Working : pc[w] # "handle" => job[w][2] \in loggedIn
    /\ \A a \in live : status[a] = 1 => Socket[a] \in loggedIn

\* The inductive invariant of the connections.
ServerInv == Types /\ OneHand /\ OpenInHand /\ OwnObject
-----------------------------------------------------------------------------
\* At the start the slot is empty and nobody uses it.
LEMMA MdbInitInv == MdbInit => MdbInv
<1> SUFFICES ASSUME MdbInit
             PROVE  MdbInv
  OBVIOUS
<1> USE MdbAssumption DEF MdbInit, NoArg
<1>1. MdbTypeOK
  BY DEF MdbTypeOK
<1>2. CallTypes
  BY DEF CallTypes
<1>3. SlotKept
  BY DEF SlotKept
<1>4. FoundPair
  BY DEF FoundPair
<1> QED
  BY <1>1, <1>2, <1>3, <1>4 DEF MdbInv

\* An insert that finds the file not mapped does nothing.
LEMMA NoInsertInv ==
  ASSUME MdbInv, NEW t \in Threads, NEW k \in Keys, NEW v \in Writers, mdb_insert(t, k, v),
         sp' = [sp EXCEPT ![t] = "done"]
  PROVE  MdbInv'
<1> USE MdbAssumption DEF MdbInv
<1>0. sp[t] = "idle" /\ sp'[t] = "done"
  BY DEF mdb_insert, MdbTypeOK
<1>1. /\ arg' = [arg EXCEPT ![t] = [key |-> k, value |-> v]]
      /\ UNCHANGED <<entry, mutex, res, overlap, inserted, abandoned>>
  BY <1>0 DEF mdb_insert, MdbTypeOK
<1>2. /\ arg'[t] = [key |-> k, value |-> v]
      /\ \A u \in Threads : u # t => sp'[u] = sp[u] /\ arg'[u] = arg[u]
  BY <1>1 DEF MdbTypeOK
<1>3. MdbTypeOK'
  BY <1>1 DEF MdbTypeOK
<1>4. CallTypes'
  BY <1>0, <1>1, <1>2 DEF CallTypes
<1>5. SlotKept'
  BY <1>0, <1>1, <1>2 DEF SlotKept
<1>6. FoundPair'
  BY <1>0, <1>1, <1>2 DEF FoundPair, CallTypes
<1> QED
  BY <1>3, <1>4, <1>5, <1>6

\* An insert begins: it has the mutex, and runs into every copy.
LEMMA InsertInv ==
  ASSUME MdbInv, NEW t \in Threads, NEW k \in Keys, NEW v \in Writers, mdb_insert(t, k, v),
         sp' # [sp EXCEPT ![t] = "done"]
  PROVE  MdbInv'
<1> USE MdbAssumption DEF MdbInv, MutexFree
<1>0. /\ sp[t] = "idle" /\ mutex = Empty /\ mutex' = t
      /\ entry' = [key |-> k, value |-> Torn]
      /\ arg' = [arg EXCEPT ![t] = [key |-> k, value |-> v]]
      /\ sp' = [sp EXCEPT ![t] = "write"]
      /\ overlap' = overlap \cup {u \in Threads : sp[u] = "copy"}
      /\ UNCHANGED <<res, inserted, abandoned>>
  BY DEF mdb_insert
<1>1. MdbTypeOK'
  BY <1>0 DEF MdbTypeOK
<1>2. /\ sp'[t] = "write" /\ arg'[t] = [key |-> k, value |-> v]
      /\ \A u \in Threads : u # t => sp'[u] = sp[u] /\ arg'[u] = arg[u]
  BY <1>0 DEF MdbTypeOK
<1>3. CallTypes'
  BY <1>0, <1>2 DEF CallTypes
<1>4. SlotKept'
  <2> SUFFICES ASSUME ~abandoned
               PROVE  SlotKept'
    BY <1>0 DEF SlotKept
  <2>1. \A u \in Threads : sp[u] # "write"
    BY <1>0 DEF SlotKept
  <2>2. \A u \in Threads : sp'[u] = "copy" => u \in overlap'
    BY <1>0, <1>2
  <2>3. entry'.key = k
    BY <1>0
  <2>4. mutex' # Empty
    BY <1>0
  <2> QED
    BY <1>0, <1>2, <2>1, <2>2, <2>3, <2>4 DEF SlotKept
<1>5. FoundPair'
  BY <1>0, <1>2 DEF FoundPair
<1> QED
  BY <1>1, <1>3, <1>4, <1>5

\* It ends: its pair is in the slot.
LEMMA WriteEndInv ==
  ASSUME MdbInv, NEW t \in Threads, WriteEnd(t)
  PROVE  MdbInv'
<1> USE MdbAssumption DEF MdbInv
<1>0. /\ sp[t] = "write" /\ mutex' = Empty
      /\ entry' = [entry EXCEPT !.value = arg[t].value]
      /\ inserted' = inserted \cup {arg[t]}
      /\ sp' = [sp EXCEPT ![t] = "done"]
      /\ UNCHANGED <<arg, res, overlap, abandoned>>
  BY DEF WriteEnd
<1>1. arg[t] \in [key : Keys, value : Writers] /\ res[t] = Empty
  BY <1>0 DEF CallTypes
<1>2. MdbTypeOK'
  BY <1>0, <1>1 DEF MdbTypeOK
<1>3. sp'[t] = "done" /\ \A u \in Threads : u # t => sp'[u] = sp[u]
  BY <1>0 DEF MdbTypeOK
<1>4. CallTypes'
  BY <1>0, <1>3 DEF CallTypes
<1>5. SlotKept'
  <2> SUFFICES ASSUME ~abandoned
               PROVE  SlotKept'
    BY <1>0 DEF SlotKept
  <2>1. mutex = t /\ entry.key = arg[t].key
    BY <1>0 DEF SlotKept
  <2>2. \A u \in Threads : sp'[u] # "write" /\ mutex' # u
    BY <1>0, <1>3, <2>1 DEF SlotKept
  <2>3. entry' = arg[t] /\ entry' \in inserted'
    <3>1. entry' = [key |-> entry.key, value |-> arg[t].value]
      BY <1>0 DEF MdbTypeOK
    <3>2. arg[t] = [key |-> arg[t].key, value |-> arg[t].value]
      BY <1>1
    <3> QED
      BY <1>0, <2>1, <3>1, <3>2
  <2>4. \A u \in Threads : sp[u] = "copy" => u \in overlap
    BY <2>1 DEF SlotKept
  <2> QED
    BY <1>0, <1>3, <2>2, <2>3, <2>4 DEF SlotKept
<1>6. FoundPair'
  BY <1>0, <1>1, <1>3 DEF FoundPair
<1> QED
  BY <1>2, <1>4, <1>5, <1>6

\* A find compares the key.
LEMMA FindInv ==
  ASSUME MdbInv, NEW t \in Threads, NEW k \in Keys, mdb_find(t, k)
  PROVE  MdbInv'
<1> USE MdbAssumption DEF MdbInv, MutexFree, SameKey
<1>0. /\ sp[t] = "idle"
      /\ arg' = [arg EXCEPT ![t] = [key |-> k, value |-> Empty]]
      /\ overlap' = overlap \ {t}
      /\ UNCHANGED <<entry, mutex, inserted, abandoned>>
  BY DEF mdb_find
<1>1. res[t] = Empty
  BY <1>0 DEF CallTypes
<1>2. /\ res' = res
      /\ \/ sp' = [sp EXCEPT ![t] = "copy"] /\ mutex = Empty /\ entry.key = k
         \/ sp' = [sp EXCEPT ![t] = "done"]
  BY <1>1 DEF mdb_find, MdbTypeOK
<1>3. MdbTypeOK'
  BY <1>0, <1>2 DEF MdbTypeOK
<1>4. /\ arg'[t].key = k
      /\ \A u \in Threads : u # t => sp'[u] = sp[u] /\ arg'[u] = arg[u]
      /\ sp'[t] = "done" \/ (sp'[t] = "copy" /\ mutex = Empty /\ entry.key = k)
  BY <1>0, <1>2 DEF MdbTypeOK
<1>5. CallTypes'
  BY <1>0, <1>1, <1>2, <1>4 DEF CallTypes
<1>6. SlotKept'
  BY <1>0, <1>2, <1>4 DEF SlotKept
<1>7. FoundPair'
  BY <1>0, <1>1, <1>2, <1>4 DEF FoundPair
<1> QED
  BY <1>3, <1>5, <1>6, <1>7

\* A find copies the value without the mutex.
LEMMA CopyInv ==
  ASSUME MdbInv, NEW t \in Threads, Copy(t)
  PROVE  MdbInv'
<1> USE MdbAssumption DEF MdbInv
<1>0. /\ sp[t] = "copy" /\ sp' = [sp EXCEPT ![t] = "done"]
      /\ UNCHANGED <<entry, mutex, arg, overlap, inserted, abandoned>>
      /\ \/ res' = [res EXCEPT ![t] = entry.value]
         \/ t \in overlap /\ res' = [res EXCEPT ![t] = Torn]
  BY DEF Copy
<1>1. MdbTypeOK'
  BY <1>0 DEF MdbTypeOK
<1>2. /\ sp'[t] = "done" /\ (res'[t] = entry.value \/ t \in overlap)
      /\ \A u \in Threads : u # t => sp'[u] = sp[u] /\ res'[u] = res[u]
  BY <1>0 DEF MdbTypeOK
<1>3. CallTypes'
  BY <1>0, <1>2 DEF CallTypes
<1>4. SlotKept'
  BY <1>0, <1>2 DEF SlotKept
<1>5. FoundPair'
  <2>1. ASSUME ~abandoned, t \notin overlap, res'[t] # Empty
        PROVE  [key |-> arg[t].key, value |-> res'[t]] \in inserted
    <3>1. mutex = Empty /\ entry.key = arg[t].key
      BY <1>0, <2>1 DEF SlotKept
    <3>2. entry \in inserted
      BY <1>2, <2>1, <3>1 DEF SlotKept
    <3>3. entry = [key |-> arg[t].key, value |-> res'[t]]
      BY <1>2, <2>1, <3>1 DEF MdbTypeOK
    <3> QED
      BY <3>2, <3>3
  <2> QED
    BY <1>0, <1>2, <2>1 DEF FoundPair
<1> QED
  BY <1>1, <1>3, <1>4, <1>5

\* Every step keeps the invariant of the cache.
LEMMA MdbStepInv == MdbInv /\ MdbStep => MdbInv'
<1> SUFFICES ASSUME MdbInv, MdbStep
             PROVE  MdbInv'
  OBVIOUS
<1>1. ASSUME NEW t \in Threads, StoreDone(t)
      PROVE  MdbInv'
  <2> USE DEF MdbInv
  <2>0. /\ sp[t] = "done" /\ sp' = [sp EXCEPT ![t] = "idle"]
        /\ arg' = [arg EXCEPT ![t] = NoArg]
        /\ res' = [res EXCEPT ![t] = Empty]
        /\ overlap' = overlap \ {t}
        /\ UNCHANGED <<entry, mutex, inserted, abandoned>>
    BY <1>1 DEF StoreDone
  <2>1. MdbTypeOK'
    BY <2>0 DEF MdbTypeOK, NoArg
  <2>2. /\ sp'[t] = "idle" /\ res'[t] = Empty
        /\ \A u \in Threads : u # t => /\ sp'[u] = sp[u] /\ res'[u] = res[u]
                                       /\ arg'[u] = arg[u]
    BY <2>0 DEF MdbTypeOK
  <2>3. CallTypes'
    BY <2>0, <2>2 DEF CallTypes
  <2>4. SlotKept'
    BY <2>0, <2>2 DEF SlotKept
  <2>5. FoundPair'
    BY <2>0, <2>2 DEF FoundPair
  <2> QED
    BY <2>1, <2>3, <2>4, <2>5
<1>2. CASE Die(Workers)
  <2> USE MdbAssumption DEF MdbInv
  <2>0. /\ UNCHANGED <<entry, sp, arg, res, overlap, inserted>>
        /\ mutex' \in {mutex, Empty} /\ abandoned' = (abandoned \/ mutex \in Workers)
        /\ mutex \notin Workers => mutex' = mutex
    BY <1>2 DEF Die
  <2>1. MdbTypeOK'
    BY <2>0 DEF MdbTypeOK
  <2>2. CallTypes'
    BY <2>0 DEF CallTypes
  <2>3. SlotKept'
    BY <2>0 DEF SlotKept
  <2>4. FoundPair'
    BY <2>0 DEF FoundPair
  <2> QED
    BY <2>1, <2>2, <2>3, <2>4
<1>3. CASE UNCHANGED mdbVars
  BY <1>3 DEF mdbVars, MdbInv, MdbTypeOK, CallTypes, SlotKept, FoundPair
<1> QED
  BY <1>1, <1>2, <1>3, InsertInv, NoInsertInv, WriteEndInv, FindInv, CopyInv DEF MdbStep
-----------------------------------------------------------------------------
\* The states of a thread.
Places == {"idle", "handle", "store", "next", "status", "ended"}

\* At the start there is no connection.
LEMMA ServerInitInv == Init => ServerInv
<1> SUFFICES ASSUME Init
             PROVE  ServerInv
  OBVIOUS
<1>1. MdbTypeOK
  BY MdbInitInv DEF Init, MdbInv
<1>2. recvs = {} /\ port = {} /\ Hands = {} /\ Working = {} /\ open = {} /\ backlog = {}
      /\ live = {}
  BY DEF Init, Hands, Working
<1>3. TypeOK
  <2>1. unread \in [Clients -> Seq(Msgs)]
    BY EmptySeq DEF Init
  <2>2. {overtaken, crashed} \subseteq BOOLEAN
    BY DEF Init
  <2> QED
    BY <1>1, <1>2, <2>1, <2>2 DEF Init, TypeOK
<1>4. Types
  BY <1>2, <1>3 DEF Types, Init
<1>5. OneHand
  BY <1>2 DEF OneHand
<1>6. OpenInHand
  BY <1>2 DEF OpenInHand, InHand
<1>7. OwnObject
  BY <1>2 DEF OwnObject
<1> QED
  BY <1>4, <1>5, <1>6, <1>7 DEF ServerInv

\* A step of a client, of a view or of the cache: connections stay where they
\* are.
LEMMA ElsewhereInv ==
  ASSUME ServerInv, MdbTypeOK', UNCHANGED <<connVars, ioVars, histVars>>,
         crashed' \in BOOLEAN, backlog' \in SUBSET Clients,
         peer' \in [Clients -> {"new", "open", "left", "reset"}],
         unread' \in [Clients -> Seq(Msgs)],
         \A k \in Clients : peer[k] = "reset" => peer'[k] = "reset",
         \A k \in Clients : peer'[k] = "new" => peer[k] = "new" /\ k \notin backlog',
         \A k \in backlog' : k \in backlog \/ peer[k] = "new"
  PROVE  ServerInv'
<1> USE DEF ServerInv, connVars, ioVars, histVars
<1>1. Hands' = Hands /\ Working' = Working
  BY DEF Hands, Working
<1>2. Types'
  BY <1>1 DEF Types, TypeOK
<1>3. OneHand'
  BY <1>1 DEF OneHand
<1>4. OpenInHand'
  <2>1. \A k \in Clients : InHand(k)' <=> InHand(k)
    BY <1>1 DEF InHand
  <2>2. \A k \in open : k \in Clients
    BY DEF Types, TypeOK
  <2>3. \A e \in port : e[2] \in Clients
    BY DEF Types, Completions
  <2> QED
    BY <2>1, <2>2, <2>3 DEF OpenInHand
<1>5. OwnObject'
  BY <1>1 DEF OwnObject
<1> QED
  BY <1>2, <1>3, <1>4, <1>5

\* A thread goes on with the message it has in hand.
LEMMA MovesOnInv ==
  ASSUME ServerInv, MdbTypeOK', UNCHANGED <<clientVars, connVars, recvs, port, job, overtaken>>,
         crashed' \in BOOLEAN,
         NEW w \in Workers, pc[w] \in {"handle", "store"},
         NEW s \in {"store", "next"}, pc' = [pc EXCEPT ![w] = s],
         loggedIn \subseteq loggedIn', ~overtaken => job[w][2] \in loggedIn'
  PROVE  ServerInv'
<1> USE DEF ServerInv, clientVars, connVars
<1>0. pc \in [Workers -> Places]
  BY DEF Types, TypeOK, Places
<1>1. Hands' = Hands /\ Working' = Working
  BY <1>0 DEF Hands, Working
<1>2. Types'
  BY <1>0, <1>1 DEF Types, TypeOK, Places
<1>3. OneHand'
  BY <1>1 DEF OneHand
<1>4. OpenInHand'
  BY <1>1 DEF OpenInHand, InHand
<1>5. OwnObject'
  <2>1. \A v \in Working : pc'[v] # "handle" => v = w \/ pc[v] # "handle"
    BY <1>0 DEF Working
  <2> QED
    BY <1>1, <2>1 DEF OwnObject
<1> QED
  BY <1>2, <1>3, <1>4, <1>5

\* A client is accepted: the first WSARecv is its hand, unless it has reset
\* the connection.
LEMMA AcceptInv ==
  ASSUME ServerInv, MdbTypeOK', Accept
  PROVE  ServerInv'
<1> USE DEF ServerInv
<1>0. PICK k \in backlog, a \in Addrs \ live :
        /\ backlog' = backlog \ {k} /\ open' = open \cup {k} /\ live' = live \cup {a}
        /\ Socket' = [Socket EXCEPT ![a] = k] /\ status' = [status EXCEPT ![a] = 0]
        /\ WSARecv(a, k)
        /\ UNCHANGED <<peer, unread, sent, port, pc, job, loggedIn, overtaken, crashed>>
  BY DEF Accept, FirstStatus, histVars
<1>1. Hands' = Hands /\ Working' = Working
  BY <1>0 DEF Hands, Working
<1>2. k \in Clients /\ k \notin open /\ ~InHand(k)
  BY DEF Types, TypeOK, OpenInHand
<1>3. \/ recvs' = recvs \cup {<<a, k>>}
      \/ peer[k] = "reset" /\ recvs' = recvs
  BY <1>0 DEF WSARecv
<1>4. /\ \A b \in live : b # a /\ b \in Addrs /\ Socket'[b] = Socket[b] /\ status'[b] = status[b]
      /\ Socket'[a] = k /\ status'[a] = 0
  BY <1>0 DEF Types, TypeOK
<1>5. Types'
  BY <1>0, <1>1, <1>2, <1>3 DEF Types, TypeOK
<1>6. OneHand'
  BY <1>0, <1>1, <1>2, <1>3 DEF OneHand, InHand
<1>7. OpenInHand'
  <2>1. \A c \in Clients : c # k => (InHand(c)' <=> InHand(c))
    BY <1>0, <1>1, <1>3 DEF InHand
  <2>2. InHand(k)' \/ peer[k] = "reset"
    <3>1. <<a, k>>[2] = k
      OBVIOUS
    <3> QED
      BY <1>3, <3>1 DEF InHand
  <2>3. \A c \in open : c \in Clients
    BY DEF Types, TypeOK
  <2> QED
    BY <1>0, <1>2, <2>1, <2>2, <2>3 DEF OpenInHand
<1>8. OwnObject'
  BY <1>0, <1>1, <1>3, <1>4 DEF OwnObject
<1> QED
  BY <1>5, <1>6, <1>7, <1>8
\* The system hands the client on to the port, with its message or with the
\* news that it has left.
LEMMA CompleteInv ==
  ASSUME ServerInv, MdbTypeOK', NEW a \in Addrs, NEW k \in Clients, Complete(a, k)
  PROVE  ServerInv'
<1> USE DEF ServerInv
<1>0. /\ <<a, k>> \in recvs /\ recvs' = recvs \ {<<a, k>>}
      /\ UNCHANGED <<peer, backlog, sent, connVars, pc, job, histVars, crashed>>
  BY DEF Complete
<1>1. PICK m \in Msgs \cup {"zero", "deleted", "failed"}, alone \in BOOLEAN :
        /\ port' = port \cup {<<a, k, m, alone>>}
        /\ m \in {"deleted", "failed"} => peer[k] = "reset"
        /\ unread' \in [Clients -> Seq(Msgs)]
  <2>1. CASE \E n \in 1 .. Len(unread[k]) :
               /\ port' = port \cup {<<a, k, Head(unread[k]), n = 1>>}
               /\ unread' = [unread EXCEPT ![k] = SubSeq(@, n + 1, Len(@))]
    <3>1. PICK n \in 1 .. Len(unread[k]) :
               /\ port' = port \cup {<<a, k, Head(unread[k]), n = 1>>}
               /\ unread' = [unread EXCEPT ![k] = SubSeq(unread[k], n + 1, Len(unread[k]))]
      BY <2>1
    <3>2. unread \in [Clients -> Seq(Msgs)]
      BY DEF Types, TypeOK
    <3>3. Len(unread[k]) \in Nat /\ unread[k] # <<>>
      BY <3>1, <3>2
    <3>4. Head(unread[k]) \in Msgs
      BY <3>2, <3>3, HeadTailProperties
    <3>5. SubSeq(unread[k], n + 1, Len(unread[k])) \in Seq(Msgs)
      BY <3>2, <3>3, SubSeqProperties
    <3>6. unread' \in [Clients -> Seq(Msgs)]
      BY <3>1, <3>2, <3>5
    <3>7. Head(unread[k]) \notin {"deleted", "failed"} /\ (n = 1) \in BOOLEAN
      BY <3>4 DEF Msgs
    <3> QED
      BY <3>1, <3>4, <3>6, <3>7
  <2>2. CASE unread[k] = <<>> /\ peer[k] = "left"
             /\ port' = port \cup {<<a, k, "zero", TRUE>>} /\ UNCHANGED unread
    BY <2>2 DEF Types, TypeOK
  <2>3. CASE peer[k] = "reset" /\ UNCHANGED unread
             /\ \E e \in {"deleted", "failed"} : port' = port \cup {<<a, k, e, TRUE>>}
    BY <2>3 DEF Types, TypeOK
  <2> QED
    BY <2>1, <2>2, <2>3 DEF Complete
<1> DEFINE j == <<a, k, m, alone>>
<1>2. /\ port' = port \cup {j} /\ j \in Completions /\ j[1] = a /\ j[2] = k /\ j[3] = m
      /\ <<a, k>>[1] = a /\ <<a, k>>[2] = k
  BY <1>1 DEF Completions
<1> HIDE DEF j
<1>3. Hands' = Hands /\ Working' = Working
  BY <1>0 DEF Hands, Working
<1>4. Types'
  BY <1>0, <1>1, <1>2, <1>3 DEF Types, TypeOK, connVars, histVars
<1>5. OneHand'
  BY <1>0, <1>2, <1>3 DEF OneHand
<1>6. OpenInHand'
  <2>1. \A c \in Clients : InHand(c)' <=> InHand(c)
    BY <1>0, <1>2, <1>3 DEF InHand, OneHand
  <2>2. \A c \in open : c \in Clients
    BY DEF Types, TypeOK
  <2> QED
    BY <1>0, <1>1, <1>2, <2>1, <2>2 DEF OpenInHand, connVars
<1>7. OwnObject'
  BY <1>0, <1>2, <1>3 DEF OwnObject, connVars, histVars
<1> QED
  BY <1>4, <1>5, <1>6, <1>7

\* A thread takes a message: the client leaves the port for the thread's hand.
LEMMA TakeInv ==
  ASSUME ServerInv, MdbTypeOK', NEW w \in Workers, NEW j \in port, pc[w] = "idle",
         j[3] \in Msgs, port' = port \ {j},
         pc' = [pc EXCEPT ![w] = "handle"], job' = [job EXCEPT ![w] = j],
         UNCHANGED <<clientVars, connVars, recvs, histVars, crashed>>
  PROVE  ServerInv'
<1> USE DEF ServerInv, clientVars, connVars, histVars
<1>0. /\ pc \in [Workers -> Places] /\ j \in Completions
      /\ job \in [Workers -> Completions \cup {NoJob}]
  BY DEF Types, TypeOK, Places
<1>1. /\ w \notin Working /\ w \notin Hands
      /\ Hands' = Hands \cup {w} /\ Working' = Working \cup {w}
      /\ job'[w] = j /\ pc'[w] = "handle"
      /\ \A v \in Working : v # w /\ job'[v] = job[v] /\ pc'[v] = pc[v]
      /\ \A v \in Hands : v # w /\ job'[v] = job[v]
  BY <1>0 DEF Hands, Working, Places
<1>2. Types'
  <2>1. pc' \in [Workers -> Places] /\ job' \in [Workers -> Completions \cup {NoJob}]
    BY <1>0 DEF Places
  <2> QED
    BY <1>0, <1>1, <2>1 DEF Types, TypeOK, Places
<1>3. OneHand'
  BY <1>1 DEF OneHand
<1>4. OpenInHand'
  <2>1. \A c \in Clients : InHand(c)' <=> InHand(c)
    BY <1>1 DEF InHand, OneHand
  <2>2. \A c \in open : c \in Clients
    BY DEF Types, TypeOK
  <2> QED
    BY <2>1, <2>2 DEF OpenInHand
<1>5. OwnObject'
  BY <1>1 DEF OwnObject
<1> QED
  BY <1>2, <1>3, <1>4, <1>5

\* A completion with an error is dropped with the thread: its client has reset
\* the connection.
LEMMA EndInv ==
  ASSUME ServerInv, MdbTypeOK', NEW w \in Workers, NEW j \in port, pc[w] = "idle",
         j[3] = "failed", port' = port \ {j}, pc' = [pc EXCEPT ![w] = "ended"],
         crashed' \in BOOLEAN,
         UNCHANGED <<clientVars, connVars, recvs, job, histVars>>
  PROVE  ServerInv'
<1> USE DEF ServerInv, clientVars, connVars, histVars
<1>0. pc \in [Workers -> Places]
  BY DEF Types, TypeOK, Places
<1>1. /\ Hands' = Hands /\ Working' = Working
      /\ \A v \in Working : pc'[v] = pc[v]
  BY <1>0 DEF Hands, Working, Places
<1>2. Types'
  BY <1>0, <1>1 DEF Types, TypeOK, Places
<1>3. OneHand'
  BY <1>1 DEF OneHand
<1>4. OpenInHand'
  <2>1. \A c \in Clients : (InHand(c)' => InHand(c)) /\ (InHand(c) => InHand(c)' \/ c = j[2])
    BY <1>1 DEF InHand
  <2>2. peer[j[2]] = "reset"
    BY DEF OpenInHand
  <2>3. \A c \in open : c \in Clients
    BY DEF Types, TypeOK
  <2> QED
    BY <2>1, <2>2, <2>3 DEF OpenInHand
<1>5. OwnObject'
  BY <1>1 DEF OwnObject
<1> QED
  BY <1>2, <1>3, <1>4, <1>5
\* Whoever has a client in hand closes its socket and frees its object: until
\* a message overtakes a login, nobody else works with that object.
LEMMA CloseInv ==
  ASSUME ServerInv, Types', NEW a \in Addrs, NEW k \in Clients, CloseAndFree(a, k),
         ~overtaken => Socket[a] = k,
         UNCHANGED <<clientVars, recvs, loggedIn>>, port' \subseteq port,
         Working' \subseteq Working, Hands' \subseteq Hands,
         \A v \in Working' : job'[v] = job[v] /\ pc'[v] = pc[v],
         ~InHand(k)', \A c \in Clients : c # k => (InHand(c)' <=> InHand(c))
  PROVE  ServerInv'
<1> USE DEF ServerInv, clientVars
<1>0. /\ open' = open \ {k} /\ live' = live \ {a} /\ UNCHANGED <<Socket, status>>
      /\ overtaken' = (overtaken \/ SettingStatus(a) # {})
  BY DEF CloseAndFree
<1>1. \A v \in Hands' : v \in Working' /\ job'[v] = job[v]
  BY DEF Hands, Working
<1>2. OneHand'
  BY <1>1 DEF OneHand
<1>3. OpenInHand'
  <2>1. \A c \in open : c \in Clients
    BY DEF Types, TypeOK
  <2> QED
    BY <1>0, <2>1 DEF OpenInHand
<1>4. OwnObject'
  <2> SUFFICES ASSUME ~overtaken'
               PROVE  OwnObject'
    BY DEF OwnObject
  <2>1. ~overtaken /\ SettingStatus(a) = {} /\ Socket[a] = k
    BY <1>0 DEF Types, TypeOK
  <2>2. /\ \A r \in recvs : r[2] # k
        /\ \A e \in port' : e[2] # k
        /\ \A v \in Hands' : job[v][2] # k
    BY <1>1 DEF InHand
  <2>3. \A v \in Working' : job[v][1] # a
    <3>1. \A v \in Working' : v \in Hands' \/ (v \in Workers /\ pc[v] = "status")
      BY DEF Working, Hands
    <3> QED
      BY <2>1, <2>2, <3>1 DEF OwnObject, SettingStatus
  <2>4. /\ \A r \in recvs : r[1] # a
        /\ \A e \in port' : e[1] # a
    BY <2>1, <2>2 DEF OwnObject
  <2> QED
    BY <1>0, <2>1, <2>3, <2>4 DEF OwnObject
<1> QED
  BY <1>2, <1>3, <1>4

\* A thread takes a completion.
LEMMA DequeueInv ==
  ASSUME ServerInv, MdbTypeOK', NEW w \in Workers, Dequeue(w)
  PROVE  ServerInv'
<1>0. PICK j \in port :
        /\ pc[w] = "idle" /\ port' = port \ {j}
        /\ UNCHANGED <<clientVars, recvs, loggedIn>>
        /\ \/ /\ j[3] \in {"zero", "deleted"} /\ CloseAndFree(j[1], j[2])
              /\ UNCHANGED <<pc, job, crashed>>
           \/ /\ j[3] = "failed" /\ pc' = [pc EXCEPT ![w] = "ended"]
              /\ UNCHANGED crashed \/ crashed' = TRUE
              /\ UNCHANGED <<connVars, job, overtaken>>
           \/ /\ j[3] \in Msgs /\ pc' = [pc EXCEPT ![w] = "handle"]
              /\ job' = [job EXCEPT ![w] = j]
              /\ UNCHANGED <<connVars, overtaken, crashed>>
  BY DEF Dequeue, Lives, Crash
<1>1. CASE j[3] \in {"zero", "deleted"} /\ CloseAndFree(j[1], j[2])
           /\ UNCHANGED <<pc, job, crashed>>
  <2> USE DEF ServerInv
  <2>1. Hands' = Hands /\ Working' = Working
    BY <1>1 DEF Hands, Working
  <2>2. j[1] \in Addrs /\ j[2] \in Clients
    BY DEF Types, Completions
  <2>3. Types'
    <3>1. /\ open' \in SUBSET Clients /\ live' \in SUBSET Addrs
          /\ UNCHANGED <<Socket, status>> /\ overtaken' \in BOOLEAN
      BY <1>1 DEF CloseAndFree, Types, TypeOK
    <3> QED
      BY <1>0, <1>1, <2>1, <3>1 DEF Types, TypeOK, clientVars
  <2>4. ~InHand(j[2])' /\ \A c \in Clients : c # j[2] => (InHand(c)' <=> InHand(c))
    BY <1>0, <1>1, <2>1 DEF InHand, OneHand
  <2>5. ~overtaken => Socket[j[1]] = j[2]
    BY DEF OwnObject
  <2> QED
    BY <1>0, <1>1, <2>1, <2>2, <2>3, <2>4, <2>5, CloseInv
<1>2. CASE j[3] = "failed" /\ pc' = [pc EXCEPT ![w] = "ended"]
           /\ (UNCHANGED crashed \/ crashed' = TRUE)
           /\ UNCHANGED <<connVars, job, overtaken>>
  <2>1. crashed' \in BOOLEAN
    BY <1>2 DEF ServerInv, Types, TypeOK
  <2> QED
    BY <1>0, <1>2, <2>1, EndInv DEF histVars
<1>3. CASE j[3] \in Msgs /\ pc' = [pc EXCEPT ![w] = "handle"]
           /\ job' = [job EXCEPT ![w] = j] /\ UNCHANGED <<connVars, overtaken, crashed>>
  BY <1>0, <1>3, TakeInv DEF histVars
<1> QED
  BY <1>0, <1>1, <1>2, <1>3

\* The first message: the password logs in, anything else closes.
LEMMA LoginInv ==
  ASSUME ServerInv, MdbTypeOK', NEW w \in Workers, Login(w)
  PROVE  ServerInv'
<1>0. pc[w] = "handle" /\ UNCHANGED <<clientVars, recvs, port, crashed>>
  BY DEF Login
<1>a. PICK a \in Addrs, k \in Clients : a = job[w][1] /\ k = job[w][2]
  <2>1. w \in Working
    BY <1>0 DEF Working
  <2> QED
    BY <2>1 DEF ServerInv, Types, Completions
<1>1. CASE /\ loggedIn' = loggedIn \cup {k} /\ pc' = [pc EXCEPT ![w] = "next"]
           /\ UNCHANGED <<connVars, job, overtaken>>
  <2>1. crashed' \in BOOLEAN
    BY <1>0 DEF ServerInv, Types, TypeOK
  <2> QED
    BY <1>0, <1>1, <1>a, <2>1, MovesOnInv
<1>2. CASE /\ CloseAndFree(a, k) /\ pc' = [pc EXCEPT ![w] = "idle"]
           /\ job' = [job EXCEPT ![w] = NoJob] /\ UNCHANGED loggedIn
  <2> USE DEF ServerInv
  <2>1. /\ pc \in [Workers -> Places] /\ job \in [Workers -> Completions \cup {NoJob}]
        /\ w \in Working /\ w \in Hands
    BY <1>0 DEF Types, TypeOK, Places, Working, Hands
  <2>3. /\ Hands' = Hands \ {w} /\ Working' = Working \ {w}
        /\ \A v \in Working' : job'[v] = job[v] /\ pc'[v] = pc[v]
    BY <1>2, <2>1 DEF Hands, Working
  <2>4. Types'
    <3>1. /\ open' \in SUBSET Clients /\ live' \in SUBSET Addrs
          /\ UNCHANGED <<Socket, status>> /\ overtaken' \in BOOLEAN
      BY <1>2 DEF CloseAndFree, Types, TypeOK
    <3>2. pc' \in [Workers -> Places] /\ job' \in [Workers -> Completions \cup {NoJob}]
      BY <1>2, <2>1 DEF Places
    <3> QED
      BY <1>0, <1>2, <2>3, <3>1, <3>2 DEF Types, TypeOK, clientVars, Places
  <2>5. \A v \in Hands' : job'[v] = job[v] /\ v # w /\ v \in Hands
    BY <2>3 DEF Hands, Working
  <2>6. ~InHand(k)' /\ \A c \in Clients : c # k => (InHand(c)' <=> InHand(c))
    BY <1>0, <1>a, <2>1, <2>3, <2>5 DEF InHand, OneHand
  <2>7. ~overtaken => Socket[a] = k
    BY <1>a, <2>1 DEF OwnObject
  <2> QED
    BY <1>0, <1>2, <2>3, <2>4, <2>6, <2>7, CloseInv
<1> QED
  BY <1>a, <1>1, <1>2 DEF Login

\* A later message: its client has logged in, since status says so.
LEMMA ServeInv ==
  ASSUME ServerInv, MdbTypeOK', NEW w \in Workers, Serve(w)
  PROVE  ServerInv'
<1>0. /\ pc[w] = "handle" /\ status[job[w][1]] # 0
      /\ UNCHANGED <<clientVars, connVars, recvs, port, job, histVars, crashed>>
      /\ pc' = [pc EXCEPT ![w] = "store"] \/ pc' = [pc EXCEPT ![w] = "next"]
  BY DEF Serve
<1>1. crashed' \in BOOLEAN
  BY <1>0 DEF ServerInv, Types, TypeOK
<1>2. ~overtaken => job[w][2] \in loggedIn
  <2>1. w \in Working
    BY <1>0 DEF Working
  <2>2. job[w][1] \in Addrs
    BY <2>1 DEF ServerInv, Types, Completions
  <2>3. status[job[w][1]] = 1
    BY <1>0, <2>2 DEF ServerInv, Types, TypeOK
  <2> QED
    BY <2>1, <2>3 DEF ServerInv, OwnObject
<1> QED
  BY <1>0, <1>1, <1>2, MovesOnInv DEF histVars

\* next() posts the WSARecv: the client goes back to the system.
LEMMA PostInv ==
  ASSUME ServerInv, MdbTypeOK', NEW w \in Workers, Post(w)
  PROVE  ServerInv'
<1> USE DEF ServerInv
<1>a. PICK a \in Addrs, k \in Clients : a = job[w][1] /\ k = job[w][2]
  <2>1. w \in Working
    BY DEF Post, Working
  <2> QED
    BY <2>1 DEF Types, Completions
<1>0. /\ pc[w] = "next" /\ pc' = [pc EXCEPT ![w] = "status"]
      /\ UNCHANGED <<clientVars, connVars, port, job, histVars, crashed>>
      /\ \/ recvs' = recvs \cup {<<a, k>>}
         \/ peer[k] = "reset" /\ recvs' = recvs
  BY <1>a DEF Post, AfterPost, WSARecv
<1>1. pc \in [Workers -> Places] /\ w \in Working /\ w \in Hands
  BY <1>0 DEF Types, TypeOK, Places, Working, Hands
<1>2. /\ Hands' = Hands \ {w} /\ Working' = Working
      /\ \A v \in Working : v # w => pc'[v] = pc[v]
  BY <1>0, <1>1 DEF Hands, Working
<1>3. <<a, k>>[1] = a /\ <<a, k>>[2] = k /\ <<a, k>> \in Addrs \X Clients
  OBVIOUS
<1>4. Types'
  BY <1>0, <1>1, <1>2, <1>3 DEF Types, TypeOK, Places, clientVars, connVars, histVars
<1>5. OneHand'
  BY <1>a, <1>0, <1>1, <1>2, <1>3 DEF OneHand
<1>6. OpenInHand'
  <2>1. \A c \in Clients : c # k => (InHand(c)' <=> InHand(c))
    BY <1>a, <1>0, <1>1, <1>2, <1>3 DEF InHand
  <2>2. InHand(k)' \/ peer[k] = "reset"
    BY <1>0, <1>3 DEF InHand
  <2>3. k \in open
    BY <1>a, <1>1 DEF OpenInHand, InHand
  <2>4. \A c \in open : c \in Clients
    BY DEF Types, TypeOK
  <2> QED
    BY <1>0, <2>1, <2>2, <2>3, <2>4 DEF OpenInHand, clientVars, connVars
<1>7. OwnObject'
  BY <1>a, <1>0, <1>1, <1>2, <1>3 DEF OwnObject, connVars, histVars
<1> QED
  BY <1>4, <1>5, <1>6, <1>7

\* ... and sets status, as long as no message overtakes it in its own object.
LEMMA SetStatusInv ==
  ASSUME ServerInv, MdbTypeOK', NEW w \in Workers, SetStatus(w)
  PROVE  ServerInv'
<1> USE DEF ServerInv
<1> DEFINE a == job[w][1]
<1>0. /\ pc[w] = "status" /\ status' = [status EXCEPT ![a] = 1]
      /\ pc' = [pc EXCEPT ![w] = "idle"] /\ job' = [job EXCEPT ![w] = NoJob]
      /\ UNCHANGED <<clientVars, open, live, Socket, recvs, port, histVars>>
      /\ UNCHANGED crashed \/ crashed' = TRUE
  BY DEF SetStatus, NextStatus, Lives, Crash
<1>1. /\ pc \in [Workers -> Places] /\ job \in [Workers -> Completions \cup {NoJob}]
      /\ w \in Working /\ w \notin Hands
  BY <1>0 DEF Types, TypeOK, Places, Working, Hands
<1>2. a \in Addrs
  BY <1>1 DEF Types, Completions
<1>3. /\ Hands' = Hands /\ Working' = Working \ {w}
      /\ \A v \in Working' : v \in Working /\ job'[v] = job[v] /\ pc'[v] = pc[v]
      /\ \A v \in Hands : job'[v] = job[v]
  BY <1>0, <1>1 DEF Hands, Working
<1>4. Types'
  <2>1. /\ pc' \in [Workers -> Places] /\ job' \in [Workers -> Completions \cup {NoJob}]
        /\ status' \in [Addrs -> {0, 1}] /\ crashed' \in BOOLEAN
    BY <1>0, <1>1 DEF Types, TypeOK, Places
  <2> QED
    BY <1>0, <1>3, <2>1 DEF Types, TypeOK, Places, clientVars, histVars
<1>5. OneHand'
  BY <1>0, <1>3 DEF OneHand
<1>6. OpenInHand'
  BY <1>0, <1>3 DEF OpenInHand, InHand, clientVars
<1>7. OwnObject'
  <2> SUFFICES ASSUME ~overtaken
               PROVE  OwnObject'
    BY <1>0 DEF OwnObject, histVars
  <2>1. Socket[a] \in loggedIn
    BY <1>0, <1>1 DEF OwnObject
  <2>2. \A b \in live : b # a => status'[b] = status[b]
    BY <1>0 DEF Types, TypeOK
  <2> QED
    BY <1>0, <1>3, <2>1, <2>2 DEF OwnObject, histVars
<1> QED
  BY <1>4, <1>5, <1>6, <1>7
-----------------------------------------------------------------------------
\* What the steps of the server do to the cache.
LEMMA ServerMdbStep ==
  ASSUME Types, [Next]_vars
  PROVE  MdbStep
<1> USE MdbServerAssumption DEF Threads
<1>1. ASSUME NEW w \in Workers, Serve(w)
      PROVE  MdbStep
  <2>1. w \in Working
    BY <1>1 DEF Serve, Working
  <2>2. job[w][2] \in Writers
    BY <2>1 DEF Types, Completions
  <2> QED
    BY <1>1, <2>2 DEF Serve, MdbStep
<1>2. ASSUME NEW w \in Workers, WorkerStep(w)
      PROVE  MdbStep
  <2>1. CASE Dequeue(w)
    BY <2>1 DEF Dequeue, Lives, Crash, MdbStep
  <2>2. CASE Login(w)
    BY <2>2 DEF Login, MdbStep
  <2>3. CASE StoreStep(w)
    BY <2>3 DEF StoreStep, MdbStep
  <2>4. CASE Answer(w)
    BY <2>4 DEF Answer, Crash, MdbStep
  <2>5. CASE Post(w)
    BY <2>5 DEF Post, MdbStep
  <2>6. CASE SetStatus(w)
    BY <2>6 DEF SetStatus, Lives, Crash, MdbStep
  <2> QED
    BY <1>1, <1>2, <2>1, <2>2, <2>3, <2>4, <2>5, <2>6 DEF WorkerStep
<1>3. ASSUME NEW t \in Views, View(t)
      PROVE  MdbStep
  BY <1>3 DEF View, ViewStep, MdbStep
<1>4. ASSUME NEW k \in Clients, Connect(k) \/ Send(k) \/ Leave(k)
      PROVE  MdbStep
  BY <1>4 DEF Connect, Send, Leave, MdbStep
<1>5. CASE Accept
  BY <1>5 DEF Accept, MdbStep
<1>6. CASE Completion
  BY <1>6 DEF Completion, Complete, MdbStep
<1>7. CASE UNCHANGED vars
  BY <1>7 DEF vars, MdbStep
<1> QED
  BY <1>2, <1>3, <1>4, <1>5, <1>6, <1>7 DEF Next

\* A step of a client.
LEMMA ClientInv ==
  ASSUME ServerInv, MdbTypeOK', NEW k \in Clients, Connect(k) \/ Send(k) \/ Leave(k)
  PROVE  ServerInv'
<1> USE DEF ServerInv
<1>0. /\ peer \in [Clients -> {"new", "open", "left", "reset"}]
      /\ unread \in [Clients -> Seq(Msgs)] /\ backlog \in SUBSET Clients
      /\ \A c \in backlog : peer[c] # "new"
  BY DEF Types, TypeOK, OpenInHand
<1>1. UNCHANGED <<connVars, ioVars, histVars>> /\ crashed' \in BOOLEAN
  BY DEF Connect, Send, Leave, Types, TypeOK
<1>2. CASE Connect(k)
  BY <1>0, <1>1, <1>2, ElsewhereInv DEF Connect
<1>3. CASE Send(k)
  <2>1. PICK m \in Msgs : unread' = [unread EXCEPT ![k] = Append(unread[k], m)]
    BY <1>3 DEF Send
  <2>2. unread' \in [Clients -> Seq(Msgs)]
    BY <1>0, <2>1, AppendProperties
  <2> QED
    BY <1>0, <1>1, <1>3, <2>2, ElsewhereInv DEF Send
<1>4. CASE Leave(k)
  <2>1. unread' \in [Clients -> Seq(Msgs)]
    BY <1>0, <1>4, EmptySeq DEF Leave
  <2>2. /\ backlog' = backlog
        /\ peer' = [peer EXCEPT ![k] = "left"] \/ peer' = [peer EXCEPT ![k] = "reset"]
        /\ peer[k] = "open"
    BY <1>4 DEF Leave
  <2> QED
    BY <1>0, <1>1, <2>1, <2>2, ElsewhereInv
<1> QED
  BY <1>2, <1>3, <1>4

\* Every step keeps the invariant of the connections.
LEMMA ServerStepInv == ServerInv /\ MdbTypeOK' /\ [Next]_vars => ServerInv'
<1> SUFFICES ASSUME ServerInv, MdbTypeOK', [Next]_vars
             PROVE  ServerInv'
  OBVIOUS
<1>0. /\ peer \in [Clients -> {"new", "open", "left", "reset"}]
      /\ unread \in [Clients -> Seq(Msgs)] /\ backlog \in SUBSET Clients
      /\ \A c \in backlog : peer[c] # "new"
      /\ crashed \in BOOLEAN
  BY DEF ServerInv, Types, TypeOK, OpenInHand
<1>1. ASSUME UNCHANGED <<clientVars, connVars, ioVars, histVars>>, crashed' \in BOOLEAN
      PROVE  ServerInv'
  BY <1>0, <1>1, ElsewhereInv DEF clientVars
<1>2. ASSUME NEW w \in Workers, WorkerStep(w)
      PROVE  ServerInv'
  <2>1. CASE StoreStep(w)
    BY <1>0, <1>1, <2>1 DEF StoreStep
  <2>2. CASE Answer(w)
    <3>1. CASE pc' = [pc EXCEPT ![w] = "next"] /\ UNCHANGED crashed
      <4>1. w \in Working /\ pc[w] = "store"
        BY <2>2 DEF Answer, Working
      <4>2. ~overtaken => job[w][2] \in loggedIn
        BY <4>1 DEF ServerInv, OwnObject
      <4> QED
        BY <1>0, <2>2, <3>1, <4>1, <4>2, MovesOnInv DEF Answer, histVars
    <3>2. CASE Crash /\ UNCHANGED pc
      BY <1>1, <2>2, <3>2 DEF Answer, Crash, ioVars
    <3> QED
      BY <2>2, <3>1, <3>2 DEF Answer
  <2> QED
    BY <1>2, <2>1, <2>2, DequeueInv, LoginInv, ServeInv, PostInv, SetStatusInv DEF WorkerStep
<1>3. ASSUME NEW t \in Views, View(t)
      PROVE  ServerInv'
  BY <1>0, <1>1, <1>3 DEF View
<1>4. CASE UNCHANGED vars
  BY <1>0, <1>1, <1>4 DEF vars
<1> QED
  BY <1>2, <1>3, <1>4, ClientInv, AcceptInv, CompleteInv DEF Next, Completion

\* Both invariants hold in every reachable state.
LEMMA ServerInvariant == Spec => [](MdbInv /\ ServerInv)
<1>1. Init => MdbInv /\ ServerInv
  BY MdbInitInv, ServerInitInv DEF Init
<1>2. MdbInv /\ ServerInv /\ [Next]_vars => (MdbInv /\ ServerInv)'
  BY ServerMdbStep, MdbStepInv, ServerStepInv DEF MdbInv, ServerInv
<1> QED
  BY <1>1, <1>2, PTL DEF Spec

\* What mdb_find returns for a key was inserted under this key, although other
\* keys use the slot, two processes write it and the value is copied without
\* the mutex; unless an insert ran into the copy or a process died inserting.
THEOREM MdbFoundPair == Spec => []FoundPair
<1>1. MdbInv => FoundPair
  BY DEF MdbInv
<1> QED
  BY <1>1, ServerInvariant, PTL

\* Inserts and finds are carried out only for clients that have logged in,
\* however soon the objects of connections are reused, until a message
\* overtakes the login it follows.
THEOREM MdbServedAfterLogin == Spec => []ServedAfterLogin
<1>1. ServerInv => ServedAfterLogin
  BY DEF ServerInv, OwnObject, ServedAfterLogin, Working
<1> QED
  BY <1>1, ServerInvariant, PTL

\* A set whose members are all the same has one at most.
LEMMA AtMostOne ==
  ASSUME NEW S, \A x, y \in S : x = y
  PROVE  Cardinality(S) = IF S = {} THEN 0 ELSE 1
<1>1. CASE S = {}
  BY <1>1, FS_EmptySet
<1>2. CASE S # {}
  <2>1. PICK x \in S : S = {x}
    BY <1>2
  <2> QED
    BY <1>2, <2>1, FS_Singleton
<1> QED
  BY <1>1, <1>2

\* A client that stays is never forgotten and never in two hands, although
\* next() posts the following WSARecv before the thread is done with this one.
THEOREM MdbOneReceiver == Spec => []OneReceiver
<1>1. ASSUME ServerInv
      PROVE  OneReceiver
  <2>1. ASSUME NEW k \in open
        PROVE  LET hands == Cardinality({r \in recvs : r[2] = k})
                              + Cardinality({j \in port : j[2] = k})
                              + Cardinality(Handling(k))
               IN  hands <= 1 /\ (peer[k] # "reset" => hands = 1)
    <3> DEFINE R == {r \in recvs : r[2] = k}
               P == {j \in port : j[2] = k}
               H == Handling(k)
    <3>1. \A w \in H : w \in Hands /\ job[w][2] = k
      BY DEF Handling, Hands
    <3>2. /\ \A x, y \in R : x = y
          /\ \A x, y \in P : x = y
          /\ \A x, y \in H : x = y
      BY <1>1, <3>1 DEF ServerInv, OneHand
    <3>3. (R = {} \/ P = {}) /\ (R = {} \/ H = {}) /\ (P = {} \/ H = {})
      BY <1>1, <3>1 DEF ServerInv, OneHand
    <3>4. peer[k] # "reset" => R # {} \/ P # {} \/ H # {}
      BY <1>1 DEF ServerInv, OpenInHand, InHand, Handling, Hands
    <3> HIDE DEF R, P, H
    <3>5. /\ Cardinality(R) = IF R = {} THEN 0 ELSE 1
          /\ Cardinality(P) = IF P = {} THEN 0 ELSE 1
          /\ Cardinality(H) = IF H = {} THEN 0 ELSE 1
      BY <3>2, AtMostOne
    <3>6. /\ Cardinality(R) + Cardinality(P) + Cardinality(H) <= 1
          /\ peer[k] # "reset" => Cardinality(R) + Cardinality(P) + Cardinality(H) = 1
      BY <3>3, <3>4, <3>5
    <3> QED
      BY <3>6 DEF R, P, H
  <2> QED
    BY <1>1, <2>1 DEF OneReceiver, ServerInv, Types
<1> QED
  BY <1>1, ServerInvariant, PTL
=============================================================================

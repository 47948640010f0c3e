------------------------------ MODULE Session -------------------------------
(***************************************************************************)
(* The session table (Src/session.c) as the views of                       *)
(* Src/testviews/session.c use it from the threads of the server.          *)
(*                                                                         *)
(* The table has no lock.  A call is a walk along the chain of one bucket, *)
(* one node at a time, and new nodes and data are linked in at the head:   *)
(* the head is read in one step and written in a later one.  The tail of a *)
(* chain never changes once it is reachable, so a chain is a sequence and  *)
(* a pointer into it the sequence from there on.                           *)
(*                                                                         *)
(* raced records that two writers of one head overlapped (one is lost),    *)
(* that a writer was overtaken (a call that began when it writes would find*)
(* another place: a session or a datum of the same name was put before it),*)
(* or that a value was replaced, and its memory freed, while another       *)
(* thread held a pointer to it.                                            *)
(***************************************************************************)
EXTENDS Integers, Sequences

CONSTANTS
  Threads,
  Keys,
  HASH_DEC_LEN,
  SESSION_EXPIRE_DEFAULT,
  SECONDS,                \* seconds in a minute (60)
  MaxTime,                \* bound: how long the clock runs
  MaxCalls,               \* bound: calls of the session module
  None

ASSUME SessionAssumption ==
  /\ {HASH_DEC_LEN, SECONDS} \subseteq Nat \ {0}
  /\ {SESSION_EXPIRE_DEFAULT, MaxTime, MaxCalls} \subseteq Nat
  /\ None \notin Keys \cup Nat

VARIABLES
  now,
  chain,      \* chain[i]: the nodes from g_session_all_dec[i].next on
  nodes,      \* nodes[n]: the HashNode n: its code and its chain of data
  data,       \* data[d]: the SessionData d
  pc,         \* pc[t]: where thread t is
  call,       \* call[t]: arguments and local variables of t's call
  seen,       \* history: what a lookup would have found since the call began
  raced,      \* history: see above
  calls,      \* history: calls begun
  crashed

vars == <<now, chain, nodes, data, pc, call, seen, raced, calls, crashed>>

-----------------------------------------------------------------------------
\* get_random_str: the string is a function of the seed, which is the sum of
\* minute and second; it is represented by the seed.
get_random_str(time) == (time \div SECONDS) + (time % SECONDS)

Values == 1 .. MaxCalls

Codes == {(time \div SECONDS) + (time % SECONDS) : time \in 0 .. MaxTime}

\* The bucket of a code: BKDRHash modulo the length of the table.
Index(code) == code % HASH_DEC_LEN

\* The place at which a loop over a list stops, of those where it might.
First(places) == CHOOSE i \in places : \A j \in places : i <= j

\* The first datum of node n with name k, as the inner loops find it.
DatumOf(n, k) ==
  LET ds == {i \in DOMAIN nodes[n].value : data[nodes[n].value[i]].key = k}
  IN  IF ds = {} THEN None
      ELSE nodes[n].value[First(ds)]

\* What a call that walked the whole chain at once would find.
Visible(c, k) ==
  LET ns == chain[Index(c)]
      hits == {i \in DOMAIN ns : nodes[ns[i]].code = c /\ DatumOf(ns[i], k) # None}
  IN  IF hits = {} THEN None
      ELSE DatumOf(ns[First(hits)], k)

\* The node that a SessionAdd for code c would find.
SessionOf(c) ==
  LET ns == chain[Index(c)]
      hits == {i \in DOMAIN ns : nodes[ns[i]].code = c}
  IN  IF hits = {} THEN None ELSE ns[First(hits)]

\* Mutant: an entry expires a second late.
Fresh_Late(d, time) == time <= data[d].time_store + SESSION_EXPIRE_DEFAULT + 1

Fresh(d, time) == time <= data[d].time_store + SESSION_EXPIRE_DEFAULT

\* The table as one map from code and name to value and time of storing.
Table ==
  [e \in Codes \X Keys |->
     LET d == Visible(e[1], e[2])
     IN  IF d = None THEN None
         ELSE [data |-> data[d].data, time_store |-> data[d].time_store]]

\* The value getSession owes a caller that asks at the given time.
Lookup(c, k, time) ==
  LET d == Visible(c, k)
  IN  IF d = None THEN None
      ELSE IF time <= data[d].time_store + SESSION_EXPIRE_DEFAULT
           THEN data[d].data ELSE None

NoCall == [op |-> None]

Init ==
  /\ now = 0
  /\ chain = [i \in 0 .. HASH_DEC_LEN - 1 |-> <<>>]
  /\ nodes = <<>>
  /\ data = <<>>
  /\ pc = [t \in Threads |-> "idle"]
  /\ call = [t \in Threads |-> NoCall]
  /\ seen = [t \in Threads |-> {}]
  /\ raced = FALSE
  /\ calls = 0
  /\ crashed = FALSE

\* The history: what every call of getSession under way might find.
Observe ==
  seen' = [t \in Threads |->
             IF call'[t].op = "get"
             THEN IF pc'[t] = "answer" THEN seen[t]
                  ELSE seen[t] \cup {Lookup(call[t].code, call[t].key, call[t].at)'}
             ELSE {}]

\* Every call has a value of its own to store, its number.
NewValue == calls + 1

NewDatum(k) == [key |-> k, data |-> NewValue, time_store |-> now]

Return(t) ==
  /\ pc' = [pc EXCEPT ![t] = "idle"]
  /\ call' = [call EXCEPT ![t] = NoCall]

-----------------------------------------------------------------------------
\* SessionCreate: a node with its first datum, and the head of the chain.
SessionCreate(t) ==
  \E k \in Keys :
    LET c == get_random_str(now) IN
    /\ pc[t] = "idle"
    /\ data' = Append(data, NewDatum(k))
    /\ nodes' = Append(nodes, [code |-> c, value |-> <<Len(data) + 1>>])
    /\ pc' = [pc EXCEPT ![t] = "publish"]
    /\ call' = [call EXCEPT ![t] = [op |-> "create", code |-> c,
                                    node |-> Len(nodes) + 1,
                                    rest |-> chain[Index(c)]]]
    /\ UNCHANGED <<now, chain, raced, crashed>>

\* Mutant: the next pointer of the new head is not set.
Linked_Alone(x, tail) == <<x>>

\* x linked in before the list that was its head's next.
Linked(x, tail) == <<x>> \o tail

\* ... and the write of the head.
Publish(t) ==
  LET i == Index(call[t].code) IN
  /\ pc[t] = "publish"
  /\ chain' = [chain EXCEPT ![i] = Linked(call[t].node, call[t].rest)]
  /\ raced' = (raced \/ chain[i] # call[t].rest)
  /\ Return(t)
  /\ UNCHANGED <<now, nodes, data, crashed>>

\* getSession, SessionAdd and UpdateSessionData begin: the time is taken,
\* SessionAdd makes its datum, and the chain of the code's bucket is entered.
\* The code is what the request's cookie says.
BeginCall(t, op) ==
  \E c \in Codes, k \in Keys :
    /\ pc[t] = "idle"
    /\ \/ op = "add" /\ data' = Append(data, NewDatum(k))
       \/ op \in {"get", "update"} /\ UNCHANGED data
    /\ pc' = [pc EXCEPT ![t] = "walk"]
    /\ call' = [call EXCEPT ![t] = [op |-> op, code |-> c, key |-> k, val |-> NewValue,
                                    at |-> now, rest |-> chain[Index(c)],
                                    d |-> IF op = "add" THEN Len(data) + 1 ELSE None]]
    /\ UNCHANGED <<now, chain, nodes, raced, crashed>>

\* The call has something to do at node n.
Matches(t, n) ==
  /\ nodes[n].code = call[t].code
  /\ call[t].op = "add" \/ DatumOf(n, call[t].key) # None

NextNode(t) ==
  /\ pc[t] = "walk" /\ call[t].rest # <<>>
  /\ ~Matches(t, Head(call[t].rest))
  /\ call' = [call EXCEPT ![t].rest = Tail(@)]
  /\ UNCHANGED <<now, chain, nodes, data, pc, raced, crashed>>

\* getSession and the view that called it have the value, or NULL.
Got(t, v) ==
  /\ pc' = [pc EXCEPT ![t] = "answer"]
  /\ call' = [call EXCEPT ![t].val = v]

\* The view sends its answer.
Answer(t) ==
  /\ pc[t] = "answer"
  /\ Return(t)
  /\ UNCHANGED <<now, chain, nodes, data, raced, crashed>>

\* The end of the chain: NULL, -2 or 0 is returned; SessionAdd's datum leaks.
NotFound(t) ==
  /\ pc[t] = "walk" /\ call[t].rest = <<>>
  /\ IF call[t].op = "get" THEN Got(t, None) ELSE Return(t)
  /\ UNCHANGED <<now, chain, nodes, data, raced, crashed>>

\* SessionAdd at its node: the head of the chain of data is read ...
AddFound(t) ==
  LET n == Head(call[t].rest) IN
  /\ pc[t] = "walk" /\ call[t].op = "add" /\ call[t].rest # <<>>
  /\ Matches(t, n)
  /\ pc' = [pc EXCEPT ![t] = "link"]
  /\ call' = [call EXCEPT ![t].rest = <<n>> \o nodes[n].value]
  /\ UNCHANGED <<now, chain, nodes, data, raced, crashed>>

\* ... and written.
AddLink(t) ==
  LET n == Head(call[t].rest)
      old == Tail(call[t].rest) IN
  /\ pc[t] = "link"
  /\ nodes' = [nodes EXCEPT ![n].value = Linked(call[t].d, old)]
  /\ raced' = (raced \/ nodes[n].value # old \/ SessionOf(call[t].code) # n)
  /\ Return(t)
  /\ UNCHANGED <<now, chain, data, crashed>>

\* Whether some thread has freed the value of d and not replaced it yet.
Freed(d) == \E t \in Threads : pc[t] = "freed" /\ call[t].d = d

\* getSession at its datum: a pointer to the value, or NULL when expired.
GetFound(t) ==
  LET d == DatumOf(Head(call[t].rest), call[t].key) IN
  /\ pc[t] = "walk" /\ call[t].op = "get" /\ call[t].rest # <<>>
  /\ Matches(t, Head(call[t].rest))
  /\ IF Fresh(d, call[t].at)
     THEN /\ pc' = [pc EXCEPT ![t] = "got"]
          /\ call' = [call EXCEPT ![t].d = d]
          /\ raced' = (raced \/ Freed(d))
     ELSE Got(t, None) /\ UNCHANGED raced
  /\ UNCHANGED <<now, chain, nodes, data, crashed>>

\* The view getsession copies the value it got the pointer to.
GetRead(t) ==
  /\ pc[t] = "got"
  /\ Got(t, data[call[t].d].data)
  /\ UNCHANGED <<now, chain, nodes, data, raced, crashed>>

\* UpdateSessionData at its datum: the old value is freed.  When another
\* thread has just freed it too the heap is damaged.
UpdateFree(t) ==
  LET d == DatumOf(Head(call[t].rest), call[t].key) IN
  /\ pc[t] = "walk" /\ call[t].op = "update" /\ call[t].rest # <<>>
  /\ Matches(t, Head(call[t].rest))
  /\ pc' = [pc EXCEPT ![t] = "freed"]
  /\ call' = [call EXCEPT ![t].d = d]
  /\ raced' = (raced \/ Freed(d) \/ \E u \in Threads : pc[u] = "got" /\ call[u].d = d)
  /\ crashed' \in {FALSE, Freed(d)}
  /\ UNCHANGED <<now, chain, nodes, data>>

\* ... and the new value and the time of the call stored.  (A getSession that
\* sees the value without the time takes it for as old as the one before.)
UpdateSet(t) ==
  /\ pc[t] = "freed"
  /\ data' = [data EXCEPT ![call[t].d].data = call[t].val,
                          ![call[t].d].time_store = call[t].at]
  /\ raced' = (raced \/ Visible(call[t].code, call[t].key) # call[t].d)
  /\ Return(t)
  /\ UNCHANGED <<now, chain, nodes, crashed>>

Tick ==
  /\ now < MaxTime
  /\ now' = now + 1
  /\ UNCHANGED <<chain, nodes, data, pc, call, raced, crashed>>

Step(t) ==
  /\ ~crashed
  /\ \/ Publish(t) \/ NextNode(t) \/ NotFound(t)
     \/ AddFound(t) \/ AddLink(t)
     \/ GetFound(t) \/ GetRead(t) \/ Answer(t)
     \/ UpdateFree(t) \/ UpdateSet(t)
  /\ UNCHANGED calls
  /\ Observe

Begin(t) ==
  /\ ~crashed
  /\ calls < MaxCalls
  /\ calls' = calls + 1
  /\ \/ SessionCreate(t)
     \/ \E op \in {"get", "add", "update"} : BeginCall(t, op)
  /\ Observe

Next ==
  \/ \E t \in Threads : Begin(t) \/ Step(t)
  \/ Tick /\ Observe /\ UNCHANGED calls

Spec == Init /\ [][Next]_vars

-----------------------------------------------------------------------------
\* Type correctness of the table and of the calls' control state.
TypeOK ==
  /\ now \in 0 .. MaxTime
  /\ chain \in [0 .. HASH_DEC_LEN - 1 -> Seq(1 .. Len(nodes))]
  /\ nodes \in Seq([code : Codes, value : Seq(1 .. Len(data))])
  /\ data \in Seq([key : Keys, data : Values, time_store : 0 .. MaxTime])
  /\ pc \in [Threads -> {"idle", "publish", "walk", "link", "got", "answer", "freed"}]
  /\ {raced, crashed} \subseteq BOOLEAN

\* What getSession returns is what the table held for this session and this
\* name at some moment between call and return, however other threads created
\* sessions, added data and replaced values in the meantime.
GotIsCurrent ==
  TypeOK /\ \A t \in Threads : pc[t] = "answer" => raced \/ call[t].val \in seen[t]

Store == INSTANCE SessionStore WITH store <- Table

\* Every step puts one entry into the map that views see, or changes nothing
\* in it, until writers race.
ImplementsSessionStore == Store!Init /\ [][raced' \/ Store!Next]_(Store!vars)
=============================================================================

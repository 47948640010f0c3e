---------------------------- MODULE SessionProofs ---------------------------
(***************************************************************************)
(* Proofs about the session table, for any number of threads, of names and *)
(* of calls and any length of the table: until writers race, the chains    *)
(* implement a map and getSession returns what the map held at some moment *)
(* of the call.                                                            *)
(***************************************************************************)
EXTENDS Session, WellFoundedInduction, TLAPS

(***************************************************************************)
(* The loops over lists, as operators of the lists v and ns, the data D    *)
(* and the nodes N, so that the lemmas are about any state.                *)
(***************************************************************************)
Datum(v, D, k) ==
  LET ds == {i \in DOMAIN v : D[v[i]].key = k}
  IN  IF ds = {} THEN None ELSE v[First(ds)]

\* The places of the list ns where getSession would stop.
Hits(ns, N, D, c, k) ==
  {i \in DOMAIN ns : N[ns[i]].code = c /\ Datum(N[ns[i]].value, D, k) # None}

InList(ns, N, D, c, k) ==
  LET hits == Hits(ns, N, D, c, k)
  IN  IF hits = {} THEN None ELSE Datum(N[ns[First(hits)]].value, D, k)

\* What a caller that asks at the given time gets of datum d.
Held(d, D, time) ==
  IF d = None THEN None
  ELSE IF time <= D[d].time_store + SESSION_EXPIRE_DEFAULT THEN D[d].data ELSE None

Buckets == 0 .. HASH_DEC_LEN - 1
Times == 0 .. MaxTime
DataRecord == [key : Keys, data : Values, time_store : Times]
NodeRecord(D) == [code : Codes, value : Seq(1 .. Len(D))]

\* The least element of a set of numbers.
LEMMA FirstIs ==
  ASSUME NEW S, S \subseteq Nat, S # {}
  PROVE  First(S) \in S /\ \A j \in S : First(S) <= j
<1>1. PICK x \in S : \A y \in S : ~(<<y, x>> \in OpToRel(<, Nat))
  BY NatLessThanWellFounded, WFMin
<1>2. \A y \in S : ~(y < x)
  BY <1>1 DEF OpToRel
<1>3. \A y \in S : x <= y
  BY <1>2
<1> QED
  BY <1>3 DEF First

\* It is the only one that is not greater than any other.
LEMMA FirstOnly ==
  ASSUME NEW S, S \subseteq Nat, NEW i \in S, \A j \in S : i <= j
  PROVE  First(S) = i
<1>1. First(S) \in S /\ First(S) <= i
  BY FirstIs
<1>2. First(S) \in Nat /\ i \in Nat /\ i <= First(S)
  BY <1>1
<1> QED
  BY <1>1, <1>2

\* Places that all move up by one.
LEMMA FirstMoves ==
  ASSUME NEW S, S \subseteq Nat, S # {}, NEW T, T \subseteq Nat,
         \A i \in S : i + 1 \in T, \A i \in T : i - 1 \in S
  PROVE  First(S) \in S /\ First(T) = First(S) + 1
<1>1. First(S) \in S /\ First(S) \in Nat /\ \A j \in S : First(S) <= j
  BY FirstIs
<1>2. First(S) + 1 \in T
  BY <1>1
<1>3. ASSUME NEW j \in T
      PROVE  First(S) + 1 <= j
  <2>1. j - 1 \in S /\ j \in Nat /\ First(S) <= j - 1
    BY <1>1
  <2> QED
    BY <1>1, <2>1
<1> QED
  BY <1>1, <1>2, <1>3, FirstOnly

\* A loop over a list of data stops at the first with the name, or nowhere.
LEMMA DatumCases ==
  ASSUME NEW D, NEW v \in Seq(1 .. Len(D)), NEW k, Len(D) \in Nat
  PROVE  \/ Datum(v, D, k) = None /\ \A i \in DOMAIN v : D[v[i]].key # k
         \/ \E i \in DOMAIN v : /\ Datum(v, D, k) = v[i] /\ v[i] \in 1 .. Len(D)
                                /\ v[i] # None /\ D[v[i]].key = k
<1> DEFINE ds == {i \in DOMAIN v : D[v[i]].key = k}
<1>1. CASE ds = {}
  BY <1>1 DEF Datum
<1>2. CASE ds # {}
  <2>1. First(ds) \in ds
    <3>1. ds \subseteq Nat
      OBVIOUS
    <3> QED
      BY <1>2, <3>1, FirstIs
  <2>2. v[First(ds)] \in 1 .. Len(D)
    BY <2>1
  <2>3. v[First(ds)] # None
    BY <2>2, SessionAssumption
  <2> QED
    BY <1>2, <2>1, <2>2, <2>3 DEF Datum
<1> QED
  BY <1>1, <1>2

\* A list with the same names gives the same.
LEMMA DatumSame ==
  ASSUME NEW D, NEW E, NEW v, NEW k, \A i \in DOMAIN v : E[v[i]].key = D[v[i]].key
  PROVE  Datum(v, E, k) = Datum(v, D, k)
<1>1. {i \in DOMAIN v : E[v[i]].key = k} = {i \in DOMAIN v : D[v[i]].key = k}
  OBVIOUS
<1> QED
  BY <1>1 DEF Datum

\* A list that begins with d.
LEMMA DatumLinked ==
  ASSUME NEW D, Len(D) \in Nat, NEW v \in Seq(1 .. Len(D)), NEW d \in 1 .. Len(D), NEW k
  PROVE  /\ D[d].key = k => Datum(<<d>> \o v, D, k) = d
         /\ D[d].key # k => Datum(<<d>> \o v, D, k) = Datum(v, D, k)
<1> DEFINE w == <<d>> \o v
           ds == {i \in DOMAIN v : D[v[i]].key = k}
           es == {i \in DOMAIN w : D[w[i]].key = k}
<1>1. /\ DOMAIN w = 1 .. Len(v) + 1 /\ DOMAIN v = 1 .. Len(v) /\ Len(v) \in Nat
      /\ w[1] = d /\ \A i \in 1 .. Len(v) : w[i + 1] = v[i]
  OBVIOUS
<1> HIDE DEF w
<1>2. ds \subseteq Nat /\ es \subseteq Nat
  BY <1>1
<1>3. CASE D[d].key = k
  <2>1. 1 \in es /\ \A i \in es : 1 <= i
    BY <1>1, <1>3
  <2>2. First(es) = 1
    BY <1>2, <2>1, FirstOnly
  <2> QED
    BY <1>1, <1>3, <2>1, <2>2 DEF Datum, w
<1>4. CASE D[d].key # k
  <2>1. \A i \in ds : i + 1 \in es
    <3>1. ASSUME NEW i \in ds
          PROVE  i + 1 \in es
      <4>1. i \in 1 .. Len(v) /\ i + 1 \in 1 .. Len(v) + 1 /\ w[i + 1] = v[i]
        BY <1>1
      <4> QED
        BY <1>1, <4>1
    <3> QED
      BY <3>1
  <2>2. \A i \in es : i - 1 \in ds
    <3>1. ASSUME NEW i \in es
          PROVE  i - 1 \in ds
      <4>1. i # 1 /\ i \in 1 .. Len(v) + 1
        BY <1>1, <1>4, <3>1
      <4>2. i - 1 \in 1 .. Len(v) /\ (i - 1) + 1 = i
        BY <1>1, <4>1
      <4>3. w[i] = v[i - 1]
        BY <1>1, <4>2
      <4> QED
        BY <1>1, <3>1, <4>2, <4>3
    <3> QED
      BY <3>1
  <2>3. CASE ds = {}
    <3>1. es = {}
      BY <2>2, <2>3
    <3> QED
      BY <1>4, <2>3, <3>1 DEF Datum, w
  <2>4. CASE ds # {}
    <3>1. First(ds) \in ds /\ First(es) = First(ds) + 1
      BY <1>2, <2>1, <2>2, <2>4, FirstMoves
    <3>2. es # {}
      BY <2>1, <3>1
    <3>3. w[First(es)] = v[First(ds)]
      BY <1>1, <3>1
    <3> QED
      BY <1>4, <2>4, <3>2, <3>3 DEF Datum, w
  <2> QED
    BY <2>3, <2>4
<1> QED
  BY <1>3, <1>4

\* The walk along a chain stops at its first hit, or nowhere.
LEMMA InCases ==
  ASSUME NEW ns, DOMAIN ns \subseteq Nat, NEW N, NEW D, NEW c, NEW k
  PROVE  \/ InList(ns, N, D, c, k) = None /\ Hits(ns, N, D, c, k) = {}
         \/ \E i \in Hits(ns, N, D, c, k) :
              /\ InList(ns, N, D, c, k) = Datum(N[ns[i]].value, D, k)
              /\ \A j \in Hits(ns, N, D, c, k) : i <= j
<1> DEFINE hits == Hits(ns, N, D, c, k)
<1>1. CASE hits = {}
  BY <1>1 DEF InList
<1>2. CASE hits # {}
  <2>1. hits \subseteq Nat
    BY DEF Hits
  <2> HIDE DEF hits
  <2>2. First(hits) \in hits /\ \A j \in hits : First(hits) <= j
    BY <1>2, <2>1, FirstIs
  <2>3. InList(ns, N, D, c, k) = Datum(N[ns[First(hits)]].value, D, k)
    BY <1>2 DEF InList, hits
  <2> QED
    BY <2>2, <2>3 DEF hits
<1> QED
  BY <1>1, <1>2

\* It finds the same where the nodes of the code have the same data.
LEMMA InSame ==
  ASSUME NEW ns, DOMAIN ns \subseteq Nat, NEW N, NEW D, NEW M, NEW E, NEW c, NEW k,
         \A i \in DOMAIN ns : M[ns[i]].code = c <=> N[ns[i]].code = c,
         \A i \in DOMAIN ns : N[ns[i]].code = c =>
           Datum(M[ns[i]].value, E, k) = Datum(N[ns[i]].value, D, k)
  PROVE  InList(ns, M, E, c, k) = InList(ns, N, D, c, k)
<1> DEFINE hits == Hits(ns, N, D, c, k)
<1>1. Hits(ns, M, E, c, k) = hits
  BY DEF Hits
<1>2. \A i \in hits : Datum(M[ns[i]].value, E, k) = Datum(N[ns[i]].value, D, k)
  BY DEF Hits
<1>3. CASE hits = {}
  BY <1>1, <1>3 DEF InList
<1>4. CASE hits # {}
  <2>1. /\ InList(ns, M, E, c, k) = Datum(M[ns[First(hits)]].value, E, k)
        /\ InList(ns, N, D, c, k) = Datum(N[ns[First(hits)]].value, D, k)
    BY <1>1, <1>4 DEF InList
  <2>2. hits \subseteq Nat
    BY DEF Hits
  <2>3. First(hits) \in hits
    BY <1>4, <2>2, FirstIs
  <2> QED
    BY <1>2, <2>1, <2>3
<1> QED
  BY <1>3, <1>4

\* The list ms is the list ns with a node before it.
Precedes(ms, ns) ==
  /\ Len(ns) \in Nat /\ DOMAIN ns = 1 .. Len(ns) /\ DOMAIN ms = 1 .. Len(ns) + 1
  /\ \A i \in 1 .. Len(ns) : ms[i + 1] = ns[i]

\* The walk stops at the first node, or goes on as from the next.
LEMMA InNext ==
  ASSUME NEW ns, NEW ms, Precedes(ms, ns), NEW N, NEW D, NEW c, NEW k
  PROVE  /\ N[ms[1]].code = c /\ Datum(N[ms[1]].value, D, k) # None
              => InList(ms, N, D, c, k) = Datum(N[ms[1]].value, D, k)
         /\ ~(N[ms[1]].code = c /\ Datum(N[ms[1]].value, D, k) # None)
              => InList(ms, N, D, c, k) = InList(ns, N, D, c, k)
<1> DEFINE hs == Hits(ns, N, D, c, k)
           gs == Hits(ms, N, D, c, k)
<1>1. hs \subseteq Nat /\ gs \subseteq Nat
  BY DEF Hits, Precedes
<1>2. CASE N[ms[1]].code = c /\ Datum(N[ms[1]].value, D, k) # None
  <2>1. 1 \in gs /\ \A i \in gs : 1 <= i
    BY <1>2 DEF Hits, Precedes
  <2>2. First(gs) = 1
    BY <1>1, <2>1, FirstOnly
  <2> QED
    BY <1>2, <2>1, <2>2 DEF InList
<1>3. CASE ~(N[ms[1]].code = c /\ Datum(N[ms[1]].value, D, k) # None)
  <2>1. ASSUME NEW i \in hs
        PROVE  i + 1 \in gs
    <3>1. i \in 1 .. Len(ns) /\ i + 1 \in 1 .. Len(ns) + 1 /\ ms[i + 1] = ns[i]
      BY <2>1 DEF Hits, Precedes
    <3> QED
      BY <2>1, <3>1 DEF Hits, Precedes
  <2>2. ASSUME NEW i \in gs
        PROVE  i - 1 \in hs
    <3>1. i # 1 /\ i \in 1 .. Len(ns) + 1
      BY <1>3, <2>2 DEF Hits, Precedes
    <3>2. i - 1 \in 1 .. Len(ns) /\ (i - 1) + 1 = i
      BY <3>1 DEF Precedes
    <3>3. ms[i] = ns[i - 1]
      BY <3>2 DEF Precedes
    <3> QED
      BY <2>2, <3>2, <3>3 DEF Hits, Precedes
  <2>3. CASE hs = {}
    <3>1. gs = {}
      BY <2>2, <2>3
    <3> QED
      BY <1>3, <2>3, <3>1 DEF InList
  <2>4. CASE hs # {}
    <3> HIDE DEF hs, gs
    <3>1. First(hs) \in hs /\ First(gs) = First(hs) + 1
      BY <1>1, <2>1, <2>2, <2>4, FirstMoves
    <3>2. gs # {}
      BY <2>1, <3>1
    <3>3. ms[First(gs)] = ns[First(hs)]
      BY <3>1 DEF Precedes, hs, Hits
    <3> QED
      BY <1>3, <2>4, <3>2, <3>3 DEF InList, hs, gs
  <2> QED
    BY <2>3, <2>4
<1> QED
  BY <1>2, <1>3

\* The first node of the code has the name.
LEMMA InFirst ==
  ASSUME NEW ns, DOMAIN ns \subseteq Nat, NEW N, NEW D, NEW c, NEW k, NEW i \in DOMAIN ns,
         N[ns[i]].code = c, \A j \in DOMAIN ns : N[ns[j]].code = c => i <= j,
         Datum(N[ns[i]].value, D, k) # None
  PROVE  InList(ns, N, D, c, k) = Datum(N[ns[i]].value, D, k)
<1> DEFINE hits == Hits(ns, N, D, c, k)
<1>1. i \in hits /\ hits \subseteq Nat /\ \A j \in hits : i <= j
  BY DEF Hits
<1>2. First(hits) = i
  BY <1>1, FirstOnly
<1> QED
  BY <1>1, <1>2 DEF InList
-----------------------------------------------------------------------------
(***************************************************************************)
(* The inductive invariant.                                                *)
(***************************************************************************)
CreateCalls == [op : {"create"}, code : Codes, node : Nat, rest : Seq(Nat)]
LookCalls == [op : {"get", "add", "update"}, code : Codes, key : Keys,
              val : Values \cup {None}, at : Times, rest : Seq(Nat), d : Nat \cup {None}]

\* A call r at place p, when there are nn nodes and nd data.
CallOK(p, r, nn, nd, time) ==
  /\ p = "publish" => r \in CreateCalls /\ r.node \in 1 .. nn /\ r.rest \in Seq(1 .. nn)
  /\ p \in {"walk", "link", "got", "answer", "freed"} => r \in LookCalls /\ r.at <= time
  /\ p = "walk" => /\ r.rest \in Seq(1 .. nn) /\ r.val \in Values
                   /\ r.op = "add" => r.d \in 1 .. nd
  /\ p = "link" => /\ r.op = "add" /\ r.d \in 1 .. nd
                   /\ r.rest # <<>> /\ Head(r.rest) \in 1 .. nn
                   /\ Tail(r.rest) \in Seq(1 .. nd)
  /\ p = "got" => r.op = "get" /\ r.d \in 1 .. nd
  /\ p = "answer" => r.op = "get"
  /\ p = "freed" => r.op = "update" /\ r.d \in 1 .. nd /\ r.val \in Values

SessionTypes ==
  /\ TypeOK
  /\ calls \in 0 .. MaxCalls
  /\ call \in [Threads -> {NoCall} \cup CreateCalls \cup LookCalls]
  /\ \A t \in Threads : CallOK(pc[t], call[t], Len(nodes), Len(data), now)
  /\ \A d \in 1 .. Len(data) : data[d].time_store <= now

\* A node is in one place of the chains.
Apart ==
  \A b \in Buckets : \A i, j \in DOMAIN chain[b] : chain[b][i] = chain[b][j] => i = j

\* The node of a SessionCreate that has not written the head yet is in no
\* chain, is nobody else's, and has its first datum.
OwnNode(t) ==
  pc[t] = "publish" =>
    LET n == call[t].node IN
    /\ \A b \in Buckets : \A i \in DOMAIN chain[b] : chain[b][i] # n
    /\ \A u \in Threads \ {t} : pc[u] = "publish" => call[u].node # n
    /\ nodes[n].code = call[t].code
    /\ \E d \in 1 .. Len(data) : nodes[n].value = <<d>>

\* A datum is in the list of one node.
Owned ==
  \A m, n \in 1 .. Len(nodes) :
    \A i \in DOMAIN nodes[m].value, j \in DOMAIN nodes[n].value :
      nodes[m].value[i] = nodes[n].value[j] => m = n

Adds(t) == pc[t] \in {"walk", "link"} /\ call[t].op = "add"

\* The datum of a SessionAdd under way is in no list and nobody else's.
OwnDatum(t) ==
  Adds(t) =>
    /\ data[call[t].d].key = call[t].key
    /\ \A n \in 1 .. Len(nodes) : \A i \in DOMAIN nodes[n].value :
         nodes[n].value[i] # call[t].d
    /\ \A u \in Threads \ {t} : Adds(u) => call[u].d # call[t].d

\* rest is the end of the list ns.
EndOf(rest, ns) ==
  \E m \in 0 .. Len(ns) : /\ Len(rest) = Len(ns) - m
                          /\ \A i \in 1 .. Len(rest) : rest[i] = ns[i + m]

\* A getSession on its way is in the chain, and what it would find from there
\* on is what the table held at some moment since it began.
Walks(t) ==
  pc[t] = "walk" /\ call[t].op = "get" =>
    LET r == call[t] IN
    /\ EndOf(r.rest, chain[Index(r.code)])
    /\ Held(InList(r.rest, nodes, data, r.code, r.key), data, r.at) \in seen[t]

\* The value it has got a pointer to is one of these, and nobody replaces it.
Reads(t) ==
  pc[t] = "got" =>
    /\ data[call[t].d].data \in seen[t]
    /\ \A u \in Threads : pc[u] = "freed" => call[u].d # call[t].d

Answers(t) == pc[t] = "answer" => call[t].val \in seen[t]

Calls(t) == OwnNode(t) /\ OwnDatum(t) /\ Walks(t) /\ Reads(t) /\ Answers(t)

InOrder == Apart /\ Owned /\ \A t \in Threads : Calls(t)

SessionInv == SessionTypes /\ (raced \/ InOrder)
-----------------------------------------------------------------------------
(***************************************************************************)
(* Types.                                                                  *)
(***************************************************************************)

\* Codes are numbers, and each has a bucket.
LEMMA CodeTypes ==
  /\ Codes \subseteq Nat
  /\ \A time \in Times : get_random_str(time) \in Codes
  /\ \A c \in Codes : Index(c) \in Buckets
<1> USE SessionAssumption
<1>1. ASSUME NEW time \in Times
      PROVE  (time \div SECONDS) + (time % SECONDS) \in Nat
  <2>1. time \in Nat /\ SECONDS \in Nat /\ SECONDS > 0
    BY DEF Times
  <2>2. time \div SECONDS \in Nat
    BY <2>1
  <2>3. time % SECONDS \in Nat
    BY <2>1
  <2> QED
    BY <2>2, <2>3
<1>2. Codes \subseteq Nat
  BY <1>1 DEF Codes, Times
<1>3. \A time \in Times : get_random_str(time) \in Codes
  BY DEF Codes, get_random_str, Times
<1>4. ASSUME NEW c \in Codes
      PROVE  Index(c) \in Buckets
  <2>1. c \in Nat /\ HASH_DEC_LEN \in Nat /\ HASH_DEC_LEN > 0
    BY <1>2
  <2>2. c % HASH_DEC_LEN \in 0 .. HASH_DEC_LEN - 1
    BY <2>1
  <2> QED
    BY <2>2 DEF Index, Buckets
<1> QED
  BY <1>2, <1>3, <1>4

\* A list of numbers up to m is one of numbers up to n.
LEMMA Wider ==
  ASSUME NEW m \in Nat, NEW n \in Nat, m <= n, NEW v \in Seq(1 .. m)
  PROVE  v \in Seq(1 .. n)
<1>1. /\ v \in [1 .. Len(v) -> 1 .. m] /\ Len(v) \in Nat
  OBVIOUS
<1>2. v \in [1 .. Len(v) -> 1 .. n]
  BY <1>1
<1> QED
  BY <1>1, <1>2

\* Places are numbers.
LEMMA Numbers ==
  ASSUME NEW n \in Nat, NEW v \in Seq(1 .. n)
  PROVE  v \in Seq(Nat)
<1>1. /\ v \in [1 .. Len(v) -> 1 .. n] /\ Len(v) \in Nat
  OBVIOUS
<1>2. v \in [1 .. Len(v) -> Nat]
  BY <1>1
<1> QED
  BY <1>1, <1>2

\* What is right of a call stays so when there are more nodes and data, later.
LEMMA CallStays ==
  ASSUME NEW p, NEW r, NEW nn \in Nat, NEW nd \in Nat, NEW time \in Int,
         NEW mm \in Nat, NEW md \in Nat, NEW later \in Int,
         nn <= mm, nd <= md, time <= later, CallOK(p, r, nn, nd, time)
  PROVE  CallOK(p, r, mm, md, later)
<1>1. p \in {"walk", "link", "got", "answer", "freed"} => r \in LookCalls /\ r.at <= later
  BY SessionAssumption DEF CallOK, LookCalls, Times
<1>2. p \in {"publish", "walk"} => r.rest \in Seq(1 .. mm)
  BY Wider DEF CallOK
<1>3. p = "link" => Tail(r.rest) \in Seq(1 .. md)
  BY Wider DEF CallOK
<1> QED
  BY <1>1, <1>2, <1>3 DEF CallOK

Places == {"idle", "publish", "walk", "link", "got", "answer", "freed"}
AllCalls == {NoCall} \cup CreateCalls \cup LookCalls

\* What the types say of the table.
TableTypes ==
  /\ now \in Times
  /\ chain \in [Buckets -> Seq(1 .. Len(nodes))]
  /\ nodes \in Seq(NodeRecord(data))
  /\ data \in Seq(DataRecord)
  /\ {raced, crashed} \subseteq BOOLEAN
  /\ calls \in 0 .. MaxCalls
  /\ \A d \in 1 .. Len(data) : data[d].time_store <= now

\* ... and of the threads.
CallTypes ==
  /\ pc \in [Threads -> Places]
  /\ call \in [Threads -> AllCalls]
  /\ \A t \in Threads : CallOK(pc[t], call[t], Len(nodes), Len(data), now)

\* The two halves of the types.
LEMMA TypesAre == (SessionTypes <=> TableTypes /\ CallTypes)
BY DEF SessionTypes, TypeOK, TableTypes, CallTypes, Places, AllCalls, Times, Buckets, NodeRecord,
       DataRecord

\* ... also after a step.
LEMMA TypesAreNext == (TableTypes /\ CallTypes)' => SessionTypes'
BY DEF SessionTypes, TypeOK, TableTypes, CallTypes, Places, AllCalls, Times, Buckets, NodeRecord,
       DataRecord

\* A thread goes to place p with the call r.
Goes(t, p, r) ==
  /\ pc'[t] = p /\ call'[t] = r
  /\ \A u \in Threads \ {t} : pc'[u] = pc[u] /\ call'[u] = call[u]

\* The types of the threads when one of them moves.
LEMMA CallsType ==
  ASSUME TableTypes, CallTypes, TableTypes', NEW t \in Threads, NEW p \in Places,
         NEW r \in AllCalls,
         pc' = [pc EXCEPT ![t] = p], call' = [call EXCEPT ![t] = r],
         Len(nodes) <= Len(nodes'), Len(data) <= Len(data'), now <= now',
         CallOK(p, r, Len(nodes'), Len(data'), now')
  PROVE  CallTypes' /\ Goes(t, p, r)
<1>1. pc' \in [Threads -> Places] /\ call' \in [Threads -> AllCalls]
  BY DEF CallTypes
<1>2. Goes(t, p, r)
  BY DEF CallTypes, Goes
<1>3. /\ Len(nodes) \in Nat /\ Len(data) \in Nat /\ now \in Int
      /\ Len(nodes') \in Nat /\ Len(data') \in Nat /\ now' \in Int
  BY DEF TableTypes, Times
<1>4. ASSUME NEW u \in Threads \ {t}
      PROVE  CallOK(pc'[u], call'[u], Len(nodes'), Len(data'), now')
  <2>1. CallOK(pc[u], call[u], Len(nodes), Len(data), now)
    BY DEF CallTypes
  <2> QED
    BY <1>2, <1>3, <2>1, CallStays DEF Goes
<1>5. CallOK(pc'[t], call'[t], Len(nodes'), Len(data'), now')
  BY <1>2 DEF Goes
<1> QED
  BY <1>1, <1>2, <1>4, <1>5 DEF CallTypes
-----------------------------------------------------------------------------
(***************************************************************************)
(* Steps that leave the table as it is, or add to its end.                 *)
(***************************************************************************)

\* A node of the table.
LEMMA NodeIs ==
  ASSUME NEW D, NEW N \in Seq(NodeRecord(D)), NEW n \in 1 .. Len(N)
  PROVE  N[n].code \in Codes /\ N[n].value \in Seq(1 .. Len(D))
<1>1. N[n] \in NodeRecord(D)
  OBVIOUS
<1> QED
  BY <1>1 DEF NodeRecord

\* What the walk finds is a datum of that name in a node of that code.
LEMMA InType ==
  ASSUME NEW D, Len(D) \in Nat, NEW N \in Seq(NodeRecord(D)), NEW ns \in Seq(1 .. Len(N)),
         NEW c, NEW k
  PROVE  LET d == InList(ns, N, D, c, k) IN
         \/ d = None
         \/ /\ d \in 1 .. Len(D) /\ d # None /\ D[d].key = k
            /\ \E i \in DOMAIN ns : /\ ns[i] \in 1 .. Len(N) /\ N[ns[i]].code = c
                                    /\ \E j \in DOMAIN N[ns[i]].value : N[ns[i]].value[j] = d
<1> DEFINE d == InList(ns, N, D, c, k)
<1>0. DOMAIN ns \subseteq Nat
  OBVIOUS
<1> SUFFICES ASSUME d # None
             PROVE  /\ d \in 1 .. Len(D) /\ d # None /\ D[d].key = k
                    /\ \E i \in DOMAIN ns :
                         /\ ns[i] \in 1 .. Len(N) /\ N[ns[i]].code = c
                         /\ \E j \in DOMAIN N[ns[i]].value : N[ns[i]].value[j] = d
  OBVIOUS
<1>1. PICK i \in Hits(ns, N, D, c, k) : d = Datum(N[ns[i]].value, D, k)
  BY <1>0, InCases, SMTT(40)
<1>2. i \in DOMAIN ns /\ ns[i] \in 1 .. Len(N) /\ N[ns[i]].code = c
  BY <1>1 DEF Hits
<1> DEFINE v == N[ns[i]].value
<1>3. v \in Seq(1 .. Len(D)) /\ d = Datum(v, D, k)
  BY <1>1, <1>2, NodeIs
<1> HIDE DEF v, d
<1>4. \E j \in DOMAIN v : d = v[j] /\ v[j] \in 1 .. Len(D) /\ D[v[j]].key = k
  BY <1>3, DatumCases
<1> QED
  BY <1>2, <1>4 DEF v

\* The walk along nodes that were there finds the same after others were made.
LEMMA InGrown ==
  ASSUME NEW D, Len(D) \in Nat, NEW N \in Seq(NodeRecord(D)), NEW ns \in Seq(1 .. Len(N)),
         NEW c, NEW k, NEW M, NEW E, NEW time,
         \A n \in 1 .. Len(N) : M[n] = N[n], \A d \in 1 .. Len(D) : E[d] = D[d]
  PROVE  /\ InList(ns, M, E, c, k) = InList(ns, N, D, c, k)
         /\ Held(InList(ns, M, E, c, k), E, time) = Held(InList(ns, N, D, c, k), D, time)
<1>1. ASSUME NEW i \in DOMAIN ns
      PROVE  /\ M[ns[i]].code = c <=> N[ns[i]].code = c
             /\ Datum(M[ns[i]].value, E, k) = Datum(N[ns[i]].value, D, k)
  <2>1. ns[i] \in 1 .. Len(N) /\ M[ns[i]] = N[ns[i]]
    BY <1>1
  <2>2. N[ns[i]].value \in Seq(1 .. Len(D))
    BY <2>1, NodeIs
  <2>3. \A j \in DOMAIN N[ns[i]].value : N[ns[i]].value[j] \in 1 .. Len(D)
    BY <2>2
  <2>4. Datum(N[ns[i]].value, E, k) = Datum(N[ns[i]].value, D, k)
    BY <2>3, DatumSame, SMTT(40)
  <2> QED
    BY <2>1, <2>4
<1>2. InList(ns, M, E, c, k) = InList(ns, N, D, c, k)
  <2>1. /\ DOMAIN ns \subseteq Nat
        /\ \A i \in DOMAIN ns : M[ns[i]].code = c <=> N[ns[i]].code = c
        /\ \A i \in DOMAIN ns : N[ns[i]].code = c =>
             Datum(M[ns[i]].value, E, k) = Datum(N[ns[i]].value, D, k)
    BY <1>1
  <2> QED
    BY <2>1, InSame
<1>3. InList(ns, N, D, c, k) = None \/ InList(ns, N, D, c, k) \in 1 .. Len(D)
  BY InType
<1> QED
  BY <1>2, <1>3 DEF Held

\* Visible and Lookup in these words.
LEMMA VisibleIs ==
  ASSUME NEW c, NEW k, NEW time
  PROVE  /\ Visible(c, k) = InList(chain[Index(c)], nodes, data, c, k)
         /\ Lookup(c, k, time) = Held(InList(chain[Index(c)], nodes, data, c, k), data, time)
BY DEF Visible, Lookup, DatumOf, InList, Hits, Datum, Held

\* What the history notes of thread t's getSession.
LEMMA Observed ==
  ASSUME Observe, NEW t \in Threads, call'[t].op = "get"
  PROVE  /\ pc'[t] = "answer" => seen'[t] = seen[t]
         /\ pc'[t] # "answer" =>
              /\ seen[t] \subseteq seen'[t]
              /\ LET r == call'[t] IN
                 Held(InList(chain'[Index(r.code)], nodes', data', r.code, r.key), data', r.at)
                   \in seen'[t]
<1>1. seen'[t] = IF pc'[t] = "answer" THEN seen[t]
                 ELSE seen[t] \cup {Lookup(call[t].code, call[t].key, call[t].at)'}
  BY DEF Observe
<1>2. LET r == call'[t] IN
      Lookup(call[t].code, call[t].key, call[t].at)' =
        Held(InList(chain'[Index(r.code)], nodes', data', r.code, r.key), data', r.at)
  BY DEF Visible, Lookup, DatumOf, InList, Hits, Datum, Held, Index
<1> QED
  BY <1>1, <1>2

\* The table keeps its nodes and data; more may be made.
Grows ==
  /\ Len(nodes) <= Len(nodes') /\ \A n \in 1 .. Len(nodes) : nodes'[n] = nodes[n]
  /\ Len(data) <= Len(data') /\ \A d \in 1 .. Len(data) : data'[d] = data[d]
  /\ \A n \in 1 .. Len(nodes') : n > Len(nodes) =>
       \A i \in DOMAIN nodes'[n].value : nodes'[n].value[i] > Len(data)

\* The threads outside T go on as before while those in T move.
Others(T) == \A u \in Threads \ T : pc'[u] = pc[u] /\ call'[u] = call[u]

\* Those threads keep what is right of them.
LEMMA OthersKeep ==
  ASSUME TableTypes, CallTypes, TableTypes', InOrder, Observe, chain' = chain, Grows,
         NEW T, Others(T), \A t \in T \cap Threads : Calls(t)',
         \A t \in T \cap Threads : \A u \in Threads \ T :
           pc'[t] = "freed" /\ pc[u] = "got" => call'[t].d # call[u].d
  PROVE  \A t \in Threads : Calls(t)'
<1> SUFFICES ASSUME NEW u \in Threads \ T
             PROVE  Calls(u)'
  OBVIOUS
<1>1. /\ pc'[u] = pc[u] /\ call'[u] = call[u] /\ Calls(u)
      /\ CallOK(pc[u], call[u], Len(nodes), Len(data), now)
  BY DEF Others, InOrder, CallTypes
<1>2. /\ data \in Seq(DataRecord) /\ Len(data) \in Nat /\ Len(data') \in Nat
      /\ nodes \in Seq(NodeRecord(data)) /\ Len(nodes) \in Nat /\ Len(nodes') \in Nat
  BY DEF TableTypes
<1>3. OwnNode(u)'
  <2> SUFFICES ASSUME pc[u] = "publish"
               PROVE  OwnNode(u)'
    BY <1>1 DEF OwnNode
  <2>1. call[u].node \in 1 .. Len(nodes) /\ nodes'[call[u].node] = nodes[call[u].node]
    BY <1>1 DEF CallOK, Grows
  <2>2. ASSUME NEW w \in Threads \ {u}, pc'[w] = "publish"
        PROVE  call'[w].node # call[u].node
    <3>1. CASE w \in T
      BY <1>1, <2>2, <3>1 DEF Calls, OwnNode
    <3>2. CASE w \notin T
      BY <1>1, <2>2, <3>2 DEF Calls, OwnNode, Others
    <3> QED
      BY <3>1, <3>2
  <2>3. 1 .. Len(data) \subseteq 1 .. Len(data')
    BY <1>2 DEF Grows
  <2> QED
    BY <1>1, <2>1, <2>2, <2>3 DEF Calls, OwnNode
<1>4. OwnDatum(u)'
  <2> SUFFICES ASSUME Adds(u)
               PROVE  OwnDatum(u)'
    BY <1>1 DEF OwnDatum, Adds
  <2>1. call[u].d \in 1 .. Len(data) /\ data'[call[u].d] = data[call[u].d]
    BY <1>1 DEF CallOK, Grows, Adds
  <2>2. ASSUME NEW w \in Threads \ {u}, Adds(w)'
        PROVE  call'[w].d # call[u].d
    <3>1. CASE w \in T
      BY <1>1, <2>2, <3>1 DEF Calls, OwnDatum, Adds
    <3>2. CASE w \notin T
      BY <1>1, <2>2, <3>2 DEF Calls, OwnDatum, Others, Adds
    <3> QED
      BY <3>1, <3>2
  <2>3. ASSUME NEW n \in 1 .. Len(nodes'), NEW i \in DOMAIN nodes'[n].value
        PROVE  nodes'[n].value[i] # call[u].d
    <3>1. CASE n \in 1 .. Len(nodes)
      BY <1>1, <2>3, <3>1 DEF Calls, OwnDatum, Grows
    <3>2. CASE n \notin 1 .. Len(nodes)
      <4>1. n > Len(nodes)
        BY <1>2, <3>2
      <4>2. nodes'[n].value[i] > Len(data)
        BY <4>1 DEF Grows
      <4> QED
        BY <1>2, <2>1, <4>2
    <3> QED
      BY <3>1, <3>2
  <2> QED
    BY <1>1, <2>1, <2>2, <2>3 DEF Calls, OwnDatum
<1>5. Walks(u)'
  <2> SUFFICES ASSUME pc[u] = "walk", call[u].op = "get"
               PROVE  Walks(u)'
    BY <1>1 DEF Walks
  <2> DEFINE r == call[u]
  <2>1. r.rest \in Seq(1 .. Len(nodes))
    BY <1>1 DEF CallOK
  <2>2. Held(InList(r.rest, nodes', data', r.code, r.key), data', r.at)
          = Held(InList(r.rest, nodes, data, r.code, r.key), data, r.at)
    BY <1>2, <2>1, InGrown DEF Grows
  <2>3. seen[u] \subseteq seen'[u]
    BY <1>1, Observed
  <2> QED
    BY <1>1, <2>2, <2>3 DEF Calls, Walks, Index
<1>6. Reads(u)'
  <2> SUFFICES ASSUME pc[u] = "got"
               PROVE  Reads(u)'
    BY <1>1 DEF Reads
  <2>1. call[u].op = "get" /\ data'[call[u].d] = data[call[u].d]
    BY <1>1 DEF CallOK, Grows
  <2>2. seen[u] \subseteq seen'[u]
    BY <1>1, <2>1, Observed
  <2>3. ASSUME NEW w \in Threads, pc'[w] = "freed"
        PROVE  call'[w].d # call[u].d
    BY <1>1, <2>3 DEF Calls, Reads, Others
  <2> QED
    BY <1>1, <2>1, <2>2, <2>3 DEF Calls, Reads
<1>7. Answers(u)'
  <2> SUFFICES ASSUME pc[u] = "answer"
               PROVE  Answers(u)'
    BY <1>1 DEF Answers
  <2>1. seen'[u] = seen[u]
    BY <1>1, Observed DEF CallOK
  <2> QED
    BY <1>1, <2>1 DEF Calls, Answers
<1> QED
  BY <1>3, <1>4, <1>5, <1>6, <1>7 DEF Calls

\* An assignment to a local variable of a call.
LEMMA SetRest ==
  ASSUME NEW r \in LookCalls, NEW x \in Seq(Nat)
  PROVE  LET n == [r EXCEPT !.rest = x] IN
         /\ n \in LookCalls /\ n.op = r.op /\ n.code = r.code /\ n.key = r.key
         /\ n.val = r.val /\ n.at = r.at /\ n.d = r.d /\ n.rest = x
BY DEF LookCalls

\* The same for the datum.
LEMMA SetD ==
  ASSUME NEW r \in LookCalls, NEW x \in Nat
  PROVE  LET n == [r EXCEPT !.d = x] IN
         /\ n \in LookCalls /\ n.op = r.op /\ n.code = r.code /\ n.key = r.key
         /\ n.val = r.val /\ n.at = r.at /\ n.d = x /\ n.rest = r.rest
BY DEF LookCalls

\* The same for the value.
LEMMA SetVal ==
  ASSUME NEW r \in LookCalls, NEW x \in Values \cup {None}
  PROVE  LET n == [r EXCEPT !.val = x] IN
         /\ n \in LookCalls /\ n.op = r.op /\ n.code = r.code /\ n.key = r.key
         /\ n.val = x /\ n.at = r.at /\ n.d = r.d /\ n.rest = r.rest
BY DEF LookCalls

\* A thread moves and the table stays.
LEMMA MovesInv ==
  ASSUME SessionInv, NEW t \in Threads, NEW p \in Places, NEW r \in AllCalls,
         pc' = [pc EXCEPT ![t] = p], call' = [call EXCEPT ![t] = r],
         UNCHANGED <<now, chain, nodes, data>>, calls' \in 0 .. MaxCalls,
         raced' \in BOOLEAN, crashed' \in BOOLEAN, raced => raced', Observe,
         CallOK(p, r, Len(nodes), Len(data), now),
         ~raced' /\ InOrder /\ Goes(t, p, r) =>
           /\ Calls(t)'
           /\ p = "freed" => \A u \in Threads \ {t} : pc[u] = "got" => r.d # call[u].d
  PROVE  SessionInv'
<1>1. TableTypes /\ CallTypes
  BY TypesAre DEF SessionInv
<1>2. TableTypes'
  BY <1>1 DEF TableTypes
<1>3. Len(nodes) \in Nat /\ Len(data) \in Nat /\ now \in Int
  BY <1>1 DEF TableTypes, Times
<1>4. CallTypes' /\ Goes(t, p, r)
  <2>1. /\ Len(nodes) <= Len(nodes') /\ Len(data) <= Len(data') /\ now <= now'
        /\ CallOK(p, r, Len(nodes'), Len(data'), now')
    BY <1>3
  <2> QED
    BY <1>1, <1>2, <2>1, CallsType
<1>5. SessionTypes'
  BY <1>2, <1>4, TypesAreNext
<1>6. ASSUME ~raced'
      PROVE  InOrder'
  <2>1. InOrder
    BY <1>6 DEF SessionInv
  <2>2. Apart' /\ Owned'
    BY <2>1 DEF InOrder, Apart, Owned
  <2>3. Grows
    BY <1>3 DEF Grows
  <2>4. Others({t})
    BY <1>4 DEF Others, Goes
  <2>5. /\ Calls(t)'
        /\ pc'[t] = "freed" => \A u \in Threads \ {t} : pc[u] = "got" => call'[t].d # call[u].d
    BY <1>4, <1>6, <2>1 DEF Goes
  <2>6. \A u \in Threads : Calls(u)'
    <3>1. \A x \in {t} \cap Threads :
            /\ Calls(x)'
            /\ \A u \in Threads \ {t} : pc'[x] = "freed" /\ pc[u] = "got" => call'[x].d # call[u].d
      BY <2>5
    <3> QED
      BY <1>1, <1>2, <2>1, <2>3, <2>4, <3>1, OthersKeep
  <2> QED
    BY <2>2, <2>6 DEF InOrder
<1> QED
  BY <1>5, <1>6 DEF SessionInv
\* What the types say of one thread.
LEMMA ThreadTypes ==
  ASSUME SessionInv, NEW t \in Threads
  PROVE  /\ TableTypes /\ CallTypes
         /\ pc[t] \in Places /\ call[t] \in AllCalls
         /\ CallOK(pc[t], call[t], Len(nodes), Len(data), now)
         /\ raced \in BOOLEAN /\ crashed \in BOOLEAN
         /\ data \in Seq(DataRecord) /\ Len(data) \in Nat
         /\ nodes \in Seq(NodeRecord(data)) /\ Len(nodes) \in Nat
         /\ now \in Times /\ calls \in 0 .. MaxCalls
<1>1. TableTypes /\ CallTypes
  BY TypesAre DEF SessionInv
<1>2. pc[t] \in Places /\ call[t] \in AllCalls
  BY <1>1 DEF CallTypes
<1>3. CallOK(pc[t], call[t], Len(nodes), Len(data), now)
  BY <1>1 DEF CallTypes
<1>4. raced \in BOOLEAN /\ crashed \in BOOLEAN
  BY <1>1 DEF TableTypes
<1>5. /\ data \in Seq(DataRecord) /\ Len(data) \in Nat
      /\ nodes \in Seq(NodeRecord(data)) /\ Len(nodes) \in Nat
      /\ now \in Times /\ calls \in 0 .. MaxCalls
  BY <1>1 DEF TableTypes
<1> QED
  BY <1>1, <1>2, <1>3, <1>4, <1>5

\* The list behind the first node.
LEMMA TailOf ==
  ASSUME NEW n \in Nat, NEW s \in Seq(1 .. n), s # <<>>
  PROVE  /\ Tail(s) \in Seq(1 .. n) /\ Precedes(s, Tail(s))
         /\ Head(s) = s[1] /\ Head(s) \in 1 .. n
<1>1. Tail(s) \in Seq(1 .. n) /\ Head(s) = s[1] /\ Head(s) \in 1 .. n
  OBVIOUS
<1>2. Len(s) \in Nat /\ Len(s) # 0 /\ Len(Tail(s)) = Len(s) - 1
  OBVIOUS
<1>3. \A i \in 1 .. Len(Tail(s)) : Tail(s)[i] = s[i + 1]
  BY <1>2
<1>4. DOMAIN Tail(s) = 1 .. Len(Tail(s)) /\ DOMAIN s = 1 .. Len(s)
  BY <1>1
<1> QED
  BY <1>1, <1>2, <1>3, <1>4 DEF Precedes

\* ... is an end of a list of which the whole was one.
LEMMA EndTail ==
  ASSUME NEW n \in Nat, NEW s \in Seq(1 .. n), s # <<>>, NEW ns, Len(ns) \in Nat, EndOf(s, ns)
  PROVE  EndOf(Tail(s), ns)
<1>1. PICK m \in 0 .. Len(ns) : /\ Len(s) = Len(ns) - m
                                /\ \A i \in 1 .. Len(s) : s[i] = ns[i + m]
  BY DEF EndOf
<1>2. Len(s) \in Nat /\ Len(s) # 0 /\ Len(Tail(s)) = Len(s) - 1
  OBVIOUS
<1>3. m + 1 \in 0 .. Len(ns) /\ Len(Tail(s)) = Len(ns) - (m + 1)
  BY <1>1, <1>2
<1>4. ASSUME NEW i \in 1 .. Len(Tail(s))
      PROVE  Tail(s)[i] = ns[i + (m + 1)]
  <2>1. i + 1 \in 1 .. Len(s) /\ Tail(s)[i] = s[i + 1]
    BY <1>2
  <2>2. s[i + 1] = ns[(i + 1) + m] /\ (i + 1) + m = i + (m + 1)
    BY <1>1, <2>1
  <2> QED
    BY <2>1, <2>2
<1> QED
  BY <1>3, <1>4 DEF EndOf

\* A call that ends.
LEMMA ReturnInv ==
  ASSUME SessionInv, NEW t \in Threads, Return(t), UNCHANGED <<now, chain, nodes, data>>,
         UNCHANGED <<calls, raced, crashed>>, Observe
  PROVE  SessionInv'
<1>1. calls \in 0 .. MaxCalls /\ raced \in BOOLEAN /\ crashed \in BOOLEAN
  BY ThreadTypes
<1>2. "idle" \in Places /\ NoCall \in AllCalls
  BY DEF Places, AllCalls
<1>3. CallOK("idle", NoCall, Len(nodes), Len(data), now)
  BY DEF CallOK
<1>4. Goes(t, "idle", NoCall) => Calls(t)'
  BY DEF Goes, Calls, OwnNode, OwnDatum, Adds, Walks, Reads, Answers
<1>5. raced => raced'
  OBVIOUS
<1> QED
  BY <1>1, <1>2, <1>3, <1>4, <1>5, MovesInv DEF Return

\* getSession leaves the table with v.
LEMMA GotInv ==
  ASSUME SessionInv, NEW t \in Threads, NEW v \in Values \cup {None}, Got(t, v),
         UNCHANGED <<now, chain, nodes, data>>,
         UNCHANGED <<calls, raced, crashed>>, Observe,
         pc[t] \in {"walk", "got"}, call[t].op = "get", InOrder => v \in seen[t]
  PROVE  SessionInv'
<1> DEFINE r == [call[t] EXCEPT !.val = v]
<1>1. /\ calls \in 0 .. MaxCalls /\ raced \in BOOLEAN /\ crashed \in BOOLEAN
      /\ call[t] \in LookCalls /\ call[t].at <= now
  BY ThreadTypes DEF CallOK
<1>2. r \in LookCalls /\ r.op = "get" /\ r.val = v /\ r.at = call[t].at
  BY <1>1, SetVal
<1>3. call' = [call EXCEPT ![t] = r] /\ pc' = [pc EXCEPT ![t] = "answer"]
  BY DEF Got
<1> HIDE DEF r
<1>4. "answer" \in Places /\ r \in AllCalls
  BY <1>2 DEF Places, AllCalls
<1>5. CallOK("answer", r, Len(nodes), Len(data), now)
  BY <1>1, <1>2 DEF CallOK
<1>6. ASSUME InOrder, Goes(t, "answer", r)
      PROVE  Calls(t)'
  <2>1. call'[t].op = "get" /\ pc'[t] = "answer" /\ call'[t].val = v
    BY <1>2, <1>6 DEF Goes
  <2>2. seen'[t] = seen[t]
    BY <2>1, Observed
  <2> QED
    BY <1>6, <2>1, <2>2 DEF Calls, OwnNode, OwnDatum, Adds, Walks, Reads, Answers
<1>7. raced => raced'
  OBVIOUS
<1> QED
  BY <1>1, <1>3, <1>4, <1>5, <1>6, <1>7, MovesInv
\* What the inner loop over the data finds, in these words.
LEMMA DatumOfIs ==
  ASSUME NEW n, NEW k
  PROVE  DatumOf(n, k) = Datum(nodes[n].value, data, k)
BY DEF DatumOf, Datum

\* A getSession or UpdateSessionData at its datum.
LEMMA FoundIs ==
  ASSUME SessionInv, NEW t \in Threads, pc[t] = "walk", call[t].op \in {"get", "update"},
         call[t].rest # <<>>, Matches(t, Head(call[t].rest))
  PROVE  LET r == call[t]
             d == DatumOf(Head(r.rest), r.key) IN
         /\ d = InList(r.rest, nodes, data, r.code, r.key)
         /\ d \in 1 .. Len(data) /\ d # None /\ data[d] \in DataRecord
<1> DEFINE r == call[t]
           d == DatumOf(Head(r.rest), r.key)
<1>1. /\ nodes \in Seq(NodeRecord(data)) /\ Len(nodes) \in Nat
      /\ data \in Seq(DataRecord) /\ Len(data) \in Nat
      /\ CallOK(pc[t], r, Len(nodes), Len(data), now)
  BY ThreadTypes
<1>2. r.rest \in Seq(1 .. Len(nodes))
  BY <1>1 DEF CallOK
<1>3. Head(r.rest) = r.rest[1] /\ Precedes(r.rest, Tail(r.rest))
  BY <1>1, <1>2, TailOf
<1>4. nodes[Head(r.rest)].code = r.code /\ d # None
  BY DEF Matches
<1>5. d = Datum(nodes[Head(r.rest)].value, data, r.key)
  BY DatumOfIs
<1>6. d = InList(r.rest, nodes, data, r.code, r.key)
  BY <1>3, <1>4, <1>5, InNext
<1>7. d \in 1 .. Len(data)
  BY <1>1, <1>2, <1>4, <1>6, InType
<1> QED
  BY <1>1, <1>4, <1>6, <1>7

\* What a getSession on its way would find was there.
LEMMA GetsSeen ==
  ASSUME InOrder, NEW t \in Threads, pc[t] = "walk", call[t].op = "get"
  PROVE  LET r == call[t] IN
         /\ EndOf(r.rest, chain[Index(r.code)])
         /\ Held(InList(r.rest, nodes, data, r.code, r.key), data, r.at) \in seen[t]
BY DEF InOrder, Calls, Walks

\* A SessionAdd that goes on keeps its datum to itself.
LEMMA AddsOn ==
  ASSUME InOrder, NEW t \in Threads, pc[t] = "walk", NEW p, NEW r, Goes(t, p, r),
         UNCHANGED <<nodes, data>>,
         r.op = call[t].op, r.d = call[t].d, r.key = call[t].key
  PROVE  OwnDatum(t)'
<1> SUFFICES ASSUME call[t].op = "add"
             PROVE  OwnDatum(t)'
  BY DEF OwnDatum, Adds, Goes
<1>1. Adds(t) /\ OwnDatum(t)
  BY DEF InOrder, Calls, Adds
<1>2. call'[t] = r /\ \A u \in Threads \ {t} : Adds(u)' = Adds(u) /\ call'[u] = call[u]
  BY DEF Goes, Adds
<1> QED
  BY <1>1, <1>2 DEF OwnDatum

\* The walk goes on to the next node: it would find the same from there on.
LEMMA NextNodeInv ==
  ASSUME SessionInv, NEW t \in Threads, NextNode(t), UNCHANGED calls, Observe
  PROVE  SessionInv'
<1> DEFINE o == call[t]
           r == [o EXCEPT !.rest = Tail(o.rest)]
<1>1. /\ TableTypes /\ calls \in 0 .. MaxCalls /\ raced \in BOOLEAN /\ crashed \in BOOLEAN
      /\ o \in LookCalls /\ o.at <= now /\ o.rest \in Seq(1 .. Len(nodes)) /\ o.val \in Values
      /\ o.op = "add" => o.d \in 1 .. Len(data)
      /\ Len(nodes) \in Nat /\ CallTypes
  BY ThreadTypes DEF CallOK, NextNode
<1>2. pc[t] = "walk" /\ o.rest # <<>> /\ ~Matches(t, Head(o.rest))
  BY DEF NextNode
<1>3. /\ Tail(o.rest) \in Seq(1 .. Len(nodes)) /\ Precedes(o.rest, Tail(o.rest))
      /\ Head(o.rest) = o.rest[1]
  BY <1>1, <1>2, TailOf
<1>4. Tail(o.rest) \in Seq(Nat)
  BY <1>1, <1>3, Numbers
<1>5. /\ r \in LookCalls /\ r.op = o.op /\ r.code = o.code /\ r.key = o.key
      /\ r.val = o.val /\ r.at = o.at /\ r.d = o.d /\ r.rest = Tail(o.rest)
  BY <1>1, <1>4, SetRest
<1>6. call' = [call EXCEPT ![t] = r]
  BY DEF NextNode
<1>7. pc' = [pc EXCEPT ![t] = "walk"]
  BY <1>1, <1>2 DEF NextNode, CallTypes
<1> HIDE DEF r
<1>8. "walk" \in Places /\ r \in AllCalls
  BY <1>5 DEF Places, AllCalls
<1>9. CallOK("walk", r, Len(nodes), Len(data), now)
  BY <1>1, <1>3, <1>5 DEF CallOK
<1>10. ASSUME InOrder, Goes(t, "walk", r)
       PROVE  Calls(t)'
  <2>1. /\ pc'[t] = "walk" /\ call'[t] = r
        /\ UNCHANGED <<chain, nodes, data>>
    BY <1>10 DEF Goes, NextNode
  <2>2. OwnDatum(t)'
    BY <1>2, <1>5, <1>10, <2>1, AddsOn
  <2>3. Walks(t)'
    <3> SUFFICES ASSUME o.op = "get"
                 PROVE  Walks(t)'
      BY <1>5, <2>1 DEF Walks
    <3>1. EndOf(o.rest, chain[Index(o.code)])
      BY <1>2, <1>10, GetsSeen
    <3>2. o.code \in Codes
      BY <1>1 DEF LookCalls
    <3>3. Len(chain[Index(o.code)]) \in Nat
      BY <1>1, <3>2, CodeTypes DEF TableTypes
    <3>4. EndOf(r.rest, chain[Index(o.code)])
      BY <1>1, <1>2, <1>5, <3>1, <3>3, EndTail
    <3>5. InList(r.rest, nodes, data, o.code, o.key) = InList(o.rest, nodes, data, o.code, o.key)
      BY <1>2, <1>3, <1>5, InNext, DatumOfIs DEF Matches
    <3>6. Held(InList(r.rest, nodes, data, r.code, r.key), data, r.at) \in seen[t]
      BY <1>2, <1>5, <1>10, <3>5, GetsSeen
    <3>7. seen[t] \subseteq seen'[t]
      BY <1>5, <2>1, Observed
    <3> QED
      BY <1>5, <2>1, <3>4, <3>6, <3>7 DEF Walks, Index
  <2> QED
    BY <2>1, <2>2, <2>3 DEF Calls, OwnNode, Reads, Answers
<1>11. UNCHANGED <<now, chain, nodes, data>> /\ UNCHANGED <<raced, crashed>>
  BY DEF NextNode
<1> QED
  BY <1>1, <1>6, <1>7, <1>8, <1>9, <1>10, <1>11, MovesInv
\* The end of the chain: there is nothing more to be found.
LEMMA NotFoundInv ==
  ASSUME SessionInv, NEW t \in Threads, NotFound(t), UNCHANGED calls, Observe
  PROVE  SessionInv'
<1>1. /\ pc[t] = "walk" /\ call[t].rest = <<>>
      /\ UNCHANGED <<now, chain, nodes, data>> /\ UNCHANGED <<calls, raced, crashed>>
  BY DEF NotFound
<1>2. CASE call[t].op = "get"
  <2>1. Got(t, None)
    BY <1>2 DEF NotFound
  <2>2. ASSUME InOrder
        PROVE  None \in seen[t]
    <3>1. InList(<<>>, nodes, data, call[t].code, call[t].key) = None
      BY DEF InList, Hits
    <3> QED
      BY <1>1, <1>2, <2>2, <3>1, GetsSeen DEF Held
  <2> QED
    BY <1>1, <1>2, <2>1, <2>2, GotInv
<1>3. CASE call[t].op # "get"
  BY <1>1, <1>3, ReturnInv DEF NotFound
<1> QED
  BY <1>2, <1>3

\* SessionAdd reads the head of its node's data.
LEMMA AddFoundInv ==
  ASSUME SessionInv, NEW t \in Threads, AddFound(t), UNCHANGED calls, Observe
  PROVE  SessionInv'
<1> DEFINE o == call[t]
           n == Head(o.rest)
           r == [o EXCEPT !.rest = <<n>> \o nodes[n].value]
<1>1. /\ calls \in 0 .. MaxCalls /\ raced \in BOOLEAN /\ crashed \in BOOLEAN
      /\ o \in LookCalls /\ o.at <= now /\ o.rest \in Seq(1 .. Len(nodes))
      /\ o.op = "add" /\ o.d \in 1 .. Len(data) /\ o.rest # <<>> /\ pc[t] = "walk"
      /\ Len(nodes) \in Nat /\ Len(data) \in Nat /\ nodes \in Seq(NodeRecord(data))
  BY ThreadTypes DEF CallOK, AddFound
<1>2. n \in 1 .. Len(nodes)
  BY <1>1, TailOf
<1>3. nodes[n].value \in Seq(1 .. Len(data))
  BY <1>1, <1>2, NodeIs
<1>4. nodes[n].value \in Seq(Nat)
  BY <1>1, <1>3, Numbers
<1>5. /\ call' = [call EXCEPT ![t] = r] /\ pc' = [pc EXCEPT ![t] = "link"]
      /\ UNCHANGED <<now, chain, nodes, data>> /\ UNCHANGED <<raced, crashed>>
  BY DEF AddFound
<1>6. \A v \in Seq(1 .. Len(data)) :
        /\ <<n>> \o v # <<>> /\ Head(<<n>> \o v) = n /\ Tail(<<n>> \o v) = v
  BY <1>2
<1>7. <<n>> \o nodes[n].value \in Seq(Nat)
  BY <1>2, <1>4
<1>8. /\ r \in LookCalls /\ r.op = o.op /\ r.at = o.at /\ r.d = o.d /\ r.key = o.key
      /\ r.rest = <<n>> \o nodes[n].value
  BY <1>1, <1>7, SetRest
<1> HIDE DEF r
<1>9. "link" \in Places /\ r \in AllCalls
  BY <1>8 DEF Places, AllCalls
<1>10. CallOK("link", r, Len(nodes), Len(data), now)
  BY <1>1, <1>2, <1>3, <1>6, <1>8 DEF CallOK
<1>11. ASSUME InOrder, Goes(t, "link", r)
       PROVE  Calls(t)'
  <2>1. OwnDatum(t)'
    BY <1>1, <1>5, <1>8, <1>11, AddsOn
  <2> QED
    BY <1>11, <2>1 DEF Calls, OwnNode, Walks, Reads, Answers, Goes
<1> QED
  BY <1>1, <1>5, <1>9, <1>10, <1>11, MovesInv

\* getSession at its datum: what it found is what it would find all along.
LEMMA GetFoundInv ==
  ASSUME SessionInv, NEW t \in Threads, GetFound(t), UNCHANGED calls, Observe
  PROVE  SessionInv'
<1> DEFINE o == call[t]
           d == DatumOf(Head(o.rest), o.key)
           r == [o EXCEPT !.d = d]
<1>1. /\ calls \in 0 .. MaxCalls /\ raced \in BOOLEAN /\ crashed \in BOOLEAN
      /\ o \in LookCalls /\ o.at <= now /\ o.op = "get" /\ pc[t] = "walk"
      /\ Len(data) \in Nat
  BY ThreadTypes DEF CallOK, GetFound
<1>2. o.rest # <<>> /\ Matches(t, Head(o.rest)) /\ UNCHANGED <<now, chain, nodes, data, crashed>>
  BY DEF GetFound
<1>3. /\ d = InList(o.rest, nodes, data, o.code, o.key)
      /\ d \in 1 .. Len(data) /\ d # None
  BY <1>1, <1>2, FoundIs
<1> HIDE DEF d
<1>4. ASSUME InOrder
      PROVE  IF Fresh(d, o.at) THEN data[d].data \in seen[t] ELSE None \in seen[t]
  BY <1>1, <1>3, <1>4, GetsSeen DEF Held, Fresh
<1>5. CASE ~Fresh(d, o.at)
  <2>1. Got(t, None) /\ UNCHANGED raced
    BY <1>5 DEF GetFound, d
  <2> QED
    BY <1>1, <1>2, <1>4, <1>5, <2>1, GotInv
<1>6. CASE Fresh(d, o.at)
  <2>1. /\ call' = [call EXCEPT ![t] = r] /\ pc' = [pc EXCEPT ![t] = "got"]
        /\ raced' = (raced \/ Freed(d))
    BY <1>6 DEF GetFound, d
  <2>2. raced' \in BOOLEAN /\ (raced => raced') /\ (~raced' => ~Freed(d))
    BY <1>1, <2>1 DEF Freed
  <2>3. /\ r \in LookCalls /\ r.op = "get" /\ r.at = o.at /\ r.d = d
    BY <1>1, <1>3, SetD
  <2> HIDE DEF r
  <2>4. "got" \in Places /\ r \in AllCalls
    BY <2>3 DEF Places, AllCalls
  <2>5. CallOK("got", r, Len(nodes), Len(data), now)
    BY <1>1, <1>3, <2>3 DEF CallOK
  <2>6. ASSUME ~raced', InOrder, Goes(t, "got", r)
        PROVE  Calls(t)'
    <3>1. pc'[t] = "got" /\ call'[t].op = "get" /\ call'[t].d = d
      BY <2>3, <2>6 DEF Goes
    <3>2. seen[t] \subseteq seen'[t]
      BY <3>1, Observed
    <3>3. data'[d].data \in seen'[t]
      BY <1>2, <1>4, <1>6, <2>6, <3>2
    <3>4. ASSUME NEW u \in Threads, pc'[u] = "freed"
          PROVE  call'[u].d # d
      BY <2>2, <2>6, <3>1, <3>4 DEF Goes, Freed
    <3> QED
      BY <3>1, <3>3, <3>4 DEF Calls, OwnNode, OwnDatum, Adds, Walks, Reads, Answers
  <2> QED
    BY <1>1, <1>2, <2>1, <2>2, <2>4, <2>5, <2>6, MovesInv
<1> QED
  BY <1>5, <1>6
\* The view copies the value: it is still the one the pointer was got for.
LEMMA GetReadInv ==
  ASSUME SessionInv, NEW t \in Threads, GetRead(t), UNCHANGED calls, Observe
  PROVE  SessionInv'
<1>1. /\ pc[t] = "got" /\ call[t].op = "get" /\ call[t].d \in 1 .. Len(data)
      /\ data \in Seq(DataRecord)
  BY ThreadTypes DEF CallOK, GetRead
<1>2. data[call[t].d].data \in Values
  <2>1. data[call[t].d] \in DataRecord
    BY <1>1
  <2> QED
    BY <2>1 DEF DataRecord
<1>3. InOrder => data[call[t].d].data \in seen[t]
  BY <1>1 DEF InOrder, Calls, Reads
<1> QED
  BY <1>1, <1>2, <1>3, GotInv DEF GetRead

\* UpdateSessionData frees the old value of its datum.
LEMMA UpdateFreeInv ==
  ASSUME SessionInv, NEW t \in Threads, UpdateFree(t), UNCHANGED calls, Observe
  PROVE  SessionInv'
<1> DEFINE o == call[t]
           d == DatumOf(Head(o.rest), o.key)
           r == [o EXCEPT !.d = d]
<1>1. /\ calls \in 0 .. MaxCalls /\ raced \in BOOLEAN /\ crashed \in BOOLEAN
      /\ o \in LookCalls /\ o.at <= now /\ o.op = "update" /\ pc[t] = "walk"
      /\ Len(data) \in Nat /\ o.val \in Values
  BY ThreadTypes DEF CallOK, UpdateFree
<1>2. o.rest # <<>> /\ Matches(t, Head(o.rest)) /\ UNCHANGED <<now, chain, nodes, data>>
  BY DEF UpdateFree
<1>3. d \in 1 .. Len(data)
  BY <1>1, <1>2, FoundIs
<1>4. /\ call' = [call EXCEPT ![t] = r] /\ pc' = [pc EXCEPT ![t] = "freed"]
  BY DEF UpdateFree
<1> HIDE DEF d
<1>5. /\ raced' = (raced \/ Freed(d) \/ \E u \in Threads : pc[u] = "got" /\ call[u].d = d)
      /\ crashed' \in {FALSE, Freed(d)}
  BY DEF UpdateFree, d
<1>6. raced' \in BOOLEAN /\ crashed' \in BOOLEAN /\ (raced => raced')
  BY <1>1, <1>5 DEF Freed
<1>7. /\ r \in LookCalls /\ r.op = "update" /\ r.at = o.at /\ r.d = d /\ r.val = o.val
  BY <1>1, <1>3, SetD
<1> HIDE DEF r
<1>8. "freed" \in Places /\ r \in AllCalls
  BY <1>7 DEF Places, AllCalls
<1>9. CallOK("freed", r, Len(nodes), Len(data), now)
  BY <1>1, <1>3, <1>7 DEF CallOK
<1>10. ~raced' => \A u \in Threads \ {t} : pc[u] = "got" => r.d # call[u].d
  BY <1>5, <1>7
<1>11. Goes(t, "freed", r) => Calls(t)'
  BY DEF Goes, Calls, OwnNode, OwnDatum, Adds, Walks, Reads, Answers
<1> QED
  BY <1>1, <1>2, <1>4, <1>6, <1>8, <1>9, <1>10, <1>11, MovesInv

\* The clock.
LEMMA TickInv ==
  ASSUME SessionInv, Tick, UNCHANGED calls, Observe
  PROVE  SessionInv'
<1>1. TableTypes /\ CallTypes
  BY TypesAre DEF SessionInv
<1>2. TableTypes'
  <2>1. now' \in Times /\ now \in Int
    BY <1>1, SessionAssumption DEF TableTypes, Tick, Times
  <2>2. ASSUME NEW d \in 1 .. Len(data)
        PROVE  data[d].time_store <= now + 1
    <3>1. data[d] \in DataRecord /\ data[d].time_store <= now
      BY <1>1 DEF TableTypes
    <3> QED
      BY <2>1, <3>1 DEF DataRecord, Times
  <2> QED
    BY <1>1, <2>1, <2>2 DEF TableTypes, Tick
<1>3. CallTypes'
  <2>1. ASSUME NEW u \in Threads
        PROVE  CallOK(pc'[u], call'[u], Len(nodes'), Len(data'), now')
    <3>1. CallOK(pc[u], call[u], Len(nodes), Len(data), now)
      BY <1>1 DEF CallTypes
    <3>2. /\ Len(nodes) \in Nat /\ Len(data) \in Nat /\ now \in Int /\ now' \in Int
          /\ Len(nodes) <= Len(nodes') /\ Len(data) <= Len(data') /\ now <= now'
          /\ Len(nodes') \in Nat /\ Len(data') \in Nat
      BY <1>1, <1>2 DEF TableTypes, Times, Tick
    <3>3. CallOK(pc[u], call[u], Len(nodes'), Len(data'), now')
      BY <3>1, <3>2, CallStays
    <3> QED
      BY <3>3 DEF Tick
  <2> QED
    BY <1>1, <2>1 DEF CallTypes, Tick
<1>4. SessionTypes'
  BY <1>2, <1>3, TypesAreNext
<1>5. ASSUME InOrder
      PROVE  InOrder'
  <2>1. Apart' /\ Owned'
    BY <1>5 DEF InOrder, Apart, Owned, Tick
  <2>2. Grows /\ chain' = chain
    <3>1. Len(nodes) \in Nat /\ Len(data) \in Nat
      BY <1>1 DEF TableTypes
    <3> QED
      BY <3>1 DEF Tick, Grows
  <2>3. Others({})
    BY DEF Others, Tick
  <2>4. \A u \in Threads : Calls(u)'
    <3>1. {} \cap Threads = {}
      OBVIOUS
    <3> QED
      BY <1>1, <1>2, <1>5, <2>2, <2>3, <3>1, OthersKeep
  <2> QED
    BY <2>1, <2>4 DEF InOrder
<1>6. raced' = raced
  BY DEF Tick
<1> QED
  BY <1>4, <1>5, <1>6 DEF SessionInv
-----------------------------------------------------------------------------
(***************************************************************************)
(* Calls that begin.                                                       *)
(***************************************************************************)

\* A thread moves and has made nodes or data that nobody can reach yet.
LEMMA MakesInv ==
  ASSUME SessionInv, NEW t \in Threads, NEW p \in Places, NEW r \in AllCalls, p # "freed",
         pc' = [pc EXCEPT ![t] = p], call' = [call EXCEPT ![t] = r],
         UNCHANGED <<now, chain, raced, crashed>>, calls' \in 0 .. MaxCalls, Observe,
         nodes' \in Seq(NodeRecord(data')), data' \in Seq(DataRecord), Grows,
         \A d \in 1 .. Len(data') : data'[d].time_store <= now,
         CallOK(p, r, Len(nodes'), Len(data'), now),
         InOrder /\ Goes(t, p, r) => Owned' /\ Calls(t)'
  PROVE  SessionInv'
<1>1. TableTypes /\ CallTypes
  BY TypesAre DEF SessionInv
<1>2. /\ Len(nodes) \in Nat /\ Len(data) \in Nat /\ now \in Int
      /\ Len(nodes') \in Nat /\ Len(data') \in Nat
      /\ Len(nodes) <= Len(nodes') /\ Len(data) <= Len(data')
  BY <1>1 DEF TableTypes, Times, Grows
<1>3. TableTypes'
  <2>1. \A b \in Buckets : chain[b] \in Seq(1 .. Len(nodes'))
    BY <1>1, <1>2, Wider DEF TableTypes
  <2>2. chain \in [Buckets -> Seq(1 .. Len(nodes'))]
    BY <1>1, <2>1 DEF TableTypes
  <2> QED
    BY <1>1, <2>2 DEF TableTypes
<1>4. CallTypes' /\ Goes(t, p, r)
  <2>1. now <= now' /\ CallOK(p, r, Len(nodes'), Len(data'), now')
    BY <1>2
  <2> QED
    BY <1>1, <1>2, <1>3, <2>1, CallsType
<1>5. SessionTypes'
  BY <1>3, <1>4, TypesAreNext
<1>6. ASSUME InOrder
      PROVE  InOrder'
  <2>1. Apart' /\ Owned' /\ Calls(t)'
    BY <1>4, <1>6 DEF InOrder, Apart
  <2>2. Others({t}) /\ pc'[t] # "freed"
    BY <1>4 DEF Others, Goes
  <2>3. \A u \in Threads : Calls(u)'
    <3>1. \A x \in {t} \cap Threads :
            /\ Calls(x)'
            /\ \A u \in Threads \ {t} : pc'[x] = "freed" /\ pc[u] = "got" => call'[x].d # call[u].d
      BY <2>1, <2>2
    <3> QED
      BY <1>1, <1>3, <1>6, <2>2, <3>1, OthersKeep
  <2> QED
    BY <2>1, <2>3 DEF InOrder
<1> QED
  BY <1>5, <1>6 DEF SessionInv
\* Nodes are nodes when there are more data.
LEMMA NodesWider ==
  ASSUME NEW D, Len(D) \in Nat, NEW E, Len(E) \in Nat, Len(D) <= Len(E),
         NEW N \in Seq(NodeRecord(D))
  PROVE  N \in Seq(NodeRecord(E))
<1>1. N \in [1 .. Len(N) -> NodeRecord(D)] /\ Len(N) \in Nat
  OBVIOUS
<1>2. ASSUME NEW n \in 1 .. Len(N)
      PROVE  N[n] \in NodeRecord(E)
  <2>1. N[n] \in [code : Codes, value : Seq(1 .. Len(D))]
    BY <1>1 DEF NodeRecord
  <2>2. N[n].value \in Seq(1 .. Len(E))
    BY <2>1, Wider
  <2>3. N[n].code \in Codes /\ N[n] = [code |-> N[n].code, value |-> N[n].value]
    BY <2>1
  <2> QED
    BY <2>2, <2>3 DEF NodeRecord
<1>3. N \in [1 .. Len(N) -> NodeRecord(E)]
  BY <1>1, <1>2
<1> QED
  BY <1>1, <1>3

\* The datum that a call makes.
LEMMA DatumMade ==
  ASSUME SessionInv, NEW t \in Threads, NEW k \in Keys, calls < MaxCalls,
         data' = Append(data, NewDatum(k))
  PROVE  /\ NewValue \in Values /\ NewValue \in Nat
         /\ data' \in Seq(DataRecord) /\ Len(data') = Len(data) + 1
         /\ \A d \in 1 .. Len(data) : data'[d] = data[d]
         /\ data'[Len(data) + 1].key = k
         /\ \A d \in 1 .. Len(data') : data'[d].time_store <= now
         /\ nodes \in Seq(NodeRecord(data'))
<1>1. /\ data \in Seq(DataRecord) /\ Len(data) \in Nat /\ nodes \in Seq(NodeRecord(data))
      /\ now \in Times /\ calls \in 0 .. MaxCalls /\ TableTypes
  BY ThreadTypes
<1>2. NewValue \in Values /\ NewValue \in Nat
  BY <1>1, SessionAssumption DEF NewValue, Values
<1>3. NewDatum(k) \in DataRecord
  BY <1>1, <1>2 DEF NewDatum, DataRecord
<1>4. /\ data' \in Seq(DataRecord) /\ Len(data') = Len(data) + 1
      /\ \A d \in 1 .. Len(data) : data'[d] = data[d]
      /\ data'[Len(data) + 1] = NewDatum(k)
  BY <1>1, <1>3
<1>5. ASSUME NEW d \in 1 .. Len(data')
      PROVE  data'[d].time_store <= now
  <2>1. CASE d = Len(data) + 1
    BY <1>1, <1>4, <2>1 DEF NewDatum, Times
  <2>2. CASE d # Len(data) + 1
    <3>1. d \in 1 .. Len(data)
      BY <1>1, <1>4, <2>2
    <3> QED
      BY <1>1, <1>4, <3>1 DEF TableTypes
  <2> QED
    BY <2>1, <2>2
<1>6. nodes \in Seq(NodeRecord(data'))
  <2>1. Len(data') \in Nat /\ Len(data) <= Len(data')
    BY <1>1, <1>4
  <2> QED
    BY <1>1, <2>1, NodesWider
<1> QED
  BY <1>2, <1>4, <1>5, <1>6 DEF NewDatum

\* getSession, SessionAdd or UpdateSessionData begins.
LEMMA BeginCallInv ==
  ASSUME SessionInv, NEW t \in Threads, NEW op \in {"get", "add", "update"}, BeginCall(t, op),
         calls < MaxCalls, calls' = calls + 1, Observe
  PROVE  SessionInv'
<1>1. PICK c \in Codes, k \in Keys :
        /\ pc[t] = "idle"
        /\ \/ op = "add" /\ data' = Append(data, NewDatum(k))
           \/ op \in {"get", "update"} /\ UNCHANGED data
        /\ pc' = [pc EXCEPT ![t] = "walk"]
        /\ call' = [call EXCEPT ![t] =
             [op |-> op, code |-> c, key |-> k, val |-> NewValue, at |-> now,
              rest |-> chain[Index(c)], d |-> IF op = "add" THEN Len(data) + 1 ELSE None]]
        /\ UNCHANGED <<now, chain, nodes, raced, crashed>>
  BY DEF BeginCall
<1> DEFINE r == [op |-> op, code |-> c, key |-> k, val |-> NewValue, at |-> now,
                 rest |-> chain[Index(c)], d |-> IF op = "add" THEN Len(data) + 1 ELSE None]
<1>2. /\ TableTypes /\ data \in Seq(DataRecord) /\ Len(data) \in Nat
      /\ nodes \in Seq(NodeRecord(data)) /\ Len(nodes) \in Nat
      /\ now \in Times /\ now \in Int /\ calls \in 0 .. MaxCalls
  BY ThreadTypes DEF Times
<1>3. calls' \in 0 .. MaxCalls /\ NewValue \in Values
  BY <1>2, SessionAssumption DEF NewValue, Values
<1>4. chain[Index(c)] \in Seq(1 .. Len(nodes))
  BY <1>2, CodeTypes DEF TableTypes
<1>5. chain[Index(c)] \in Seq(Nat)
  BY <1>2, <1>4, Numbers
<1>6. r \in LookCalls
  BY <1>2, <1>3, <1>5 DEF LookCalls
<1>7. "walk" \in Places /\ r \in AllCalls
  BY <1>6 DEF Places, AllCalls
<1>8. op # "add" => UNCHANGED data
  BY <1>1
<1>9. op = "add" => data' = Append(data, NewDatum(k))
  BY <1>1
<1>10. /\ data' \in Seq(DataRecord) /\ Len(data') \in Nat /\ nodes' \in Seq(NodeRecord(data'))
       /\ \A d \in 1 .. Len(data') : data'[d].time_store <= now
       /\ Len(data) <= Len(data') /\ \A d \in 1 .. Len(data) : data'[d] = data[d]
       /\ op = "add" => Len(data) + 1 \in 1 .. Len(data') /\ data'[Len(data) + 1].key = k
  <2>1. CASE op = "add"
    BY <1>1, <1>2, <1>9, <2>1, DatumMade
  <2>2. CASE op # "add"
    BY <1>1, <1>2, <1>8, <2>2 DEF TableTypes
  <2> QED
    BY <2>1, <2>2
<1>11. Grows
  BY <1>1, <1>2, <1>10 DEF Grows
<1>12. CallOK("walk", r, Len(nodes'), Len(data'), now)
  BY <1>1, <1>2, <1>3, <1>4, <1>6, <1>10 DEF CallOK
<1>13. ASSUME InOrder, Goes(t, "walk", r)
       PROVE  Owned' /\ Calls(t)'
  <2>1. Owned'
    BY <1>1, <1>13 DEF InOrder, Owned
  <2>2. OwnDatum(t)'
    <3> SUFFICES ASSUME op = "add"
                 PROVE  OwnDatum(t)'
      BY <1>13 DEF OwnDatum, Adds, Goes
    <3>1. /\ call'[t].d = Len(data) + 1 /\ call'[t].key = k
          /\ data'[Len(data) + 1].key = k
      BY <1>10, <1>13 DEF Goes
    <3>2. ASSUME NEW n \in 1 .. Len(nodes'), NEW i \in DOMAIN nodes'[n].value
          PROVE  nodes'[n].value[i] # Len(data) + 1
      <4>1. nodes[n].value \in Seq(1 .. Len(data)) /\ nodes' = nodes
        BY <1>1, <1>2, NodeIs
      <4>2. nodes[n].value[i] \in 1 .. Len(data)
        BY <4>1
      <4> QED
        BY <1>2, <4>1, <4>2
    <3>3. ASSUME NEW u \in Threads \ {t}, Adds(u)'
          PROVE  call'[u].d # Len(data) + 1
      <4>1. Adds(u) /\ call'[u] = call[u]
        BY <1>13, <3>3 DEF Goes, Adds
      <4>2. call[u].d \in 1 .. Len(data)
        BY <4>1, ThreadTypes DEF CallOK, Adds
      <4> QED
        BY <1>2, <4>1, <4>2
    <3> QED
      BY <3>1, <3>2, <3>3 DEF OwnDatum
  <2>3. Walks(t)'
    <3> SUFFICES ASSUME op = "get"
                 PROVE  Walks(t)'
      BY <1>13 DEF Walks, Goes
    <3>1. pc'[t] = "walk" /\ call'[t] = r /\ chain' = chain
      BY <1>1, <1>13 DEF Goes
    <3>2. EndOf(chain[Index(c)], chain[Index(c)])
      <4>1. \A ns \in Seq(1 .. Len(nodes)) : EndOf(ns, ns)
        <5>1. ASSUME NEW ns \in Seq(1 .. Len(nodes))
              PROVE  0 \in 0 .. Len(ns) /\ Len(ns) = Len(ns) - 0
          OBVIOUS
        <5>2. \A i \in Nat : i = i + 0
          OBVIOUS
        <5>3. \A ns \in Seq(1 .. Len(nodes)) : \A i \in 1 .. Len(ns) : ns[i] = ns[i + 0]
          BY <5>2
        <5> QED
          BY <5>1, <5>3 DEF EndOf
      <4> QED
        BY <1>4, <4>1
    <3>3. Held(InList(chain'[Index(c)], nodes', data', c, k), data', now) \in seen'[t]
      BY <3>1, Observed
    <3> QED
      BY <3>1, <3>2, <3>3 DEF Walks, Index
  <2> QED
    BY <1>13, <2>1, <2>2, <2>3 DEF Calls, OwnNode, Reads, Answers, Goes
<1> HIDE DEF r
<1>14. /\ pc' = [pc EXCEPT ![t] = "walk"] /\ call' = [call EXCEPT ![t] = r] /\ "walk" # "freed"
       /\ UNCHANGED <<now, chain, raced, crashed>>
  BY <1>1 DEF r
<1> QED
  BY <1>3, <1>7, <1>10, <1>11, <1>12, <1>13, <1>14, MakesInv
\* SessionCreate makes its node, which nobody else knows of.
LEMMA SessionCreateInv ==
  ASSUME SessionInv, NEW t \in Threads, SessionCreate(t),
         calls < MaxCalls, calls' = calls + 1, Observe
  PROVE  SessionInv'
<1> DEFINE c == get_random_str(now)
           nn == Len(nodes) + 1
           dd == Len(data) + 1
           new == [code |-> c, value |-> <<dd>>]
           r == [op |-> "create", code |-> c, node |-> nn, rest |-> chain[Index(c)]]
<1>1. PICK k \in Keys :
        /\ data' = Append(data, NewDatum(k)) /\ nodes' = Append(nodes, new)
        /\ pc' = [pc EXCEPT ![t] = "publish"] /\ call' = [call EXCEPT ![t] = r]
        /\ UNCHANGED <<now, chain, raced, crashed>>
  BY DEF SessionCreate
<1>2. /\ TableTypes /\ data \in Seq(DataRecord) /\ Len(data) \in Nat
      /\ nodes \in Seq(NodeRecord(data)) /\ Len(nodes) \in Nat
      /\ now \in Times /\ now \in Int /\ calls \in 0 .. MaxCalls
  BY ThreadTypes DEF Times
<1>3. c \in Codes /\ calls' \in 0 .. MaxCalls
  BY <1>2, CodeTypes, SessionAssumption
<1> HIDE DEF c
<1>4. /\ data' \in Seq(DataRecord) /\ Len(data') = Len(data) + 1
      /\ \A d \in 1 .. Len(data) : data'[d] = data[d]
      /\ \A d \in 1 .. Len(data') : data'[d].time_store <= now
      /\ nodes \in Seq(NodeRecord(data'))
  BY <1>1, DatumMade
<1>5. new \in NodeRecord(data')
  <2>1. dd \in 1 .. Len(data')
    BY <1>2, <1>4
  <2>2. <<dd>> \in Seq(1 .. Len(data'))
    BY <2>1
  <2> QED
    BY <1>3, <2>2 DEF NodeRecord
<1>6. /\ nodes' \in Seq(NodeRecord(data')) /\ Len(nodes') = nn
      /\ \A n \in 1 .. Len(nodes) : nodes'[n] = nodes[n]
      /\ nodes'[nn] = new
  <2> HIDE DEF new
  <2> QED
    BY <1>1, <1>2, <1>4, <1>5
<1>7. /\ DOMAIN nodes'[nn].value = {1} /\ nodes'[nn].value[1] = dd
      /\ nodes'[nn].code = c /\ nodes'[nn].value = <<dd>>
  BY <1>6
<1>8. \A n \in 1 .. Len(nodes') : n \in 1 .. Len(nodes) \/ n = nn
  BY <1>2, <1>6
<1>9. Grows
  BY <1>2, <1>4, <1>6, <1>7, <1>8 DEF Grows
<1>10. chain[Index(c)] \in Seq(1 .. Len(nodes))
  BY <1>2, <1>3, CodeTypes DEF TableTypes
<1>11. chain[Index(c)] \in Seq(Nat) /\ chain[Index(c)] \in Seq(1 .. Len(nodes'))
  BY <1>2, <1>6, <1>10, Numbers, Wider
<1>12. r \in CreateCalls
  BY <1>2, <1>3, <1>11 DEF CreateCalls
<1>13. "publish" \in Places /\ "publish" # "freed" /\ r \in AllCalls
  BY <1>12 DEF Places, AllCalls
<1>14. CallOK("publish", r, Len(nodes'), Len(data'), now)
  BY <1>2, <1>6, <1>11, <1>12 DEF CallOK
<1>15. ASSUME InOrder, Goes(t, "publish", r)
       PROVE  Owned' /\ Calls(t)'
  <2>1. ASSUME NEW n \in 1 .. Len(nodes), NEW i \in DOMAIN nodes[n].value
        PROVE  nodes[n].value[i] # dd
    <3>1. nodes[n].value \in Seq(1 .. Len(data))
      BY <1>2, NodeIs
    <3>2. nodes[n].value[i] \in 1 .. Len(data)
      BY <3>1
    <3> QED
      BY <1>2, <3>2
  <2>2. Owned'
    <3> SUFFICES ASSUME NEW m \in 1 .. Len(nodes'), NEW n \in 1 .. Len(nodes'),
                        NEW i \in DOMAIN nodes'[m].value, NEW j \in DOMAIN nodes'[n].value,
                        nodes'[m].value[i] = nodes'[n].value[j]
                 PROVE  m = n
      BY DEF Owned
    <3>1. CASE m \in 1 .. Len(nodes) /\ n \in 1 .. Len(nodes)
      BY <1>6, <1>15, <3>1 DEF InOrder, Owned
    <3>2. CASE m \in 1 .. Len(nodes) /\ n = nn
      BY <1>6, <1>7, <2>1, <3>2
    <3>3. CASE m = nn /\ n \in 1 .. Len(nodes)
      BY <1>6, <1>7, <2>1, <3>3
    <3> QED
      BY <1>8, <3>1, <3>2, <3>3
  <2>3. OwnNode(t)'
    <3>1. pc'[t] = "publish" /\ call'[t].node = nn /\ call'[t].code = c /\ chain' = chain
      BY <1>1, <1>15 DEF Goes
    <3>2. ASSUME NEW b \in Buckets, NEW i \in DOMAIN chain[b]
          PROVE  chain[b][i] # nn
      <4>1. chain[b] \in Seq(1 .. Len(nodes))
        BY <1>2 DEF TableTypes
      <4>2. chain[b][i] \in 1 .. Len(nodes)
        BY <4>1
      <4> QED
        BY <1>2, <4>2
    <3>3. ASSUME NEW u \in Threads \ {t}, pc'[u] = "publish"
          PROVE  call'[u].node # nn
      <4>1. pc[u] = "publish" /\ call'[u] = call[u]
        BY <1>15, <3>3 DEF Goes
      <4>2. call[u].node \in 1 .. Len(nodes)
        BY <4>1, ThreadTypes DEF CallOK
      <4> QED
        BY <1>2, <4>1, <4>2
    <3>4. dd \in 1 .. Len(data')
      BY <1>2, <1>4
    <3> QED
      BY <1>7, <3>1, <3>2, <3>3, <3>4 DEF OwnNode
  <2> QED
    BY <1>15, <2>2, <2>3 DEF Calls, OwnDatum, Adds, Walks, Reads, Answers, Goes
<1> HIDE DEF r
<1> QED
  BY <1>1, <1>3, <1>4, <1>6, <1>9, <1>13, <1>14, <1>15, MakesInv-----------------------------------------------------------------------------
(***************************************************************************)
(* The writes.                                                             *)
(***************************************************************************)

\* A call writes to the table and returns.
LEMMA WritesInv ==
  ASSUME SessionInv, NEW t \in Threads, Return(t), Observe, UNCHANGED <<now, calls, crashed>>,
         raced' \in BOOLEAN, raced => raced',
         chain' \in [Buckets -> Seq(1 .. Len(nodes))],
         nodes' \in Seq(NodeRecord(data)), Len(nodes') = Len(nodes),
         data' \in Seq(DataRecord), Len(data') = Len(data),
         \A d \in 1 .. Len(data) : data'[d].time_store <= now,
         ~raced' /\ InOrder /\ Goes(t, "idle", NoCall) =>
           Apart' /\ Owned' /\ \A u \in Threads \ {t} : Calls(u)'
  PROVE  SessionInv'
<1>1. TableTypes /\ CallTypes
  BY TypesAre DEF SessionInv
<1>2. /\ Len(nodes) \in Nat /\ Len(data) \in Nat /\ now \in Int
  BY <1>1 DEF TableTypes, Times
<1>3. TableTypes'
  <2>1. nodes' \in Seq(NodeRecord(data'))
    BY DEF NodeRecord
  <2> QED
    BY <1>1, <2>1 DEF TableTypes
<1>4. "idle" \in Places /\ NoCall \in AllCalls
  BY DEF Places, AllCalls
<1>5. CallTypes' /\ Goes(t, "idle", NoCall)
  <2>1. /\ Len(nodes) <= Len(nodes') /\ Len(data) <= Len(data') /\ now <= now'
        /\ CallOK("idle", NoCall, Len(nodes'), Len(data'), now')
    BY <1>2 DEF CallOK
  <2> QED
    BY <1>1, <1>3, <1>4, <2>1, CallsType DEF Return
<1>6. SessionTypes'
  BY <1>3, <1>5, TypesAreNext
<1>7. ASSUME ~raced'
      PROVE  InOrder'
  <2>1. InOrder
    BY <1>7 DEF SessionInv
  <2>2. Apart' /\ Owned' /\ \A u \in Threads \ {t} : Calls(u)'
    BY <1>5, <1>7, <2>1
  <2>3. Calls(t)'
    BY <1>5 DEF Goes, Calls, OwnNode, OwnDatum, Adds, Walks, Reads, Answers
  <2> QED
    BY <2>2, <2>3 DEF InOrder
<1> QED
  BY <1>6, <1>7 DEF SessionInv

\* A list with a node linked in before it.
LEMMA LinkedIs ==
  ASSUME NEW n \in Nat, NEW s \in Seq(1 .. n), NEW x \in 1 .. n
  PROVE  LET l == Linked(x, s) IN
         /\ l \in Seq(1 .. n) /\ Precedes(l, s) /\ l[1] = x /\ Len(l) = Len(s) + 1
         /\ \A i \in DOMAIN l : l[i] = x \/ \E j \in DOMAIN s : l[i] = s[j]
<1> DEFINE l == <<x>> \o s
<1>1. /\ l \in Seq(1 .. n) /\ Len(s) \in Nat /\ Len(l) = Len(s) + 1 /\ l[1] = x
      /\ \A i \in 1 .. Len(s) : l[i + 1] = s[i]
      /\ DOMAIN l = 1 .. Len(l) /\ DOMAIN s = 1 .. Len(s)
  OBVIOUS
<1> HIDE DEF l
<1>2. ASSUME NEW i \in DOMAIN l, i # 1
      PROVE  \E j \in DOMAIN s : l[i] = s[j]
  <2>1. i - 1 \in 1 .. Len(s) /\ (i - 1) + 1 = i
    BY <1>1, <1>2
  <2>2. l[i] = s[i - 1]
    BY <1>1, <2>1
  <2> QED
    BY <1>1, <2>1, <2>2
<1>3. \A i \in DOMAIN l : l[i] = x \/ \E j \in DOMAIN s : l[i] = s[j]
  BY <1>1, <1>2
<1> QED
  BY <1>1, <1>3 DEF Linked, Precedes, l

\* An end of the list is an end of the longer list.
LEMMA EndLinked ==
  ASSUME NEW s, NEW l, Precedes(l, s), Len(l) = Len(s) + 1, NEW rest, EndOf(rest, s), Len(rest) \in Nat
  PROVE  EndOf(rest, l)
<1>1. PICK m \in 0 .. Len(s) : /\ Len(rest) = Len(s) - m
                               /\ \A i \in 1 .. Len(rest) : rest[i] = s[i + m]
  BY DEF EndOf
<1>2. Len(s) \in Nat
  BY DEF Precedes
<1>3. m + 1 \in 0 .. Len(l) /\ Len(rest) = Len(l) - (m + 1)
  BY <1>1, <1>2
<1>4. ASSUME NEW i \in 1 .. Len(rest)
      PROVE  rest[i] = l[i + (m + 1)]
  <2>1. i + m \in 1 .. Len(s) /\ i + (m + 1) = (i + m) + 1
    BY <1>1, <1>2
  <2> QED
    BY <1>1, <2>1 DEF Precedes
<1> QED
  BY <1>3, <1>4 DEF EndOf

\* The write of the head of a chain, when nobody else wrote it since it was read.
LEMMA PublishIs ==
  ASSUME SessionInv, NEW t \in Threads, Publish(t)
  PROVE  LET n == call[t].node
             i == Index(call[t].code) IN
         /\ raced' \in BOOLEAN /\ (raced => raced')
         /\ call[t].code \in Codes /\ i \in Buckets /\ n \in 1 .. Len(nodes)
         /\ chain' \in [Buckets -> Seq(1 .. Len(nodes))]
         /\ \A b \in Buckets \ {i} : chain'[b] = chain[b]
         /\ ~raced' => /\ InOrder
                       /\ chain'[i] = Linked(n, chain[i]) /\ Precedes(chain'[i], chain[i])
                       /\ chain'[i][1] = n /\ Len(chain'[i]) = Len(chain[i]) + 1
                       /\ \A j \in DOMAIN chain'[i] :
                            chain'[i][j] = n \/ \E h \in DOMAIN chain[i] : chain'[i][j] = chain[i][h]
<1> DEFINE n == call[t].node
           i == Index(call[t].code)
<1>1. /\ TableTypes /\ raced \in BOOLEAN /\ Len(nodes) \in Nat
      /\ call[t] \in CreateCalls /\ n \in 1 .. Len(nodes) /\ call[t].rest \in Seq(1 .. Len(nodes))
  BY ThreadTypes DEF CallOK, Publish
<1>2. call[t].code \in Codes /\ i \in Buckets
  BY <1>1, CodeTypes DEF CreateCalls
<1>3. /\ chain' = [chain EXCEPT ![i] = Linked(n, call[t].rest)]
      /\ raced' = (raced \/ chain[i] # call[t].rest)
  BY DEF Publish
<1> HIDE DEF n, i
<1>4. raced' \in BOOLEAN /\ (raced => raced') /\ (~raced' => chain[i] = call[t].rest)
  BY <1>1, <1>3
<1>5. Linked(n, call[t].rest) \in Seq(1 .. Len(nodes))
  BY <1>1, LinkedIs
<1>6. /\ chain' \in [Buckets -> Seq(1 .. Len(nodes))]
      /\ \A b \in Buckets \ {i} : chain'[b] = chain[b]
      /\ chain'[i] = Linked(n, call[t].rest)
  BY <1>1, <1>2, <1>3, <1>5 DEF TableTypes
<1>7. ASSUME ~raced'
      PROVE  /\ InOrder /\ chain'[i] = Linked(n, chain[i]) /\ Precedes(chain'[i], chain[i])
             /\ chain'[i][1] = n /\ Len(chain'[i]) = Len(chain[i]) + 1
             /\ \A j \in DOMAIN chain'[i] :
                  chain'[i][j] = n \/ \E h \in DOMAIN chain[i] : chain'[i][j] = chain[i][h]
  <2>1. InOrder /\ chain'[i] = Linked(n, chain[i]) /\ chain[i] \in Seq(1 .. Len(nodes))
    BY <1>1, <1>2, <1>4, <1>6, <1>7 DEF SessionInv
  <2> DEFINE s == chain[i]
             l == Linked(n, s)
  <2>2. s \in Seq(1 .. Len(nodes))
    BY <2>1
  <2> HIDE DEF s
  <2>3. /\ Precedes(l, s) /\ l[1] = n /\ Len(l) = Len(s) + 1
        /\ \A j \in DOMAIN l : l[j] = n \/ \E h \in DOMAIN s : l[j] = s[h]
    BY <1>1, <2>2, LinkedIs
  <2> HIDE DEF l
  <2>4. chain'[i] = l
    BY <2>1 DEF l, s
  <2> QED
    BY <2>1, <2>3, <2>4 DEF s
<1> QED
  BY <1>1, <1>2, <1>4, <1>6, <1>7 DEF n, i
\* A list without repetitions, and an element that is not in it.
LEMMA ApartLinked ==
  ASSUME NEW s, NEW l, NEW x, Precedes(l, s), l[1] = x, \A h \in DOMAIN s : s[h] # x,
         \A h, j \in DOMAIN s : s[h] = s[j] => h = j
  PROVE  \A h, j \in DOMAIN l : l[h] = l[j] => h = j
<1>1. ASSUME NEW j \in DOMAIN l, j # 1
      PROVE  /\ j - 1 \in DOMAIN s /\ l[j] = s[j - 1] /\ j \in Int
  <2>1. j - 1 \in 1 .. Len(s) /\ (j - 1) + 1 = j
    BY <1>1 DEF Precedes
  <2> QED
    BY <2>1 DEF Precedes
<1> SUFFICES ASSUME NEW h \in DOMAIN l, NEW j \in DOMAIN l, l[h] = l[j]
             PROVE  h = j
  OBVIOUS
<1>2. CASE h = 1 /\ j # 1
  BY <1>1, <1>2
<1>3. CASE h # 1 /\ j = 1
  BY <1>1, <1>3
<1>4. CASE h # 1 /\ j # 1
  <2>1. h - 1 = j - 1
    BY <1>1, <1>4
  <2> QED
    BY <1>1, <1>4, <2>1
<1> QED
  BY <1>2, <1>3, <1>4

\* Other threads' getSession that has its datum, or has left, sees no
\* difference as long as nobody has touched the datum.
LEMMA GotStays ==
  ASSUME SessionInv, InOrder, NEW t \in Threads, Goes(t, "idle", NoCall), Observe,
         NEW u \in Threads \ {t}, pc[u] = "got" => data'[call[u].d].data = data[call[u].d].data
  PROVE  Reads(u)' /\ Answers(u)'
<1>1. /\ pc'[u] = pc[u] /\ call'[u] = call[u] /\ Reads(u) /\ Answers(u)
      /\ CallOK(pc[u], call[u], Len(nodes), Len(data), now)
  BY ThreadTypes DEF Goes, InOrder, Calls
<1>2. Reads(u)'
  <2> SUFFICES ASSUME pc[u] = "got"
               PROVE  Reads(u)'
    BY <1>1 DEF Reads
  <2>1. seen[u] \subseteq seen'[u]
    BY <1>1, Observed DEF CallOK
  <2>2. ASSUME NEW w \in Threads, pc'[w] = "freed"
        PROVE  call'[w].d # call[u].d
    BY <1>1, <2>2 DEF Reads, Goes
  <2> QED
    BY <1>1, <2>1, <2>2 DEF Reads
<1>3. Answers(u)'
  <2> SUFFICES ASSUME pc[u] = "answer"
               PROVE  Answers(u)'
    BY <1>1 DEF Answers
  <2>1. seen'[u] = seen[u]
    BY <1>1, Observed DEF CallOK
  <2> QED
    BY <1>1, <2>1 DEF Answers
<1> QED
  BY <1>2, <1>3

\* A new session becomes visible: a getSession on its way has passed the head
\* and finds what it would have found.
LEMMA PublishInv ==
  ASSUME SessionInv, NEW t \in Threads, Publish(t), UNCHANGED calls, Observe
  PROVE  SessionInv'
<1> DEFINE n == call[t].node
           i == Index(call[t].code)
<1>1. /\ raced' \in BOOLEAN /\ (raced => raced') /\ n \in 1 .. Len(nodes) /\ i \in Buckets
      /\ chain' \in [Buckets -> Seq(1 .. Len(nodes))]
      /\ \A b \in Buckets \ {i} : chain'[b] = chain[b]
  BY PublishIs
<1>2. /\ TableTypes /\ nodes \in Seq(NodeRecord(data)) /\ data \in Seq(DataRecord)
      /\ \A d \in 1 .. Len(data) : data[d].time_store <= now
  BY ThreadTypes DEF TableTypes
<1>3. pc[t] = "publish" /\ Return(t) /\ UNCHANGED <<now, nodes, data, crashed>>
  BY DEF Publish
<1>4. ASSUME ~raced', InOrder, Goes(t, "idle", NoCall)
      PROVE  Apart' /\ Owned' /\ \A u \in Threads \ {t} : Calls(u)'
  <2>1. /\ Precedes(chain'[i], chain[i])
        /\ chain'[i][1] = n /\ Len(chain'[i]) = Len(chain[i]) + 1
        /\ \A j \in DOMAIN chain'[i] :
             chain'[i][j] = n \/ \E h \in DOMAIN chain[i] : chain'[i][j] = chain[i][h]
    BY <1>4, PublishIs
  <2>2. OwnNode(t)
    BY <1>4 DEF InOrder, Calls
  <2> HIDE DEF i, n
  <2>3. Apart'
    <3>1. \A b \in Buckets \ {i} : \A h, j \in DOMAIN chain'[b] : chain'[b][h] = chain'[b][j] => h = j
      BY <1>1, <1>4 DEF InOrder, Apart
    <3>2. \A h \in DOMAIN chain[i] : chain[i][h] # n
      BY <1>1, <1>3, <2>2 DEF OwnNode, n
    <3>3. \A h, j \in DOMAIN chain[i] : chain[i][h] = chain[i][j] => h = j
      BY <1>1, <1>4 DEF InOrder, Apart
    <3>4. \A h, j \in DOMAIN chain'[i] : chain'[i][h] = chain'[i][j] => h = j
      BY <2>1, <3>2, <3>3, ApartLinked
    <3> QED
      BY <3>1, <3>4 DEF Apart
  <2>4. Owned'
    BY <1>3, <1>4 DEF InOrder, Owned
  <2>5. ASSUME NEW u \in Threads \ {t}
        PROVE  Calls(u)'
    <3>1. /\ pc'[u] = pc[u] /\ call'[u] = call[u] /\ Calls(u)
          /\ CallOK(pc[u], call[u], Len(nodes), Len(data), now)
      BY <1>4, ThreadTypes DEF InOrder, Goes
    <3>2. OwnNode(u)'
      <4> SUFFICES ASSUME pc[u] = "publish"
                   PROVE  OwnNode(u)'
        BY <3>1 DEF OwnNode
      <4>1. OwnNode(u) /\ call[u].node # n
        BY <1>3, <2>2, <3>1 DEF OwnNode, Calls, n
      <4>2. ASSUME NEW b \in Buckets, NEW j \in DOMAIN chain'[b]
            PROVE  chain'[b][j] # call[u].node
        <5>1. CASE b = i
          BY <1>1, <2>1, <4>1, <4>2, <5>1, SMTT(40) DEF OwnNode
        <5>2. CASE b # i
          BY <1>1, <4>1, <4>2, <5>2 DEF OwnNode
        <5> QED
          BY <5>1, <5>2
      <4>3. \A w \in Threads \ {u} : pc'[w] = "publish" => call'[w].node # call[u].node
        BY <1>4, <4>1 DEF OwnNode, Goes
      <4> QED
        BY <1>3, <3>1, <4>1, <4>2, <4>3 DEF OwnNode
    <3>3. OwnDatum(u)'
      <4>1. \A w \in Threads : Adds(w)' => Adds(w) /\ call'[w] = call[w]
        BY <1>4 DEF Adds, Goes, NoCall
      <4> QED
        BY <1>3, <3>1, <4>1 DEF Calls, OwnDatum
    <3>4. Walks(u)'
      <4> SUFFICES ASSUME pc[u] = "walk", call[u].op = "get"
                   PROVE  Walks(u)'
        BY <3>1 DEF Walks
      <4> DEFINE r == call[u]
                 b == Index(r.code)
      <4>1. EndOf(r.rest, chain[b]) /\ r.rest \in Seq(1 .. Len(nodes))
        BY <3>1 DEF Calls, Walks, CallOK
      <4>2. b \in Buckets
        BY <3>1, CodeTypes DEF CallOK, LookCalls
      <4> HIDE DEF b
      <4>3. EndOf(r.rest, chain'[b])
        <5>1. CASE b = i
          <6>1. Len(r.rest) \in Nat
            BY <4>1
          <6> QED
            BY <2>1, <4>1, <5>1, <6>1, EndLinked
        <5>2. CASE b # i
          BY <1>1, <4>1, <4>2, <5>2
        <5> QED
          BY <5>1, <5>2
      <4>4. Held(InList(r.rest, nodes, data, r.code, r.key), data, r.at) \in seen[u]
        BY <3>1 DEF Calls, Walks
      <4>5. seen[u] \subseteq seen'[u]
        BY <3>1, Observed
      <4> QED
        BY <1>3, <3>1, <4>3, <4>4, <4>5 DEF Walks, b, Index
    <3>5. Reads(u)' /\ Answers(u)'
      BY <1>3, <1>4, GotStays
    <3> QED
      BY <3>2, <3>3, <3>4, <3>5 DEF Calls
  <2> QED
    BY <2>3, <2>4, <2>5
<1>5. /\ UNCHANGED <<now, calls, crashed>> /\ nodes' \in Seq(NodeRecord(data))
      /\ data' \in Seq(DataRecord) /\ Len(nodes') = Len(nodes) /\ Len(data') = Len(data)
      /\ \A d \in 1 .. Len(data) : data'[d].time_store <= now
  BY <1>2, <1>3
<1> QED
  BY <1>1, <1>3, <1>4, <1>5, WritesInv
\* Datum d has the name k and is in a node of code c.
Under(d, c, k) ==
  /\ data[d].key = k
  /\ \E n \in 1 .. Len(nodes) : /\ nodes[n].code = c
                               /\ \E x \in DOMAIN nodes[n].value : nodes[n].value[x] = d

\* So it is with what a walk finds.
LEMMA FoundAt ==
  ASSUME SessionInv, NEW t \in Threads, NEW ns \in Seq(1 .. Len(nodes)), NEW c, NEW k,
         InList(ns, nodes, data, c, k) # None
  PROVE  Under(InList(ns, nodes, data, c, k), c, k)
<1> DEFINE d == InList(ns, nodes, data, c, k)
<1>1. nodes \in Seq(NodeRecord(data)) /\ Len(data) \in Nat
  BY ThreadTypes
<1>2. /\ data[d].key = k
      /\ \E i \in DOMAIN ns : /\ ns[i] \in 1 .. Len(nodes) /\ nodes[ns[i]].code = c
                              /\ \E j \in DOMAIN nodes[ns[i]].value : nodes[ns[i]].value[j] = d
  BY <1>1, InType
<1> QED
  BY <1>2 DEF Under

\* A datum is found under one code and name only.
LEMMA OneName ==
  ASSUME InOrder, NEW d, NEW c, NEW k, NEW b, NEW j, Under(d, c, k), Under(d, b, j)
  PROVE  b = c /\ j = k
<1>1. PICK m \in 1 .. Len(nodes) : nodes[m].code = c /\ \E x \in DOMAIN nodes[m].value : nodes[m].value[x] = d
  BY DEF Under
<1>2. PICK n \in 1 .. Len(nodes) : nodes[n].code = b /\ \E x \in DOMAIN nodes[n].value : nodes[n].value[x] = d
  BY DEF Under
<1>3. m = n
  BY <1>1, <1>2 DEF InOrder, Owned
<1> QED
  BY <1>1, <1>2, <1>3 DEF Under

\* The write of a value and its time: names stay, so every walk finds the same.
LEMMA UpdateSetIs ==
  ASSUME SessionInv, NEW t \in Threads, UpdateSet(t)
  PROVE  LET r == call[t] IN
         /\ raced' \in BOOLEAN /\ (raced => raced')
         /\ r.code \in Codes /\ r.key \in Keys /\ r.d \in 1 .. Len(data)
         /\ data' \in Seq(DataRecord) /\ Len(data') = Len(data)
         /\ \A e \in 1 .. Len(data) : data'[e].time_store <= now
         /\ \A e \in 1 .. Len(data) : e # r.d => data'[e] = data[e]
         /\ \A e \in 1 .. Len(data) : data'[e].key = data[e].key
         /\ \A ns \in Seq(1 .. Len(nodes)) : \A c, k :
              InList(ns, nodes, data', c, k) = InList(ns, nodes, data, c, k)
         /\ ~raced' => /\ InOrder
                       /\ r.d = InList(chain[Index(r.code)], nodes, data, r.code, r.key)
<1> DEFINE r == call[t]
           d == r.d
<1>1. /\ TableTypes /\ raced \in BOOLEAN /\ data \in Seq(DataRecord) /\ Len(data) \in Nat
      /\ nodes \in Seq(NodeRecord(data)) /\ Len(nodes) \in Nat
      /\ r \in LookCalls /\ r.at <= now /\ d \in 1 .. Len(data) /\ r.val \in Values
  BY ThreadTypes DEF CallOK, UpdateSet
<1>2. r.code \in Codes /\ r.key \in Keys /\ r.at \in Times
  BY <1>1 DEF LookCalls
<1>3. /\ data' = [data EXCEPT ![d].data = r.val, ![d].time_store = r.at]
      /\ raced' = (raced \/ Visible(r.code, r.key) # d)
  BY DEF UpdateSet
<1> HIDE DEF d, r
<1>4. /\ raced' \in BOOLEAN /\ (raced => raced') /\ (~raced' => Visible(r.code, r.key) = d)
  BY <1>1, <1>3
<1>5. data[d] \in DataRecord /\ DOMAIN data = 1 .. Len(data)
  BY <1>1
<1>6. /\ DOMAIN data' = 1 .. Len(data) /\ \A e \in 1 .. Len(data) : e # d => data'[e] = data[e]
      /\ data'[d] = [key |-> data[d].key, data |-> r.val, time_store |-> r.at]
  BY <1>1, <1>3, <1>5 DEF DataRecord
<1>7. data'[d] \in DataRecord /\ data'[d].key = data[d].key /\ data'[d].time_store = r.at
  BY <1>1, <1>2, <1>5, <1>6 DEF DataRecord
<1>8. data' \in [1 .. Len(data) -> DataRecord]
  <2>1. \A e \in 1 .. Len(data) : data'[e] \in DataRecord
    BY <1>1, <1>6, <1>7
  <2>2. data' = [e \in 1 .. Len(data) |-> data'[e]]
    BY <1>3, <1>5
  <2> QED
    BY <2>1, <2>2
<1>9. data' \in Seq(DataRecord) /\ Len(data') = Len(data)
  BY <1>1, <1>8
<1>10. \A e \in 1 .. Len(data) : data'[e].time_store <= now /\ data'[e].key = data[e].key
  <2>1. ASSUME NEW e \in 1 .. Len(data)
        PROVE  data'[e].time_store <= now /\ data'[e].key = data[e].key
    <3>1. CASE e = d
      BY <1>1, <1>7, <3>1
    <3>2. CASE e # d
      BY <1>1, <1>6, <3>2 DEF TableTypes
    <3> QED
      BY <3>1, <3>2
  <2> QED
    BY <2>1
<1>11. ASSUME NEW ns \in Seq(1 .. Len(nodes)), NEW c, NEW k
       PROVE  InList(ns, nodes, data', c, k) = InList(ns, nodes, data, c, k)
  <2>1. ASSUME NEW j \in DOMAIN ns
        PROVE  Datum(nodes[ns[j]].value, data', k) = Datum(nodes[ns[j]].value, data, k)
    <3>1. ns[j] \in 1 .. Len(nodes)
      OBVIOUS
    <3>2. nodes[ns[j]].value \in Seq(1 .. Len(data))
      BY <1>1, <3>1, NodeIs
    <3>3. \A h \in DOMAIN nodes[ns[j]].value : nodes[ns[j]].value[h] \in 1 .. Len(data)
      BY <3>2
    <3> QED
      BY <1>10, <3>3, DatumSame
  <2>2. DOMAIN ns \subseteq Nat
    OBVIOUS
  <2> QED
    BY <2>1, <2>2, InSame
<1>12. ~raced' => InOrder /\ d = InList(chain[Index(r.code)], nodes, data, r.code, r.key)
  BY <1>1, <1>4, VisibleIs DEF SessionInv
<1> QED
  BY <1>1, <1>2, <1>4, <1>6, <1>9, <1>10, <1>11, <1>12 DEF d, r

\* A value is replaced: a getSession that would find the datum asks for the
\* name that a new call would find it under, too.
LEMMA UpdateSetInv ==
  ASSUME SessionInv, NEW t \in Threads, UpdateSet(t), UNCHANGED calls, Observe
  PROVE  SessionInv'
<1> DEFINE o == call[t]
           d == o.d
<1>1. /\ raced' \in BOOLEAN /\ (raced => raced') /\ o.code \in Codes /\ d \in 1 .. Len(data)
      /\ data' \in Seq(DataRecord) /\ Len(data') = Len(data)
      /\ \A e \in 1 .. Len(data) : data'[e].time_store <= now
      /\ \A e \in 1 .. Len(data) : e # d => data'[e] = data[e]
      /\ \A e \in 1 .. Len(data) : data'[e].key = data[e].key
  BY UpdateSetIs
<1>2. \A ns \in Seq(1 .. Len(nodes)) : \A c, k :
        InList(ns, nodes, data', c, k) = InList(ns, nodes, data, c, k)
  BY UpdateSetIs
<1>3. pc[t] = "freed" /\ Return(t) /\ UNCHANGED <<now, chain, nodes, crashed>>
  BY DEF UpdateSet
<1>4. /\ TableTypes /\ nodes \in Seq(NodeRecord(data)) /\ data \in Seq(DataRecord)
      /\ Len(nodes) \in Nat /\ Len(data) \in Nat
  BY ThreadTypes
<1>5. ASSUME ~raced', InOrder, Goes(t, "idle", NoCall)
      PROVE  Apart' /\ Owned' /\ \A u \in Threads \ {t} : Calls(u)'
  <2>1. d = InList(chain[Index(o.code)], nodes, data, o.code, o.key)
    BY <1>5, UpdateSetIs
  <2>2. Apart' /\ Owned'
    BY <1>3, <1>5 DEF InOrder, Apart, Owned
  <2>3. ASSUME NEW u \in Threads \ {t}
        PROVE  Calls(u)'
    <3>1. /\ pc'[u] = pc[u] /\ call'[u] = call[u] /\ Calls(u)
          /\ CallOK(pc[u], call[u], Len(nodes), Len(data), now)
      BY <1>5, ThreadTypes DEF InOrder, Goes
    <3>2. OwnNode(u)'
      <4>1. \A w \in Threads : pc'[w] = "publish" => pc[w] = "publish" /\ call'[w] = call[w]
        BY <1>5 DEF Goes
      <4> QED
        BY <1>1, <1>3, <3>1, <4>1 DEF Calls, OwnNode
    <3>3. OwnDatum(u)'
      <4> SUFFICES ASSUME Adds(u)
                   PROVE  OwnDatum(u)'
        BY <3>1 DEF OwnDatum, Adds
      <4>1. \A w \in Threads : Adds(w)' => Adds(w) /\ call'[w] = call[w]
        BY <1>5 DEF Adds, Goes, NoCall
      <4>2. call[u].d \in 1 .. Len(data)
        BY <3>1 DEF CallOK, Adds
      <4> QED
        BY <1>1, <1>3, <3>1, <4>1, <4>2 DEF Calls, OwnDatum
    <3>4. Walks(u)'
      <4> SUFFICES ASSUME pc[u] = "walk", call[u].op = "get"
                   PROVE  Walks(u)'
        BY <3>1 DEF Walks
      <4> DEFINE r == call[u]
                 e == InList(r.rest, nodes, data, r.code, r.key)
      <4>1. /\ EndOf(r.rest, chain[Index(r.code)]) /\ r.rest \in Seq(1 .. Len(nodes))
            /\ Held(e, data, r.at) \in seen[u]
        BY <3>1 DEF Calls, Walks, CallOK
      <4>2. InList(r.rest, nodes, data', r.code, r.key) = e
        BY <1>2, <4>1
      <4>3. e = None \/ e \in 1 .. Len(data)
        BY <1>4, <4>1, InType
      <4>4. /\ seen[u] \subseteq seen'[u]
            /\ Held(InList(chain[Index(r.code)], nodes, data', r.code, r.key), data', r.at) \in seen'[u]
        BY <1>3, <3>1, Observed
      <4>5. Held(e, data', r.at) \in seen'[u]
        <5>1. CASE e = None
          BY <4>1, <4>4, <5>1 DEF Held
        <5>2. CASE e # None /\ e # d
          <6>1. data'[e] = data[e]
            BY <1>1, <4>3, <5>2
          <6>2. Held(e, data', r.at) = Held(e, data, r.at)
            BY <6>1 DEF Held
          <6> QED
            BY <4>1, <4>4, <6>2
        <5>3. CASE e # None /\ e = d
          <6>1. /\ chain[Index(o.code)] \in Seq(1 .. Len(nodes))
            BY <1>1, <1>4, CodeTypes DEF TableTypes
          <6>2. r.code = o.code /\ r.key = o.key
            <7>1. Under(e, r.code, r.key)
              BY <4>1, <5>3, FoundAt
            <7>2. Under(d, o.code, o.key)
              BY <2>1, <5>3, <6>1, FoundAt
            <7> QED
              BY <1>5, <5>3, <7>1, <7>2, OneName
          <6>3. InList(chain[Index(r.code)], nodes, data', r.code, r.key) = e
            BY <1>2, <2>1, <5>3, <6>1, <6>2
          <6> QED
            BY <4>4, <6>3
        <5> QED
          BY <5>1, <5>2, <5>3
      <4> QED
        BY <1>3, <3>1, <4>1, <4>2, <4>5 DEF Walks, Index
    <3>5. Reads(u)' /\ Answers(u)'
      <4>1. pc[u] = "got" => call[u].d # d /\ call[u].d \in 1 .. Len(data)
        BY <1>3, <3>1 DEF Calls, Reads, CallOK
      <4> QED
        BY <1>1, <1>5, <4>1, GotStays
    <3> QED
      BY <3>2, <3>3, <3>4, <3>5 DEF Calls
  <2> QED
    BY <2>2, <2>3
<1>6. /\ UNCHANGED <<now, calls, crashed>> /\ nodes' \in Seq(NodeRecord(data))
      /\ Len(nodes') = Len(nodes) /\ chain' \in [Buckets -> Seq(1 .. Len(nodes))]
  BY <1>3, <1>4 DEF TableTypes
<1> QED
  BY <1>1, <1>3, <1>5, <1>6, WritesInv
\* The first node of a code, as SessionAdd finds it.
LEMMA SessionOfIs ==
  ASSUME NEW c, NEW n, n # None, SessionOf(c) = n, DOMAIN chain[Index(c)] \subseteq Nat
  PROVE  \E i \in DOMAIN chain[Index(c)] :
           /\ chain[Index(c)][i] = n /\ nodes[n].code = c
           /\ \A j \in DOMAIN chain[Index(c)] : nodes[chain[Index(c)][j]].code = c => i <= j
<1> DEFINE ns == chain[Index(c)]
           hits == {i \in DOMAIN ns : nodes[ns[i]].code = c}
<1>1. hits # {} /\ n = ns[First(hits)]
  BY DEF SessionOf
<1>2. hits \subseteq Nat
  OBVIOUS
<1>3. First(hits) \in hits /\ \A j \in hits : First(hits) <= j
  BY <1>1, <1>2, FirstIs
<1> QED
  BY <1>1, <1>3

\* The write of the head of a node's data, when nobody else wrote it since it
\* was read and the node is still the one that a new call would find.
LEMMA AddLinkIs ==
  ASSUME SessionInv, NEW t \in Threads, AddLink(t)
  PROVE  LET o == call[t]
             n == Head(o.rest) IN
         /\ raced' \in BOOLEAN /\ (raced => raced')
         /\ o.code \in Codes /\ o.key \in Keys /\ o.d \in 1 .. Len(data) /\ n \in 1 .. Len(nodes)
         /\ nodes' \in Seq(NodeRecord(data)) /\ Len(nodes') = Len(nodes)
         /\ \A m \in 1 .. Len(nodes) : nodes'[m].code = nodes[m].code
         /\ \A m \in 1 .. Len(nodes) : m # n => nodes'[m].value = nodes[m].value
         /\ ~raced' => /\ InOrder /\ data[o.d].key = o.key
                       /\ nodes[n].value \in Seq(1 .. Len(data))
                       /\ nodes'[n].value = Linked(o.d, nodes[n].value)
                       /\ SessionOf(o.code) = n
<1> DEFINE o == call[t]
           n == Head(o.rest)
           old == Tail(o.rest)
<1>1. /\ TableTypes /\ raced \in BOOLEAN /\ Len(data) \in Nat
      /\ nodes \in Seq(NodeRecord(data)) /\ Len(nodes) \in Nat
      /\ o \in LookCalls /\ o.op = "add" /\ o.d \in 1 .. Len(data) /\ n \in 1 .. Len(nodes)
      /\ old \in Seq(1 .. Len(data)) /\ pc[t] = "link"
  BY ThreadTypes DEF CallOK, AddLink
<1>2. o.code \in Codes /\ o.key \in Keys
  BY <1>1 DEF LookCalls
<1>3. /\ nodes' = [nodes EXCEPT ![n].value = Linked(o.d, old)]
      /\ raced' = (raced \/ nodes[n].value # old \/ SessionOf(o.code) # n)
  BY DEF AddLink
<1>4. ~raced' => InOrder /\ data[o.d].key = o.key
  BY <1>1, <1>3 DEF SessionInv, InOrder, Calls, OwnDatum, Adds
<1> HIDE DEF n, old, o
<1>5. /\ raced' \in BOOLEAN /\ (raced => raced')
      /\ ~raced' => nodes[n].value = old /\ SessionOf(o.code) = n
  BY <1>1, <1>3
<1>6. Linked(o.d, old) \in Seq(1 .. Len(data))
  BY <1>1, LinkedIs
<1>7. nodes[n] \in NodeRecord(data) /\ DOMAIN nodes = 1 .. Len(nodes)
  BY <1>1
<1>8. /\ DOMAIN nodes' = 1 .. Len(nodes)
      /\ \A m \in 1 .. Len(nodes) : m # n => nodes'[m] = nodes[m]
      /\ nodes'[n] = [code |-> nodes[n].code, value |-> Linked(o.d, old)]
  BY <1>1, <1>3, <1>7 DEF NodeRecord
<1>9. nodes'[n] \in NodeRecord(data) /\ nodes'[n].code = nodes[n].code
  BY <1>6, <1>7, <1>8 DEF NodeRecord
<1>10. nodes' \in [1 .. Len(nodes) -> NodeRecord(data)]
  <2>1. \A m \in 1 .. Len(nodes) : nodes'[m] \in NodeRecord(data)
    BY <1>1, <1>8, <1>9
  <2>2. nodes' = [m \in 1 .. Len(nodes) |-> nodes'[m]]
    BY <1>3, <1>7
  <2> QED
    BY <2>1, <2>2
<1>11. nodes' \in Seq(NodeRecord(data)) /\ Len(nodes') = Len(nodes)
  <2>1. Len(nodes) \in Nat
    BY <1>1
  <2>2. \A m \in Nat : \A N \in [1 .. m -> NodeRecord(data)] : N \in Seq(NodeRecord(data)) /\ Len(N) = m
    OBVIOUS
  <2> QED
    BY <1>10, <2>1, <2>2
<1>12. /\ \A m \in 1 .. Len(nodes) : nodes'[m].code = nodes[m].code
       /\ \A m \in 1 .. Len(nodes) : m # n => nodes'[m].value = nodes[m].value
       /\ nodes'[n].value = Linked(o.d, old)
  BY <1>8, <1>9
<1> QED
  BY <1>1, <1>2, <1>4, <1>5, <1>11, <1>12 DEF n, o

\* The walk along a list finds the same after this write for another code or
\* name, or when it does not come to the node.
LEMMA AddLinkOther ==
  ASSUME SessionInv, NEW t \in Threads, AddLink(t), ~raced',
         NEW ns \in Seq(1 .. Len(nodes)), NEW c, NEW k,
         \/ nodes[Head(call[t].rest)].code # c \/ call[t].key # k
         \/ \A i \in DOMAIN ns : ns[i] # Head(call[t].rest)
  PROVE  InList(ns, nodes', data, c, k) = InList(ns, nodes, data, c, k)
<1> DEFINE o == call[t]
           n == Head(o.rest)
           d == o.d
<1>1. /\ Len(nodes) \in Nat /\ Len(data) \in Nat /\ d \in 1 .. Len(data) /\ n \in 1 .. Len(nodes)
      /\ \A m \in 1 .. Len(nodes) : nodes'[m].code = nodes[m].code
      /\ \A m \in 1 .. Len(nodes) : m # n => nodes'[m].value = nodes[m].value
      /\ data[d].key = o.key /\ nodes[n].value \in Seq(1 .. Len(data))
      /\ nodes'[n].value = <<d>> \o nodes[n].value
  BY ThreadTypes, AddLinkIs DEF Linked
<1>0. nodes[n].code # c \/ o.key # k \/ \A i \in DOMAIN ns : ns[i] # n
  OBVIOUS
<1> HIDE DEF n, d, o
<1>2. o.key # k => Datum(nodes'[n].value, data, k) = Datum(nodes[n].value, data, k)
  <2>1. data[d].key # k => Datum(<<d>> \o nodes[n].value, data, k) = Datum(nodes[n].value, data, k)
    <3> DEFINE v == nodes[n].value
    <3>1. Len(data) \in Nat /\ v \in Seq(1 .. Len(data)) /\ d \in 1 .. Len(data)
      BY <1>1
    <3> HIDE DEF v
    <3>2. data[d].key # k => Datum(<<d>> \o v, data, k) = Datum(v, data, k)
      BY <3>1, DatumLinked
    <3> QED
      BY <3>2 DEF v
  <2> QED
    BY <1>1, <2>1
<1>3. DOMAIN ns \subseteq Nat /\ \A i \in DOMAIN ns : ns[i] \in 1 .. Len(nodes)
  OBVIOUS
<1>4. \A i \in DOMAIN ns : nodes'[ns[i]].code = c <=> nodes[ns[i]].code = c
  BY <1>1, <1>3
<1>5. ASSUME NEW i \in DOMAIN ns, nodes[ns[i]].code = c
      PROVE  Datum(nodes'[ns[i]].value, data, k) = Datum(nodes[ns[i]].value, data, k)
  <2>1. CASE ns[i] = n
    BY <1>0, <1>2, <1>5, <2>1
  <2>2. CASE ns[i] # n
    BY <1>1, <1>3, <2>2
  <2> QED
    BY <2>1, <2>2
<1> QED
  BY <1>3, <1>4, <1>5, InSame

\* For the node's code and the datum's name it finds the datum, when the node is
\* the first of its code.
LEMMA AddLinkFirst ==
  ASSUME SessionInv, NEW t \in Threads, AddLink(t), ~raced',
         NEW ns \in Seq(1 .. Len(nodes)), NEW i \in DOMAIN ns, NEW c
  PROVE  /\ ns[i] = Head(call[t].rest) /\ nodes[ns[i]].code = c
         /\ \A j \in DOMAIN ns : nodes[ns[j]].code = c => i <= j
         => InList(ns, nodes', data, c, call[t].key) = call[t].d
<1> DEFINE o == call[t]
           n == Head(o.rest)
           d == o.d
<1>1. /\ Len(nodes) \in Nat /\ Len(data) \in Nat /\ d \in 1 .. Len(data) /\ n \in 1 .. Len(nodes)
      /\ \A m \in 1 .. Len(nodes) : nodes'[m].code = nodes[m].code
      /\ data[d].key = o.key /\ nodes[n].value \in Seq(1 .. Len(data))
      /\ nodes'[n].value = <<d>> \o nodes[n].value
  BY ThreadTypes, AddLinkIs DEF Linked
<1> HIDE DEF n, d, o
<1>2. Datum(nodes'[n].value, data, o.key) = d
  <2>1. Len(data) \in Nat /\ d \in 1 .. Len(data) /\ data[d].key = o.key
    BY <1>1
  <2>2. \A v \in Seq(1 .. Len(data)) : Datum(<<d>> \o v, data, o.key) = d
    BY <2>1, DatumLinked
  <2> QED
    BY <1>1, <2>2
<1>3. DOMAIN ns \subseteq Nat /\ \A j \in DOMAIN ns : ns[j] \in 1 .. Len(nodes)
  OBVIOUS
<1>4. ASSUME ns[i] = n, nodes[ns[i]].code = c, \A j \in DOMAIN ns : nodes[ns[j]].code = c => i <= j
      PROVE  InList(ns, nodes', data, c, o.key) = d
  <2>1. /\ nodes'[ns[i]].code = c /\ \A j \in DOMAIN ns : nodes'[ns[j]].code = c => i <= j
    BY <1>1, <1>3, <1>4
  <2>2. d # None
    BY <1>1, SessionAssumption, SMTT(40)
  <2>3. Datum(nodes'[ns[i]].value, data, o.key) = d
    BY <1>2, <1>4
  <2> QED
    BY <1>3, <2>1, <2>2, <2>3, InFirst, ZenonT(40)
<1> QED
  BY <1>4 DEF d, n, o

\* A datum becomes visible: a getSession that has not passed the node yet finds
\* it, as a new call would.
LEMMA AddLinkInv ==
  ASSUME SessionInv, NEW t \in Threads, AddLink(t), UNCHANGED calls, Observe
  PROVE  SessionInv'
<1> DEFINE o == call[t]
           n == Head(o.rest)
           d == o.d
<1>1. /\ raced' \in BOOLEAN /\ (raced => raced')
      /\ o.code \in Codes /\ d \in 1 .. Len(data) /\ n \in 1 .. Len(nodes)
      /\ nodes' \in Seq(NodeRecord(data)) /\ Len(nodes') = Len(nodes)
      /\ \A m \in 1 .. Len(nodes) : nodes'[m].code = nodes[m].code
      /\ \A m \in 1 .. Len(nodes) : m # n => nodes'[m].value = nodes[m].value
  BY AddLinkIs
<1>2. /\ TableTypes /\ nodes \in Seq(NodeRecord(data)) /\ data \in Seq(DataRecord)
      /\ Len(nodes) \in Nat /\ Len(data) \in Nat
      /\ \A e \in 1 .. Len(data) : data[e].time_store <= now
  BY ThreadTypes DEF TableTypes
<1>3. pc[t] = "link" /\ o.op = "add" /\ Return(t) /\ UNCHANGED <<now, chain, data, crashed>>
  BY ThreadTypes DEF AddLink, CallOK
<1>4. ASSUME ~raced', InOrder, Goes(t, "idle", NoCall)
      PROVE  Apart' /\ Owned' /\ \A u \in Threads \ {t} : Calls(u)'
  <2> DEFINE ns == chain[Index(o.code)]
  <2>1. /\ data[d].key = o.key /\ nodes[n].value \in Seq(1 .. Len(data))
        /\ nodes'[n].value = Linked(d, nodes[n].value) /\ SessionOf(o.code) = n
    BY <1>4, AddLinkIs
  <2>2. Index(o.code) \in Buckets /\ ns \in Seq(1 .. Len(nodes)) /\ DOMAIN ns \subseteq Nat
    <3>1. Index(o.code) \in Buckets
      BY <1>1, CodeTypes
    <3>2. ns \in Seq(1 .. Len(nodes))
      BY <1>2, <3>1 DEF TableTypes
    <3> HIDE DEF ns
    <3> QED
      BY <3>1, <3>2
  <2>3. PICK p \in DOMAIN ns : /\ ns[p] = n /\ nodes[n].code = o.code
                               /\ \A j \in DOMAIN ns : nodes[ns[j]].code = o.code => p <= j
    <3>1. n # None
      BY <1>1, SessionAssumption
    <3> QED
      BY <2>1, <2>2, <3>1, SessionOfIs
  <2>4. /\ Adds(t)
        /\ \A m \in 1 .. Len(nodes) : \A i \in DOMAIN nodes[m].value : nodes[m].value[i] # d
        /\ \A u \in Threads \ {t} : Adds(u) => call[u].d # d
    BY <1>3, <1>4 DEF InOrder, Calls, OwnDatum, Adds
  <2> HIDE DEF n, d
  <2>5. ASSUME NEW m \in 1 .. Len(nodes), NEW i \in DOMAIN nodes'[m].value
        PROVE  \/ m = n /\ nodes'[m].value[i] = d
               \/ \E j \in DOMAIN nodes[m].value : nodes'[m].value[i] = nodes[m].value[j]
    <3>1. CASE m = n
      <4> DEFINE v == nodes[n].value
                 l == Linked(d, v)
      <4>1. v \in Seq(1 .. Len(data)) /\ nodes'[n].value = l
        BY <2>1
      <4> HIDE DEF v
      <4>2. \A h \in DOMAIN l : l[h] = d \/ \E j \in DOMAIN v : l[h] = v[j]
        BY <1>1, <1>2, <4>1, LinkedIs
      <4> QED
        BY <2>5, <3>1, <4>1, <4>2 DEF v
    <3>2. CASE m # n
      BY <1>1, <2>5, <3>2
    <3> QED
      BY <3>1, <3>2
  <2>6. Apart'
    BY <1>3, <1>4 DEF InOrder, Apart
  <2>7. Owned'
    <3> SUFFICES ASSUME NEW x \in 1 .. Len(nodes'), NEW y \in 1 .. Len(nodes'),
                        NEW i \in DOMAIN nodes'[x].value, NEW j \in DOMAIN nodes'[y].value,
                        nodes'[x].value[i] = nodes'[y].value[j]
                 PROVE  x = y
      BY DEF Owned
    <3>1. x \in 1 .. Len(nodes) /\ y \in 1 .. Len(nodes)
      BY <1>1
    <3>2. CASE nodes'[x].value[i] = d
      <4>1. x = n
        BY <2>4, <2>5, <3>1, <3>2
      <4>2. nodes'[y].value[j] = d
        BY <3>2
      <4>3. y = n
        BY <2>4, <2>5, <3>1, <4>2
      <4> QED
        BY <4>1, <4>3
    <3>3. CASE nodes'[x].value[i] # d
      BY <1>4, <2>5, <3>1, <3>3 DEF InOrder, Owned
    <3> QED
      BY <3>2, <3>3
  <2>8. ASSUME NEW u \in Threads \ {t}
        PROVE  Calls(u)'
    <3>1. /\ pc'[u] = pc[u] /\ call'[u] = call[u] /\ Calls(u)
          /\ CallOK(pc[u], call[u], Len(nodes), Len(data), now)
      BY <1>4, ThreadTypes DEF InOrder, Goes
    <3>2. OwnNode(u)'
      <4> SUFFICES ASSUME pc[u] = "publish"
                   PROVE  OwnNode(u)'
        BY <3>1 DEF OwnNode
      <4>1. OwnNode(u) /\ call[u].node \in 1 .. Len(nodes)
        BY <3>1 DEF Calls, CallOK
      <4>2. call[u].node # n
        BY <2>2, <2>3, <4>1 DEF OwnNode
      <4>3. \A w \in Threads : pc'[w] = "publish" => pc[w] = "publish" /\ call'[w] = call[w]
        BY <1>4 DEF Goes
      <4>4. /\ nodes'[call[u].node].code = nodes[call[u].node].code
            /\ nodes'[call[u].node].value = nodes[call[u].node].value
        BY <1>1, <4>1, <4>2
      <4> QED
        BY <1>3, <3>1, <4>1, <4>3, <4>4 DEF OwnNode
    <3>3. OwnDatum(u)'
      <4> SUFFICES ASSUME Adds(u)
                   PROVE  OwnDatum(u)'
        BY <3>1 DEF OwnDatum, Adds
      <4>1. \A w \in Threads : Adds(w)' => Adds(w) /\ call'[w] = call[w]
        BY <1>4 DEF Adds, Goes, NoCall
      <4>2. OwnDatum(u) /\ call[u].d # d
        BY <2>4, <3>1 DEF Calls
      <4>3. ASSUME NEW m \in 1 .. Len(nodes'), NEW i \in DOMAIN nodes'[m].value
            PROVE  nodes'[m].value[i] # call[u].d
        BY <1>1, <2>5, <4>2 DEF OwnDatum
      <4> QED
        BY <1>3, <3>1, <4>1, <4>2, <4>3 DEF OwnDatum
    <3>4. Walks(u)'
      <4> SUFFICES ASSUME pc[u] = "walk", call[u].op = "get"
                   PROVE  Walks(u)'
        BY <3>1 DEF Walks
      <4> DEFINE r == call[u]
                 s == r.rest
      <4>1. /\ EndOf(s, chain[Index(r.code)]) /\ s \in Seq(1 .. Len(nodes))
            /\ Held(InList(s, nodes, data, r.code, r.key), data, r.at) \in seen[u]
        BY <3>1 DEF Calls, Walks, CallOK
      <4>2. /\ seen[u] \subseteq seen'[u]
            /\ Held(InList(chain[Index(r.code)], nodes', data, r.code, r.key), data, r.at) \in seen'[u]
        BY <1>3, <3>1, Observed
      <4>3. Held(InList(s, nodes', data, r.code, r.key), data, r.at) \in seen'[u]
        <5>1. CASE nodes[n].code # r.code \/ o.key # r.key \/ (\A i \in DOMAIN s : s[i] # n)
          <6>1. InList(s, nodes', data, r.code, r.key) = InList(s, nodes, data, r.code, r.key)
            BY <1>4, <4>1, <5>1, AddLinkOther DEF n
          <6> QED
            BY <4>1, <4>2, <6>1
        <5>2. CASE nodes[n].code = r.code /\ o.key = r.key /\ (\E i \in DOMAIN s : s[i] = n)
          <6>1. PICK i \in DOMAIN s : s[i] = n
            BY <5>2
          <6>2. r.code = o.code /\ EndOf(s, ns)
            BY <2>3, <4>1, <5>2
          <6>3. PICK m \in 0 .. Len(ns) : /\ Len(s) = Len(ns) - m
                                          /\ \A j \in 1 .. Len(s) : s[j] = ns[j + m]
            BY <6>2 DEF EndOf
          <6>4. Len(ns) \in Nat /\ DOMAIN ns = 1 .. Len(ns) /\ DOMAIN s = 1 .. Len(s)
            BY <2>2, <4>1
          <6>5. \A j \in DOMAIN s : j + m \in DOMAIN ns /\ s[j] = ns[j + m]
            BY <6>3, <6>4
          <6>6. p = i + m
            BY <1>4, <2>2, <2>3, <6>1, <6>5 DEF InOrder, Apart
          <6>7. \A j \in DOMAIN s : nodes[s[j]].code = r.code => i <= j
            <7>1. ASSUME NEW j \in DOMAIN s, nodes[s[j]].code = r.code
                  PROVE  i <= j
              <8>1. p <= j + m
                BY <2>3, <6>2, <6>5, <7>1
              <8> QED
                BY <6>3, <6>4, <6>6, <8>1
            <7> QED
              BY <7>1
          <6>8. InList(s, nodes', data, r.code, r.key) = d
            <7>1. nodes[s[i]].code = r.code
              BY <5>2, <6>1
            <7>2. InList(s, nodes', data, r.code, o.key) = d
              BY <1>4, <4>1, <6>1, <6>7, <7>1, AddLinkFirst DEF n, d
            <7> QED
              BY <5>2, <7>2
          <6>9. InList(ns, nodes', data, r.code, r.key) = d
            <7>1. nodes[ns[p]].code = o.code
              BY <2>3
            <7>2. InList(ns, nodes', data, o.code, o.key) = d
              BY <1>4, <2>2, <2>3, <7>1, AddLinkFirst DEF n, d
            <7> QED
              BY <5>2, <6>2, <7>2
          <6> QED
            BY <4>2, <6>2, <6>8, <6>9
        <5> QED
          BY <5>1, <5>2
      <4> QED
        BY <1>3, <3>1, <4>1, <4>3 DEF Walks, Index
    <3>5. Reads(u)' /\ Answers(u)'
      BY <1>3, <1>4, GotStays
    <3> QED
      BY <3>2, <3>3, <3>4, <3>5 DEF Calls
  <2> QED
    BY <2>6, <2>7, <2>8
<1>5. /\ UNCHANGED <<now, calls, crashed>>
      /\ data' \in Seq(DataRecord) /\ Len(data') = Len(data)
      /\ chain' \in [Buckets -> Seq(1 .. Len(nodes))]
      /\ \A e \in 1 .. Len(data) : data'[e].time_store <= now
  BY <1>2, <1>3 DEF TableTypes
<1> QED
  BY <1>1, <1>3, <1>4, <1>5, WritesInv-----------------------------------------------------------------------------
(***************************************************************************)
(* The invariant, and what getSession returns.                             *)
(***************************************************************************)

\* The empty table is in order.
LEMMA SessionInitInv == Init => SessionInv
<1> SUFFICES ASSUME Init
             PROVE  SessionInv
  OBVIOUS
<1> USE SessionAssumption
<1>1. TableTypes
  <2>1. 0 \in Times /\ 0 \in 0 .. MaxCalls
    BY DEF Times
  <2>2. <<>> \in Seq(1 .. Len(nodes)) /\ <<>> \in Seq(NodeRecord(data)) /\ <<>> \in Seq(DataRecord)
    OBVIOUS
  <2>3. 1 .. Len(data) = {}
    BY DEF Init
  <2> QED
    BY <2>1, <2>2, <2>3 DEF Init, TableTypes, Buckets
<1>2. CallTypes
  BY DEF Init, CallTypes, Places, AllCalls, CallOK
<1>3. \A t \in Threads : Calls(t)
  BY DEF Init, Calls, OwnNode, OwnDatum, Adds, Walks, Reads, Answers
<1>4. Apart
  <2>1. \A b \in Buckets : DOMAIN chain[b] = {}
    BY DEF Init, Buckets
  <2> QED
    BY <2>1 DEF Apart
<1>5. Owned
  <2>1. 1 .. Len(nodes) = {}
    BY DEF Init
  <2> QED
    BY <2>1 DEF Owned
<1> QED
  BY <1>1, <1>2, <1>3, <1>4, <1>5, TypesAre DEF SessionInv, InOrder

\* Every step keeps it.
LEMMA SessionStepInv == SessionInv /\ [Next]_vars => SessionInv'
<1> SUFFICES ASSUME SessionInv, [Next]_vars
             PROVE  SessionInv'
  OBVIOUS
<1>1. ASSUME NEW t \in Threads, Begin(t)
      PROVE  SessionInv'
  BY <1>1, SessionCreateInv, BeginCallInv DEF Begin
<1>2. ASSUME NEW t \in Threads, Step(t)
      PROVE  SessionInv'
  <2>1. UNCHANGED calls /\ Observe
    BY <1>2 DEF Step
  <2>2. CASE Publish(t)
    BY <2>1, <2>2, PublishInv
  <2>3. CASE NextNode(t)
    BY <2>1, <2>3, NextNodeInv
  <2>4. CASE NotFound(t)
    BY <2>1, <2>4, NotFoundInv
  <2>5. CASE AddFound(t)
    BY <2>1, <2>5, AddFoundInv
  <2>6. CASE AddLink(t)
    BY <2>1, <2>6, AddLinkInv
  <2>7. CASE GetFound(t)
    BY <2>1, <2>7, GetFoundInv
  <2>8. CASE GetRead(t)
    BY <2>1, <2>8, GetReadInv
  <2>9. CASE Answer(t)
    BY <2>1, <2>9, ReturnInv DEF Answer
  <2>10. CASE UpdateFree(t)
    BY <2>1, <2>10, UpdateFreeInv
  <2>11. CASE UpdateSet(t)
    BY <2>1, <2>11, UpdateSetInv
  <2> QED
    BY <1>2, <2>2, <2>3, <2>4, <2>5, <2>6, <2>7, <2>8, <2>9, <2>10, <2>11 DEF Step
<1>3. CASE Tick /\ Observe /\ UNCHANGED calls
  BY <1>3, TickInv
<1>4. CASE UNCHANGED vars
  <2>1. SessionTypes'
    BY <1>4 DEF vars, SessionInv, SessionTypes, TypeOK
  <2>2. ASSUME InOrder
        PROVE  Apart' /\ Owned'
    BY <1>4, <2>2 DEF vars, InOrder, Apart, Owned
  <2>3. ASSUME NEW t \in Threads, Calls(t)
        PROVE  Calls(t)'
    <3>1. OwnNode(t)'
      BY <1>4, <2>3 DEF vars, Calls, OwnNode
    <3>2. OwnDatum(t)'
      BY <1>4, <2>3 DEF vars, Calls, OwnDatum, Adds
    <3>3. Walks(t)'
      BY <1>4, <2>3 DEF vars, Calls, Walks, Index
    <3>4. Reads(t)' /\ Answers(t)'
      BY <1>4, <2>3 DEF vars, Calls, Reads, Answers
    <3> QED
      BY <3>1, <3>2, <3>3, <3>4 DEF Calls
  <2> QED
    BY <1>4, <2>1, <2>2, <2>3 DEF vars, SessionInv, InOrder
<1> QED
  BY <1>1, <1>2, <1>3, <1>4 DEF Next

\* So it holds in every state.
LEMMA SessionInvariant == Spec => []SessionInv
BY SessionInitInv, SessionStepInv, PTL DEF Spec

\* getSession returns what the table held for the session and the name at some
\* moment between call and return, for any number of threads, until a race.
THEOREM SessionGotIsCurrent == Spec => []GotIsCurrent
<1>1. SessionInv => GotIsCurrent
  BY DEF SessionInv, SessionTypes, InOrder, Calls, Answers, GotIsCurrent
<1> QED
  BY <1>1, SessionInvariant, PTL
-----------------------------------------------------------------------------
(***************************************************************************)
(* The table as a map.                                                     *)
(***************************************************************************)

\* What the map has where datum d is found.
Entry(d, D) == IF d = None THEN None ELSE [data |-> D[d].data, time_store |-> D[d].time_store]

\* The entries of the map in these words.
TableOf ==
  \A c \in Codes, k \in Keys :
    Table[<<c, k>>] = Entry(InList(chain[Index(c)], nodes, data, c, k), data)

\* So they are in every state.
LEMMA TableOfIs == TableOf
<1>1. ASSUME NEW c \in Codes, NEW k \in Keys
      PROVE  Table[<<c, k>>] = Entry(Visible(c, k), data)
  BY DEF Table, Entry
<1> QED
  BY <1>1, VisibleIs DEF TableOf

\* ... and before and after a step.
LEMMA TableIs ==
  ASSUME NEW c \in Codes, NEW k \in Keys
  PROVE  /\ Table[<<c, k>>] = Entry(InList(chain[Index(c)], nodes, data, c, k), data)
         /\ Table'[<<c, k>>] = Entry(InList(chain'[Index(c)], nodes', data', c, k), data')
<1>1. TableOf
  BY TableOfIs
<1>2. TableOf'
  BY TableOfIs, PTL
<1> QED
  BY <1>1, <1>2 DEF TableOf, Index

\* A step that leaves the chains alone and only makes nodes and data changes
\* nothing in the map.
LEMMA TableKept ==
  ASSUME SessionInv, chain' = chain, Grows
  PROVE  Table' = Table
<1>1. /\ TableTypes /\ nodes \in Seq(NodeRecord(data)) /\ Len(data) \in Nat
  BY TypesAre DEF SessionInv, TableTypes
<1>2. ASSUME NEW c \in Codes, NEW k \in Keys
      PROVE  Table'[<<c, k>>] = Table[<<c, k>>]
  <2> DEFINE ns == chain[Index(c)]
             d == InList(ns, nodes, data, c, k)
  <2>1. ns \in Seq(1 .. Len(nodes))
    BY <1>1, CodeTypes DEF TableTypes
  <2> HIDE DEF ns
  <2>2. /\ InList(ns, nodes', data', c, k) = d
        /\ Held(InList(ns, nodes', data', c, k), data', 0) = Held(d, data, 0)
    <3>1. /\ \A n \in 1 .. Len(nodes) : nodes'[n] = nodes[n]
          /\ \A e \in 1 .. Len(data) : data'[e] = data[e]
      BY DEF Grows
    <3> QED
      BY <1>1, <2>1, <3>1, InGrown
  <2>3. d = None \/ d \in 1 .. Len(data)
    BY <1>1, <2>1, InType
  <2>4. Entry(d, data') = Entry(d, data)
    BY <2>3 DEF Entry, Grows
  <2> QED
    BY <2>2, <2>4, TableIs DEF ns
<1>3. /\ Table = [e \in Codes \X Keys |-> Table[e]] /\ Table' = [e \in Codes \X Keys |-> Table'[e]]
  BY DEF Table
<1>4. \A e \in Codes \X Keys : Table'[e] = Table[e]
  BY <1>2
<1> HIDE DEF Table
<1> QED
  BY <1>3, <1>4

\* A step after which datum d is found under c and k, and the same as before
\* under every other name.
LEMMA PutIs ==
  ASSUME SessionInv', UNCHANGED now, NEW c \in Codes, NEW k \in Keys, NEW d \in 1 .. Len(data'),
         InList(chain'[Index(c)], nodes', data', c, k) = d,
         \A b \in Codes, j \in Keys : <<b, j>> # <<c, k>> =>
           Entry(InList(chain'[Index(b)], nodes', data', b, j), data')
             = Entry(InList(chain[Index(b)], nodes, data, b, j), data)
  PROVE  Store!Put(<<c, k>>)
<1>1. TableTypes'
  BY DEF SessionInv, SessionTypes, TypeOK, TableTypes, Times, Buckets, NodeRecord, DataRecord
<1>2. data'[d] \in DataRecord /\ data'[d].time_store <= now' /\ now' \in Nat
  BY <1>1 DEF TableTypes, Times
<1>3. [data |-> data'[d].data, time_store |-> data'[d].time_store]
        \in [data : Values, time_store : 0 .. now]
  BY <1>2 DEF DataRecord, Times
<1>4. d # None
  BY <1>1, SessionAssumption DEF TableTypes
<1>5. Table'[<<c, k>>] = [data |-> data'[d].data, time_store |-> data'[d].time_store]
  BY <1>4, TableIs DEF Entry
<1>6. DOMAIN Table = Codes \X Keys
  BY DEF Table
<1>7. \A f \in DOMAIN Table \ {<<c, k>>} : Table'[f] = Table[f]
  BY <1>6, TableIs
<1> HIDE DEF Table
<1> QED
  BY <1>3, <1>5, <1>7 DEF Store!Put
\* The write of the head of a chain puts the first datum of the new session.
LEMMA PublishPuts ==
  ASSUME SessionInv, SessionInv', NEW t \in Threads, Publish(t), ~raced'
  PROVE  Store!Next
<1> DEFINE n == call[t].node
           a == call[t].code
           i == Index(a)
<1>1. /\ a \in Codes /\ n \in 1 .. Len(nodes) /\ InOrder
      /\ \A b \in Buckets \ {i} : chain'[b] = chain[b]
      /\ Precedes(chain'[i], chain[i]) /\ chain'[i][1] = n
  BY PublishIs
<1>2. /\ data \in Seq(DataRecord) /\ Len(data) \in Nat
  BY ThreadTypes
<1>3. UNCHANGED <<now, nodes, data>>
  BY DEF Publish
<1>4. /\ nodes[n].code = a /\ \E d \in 1 .. Len(data) : nodes[n].value = <<d>>
  BY <1>1 DEF InOrder, Calls, OwnNode, Publish
<1> HIDE DEF n, a, i
<1>5. PICK d \in 1 .. Len(data) : nodes[n].value = <<d>>
  BY <1>4
<1>6. data[d].key \in Keys
  <2>1. data[d] \in DataRecord
    BY <1>2
  <2> QED
    BY <2>1 DEF DataRecord
<1>7. ASSUME NEW j
      PROVE  Datum(nodes[n].value, data, j) = IF data[d].key = j THEN d ELSE None
  <2>1. nodes[n].value \in Seq(1 .. Len(data)) /\ DOMAIN nodes[n].value = {1} /\ nodes[n].value[1] = d
    BY <1>5
  <2> QED
    BY <1>2, <2>1, DatumCases
<1>8. d # None
  BY <1>2, SessionAssumption
<1>9. InList(chain'[Index(a)], nodes', data', a, data[d].key) = d
  BY <1>1, <1>3, <1>4, <1>7, <1>8, InNext DEF i
<1>10. ASSUME NEW b \in Codes, NEW j \in Keys, <<b, j>> # <<a, data[d].key>>
       PROVE  InList(chain'[Index(b)], nodes', data', b, j)
                = InList(chain[Index(b)], nodes, data, b, j)
  <2>1. CASE Index(b) = i
    <3>1. ~(nodes[n].code = b /\ Datum(nodes[n].value, data, j) # None)
      BY <1>4, <1>7, <1>10
    <3> QED
      BY <1>1, <1>3, <2>1, <3>1, InNext
  <2>2. CASE Index(b) # i
    BY <1>1, <1>3, <2>2, CodeTypes
  <2> QED
    BY <2>1, <2>2
<1>11. Store!Put(<<a, data[d].key>>)
  <2>1. \A b \in Codes, j \in Keys : <<b, j>> # <<a, data[d].key>> =>
          Entry(InList(chain'[Index(b)], nodes', data', b, j), data')
            = Entry(InList(chain[Index(b)], nodes, data, b, j), data)
    BY <1>3, <1>10
  <2>2. d \in 1 .. Len(data') /\ UNCHANGED now
    BY <1>3
  <2> QED
    BY <1>1, <1>6, <1>9, <2>1, <2>2, PutIs
<1>12. <<a, data[d].key>> \in Codes \X Keys
  BY <1>1, <1>6
<1> QED
  BY <1>11, <1>12 DEF Store!Next

\* The write of the head of a node's data puts the new datum.
LEMMA AddLinkPuts ==
  ASSUME SessionInv, SessionInv', NEW t \in Threads, AddLink(t), ~raced'
  PROVE  Store!Next
<1> DEFINE o == call[t]
           n == Head(o.rest)
           ns == chain[Index(o.code)]
<1>1. /\ o.code \in Codes /\ o.key \in Keys /\ o.d \in 1 .. Len(data) /\ n \in 1 .. Len(nodes)
      /\ InOrder /\ SessionOf(o.code) = n
  BY AddLinkIs
<1>2. TableTypes
  BY ThreadTypes
<1>3. UNCHANGED <<now, chain, data>>
  BY DEF AddLink
<1>4. \A b \in Codes : chain[Index(b)] \in Seq(1 .. Len(nodes))
  BY <1>2, CodeTypes DEF TableTypes
<1>5. DOMAIN ns \subseteq Nat /\ n # None
  <2>1. ns \in Seq(1 .. Len(nodes))
    BY <1>1, <1>4
  <2> HIDE DEF ns, n
  <2> QED
    BY <1>1, <2>1, SessionAssumption
<1>6. PICK p \in DOMAIN ns : /\ ns[p] = n /\ nodes[n].code = o.code
                             /\ \A j \in DOMAIN ns : nodes[ns[j]].code = o.code => p <= j
  BY <1>1, <1>5, SessionOfIs
<1>7. nodes[ns[p]].code = o.code
  BY <1>6
<1>8. InList(ns, nodes', data, o.code, o.key) = o.d
  BY <1>1, <1>4, <1>6, <1>7, AddLinkFirst
<1>9. ASSUME NEW b \in Codes, NEW j \in Keys, <<b, j>> # <<o.code, o.key>>
      PROVE  InList(chain[Index(b)], nodes', data, b, j) = InList(chain[Index(b)], nodes, data, b, j)
  <2>1. nodes[n].code # b \/ o.key # j
    BY <1>6, <1>9
  <2> QED
    BY <1>4, <2>1, AddLinkOther
<1>10. Store!Put(<<o.code, o.key>>)
  <2>1. \A b \in Codes, j \in Keys : <<b, j>> # <<o.code, o.key>> =>
          Entry(InList(chain'[Index(b)], nodes', data', b, j), data')
            = Entry(InList(chain[Index(b)], nodes, data, b, j), data)
    BY <1>3, <1>9
  <2>2. o.d \in 1 .. Len(data') /\ UNCHANGED now
    BY <1>1, <1>3
  <2>3. InList(chain'[Index(o.code)], nodes', data', o.code, o.key) = o.d
    BY <1>3, <1>8
  <2> HIDE DEF o
  <2> QED
    BY <1>1, <2>1, <2>2, <2>3, PutIs
<1>11. <<o.code, o.key>> \in Codes \X Keys
  BY <1>1
<1> QED
  BY <1>10, <1>11 DEF Store!Next

\* The write of a value and its time puts them under the datum's name.
LEMMA UpdateSetPuts ==
  ASSUME SessionInv, SessionInv', NEW t \in Threads, UpdateSet(t), ~raced'
  PROVE  Store!Next
<1> DEFINE o == call[t]
           d == o.d
<1>1. /\ o.code \in Codes /\ o.key \in Keys /\ d \in 1 .. Len(data)
      /\ Len(data') = Len(data)
      /\ \A e \in 1 .. Len(data) : e # d => data'[e] = data[e]
      /\ InOrder /\ d = InList(chain[Index(o.code)], nodes, data, o.code, o.key)
  BY UpdateSetIs
<1>2. \A ns \in Seq(1 .. Len(nodes)) : \A c, k :
        InList(ns, nodes, data', c, k) = InList(ns, nodes, data, c, k)
  BY UpdateSetIs
<1>3. UNCHANGED <<now, chain, nodes>>
  BY DEF UpdateSet
<1>4. TableTypes /\ nodes \in Seq(NodeRecord(data)) /\ Len(data) \in Nat
  BY ThreadTypes
<1>5. \A b \in Codes : chain[Index(b)] \in Seq(1 .. Len(nodes))
  BY <1>4, CodeTypes DEF TableTypes
<1>6. d # None
  BY <1>1, <1>4, SessionAssumption
<1>7. Under(d, o.code, o.key)
  BY <1>1, <1>5, <1>6, FoundAt
<1>8. ASSUME NEW b \in Codes, NEW j \in Keys, <<b, j>> # <<o.code, o.key>>
      PROVE  Entry(InList(chain[Index(b)], nodes, data', b, j), data')
               = Entry(InList(chain[Index(b)], nodes, data, b, j), data)
  <2> DEFINE e == InList(chain[Index(b)], nodes, data, b, j)
  <2>1. InList(chain[Index(b)], nodes, data', b, j) = e
    BY <1>2, <1>5
  <2>2. e = None \/ e \in 1 .. Len(data)
    BY <1>4, <1>5, InType
  <2>3. CASE e = None
    BY <2>1, <2>3 DEF Entry
  <2>4. CASE e # None /\ e # d
    <3>1. data'[e] = data[e]
      BY <1>1, <2>2, <2>4
    <3> QED
      BY <2>1, <3>1 DEF Entry
  <2>5. CASE e # None /\ e = d
    <3>1. Under(e, b, j)
      BY <1>5, <2>5, FoundAt
    <3>2. b = o.code /\ j = o.key
      BY <1>1, <1>7, <2>5, <3>1, OneName
    <3> QED
      BY <1>8, <3>2
  <2> QED
    BY <2>3, <2>4, <2>5
<1>9. Store!Put(<<o.code, o.key>>)
  <2>1. \A b \in Codes, j \in Keys : <<b, j>> # <<o.code, o.key>> =>
          Entry(InList(chain'[Index(b)], nodes', data', b, j), data')
            = Entry(InList(chain[Index(b)], nodes, data, b, j), data)
    BY <1>3, <1>8
  <2>2. d \in 1 .. Len(data') /\ UNCHANGED now
    BY <1>1, <1>3
  <2>3. InList(chain'[Index(o.code)], nodes', data', o.code, o.key) = d
    BY <1>1, <1>2, <1>3, <1>5
  <2> HIDE DEF o, d
  <2> QED
    BY <1>1, <2>1, <2>2, <2>3, PutIs
<1>10. <<o.code, o.key>> \in Codes \X Keys
  BY <1>1
<1> QED
  BY <1>9, <1>10 DEF Store!Next

\* The empty table is the empty map.
LEMMA SessionInitRefines == Init => Store!Init
<1> SUFFICES ASSUME Init
             PROVE  Store!Init
  OBVIOUS
<1>1. ASSUME NEW c \in Codes, NEW k \in Keys
      PROVE  Table[<<c, k>>] = None
  <2>1. chain[Index(c)] = <<>>
    BY CodeTypes DEF Init, Buckets
  <2>2. InList(<<>>, nodes, data, c, k) = None
    BY DEF InList, Hits
  <2> QED
    BY <2>1, <2>2, TableIs DEF Entry
<1>2. Table = [e \in Codes \X Keys |-> Table[e]]
  BY DEF Table
<1> HIDE DEF Table
<1>3. Table = [e \in Codes \X Keys |-> None]
  BY <1>1, <1>2
<1> QED
  BY <1>3 DEF Init, Store!Init

\* A call that begins makes at most a datum and a node.
LEMMA BeginGrows ==
  ASSUME SessionInv, NEW t \in Threads, Begin(t)
  PROVE  Grows /\ UNCHANGED <<now, chain>>
<1>1. calls < MaxCalls
  BY DEF Begin
<1>2. /\ data \in Seq(DataRecord) /\ Len(data) \in Nat
      /\ nodes \in Seq(NodeRecord(data)) /\ Len(nodes) \in Nat
  BY ThreadTypes
<1>3. CASE SessionCreate(t)
  <2>1. PICK k \in Keys :
          /\ data' = Append(data, NewDatum(k))
          /\ nodes' = Append(nodes, [code |-> get_random_str(now), value |-> <<Len(data) + 1>>])
          /\ UNCHANGED <<now, chain>>
    BY <1>3 DEF SessionCreate
  <2>2. /\ Len(data') = Len(data) + 1 /\ \A d \in 1 .. Len(data) : data'[d] = data[d]
    BY <1>1, <2>1, DatumMade
  <2>3. /\ Len(nodes') = Len(nodes) + 1 /\ \A n \in 1 .. Len(nodes) : nodes'[n] = nodes[n]
        /\ nodes'[Len(nodes) + 1].value = <<Len(data) + 1>>
    BY <1>2, <2>1
  <2>4. ASSUME NEW n \in 1 .. Len(nodes'), n > Len(nodes), NEW i \in DOMAIN nodes'[n].value
        PROVE  nodes'[n].value[i] > Len(data)
    <3>1. n = Len(nodes) + 1
      BY <1>2, <2>3, <2>4
    <3>2. nodes'[n].value = <<Len(data) + 1>>
      BY <2>3, <3>1
    <3> QED
      BY <1>2, <2>4, <3>2
  <2> QED
    BY <1>2, <2>1, <2>2, <2>3, <2>4 DEF Grows
<1>4. ASSUME NEW op \in {"get", "add", "update"}, BeginCall(t, op)
      PROVE  Grows /\ UNCHANGED <<now, chain>>
  <2>1. UNCHANGED <<now, chain, nodes>>
    BY <1>4 DEF BeginCall
  <2>2. PICK k \in Keys : data' = Append(data, NewDatum(k)) \/ UNCHANGED data
    BY <1>4 DEF BeginCall
  <2>3. Len(data) <= Len(data') /\ \A d \in 1 .. Len(data) : data'[d] = data[d]
    <3>1. CASE data' = Append(data, NewDatum(k))
      BY <1>1, <1>2, <3>1, DatumMade
    <3>2. CASE UNCHANGED data
      BY <1>2, <3>2
    <3> QED
      BY <2>2, <3>1, <3>2
  <2> QED
    BY <1>2, <2>1, <2>3 DEF Grows
<1> QED
  BY <1>3, <1>4 DEF Begin

\* Every step is a step of the map or none of it, or there was a race.
LEMMA SessionNextRefines ==
  SessionInv /\ SessionInv' /\ [Next]_vars => [raced' \/ Store!Next]_(Store!vars)
<1> SUFFICES ASSUME SessionInv, SessionInv', [Next]_vars
             PROVE  raced' \/ Store!Next \/ UNCHANGED Store!vars
  OBVIOUS
<1>1. ASSUME UNCHANGED <<chain, nodes, data>>
      PROVE  UNCHANGED Table
  <2>1. Len(nodes) \in Nat /\ Len(data) \in Nat
    BY TypesAre DEF SessionInv, TableTypes
  <2>2. Grows
    BY <1>1, <2>1 DEF Grows
  <2> QED
    BY <1>1, <2>2, TableKept
<1> HIDE DEF Table
<1>2. ASSUME NEW t \in Threads, Step(t)
      PROVE  raced' \/ Store!Next \/ UNCHANGED Store!vars
  <2>1. CASE UNCHANGED <<now, chain, nodes, data>>
    BY <1>1, <2>1 DEF Store!vars
  <2>2. CASE Publish(t) \/ AddLink(t) \/ UpdateSet(t)
    BY <2>2, PublishPuts, AddLinkPuts, UpdateSetPuts
  <2> QED
    BY <1>2, <2>1, <2>2 DEF Step, NextNode, NotFound, AddFound, GetFound, GetRead, Answer, UpdateFree
<1>3. ASSUME NEW t \in Threads, Begin(t)
      PROVE  UNCHANGED Store!vars
  <2>1. Grows /\ UNCHANGED <<now, chain>>
    BY <1>3, BeginGrows
  <2> QED
    BY <2>1, TableKept DEF Store!vars
<1>4. CASE Tick
  BY <1>1, <1>4 DEF Tick, Store!Next, Store!Tick
<1>5. CASE UNCHANGED vars
  BY <1>1, <1>5 DEF vars, Store!vars
<1> QED
  BY <1>2, <1>3, <1>4, <1>5 DEF Next

\* The chains implement the map: SessionCreate, SessionAdd and UpdateSessionData
\* put one entry each in one step and nothing else changes it, for any number
\* of threads, until a race.
THEOREM SessionRefinement == Spec => ImplementsSessionStore
<1>1. Init => Store!Init
  BY SessionInitRefines
<1>2. SessionInv /\ SessionInv' /\ [Next]_vars => [raced' \/ Store!Next]_(Store!vars)
  BY SessionNextRefines
<1> QED
  BY <1>1, <1>2, SessionInvariant, PTL DEF Spec, ImplementsSessionStore
=============================================================================

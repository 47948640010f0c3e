----------------------------- MODULE HttpProofs -----------------------------
(***************************************************************************)
(* The router and the answers with files: every request that the parser    *)
(* got right is answered by its path.                                      *)
(*                                                                         *)
(* First come lemmas about minima, sums and sequences, then what the       *)
(* chunks of a file add up to and what the paths of files look like, then  *)
(* the invariant and one lemma for each kind of step.                      *)
(***************************************************************************)
EXTENDS Http, FiniteSetTheorems, SequenceTheorems, WellFoundedInduction, TLAPS

\* Induction over the natural numbers, for a set of them.
LEMMA SetInduction ==
  ASSUME NEW S, 0 \in S, \A n \in Nat : n \in S => n + 1 \in S
  PROVE  \A n \in Nat : n \in S
<1> SUFFICES ASSUME Nat \ S # {}
             PROVE  FALSE
  OBVIOUS
<1>1. PICK x \in Nat \ S : \A y \in Nat \ S : ~(<<y, x>> \in OpToRel(<, Nat))
  BY NatLessThanWellFounded, WFMin
<1>2. x \in Nat /\ x # 0
  OBVIOUS
<1>3. x - 1 \in Nat /\ x - 1 < x /\ (x - 1) + 1 = x
  BY <1>2
<1>4. x - 1 \in S
  BY <1>1, <1>3 DEF OpToRel
<1> QED
  BY <1>3, <1>4

\* The smallest and the largest number of a set.
LEMMA MinIs ==
  ASSUME NEW S \in SUBSET Nat, S # {}
  PROVE  Min(S) \in S /\ \A y \in S : Min(S) <= y
<1>1. \E x \in S : \A y \in S : x <= y
  <2>1. PICK x \in S : \A y \in S : ~(<<y, x>> \in OpToRel(<, Nat))
    BY NatLessThanWellFounded, WFMin
  <2>2. \A y \in S : y \in Nat /\ x \in Nat /\ ~(y < x)
    BY <2>1 DEF OpToRel
  <2>3. \A y \in S : x <= y
    BY <2>2
  <2> QED
    BY <2>3
<1> QED
  BY <1>1, Zenon DEF Min

\* What SelectInSeq finds: here the equations of the uses of it.
LEMMA FirstIs ==
  ASSUME NEW I, NEW n \in Nat, I \subseteq 1 .. n, NEW f, f = IF I # {} THEN Min(I) ELSE 0
  PROVE  /\ f # 0 => f \in I /\ \A j \in I : f <= j
         /\ f = 0 => I = {}
<1>1. CASE I = {}
  BY <1>1
<1>2. CASE I # {}
  <2>1. I \in SUBSET Nat
    OBVIOUS
  <2>2. f \in I /\ \A j \in I : f <= j
    BY <1>2, <2>1, MinIs
  <2> QED
    BY <2>2
<1> QED
  BY <1>1, <1>2

LEMMA MaxIs ==
  ASSUME NEW n \in Nat, NEW S \in SUBSET (1 .. n), S # {}
  PROVE  Max(S) \in S /\ \A y \in S : Max(S) >= y
<1> DEFINE T == {y \in Nat : n - y \in S}
<1>1. T # {} /\ T \in SUBSET Nat
  <2>1. PICK x \in S : TRUE
    OBVIOUS
  <2>2. n - x \in Nat /\ n - (n - x) = x
    OBVIOUS
  <2>3. n - x \in T
    BY <2>2
  <2> QED
    BY <2>3
<1>2. Min(T) \in T /\ \A y \in T : Min(T) <= y
  <2> HIDE DEF T
  <2> QED
    BY <1>1, MinIs
<1> DEFINE m == n - Min(T)
<1>3. m \in S /\ Min(T) \in Nat
  BY <1>2
<1>4. ASSUME NEW y \in S
      PROVE  m >= y
  <2>1. y \in Nat /\ n - y \in Nat /\ n - (n - y) = y
    OBVIOUS
  <2>2. n - y \in T
    BY <2>1
  <2>3. Min(T) <= n - y
    BY <1>2, <2>2
  <2> HIDE DEF T
  <2> QED
    BY <1>3, <2>1, <2>3
<1>5. \E x \in S : \A y \in S : x >= y
  BY <1>3, <1>4
<1> QED
  BY <1>5, Zenon DEF Max

\* The sum of a sequence: what FoldLeft gives is the last of its partial sums.
LEMMA SumIs ==
  ASSUME NEW s \in Seq(Nat), NEW sum, sum[0] = 0,
         \A i \in 1 .. Len(s) : sum[i] = sum[i - 1] + s[i]
  PROVE  FoldLeft(+, 0, s) = sum[Len(s)]
<1> DEFINE n == Len(s)
           D == SUBSET (DOMAIN s)
           iter[t \in SUBSET (DOMAIN s)] ==
             IF t = {} THEN 0 ELSE LET x == Max(t) IN iter[t \ {x}] + s[x]
           Goes(g, t) == g[t] = IF t = {} THEN 0 ELSE g[t \ {Max(t)}] + s[Max(t)]
           K == {k \in Nat : \E g : \A t \in D : t \subseteq 1 .. k => Goes(g, t)}
<1>1. FoldLeft(+, 0, s) = iter[DOMAIN s]
  BY Zenon DEF FoldLeft, MapThenFoldSet
<1> HIDE DEF iter
<1>2. n \in Nat /\ DOMAIN s = 1 .. n
  OBVIOUS
<1>3. ASSUME NEW t \in D, t # {}
      PROVE  Max(t) \in t /\ (\A y \in t : Max(t) >= y) /\ t \ {Max(t)} \in D
  <2>1. t \in SUBSET (1 .. n)
    BY <1>2
  <2> QED
    BY <1>2, <1>3, <2>1, MaxIs
<1>4. 0 \in K
  <2> DEFINE g == [t \in D |-> 0]
  <2>1. \A t \in D : t \subseteq 1 .. 0 => t = {}
    OBVIOUS
  <2>2. \A t \in D : t \subseteq 1 .. 0 => Goes(g, t)
    BY <2>1
  <2> HIDE DEF Goes, g, D
  <2> QED
    BY <2>2
<1>5. ASSUME NEW k \in Nat, k \in K
      PROVE  k + 1 \in K
  <2>1. PICK g : \A t \in D : t \subseteq 1 .. k => Goes(g, t)
    BY <1>5
  <2> DEFINE h == [t \in D |-> IF t = {} THEN 0 ELSE g[t \ {Max(t)}] + s[Max(t)]]
  <2>2. ASSUME NEW t \in D, t \subseteq 1 .. k + 1
        PROVE  Goes(h, t)
    <3>1. CASE t = {}
      BY <3>1
    <3>2. CASE t # {}
      <4> DEFINE u == t \ {Max(t)}
      <4>1. u \in D /\ u \subseteq 1 .. k
        <5>1. Max(t) \in t /\ (\A y \in t : Max(t) >= y) /\ u \in D
          BY <1>3, <3>2
        <5>2. ASSUME NEW y \in u
              PROVE  y \in 1 .. k
          <6>1. y \in 1 .. k + 1 /\ Max(t) \in 1 .. k + 1 /\ Max(t) >= y /\ y # Max(t)
            BY <2>2, <5>1
          <6> QED
            BY ONLY <6>1, k \in Nat
        <5> QED
          BY <5>1, <5>2
      <4>2. h[u] = g[u]
        <5>1. Goes(g, u)
          BY <2>1, <4>1
        <5> QED
          BY <4>1, <5>1
      <4> QED
        BY <3>2, <4>2
    <3> QED
      BY <3>1, <3>2
  <2> HIDE DEF Goes, h, D
  <2>3. \E f : \A t \in D : t \subseteq 1 .. k + 1 => Goes(f, t)
    BY <2>2
  <2>4. k + 1 \in Nat
    OBVIOUS
  <2> QED
    BY <2>3, <2>4, Zenon
<1>6. n \in K
  <2> HIDE DEF K
  <2> QED
    BY <1>2, <1>4, <1>5, SetInduction
<1>7. \A t \in SUBSET (DOMAIN s) : iter[t] = IF t = {} THEN 0 ELSE iter[t \ {Max(t)}] + s[Max(t)]
  <2>1. PICK g : \A t \in D : Goes(g, t)
    <3> HIDE DEF Goes
    <3>1. PICK g : \A t \in D : t \subseteq 1 .. n => Goes(g, t)
      BY <1>6
    <3>2. \A t \in D : Goes(g, t)
      BY <1>2, <3>1
    <3> QED
      BY <3>2
  <2> DEFINE f == [t \in D |-> g[t]]
  <2>2. ASSUME NEW t \in D
        PROVE  f[t] = IF t = {} THEN 0 ELSE f[t \ {Max(t)}] + s[Max(t)]
    <3>1. t # {} => t \ {Max(t)} \in D
      BY <1>3
    <3> QED
      BY <2>1, <3>1
  <2>3. f = [t \in D |-> f[t]]
    OBVIOUS
  <2> HIDE DEF f
  <2>4. f = [t \in SUBSET (DOMAIN s) |-> IF t = {} THEN 0
                                        ELSE LET x == Max(t) IN f[t \ {x}] + s[x]]
    BY <2>2, <2>3
  <2>5. \E a : a = [t \in SUBSET (DOMAIN s) |->
                      IF t = {} THEN 0 ELSE LET x == Max(t) IN a[t \ {x}] + s[x]]
    BY <2>4
  <2>6. iter = [t \in SUBSET (DOMAIN s) |->
                  IF t = {} THEN 0 ELSE LET x == Max(t) IN iter[t \ {x}] + s[x]]
    BY <2>5, Zenon DEF iter
  <2> QED
    BY <2>6
<1> DEFINE P == {k \in Nat : k <= n => iter[1 .. k] = sum[k]}
<1>8. 0 \in P
  <2>1. {} \in SUBSET (DOMAIN s) /\ 1 .. 0 = {}
    OBVIOUS
  <2>2. iter[{}] = 0
    BY <1>7, <2>1
  <2> QED
    BY <2>1, <2>2
<1>9. ASSUME NEW k \in Nat, k \in P
      PROVE  k + 1 \in P
  <2> SUFFICES ASSUME k + 1 <= n
               PROVE  iter[1 .. k + 1] = sum[k + 1]
    OBVIOUS
  <2>1. iter[1 .. k] = sum[k]
    BY <1>2, <1>9
  <2> DEFINE t == 1 .. k + 1
  <2>2. t \in SUBSET (DOMAIN s) /\ t # {} /\ t \in SUBSET (1 .. n)
    <3>1. 1 \in t
      OBVIOUS
    <3>2. \A i \in t : i \in 1 .. n
      BY <1>2
    <3> QED
      BY <1>2, <3>1, <3>2
  <2>3. Max(t) \in t /\ \A y \in t : Max(t) >= y
    BY <1>2, <2>2, MaxIs
  <2>4. Max(t) = k + 1
    <3>1. k + 1 \in t
      OBVIOUS
    <3>2. Max(t) >= k + 1 /\ Max(t) \in 1 .. k + 1
      BY <2>3, <3>1
    <3> QED
      BY ONLY <3>2, k \in Nat
  <2>5. t \ {k + 1} = 1 .. k
    OBVIOUS
  <2>6. iter[t] = iter[t \ {k + 1}] + s[k + 1]
    BY <1>7, <2>2, <2>4
  <2>7. sum[k + 1] = sum[k] + s[k + 1]
    <3>1. k + 1 \in 1 .. Len(s) /\ (k + 1) - 1 = k
      BY <1>2
    <3> QED
      BY <3>1
  <2> QED
    BY <2>1, <2>5, <2>6, <2>7
<1>10. n \in P
  <2> HIDE DEF P
  <2> QED
    BY <1>2, <1>8, <1>9, SetInduction
<1>11. iter[1 .. n] = sum[n]
  BY <1>2, <1>10
<1>12. iter[DOMAIN s] = sum[Len(s)]
  BY <1>2, <1>11
<1> QED
  BY <1>1, <1>12, Zenon

LEMMA AppendIs ==
  ASSUME NEW S, NEW s \in Seq(S), NEW x \in S
  PROVE  /\ Append(s, x) \in Seq(S) /\ Len(Append(s, x)) = Len(s) + 1 /\ Len(s) \in Nat
         /\ \A i \in 1 .. Len(s) : Append(s, x)[i] = s[i]
         /\ Append(s, x)[Len(s) + 1] = x
OBVIOUS

\* A client reads all bytes of a file from its chunks, whatever the file's size.
LEMMA DecodedIs ==
  ASSUME NEW size \in Nat
  PROVE  Decoded(Chunks(size)) = size
<1> DEFINE q == size \div BUFFER
           c == Chunks(size)
           toClient == Append(c, 0)
           I == {i \in 1 .. Len(toClient) : toClient[i] = 0}
           end == SelectInSeq(toClient, LAMBDA x : x = 0)
           s == SubSeq(toClient, 1, end)
           sum == [i \in 0 .. q + 2 |-> IF i <= q THEN i * BUFFER ELSE size]
<1>1. /\ BUFFER \in Nat /\ BUFFER > 0 /\ q \in Nat /\ size % BUFFER \in Nat
      /\ size = BUFFER * q + (size % BUFFER) /\ size % BUFFER < BUFFER
  BY SizesAssumption
<1> HIDE DEF q
<1>2. \A i \in 1 .. q + 1 : c[i] = IF i <= q THEN BUFFER ELSE size % BUFFER
  <2> SUFFICES ASSUME NEW i \in 1 .. q + 1
               PROVE  c[i] = IF i <= q THEN BUFFER ELSE size % BUFFER
    OBVIOUS
  <2>1. c[i] = IF i * BUFFER <= size THEN BUFFER ELSE size % BUFFER
    BY DEF Chunks, q
  <2>2. CASE i <= q
    <3>1. i * BUFFER <= q * BUFFER
      BY <1>1, <2>2
    <3> QED
      BY <1>1, <2>1, <2>2, <3>1
  <2>3. CASE ~(i <= q)
    <3>1. i = q + 1
      BY <1>1, <2>3
    <3>2. i * BUFFER = BUFFER * q + BUFFER
      BY <1>1, <3>1
    <3> QED
      BY <1>1, <2>1, <2>3, <3>2
  <2> QED
    BY <2>2, <2>3
<1>3. c \in Seq(Nat) /\ Len(c) = q + 1
  <2>1. c = [i \in 1 .. q + 1 |-> c[i]]
    BY DEF Chunks, q
  <2>2. \A i \in 1 .. q + 1 : c[i] \in Nat
    BY <1>1, <1>2
  <2> HIDE DEF c
  <2>3. c \in [1 .. q + 1 -> Nat]
    BY <2>1, <2>2
  <2>4. q + 1 \in Nat
    BY <1>1
  <2> QED
    BY ONLY <2>3, <2>4
<1> HIDE DEF c
<1>4. /\ toClient \in Seq(Nat) /\ Len(toClient) = q + 2
      /\ \A i \in 1 .. q + 1 : toClient[i] = c[i]
      /\ toClient[q + 2] = 0
  <2>1. (q + 1) + 1 = q + 2 /\ 0 \in Nat
    BY <1>1
  <2>2. /\ toClient \in Seq(Nat) /\ Len(toClient) = Len(c) + 1
        /\ \A i \in 1 .. Len(c) : toClient[i] = c[i]
        /\ toClient[Len(c) + 1] = 0
    BY <1>3, <2>1, AppendIs
  <2> HIDE DEF toClient
  <2> QED
    BY <1>3, <2>1, <2>2
<1> HIDE DEF toClient
<1>5. end = IF I # {} THEN Min(I) ELSE 0
  BY Zenon DEF SelectInSeq
<1> HIDE DEF end
<1>6. end # 0 /\ end \in I /\ \A j \in I : end <= j
  <2>1. q + 2 \in I /\ I \subseteq 1 .. q + 2 /\ q + 2 \in Nat
    BY <1>1, <1>4
  <2> HIDE DEF I
  <2>2. /\ end # 0 => end \in I /\ \A j \in I : end <= j
        /\ end = 0 => I = {}
    BY <1>5, <2>1, FirstIs
  <2> QED
    BY <2>1, <2>2
<1>7. end \in q + 1 .. q + 2 /\ (end = q + 1 => size % BUFFER = 0)
  <2>1. end \in 1 .. q + 2 /\ toClient[end] = 0
    BY <1>4, <1>6
  <2>2. ~(end <= q)
    <3> SUFFICES ASSUME end <= q
                 PROVE  FALSE
      OBVIOUS
    <3>1. end \in 1 .. q + 1
      BY <1>1, <2>1
    <3> QED
      BY <1>1, <1>2, <1>4, <2>1, <3>1
  <2>3. end = q + 1 => size % BUFFER = 0
    <3>1. q + 1 \in 1 .. q + 1 /\ ~(q + 1 <= q)
      BY <1>1
    <3> QED
      BY <1>2, <1>4, <2>1, <3>1
  <2> QED
    BY <1>1, <2>1, <2>2, <2>3
<1>8. s \in Seq(Nat) /\ Len(s) = end /\ \A i \in 1 .. end : s[i] = toClient[i]
  <2>1. 1 \in Int /\ end \in Int /\ 1 <= end /\ end <= q + 2
    BY <1>1, <1>7
  <2>2. \A i \in 1 .. end : toClient[i] \in Nat
    <3>1. \A i \in 1 .. end : i \in 1 .. Len(toClient)
      BY <1>1, <1>4, <2>1
    <3> QED
      BY <1>4, <3>1
  <2>3. /\ s \in Seq(Nat) /\ Len(s) = IF 1 <= end THEN end - 1 + 1 ELSE 0
        /\ \A i \in 1 .. end - 1 + 1 : s[i] = toClient[1 + i - 1]
    BY <2>1, <2>2, SubSeqProperties
  <2>4. end - 1 + 1 = end /\ \A i \in 1 .. end : 1 + i - 1 = i
    BY <2>1
  <2> QED
    BY <2>1, <2>3, <2>4
<1> HIDE DEF s
<1>9. sum[0] = 0
  BY <1>1
<1>10. ASSUME NEW i \in 1 .. Len(s)
       PROVE  sum[i] = sum[i - 1] + s[i]
  <2>0. q \in Nat /\ end \in q + 1 .. q + 2 /\ i \in 1 .. end /\ s[i] = toClient[i]
    BY <1>1, <1>7, <1>8
  <2>1. i \in 1 .. q + 2 /\ i - 1 \in 0 .. q + 2 /\ i \in 0 .. q + 2 /\ i <= end /\ s[i] = toClient[i]
    BY ONLY <2>0
  <2>2. CASE i <= q
    <3>1. toClient[i] = BUFFER /\ i - 1 <= q
      BY <1>1, <1>2, <1>4, <2>1, <2>2
    <3>2. sum[i] = i * BUFFER /\ sum[i - 1] = (i - 1) * BUFFER
      BY <2>1, <2>2, <3>1
    <3>3. i * BUFFER = (i - 1) * BUFFER + BUFFER
      BY <1>1
    <3> HIDE DEF sum
    <3> QED
      BY <2>1, <3>1, <3>2, <3>3
  <2>3. CASE i = q + 1
    <3>1. toClient[i] = size % BUFFER /\ i - 1 = q /\ ~(i <= q) /\ q <= q
      BY <1>1, <1>2, <1>4, <2>1, <2>3
    <3>2. sum[i] = size /\ sum[i - 1] = q * BUFFER
      BY <2>1, <3>1
    <3>3. q * BUFFER = BUFFER * q
      BY <1>1
    <3> HIDE DEF sum
    <3> QED
      BY <1>1, <2>1, <3>1, <3>2, <3>3
  <2>4. CASE i = q + 2
    <3>1. toClient[i] = 0 /\ ~(i - 1 <= q) /\ ~(i <= q)
      BY <1>1, <1>4, <2>4
    <3>2. sum[i] = size /\ sum[i - 1] = size
      BY <2>1, <3>1
    <3> HIDE DEF sum
    <3> QED
      BY <2>1, <3>1, <3>2
  <2> QED
    BY <1>1, <2>1, <2>2, <2>3, <2>4
<1>11. sum[end] = size
  <2>1. end \in 0 .. q + 2 /\ ~(end <= q)
    BY <1>1, <1>7
  <2> QED
    BY <2>1
<1> HIDE DEF sum
<1>12. FoldLeft(+, 0, s) = sum[Len(s)]
  BY <1>8, <1>9, <1>10, SumIs
<1>13. Decoded(Chunks(size)) = FoldLeft(+, 0, s)
  BY Zenon DEF Decoded, s, end, toClient, c
<1>14. sum[Len(s)] = size
  BY <1>8, <1>11
<1> QED
  BY <1>12, <1>13, <1>14, Zenon

-----------------------------------------------------------------------------
\* The tokens of a name.  All of them are strings, but the provers have to be told of the two
\* that the code itself uses.
Tokens == STRING \cup {"/", "static"}

LEMMA InTokens ==
  ASSUME NEW s \in Seq(STRING)
  PROVE  s \in Seq(Tokens)
<1>1. STRING \subseteq Tokens
  BY DEF Tokens
<1>2. ASSUME NEW S, NEW T, S \subseteq T, NEW t \in Seq(S)
      PROVE  t \in Seq(T)
  BY <1>2
<1> QED
  BY <1>1, <1>2

LEMMA Pairs ==
  ASSUME NEW S, NEW x \in S, NEW y \in S
  PROVE  <<x>> \in Seq(S) /\ <<x, y>> \in Seq(S) /\ <<x>> \o <<y>> = <<x, y>>
<1>1. <<x>> \in Seq(S) /\ <<x, y>> \in Seq(S)
  OBVIOUS
<1>2. <<x, y>> = Append(<<x>>, y)
  OBVIOUS
<1>3. <<x>> \o <<y>> = Append(<<x>>, y)
  OBVIOUS
<1> QED
  BY <1>1, <1>2, <1>3

LEMMA SlashTokens ==
  /\ <<"/">> \in Seq(Tokens) /\ <<"/", "/">> \in Seq(Tokens)
  /\ <<"static">> \o <<"/">> = <<"static", "/">>
<1>1. "/" \in Tokens /\ "static" \in Tokens
  BY DEF Tokens
<1> QED
  BY <1>1, Pairs, Zenon

\* The paths of names below the working directory begin with "/", so the url of a file is
\* its whole path, and different names have different paths.
LEMMA PathIs ==
  ASSUME NEW dir, NEW n \in Seq(Tokens)
  PROVE  Path(dir, n) \in Seq(Tokens) /\ Url(Path(dir, n)) = Path(dir, n)
<1> DEFINE p == Path(dir, n)
           I == {i \in 1 .. Len(p) : p[i] = "/"}
           f == SelectInSeq(p, LAMBDA t : t = "/")
<1>1. Cwd \in Seq(Tokens) /\ Cwd # <<>> /\ Cwd[1] = "/" /\ Len(Cwd) \in Nat /\ Len(Cwd) > 0
  BY RouterAssumption, InTokens
<1>2. <<"/", "/">> \in Seq(Tokens) /\ <<"/">> \in Seq(Tokens)
  BY SlashTokens
<1>3. ASSUME NEW m \in Seq(Tokens), p = (Cwd \o m) \o n
      PROVE  p \in Seq(Tokens) /\ p[1] = "/" /\ Len(p) \in Nat /\ Len(p) > 0
  <2>1. /\ Cwd \o m \in Seq(Tokens) /\ Len(Cwd \o m) = Len(Cwd) + Len(m)
        /\ \A i \in 1 .. Len(Cwd) + Len(m) :
             (Cwd \o m)[i] = IF i <= Len(Cwd) THEN Cwd[i] ELSE m[i - Len(Cwd)]
    BY <1>1, ConcatProperties
  <2> DEFINE a == Cwd \o m
  <2> HIDE DEF a, p
  <2>2. Len(m) \in Nat /\ Len(n) \in Nat
    OBVIOUS
  <2>3. a \in Seq(Tokens) /\ Len(a) \in Nat /\ Len(a) > 0 /\ a[1] = "/"
    <3>1. 1 \in 1 .. Len(Cwd) + Len(m) /\ 1 <= Len(Cwd)
      BY <1>1, <2>2
    <3> QED
      BY <1>1, <2>1, <2>2, <3>1 DEF a
  <2>4. /\ a \o n \in Seq(Tokens) /\ Len(a \o n) = Len(a) + Len(n)
        /\ \A i \in 1 .. Len(a) + Len(n) :
             (a \o n)[i] = IF i <= Len(a) THEN a[i] ELSE n[i - Len(a)]
    BY <2>3, ConcatProperties
  <2>5. p = a \o n
    BY <1>3 DEF a
  <2>6. 1 \in 1 .. Len(a) + Len(n) /\ 1 <= Len(a)
    BY <2>2, <2>3
  <2> QED
    BY <2>2, <2>3, <2>4, <2>5, <2>6
<1>4. p \in Seq(Tokens) /\ p[1] = "/" /\ Len(p) \in Nat /\ Len(p) > 0
  BY <1>2, <1>3 DEF Path
<1> HIDE DEF p
<1>5. f = IF I # {} THEN Min(I) ELSE 0
  BY Zenon DEF SelectInSeq
<1>6. 1 \in I /\ I \subseteq 1 .. Len(p)
  BY <1>4
<1> HIDE DEF f
<1>7. f = 1
  <2> HIDE DEF I
  <2>1. f # 0 => f \in I /\ \A j \in I : f <= j
    BY <1>4, <1>5, <1>6, FirstIs
  <2>2. f = 0 => I = {}
    BY <1>4, <1>5, <1>6, FirstIs
  <2>3. f # 0
    BY <1>6, <2>2
  <2>4. f \in 1 .. Len(p) /\ f <= 1
    BY <1>6, <2>1, <2>3
  <2> QED
    BY <2>4
<1>8. Url(p) = SubSeq(p, 1, Len(p))
  BY <1>7 DEF Url, f
<1>9. SubSeq(p, 1, Len(p)) = p
  BY <1>4
<1> QED
  BY <1>4, <1>8, <1>9 DEF p

LEMMA PathInjective ==
  ASSUME NEW dir, NEW m \in Seq(Tokens), NEW n \in Seq(Tokens), Path(dir, m) = Path(dir, n)
  PROVE  m = n
<1>1. Cwd \in Seq(Tokens) /\ <<"/", "/">> \in Seq(Tokens) /\ <<"/">> \in Seq(Tokens)
  BY RouterAssumption, SlashTokens, InTokens
<1>2. ASSUME NEW s \in Seq(Tokens), (Cwd \o s) \o m = (Cwd \o s) \o n
      PROVE  m = n
  <2>1. Cwd \o s \in Seq(Tokens)
    BY <1>1, ConcatProperties
  <2> QED
    BY <1>2, <2>1, ConcatSimplifications
<1> QED
  BY <1>1, <1>2 DEF Path

\* The names that router_init finds, in a disk d.
Found(d, dir) == {n \in DOMAIN d : n # dir /\ IsPrefix(dir, n)}

LEMMA BelowIs ==
  ASSUME disk \in Disks, NEW dir \in {<<>>, <<"static">>}
  PROVE  Below(dir) = Found(disk, dir)
<1>1. ASSUME NEW n \in DOMAIN disk, dir = <<"static">>, n # dir
      PROVE  IsPrefix(<<"static">> \o <<"/">>, n) <=> IsPrefix(<<"static">>, n)
  <2>1. n \in Seq(Tokens) /\ n # <<>> /\ \A i \in DOMAIN n : i % 2 = 0 => n[i] = "/"
    BY RouterAssumption, InTokens
  <2>2. Len(n) \in Nat /\ Len(n) > 0 /\ DOMAIN n = 1 .. Len(n)
    BY <2>1
  <2>3. <<"static">> \o <<"/">> = <<"static", "/">>
    BY SlashTokens
  <2>4. IsPrefix(<<"static">>, n) <=> n[1] = "static"
    BY <2>1, <2>2 DEF IsPrefix
  <2>5. IsPrefix(<<"static", "/">>, n) <=> Len(n) >= 2 /\ n[1] = "static" /\ n[2] = "/"
    BY <2>1, <2>2 DEF IsPrefix
  <2>6. n[1] = "static" => Len(n) >= 2
    <3> SUFFICES ASSUME n[1] = "static", Len(n) = 1
                 PROVE  FALSE
      BY <2>2
    <3>1. n = <<"static">>
      BY <2>1
    <3> QED
      BY <1>1, <3>1
  <2>7. Len(n) >= 2 => n[2] = "/"
    BY <2>1, <2>2
  <2> QED
    BY <2>3, <2>4, <2>5, <2>6, <2>7
<1>2. CASE dir = <<>>
  BY <1>2 DEF Below, Found
<1>3. CASE dir = <<"static">>
  BY <1>1, <1>3 DEF Below, Found
<1> QED
  BY <1>2, <1>3

-----------------------------------------------------------------------------
(* The invariant. *)

Names(dir) == UNION {Found(d, dir) : d \in Disks}

\* What is on the disk was there at the start, and is a file or a directory.
DiskInv ==
  /\ unchanged \subseteq DOMAIN disk
  /\ DOMAIN disk \subseteq UNION {DOMAIN d : d \in Disks}
  /\ \A n \in DOMAIN disk : disk[n] \in [dir : BOOLEAN, size : Nat]

\* The table of files has entries for names below the static directory, with the sizes of
\* the unchanged ones, and when it is not full it has one for each.
FilesInv(dir) ==
  /\ Len(g_file_list) \in Nat /\ DOMAIN g_file_list = 1 .. Len(g_file_list)
  /\ \A i \in DOMAIN g_file_list :
       /\ g_file_list[i].name \in Names(dir)
       /\ g_file_list[i].url = Path(dir, g_file_list[i].name)
       /\ g_file_list[i].name \in unchanged =>
            g_file_list[i].size = disk[g_file_list[i].name].size
  /\ Len(g_file_list) < MAX_FILES =>
       \A n \in Found(disk, dir) : \E i \in DOMAIN g_file_list : g_file_list[i].name = n

\* The table of views has those of the apps before this one.
Views(next) ==
  UNION {{ViewsOf(Apps[a])[j] : j \in DOMAIN ViewsOf(Apps[a])} : a \in 1 .. next - 1}

ViewsInv(next) ==
  /\ g_cmp \in Seq(Views(next))
  /\ \A v \in Views(next) : \E i \in DOMAIN g_cmp : g_cmp[i] = v

\* What main has done before the server serves.
StageInv ==
  /\ stage \in {"conf", "router", "apps"} =>
       conn = None /\ disk \in Disks /\ unchanged = DOMAIN disk
  /\ stage \in {"conf", "router"} => app = 1
  /\ stage = "serve" => app = Len(Apps) + 1
  /\ stage \in {"apps", "serve"} => FilesInv(conf.static_dir) /\ ViewsInv(app)

Fields == {"request", "n", "req", "answer", "page", "crash"}

\* What waits and what the thread has in its hands are requests of clients.
HandsInv ==
  /\ pending # None => pending.request \in Requests
  /\ conn # None => conn.request \in Requests /\ Fields \subseteq DOMAIN conn

\* The inductive invariant.
HttpInv ==
  /\ DiskInv /\ StageInv
  /\ app \in 1 .. Len(Apps) + 1
  /\ "static_dir" \in DOMAIN conf /\ conf.static_dir \in {<<>>, <<"static">>}
  /\ HandsInv
  /\ ParsesOwnRequest => AnswersOwnPath
-----------------------------------------------------------------------------
\* router_init lists what is below the static directory, in whatever order.
LEMMA RouterInitFiles ==
  ASSUME disk \in Disks, unchanged = DOMAIN disk, NEW dir \in {<<>>, <<"static">>}, router_init(dir)
  PROVE  FilesInv(dir)' /\ g_cmp' = <<>> /\ disk' = disk /\ unchanged' = unchanged
<1> DEFINE B == Found(disk, dir)
           C == Cardinality(B)
<1>1. g_cmp' = <<>> /\ disk' = disk /\ unchanged' = unchanged
  BY DEF router_init
<1>2. PICK s \in Traversals(dir) :
        g_file_list' = [i \in 1 .. Min({Len(s), MAX_FILES}) |-> FileInfo(dir, s[i])]
  BY DEF router_init
<1>3. Below(dir) = B
  BY BelowIs
<1>4. s \in [1 .. C -> B] /\ \A i, j \in 1 .. C : i # j => s[i] # s[j]
  BY <1>2, <1>3 DEF Traversals, SetToSeqs
<1>5. IsFiniteSet(B) /\ C \in Nat
  <2>1. IsFiniteSet(DOMAIN disk) /\ B \in SUBSET (DOMAIN disk)
    BY RouterAssumption DEF Found
  <2>2. IsFiniteSet(B)
    BY <2>1, FS_Subset
  <2> QED
    BY <2>2, FS_CardinalityType
<1>6. Len(s) = C
  <2> HIDE DEF B, C
  <2> QED
    BY <1>4, <1>5
<1>7. \A n \in B : \E i \in 1 .. C : s[i] = n
  <2>1. s \in Injection(1 .. C, B)
    BY <1>4 DEF Injection, IsInjective
  <2>2. Cardinality(1 .. C) = C
    <3> HIDE DEF C
    <3> QED
      BY <1>5, FS_Interval
  <2>3. s \in Surjection(1 .. C, B)
    BY <1>5, <2>1, <2>2, FS_Injection
  <2> QED
    BY <2>3 DEF Surjection
<1> DEFINE k == Min({Len(s), MAX_FILES})
<1>8. k \in Nat /\ k <= C /\ k <= MAX_FILES /\ (k < MAX_FILES => k = C)
  <2>1. {Len(s), MAX_FILES} \in SUBSET Nat /\ MAX_FILES \in Nat
    BY <1>5, <1>6, SizesAssumption
  <2>2. k \in {Len(s), MAX_FILES} /\ \A y \in {Len(s), MAX_FILES} : k <= y
    BY <2>1, MinIs
  <2> HIDE DEF C, k
  <2> QED
    BY <1>5, <1>6, <2>1, <2>2
<1> HIDE DEF k, C
<1>9. g_file_list' = [i \in 1 .. k |-> FileInfo(dir, s[i])]
  BY <1>2 DEF k
<1>10. Len(g_file_list') = k /\ DOMAIN g_file_list' = 1 .. k
  BY <1>8, <1>9
<1>11. ASSUME NEW i \in 1 .. k
       PROVE  /\ s[i] \in B
              /\ g_file_list'[i].name = s[i]
              /\ g_file_list'[i].url = Path(dir, s[i])
              /\ g_file_list'[i].size = disk[s[i]].size
  <2>1. i \in 1 .. C
    BY <1>5, <1>8
  <2>2. s[i] \in B
    BY <1>4, <2>1
  <2>3. s[i] \in Seq(Tokens)
    BY <2>2, RouterAssumption, InTokens DEF Found
  <2>4. g_file_list'[i] = FileInfo(dir, s[i])
    BY <1>9
  <2> QED
    BY <2>2, <2>3, <2>4, PathIs DEF FileInfo
<1>12. B \subseteq Names(dir)
  BY DEF Names
<1>13. ASSUME k < MAX_FILES, NEW n \in B
       PROVE  \E i \in 1 .. k : g_file_list'[i].name = n
  <2>1. k = C
    BY <1>8, <1>13
  <2> QED
    BY <1>7, <1>11, <2>1
<1> HIDE DEF B
<1>14. /\ Len(g_file_list') \in Nat /\ DOMAIN g_file_list' = 1 .. Len(g_file_list')
       /\ \A i \in DOMAIN g_file_list' :
            /\ g_file_list'[i].name \in Names(dir)
            /\ g_file_list'[i].url = Path(dir, g_file_list'[i].name)
            /\ g_file_list'[i].name \in unchanged' =>
                 g_file_list'[i].size = disk'[g_file_list'[i].name].size
       /\ Len(g_file_list') < MAX_FILES =>
            \A n \in Found(disk', dir) : \E i \in DOMAIN g_file_list' : g_file_list'[i].name = n
  BY <1>1, <1>8, <1>10, <1>11, <1>12, <1>13 DEF B
<1>15. FilesInv(dir)'
  BY <1>14 DEF FilesInv
<1> QED
  BY <1>1, <1>15

LEMMA SeqElements ==
  ASSUME NEW S, NEW s \in Seq(S)
  PROVE  Len(s) \in Nat /\ DOMAIN s = 1 .. Len(s) /\ \A i \in DOMAIN s : s[i] \in S
OBVIOUS

LEMMA WiderSeq ==
  ASSUME NEW S, NEW T, S \subseteq T, NEW s \in Seq(S)
  PROVE  s \in Seq(T)
OBVIOUS

LEMMA ViewsIs ==
  ASSUME NEW k, NEW v
  PROVE  v \in Views(k) <=>
           \E a \in 1 .. k - 1 : \E j \in DOMAIN ViewsOf(Apps[a]) : v = ViewsOf(Apps[a])[j]
BY DEF Views

LEMMA ViewsAtIs ==
  ASSUME NEW path, NEW c
  PROVE  c \in ViewsAt(path) <=>
           \E a \in DOMAIN Apps : \E j \in DOMAIN ViewsOf(Apps[a]) :
             ViewsOf(Apps[a])[j].key = path /\ c = ViewsOf(Apps[a])[j].cf
BY DEF ViewsAt

\* router_add_app puts the views of an app behind those that are there.
LEMMA AddAppViews ==
  ASSUME NEW k \in DOMAIN Apps, ViewsInv(k), router_add_app(Apps[k])
  PROVE  ViewsInv(k + 1)'
<1> DEFINE V == ViewsOf(Apps[k])
           W == {V[j] : j \in DOMAIN V}
           m == Len(g_cmp)
           l == Len(V)
<1>1. g_cmp' = g_cmp \o V
  BY DEF router_add_app
<1>2. k \in Nat /\ k >= 1
  BY RouterAssumption
<1>3. V \in Seq(W) /\ DOMAIN V = 1 .. l /\ l \in Nat
  <2>1. Apps[k] \in [name : STRING, keys : Seq(STRING), cf : Seq(STRING)]
    BY RouterAssumption, SeqElements
  <2>2. Apps[k].keys \in Seq(STRING)
    BY <2>1
  <2>3. V = [i \in 1 .. Len(Apps[k].keys) |-> V[i]] /\ Len(Apps[k].keys) \in Nat
    BY <2>2 DEF ViewsOf
  <2> HIDE DEF V
  <2> QED
    BY <2>3
<1>4. Views(k + 1) = Views(k) \cup W
  <2>1. 1 .. (k + 1) - 1 = (1 .. k - 1) \cup {k}
    BY <1>2
  <2>2. ASSUME NEW v
        PROVE  v \in Views(k + 1) <=> v \in Views(k) \/ v \in W
    <3> DEFINE In(a) == \E j \in DOMAIN ViewsOf(Apps[a]) : v = ViewsOf(Apps[a])[j]
    <3>1. v \in Views(k + 1) <=> \E a \in 1 .. (k + 1) - 1 : In(a)
      BY DEF Views
    <3>2. v \in Views(k) <=> \E a \in 1 .. k - 1 : In(a)
      BY DEF Views
    <3>3. v \in W <=> In(k)
      OBVIOUS
    <3> HIDE DEF In, W
    <3> QED
      BY <2>1, <3>1, <3>2, <3>3
  <2> HIDE DEF W
  <2> QED
    BY <2>2
<1>5. g_cmp \in Seq(Views(k)) /\ g_cmp \in Seq(Views(k + 1)) /\ V \in Seq(Views(k + 1))
  <2>1. g_cmp \in Seq(Views(k))
    BY DEF ViewsInv
  <2> QED
    BY <1>3, <1>4, <2>1, WiderSeq
<1>6. m \in Nat /\ DOMAIN g_cmp = 1 .. m
  BY <1>5, SeqElements
<1> HIDE DEF V
<1>7. /\ g_cmp' \in Seq(Views(k + 1)) /\ Len(g_cmp') = m + l
      /\ \A i \in 1 .. m + l : g_cmp'[i] = IF i <= m THEN g_cmp[i] ELSE V[i - m]
  BY <1>1, <1>5, ConcatProperties
<1> HIDE DEF m, l
<1>8. DOMAIN g_cmp' = 1 .. m + l
  BY <1>7, SeqElements
<1>9. ASSUME NEW v \in Views(k + 1)
      PROVE  \E i \in 1 .. m + l : g_cmp'[i] = v
  <2>1. CASE v \in W
    <3>1. PICK j \in 1 .. l : V[j] = v
      BY <1>3, <2>1
    <3>2. j + m \in 1 .. m + l /\ ~(j + m <= m) /\ (j + m) - m = j
      BY ONLY <1>3, <1>6, j \in 1 .. l
    <3> QED
      BY <1>7, <3>1, <3>2
  <2>2. CASE v \in Views(k)
    <3>1. PICK i \in 1 .. m : g_cmp[i] = v
      BY <1>6, <2>2 DEF ViewsInv
    <3>2. i \in 1 .. m + l /\ i <= m
      BY ONLY <1>3, <1>6, i \in 1 .. m
    <3> QED
      BY <1>7, <3>1, <3>2
  <2> QED
    BY <1>4, <2>1, <2>2
<1>10. g_cmp' \in Seq(Views(k + 1)) /\ \A v \in Views(k + 1) : \E i \in DOMAIN g_cmp' : g_cmp'[i] = v
  BY <1>7, <1>8, <1>9
<1> QED
  BY <1>10 DEF ViewsInv, Views, ViewsOf

\* What router_handle finds for a path.
LEMMA ViewFound ==
  ASSUME ViewsInv(Len(Apps) + 1), NEW path
  PROVE  LET v == SelectInSeq(g_cmp, LAMBDA e : e.key = path)
         IN /\ v # 0 => g_cmp[v].cf \in ViewsAt(path)
            /\ v = 0 => ViewsAt(path) = {}
<1> DEFINE I == {i \in 1 .. Len(g_cmp) : g_cmp[i].key = path}
           v == SelectInSeq(g_cmp, LAMBDA e : e.key = path)
           All == Views(Len(Apps) + 1)
<1>1. v = IF I # {} THEN Min(I) ELSE 0
  BY Zenon DEF SelectInSeq
<1> HIDE DEF v
<1>2. DOMAIN Apps = 1 .. (Len(Apps) + 1) - 1
  BY RouterAssumption
<1>3. /\ Len(g_cmp) \in Nat /\ DOMAIN g_cmp = 1 .. Len(g_cmp)
      /\ \A i \in DOMAIN g_cmp : g_cmp[i] \in All
  BY SeqElements DEF ViewsInv
<1>4. /\ v # 0 => v \in I
      /\ v = 0 => I = {}
  <2>1. I \subseteq 1 .. Len(g_cmp)
    OBVIOUS
  <2> HIDE DEF I
  <2> QED
    BY <1>1, <1>3, <2>1, FirstIs
<1>5. ViewsAt(path) = {e.cf : e \in {x \in All : x.key = path}}
  <2>1. ASSUME NEW c
        PROVE  c \in ViewsAt(path) <=> \E e \in All : e.key = path /\ c = e.cf
    <3>1. c \in ViewsAt(path) => \E e \in All : e.key = path /\ c = e.cf
      <4> SUFFICES ASSUME c \in ViewsAt(path)
                   PROVE  \E e \in All : e.key = path /\ c = e.cf
        OBVIOUS
      <4>1. PICK a \in DOMAIN Apps : \E j \in DOMAIN ViewsOf(Apps[a]) :
              ViewsOf(Apps[a])[j].key = path /\ c = ViewsOf(Apps[a])[j].cf
        BY ViewsAtIs
      <4>2. PICK j \in DOMAIN ViewsOf(Apps[a]) :
              ViewsOf(Apps[a])[j].key = path /\ c = ViewsOf(Apps[a])[j].cf
        BY <4>1
      <4>3. ViewsOf(Apps[a])[j] \in All
        BY <1>2, ViewsIs
      <4> QED
        BY <4>2, <4>3
    <3>2. ASSUME NEW e \in All, e.key = path, c = e.cf
          PROVE  c \in ViewsAt(path)
      <4>1. \E a \in DOMAIN Apps : \E j \in DOMAIN ViewsOf(Apps[a]) : e = ViewsOf(Apps[a])[j]
        BY <1>2, ViewsIs
      <4> QED
        BY <3>2, <4>1, ViewsAtIs
    <3> QED
      BY <3>1, <3>2
  <2> HIDE DEF All
  <2> QED
    BY <2>1
<1>6. v # 0 => g_cmp[v].cf \in ViewsAt(path)
  BY <1>3, <1>4, <1>5
<1>7. v = 0 => ViewsAt(path) = {}
  <2> SUFFICES ASSUME v = 0, NEW x \in All, x.key = path
               PROVE  FALSE
    BY <1>5
  <2>1. PICK i \in DOMAIN g_cmp : g_cmp[i] = x
    BY DEF ViewsInv
  <2> QED
    BY <1>3, <1>4, <2>1
<1> QED
  BY <1>6, <1>7 DEF v

LEMMA NamesAreTokens ==
  ASSUME NEW d \in Disks, NEW n \in DOMAIN d
  PROVE  n \in Seq(Tokens)
BY RouterAssumption, InTokens

LEMMA FilesAtIs ==
  ASSUME NEW path
  PROVE  FilesAt(path) = {n \in Names(conf.static_dir) : Path(conf.static_dir, n) = path}
BY DEF FilesAt, Names, Found

\* Different names have different paths, so the first entry of a path is the only one.
LEMMA FileFound ==
  ASSUME DiskInv, FilesInv(conf.static_dir), NEW path
  PROVE  LET f == SelectInSeq(g_file_list, LAMBDA e : e.url = path)
         IN /\ f # 0 => f \in DOMAIN g_file_list /\ FilesAt(path) = {g_file_list[f].name}
            /\ f = 0 => \A n \in FilesAt(path) : n \in unchanged => ~(Len(g_file_list) < MAX_FILES)
<1> DEFINE I == {i \in 1 .. Len(g_file_list) : g_file_list[i].url = path}
           f == SelectInSeq(g_file_list, LAMBDA e : e.url = path)
           dir == conf.static_dir
<1>1. f = IF I # {} THEN Min(I) ELSE 0
  BY Zenon DEF SelectInSeq
<1> HIDE DEF f
<1>2. Len(g_file_list) \in Nat /\ DOMAIN g_file_list = 1 .. Len(g_file_list)
  BY DEF FilesInv
<1>3. /\ f # 0 => f \in I
      /\ f = 0 => I = {}
  <2>1. I \subseteq 1 .. Len(g_file_list)
    OBVIOUS
  <2> HIDE DEF I
  <2> QED
    BY <1>1, <1>2, <2>1, FirstIs
<1>4. \A n \in Names(dir) : n \in Seq(Tokens)
  BY NamesAreTokens DEF Names, Found
<1>5. ASSUME f # 0
      PROVE  f \in DOMAIN g_file_list /\ FilesAt(path) = {g_file_list[f].name}
  <2>1. f \in DOMAIN g_file_list /\ g_file_list[f].url = path
    BY <1>2, <1>3, <1>5
  <2>2. g_file_list[f].name \in Names(dir) /\ Path(dir, g_file_list[f].name) = path
    BY <2>1 DEF FilesInv
  <2>3. ASSUME NEW n \in Names(dir), Path(dir, n) = path
        PROVE  n = g_file_list[f].name
    BY <1>4, <2>2, <2>3, PathInjective
  <2> QED
    BY <2>1, <2>2, <2>3, FilesAtIs
<1>6. ASSUME f = 0, NEW n \in FilesAt(path), n \in unchanged, Len(g_file_list) < MAX_FILES
      PROVE  FALSE
  <2>1. n \in Found(disk, dir)
    BY <1>6 DEF FilesAt, Found, DiskInv
  <2>2. PICK i \in DOMAIN g_file_list : g_file_list[i].name = n
    BY <1>6, <2>1 DEF FilesInv
  <2>3. g_file_list[i].url = path
    BY <2>2, FilesAtIs DEF FilesInv
  <2> QED
    BY <1>2, <1>3, <1>6, <2>3
<1> QED
  BY <1>5, <1>6 DEF f

\* router_handle answers with a view of the path, else with its file, else with 404.
LEMMA RouterHandles ==
  ASSUME DiskInv, FilesInv(conf.static_dir), ViewsInv(Len(Apps) + 1), NEW path, path # <<>>,
         NEW answer, answer = router_handle(path)
  PROVE  /\ ViewsAt(path) # {} => answer.kind = "view" /\ answer.of[1] \in ViewsAt(path)
         /\ ViewsAt(path) = {} /\ FilesAt(path) = {} => answer = NotFound
         /\ ViewsAt(path) = {} =>
              \A n \in FilesAt(path) :
                (n \in unchanged /\ ~disk[n].dir /\ Len(g_file_list) < MAX_FILES
                   /\ disk[n].size \notin BIG - HEAD + 1 .. BIG) =>
                  /\ answer.kind \in {"file", "chunked"} /\ answer.of = n
                  /\ ~answer.crash /\ ~Overruns(answer)
                  /\ answer.bytes = disk[n].size
<1> DEFINE v == SelectInSeq(g_cmp, LAMBDA e : e.key = path)
           f == SelectInSeq(g_file_list, LAMBDA e : e.url = path)
<1>1. answer = IF v # 0 THEN View(g_cmp[v].cf)
               ELSE IF f # 0 THEN res_static(g_file_list[f])
               ELSE IF path = <<>> THEN [NotFound EXCEPT !.kind = "file", !.crash = TRUE]
               ELSE NotFound
  BY DEF router_handle
<1>2. /\ v # 0 => g_cmp[v].cf \in ViewsAt(path)
      /\ v = 0 => ViewsAt(path) = {}
  BY ViewFound
<1>3. /\ f # 0 => f \in DOMAIN g_file_list /\ FilesAt(path) = {g_file_list[f].name}
      /\ f = 0 => \A n \in FilesAt(path) : n \in unchanged => ~(Len(g_file_list) < MAX_FILES)
  BY FileFound
<1> HIDE DEF v, f
<1>4. ViewsAt(path) # {} => answer.kind = "view" /\ answer.of[1] \in ViewsAt(path)
  <2> SUFFICES ASSUME ViewsAt(path) # {}
               PROVE  answer.kind = "view" /\ answer.of[1] \in ViewsAt(path)
    OBVIOUS
  <2>1. answer = View(g_cmp[v].cf) /\ g_cmp[v].cf \in ViewsAt(path)
    BY <1>1, <1>2
  <2> QED
    BY <2>1 DEF View
<1>5. ViewsAt(path) = {} /\ FilesAt(path) = {} => answer = NotFound
  BY <1>1, <1>2, <1>3
<1>6. ASSUME ViewsAt(path) = {}, NEW n \in FilesAt(path), n \in unchanged, ~disk[n].dir,
             Len(g_file_list) < MAX_FILES, disk[n].size \notin BIG - HEAD + 1 .. BIG
      PROVE  /\ answer.kind \in {"file", "chunked"} /\ answer.of = n
             /\ ~answer.crash /\ ~Overruns(answer)
             /\ answer.bytes = disk[n].size
  <2> DEFINE e == g_file_list[f]
  <2>1. f # 0 /\ v = 0
    BY <1>2, <1>3, <1>6
  <2>2. f \in DOMAIN g_file_list /\ n = e.name
    BY <1>3, <2>1
  <2>3. n \in DOMAIN disk /\ disk[n].size \in Nat
    BY <1>6 DEF DiskInv
  <2>4. e.size = disk[n].size
    BY <1>6, <2>2 DEF FilesInv
  <2>5. answer = res_static(e)
    BY <1>1, <2>1
  <2> HIDE DEF e
  <2>6. CASE e.size > BIG
    <3>1. answer = [kind |-> "chunked", of |-> n, crash |-> FALSE,
                    bytes |-> Decoded(Chunks(disk[n].size))]
      BY <2>2, <2>3, <2>5, <2>6 DEF res_static, res_file_handle
    <3>2. Decoded(Chunks(disk[n].size)) = disk[n].size
      BY <2>3, DecodedIs
    <3> QED
      BY <3>1, <3>2 DEF Overruns
  <2>7. CASE ~(e.size > BIG)
    <3>0. (e.name \notin DOMAIN disk \/ (e.name \in DOMAIN disk /\ disk[e.name].dir)) = FALSE
      BY <1>6, <2>2, <2>3
    <3>1. answer = [kind |-> "file", of |-> n, bytes |-> disk[n].size, crash |-> FALSE]
      BY <2>2, <2>4, <2>5, <2>7, <3>0 DEF res_static
    <3>2. BIG \in Nat /\ HEAD \in Nat
      BY SizesAssumption
    <3>3. ~(HEAD + disk[n].size > BIG)
      BY <1>6, <2>3, <2>4, <2>7, <3>2
    <3>4. answer.kind = "file" /\ answer.of = n /\ answer.bytes = disk[n].size
      BY <3>1
    <3>5. ~answer.crash
      BY <3>1
    <3> QED
      BY <3>3, <3>4, <3>5 DEF Overruns
  <2> QED
    BY <2>6, <2>7
<1> QED
  BY <1>4, <1>5, <1>6

\* A request that was parsed to what its client meant has that path, and can be freed.
LEMMA ParsedRight ==
  ASSUME Whole, ParsesOwnRequest, conn.request \in Requests
  PROVE  /\ conn.req.path = conn.request.path /\ conn.request.path # <<>>
         /\ ~req_free_Crashes(conn.req)
<1>1. ASSUME NEW q, NEW s, [conn.req EXCEPT !.query = q, !.params = s] = Meaning(conn.request)
      PROVE  /\ conn.req.path = conn.request.path /\ conn.req.body = BodyText(conn.request)
             /\ conn.req.parts = conn.request.parts
  BY <1>1 DEF Meaning
<1>2. Parsed(conn.req) = Meaning(conn.request)
  BY DEF ParsesOwnRequest
<1>3. /\ conn.req.path = conn.request.path /\ conn.req.body = BodyText(conn.request)
      /\ conn.req.parts = conn.request.parts
  BY <1>1, <1>2 DEF Parsed
<1> QED
  BY <1>3, RequestsAssumption DEF req_free_Crashes

\* ... and is answered by it.
LEMMA AnswerAnswers ==
  ASSUME DiskInv, FilesInv(conf.static_dir), ViewsInv(Len(Apps) + 1), HandsInv,
         UNCHANGED <<conf, routervars>>, Answer
  PROVE  /\ (ParsesOwnRequest => AnswersOwnPath)'
         /\ HandsInv' /\ stage' \in {"serve", "crashed"}
<1> DEFINE Made(answer, r, overrun) ==
             LET crash == answer.crash \/ r.crash \/ overrun
             IN /\ conn' = [conn EXCEPT !.answer = answer, !.crash = crash,
                                        !.page = IF r.crash THEN None ELSE r.page]
                /\ template' = r.of
                /\ stage' = IF crash THEN "crashed" ELSE "serve"
           Overrun(answer) == IF Overruns(answer) THEN BOOLEAN ELSE {FALSE}
           path == conn.request.path
<1>0. \E answer \in {router_handle(conn.req.path)} : \E r \in Rendered(answer) :
      \E overrun \in Overrun(answer) : Made(answer, r, overrun)
  BY Zenon DEF Answer
<1> HIDE DEF Made, Overrun
<1> DEFINE answer == router_handle(conn.req.path)
<1>1. PICK r \in Rendered(answer) : \E overrun \in Overrun(answer) : Made(answer, r, overrun)
  BY <1>0, Zenon
<1>2. PICK overrun \in Overrun(answer) : Made(answer, r, overrun)
  BY <1>1, Zenon
<1>3. conn # None /\ pending' = pending /\ conn.request \in Requests
  BY DEF Answer, InLog, HandsInv
<1>4. /\ DOMAIN conn' = DOMAIN conn
      /\ \A x \in DOMAIN conn \ {"answer", "page", "crash"} : conn'[x] = conn[x]
      /\ conn'.request = conn.request /\ conn'.req = conn.req /\ conn'.n = conn.n
      /\ conn'.answer = answer /\ conn'.crash = (answer.crash \/ r.crash \/ overrun)
  <2>1. {"answer", "page", "crash"} \subseteq DOMAIN conn
    BY <1>3 DEF HandsInv, Fields
  <2> DEFINE c == answer.crash \/ r.crash \/ overrun
             g == IF r.crash THEN None ELSE r.page
  <2>2. conn' = [conn EXCEPT !.answer = answer, !.crash = c, !.page = g]
    BY <1>2, Zenon DEF Made
  <2> HIDE DEF c, g, answer
  <2>3. /\ DOMAIN conn' = DOMAIN conn
        /\ \A x \in DOMAIN conn \ {"answer", "page", "crash"} : conn'[x] = conn[x]
        /\ conn'.answer = answer /\ conn'.crash = c
    BY <2>1, <2>2
  <2>4. conn'.request = conn.request /\ conn'.req = conn.req /\ conn'.n = conn.n
    BY <1>3, <2>3 DEF HandsInv, Fields
  <2> QED
    BY <2>3, <2>4, Zenon DEF c
<1>5. stage' \in {"serve", "crashed"}
  BY <1>2 DEF Made
<1>6. HandsInv'
  <2> HIDE DEF answer
  <2>1. conn'.request = conn.request /\ Fields \subseteq DOMAIN conn'
    BY <1>3, <1>4 DEF HandsInv
  <2> QED
    BY <1>3, <2>1 DEF HandsInv
<1>7. ASSUME Whole', ParsesOwnRequest'
      PROVE  AnswersOwnPath'
  <2> HIDE DEF answer
  <2>1. conn'.req = conn.req /\ conn'.request = conn.request /\ conn'.n = conn.n
    BY <1>4
  <2>2. Whole /\ ParsesOwnRequest
    BY <1>3, <1>7, <2>1 DEF Whole, ParsesOwnRequest
  <2>3. conn.req.path = path /\ path # <<>>
    BY <1>3, <2>2, ParsedRight
  <2>4. answer = router_handle(path)
    BY <2>3 DEF answer
  <2>5. /\ ViewsAt(path) # {} => answer.kind = "view" /\ answer.of[1] \in ViewsAt(path)
        /\ ViewsAt(path) = {} /\ FilesAt(path) = {} => answer = NotFound
        /\ ViewsAt(path) = {} =>
             \A n \in FilesAt(path) :
               (n \in unchanged /\ ~disk[n].dir /\ Len(g_file_list) < MAX_FILES
                  /\ disk[n].size \notin BIG - HEAD + 1 .. BIG) =>
                 /\ answer.kind \in {"file", "chunked"} /\ answer.of = n
                 /\ ~answer.crash /\ ~Overruns(answer)
                 /\ answer.bytes = disk[n].size
    BY <2>3, <2>4, RouterHandles
  <2>6. answer.kind # "view" => ~r.crash
    BY <1>1 DEF Rendered, IsView
  <2>7. answer.kind # "view" /\ ~answer.crash /\ ~Overruns(answer) => ~conn'.crash
    BY <1>2, <1>4, <2>6 DEF Overrun
  <2>8. answer = NotFound => answer.kind # "view" /\ ~answer.crash /\ ~Overruns(answer)
    BY DEF NotFound, Overruns
  <2>9. UNCHANGED <<disk, unchanged, g_file_list, conf>>
    BY DEF routervars
  <2>10. ViewsAt(path)' = ViewsAt(path) /\ FilesAt(path)' = FilesAt(path)
    BY <2>1, <2>9 DEF ViewsAt, FilesAt
  <2>11. conn'.answer = answer /\ conn'.request.path = path
    BY <1>4, <2>1
  <2> QED
    BY <2>5, <2>7, <2>8, <2>9, <2>10, <2>11 DEF AnswersOwnPath
<1>8. ~Whole' => AnswersOwnPath'
  BY DEF AnswersOwnPath
<1> QED
  BY <1>5, <1>6, <1>7, <1>8

\* The sends have returned: a request that was parsed to what its client meant is freed
\* without a crash.
LEMMA SentAnswers ==
  ASSUME HandsInv, ParsesOwnRequest => AnswersOwnPath, UNCHANGED <<conf, routervars>>, Sent
  PROVE  /\ (ParsesOwnRequest => AnswersOwnPath)'
         /\ HandsInv' /\ stage' \in {"serve", "crashed"}
<1> DEFINE crash == Frees(conn.answer) /\ req_free_Crashes(conn.req)
<1>1. /\ conn # None /\ pending' = pending /\ conn.request \in Requests
      /\ conn' = IF crash THEN [conn EXCEPT !.crash = TRUE] ELSE None
      /\ stage' \in {"serve", "crashed"}
  BY DEF Sent, InSend, HandsInv
<1> HIDE DEF crash
<1>2. CASE ~crash
  <2>1. conn' = None
    BY <1>1, <1>2
  <2> QED
    BY <1>1, <2>1 DEF HandsInv, AnswersOwnPath, Whole
<1>3. CASE crash
  <2>1. conn' = [conn EXCEPT !.crash = TRUE]
    BY <1>1, <1>3
  <2>2. /\ DOMAIN conn' = DOMAIN conn
        /\ \A x \in DOMAIN conn \ {"crash"} : conn'[x] = conn[x]
    BY <2>1
  <2>3. HandsInv'
    BY <1>1, <2>1, <2>2 DEF HandsInv
  <2>4. ASSUME Whole', ParsesOwnRequest'
        PROVE  FALSE
    <3>1. Whole /\ ParsesOwnRequest
      BY <1>1, <2>1, <2>4 DEF Whole, ParsesOwnRequest
    <3>2. ~req_free_Crashes(conn.req)
      BY <1>1, <3>1, ParsedRight
    <3> QED
      BY <1>3, <3>2 DEF crash
  <2> QED
    BY <1>1, <2>3, <2>4 DEF AnswersOwnPath
<1> QED
  BY <1>2, <1>3

\* A file that is written again or removed is no longer among the unchanged ones.
LEMMA DiskStepInv ==
  ASSUME HttpInv, DiskStep
  PROVE  HttpInv'
<1>1. PICK n \in DOMAIN disk : FileChanges(n)
  BY DEF DiskStep
<1>2. /\ stage = "serve" /\ UNCHANGED <<conf, stage, app, pending, conn, g_file_list, g_cmp>>
      /\ unchanged' = unchanged \ {n}
  BY <1>1 DEF DiskStep, FileChanges, confvars
<1>3. /\ DOMAIN disk' \subseteq DOMAIN disk /\ DOMAIN disk \ {n} \subseteq DOMAIN disk'
      /\ \A m \in DOMAIN disk \ {n} : disk'[m] = disk[m]
      /\ n \in DOMAIN disk' => disk'[n] \in [dir : BOOLEAN, size : Nat]
  <2>1. CASE disk' = [m \in DOMAIN disk \ {n} |-> disk[m]]
    BY <2>1
  <2>2. ASSUME NEW size \in Sizes, disk' = [disk EXCEPT ![n].size = size]
        PROVE  /\ DOMAIN disk' = DOMAIN disk
               /\ \A m \in DOMAIN disk \ {n} : disk'[m] = disk[m]
               /\ disk'[n] \in [dir : BOOLEAN, size : Nat]
    <3>1. disk[n] \in [dir : BOOLEAN, size : Nat] /\ size \in Nat
      BY RouterAssumption DEF HttpInv, DiskInv
    <3>2. disk'[n] = [disk[n] EXCEPT !.size = size]
      BY <2>2
    <3>3. DOMAIN disk' = DOMAIN disk /\ \A m \in DOMAIN disk \ {n} : disk'[m] = disk[m]
      BY <2>2
    <3> QED
      BY <3>1, <3>2, <3>3
  <2>3. \/ \E size \in Sizes : disk' = [disk EXCEPT ![n].size = size]
        \/ disk' = [m \in DOMAIN disk \ {n} |-> disk[m]]
    BY <1>1 DEF FileChanges
  <2> QED
    BY <2>1, <2>2, <2>3
<1>4. \A m \in unchanged' : m \in unchanged /\ m # n /\ m \in DOMAIN disk /\ disk'[m] = disk[m]
  BY <1>2, <1>3 DEF HttpInv, DiskInv
<1>5. DiskInv'
  <2>1. unchanged' \subseteq DOMAIN disk'
    BY <1>3, <1>4
  <2>2. DOMAIN disk' \subseteq UNION {DOMAIN d : d \in Disks}
    BY <1>3 DEF HttpInv, DiskInv
  <2>3. \A m \in DOMAIN disk' : disk'[m] \in [dir : BOOLEAN, size : Nat]
    BY <1>3 DEF HttpInv, DiskInv
  <2> QED
    BY <2>1, <2>2, <2>3 DEF DiskInv
<1>6. FilesInv(conf.static_dir) /\ ViewsInv(app) /\ app = Len(Apps) + 1
  BY <1>2 DEF HttpInv, StageInv
<1>7. FilesInv(conf.static_dir)' /\ ViewsInv(app)'
  <2>1. Found(disk', conf.static_dir) \subseteq Found(disk, conf.static_dir)
    BY <1>3 DEF Found
  <2>2. FilesInv(conf.static_dir)'
    BY <1>2, <1>4, <1>6, <2>1 DEF FilesInv
  <2>3. ViewsInv(app)'
    BY <1>2, <1>6 DEF ViewsInv
  <2> QED
    BY <2>2, <2>3
<1>8. StageInv'
  BY <1>2, <1>6, <1>7 DEF StageInv
<1>9. ParsesOwnRequest' => AnswersOwnPath'
  <2> SUFFICES ASSUME ParsesOwnRequest', Whole', InSend'
               PROVE  AnswersOwnPath'
    BY DEF AnswersOwnPath
  <2>1. Whole /\ ParsesOwnRequest /\ InSend
    BY <1>2 DEF Whole, ParsesOwnRequest, InSend
  <2>2. AnswersOwnPath
    BY <2>1 DEF HttpInv
  <2>3. \A path : ViewsAt(path)' = ViewsAt(path) /\ FilesAt(path)' = FilesAt(path)
    BY <1>2 DEF ViewsAt, FilesAt
  <2> QED
    BY <1>2, <1>4, <2>1, <2>2, <2>3 DEF AnswersOwnPath
<1>10. HandsInv'
  BY <1>2 DEF HttpInv, HandsInv
<1> QED
  BY <1>2, <1>5, <1>8, <1>9, <1>10 DEF HttpInv

\* A step that leaves the router, the configuration and the request in hand alone.
LEMMA Kept ==
  ASSUME UNCHANGED <<conf, disk, g_file_list, g_cmp, unchanged>>
  PROVE  /\ DiskInv' <=> DiskInv
         /\ FilesInv(conf.static_dir)' <=> FilesInv(conf.static_dir)
         /\ \A k : ViewsInv(k)' <=> ViewsInv(k)
         /\ conn' = conn => /\ ParsesOwnRequest' <=> ParsesOwnRequest
                            /\ AnswersOwnPath' <=> AnswersOwnPath
         /\ conn' = conn /\ pending' = pending => (HandsInv' <=> HandsInv)
<1>1. DiskInv' <=> DiskInv
  BY DEF DiskInv
<1>2. FilesInv(conf.static_dir)' <=> FilesInv(conf.static_dir)
  BY DEF FilesInv
<1>3. \A k : ViewsInv(k)' <=> ViewsInv(k)
  BY DEF ViewsInv
<1>4. conn' = conn => (ParsesOwnRequest' <=> ParsesOwnRequest)
  BY DEF ParsesOwnRequest, Whole
<1>5. conn' = conn => (AnswersOwnPath' <=> AnswersOwnPath)
  BY DEF AnswersOwnPath, Whole, InSend, ViewsAt, FilesAt
<1>6. conn' = conn /\ pending' = pending => (HandsInv' <=> HandsInv)
  BY DEF HandsInv
<1> QED
  BY <1>1, <1>2, <1>3, <1>4, <1>5, <1>6

LEMMA Idle ==
  ASSUME conn = None
  PROVE  AnswersOwnPath
BY DEF AnswersOwnPath, Whole

\* The steps of main.
LEMMA StartInv ==
  ASSUME HttpInv, Start
  PROVE  HttpInv'
<1>0. conn = None /\ disk \in Disks /\ unchanged = DOMAIN disk /\ UNCHANGED <<pending, conn>>
  BY DEF HttpInv, StageInv, Start, ConfStep, RouterStep, AppStep, container_start
<1>1. (ParsesOwnRequest => AnswersOwnPath)' /\ HandsInv'
  <2>1. AnswersOwnPath'
    BY <1>0, Idle DEF AnswersOwnPath, Whole
  <2> QED
    BY <1>0, <2>1 DEF HttpInv, HandsInv
<1>2. CASE ConfStep
  <2>1. /\ stage = "conf" /\ ConfNext /\ stage' \in {"conf", "router", "crashed"}
        /\ UNCHANGED <<disk, g_file_list, g_cmp, unchanged, app>>
    BY <1>2 DEF ConfStep, routervars
  <2>2. "static_dir" \in DOMAIN conf' /\ conf'.static_dir \in {<<>>, <<"static">>}
    <3>1. "static_dir" \in DOMAIN conf /\ conf.static_dir \in {<<>>, <<"static">>}
      BY DEF HttpInv
    <3>2. CASE conf_initLoad
      BY <3>1, <3>2 DEF conf_initLoad
    <3>3. CASE conf_initModel
      <4>1. ASSUME NEW name, NEW content, conf' = [conf EXCEPT !.model[name] = content]
            PROVE  DOMAIN conf' = DOMAIN conf /\ conf'.static_dir = conf.static_dir
        BY <3>1, <4>1
      <4> QED
        BY <3>1, <3>3, <4>1 DEF conf_initModel
    <3>4. CASE conf_initServer
      BY <3>1, <3>4 DEF conf_initServer
    <3> QED
      BY <2>1, <3>2, <3>3, <3>4 DEF ConfNext
  <2>3. DiskInv'
    BY <2>1 DEF HttpInv, DiskInv
  <2>4. StageInv' /\ app \in 1 .. Len(Apps) + 1 /\ app' = app
    BY <1>0, <2>1 DEF HttpInv, StageInv
  <2> QED
    BY <1>1, <2>2, <2>3, <2>4 DEF HttpInv
<1>3. CASE RouterStep
  <2>1. /\ stage = "router" /\ router_init(conf.static_dir) /\ stage' = "apps"
        /\ UNCHANGED <<conf, app>>
    BY <1>3 DEF RouterStep, confvars
  <2>2. conf.static_dir \in {<<>>, <<"static">>} /\ app = 1
    BY <2>1 DEF HttpInv, StageInv
  <2>3. FilesInv(conf.static_dir)' /\ g_cmp' = <<>> /\ disk' = disk /\ unchanged' = unchanged
    BY <1>0, <2>1, <2>2, RouterInitFiles DEF FilesInv
  <2>4. ViewsInv(1)'
    <3>1. Views(1) = {}
      BY DEF Views
    <3> QED
      BY <2>3, <3>1 DEF ViewsInv
  <2>5. DiskInv'
    BY <2>3 DEF HttpInv, DiskInv
  <2>6. StageInv'
    BY <1>0, <2>1, <2>2, <2>3, <2>4 DEF StageInv
  <2> QED
    BY <1>1, <2>1, <2>5, <2>6 DEF HttpInv
<1>4. CASE AppStep
  <2>1. /\ stage = "apps" /\ app <= Len(Apps) /\ router_add_app(Apps[app]) /\ app' = app + 1
        /\ UNCHANGED <<conf, stage, disk, g_file_list, unchanged>>
    BY <1>4 DEF AppStep, confvars, router_add_app
  <2>2. Len(Apps) \in Nat /\ DOMAIN Apps = 1 .. Len(Apps)
    BY RouterAssumption
  <2>3. app \in DOMAIN Apps /\ app + 1 \in 1 .. Len(Apps) + 1 /\ app \in Nat
    BY <2>1, <2>2 DEF HttpInv
  <2>4. ViewsInv(app)'
    <3>1. PICK k : k = app
      OBVIOUS
    <3>2. k \in DOMAIN Apps /\ ViewsInv(k) /\ router_add_app(Apps[k])
      BY <2>1, <2>3, <3>1 DEF HttpInv, StageInv
    <3>3. ViewsInv(k + 1)' /\ app' = k + 1
      BY <2>1, <3>1, <3>2, AddAppViews
    <3> QED
      BY <3>3
  <2>5. FilesInv(conf.static_dir)'
    BY <2>1 DEF HttpInv, StageInv, FilesInv
  <2>6. DiskInv'
    BY <2>1 DEF HttpInv, DiskInv
  <2>7. StageInv'
    BY <1>0, <2>1, <2>4, <2>5 DEF StageInv
  <2> QED
    BY <1>1, <2>1, <2>3, <2>6, <2>7 DEF HttpInv
<1>5. CASE container_start
  <2>1. /\ stage = "apps" /\ app > Len(Apps) /\ stage' = "serve"
        /\ UNCHANGED <<conf, disk, g_file_list, g_cmp, unchanged, app>>
    BY <1>5 DEF container_start, confvars, routervars
  <2>2. Len(Apps) \in Nat
    BY RouterAssumption
  <2>3. app = Len(Apps) + 1
    BY <2>1, <2>2 DEF HttpInv
  <2>4. DiskInv' /\ FilesInv(conf.static_dir)' /\ ViewsInv(app)'
    BY <2>1, Kept DEF HttpInv, StageInv
  <2>5. StageInv'
    BY <2>1, <2>3, <2>4 DEF StageInv
  <2> QED
    BY <1>1, <2>1, <2>4, <2>5 DEF HttpInv
<1> QED
  BY <1>2, <1>3, <1>4, <1>5 DEF Start

\* The steps that leave the router alone.
LEMMA ServeInv ==
  ASSUME HttpInv, UNCHANGED <<conf, disk, g_file_list, g_cmp, unchanged, app>>,
         stage = "serve" /\ stage' \in {"serve", "crashed"},
         HandsInv', (ParsesOwnRequest => AnswersOwnPath)'
  PROVE  HttpInv'
<1>1. DiskInv' /\ FilesInv(conf.static_dir)' /\ ViewsInv(app)'
  BY Kept DEF HttpInv, StageInv
<1>2. StageInv'
  BY <1>1 DEF HttpInv, StageInv
<1> QED
  BY <1>1, <1>2 DEF HttpInv

LEMMA HttpInitInv == Init => HttpInv
<1> SUFFICES ASSUME Init
             PROVE  HttpInv
  OBVIOUS
<1>1. /\ stage = "conf" /\ app = 1 /\ pending = None /\ conn = None
      /\ disk \in Disks /\ unchanged = DOMAIN disk
      /\ conf = [model |-> [n \in Known |-> ""], port |-> 0, static_dir |-> <<>>]
  BY DEF Init, ConfInit, RouterInit
<1>2. DiskInv
  BY <1>1, RouterAssumption DEF DiskInv
<1>3. StageInv
  BY <1>1 DEF StageInv
<1>4. app \in 1 .. Len(Apps) + 1
  <2>1. Len(Apps) \in Nat
    BY RouterAssumption
  <2>2. app = 1
    BY <1>1
  <2> QED
    BY ONLY <2>1, <2>2
<1>5. AnswersOwnPath
  BY <1>1, Idle
<1> QED
  BY <1>1, <1>2, <1>3, <1>4, <1>5 DEF HttpInv, HandsInv

LEMMA HttpStepInv == HttpInv /\ [Next]_vars => HttpInv'
<1> SUFFICES ASSUME HttpInv, [Next]_vars
             PROVE  HttpInv'
  OBVIOUS
<1>1. CASE Start
  BY <1>1, StartInv
<1>2. CASE Arrive
  <2>1. /\ stage = "serve" /\ \E r \in Requests : pending'.request = r
        /\ UNCHANGED <<conf, disk, g_file_list, g_cmp, unchanged, app, stage, conn>>
    BY <1>2 DEF Arrive, confvars, routervars
  <2>2. (ParsesOwnRequest => AnswersOwnPath)'
    BY <2>1, Kept DEF HttpInv
  <2>3. HandsInv'
    BY <2>1 DEF HttpInv, HandsInv
  <2> QED
    BY <2>1, <2>2, <2>3, ServeInv
<1>3. CASE DiskStep
  BY <1>3, DiskStepInv
<1>4. CASE WsClient \/ WsStep
  <2>1. /\ stage = "serve" /\ stage' \in {"serve", "crashed"}
        /\ UNCHANGED <<conf, disk, g_file_list, g_cmp, unchanged, app, pending, conn>>
    BY <1>4 DEF WsClient, WsStep, confvars, routervars, servevars
  <2>2. (ParsesOwnRequest => AnswersOwnPath)' /\ HandsInv'
    BY <2>1, Kept DEF HttpInv
  <2> QED
    BY <2>1, <2>2, ServeInv
<1>5. CASE epoll_handle
  <2>1. /\ stage = "serve" /\ pending # None /\ pending' = None
        /\ UNCHANGED <<conf, disk, g_file_list, g_cmp, unchanged, app>>
    BY <1>5 DEF epoll_handle, confvars, routervars
  <2> DEFINE Got(n, text, req, fault) ==
               /\ res_str' = text
               /\ conn' = [request |-> pending.request, n |-> n, req |-> req, answer |-> None,
                           page |-> <<>>, crash |-> fault]
               /\ stage' = IF fault THEN "crashed" ELSE "serve"
             Faults(req) == IF req.parts = Undefined THEN BOOLEAN ELSE {req.parts = NoBoundary}
  <2>2. \E n \in Cuts(pending) : \E text \in {recv(pending.text, n)} :
        \E m \in {mem, ZeroRequest} : \E req \in {req_parse_http(m, text)} :
        \E fault \in Faults(req) : Got(n, text, req, fault)
    BY <1>5, Zenon DEF epoll_handle
  <2> HIDE DEF Got, Faults
  <2>3. PICK n, text, req, fault : Got(n, text, req, fault)
    BY <2>2, Zenon
  <2>4. /\ conn' = [request |-> pending.request, n |-> n, req |-> req, answer |-> None,
                    page |-> <<>>, crash |-> fault]
        /\ stage' \in {"serve", "crashed"}
    BY <2>3 DEF Got
  <2>5. /\ conn'.request = pending.request /\ conn'.answer = None
        /\ Fields \subseteq DOMAIN conn'
    BY <2>4 DEF Fields
  <2>6. HandsInv'
    BY <2>1, <2>5 DEF HttpInv, HandsInv
  <2>7. AnswersOwnPath'
    BY <2>5 DEF AnswersOwnPath, InSend
  <2> QED
    BY <2>1, <2>4, <2>6, <2>7, ServeInv
<1>6. CASE Answer \/ Sent
  <2>1. stage = "serve" /\ UNCHANGED <<conf, routervars, app>>
    BY <1>6 DEF Answer, Sent, confvars
  <2>2. /\ DiskInv /\ FilesInv(conf.static_dir) /\ ViewsInv(Len(Apps) + 1) /\ HandsInv
        /\ ParsesOwnRequest => AnswersOwnPath
    BY <2>1 DEF HttpInv, StageInv
  <2>3. /\ (ParsesOwnRequest => AnswersOwnPath)'
        /\ HandsInv' /\ stage' \in {"serve", "crashed"}
    BY <1>6, <2>1, <2>2, AnswerAnswers, SentAnswers
  <2> QED
    BY <2>1, <2>3, ServeInv DEF routervars
<1>7. CASE UNCHANGED vars
  <2>1. UNCHANGED <<conf, disk, g_file_list, g_cmp, unchanged, app, stage, pending, conn>>
    BY <1>7 DEF vars, confvars, routervars, servevars
  <2>2. DiskInv' /\ (ParsesOwnRequest => AnswersOwnPath)' /\ HandsInv'
    BY <2>1, Kept DEF HttpInv
  <2>3. StageInv'
    BY <2>1, Kept DEF HttpInv, StageInv
  <2> QED
    BY <2>1, <2>2, <2>3 DEF HttpInv
<1> QED
  BY <1>1, <1>2, <1>3, <1>4, <1>5, <1>6, <1>7 DEF Next

(***************************************************************************)
(* AnswersOwnPath, of every request the parser got right: whatever the     *)
(* configuration, the files and their sizes, the order in which readdir    *)
(* gives them, the apps, and whatever changes on the disk while the server *)
(* runs, router_handle answers a request that arrived whole by its own     *)
(* path (router_init, router_add_app, router_handle, res_static,           *)
(* res_file_handle).  That the parser gets it right is what                *)
(* ParsesOwnRequest says of it.                                            *)
(***************************************************************************)
THEOREM HttpAnswersOwnPath == Spec => [](ParsesOwnRequest => AnswersOwnPath)
<1>1. HttpInv => (ParsesOwnRequest => AnswersOwnPath)
  BY DEF HttpInv
<1> QED
  BY <1>1, HttpInitInv, HttpStepInv, PTL DEF Spec
=============================================================================

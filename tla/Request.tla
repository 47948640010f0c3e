------------------------------ MODULE Request -------------------------------
(***************************************************************************)
(* The request parser (Src/request.c, with the map of                      *)
(* Src/utility/dm_map.c).                                                  *)
(*                                                                         *)
(* A text is a sequence of tokens: punctuation, one character each, and    *)
(* words, which stand for three or more other characters.  Both parsers    *)
(* are loops over the characters with a state, the string temp that is     *)
(* being collected and the flag write; here they are functions of the      *)
(* tokens passed so far.  A word behaves like its characters: where the    *)
(* code drops the first of them, the word is Cut.  Lengths are counted in  *)
(* tokens.                                                                 *)
(*                                                                         *)
(* request_t comes from malloc and is not cleared: what the parser does    *)
(* not set is left over from the request that used the memory before.      *)
(***************************************************************************)
EXTENDS Integers, Sequences, SequencesExt, TLC

CONSTANT HTTP_BODY_MAX

ASSUME BodyAssumption == HTTP_BODY_MAX \in Nat

Punctuation == {" ", "/", "?", "=", "&", ":", ";", "-", "\"", "CR", "LF"}
IsWord(tok) == tok \notin Punctuation
Capital == {"GET", "POST", "DELETE", "HTTP", "Host", "Content-Length", "Content-Type",
            "Content-Disposition", "Sec-WebSocket-Key"}
Cut(word) == "cut " \o word

\* A pointer or an array that nothing was stored in.
Undefined == <<"undefined">>

\* Parts whose boundary was looked for and is not there: a null pointer was followed.
NoBoundary == <<"no boundary">>

\* Op(x), where TLC evaluates x only once.
Once(Op(_), x) == CHOOSE y \in {Op(v) : v \in {x}} : TRUE

\* What a loop makes of x: Op(x, i) for i from 1 to n.  By tens, so that TLC recurses less
\* deep.
Loop(Op(_, _), x, n) ==
  LET Till(b) == IF 10 * b < n THEN 10 * b ELSE n
      Ten(y, b) ==
        LET pass[i \in Till(b - 1) .. Till(b)] ==
              IF i = Till(b - 1) THEN y ELSE Once(LAMBDA z : Op(z, i), pass[i - 1])
        IN pass[Till(b)]
      tens[b \in 0 .. (n \div 10) + 1] ==
        IF b = 0 THEN x ELSE Once(LAMBDA y : Ten(y, b), tens[b - 1])
  IN tens[(n \div 10) + 1]

\* The token at i of a text, and NUL after its end.
Tok(text, i) == IF i <= Len(text) THEN text[i] ELSE "NUL"
Slice(text, i, len) == SubSeq(text \o [k \in 1 .. i + len |-> "NUL"], i, i + len - 1)
EndsLine(text, i) == Tok(text, i) = "CR" /\ Tok(text, i + 1) = "LF"

\* atoi of a number that is a token.
atoi(s) ==
  IF \E n \in 0 .. HTTP_BODY_MAX + 1 : <<ToString(n)>> = s
  THEN CHOOSE n \in 0 .. HTTP_BODY_MAX + 1 : <<ToString(n)>> = s ELSE 0
-----------------------------------------------------------------------------
(* The map: a bucket is a list with the newest node first, and nodes with  *)
(* equal keys share a bucket, so a map is such a list.                     *)

hashmap_insert(map, key, value) == <<[key |-> key, value |-> value]>> \o map

Has(map, key) == \E i \in DOMAIN map : map[i].key = key

hashmap_get(map, key) == map[SelectInSeq(map, LAMBDA node : node.key = key)].value
-----------------------------------------------------------------------------
(* req_parse_multi_part *)

NoPart == [dis |-> Undefined, name |-> Undefined, filename |-> Undefined, data |-> <<>>]

MultiStart == [st |-> "10", write |-> 0, temp |-> <<>>, parts |-> <<>>, mul_num |-> -1,
               which |-> "none", k |-> <<>>, end |-> FALSE]

\* The part that is being parsed, with field f set to temp.
SetPart(m, f, v) == [m EXCEPT !.parts[m.mul_num + 1][f] = v]

\* One pass of the switch: the state and the flag write.
MultiCase(m, text, i, boundary) ==
  LET p == text[i]
      q == Tok(text, i + 1)
      Go(st) == [m EXCEPT !.st = st]
      Write(w) == [m EXCEPT !.write = w]
  IN
  CASE m.st = "10" -> IF p = "-" /\ q = "-" THEN [Go("11") EXCEPT !.mul_num = @ + 1] ELSE m
    [] m.st = "11" ->
         IF p = "-" /\ q = "-" THEN [Go("1") EXCEPT !.mul_num = @ - 1, !.write = 0]
         ELSE IF p = "CR" /\ q = "LF" THEN [Go("90") EXCEPT !.write = 0]
         ELSE Write(IF p = "-" THEN 0 ELSE 1)
    [] m.st = "20" -> IF p = ":" THEN [Go("21") EXCEPT !.write = 0]
                      ELSE Write(IF p = "LF" THEN 0 ELSE 1)
    [] m.st = "21" -> IF p = ";" THEN [SetPart(Go("22"), "dis", m.temp) EXCEPT !.write = 0]
                      ELSE Write(IF p = " " THEN 0 ELSE 1)
    [] m.st = "22" ->
         IF p = "=" /\ q = "\""
         THEN [Go("235") EXCEPT !.write = 0,
                 !.which = IF m.temp = <<"name">> THEN "name"
                           ELSE IF m.temp = <<"filename">> THEN "filename" ELSE @]
         ELSE Write(IF p = " " THEN 0 ELSE 1)
    [] m.st = "235" -> Go("23")
    [] m.st = "23" ->
         IF p = "\""
         THEN [IF m.which = "none" THEN Go("24") ELSE SetPart(Go("24"), m.which, m.temp)
                 EXCEPT !.write = 0]
         ELSE Write(1)
    [] m.st = "24" -> IF p = ";" THEN Go("22")
                      ELSE IF p = "CR" /\ q = "LF" THEN Go("25") ELSE m
    [] m.st = "25" -> Go("26")
    [] m.st = "26" -> IF IsWord(p) THEN [Go("28") EXCEPT !.write = 2] ELSE Go("27")
    [] m.st = "27" -> IF IsWord(p) THEN [Go("28") EXCEPT !.write = 2] ELSE Go("28")
    [] m.st = "28" ->
         IF p = "CR" /\ q = "LF" /\ Slice(text, i + 4, Len(boundary)) = boundary
         THEN [Go("10") EXCEPT !.write = 3] ELSE Write(2)

\* The rest of a pass: the boundary of a new part is compared, and the token
\* goes to the part's data or to temp.
MultiStep(m, text, i, boundary) ==
  LET n == MultiCase(m, text, i, boundary)
      c == IF n.st # "90" THEN n
           ELSE IF m.temp # boundary THEN [n EXCEPT !.end = TRUE]
           ELSE [n EXCEPT !.st = "20", !.parts = Append(@, NoPart)]
      token == IF m.st \in {"26", "27"} /\ IsWord(text[i]) THEN Cut(text[i]) ELSE text[i]
  IN
  IF c.end THEN c
  ELSE [CASE c.write = 2 -> [c EXCEPT !.k = Append(@, token)]
          [] c.write = 1 -> [c EXCEPT !.temp = Append(@, token)]
          [] c.write = 3 -> [SetPart(c, "data", c.k) EXCEPT !.k = <<>>, !.write = 0]
          [] c.write = 0 -> [c EXCEPT !.temp = <<>>]
        EXCEPT !.end = (c.st = "1")]

\* The parts.  Undefined: the loop does not stop at the end of the body, and where it stops
\* at a wrong boundary it counts a part that it did not make.
req_parse_multi_part(body, boundary) ==
  LET m == Loop(LAMBDA x, i : IF x.end THEN x ELSE MultiStep(x, body, i, boundary),
                MultiStart, Len(body))
  IN IF ~m.end \/ m.mul_num >= Len(m.parts) THEN Undefined
     ELSE SubSeq(m.parts, 1, m.mul_num + 1)
-----------------------------------------------------------------------------
(* req_parse_http *)

IsMultipart(cts) == \E k \in DOMAIN cts : cts[k] = "multipart/form-data"

\* A boundary is what follows "boundary=" in the value of Content-Type, if there is one.
HasBoundary(cts) == \E k \in 1 .. Len(cts) - 1 : cts[k] = "boundary" /\ cts[k + 1] = "="
Boundary(cts) ==
  LET at == CHOOSE k \in 1 .. Len(cts) - 1 :
              /\ cts[k] = "boundary" /\ cts[k + 1] = "="
              /\ \A j \in 1 .. k - 1 : ~(cts[j] = "boundary" /\ cts[j + 1] = "=")
  IN SubSeq(cts, at + 2, Len(cts))

\* req_parse_init on a request_t: new maps; req_parse_http clears the parts.
req_parse_init(mem) == [mem EXCEPT !.query = <<>>, !.params = <<>>, !.parts = <<>>]

HttpStart(mem) == [st |-> "START", write |-> 0, temp |-> <<>>, key |-> <<>>,
                   req |-> req_parse_init(mem), done |-> FALSE, body |-> 0]

\* Mutant: the body is taken to the end of the buffer.
CopyBody_ToTheEnd(text, i, len) == SubSeq(text, i, Len(text))

\* memcpy of len characters from the buffer; behind the text it holds NUL.
CopyBody(text, i, len) == Slice(text, i, len)

\* The state PARSE_BODY at the first character behind the empty line.
ParseBody(req, text, i) ==
  LET cl == <<"Content-Length">>
      ct == <<"Content-Type">>
      len == atoi(hashmap_get(req.params, cl))
      r == IF Has(req.params, cl) /\ len <= HTTP_BODY_MAX
           THEN [req EXCEPT !.body = CopyBody(text, i, len)] ELSE req
  IN IF Has(r.params, ct) /\ IsMultipart(hashmap_get(r.params, ct))
     THEN [r EXCEPT !.parts = IF HasBoundary(hashmap_get(r.params, ct))
                              THEN req_parse_multi_part(r.body, Boundary(hashmap_get(r.params, ct)))
                              ELSE NoBoundary]
     ELSE r

\* One pass of the switch.
HttpCase(h, text, i) ==
  LET p == text[i]
      eol == EndsLine(text, i)
      Go(st, w) == [h EXCEPT !.st = st, !.write = w]
      Set(f, st) == [Go(st, 0) EXCEPT !.req[f] = h.temp]
      Insert(f, st) == [Go(st, 0) EXCEPT !.req[f] = hashmap_insert(@, h.key, h.temp)]
  IN
  CASE h.st = "START" -> IF p \in {"GET", "POST", "PUT"} THEN Go("METHOD", 1)
                         ELSE Go("INVALID", h.write)
    [] h.st = "METHOD" -> IF p = " " THEN Set("method", "PATH_START") ELSE h
    [] h.st = "PATH_START" -> IF p = "/" THEN Go("PATH", 1) ELSE Go("INVALID", h.write)
    [] h.st = "PATH" -> IF p = "?" THEN Set("path", "QUERY_START")
                        ELSE IF p = " " THEN Set("path", "PV_START") ELSE h
    [] h.st = "QUERY_START" ->
         IF p = "=" THEN [Go("QUERY_TEMP", 0) EXCEPT !.key = h.temp]
         ELSE Go(IF Tok(text, i + 1) = " " THEN "INVALID" ELSE "QUERY_START", 1)
    [] h.st = "QUERY_TEMP" -> IF p = "&" THEN Insert("query", "QUERY_START")
                              ELSE IF p = " " THEN Insert("query", "PV_START")
                              ELSE Go("QUERY_TEMP", 1)
    [] h.st = "PV_START" -> IF p = "/" THEN Set("protocol", "PV_TEMP") ELSE Go("PV_START", 1)
    [] h.st = "PV_TEMP" -> IF eol THEN Set("version", "PARAM_START") ELSE Go("PV_TEMP", 1)
    [] h.st = "PARAM_START" -> Go("PARAM1", h.write)
    [] h.st = "PARAM1" ->
         IF p = ":" THEN [Go("PARAM2", 0) EXCEPT !.key = h.temp]
         ELSE IF eol THEN Go("BODY_START", h.write)
         ELSE Go("PARAM1", IF p \in Capital THEN 1 ELSE h.write)
    [] h.st = "PARAM2" -> Go("PARAM3", IF IsWord(p) THEN 1 ELSE h.write)
    [] h.st = "PARAM3" -> IF eol THEN Insert("params", "PARAM_START") ELSE Go("PARAM3", 1)
    [] h.st = "BODY_START" ->
         IF h.req.method = <<"POST">> THEN Go("BODY", h.write)
         ELSE [h EXCEPT !.done = TRUE, !.req.body = <<>>]
    [] h.st = "BODY" -> [h EXCEPT !.done = TRUE, !.body = i]
    [] h.st = "INVALID" -> h

HttpStep(h, text, i) ==
  LET c == HttpCase(h, text, i)
      token == IF h.st = "PARAM2" THEN Cut(text[i]) ELSE text[i]
  IN [c EXCEPT !.temp = IF c.write = 1 THEN Append(@, token) ELSE <<>>]

\* The request that the parser makes of a text in the memory mem; the body is its last state.
req_parse_http(mem, text) ==
  LET h == Loop(LAMBDA x, i : IF x.done THEN x ELSE HttpStep(x, text, i),
                HttpStart(mem), Len(text))
  IN IF h.body = 0 THEN h.req ELSE ParseBody(h.req, text, h.body)
-----------------------------------------------------------------------------
(* The reference: what a client writes for a request, and what the request *)
(* means.  A request is a record of method, path, query and headers (pairs *)
(* of key and value), the tokens of a body, and, if boundary is not <<>>,  *)
(* the parts the body is made of.                                          *)

NL == <<"CR", "LF">>

QueryText(query) ==
  FlattenSeq([i \in DOMAIN query |->
    <<IF i = 1 THEN "?" ELSE "&">> \o query[i].key \o <<"=">> \o query[i].value])

HeaderText(headers) ==
  FlattenSeq([i \in DOMAIN headers |->
    headers[i].key \o <<":", " ">> \o headers[i].value \o NL])

Quoted(name, value) == <<";", " ", name, "=", "\"">> \o value \o <<"\"">>

PartText(part, boundary) ==
  <<"-", "-">> \o boundary \o NL \o <<"Content-Disposition", ":", " ">> \o part.dis
    \o Quoted("name", part.name)
    \o (IF part.filename = NoPart.filename THEN <<>> ELSE Quoted("filename", part.filename))
    \o NL \o NL \o part.data \o NL

BodyText(r) ==
  IF r.boundary = <<>> THEN r.body
  ELSE FlattenSeq([i \in DOMAIN r.parts |-> PartText(r.parts[i], r.boundary)])
         \o <<"-", "-">> \o r.boundary \o <<"-", "-">> \o NL

HeadText(r) ==
  <<r.method, " ">> \o r.path \o QueryText(r.query) \o <<" ", "HTTP", "/", "1.1">> \o NL
    \o HeaderText(r.headers) \o NL

Text(r) == HeadText(r) \o BodyText(r)

\* The last value of every key.
LastOf(pairs) ==
  [k \in {pairs[i].key : i \in DOMAIN pairs} |->
     pairs[SelectLastInSeq(pairs, LAMBDA e : e.key = k)].value]

Meaning(r) ==
  [method |-> <<r.method>>, path |-> r.path, protocol |-> <<"HTTP">>, version |-> <<"1.1">>,
   query |-> LastOf(r.query), params |-> LastOf(r.headers), body |-> BodyText(r),
   parts |-> r.parts]

\* A parsed request, its maps as the functions hashmap_get makes of them.
Parsed(req) ==
  LET Map(map) == [k \in {map[i].key : i \in DOMAIN map} |-> hashmap_get(map, k)]
  IN [req EXCEPT !.query = Map(@), !.params = Map(@)]

\* The requests the parser is made for: a method it knows, pairs in the query, header
\* names that begin with a capital letter, values that are not empty, and for POST a body
\* of the announced length within HTTP_BODY_MAX whose boundary is the announced one and has
\* no "-" anywhere: one clears what was collected of the boundary before it.  A multipart
\* Content-Type without a boundary is not among them.
Supported(r) ==
  /\ r.method \in {"GET", "POST"}
  /\ \A i \in DOMAIN r.query : r.query[i].key # <<>> /\ r.query[i].value # <<>>
  /\ \A i \in DOMAIN r.headers : r.headers[i].key[1] \in Capital /\ r.headers[i].value # <<>>
  /\ IF r.method = "GET" THEN BodyText(r) = <<>>
     ELSE /\ BodyText(r) # <<>> /\ Len(BodyText(r)) <= HTTP_BODY_MAX
          /\ Has(r.headers, <<"Content-Length">>)
          /\ LastOf(r.headers)[<<"Content-Length">>] = <<ToString(Len(BodyText(r)))>>
          /\ (/\ Has(r.headers, <<"Content-Type">>)
              /\ IsMultipart(LastOf(r.headers)[<<"Content-Type">>])) => r.boundary # <<>>
          /\ r.boundary # <<>> =>
               /\ \A i \in DOMAIN r.boundary : r.boundary[i] # "-"
               /\ HasBoundary(LastOf(r.headers)[<<"Content-Type">>])
               /\ Boundary(LastOf(r.headers)[<<"Content-Type">>]) = r.boundary
=============================================================================

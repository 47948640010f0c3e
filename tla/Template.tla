------------------------------ MODULE Template ------------------------------
(***************************************************************************)
(* Templates (Src/template.c): parse_context copies a template and puts    *)
(* values in the place of its marks.                                       *)
(*                                                                         *)
(*   [#name#]           the value of name (type 1)                         *)
(*   [@name@inner@]     what the view's function makes of inner (type 2),  *)
(*                      or inner once for every element of a list, with    *)
(*                      the element in the place of {{item}} (type 3)      *)
(*                                                                         *)
(* A template is a sequence of tokens: the marks "[#", "#]", "[@", "@",    *)
(* "@]" and "{{item}}", and text.  temp is an array that is only cleared   *)
(* up to TEMP_CLEARED.                                                     *)
(***************************************************************************)
EXTENDS Integers, Sequences, SequencesExt

CONSTANT TEMP_CLEARED

ASSUME TemplateAssumption == TEMP_CLEARED \in Nat

Find(s, tok) == SelectInSeq(s, LAMBDA t : t = tok)

\* A string in an array ends before its first NUL.
Str(array) == IF Find(array, "NUL") = 0 THEN array ELSE SubSeq(array, 1, Find(array, "NUL") - 1)

ParseStart == [state |-> 0, temp |-> <<>>, temp_pos |-> 0, parsed |-> <<>>, result |-> <<>>,
               crash |-> FALSE]

\* Mutant: nothing of the array is cleared.
ClearTemp_Nothing(m) == [m EXCEPT !.temp_pos = 0]

\* The array is cleared, but not all of it.
ClearTemp(m) ==
  [m EXCEPT !.temp_pos = 0,
            !.temp = [i \in DOMAIN @ |-> IF i <= TEMP_CLEARED THEN "NUL" ELSE @[i]]]

WriteTemp(m, tok) ==
  [m EXCEPT !.temp_pos = @ + 1,
            !.temp = IF m.temp_pos < Len(@) THEN [@ EXCEPT ![m.temp_pos + 1] = tok]
                     ELSE Append(@, tok)]

\* parse_dec appends to tt, which is never cleared.
parse_dec(tt, dec, inner) ==
  LET at == Find(inner, "{{item}}")
  IN tt \o FlattenSeq([i \in DOMAIN dec |->
       SubSeq(inner, 1, at - 1) \o dec[i] \o SubSeq(inner, at + 1, Len(inner))])

\* The end of [#name#]: the value of every pair of that name and type 1.
Value(m, kv) ==
  [m EXCEPT !.result = @ \o FlattenSeq([n \in DOMAIN kv |->
     IF kv[n].key = Str(m.temp) /\ kv[n].type = 1 THEN kv[n].value ELSE <<>>])]

\* One pair at the end of [@name@inner@].  The view's function copies its input.
BlockPair(b, pair, name) ==
  IF pair.key # name \/ pair.type = 1 \/ b.crash THEN b
  ELSE IF pair.type = 3 /\ Find(b.block, "{{item}}") = 0 THEN [b EXCEPT !.crash = TRUE]
  ELSE LET parsed == IF pair.type = 2 THEN b.block
                     ELSE parse_dec(b.parsed, pair.dec, b.block)
       IN [b EXCEPT !.parsed = parsed, !.result = @ \o parsed, !.block = <<>>]

Block(m, kv) ==
  LET temp == Str(m.temp)
      start == Find(temp, "@")
      b == FoldLeft(LAMBDA a, pair : BlockPair(a, pair, SubSeq(temp, 1, start - 1)),
                    [parsed |-> m.parsed, result |-> m.result, crash |-> FALSE,
                     block |-> SubSeq(temp, start + 1, Len(temp))], kv)
  IN IF start = 0 THEN [m EXCEPT !.crash = TRUE]
     ELSE [m EXCEPT !.parsed = b.parsed, !.result = b.result, !.crash = b.crash,
                    !.temp[start] = "NUL"]

\* One token: a mark of two characters is passed in two rounds of the loop.
ContextStep(m, tok, kv) ==
  CASE m.crash -> m
    [] ~m.crash /\ m.state = 0 ->
         IF tok = "[#" THEN [m EXCEPT !.state = 1]
         ELSE IF tok = "[@" THEN [m EXCEPT !.state = 2] ELSE [m EXCEPT !.result = Append(@, tok)]
    [] ~m.crash /\ m.state = 1 ->
         IF tok = "#]" THEN [ClearTemp(Value(m, kv)) EXCEPT !.state = 0] ELSE WriteTemp(m, tok)
    [] ~m.crash /\ m.state = 2 ->
         IF tok = "@]" THEN [ClearTemp(Block(m, kv)) EXCEPT !.state = 0] ELSE WriteTemp(m, tok)

\* The page, and whether a null pointer was followed on the way.
parse_context(context, kv) ==
  LET m == FoldLeft(LAMBDA a, tok : CHOOSE r \in {ContextStep(v, tok, kv) : v \in {a}} : TRUE,
                    ParseStart, context)
  IN [page |-> m.result, crash |-> m.crash]
-----------------------------------------------------------------------------
(* The reference.  A template is a sequence of segments: text, or a mark   *)
(* with a name and, for a block, the text inside.                          *)

SegmentText(g) ==
  CASE g.kind = "text" -> g.inner
    [] g.kind = "value" -> <<"[#">> \o g.name \o <<"#]">>
    [] g.kind = "block" -> <<"[@">> \o g.name \o <<"@">> \o g.inner \o <<"@]">>

TemplateText(t) == FlattenSeq([i \in DOMAIN t |-> SegmentText(t[i])])

\* The pair of a name; the views give every name once.
Named(name, kv) == \E n \in DOMAIN kv : kv[n].key = name
PairOf(name, kv) == kv[SelectInSeq(kv, LAMBDA p : p.key = name)]

\* inner for one element of a list.
ForItem(inner, item) ==
  FlattenSeq([i \in DOMAIN inner |-> IF inner[i] = "{{item}}" THEN item ELSE <<inner[i]>>])

SegmentPage(g, kv) ==
  IF g.kind = "text" THEN g.inner
  ELSE IF ~Named(g.name, kv) THEN <<>>
  ELSE LET p == PairOf(g.name, kv)
       IN CASE g.kind = "value" /\ p.type = 1 -> p.value
            [] g.kind = "block" /\ p.type = 2 -> g.inner
            [] g.kind = "block" /\ p.type = 3 ->
                 FlattenSeq([n \in DOMAIN p.dec |-> ForItem(g.inner, p.dec[n])])
            [] OTHER -> <<>>

TemplatePage(t, kv) == FlattenSeq([i \in DOMAIN t |-> SegmentPage(t[i], kv)])

IsList(g, kv) == g.kind = "block" /\ Named(g.name, kv) /\ PairOf(g.name, kv).type = 3

\* The number of tokens a segment writes to temp.
TempLen(g) == IF g.kind = "text" THEN 0 ELSE Len(SegmentText(g)) - 2

\* The templates parse_context is made for: every list has one {{item}} and is the first
\* block of the template, and a mark that fills the cleared part of temp follows no longer
\* one.
Clean(t, kv) ==
  \A j \in DOMAIN t :
    /\ IsList(t[j], kv) =>
         /\ Len(SelectSeq(t[j].inner, LAMBDA tok : tok = "{{item}}")) = 1
         /\ \A i \in 1 .. j - 1 : t[i].kind # "block"
    /\ TempLen(t[j]) >= TEMP_CLEARED => \A i \in 1 .. j - 1 : TempLen(t[i]) <= TempLen(t[j])
=============================================================================

------------------------------- MODULE MCHttp -------------------------------
(***************************************************************************)
(* Documents, files, apps, templates and requests for TLC: of each kind    *)
(* the ones the code is made for and the ones that take another way        *)
(* through it.                                                             *)
(***************************************************************************)
EXTENDS Http

\* Documents: none, one without model, one whose model is empty, one with a comment, a
\* complete one with a second port.
Child(name, content) == [name |-> name, content |-> content]
Doc(root, model, children) == [root |-> root, model |-> model, children |-> children]
MCDocs ==
  {NoDoc, Doc("dmfserver", FALSE, <<>>), Doc("dmfserver", TRUE, <<>>),
   Doc("dmfserver", TRUE, <<Child("host", "h"), Child("comment", "")>>),
   Doc("dmfserver", TRUE, <<Child("host", "h"), Child("port", "1"), Child("username", "u"),
                            Child("password", "p"), Child("port", "2")>>)}

\* Files: one that is small or as large as a small one may be, and a big one in a directory.
MCCwd == <<"/", "srv">>
File(n) == <<"static", "/">> \o n
SmallFile == File(<<"a">>)
SubDir == File(<<"d">>)
BigFile == File(<<"d", "/", "c">>)
Dir == [dir |-> TRUE, size |-> 0]
Plain(size) == [dir |-> FALSE, size |-> size]
Disk(size) ==
  <<"static">> :> Dir @@ SmallFile :> Plain(size) @@ SubDir :> Dir @@ BigFile :> Plain(6)
MCDisks == {Disk(size) : size \in {3, BIG}}

App(name, key, cf) == [name |-> name, keys |-> <<key>>, cf |-> <<cf>>]
MCApps == <<App("other", "string", "string"), App("apptemp", "template", "template"),
            App("ws", "ws", "wsfunc")>>

\* Templates of two segments.
Pair(key, type, value, dec) == [key |-> <<key>>, type |-> type, value |-> value, dec |-> dec]
MCKv == <<Pair("name", 1, <<"Dmfserver">>, <<>>), Pair("myfunction", 2, <<>>, <<>>),
          Pair("dec1", 3, <<>>, <<<<"Apache">>, <<"Nginx">>>>)>>
Seg(kind, name, inner) == [kind |-> kind, name |-> <<name>>, inner |-> inner]
Unknown == [kind |-> "value", name |-> <<"un", "known">>, inner |-> <<>>]
Func == Seg("block", "myfunction", <<"x", "y", "z">>)
List == Seg("block", "dec1", <<"{{item}}", "y">>)
Name == Seg("value", "name", <<>>)
MCTemplates ==
  {<<g, h>> : g \in {Name, Unknown, Func, List}, h \in {Func, List}}
  \union {<<Unknown, Name>>, <<Seg("text", "", <<"x">>), Seg("block", "dec1", <<"y">>)>>}

\* Requests.
Header(key, value) == [key |-> <<key>>, value |-> value]
Get(path, query, headers) ==
  [method |-> "GET", path |-> path, query |-> query, headers |-> headers, body |-> <<>>,
   boundary |-> <<>>, parts |-> <<>>]
Length(n) == Header("Content-Length", <<n>>)
Post(n, body) ==
  [Get(<<"/", "other", "/", "string">>, <<>>, <<Length(n)>>) EXCEPT !.method = "POST", !.body = body]
Form(name, filename, tokens) ==
  [dis |-> <<"form-data">>, name |-> name, filename |-> filename, data |-> tokens]
TwoParts == <<Form(<<"f">>, <<"x">>, <<"one", "-", "two">>), Form(<<"g">>, Undefined, <<"three">>)>>
Upload(boundary, announced, n) ==
  [Post(n, <<>>) EXCEPT
     !.headers = @ \o <<Header("Content-Type", <<"multipart/form-data", ";", " ", "boundary", "=">>
                                                \o announced)>>,
     !.boundary = boundary, !.parts = TwoParts]
View1 == <<"/", "other", "/", "string">>
Good ==
  {Get(View1, <<[key |-> <<"k">>, value |-> <<"v">>], [key |-> <<"k">>, value |-> <<"w">>]>>,
       <<Header("Host", <<"h">>)>>),
   Get(<<"/", "none">>, <<>>, <<>>),
   Get(<<"/", "apptemp", "/", "template">>, <<>>, <<>>),
   Get(<<"/", "ws", "/", "ws">>, <<>>, <<Header("Sec-WebSocket-Key", <<"key">>)>>),
   Get(MCCwd \o <<"/">> \o SmallFile, <<>>, <<>>),
   Get(MCCwd \o <<"/">> \o BigFile, <<>>, <<>>),
   Post("2", <<"one", "two">>),
   Upload(<<"sep">>, <<"sep">>, "62")}
Odd ==
  {[Get(View1, <<>>, <<>>) EXCEPT !.method = "DELETE"],
   Get(View1, <<[key |-> <<"k">>, value |-> <<>>]>>, <<[key |-> <<"host">>, value |-> <<"h">>]>>),
   Get(MCCwd \o <<"/">> \o SubDir, <<>>, <<>>),
   Post("0", <<>>), Post("81", <<"one">>), Upload(<<"a", "-", "b">>, <<"a", "-", "b">>, "68"),
   Upload(<<"sep">>, <<"other">>, "62"),
   [Post("2", <<"one", "two">>) EXCEPT
      !.headers = @ \o <<Header("Content-Type", <<"multipart/form-data">>)>>]}
MCRequests == Good \union Odd

\* Frames of a client: one that closes with a status, and one without, which is taken for a
\* message.
MCFrames == {<<136, 130, 1, 2, 3, 4, 3, 232>>, <<136, 128, 1, 2, 3, 4>>}
=============================================================================

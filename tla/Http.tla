-------------------------------- MODULE Http --------------------------------
(***************************************************************************)
(* The web server from main (Src/main.c) to an answer: the configuration   *)
(* is read, the router is filled, and then the only thread of the epoll    *)
(* server (epoll_handle, Src/container.c) receives a request, parses it,   *)
(* routes it and sends what the view or the file gives (Src/response.c).   *)
(* Between recv and the route it is in log_info, which waits while the     *)
(* buffer of the log is full (module Log), and the answer goes to a        *)
(* blocking socket: either may hold the thread, for ever.                  *)
(*                                                                         *)
(* Accepting, several connections, and zero bytes or an error from recv    *)
(* are the matter of module Epoll; here a request is one recv, of all the  *)
(* client wrote or of the part that had arrived.  The buffer res_str is    *)
(* never cleared, and a request_t has what is left in its memory.          *)
(***************************************************************************)
EXTENDS Conf, Request, Template, Router, Ws

CONSTANTS
  Requests,      \* what a client may ask
  Templates,     \* what the file of the template may hold
  Kv,            \* the pairs the view gives to res_render
  MaxEvents,     \* the bound on requests and changes of files
  None

\* Every request has a path, and none says Undefined.
ASSUME RequestsAssumption ==
  \A r \in Requests : r.path # <<>> /\ BodyText(r) # Undefined /\ r.parts # Undefined

VARIABLES
  stage,         \* "conf", "router", "apps", "serve" or "crashed"
  app,           \* the app that main adds next
  events,        \* the requests and the changes of files so far
  pending,       \* a request that waits on a connection, with its text, or None
  res_str,       \* the receive buffer
  mem,           \* the memory of the last request_t that was freed
  template,      \* the cached template, or None
  conn           \* the request in the thread's hands: received, parsed, and its answer; or None

servevars == <<stage, app, events, pending, res_str, mem, template, conn>>
vars == <<confvars, routervars, wsvars, servevars>>

ZeroRequest == [method |-> <<>>, path |-> <<>>, protocol |-> <<>>, version |-> <<>>,
                query |-> <<>>, params |-> <<>>, body |-> <<>>, parts |-> <<>>]

Init ==
  /\ ConfInit /\ RouterInit /\ WsInit
  /\ stage = "conf" /\ app = 1 /\ events = 0 /\ pending = None
  /\ res_str = <<>> /\ mem = ZeroRequest /\ template = None /\ conn = None
-----------------------------------------------------------------------------
(* main: conf_init, router_init, the apps, container_start. *)

ConfStep ==
  /\ stage = "conf" /\ ConfNext
  /\ stage' = CASE confpc' = "done" -> "router"
                [] confpc' = "crashed" -> "crashed"
                [] OTHER -> stage
  /\ UNCHANGED <<routervars, wsvars, app, events, pending, res_str, mem, template, conn>>

RouterStep ==
  /\ stage = "router" /\ router_init(conf.static_dir)
  /\ stage' = "apps"
  /\ UNCHANGED <<confvars, wsvars, app, events, pending, res_str, mem, template, conn>>

AppStep ==
  /\ stage = "apps" /\ app <= Len(Apps) /\ router_add_app(Apps[app])
  /\ app' = app + 1
  /\ UNCHANGED <<confvars, wsvars, stage, events, pending, res_str, mem, template, conn>>

container_start ==
  /\ stage = "apps" /\ app > Len(Apps)
  /\ stage' = "serve"
  /\ UNCHANGED <<confvars, routervars, wsvars, app, events, pending, res_str, mem, template, conn>>

Start == ConfStep \/ RouterStep \/ AppStep \/ container_start
-----------------------------------------------------------------------------
(* What happens outside the server. *)

Arrive ==
  /\ stage = "serve" /\ pending = None /\ events < MaxEvents
  /\ \E r \in Requests :
       pending' = [request |-> r, text |-> Text(r), head |-> Len(HeadText(r))]
  /\ events' = events + 1
  /\ UNCHANGED <<confvars, routervars, wsvars, stage, app, res_str, mem, template, conn>>

DiskStep ==
  /\ stage = "serve" /\ events < MaxEvents
  /\ \E n \in DOMAIN disk : FileChanges(n)
  /\ events' = events + 1
  /\ UNCHANGED <<confvars, wsvars, stage, app, pending, res_str, mem, template, conn>>

WsClient ==
  /\ stage = "serve" /\ (ClientSends \/ ClientLeaves)
  /\ UNCHANGED <<confvars, routervars, servevars>>
-----------------------------------------------------------------------------
(* The thread: epoll_handle, router_handle and the sends. *)

\* The parts of a text that may have arrived: up to the path, half of it, without the body,
\* all of it.
Cuts(p) == {Len(p.request.path) + 2, Len(p.text) \div 2, p.head, Len(p.text)}

\* recv overwrites the beginning of the buffer and nothing else.
recv(text, n) == SubSeq(text, 1, n) \o SubSeq(res_str, n + 1, Len(res_str))

IsView(answer, cf) == answer.kind = "view" /\ answer.of = <<cf>>

\* The answers after which the request is freed: the WebSocket view and res_file_handle
\* close the socket and free nothing.
Frees(answer) == ~IsView(answer, "wsfunc") /\ answer.kind # "chunked"

\* req_free on what nothing was stored in.
req_free_Crashes(req) == req.body = Undefined \/ req.parts = Undefined

\* res_render.  template_init has read the template at the start; nothing looks at it before,
\* so it is chosen when it is first rendered.
Rendered(answer) ==
  IF ~IsView(answer, "template") THEN {[of |-> template, page |-> <<>>, crash |-> FALSE]}
  ELSE UNION {{[of |-> t, page |-> p.page, crash |-> p.crash] :
                 p \in {parse_context(TemplateText(t), Kv)}} :
              t \in (IF template = None THEN Templates ELSE {template})}

\* A request that waits is received and parsed, in new memory or in that of the last one, up
\* to log_info.  The loop over parts that misses its end may fault as well as stop.
epoll_handle ==
  /\ stage = "serve" /\ ~reading /\ conn = None /\ pending # None
  /\ \E n \in Cuts(pending) : \E text \in {recv(pending.text, n)} :
     \E m \in {mem, ZeroRequest} : \E req \in {req_parse_http(m, text)} :
     \E fault \in (IF req.parts = Undefined THEN BOOLEAN ELSE {req.parts = NoBoundary}) :
       /\ res_str' = text
       /\ conn' = [request |-> pending.request, n |-> n, req |-> req, answer |-> None,
                   page |-> <<>>, crash |-> fault]
       /\ stage' = IF fault THEN "crashed" ELSE "serve"
  /\ pending' = None
  /\ UNCHANGED <<confvars, routervars, wsvars, app, events, mem, template>>

InLog == conn # None /\ conn.answer = None
InSend == conn # None /\ conn.answer # None

\* log_info has returned: the answer is found and made, up to its sends.  A big file is read
\* here, not chunk by chunk between them: one that changes meanwhile is not unchanged.
Answer ==
  /\ stage = "serve" /\ InLog
  /\ \E answer \in {router_handle(conn.req.path)} : \E r \in Rendered(answer) :
     \E overrun \in (IF Overruns(answer) THEN BOOLEAN ELSE {FALSE}) :
       LET crash == answer.crash \/ r.crash \/ overrun
       IN /\ conn' = [conn EXCEPT !.answer = answer, !.crash = crash,
                                  !.page = IF r.crash THEN None ELSE r.page]
          /\ template' = r.of
          /\ stage' = IF crash THEN "crashed" ELSE "serve"
  /\ UNCHANGED <<confvars, routervars, wsvars, app, events, pending, res_str, mem>>

\* The sends have returned: the request is freed, or the loop over frames begins.
Sent ==
  /\ stage = "serve" /\ InSend
  /\ LET crash == Frees(conn.answer) /\ req_free_Crashes(conn.req)
     IN /\ conn' = IF crash THEN [conn EXCEPT !.crash = TRUE] ELSE None
        /\ stage' = IF crash THEN "crashed" ELSE "serve"
  /\ mem' = IF Frees(conn.answer) THEN [conn.req EXCEPT !.body = Undefined] ELSE mem
  /\ IF IsView(conn.answer, "wsfunc") THEN upto_ws_prot ELSE UNCHANGED wsvars
  /\ UNCHANGED <<confvars, routervars, app, events, pending, res_str, template>>

\* The same thread in the loop of the WebSocket view.
WsStep ==
  /\ stage = "serve" /\ WsThread
  /\ stage' = IF killed' THEN "crashed" ELSE stage
  /\ UNCHANGED <<confvars, routervars, app, events, pending, res_str, mem, template, conn>>

Next == Start \/ Arrive \/ DiskStep \/ WsClient \/ epoll_handle \/ Answer \/ Sent \/ WsStep

(***************************************************************************)
(* main runs on while it can, and so does the thread where nobody holds    *)
(* it: when it is back in its loop, and in the loop over frames once the   *)
(* client has left, when recv and send return at once.  Nothing is assumed *)
(* of log_info, of sends and of clients.  Receives is epoll_handle as far  *)
(* as fairness sees it: the same guards, and no other step takes what is   *)
(* pending.                                                                *)
(***************************************************************************)
Receives ==
  stage = "serve" /\ ~reading /\ conn = None /\ pending # None /\ pending' = None

Spec ==
  /\ Init /\ [][Next]_vars
  /\ WF_vars(Start) /\ WF_pending(Receives) /\ WF_vars(peer # "open" /\ WsStep)
-----------------------------------------------------------------------------
(* Properties *)

\* Enough has arrived: all of the text, and the parser has been told to expect no more.
Whole ==
  /\ conn # None
  /\ Supported(conn.request) /\ conn.n = Len(Text(conn.request))

(***************************************************************************)
(* Whatever request, half a request or crash of a view came before, and    *)
(* whatever it left in the receive buffer and in the memory of its         *)
(* request_t: a supported request that arrived whole is parsed to what the *)
(* client meant (method, path, the last value of every query key and       *)
(* header, body and parts), and nothing of another request                 *)
(* (req_parse_http, req_parse_multi_part, hashmap_get).                    *)
(***************************************************************************)
ParsesOwnRequest == Whole => Parsed(conn.req) = Meaning(conn.request)

\* The files of the static directory that have this path.
FilesAt(path) ==
  {n \in UNION {DOMAIN d : d \in Disks} :
     /\ Path(conf.static_dir, n) = path
     /\ IsPrefix(conf.static_dir, n) /\ n # conf.static_dir}

\* The view an app adds under a path.
ViewsAt(path) ==
  UNION {{ViewsOf(Apps[a])[i].cf : i \in {j \in DOMAIN ViewsOf(Apps[a]) :
                                            ViewsOf(Apps[a])[j].key = path}} :
         a \in DOMAIN Apps}

(***************************************************************************)
(* A request that arrived whole gets the answer of its path: the view that *)
(* some app added under it, whichever app came first; else the file of the *)
(* static directory, all of its bytes, when the file has not changed since *)
(* the start, the table had room for all files and the string it is sent   *)
(* in has room for its head; and 404 when there is neither (router_init,   *)
(* router_add_app, router_handle, res_static and res_file_handle).         *)
(***************************************************************************)
AnswersOwnPath ==
  (Whole /\ InSend) =>
    LET path == conn.request.path
        answer == conn.answer
        files == FilesAt(path)
    IN CASE ViewsAt(path) # {} -> answer.kind = "view" /\ answer.of[1] \in ViewsAt(path)
         [] ViewsAt(path) = {} /\ files = {} -> answer = NotFound /\ ~conn.crash
         [] OTHER -> \A n \in files :
              (n \in unchanged /\ ~disk[n].dir /\ Len(g_file_list) < MAX_FILES
                 /\ disk[n].size \notin BIG - HEAD + 1 .. BIG) =>
                /\ answer.kind \in {"file", "chunked"} /\ answer.of = n
                /\ ~conn.crash
                /\ answer.bytes = disk[n].size

(***************************************************************************)
(* A template that keeps to what parse_context is made for gives the page  *)
(* it describes: every mark is replaced by its value, by the view's        *)
(* function of the text inside, or by that text for every element of the   *)
(* list, and nothing of an earlier mark is left in temp or parsed_str      *)
(* (parse_context, parse_dec).                                             *)
(***************************************************************************)
RendersTemplate ==
  (InSend /\ IsView(conn.answer, "template") /\ Clean(template, Kv)) =>
    conn.page = TemplatePage(template, Kv)

(***************************************************************************)
(* With a configuration that conf_init can get through the server comes to *)
(* serve, knows the database settings the document gives, each by its last *)
(* element (conf_init, main).                                              *)
(***************************************************************************)
StartupEnds ==
  Readable => <>(stage = "serve" /\ (HasRoot => conf.model = [n \in Known |-> Says(n)]))

(***************************************************************************)
(* The thread is in a call that somebody else must end: log_info, a send,  *)
(* the recv and the send of the loop over frames of a client that is there.*)
(***************************************************************************)
Held == conn # None \/ (reading /\ peer = "open")

(***************************************************************************)
(* A request that waits is received, unless the process dies: if nobody    *)
(* holds the one thread for ever, what it finds when it is free again, a   *)
(* connection that was cut, the end of a stream or what is left in data,   *)
(* never keeps it from the next request (epoll_handle, upto_ws_prot).      *)
(***************************************************************************)
RequestsServed ==
  []<>~Held => ((pending # None) ~> (pending = None \/ stage = "crashed"))
=============================================================================

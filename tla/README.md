# A TLA+ model of the Dmf framework

Dmf is a web server framework in C. Views (C functions) are registered under
paths; a *container* accepts connections, reads one request from each, lets the
*middleware* look at it, and calls the view, which answers and thereby closes
the connection. On Windows the container runs several threads on a completion
port, on Linux one thread on epoll. Around it the framework has pools (MySQL
connections, memory blocks, threads), an asynchronous log, sessions in memory, a
cache in shared memory with a server of its own, a request limit, templates, a
configuration file, WebSockets, and a master process.

Paths below are relative to `src/`.

## 1. Inventory

| component | source | state | operations | interacts with |
|---|---|---|---|---|
| MySQL connection pool | `Src/cpool.c`, callers in `Src/model.c`, `Src/testviews/mysql.c` | list of idle connections, `free_connections`, `is_idle_block`, mutex, condition | init, get, get-or-block, release, destroy, execute query | views on server threads; MySQL (external) |
| memory pool | `Src/mpool.c` | array of blocks in a list, `count`, mutex, condition | init, alloc, free | connection objects (`Src/connection.c`), where `__SERVER_MPOOL__` is defined |
| thread pool | `Src/utility/dm_thread_pool.c` | task list, thread list, `shutdown`, mutex, condition | create, add task, worker loop, destroy, is-empty | its owner; pthreads (external) |
| asynchronous log | `Src/log.c` | ring of records that is used as a stack of slots, count, one mutex, one condition | write, log thread | every component that logs |
| epoll server | `Src/container.c`, `connection.c`, `response.c` | descriptors, epoll registrations, connection objects, batch of events, receive buffer | wait, accept, receive, respond | clients; views; parser, router |
| IOCP server | the same files, `Src/middleware/middleware.c` | handles, connection objects, pending receives, completion port, threads | accept, dequeue, middleware, view, close, free | clients; views; request limit |
| request limit | `Src/mdb/mdb_operate.c`, `Src/middleware` | table of counters with a window of 60 seconds, named mutex | check | IOCP server |
| request parser | `Src/request.c`, `Src/utility/dm_map.c` | the receive buffer; a `request_t` in memory that is not cleared | parse request, parse multipart body, free | servers, views |
| router table, file answers | `Src/router.c`, `response.c` | files found at start, views of the apps | init, add app, look up, send a file | servers; file system |
| WebSocket view | `Src/ws.c` | one connection, its array of received bytes | handshake, loop over frames | epoll server, whose thread it keeps |
| templates | `Src/template.c` | the template read at start; two arrays during a rendering | render | views |
| configuration | `Src/conf/conf.c` | the settings | read `conf.xml` | main; libxml2 (external) |
| session table | `Src/session.c`, `Src/testviews/session.c` | 512 chains of sessions, each a chain of data with a time | create, add, update, get | views on server threads |
| shared cache | `Src/mdb/mdb_operate.c`, again in `mdbserver.c` | table of 512 slots, named mutex | find, insert | web server and cache server processes |
| cache server | `Src/mdb/mdbserver.c` | connections with a login status, completion port, threads | accept, login, insert, find, next | cache clients; shared cache |
| master process | `Src/master.c` | in every process: pids of workers, loop index, flag set by a signal | start, check and restart, shut down | worker processes; kernel (external) |
| blocking queue and stack | `Src/utility/dm_queue.c`, `dm_stack.c` | linked list or array, mutex, condition | enqueue, dequeue; push, pop, top; destroy | threads of their tests |
| timer | `Src/utility/dm_timer.c` | binary heap of events | add, handle events (polled) | the program that polls; callbacks |
| allocator `elr_mpl` | `Src/elr_mpl` | tree of pools, slices | only `elr_mpl_init` is called | main |
| SSL and simple containers, tokens and encodings, cache client, demo views, other utilities | `Src/container.c`, `Src/middleware/jwt_token.c`, `Src/utility`, `Src/testviews` | little or none | see section 7 | |

**What is hard here.** Threads wait on condition variables after an `if` instead
of in a loop, signal only when a counter says that someone waits, or share one
condition between threads that wait for different things (pools, log, stack).
Objects are freed by the response and again by an error path, while another
thread may already have been given the same handle and address (IOCP). One batch
of events holds pointers to objects that earlier events of the batch free
(epoll). The session table and the value of a cache entry are used without a
lock; the request limit reads its clock outside its lock. The cache server posts
the next receive before it has noted the result of a login, and its process may
die with the shared mutex held. Buffers, request objects and the arrays of a
rendering are not cleared between uses. Files change after their sizes were
noted. The master's workers, signals and forks meet in any order, with pids that
come back. `PROJECT.json` lists each such hazard with its line and the properties
that watch it.

**What makes each part correct.**

* Pools: a resource has one owner; a freed or destroyed one is not used; the
  counters are exact; no wakeup is lost, so an idle resource and a waiting thread
  do not stay side by side.
* Thread pool: each accepted task is taken once, in order; the pool outlives its
  threads; destruction returns and, after polling, drops nothing.
* Log: lines and accepted records add up; lines keep their order; the log thread
  is woken.
* Servers: kernel, registrations and objects agree; no stale event; each
  connection in one hand, closed by its own handler; objects are freed; requests
  are answered; only requests that come too often are refused.
* Parser, router, templates: the result is what this request, this path, this
  template means, whatever earlier ones left in memory.
* Configuration: the server comes to serve with the settings the file gives.
* Session table: the chains are a map in spite of concurrent calls.
* Cache: what a find returns was inserted under its key; only clients that logged
  in are served; none is forgotten.
* Master: every worker is known, a dead one is replaced, none is left after a
  shutdown.
* Queue, stack, timer: elements are kept, once and in order; calls return; timers
  run in order, none early, none never.

## 2. Modules

| module | models | extends or instantiates |
|---|---|---|
| `ResourcePool` | what a pool promises: resources are made, lent to one client, taken back, destroyed | |
| `CPool` | MySQL connection pool with its three callers | `ResourcePool` |
| `MPool` | memory pool used by connections | `ResourcePool` |
| `ThreadPool` | thread pool, owner and workers | |
| `Log` | writers and log thread | |
| `Epoll` | Linux server: connections, descriptors, events | |
| `IpLimit` | request limit, one slot, several threads | |
| `Iocp` | Windows server, composed with the request limit | `IpLimit` |
| `Request`, `Conf`, `Template`, `Router`, `Ws` | parser, configuration, templates, router and file answers, WebSocket view | |
| `Http` | the Linux server from `main` to an answer: the five modules above composed | all five |
| `SessionStore` | what the session table promises: a map | |
| `Session` | session table, threads, one pointer at a time | `SessionStore` |
| `Mdb` | one slot of the shared cache, threads of two processes | |
| `MdbServer` | cache server; it composes `Mdb` with connections and workers, and the views of the web server that use the same slot | `Mdb` |
| `Master` | master process and its workers | |
| `Containers` | blocking queue and stack with the threads that use them | |
| `Timer` | timers | |
| `EpollProofs`, `SessionProofs` | proofs about the module of that name | that module |
| `PoolsProofs` | proofs about the two pools | `CPool`, `MPool` |
| `UtilityProofs` | proofs about queue, stack, timer and master process | `Containers`, `Timer`, `Master` |
| `HttpProofs` | proofs about the router and the answers with files | `Http` |
| `ThreadsProofs` | proofs about the thread pool and the log | `ThreadPool`, `Log` |
| `IocpProofs` | proofs about `Iocp` and its request limit | `Iocp` |
| `MdbServerProofs` | proofs about the cache server and the shared cache | `MdbServer` |

`MC...` modules and `.cfg` files give the constants their values. Three of them
hold parts that share nothing, to be checked in one run: `MCPools` (`CPool` or
`MPool`), `MCThreads` (`ThreadPool` or `Log`) and `MCUtility` (`Containers`, `Timer`
or `Master`). A variable `job`, chosen at the start, says which part a behaviour is
about; the other parts stay as they begin, and the fairness of a part is assumed
of its own steps only. Nothing is composed there, and nothing is claimed of the
parts together.

### Conventions

Definitions have the names of the functions they model, variables those of the
fields. Everything between lock and unlock is one action; `pthread_cond_wait`
ends one action and returning from it begins another, so a thread has the
control states `waiting` (asleep) and `woken` (signalled, but not yet holding the
mutex again; others may run first). Waits may end without a signal; `CPool` and
`ThreadPool` have a constant that forbids it, for `cpool_block`. Code without a
lock is split at each read or write of shared state.
Undefined behaviour (freed memory, joining a thread that was never made) is a
choice between what the build may do: going on, or a process that is killed
(`crashed`). Variables marked *history* only serve properties. Definitions
marked *Mutant* are plausible mistakes in the definition after them; each
property fails when one of them takes that definition's place.

The type invariant of a module is a conjunct of one of its invariants, the one
that needs it: `BlockNotForgotten`, `FirstInFirstOut`, `LinesInOrder`,
`ConnectionTable`, `OneCompletion`, `GotIsCurrent`, `OneReceiver`,
`WorkersRegistered`. That of `CPool` is only a theorem.

### CPool

`mysql_list` is the list as a sequence, `live` the connections that exist,
`caller[t]` which code thread `t` runs: `mysql_execute_query`, `exe_sql`, the view
`mysqltest` or a bare `get_mysql_connection`. `get_mysql_connection_block` takes a
connection, or counts itself in `is_idle_block` and sleeps; `AfterWait` is the rest of
that function. `ReturnWithoutConn`, `ReturnConn`, `ExeSqlQueryError` and `Fault`
are the ways callers go on: without a connection, by releasing it, by returning
from a failed query without releasing it (`model.c:64`), or by using NULL.
`destroy_mysql_pool` runs at any moment, as `main` allows. `ResourcePool` sees idle
connections as free and `conn[t]` as lent.

### MPool

`Blocks` follows from `total_size` and `block_size` as in `pool_init`; `used` flags
make `Free`. `pool_alloc` tests `count` once before its wait. `pool_free` of a pointer
that is not a block (what a failed `pool_alloc` leaves) is `FreeInvalidPointer`. The
pool is off as delivered: the definition of `__SERVER_MPOOL__` in `cfg.h` is
commented out.

### ThreadPool

The owner creates (each `malloc` and `pthread_create` may fail, and then calls
destroy on what there is), adds tasks, may poll `is_thread_pool_empty`, destroys,
joins, frees. Workers take the head of the list or sleep. Joining a thread that
was never created is undefined: it may return, crash or never return.

### Log

Writers and the log thread share `log_buffer`, `log_buffer_count`, one mutex and one
condition. A record is its serial number. The log thread prints slot 0 and
decrements the count, as the code does: the records above are not moved. Whole
lines may thus repeat and others never appear; the model keeps that, and the
properties state what holds in spite of it.

### Epoll

One thread runs `epoll_handle` (each of the four threads is joined before the next
is started). A connection with its parts is one object at an address; `fdtab` is
the kernel's table, `epoll` the registered pointers, `events` the rest of the batch.
`at` says where the thread is and `conn` what it handles there. `HandleEvent` is
`recv` with its three outcomes and the parser, up to `log_info`, which waits while
the buffer of the log is full; when `recv` returns 0 the buffer still holds an earlier
request and that is served, as in the code. `router_handle` is what comes after
`log_info`: it chooses the way to answer. The sends go to a blocking socket, so each
way is a step of its own that happens when they return: `res_handle` (close and
free, both twice when send fails), `res_file_handle` (closes, does not free) or
`upto_ws_prot`, which keeps the only thread in its loop (`WsFrame`, `WsEnd`). `Held` names
the places where the thread may stay for ever. What is in a request is not modelled
here but in `Http`.

### IpLimit and Iocp

`IpLimit` is one slot of the table, `time_start` and `request_num`, and the clock. A
check is two steps, `ReadTime` before the mutex and `Check` under it, with every
thread's own `curr_time` between them. In `Iocp` the middleware of a worker takes
these two steps for each request, and a refusal leads to the code that answers it.
The acceptor takes free handles and addresses, also ones freed a moment ago; a
freed object keeps its contents until it is reused. Workers take completions; `pc[w]`
then goes through the middleware, `log_info` and the answer, of which there are the
same three as in `Epoll`, or to the answer of a refusal; `log_info`, a send and the
loop of a WebSocket may each hold the worker (`Held`). What is left to close and free
afterwards is the worker's `todo` list; a refused request and a failed send put a
second close and free on it. `twice` records that a worker set out to do so. The
parser (`Dequeue`), `req_free` and a second free may fault, which ends the process.

### Request

A text is a sequence of tokens: one for each punctuation character and one for
each word. Both parsers are loops over characters with a state, a string `temp` that
is being collected and a flag that says whether to collect; they are translated
state for state (`HttpCase`, `MultiCase`) as functions of the number of tokens
passed. Where the code loses the first character of a word, the model has the word
*cut*. The parser works on the whole receive buffer, of which a receive overwrites
only the beginning, and in the memory of an earlier `request_t`: fields that the
parser does not set keep what is there. `Text` is what a client writes for a
request, `Meaning` what it means by it, `Supported` which requests the parser is
made for. A body of `multipart` whose header names no boundary is the value `NoBoundary`:
the null pointer of `strstr` is dereferenced, and `Http` ends the process.

### Conf, Router, Template, Ws

`Conf` walks over the nodes that libxml2 returns. An unknown child of `model` is met
with `else continue`, without going on to the next node: the loop never ends, which
in the model is a state without steps. When `model` has no children, a pointer that
was never set is released at the end, which may fault.

`Router` has the table `g_file_list` of the files found at start, in the orders
that `traverse_directory` and `readdir` can give, `g_cmp` for the views, and the file
system `disk`, which changes while the server runs. A file's content is its size;
`bytes` of an answer is how much of it the client gets. `res_static` sends the size
noted at start, together with the head, from one string (`Overruns`);
`res_file_handle` sends the chunks of the file as it is.

`Template` copies `parse_context` with its two arrays: `temp`, cleared up to 64
characters, and `parsed`, never cleared. `TemplatePage` is the reference. The file is
read once at start; as nothing looks at the template before the first rendering,
`Http` chooses it there.

`Ws` is the loop of `upto_ws_prot` over a byte stream that a receive cuts at the
places of `Splits`, with the array `data` that keeps what earlier receives left, the
error -1 that becomes the largest `size_t`, and the signal that a send to a lost
client raises. A client that has closed may still answer with a reset.

### Http

`Start` is `main` up to `container_start`: one step of `Conf` after the other, then
`router_init`, then each app. Afterwards clients write requests (`Arrive`), files
change (`DiskStep`), and the only thread receives all or a part of a text and
parses it, in new memory or that of the last request (`epoll_handle`). From then on
`conn` is the request in its hands. When `log_info` returns, the answer is found and
made (`Answer`: routing, rendering, reading the file), and when the sends return the
request is freed (`Sent`), or the loop over the frames of a WebSocket client begins
(`WsStep`). A big file is read in one step, not chunk by chunk between the sends; for
one that changes meanwhile nothing is claimed.

### Session and SessionStore

Chains are extended only at the head and their tails never change, so a chain is
a sequence of nodes and a position in it the rest of the sequence. Writers read a
head in one step (`SessionCreate`, `AddFound`) and write it in another (`Publish`,
`AddLink`); a walk takes one step for each node (`NextNode`). `UpdateSessionData` frees
the old value in one step and stores the new one in another; `getSession` returns a
pointer that the view reads later (`GetRead`). `raced` is set when a head changed
between read and write, when a value is freed while another thread uses it, or
when a writer was *overtaken*: a session with the same code, or a datum of the same
name, was put before the place that it is about to write to. Such a writer's value
is hidden from every later call, but a `getSession` that was already past the new
head still finds it. The
code string of a session is a function of minute plus second (`get_random_str`).
`SessionAll` only prints and `DeleteSessionData` does nothing.

### Mdb and MdbServer

`mdb_insert` holds the mutex from its first write to its last (`WriteEnd`); during
that time the value is `Torn` for readers without the mutex. When the file cannot be
mapped it does nothing, and its caller says "insert ok" all the same. `mdb_find` compares
the key under the mutex and copies the value after releasing it (`Copy`). When the
cache server dies, its mutex is given to the next waiter and the slot stays as it
is. `MdbServer` adds clients whose messages may run together, the acceptor, the
port, and the threads of `ProcessIO`; `next` is two actions, `Post` and `SetStatus`.
`overtaken` records that a client was rejected by one thread while another was still
about to note its login.

### Master

Every process runs the same program with its own copy of the variables, so a
process is a record: its place in the program, the loop's `i` and `pid`, `worker[]` and
`is_running2`. `Fork` copies the record. `waitpid` has its three results, and takes 0
for "any child", `kill` takes 0 for the whole group, as the slots of a failed fork
make them do. `signal_handle` happens between any two steps of the daemon, also
in the launching process before `daemonize`. A worker
may die or return from its function at any time; one of the first workers then
goes on in `start_worker`'s loop as a second master. A pid that no live or unreaped
process has is given out again.

### Containers, Timer

Threads of the queue's or the stack's test share one object; the stack has also a
thread that looks at its top. An operation is one step when it need not wait.
`queue_enqueue` may fail to get a node, and then says nothing. The queue's `tail` is
not reset when it empties, and freed nodes are handed out again.

The timer's heap is an array as in the code; `min_heap_push` and `min_heap_pop` give
the array after the code's loops. `handle_events` reads the clock once and then runs
one callback after the other, each of which may add a timer, while time goes on.
No more timers are made than the heap has places (`MAX_EVENTS`): a push into a full one
would write behind the array.

## 3. Runs

| run | question | bounds |
|---|---|---|
| `pools` | connections: safety, refinement of `ResourcePool`, no thread left asleep beside an idle connection; blocks: no lost wakeup | 3 threads, 2 connections, all callers; 5 clients, 2 blocks (7 bytes in blocks of 3); spurious wakeups |
| `cpool_block` (violation) | "if empty, block" (`cpool.c:145`): the blocking call returns NULL | 3 threads, 2 connections, no spurious wakeup |
| `threads` | thread pool: order, single execution, lifetime, draining, termination; log: exact count, order, wakeup of the log thread | 3 workers, 3 tasks, failing creation; 3 writers, 3 slots, 6 records |
| `log_blocked` (violation) | "while the buffer is full, wait" (`log.c:95`): the waiting writer is never woken | 1 writer, 1 slot |
| `epoll` | table, events, whose request is answered, answers | 3 clients, 2 descriptors, 2 addresses, all routes, failing sends |
| `epoll_full` | objects left behind, also when there are more clients than descriptors and accepts fail until memory is used up | 2 clients, 1 descriptor, 3 addresses |
| `iocp` | one handler, one completion, refusals, answers | 2 clients, 2 threads, 2 handles, 2 addresses, all routes, 1 abort; limit 1 in a window of 2, clock from 2 to 4 |
| `iocp_refuse` (violation) | a response closes *this* connection (`response.c:25`): after a refusal another client's is closed | the same, one route, no aborts, clock to 2 |
| `session` | the chains are a map, gets are current | 3 threads (symmetric), 4 calls, 1 name, 2 codes in one bucket |
| `mdb_server` | login, hand-over, pairs | 2 clients with 2 messages each, 2 threads, 1 view, 2 keys in one slot, 1 address |
| `http` | from the configuration to answers: parsing, routing, files, templates, WebSocket, answers to all | 5 documents, 16 requests, 10 templates, 2 files in 2 directories, 3 apps; 2 requests or file changes; 2 frames |
| `utility` | queue and stack: elements, joins; timer: order, all run; master: registration, restart, shutdown | 2 producers, 1 consumer, 1 viewer, 3 nodes, capacities 1 and 3; 4 timers, clock to 3; 2 workers, 4 pids |

Why the bounds suffice to be worth something: every race needs a thread that
sleeps, one that is woken and one that overtakes it (3 threads for `CPool`, more
connections than blocks for `MPool`, producers, consumer and viewer on one
stack); there are as many tasks as workers so that either runs out first; the log
has more records than slots; the servers have fewer descriptors, handles or
addresses than clients over time, so all are reused while somebody may still
refer to them (in `epoll` the addresses run out together with the descriptors, so an
accept without a descriptor is the matter of `epoll_full`); a limit of 1 makes the second request within the window a refused
one, and the clock passes a whole window; in `session` both codes meet in one
bucket, four calls allow two creations, an addition and an update or a lookup in
every overlap, and the third thread is the reader that is on its way while one
writer overtakes the other; in `mdb_server` one address makes every new client reuse the memory
of the last, and two keys meet in the slot. In `http` an earlier request or change
acts on a later one through the receive buffer, the memory of the request and the
file system, so two events are one that leaves something behind and one that is
judged; a receive gives all of a text, half of it, its head, or less than its path;
files are smaller than, as large as and larger than the 1 MB of the code (`BIG`), of
which the head takes 1 (`HEAD`), and a multiple of a chunk (`BUFFER`) or not; marks
are shorter and longer than the cleared part of `temp`. The request body's limit is
80 tokens, above and below which the announced lengths lie. In `utility` 4 pids for
the daemon and 2 workers leave one to spare, so a pid comes back only after a
death; 4 timers make a heap of three levels. All bounds are constants; the guards
that use them are marked in the modules.

`CHECK_DEADLOCK FALSE` is set everywhere because each system may stop: clients and
callers need not call again, bounded histories end, and processes die.

**Properties that are qualified.** Some promises hold only until the code has done
a thing that has no defined outcome or is known to lose an update, or only of
inputs the code is made for, and say so:

* `OneHandler` (until a double close), `GotIsCurrent` and `ImplementsSessionStore`
  (until writers raced or one was overtaken), `ServedAfterLogin` (until a message overtook a login),
  `FoundPair` (unless an insert ran into the copy or a process died), `NoOtherLeak`
  (apart from three named paths), `AnswersOwnRequest` (of clients that stay: after a
  `recv` of 0 a client that has left is sent what the buffer holds, see section 4);
* `RequestsAnswered` of `Epoll` and of `Iocp` and `RequestsServed` of `Http` assume that the
  thread (every thread, in `Iocp`) is, again and again, not held by the log, by a client
  that does not read, or by a WebSocket. Without that they are false of the code:
  `log_blocked` shows how the log holds a writer for good;
* `ParsesOwnRequest` and `AnswersOwnPath` speak of *supported* requests that arrived
  whole. The parser has no notion of more to come: what arrives in two parts is
  parsed as two requests. Not supported are, among others, other methods than GET
  and POST, a value that is empty, a header that begins with a small letter, a body
  of another length than announced, a boundary with a `-` in it (the parser of parts
  forgets what comes before each `-`), a `multipart` type without a boundary. Such requests
  are still sent, by themselves and before the request that is judged;
* `AnswersOwnPath` demands a file's bytes only if the file has not changed since the
  start, the table of files had room, and file and head fit into the string of 1 MB
  that `res_parse_send` has for both;
* `RendersTemplate` speaks of *clean* templates: a list is the first block of its
  template and has one `{{item}}`, and a mark that fills the cleared part of `temp`
  follows no longer one;
* `StartupEnds` of *readable* documents: without an unknown child of `model`, a
  comment included, and with a `model` that is there and not empty;
* `JoinsReturn` unless an element was dropped or the stack is smaller than
  `BigEnough` says; `ShutdownLeavesNone` unless the signal comes in the middle of a
  scan or a worker function returned; `FailsOnlyAfterFork` names its condition.

Each flag is set in the action where the code does it, and everything before is
checked in all interleavings.

**Fairness.** Weak fairness of steps that a thread takes without waiting for
anybody outside: leaving a wait after being woken, finishing a query, joining a
thread that ended, the server's loop, the daemon's program. The operating system
runs every runnable thread, and a mutex held only for a bounded time is obtained.
Nothing is assumed of callers beginning calls, of spurious wakeups, of signals or
of deaths, nor of what may hold a server's thread for ever: `log_info`, a send on a
blocking socket, a WebSocket client that stays. A server's thread is fair where
nobody holds it (`~Held`), and in `Http` it is back in its loop, or in the loop over
frames after the client has left; that it is not held for ever is a hypothesis of
the liveness properties. Two assumptions are about the surroundings: in `Timer` the clock goes on and the program that uses
the timers keeps calling `handle_events`, since the code has no thread of its own
for it; the threads of the queue and the stack make all the calls of their tests.
In `Http` the fairness of `epoll_handle` is stated by its guards and its effect on
`pending` (`Receives`); no other action takes a pending request, so the two
enable and count the same steps. `Session` and `MdbServer` have no liveness
properties and no fairness.

## 4. Findings

1. `cpool.c:151`: waiting with `if`. Another thread takes the released connection
   first and the woken one returns NULL (`cpool_block`).
2. `log.c:97`: a writer that waits for room is woken only by other writers
   (`log_blocked`).
3. `container.c:252` (IOCP): a refused connection is closed and freed twice; in
   between handle and memory may belong to another client (`iocp_refuse`).

Noticed while modelling, without a run that could show them or without a text that
says otherwise:

* On Linux `recv` returning 0 is not told apart (`container.c:406`): a client that has
  shut down is served what the buffer holds, the request of whoever sent last.
  `AnswersOwnRequest` says that this is the only way to another's answer.
* `log_info` stands between the receipt of every request and its answer
  (`container.c:261`, `416`), so what holds a writer of the log (2 above) holds the
  server; a client that does not read holds the Linux server in `send`.
* A `-` within the boundary of a multipart body makes the parser of parts lose what
  stood before it (`request.c:201`), and browsers' boundaries begin with several; a
  `multipart` type without `boundary=` is a null pointer (`request.c:437`).
* The heap of timers has 1024 places and `min_heap_push` does not look whether one is
  left (`dm_timer.h:40`, `dm_timer.c:31`).
* `ab_ban` is only ever set to 0, so the blacklist the README announces lists nobody.
* The ports of `conf.xml` are never used: `createSocket` listens on 8080 and
  `create_socket` on 80. Nothing of the element `server` is read.
* When `conf.xml` cannot be read, `static_dir` is empty and every file below the
  working directory gets a URL. On Linux the URLs of files are their absolute paths,
  as `strstr(path, "/")` finds the first character.
* `multi_process_init` is commented out in `container_init`; the master process runs
  only when it is called by hand.
* `min_connections` (20) is more than `max_connections` (4), which is never read
  (`cpool.c:108`).
* Several copies allocate `strlen` bytes without room for the NUL (`session.c:234`,
  `request.c`, `router.c:215`).
* A file of 1 MB or a few bytes less is sent whole, with its head, through a string of
  1 MB, which it overruns (`response.c:183`).
* An unknown child of `model` in `conf.xml` keeps `conf_init` in its loop for ever; a
  missing `model` ends in a null pointer (`conf.c:80`), and an empty one in the release
  of a pointer that was never set (`conf.c:83`).

## 5. Proofs

Eight modules hold proofs. A theorem holds for every value of the constants that
the named assumptions of the modules allow: any number of threads, clients,
workers, descriptors, objects, slots, pids, calls. The bounds of the models
(`MaxRecords`, `MaxCalls`, `MaxMsgs`, `MaxTime`, `MaxAborts`) are constants too, so the
theorems hold whatever they are. Two assumptions limit a size, because the code
does: `FewWriters` of `LogLoggerIsWoken`, and `HeapAssumption` of `TimerTimersInOrder`, no more
timers than the 1024 places of the array, behind which the code would write; the others say that sets are finite, numbers natural, and that
the markers (`None`, `NULL`, `Empty`, `Torn`) are none of the things they mark. The
assumptions of `MdbServer` also say that clients and views, whose names stand for the
values they insert, are among the `Writers`. Those of `Router` say what a file
system is like: the working directory is an absolute path, a disk has finitely many
names whose parts have a `/` between them, and each is a file with a size or a
directory. That of `Http` says that a request has a path and that none of its words
is the marker `Undefined`.

| theorem | says | run |
|---|---|---|
| `CPoolTypeOK`, `CPoolOneOwner`, `CPoolNoUseAfterDestroy`, `CPoolCountersAgree`, `CPoolNoLostWakeup` | the safety properties of the connection pool | `pools` |
| `CPoolRefinement` | `CPool` implements `ResourcePool` | `pools` |
| `MPoolTypesOK`, `MPoolBlockNotForgotten`, `MPoolFlagsAgree` | types; no lost wakeup; flags, owners and `count` agree | `pools` (the second) |
| `MPoolRefinement` | `MPool` implements `ResourcePool` | |
| `ThreadPoolTypeOK`, `ThreadPoolFirstInFirstOut`, `ThreadPoolFreedAfterExit` | types; tasks in order and once; the pool outlives its threads | `threads` (the last two) |
| `ThreadPoolNoLostSignal` | no worker sleeps on a task nobody was woken for, or in a pool that is shut down: the safety half of the two liveness properties | |
| `LogTypesOK`, `LogLinesInOrder`, `LogLoggerIsWoken` | types; lines add up and keep their order; the log thread is woken | `threads` (the last two) |
| `EpollConnectionTable`, `EpollNoStaleEvent`, `EpollNoOtherLeak`, `EpollAnswersOwnRequest` | kernel, registrations and objects agree; no stale event; no leak but the named ones; a client that stays is answered its own request | `epoll`, `epoll_full` (leaks) |
| `IocpRefusedOnlyTooOften`, `IocpOneHandler`, `IocpOneCompletion` | refusals; one owner for an object and a socket; one hand for a connection | `iocp` |
| `MdbFoundPair`, `MdbServedAfterLogin`, `MdbOneReceiver` | pairs; login; one hand for a client, and never none | `mdb_server` |
| `HttpAnswersOwnPath` | a request that was parsed right gets the answer of its path | `http` |
| `ContainersElementsKept` | the elements of queue and stack, once and in order | `utility` |
| `TimerTimersInOrder` | timers run once, in order, none early | `utility` |
| `MasterWorkersRegistered`, `MasterFailsOnlyAfterFork`, `MasterShutdownLeavesNone` | the table of workers; when the daemon gives up; what it leaves behind | `utility` |
| `SessionGotIsCurrent` | what a get returns was in the map during the call | `session` |
| `SessionRefinement` | `Session` implements `SessionStore` | `session` |

Hardly any of these properties is inductive by itself. Each module has one invariant
that is (two where parts are independent); TLC checked it on the instance of the run
before it was proved. There is one lemma for each action, or for each part of the
state that an action may disturb, and lemmas about sequences and cardinalities come
first.

**Connection pool** (`IInv`). The properties together with three facts about
the code's order: `InitFirst` (no thread enters before `mysql_pool_init` is done, so
that its pushes, which signal nobody, meet no waiter), `Fresh` (what it pushes is
new) and `UsersOwn` (only a thread that is using the pool has a connection).
`NoLostWakeup` needs `CountersAgree`, because the release signals only when
`is_idle_block` is not zero, and an exact count of waiting and woken threads against
the length of the list. Refinement uses `IInv` in both states and maps each action to
an operation of `ResourcePool` or to a stutter.

**Memory pool** (`MPoolInv`). The same argument with flags in the place of a list:
`FlagsAgree` (a flag is set exactly while one connection has the block), `CountAgrees`
(`count` is what the scan of `pool_alloc` would find), `LinkedFirst` and `HasBlock`.
`pool_free` of something that is no block changes nothing in the pool, which is what
keeps `count` exact after a `pool_alloc` that failed.

**Thread pool** (`PoolInv`). Order follows from `started \o task_list = added` if a task
is added once (`Once`) and is taken, running or done (`RunningHas`, `TakenOrDone`). That
nobody touches the freed pool needs `Listed`: every worker that is alive is on the list
of threads to join, also when the creation failed half-way (`Unmade`). `NoLostSignal`
is proved from `PoolInv` by counting: the list is no longer than the set of woken
workers as long as one sleeps.

**Log** (`FileInv`, `WakeInv`). For the file one fact is missing from `LinesInOrder`:
the record in slot 0, which is the one that is printed next, is no older than the last
line (`SlotZero`). For the wakeup `WritersUsedUp` counts: while the log thread sleeps beside
records, there are fewer records and sleeping writers together than writers. Each
record that did not wake the log thread has woken a sleeping writer instead, so that
the writers run out before the buffer is full. It needs that there are no more threads that log than
slots (`FewWriters`, 2048 slots in `log.h:45`); with more writers than slots a signal
meant for the log thread may go to a writer.

**Epoll** (`EpollInv`). `Tables`, `NoStaleEvent` and `NoOtherLeak` are proved together with
`ClientPhase` (a client is new, waiting to be accepted, or has a descriptor) and
`ThreadConn` (what the thread has in hand while it may be held has an open socket, and
its event has left the batch).
`NoStaleEvent` depends on the events of a batch naming different objects and
sockets, which follows from `Tables`: a close or free cannot make another event
stale, and an accept in the same batch takes a descriptor and an address that are
free and that no event left in the batch names. `AnswersOwnRequest` needs besides that
an event in the batch still has something to receive (`Batch`), and that between
`recv` and the last send the buffer holds the request of the client in hand, unless
that client has gone (`Current`).

**IOCP and request limit** (`IocpInv`, `IpIInv`). `OneHand` says that a client is with the
system, in the port or with one thread, and needs no condition; `OwnObject`, until a
double close, that each of these hands has the live object and the open socket
of its own client. For the limit `Counted` says that the slot's number is at most
the number of checks made since the start of its window. This survives a
thread whose time is old: the time that it has read is no later than the clock, so a
window that it sets back only gains checks.

**Cache** (`MdbInv`, `ServerInv`). `SlotKept`: as long as no process died in an insert,
the holder of the mutex is the one that is writing, a slot that nobody writes is
empty or holds an inserted pair, and it still has the key of a find that is copying
unless an insert ran into the copy. For the connections `OneHand` and `OpenInHand` say
that an open socket is in exactly one hand, and `OwnObject` that until a message
overtakes a login, a `status` of 1 belongs to a client that logged in.

**Master** (`MasterInv`). `Table` describes `worker[]` for each place of the program: a
slot that is not zero is a child or the one just reaped; a zero slot is not yet
started or had a fork that failed; a child is in a slot or in the `pid` about to be
stored. It is about the record of the daemon alone, which is why pids may come
back: a pid is free only after the daemon reaped it, and it then is the slot that
is forked again. `OneMaster` and `AllTold` carry the shutdown: until a worker function
returned, every other process is the daemon's child and was told, and a daemon that
was stopped forks no more.

**Session table** (`SessionInv`). Either writers raced or everything is `InOrder`: nodes
and data are in one list each (`Apart`, `Owned`), what a writer is about to link is its
own (`OwnNode`, `OwnDatum`), and a `getSession` on its way is at an end of its chain from
which it would find something that the map held since the call began (`Walks`).
The last is the heart of the proof: a step of another thread either does not
change what the rest of the chain gives, or makes it what the map is now. Trying to
prove it showed that an earlier form of `raced` was too weak. With three threads
an add or update that is overtaken writes to a hidden place, and a get that is already
behind it returns a value that the map never held. TLC confirmed it with a third
thread; since then `raced` counts overtaken writers, and the run has three threads.

**Router and files** (`HttpInv`). The theorem is about every request that
`ParsesOwnRequest` holds of; that the parser gets a supported request right is left to
TLC, and everything behind the parser is proved. `StageInv` and `HandsInv` say what holds
while `log_info` or a send keeps the thread and files change meanwhile. `FilesInv` says what
`router_init` left in the table, whatever the order of `readdir`: names below the
static directory, each under its path, with the sizes of the files that have not
changed since, and all of them if the table is not full. `ViewsInv` says that the
table of views holds those of the apps added so far. The URL of a file is its whole
path, as the `strstr` in `router_init` finds the first character of an absolute path
(`PathIs`), and different names have different paths (`PathInjective`); so the first
entry that `router_handle` finds is the only one.
`DecodedIs` is about the answer in chunks: for every size of file and of buffer the
chunks that a client reads, up to the first empty one, add up to the file, also when
its size is a multiple of the buffer and the loop itself sends an empty chunk.

**Queue and stack** (`ContainersInv`). The list is a recursive function of the state
(`Node`), so the invariant says that there is a sequence of `size` different nodes,
linked by `next` from `head` to `tail`, and lemmas show that `Node` walks along it.
A new node is not in the sequence because the sequence is all that is allocated.
For the stack `StackInv` says that the array below `size`, together with what was
popped, is what was pushed; elements are new because a producer's calls left only go
down.

**Timer** (`TimerInv`). `IsHeap` (no timer before its parent in the tree), and
`FiredFirst`: what has run was due no later than anything in the heap. A callback
cannot break the latter, as the timer it adds is due no earlier than the time at
which it is added, and nothing has run that was due after that. `PushIs` and `PopIs`
give what the loops of `min_heap_push` and `min_heap_pop` do to the array: the timers
on one path of the tree move by one place and the new or last one fills the gap.
`PushKeeps` and `PopKeeps` show that the result is a heap of the same timers. The
timer at the root is the earliest (`RootEarliest`).

Induction over data. The induction theorems of the library take an operator, which
the provers cannot instantiate. Where an argument needs induction, it goes by sets
instead: `SetInduction` follows from the well-foundedness of `<` on the natural
numbers and takes the set of numbers for which the claim holds. For a recursive
function it first has to be shown that its equation has a solution, again by
induction; after that the function satisfies its equation (`NodeIs`, `WalkExists`,
`AncestorsIs`, `SumIs`).

Only model-checked:

* liveness (`IdleConnectionFound`, `TasksAreTaken`, `DestroyReturns`, `RequestsAnswered`,
  `StartupEnds`, `RequestsServed`, `JoinsReturn`, `TimersFire`, `DeadIsReplaced`): the prover handles neither fairness nor `ENABLED`;
* `ParsesOwnRequest` and `RendersTemplate`: they compare what a state machine over a
  text computes with what the text means. They depend on every word of the text being
  none of the marks the machine looks for, and on which state follows which over the
  whole text; this would be a proof about a fold over a concatenation of pieces of
  unknown number, and is not attempted.

## 6. Plan

Order: behaviour first that many threads share and no test reaches.

1. Done: pools, threads and log; servers; session table and cache; proofs about
   `CPool`.
2. Done: request limit in the IOCP server, with its proof; the Linux server from
   configuration to answers; WebSocket; master process; queue, stack, timer.
3. Done: proofs about the memory pool, thread pool, log, both servers, cache, master
   process and session table.
4. Done: proofs about queue, stack, timer, and the router with its files.
5. Theorems left: the parser and the templates (see above).
6. Models left: a second server process that clears the shared table, and base64
   over bounded inputs.

## 7. Not modelled

* `elr_mpl`: `main` calls `elr_mpl_init` and nobody allocates from it.
* SSL and simple containers: loops in one thread that serve one connection after
  the other with OpenSSL; input and output only.
* Tokens, base64, URL and text encodings: functions without state; signing is done by
  libraries.
* The cache client, the demo views and apps, tests and trials (`conf/test.c`,
  `test/pcre_test.c` and similar): programs or pages without state of their own.
* Lists, strings and hashes in `Src/utility` without a caller in the server.
* `include`, `lib`, `bin`: headers and code of others (OpenSSL, MySQL,
  pthreads, libxml2, PCRE). They are most of the repository's lines.

Inside modelled parts the following is left out: single characters of words in
requests, of records and of values; MySQL and OpenSSL; memory exhaustion outside the
places named above; strings that fill their buffers (`session.c:234` and similar,
`strncpy` without room for the terminator in `mdb_operate.c:202`); `pool_destroy` of
the memory pool and `search_local_file` of the router, which nobody calls.

# Verification project for mg-common-utils

mg-common-utils is a collection of network utilities that share an author and
a style more than a code base. This directory holds TLA+ models of the parts
that carry concurrency, failure handling or intricate state, the TLC
configurations that check them, and TLAPS proofs of the central results.

Source paths are given below without the leading `src/`.

## 1. Inventory

### The event-driven servers

| Part | Files | State | Operations |
|---|---|---|---|
| redis-proxy server | `redis-proxy/redis.c` | clients with buffers and registered events, `io_newjobs`, `io_processed`, `io_mutex`, `io_ready`, completion pipe, 100 I/O threads made at start-up | accept, read, queue a job, run it, hand it back, write the reply, free |
| its extension | `redis-proxy/echo.c` | one kept connection to a backend redis per thread | validate a request, forward it, collect and validate one reply, retry once, time out |
| redis-server server | `redis-server/redis.c` | as above, but threads are spawned on demand and exit when idle (`io_active_threads`) | as above; the queueing side takes no lock |
| ae, file events | `*/ae.c`, `*/ae_epoll.c` | `events[]`, `maxfd`, the kernel's interest set, `fired[]` | create, delete, poll, walk the fired array |
| ae, time events | `*/ae.c` | timer list, `timeEventNextId`, the sleep computed for poll | create, delete, one pass over the list |
| adlist | `*/adlist.c` | a doubly linked list and its iterators | add, delete, iterate, duplicate, search, release |
| anet | `*/anet.c`, `tcpipe/anet.cpp` | the process's descriptors | connect, listen, accept, set options, read, write |
| redis-uuid | `redis-uuid/redis.c`, `redis-uuid/redis-realloc.c` | server id, sequence number, clients, clock; in the second file the blocks of the buffers | accept, read, hand out an identifier, write the reply |

How they interact. A handler of the event loop runs to its end before the next
one starts, and the fired array of one round is walked to its end, so handlers
see what earlier handlers of the same round did (closed descriptors, reused
numbers, deleted timers). The event loop and the I/O threads share the client
structure, the two lists and the pipe. The client structure has no lock at all:
it is safe only if exactly one party works on it at a time. The lists are
protected by `io_mutex` in redis-proxy and only half protected in redis-server.
Each finished job is announced by one byte in a pipe whose read end does not
block and whose write end does.

What is hard to test, and what correctness means:

* *redis-proxy server*: one owner per client; one byte per finished job; no
  wake-up lost although the signal comes after the unlock; no deadlock when the
  pipe is full; nothing carried over from one request to the next; every
  registered request answered; a refused registration.
* *extension*: the reply belongs to the request although the connection is
  shared by successive clients, may break at any byte and is retried; each
  request executed at most twice; each job ends; a reply ends at its last byte,
  however it is cut.
* *redis-server server*: no job left behind by a thread that exits; no client
  freed while a list or a thread holds it; the pipe accounts survive the races.
* *ae*: `events[]`, `maxfd` and the kernel agree after any sequence of calls,
  also calls made from handlers; an event that fired is delivered only to the
  descriptor it fired for; the sleep ends when the next timer is due; the walk over
  the timer list survives handlers that change it, and so does the timer in its hand.
* *anet*: several threads open and close sockets between each other's system
  calls; whichever call fails, no descriptor is forgotten or closed twice, and what
  is returned has the options its function promises.
* *redis-uuid*: identifiers do not repeat across servers, and within a server
  only where nothing in the encoding can prevent it; in `redis-realloc.c` no
  handler frees a block that is still used or forgets one.

### The programs that hand bytes on

| Part | Files | State | Operations |
|---|---|---|---|
| tcpipe and sock4a relays | `tcpipe/*.cpp`, `sock4a/{client,server}.cpp` | per connection two sockets and one buffer; `clientQueue` under `qlock` | take a prepared connection or open one, poll, read, code, write, close both |
| sock4a ports | `sock4a-apr`, `-go`, `-poco`, `-qt`, `-mono`, `sock4a/socket.d`, `sock4a.py` | the same in one thread, a thread per direction, or an event loop | the same, with other orders and other ways to give up |
| uRedis, uMemcache | `uRedis/{udp.c,uRedis.php}`, `uMemcache/uMemcache.php` | the datagrams received so far, keyed by sequence number | send a request, collect until the count is met or the time is over |
| asyncell | `asyncell/{asyncell,echo}.py` | `socket_map`, the epoll set, `out_buf` | accept, read, write, close, poll |

Byte streams have to arrive unchanged whatever the pieces; blocking writes in
both directions may wait for each other; a descriptor number changes hands the
moment it is closed; datagrams overtake each other and outlive the call they
answer; the flags of one poll are handled although an earlier one closed the
dispatcher.

### The programs that keep or replicate data

| Part | Files | State | Operations |
|---|---|---|---|
| mybalancer | `mybalancer/DB.py` | a select's rows and its lock in memcached, both with a time to live | cached select, update |
| mysqlhandler | `mysqlhandler/handler.cpp` | queue of MYSQL handles | take or make, read, put back, close |
| icq | `icq/ehaildb.cpp` | a HailDB table, `cur_id`, open transactions | create, drop, truncate, insert, get, get_next, get_oldest |
| vector_udf | `vector_udf/vector.c` | a column of packed (member, score) pairs | zadd, zrem, zrange, zcard |
| myreplicator | `myreplicator/src/myreplicator.cc` | the pair in `/tmp/name_and_pos`, caches of rows, files of LOAD DATA | read a log from a server or a file, process each of its events, save |
| ebinlog | `ebinlog/*` | the parser's place, a bounded queue between two threads | parse a row event, hand over rows, restart from a place |

Their difficulty is what survives: a position saved after every event through a
stream that is flushed late, a lock that expires under its owner, a number that
starts at zero in every process, connections that die in a pool, and a format
without offsets in which one wrong width moves everything behind it.

### Not part of the models

| Part | Why |
|---|---|
| redis-ckw | `redis.c` is redis-uuid's server with buffers of 1024 bytes, ids up to 255 and the widths of `get_uuid`, which are constants of `UuidServer`; `ckwlib.c`, a trie of keywords, is not built and does not compile (`check_keywords` passes a `k` nobody declares) |
| repl | a test program that copies one binlog of a fixed server into a file |
| fat, count_log_by_ip_range, dump_innodb, http, curl-cpp, drop_file_cache | one-shot tools: sequential I/O, no state of their own |
| lesson, tmp | samples of a course, scratch files |

## 2. Modules

| Module | Models |
|---|---|
| `RequestService` | what redis-proxy promises a connection, in five states |
| `ThreadedIO` | `redis-proxy/redis.c`; implements `RequestService` |
| `ThreadedIOProofs` | TLAPS proofs about `ThreadedIO`: types, ownership, locks, pipe |
| `ThreadedIOServiceProofs` | TLAPS proofs about `ThreadedIO`: work, buffers, the refinement |
| `Backend` | `_redisCommandProc` of `redis-proxy/echo.c` with an external backend |
| `BackendProofs` | TLAPS proofs about `Backend` with one command to a buffer |
| `OnDemandIO` | `redis-server/redis.c` |
| `AeFileEvents` | file events of `ae.c` and `ae_epoll.c` |
| `AeTimeEvents` | time events of `ae.c` and the sleep of `aeProcessEvents` |
| `EventLoopProofs` | TLAPS proofs about `AeFileEvents` and `AeTimeEvents` |
| `Anet` | the socket calls of `anet.c`, one system call a step |
| `RedisServerProofs` | TLAPS proofs about `OnDemandIO` and `Anet` |
| `UuidServer` | `redis-uuid/redis.c`: servers, restarts, the clock, identifiers |
| `UuidRealloc` | `redis-uuid/redis-realloc.c`: its buffers on the heap |
| `ReplyFraming` | the reply validators of `redis-proxy/echo.c` over replies that arrive in pieces |
| `AdList` | `adlist.c`, node by node |
| `Relay` | the encoded relay of tcpipe, sock4a and its seven ports |
| `RelayPool` | the connection factory and the workers' descriptors of tcpipe and sock4a |
| `UdpGet` | the UDP gets of uRedis and uMemcache, and the server of the former |
| `EchoCell` | asyncell's loop under its echo server |
| `RelaysProofs` | TLAPS proofs about `Relay`, `RelayPool`, `UuidRealloc`, `UdpGet` and `EchoCell` |
| `SelectCache` | the cached selects of mybalancer |
| `HandlerPool` | mysqlhandler's queue of connections |
| `ServiceProofs` | TLAPS proofs about `UuidServer`, `SelectCache`, `HandlerPool` and `IcqQueue` |
| `IcqQueue` | the message queue of icq |
| `VectorUdf` | the MySQL functions of vector_udf |
| `Replicator` | myreplicator |
| `ReplicatorProofs` | TLAPS proofs about `Replicator`, for all logs a server can write |
| `RowImage`, `DecimalValue` | how ebinlog takes row events apart; the decimals in them |
| `BinlogListener` | ebinlog's places, its listener thread and its queue |
| `MCRedisProxy`, `MCRedisServer`, `MCRelays`, `MCServices` | parts that share no state, side by side, for one run each |
| other `MC*` | symmetry sets and constraints for TLC |

The four modules that put parts side by side have a variable `part`, which the
initial state chooses and no step changes: a behaviour is one of a single part,
and the variables of the others keep their initial values. Checking them so
costs the sum of the parts' states, not their product, which would show no more:
the programs do not meet.

Each module keeps the names of the source; most specifications carry a prefix
(`selectInit`, `selectNext`), because an `MC*` module and a module of proofs extend
them beside others. Definitions whose comment begins
with "Mutant of" are deliberately wrong versions of the definition that follows
them; no specification uses them, and each shows that some property would
notice that mistake.

### ThreadedIO

A client is `live` (allocated), has the events `mask` registered with ae, a
request buffer that is absent, partial or full, and a reply that is a length
`wlen` with a position `wpos`. `mpc`/`mc` are the main thread's position and the
client in its hand, `tpc`/`tc` those of each I/O thread.

What only the main thread touches is one step per handler: `acceptHandler`,
`readQueryFromClient` (with the verdict of the extension's request parser as a
choice), `sendReplyToClient` (with the number of bytes `write(2)` takes as a
choice). Where the threads meet, a step is what the mutex, condition variable
and pipe leave: `queueIOJob` is lock / append and unlock / signal,
`vmThreadedIOCompletedJob` is read a byte / lock / pop and unlock / register,
`IOThreadEntryPoint` is lock / test and take, or wait / run the extension / lock /
append and unlock / write a byte. That a critical section may be one step is
justified inside the project by `MutualExclusion`.

`EpollMayFail` lets `aeCreateFileEvent` fail. `resetClient` ignores the failure
and `vmThreadedIOCompletedJob` returns early with bytes left in the pipe; both
leave a connection that nobody serves ("stranded" in `RequestService`).

A connection above `maxclients` is created and freed inside one handler and
leaves no trace, so it is not a step; nor is an accept that fails, or a
`createClient` whose registration fails (the descriptor it closes is closed once
more by `acceptHandler`; descriptor numbers are not part of this module). Start-up,
logging, the signal handlers and the `exit` command, all of which end the
process, are left out. Dispatch of a stale event to a reused descriptor, which
`AeFileEvents` shows to be possible, is not repeated in this module: here each
event that is delivered is registered.

### Backend

One I/O thread and the connection it keeps. `again`, `writeRequest`, `readReply`
are the label and the two poll loops; `retryOrFail` and `fail` are the code after
them (`err == 2`, `err == 1`). `pollTimeout` is a poll that returns 0. The
clock of each loop is `elapsed`; it is read after the write in the first loop and
before the read in the second, as in the code. The backend executes whole commands
in order, answers each with a good or a malformed reply, may close at any moment,
and may still execute what it got on a connection the proxy has closed (`orphans`).

The validators are represented by their verdicts: `processResponseBuffer` gives 0
for the head of a reply, 1 for exactly one reply, -1 for anything longer or
malformed. `Inline` jobs are the request buffers for which the request validator
says "full" although they hold two commands.

### OnDemandIO

As `ThreadedIO`, but `queueIOJob` and `spawnIOThread` run without the lock, so the
append and the read and the increment of `io_active_threads` are separate steps
that interleave with the threads' critical sections; a list operation that meets
another thread's operation in progress has any of the outcomes the unlocked
pointers allow, the end of the process included. `io_active_threads` is an
unsigned number, here modulo `UIntMod`. AE_READABLE stays registered while a job
is pending, so `freeClient` can run at any time; what the code then does with
the freed structure is a free choice, a crash included.

### AeFileEvents and AeTimeEvents

`AeFileEvents` has a process that owns descriptors, handlers that create, delete
and close in any combination, the kernel's interest set, and the walk over
`fired[]`. The kernel forgets a descriptor when it is closed. The descriptor's
generation distinguishes a reused number.

`AeTimeEvents` counts time in ticks, `Sec` ticks to the second, with seconds and
ticks kept apart as in the code, so that the borrow and the cut at zero of
`aeProcessEvents` are the code's. Handlers may create timers, delete any timer
(their own included) and return a new period or AE_NOMORE. `inHand` is the timer in the
memory `te` points at while its handler runs: nothing once the handler has freed it, or
the timer for which `malloc` has given the memory out again. `Rearmed` writes the period
there, whoever it belongs to.

### Anet

`frame[t]` is the call a thread is in and how far it has come; each step is one system
call, which may fail. `socket` and `accept` give the lowest free number, so a descriptor closed once
too often is another thread's. `held` are the descriptors a thread was given, `maker`
remembers by which function. `anetTcpGenericConnect` returns without closing when
`fcntl` fails on its new socket; `stray` counts these, and nothing else may be
forgotten. Addresses, options without effect on the state of a socket, and error texts
are left out. `anet.cpp` of tcpipe is in `RelayPool`.

### UuidServer and UuidRealloc

Each process is one event loop, so a handler is a step; what interleaves is
several servers, their restarts (`main`, `sigtermHandler`) and the clocks.
`clock` is the second the next `time(NULL)` shows and may be set to any value,
which covers clocks that differ, jump or step back. The widths of the fields are
constants: `get_uuid_52bit` has 2^18 sequence numbers and 2^4 servers,
`get_uuid` (redis-realloc.c) 2^24 and 2^8. `Seconds` is the unsigned
subtraction of the epoch, which wraps for a clock before it. `issued` remembers
every identifier with the server, process, second and sequence number it was
made from; it exists for the properties only. Sequence numbers are not reduced
modulo 2^64, of which the field's span is a divisor.

`UuidRealloc` is `redis-realloc.c`, which the Makefile does not build: the same server,
with a request buffer that `realloc` moves and lengthens before every read and a
reply with a block of its own. Blocks are what the model counts; a request's verdict
is a choice, because a read that fills the buffer leaves no zero byte for `strstr`.
`freeClient` forgets `wbuf` when `rbuf` is not NULL; `lost` counts these replies.

### ReplyFraming and AdList

`ReplyFraming` lets a reply arrive in segments cut anywhere and applies
`processResponseBuffer` to the whole buffer after each, as `readReply` does; the
validators are translated with their offsets (`bulkEnd`, `bulksFrom`). `Replies`
are those the code has a validator for, `Others` those of the protocol it has none
for. `Backend` uses the verdicts only.

`AdList` holds the heap that `malloc` has given out, may exhaust, and a list, its
copy and an iterator as the C structures are; `content` is the sequence each list
stands for. `listDup` is three steps, because each of its allocations may fail.

### Relay, RelayPool, UdpGet, EchoCell

In `Relay` an application and a target send through two relays. `relayWorker`
(`sock4aWorker` of the source) and its counterparts are `poll`, `read` and `write`: a read takes any number of
the bytes there, a write blocks while the connection is full. `Setups` chooses the
programs; what tells the ports apart is in `Serial`, `Duplex`, `mayRead`,
`clientAbandons`, `aprSendsLess` (a short send whose rest is dropped) and
`PyRaises` (the decoder that tests for `> 256`). A byte has `Width` values. A SOCKS
application begins with a `request`, of which sock4a's server takes what one read gives
it; `accepted` remembers how much, and what comes later of it is data (`UpDue`).
`RelayPool` gives descriptors the lowest free number, as the kernel does, and lets every system call of `anet.cpp` fail, and `pthread_create` (`threadFails`); `leaked`
remembers the descriptors that no thread knows any more.

In `UdpGet` the wire is a set from which datagrams are taken, repeated or lost. The server
sends an answer piece by piece (`anetUdpSendTo`), so its pieces mix with those of
another answer. A call may have the number and port of an earlier one.
`uMemcache.php` repeats `uRedis.php`'s loop.

In `EchoCell` `poll_epoll` puts the entries in a list which `readwrite`
works through flag by flag; the kernel's sockets and the peers, which may send,
read, stop, reset and go away, are external.

### SelectCache, HandlerPool, IcqQueue, VectorUdf

`SelectCache` has one caller's position per step of `sql_select`; `tick` is a tenth
of a second of memcached's time to live, and memcached may restart. `HandlerPool`
has the lock's sections as steps; mysqld may stop and start, which cuts the
connections of that moment; `midway` counts those whose result was awaited just then,
for `put_mysql_handler` puts them back whatever `mysql_store_result` said. In `IcqQueue` a method is one step, for one process
with one thread calls it; `readFails` and the failing branches leave transactions
and locks open as the early returns do, and `consumes` moves the caller's row also when
it fails afterwards (`unread`). `VectorUdf` is one step per UPDATE; `qsort`
is any arrangement the comparison admits, since equal scores have no fixed order.

### Replicator

A run of the program takes options (`my_long_options`, `get_one_option`), reads logs
from a server (`remoteEvent`) or from files (`localEvent`) and sends each event
through `process_event`, whose cases are one operator each. A position counts events.
`save_name_and_pos` writes the pair into a stdio buffer (`npfp`) that reaches the
file (`disk`) at any later moment, so that a kill (`crash`) leaves an older pair.
The next run starts at the pair in the file. LOAD DATA files survive a crash (`dir`).
`ServerLogs` says what a log can hold, as far as the program relies on it: where format
descriptions and Rotates stand, that the events of a row statement and of a LOAD DATA
belong together, and when an id may be used again. `Effective` is what the options ask
for: statements and rows that no filter leaves out, and no rows with `--short-form`.
`out` is what the result file holds. The result of `print` is not looked at (`Output`), a
file named with `-r` is buffered (`crash`, `exitProgram`); what was printed and is not in
the file is in `missed`. That an event knows its own end is MySQL's reader's business
(external); for logs of a 3.23 server, which do not record it, the model takes the
event's true end.

### RowImage, DecimalValue, BinlogListener

`RowImage` has both ends: what the server writes for a column (`MetaBytes`,
`CellBytes`, external) and what the parser takes (`metaWidth`, `decodeMetaData`,
`decodeDataType`, `decodeRowImageItem`); a step is one column of one row image.
`Misread` lists the columns of which it takes another number of bytes than were
written: NEWDECIMAL, of which the position is not advanced; GEOMETRY, which has no
case; BIT with two to seven bits in its last byte. `DecimalValue` is `bin2decimal`
byte by byte, next to the encoder of MySQL: the digits and the sign are those of the
value (`DigitsExact`). `printed` is the text the code makes of them, with a point behind
every group of nine digits but the last; it reads as the value when there is one group
of the integer part and at most one of the fraction (`TextExact`).

`BinlogListener` has the parser's arithmetic of offsets (`processRowEvent`), the
listener thread (`get_event`, `put`) and the main thread (`get`, `process`), with
the connection lost and the program killed between any two steps. The business
module remembers the place behind its last row, which `start` begins from.
`GoodOrigin` names the first places the arithmetic is made for. The parser has one table
map, the last one it saw, and does not compare table ids: `Taken` is the number of rows
that come out of an event read with another table's columns (`other`). A log's name is
copied without its end, so what is behind it is the memory the object got (`ended`).

## 3. Runs

| Run | Result | Question |
|---|---|---|
| `threaded_safety` | holds | `SingleOwner`, `MutualExclusion`, `PipeAccounts`, `AssertHolds`, `WorkConserving`, `JobBuffers` and refinement of `RequestService`, with failing registrations |
| `redis_proxy` | holds | server: every queued request reaches the write handler, no deadlock, with a pipe smaller than the number of threads (`EveryJobCompletes`); extension: own reply or error text, clean connection between jobs, at most two executions, every job ends (`ReplyMatchesJob`, `CleanConnection`, `ExecutionBounds`, `EveryJobEnds`) |
| `backend_inline` | violated | the same claim about replies when a buffer holds two inline commands |
| `redis_server` | holds | file events: interest set, masks and `maxfd` agree (`InterestMatches`, `MaxFdCorrect`); timers: the walk stays in the list, a pass is complete, the wait is the time left (`WalkInList`, `PassComplete`, `SleepExact`); threads on demand: `PipeAccounts` survives the races; sockets: `SocketsAccounted`; lists: `ListSound`; replies: `FramingExact` |
| `ondemand_stranded` | violated | no job is left without a thread |
| `ondemand_freed` | violated | nobody holds a freed client |
| `ae_stale` | violated | an event is delivered to the descriptor it fired for |
| `ae_oversleep` | violated | the loop does not sleep beyond the nearest timer |
| `services` | holds | identifiers (`DuplicatesExplained`, `TimeOrdered`, `BufferRoom`); myreplicator over restarts (`LossExplained`, `ReplayBounded`, `LoadComplete`, `RowsFlushed`); caches, pools and queues (`SavesInOrder`, `PoolSound`, `SkipsExplained`); ebinlog (`RowsExact`, `ResumeExact`); vectors (`VectorExact`) |
| `relays` | holds | bytes unchanged (`Transparent`) and delivered (`Delivers`); a pooled connection has one owner (`OneOwner`); UDP replies (`ReplyExplained`); the echo server (`EchoSound`); the blocks of redis-realloc (`HeapAccounts`) |
| `replicator_pair` | violated | the saved name and position belong together |
| `udp_order` | violated | an answer is joined in sequence number order |

Several properties are stated up to an explicit exception, because the code does
not keep the plain form; what the exception names is the reader's to weigh:

* `LossExplained` excepts a mixed pair (`replicator_pair`), the rows of a statement that
  is not over at the pair, and a LOAD DATA that had begun before the run, whose first
  events only the last process had; and what the program printed and the result file did
  not take, because a write failed or a kill met the buffer of a file named with `-r`.
  It is stated without an offset or a start time on the command line.
* `ReplayBounded` bounds what is printed again to one statement outside the row events,
  and excepts a pair at position 0 (a killed run that had read only the Rotate at the
  start of a dump) and a mixed pair from the claim that the pair is never before the
  start of the run.
* `SkipsExplained` excepts messages jumped over because the consumer's position had
  been removed, messages of a later process, whose numbers start at zero, and those a
  call moved the consumer's row to before it failed.
* `PoolSound` charges one failed read to a connection that was cut, and a second to one
  whose result was awaited at that moment, because its handle goes back to the queue.
* `SleepExact` speaks of timers that are not overdue (`ae_oversleep` shows the others), and
  `WalkInList` of the timer in hand only until its handler deletes it: the period is then
  written to freed memory, or to a timer created since.
* `Transparent` has the rest of a SOCKS request that was read in part in front of what the
  application sends.
* `ResumeExact` speaks of rows behind the map of their own table: of a statement over
  several tables whose maps come first, the rows of all but the last are lost.
* `SavesInOrder` speaks of callers that kept their lock: one whose lock expired
  saves older rows over newer ones.
* `ReplyExplained` admits pieces of several answers if all of them were sent to the
  call's number and port.
* `Delivers` excepts, for one-threaded relays, traffic beyond the connection's room in
  both directions at once, where the two blocking writes wait for each other.
* `RowsExact` speaks of the bytes before the first misread column, and of the text of
  decimals of one group before the point and at most one behind it.
* `VectorExact` excepts members whose last call met a limit (a full column, of which
  both functions say nothing), and the order after scores 2^31 or more apart.

### Bounds

* `threaded_safety`: four client structures of which `maxclients` = 3 may be
  connected, so the limit is met with a connection waiting; three threads, so
  that one can sleep, one run and one be between two critical sections; a pipe
  of two bytes, so that it can hold more than one and the third thread finds it
  full (a real pipe holds more, which only removes waiting); a
  reply of two units, so that a partial write happens. Clients and threads are
  interchangeable and symmetric. Deadlock is not checked in this run only
  because registrations that fail can strand every client, after which nothing
  happens.
* `redis_proxy`, server: two clients, two threads, one byte; no symmetry; deadlock
  checked. Registrations do not fail there: a client that cannot be registered
  is never answered, as the code stands.
* Backend: three jobs, so that a connection is kept, broken and replaced; two units
  per request and per reply, so that each can break in the middle; two clock units.
  `NumJobs` is a bound of the model: the run may end when the last job has
  (`AllJobsEnded`), any other halt is a deadlock.
* OnDemandIO: two clients, two thread structures, `vm_max_threads` = 1, so that
  the limit is met; the constraint `QueueBound` cuts lists that grow by the
  repeated queueing of one client. The process may end, so deadlock is not checked.
* In `redis_server`, AeFileEvents: three descriptors of which two fit AE_SETSIZE, two handlers. With
  no registered event and no timer the loop has nothing to wait for, so deadlock is
  not checked.
* AeTimeEvents: seconds of three ticks, the clock up to five, three identifiers; periods
  below, equal to part of, and above a second. The clock stops at `MaxNow`, so
  deadlock is not checked.
* Anet: two threads and three descriptors, so that one thread gets the number another has
  just closed and both can be refused; one failing `fcntl`.
* UuidRealloc: two clients, four blocks, which a request and a reply of each fill, or fewer of them
  once a reply is lost; requests of up to three bytes read two at a time.
* AdList: three addresses and two values; ReplyFraming: replies of up to two bulks of six
  kinds, among them bulks that end or are cut in CR LF and one that looks like a header.
* UuidServer: three hosts, of which two have ids that fit and one has not; two
  sequence numbers to the field, so that three identifiers make it come round;
  three seconds, the first before the epoch; two starts per host; two connections
  with `maxclients` = 1, and replies that a `write(2)` takes or not, as no property
  is about their parts. `MaxIssued` = 3 is enough because the properties relate
  two identifiers and the third is needed only to come round.

* Replicator: five histories of one or two logs (queries with and without a
  database, rows of two tables, each kind of LOAD DATA, logs of a 3.23 server), eight command
  lines, of which two let writes of the result fail and two have it in a buffered file, three runs of the program: the second can lose and the third repeat.
* SelectCache: three callers, a lock and rows that live one tick, one retry (of ten), two
  updates. HandlerPool: two threads, three handles, two restarts. IcqQueue: two
  starts, four messages, two open transactions.
* RowImage: tables of two columns, the first at each boundary of its encoding, and one
  of eleven columns, whose NULL bitmap has two bytes; up to two images. BinlogListener:
  two masters with rotations, statements of several row events and over two tables, with each
  map in front of its rows or both in front;
  a queue of one; three starts.
* VectorUdf: three pairs to a column, numbers of three bits, so that the difference of two
  scores changes sign at four; columns that begin empty, with bytes that are no pairs,
  and with a pair too many.
* Relay: a connection and a buffer of two bytes; a few bytes one way against one, or more than fits
  both ways; requests of two and of three bytes, of which two are enough for the server
  (`MinHeader`, nine in the code), so that a longer one is read in part; a byte has five values, so that coding wraps. RelayPool: four descriptors for two
  workers and the factory. UdpGet: two calls, answers of one or three datagrams.
  EchoCell: two connections, two bytes each, one byte of send buffer.
* The parts of `services` and `relays` end where their bounds do, so deadlock is not checked.

### Fairness

`ThreadedIO!Fairness`: every runnable thread runs (weak fairness on its steps); a
thread that tries to take `io_mutex` again and again gets it (strong fairness);
the readable pipe is served even if clients keep the loop busy (strong fairness
on `pipeReadable`: one call of `aeProcessEvents` dispatches every descriptor
epoll reports). Nothing is assumed of clients, and spurious wake-ups are neither
assumed nor excluded.

`Backend!Fairness`: the thread runs and the clock moves. A `write(2)` on a
connection the backend has closed returns. Nothing is assumed of a backend
that keeps the connection open without reading. For this reason
`EveryJobEnds` is stated for requests that fit the send buffer: SERVER_TIME_OUT
is tested after each `write(2)` on a blocking socket, so it does not bound one.

`Relay!relayFairness`: both relays' threads run, a connect that is tried returns, and
the application and the target send what they have and read what arrives. `Delivers`
is about the relays, not about ends that stop.

### Disagreements between the code and its comments

Each is a run that TLC ends with a counterexample.

1. `redis-proxy/echo.c:49` (`backend_inline`). "return 1 if the request if full and
   valid" (line 31), but two inline commands in one read are one request. The
   second reply stays on the kept connection and goes to the next client.
2. `redis-server/redis.c:479` (`ondemand_stranded`). "This function must be
   called while with threaded IO locked" (line 476); its caller does not hold the
   lock. A thread that has found the list empty and is about to exit is still
   counted, no thread is spawned, and the job waits for the next request.
3. `redis-server/redis.c:435` (`ondemand_freed`). "to avoid race conditions"
   (378-379), but the read event stays registered and frees clients that are in use.
4. `redis-proxy/ae.c:320` (`ae_stale`). "we check if the event is still valid"
   (317-319); masks are compared, not descriptors. One handler that closes a descriptor,
   opens one of the same number and registers it is enough.
5. `myreplicator/src/myreplicator.cc:1663` (`replicator_pair`). "It will write the last
   log position and filename" (`myreplicator/README:4`); a Rotate sets the name before the
   pair is saved, with a position of the old log.
6. `uRedis/uRedis.php:193` (`udp_order`). "concatenate the payloads ... in sequence number
   order" (41-42); they are joined in the order of arrival.

7. `redis-server/ae.c:295` (`ae_oversleep`). "sleeps until some file event fires, or when the
   next time event occurrs" (251-252); seconds and microseconds are cut at zero apart, so
   an overdue timer leads to a sleep of up to 999 ms.

Noticed on the way, without a run: `processTimeEvents` writes the period to `te` also when
the handler has deleted its own timer (`redis-server/ae.c:237`), which no handler of the
servers here does; a listener that has lost its connection never connects again (`BinlogListener.py:59`);
ebinlog misreads the columns named by `Misread`, and prints a decimal of several groups
with several points; the rows of a statement's other tables are read with the last
table's columns; an event whose output fails is saved as printed (`myreplicator.cc:751`);
sock4a's server takes nine bytes for a whole request; a MySQL handle without a result goes
back to the pool (`handler.cpp:88`); a `get_next` that fails may have moved the
caller's row (`ehaildb.cpp:366`); a full
vector ignores new members silently; the comment of `aeProcessEvents` announces time
events before file events, the code does the reverse; the comment above
`queueIOJob` in redis-proxy asks for a lock that the function takes itself;
`freeClient` sets `wbuf` to NULL without releasing it when `rbuf` is not NULL;
`get_uuid_52bit` needs more than 52 bits since the second 515483463 + 2^30 (May
2020).

## 4. Proofs

For every finite set of clients and threads, every pipe capacity, any limit of
clients, with and without failing registrations (`ThreadedIOAssumption`):

* `TypeCorrect`: `TypeOK`. Not inductive alone: `mask[mc]` and `wlen[tc[t]]` are
  updated where the program counter says there is a client in hand. `TInv` adds
  `HandsOK`, that there is one exactly then.
* `ListsAreLocked`: `MutualExclusion`, inductive with `TInv`.
* `PipeAlwaysAccounts`, `AssertNeverFails`: `PInv` = `TInv`, mutual exclusion and
  the accounts. The set of threads that owe a byte grows or shrinks by one thread
  in a step, which is where the finite-set theorems come in. The assertion in
  `vmThreadedIOCompletedJob` cannot fail, because the byte in hand is one of the
  terms of the sum.
* `OwnershipIsSingle`: `SInv` = `TInv`, `SingleOwner` and `OneEvent` (a client has
  at most one event registered). The last is needed at `processInputBuffer`:
  deleting AE_READABLE leaves no event only if there was no other.
* `WorkAlwaysConserved`: `WorkConserving`, inductive with `TInv`. A thread decides to
  sleep under the lock that the main thread needs to append, so the job that fills
  an empty list either finds the thread awake or is followed by its signal; the last
  thread that wakes is the one the signal took from the sleepers.
* `BuffersAlwaysFit`: `JInv` = `SInv`, `JobBuffers` and `Fresh` (a client whose next
  request can be read has no reply). Without `Fresh` nothing says that the reply of
  a queued client is empty: `resetClient` emptied it one request earlier. The proof
  sorts the places a client can be in by whether its reply exists.
* `ServiceImplemented`: `Spec => ImplementsService`. The connection's state in
  `RequestService` is read off the places of the client (`stateOf`); each step of the
  detailed module moves one client along one step of the service (`OneMove`) or none
  (`NoMove`), on the states `SInv` admits.

For every number of descriptors and every AE_SETSIZE:

* `InterestAlwaysMatches`, `MaxFdAlwaysCorrect`, from `IInv`, which is both with the types and
  that a registered descriptor is open: `aeDeleteFileEvent` recomputes `maxfd` only when
  the highest descriptor loses its last event, which is right only if `maxfd`
  was right; the kernel's set follows the masks only if a registered
  descriptor is open.

For every number of timers, every period and every length of a second
(`TimersAssumption`):

* `WalkAlwaysInList`, `PassAlwaysComplete`: `TimerInv` = `Listed` and `Walk`. New timers go
  to the head and identifiers grow, so the list is sorted by identifier, the
  youngest first (`Listed`). Then the position of the walk splits it: what is due
  and was not run is at the walk's timer or behind it (`Walk`), and a return to the head
  puts all of it behind the walk again. Handlers that create and delete keep the order,
  and the walk starts anew after each, which is why it survives them. A handler that
  deletes its own timer does not disturb this: what `te` then points at was created
  during the pass, and its new time does not change its place.
* `SleepAlwaysExact` from the borrow and the cut at zero alone.

For every finite set of threads, any clients and any width of `io_active_threads`
(`OnDemandIOAssumption`):

* `PipeStaysInStep`, `CompletionNeverAborts`: `PipeInv` = types, `HandsOK`, `PipeAccounts` and
  that the assertion has not failed. What `queueIOJob` does without the lock may lose or
  repeat nodes of `io_newjobs` and miscount threads, but each of these steps leaves
  `io_processed`, the pipe and the writers alone; the account does not need the races
  to be harmless.

For every set of threads, every finite set of descriptors (`AnetAssumption`):

* `SocketsAlwaysAccounted`: `AInv` = `SocketTypes`, `Frames` (what the step a call is at says of
  its socket), `Owners` (one thread owns a descriptor, as caller or inside a creator;
  the other open ones are counted) and `Promises`. A step of one thread touches the
  state of its own socket only, so the others' promises stand.

For every number of servers and connections and every width of the fields
(`UuidAssumption`: distinct server ids, a clock that fits its field):

* `DuplicatesAlwaysExplained`, `AlwaysTimeOrdered`: from `UInv` = types, `Serving`
  (events belong to running servers, whose ids fit), `Recorded` (each identifier
  is the encoding of its circumstances, and none of the current process is
  ahead of its counter) and `NumberedOnce` (a process uses a number once). The
  arithmetic is in `FieldsAreSeparate` and `SecondsLead`: a positional number with
  bounded lower digits determines its digits and is ordered by the leading one.
* `BufferAlwaysHasRoom`: `BufferRoom`, inductive with the types of `event` and `rlen`.

For every number of jobs and every SERVER_TIME_OUT, if no buffer holds two inline
commands (`Inline = {}`, exactly the assumption that `backend_inline` drops):

* `ReplyAlwaysMatchesJob`, `ConnectionAlwaysClean`: `BInv` = `Places`, `OneCommand` and
  `ReplyMatchesJob`. `OneCommand` lists what the connection may hold: before the
  request is complete nothing; afterwards the command, its reply, the rest of the
  reply with its head in the client's buffer, or nothing at all. That a new attempt
  starts on a new connection is what keeps an earlier attempt's reply away.
* `ExecutionsAlwaysBounded`: `ExecutionBounds`, from `BInv` and `Credit`: every command on a
  connection or executed carries its job and one of two attempts, and units of a reply in
  the client's buffer stand for an execution of the job that reads them. Commands the
  backend executes after the proxy has closed the connection are among them.

For every number of workers, every limit on the factory's queue and every set of
descriptors (numbers; `AlwaysOneOwner` assumes only that):

* `AlwaysOneOwner`: `OneOwner` counts owners, which no step argument can use. `PInv` =
  types, `Apart` (no two owners of one descriptor) and `Held` (the descriptors with an
  owner are the open ones that are not lost) says it without numbers, so that each
  step is about the one descriptor that changes hands; `Counted` leads back to the
  count. `socket` returning the lowest free number (`LowestFree`) is used, but any
  free number would do.

For every setup of the relays, every size of buffers and connections and every number of
values of a byte (`RelayAssumption`: more values than the shift of the code, and a SOCKS
answer is not empty):

* `RelayAlwaysTransparent`: from the initial states and the steps of `Relay`, without fairness.
  `Transparent` compares two ends; `RInv` says where every byte in between is.
  What was received, is in flight, held by a relay or still to be sent are adjacent windows
  of one sequence (`Window`, `Flows`), plain outside the two relays and encoded between them;
  what the server's one read takes of a SOCKS request ends at its relay and the answer
  begins there, which shifts the windows (`Skipped`, `Owing`). `Unborn` is the state before that: without it nothing says
  that no byte passes a relay that has not connected. `~cut` excepts the APR port's short
  sends. `Coded` and `Encoded` lemmas: what one side adds the other takes off.

For every set of clients and finite heap (`ReallocAssumption`):

* `HeapAlwaysAccounts`: `HeapInv` = types, `Blocked` (a block has at most one owner, and the blocks
  without one are counted) and `Waits` (which buffers a client has while it waits for an
  event). `Waits` is what makes the early returns safe: each leaves by way of `freeClient`
  or with the buffers of the event that stays registered.

For every set of requests, ports and sizes of answers (`UdpAssumption`: no answer is empty):

* `RepliesAlwaysExplained`: `UInv` = types, `Pieces` and `Returned`. Every piece on the way or in the
  array is one of an answer that was sent and fits it (`Of`); the keys of the array differ
  (`Keyed`); the array was accepted with as many pieces as one of them says. As many
  different numbers below a bound as the bound are all of them (`AllNumbers`, by
  the injection theorem of finite sets).

For every finite set of descriptors, any connections, bytes and send buffer
(`EchoAssumption`):

* `EchoAlwaysSound`: `EInv` = types, `Agrees` for each descriptor, `Dropped` and `Batch`. An
  entry that waits in the list of one poll is that of an open socket unless it is the one
  being handled, and there is one entry to a descriptor; so an accept in the middle of
  a batch never gets the number of an entry still to come, and a HUP still
  tells of the connection it was reported for. Closing by HUP would otherwise throw
  away bytes of a peer that still sends.

For every number of callers, and any moments at which the lock and the rows expire:

* `SavesAlwaysInOrder`: `SavesInOrder`, from `CInv` = types, `Exclusive` (a caller that
  has not lost its lock is the one memcached names) and `Fresh` (what such a caller
  will save was read after the last save). The property compares two saves of two
  callers; `Exclusive` is why no third step comes between a read and its save.

For every number of threads and every finite set of handles:

* `PoolAlwaysSound`: `PoolSound`, from `PInv` = types, `Placed`, `Apart` and `Charged`
  (connections cut and not yet noticed are part of the reads that may still fail; one cut
  while its result is awaited is charged twice).

For any number of starts, messages and transactions left open:

* `SkipsAlwaysExplained`: `SkipsExplained`, from `QInv` = types, `Numbered` (a number is that of
  one message) and `Dated` (a message of the running process has a number below
  `cur_id`). A number that is given below the consumer's position cannot be from the
  process that wrote the message at that position; and between two positions the
  cursor jumps over one message at most, the one it was placed on. Messages a failed call
  moved to count as reached, for the next call goes on behind them.

For every set of logs that a server can write, every command line, any number of runs and
of versions of a file name (`ReplicatorAssumption`). What it says of the logs is what the
program relies on and MySQL promises: a log of version 4 begins with its format
description, a Rotate is the last event and only the last log may be in use, the events of a row
statement are contiguous and a table id stands for one table in it, a LOAD DATA lies in
one log and its id is free again when it is executed, and logs of a 3.23 server are not
mixed with later ones. Every proof starts from `Base`: types, the logs that main has left
(`ArgsInv`) and the reader's place in them (`PlaceInv`). `RunSteps` sorts the steps of
a run, once for all of them: the event at the reader's place is dealt with (`Passes`), one that is not at
a place of the log (`Repeats`), none (`Between`), or the run is over (`Ends`).

* `RowsAlwaysFlushed`: `RowsFlushed` is an action property. `CacheInv`: as long as rows
  wait or a table is ignored, the event before the reader leaves a statement open, that
  statement goes on at the reader, and no option can skip the rest of it. So the last
  rows event finds the caches about to be flushed, whether its own table is ignored or not.
* `LoadsAlwaysComplete`: `FileInv` says of every record in `file_names` with which event its
  file began and that it holds the blocks since then that lie behind the reader; `BlockInv`
  that the lines already printed are complete. Files of earlier runs
  stay out because `create_unique_file` never takes a name that exists.
* `ReplayAlwaysBounded`: `PairInv` follows `current_log_name` (`NameInv`), `evpos` and
  the pairs saved from it (`EvposInv`) along the reader, which `FromInv` keeps
  behind the start of the run; `OutInv` has the printed statements before the pair
  in the buffer, and before the one in the file but for the last. Without `NameInv` nothing excludes a
  position in a log behind the one it is saved with.
* `LossAlwaysExplained`: `CoverInv` says that everything wanted between the start of the
  run and the reader was printed, waits in the caches, or is of a statement that its log breaks off;
  a pair is not ahead of the reader when it is saved, and covers what lies before it
  from then on. It needs to know that what waits belongs to a statement that is open up
  to the reader and that a table is ignored because of a Table_map of that
  statement (`StatementInv`), and that a LOAD DATA the run has met from its first event
  on has its record (`NamesInv`), which fails with a format description of 3.23 (`GlobInv`). What was printed is
  in the result file or in `missed`, which stays empty without failing writes and `-r`
  (`MissedInv`); lines lost with a buffer are moved from the one to the other (`Settled`).

Only model-checked:

* liveness: `EveryJobCompletes`, `EveryJobEnds`, `Delivers`; fairness and ENABLED are
  beyond the prover;
* `ResumeExact` of `BinlogListener`: what a log stands for is a concatenation and a fold over
  its statements, and that a restart yields the rest of it is an induction over them;
* `ListSound`, `FramingExact`, `RowsExact` and `VectorExact`: `AdList`, `ReplyFraming`, `RowImage`,
  `DecimalValue` and `VectorUdf` follow data that is defined by recursion (a chain of nodes,
  a reply, a row, a sorted column), and the prover has no induction for that.

## 5. Not modelled

* The request validator of `redis-proxy/echo.c`: `strstr` may run past the bytes that
  have arrived, so its answer depends on memory; `ThreadedIO` and `Backend` take its
  verdict as a choice.
* Memory: what is leaked or freed twice is modelled only where control depends on it
  (clients, handles, lists, descriptors).
* vector_udf with arguments that are no constants: the init functions read a value
  that is not there yet. Limits above `MaxRank` are not asked of `zrange`.
* ebinlog: dates and times are formatted without effect on any state. `RowsExact` does
  not follow a row behind a misread column.
* `icqServer.cpp` has methods without bodies; `Server.py`, `server.cpp` (mysqlhandler)
  pass calls on.
* `anetResolve` and the error texts of `anet.c`: they change no state.
* Start-up, argument parsing, logging and daemonizing everywhere.
* The parts listed under "Not part of the models" above.

## 6. Plan

What could be added:

1. A statement of `AdList`'s chain that is not recursive (a bijection of positions and
   nodes), from which `ListSound` could be proved.
2. `ResumeExact` for `BinlogListener` over a log that is given as one sequence of rows, if
   the fold over statements can be avoided without losing the parser's offsets.
3. A model of the request validator of redis-proxy, once its answer no longer depends on
   memory behind the bytes that have arrived.

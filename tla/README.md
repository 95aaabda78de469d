# Verification of the rinha-de-backend C API

The program (`src/`) is a small bank: five clients, each with a limit; a
`POST /clientes/N/transacoes` credits or debits a client, a
`GET /clientes/N/extrato` shows the balance and the last ten transactions. Two
server processes behind nginx share one PostgreSQL; the web framework facil.io
is part of the repository and runs the handlers. This directory holds TLA+
models of these parts, the instances TLC checks, and proofs that TLAPS checks.

## 1. Inventory

| part | source | state | operations |
|---|---|---|---|
| balance cache | `models/cliente.h` | `ctx.clientes`: limit and balance of ids 1..5, one mutex | `clientes_init`, `_get_cached`, `_creditar`, `_debitar`, `_update` |
| request handlers | `controllers/cliente.h` | locals of each handler | `cliente_request`, `get_extrato`, `post_transa` |
| queries | `models/transa.h`, `init.sql` | tables `clientes`, `transacoes` | `transar`, `saldar`, `extrato` |
| connection pool | `src/db_postgres.h`, `src/db.c` | array of connections, index of the first free one, mutex | `db_exec`, `db_request_conn_postgres`, `db_return_conn_postgres` |
| statement results | `src/db_postgres.h`, `src/db.c` | a `db_results_t` for each statement | error map, special cases, conversion of parameters |
| startup | `main.c`, `src/db.c` | `db->state` | `db_create`, `db_connect`, polling of `db_stat`, `clientes_init`, `fio_start` |
| request parser | `src/utils.c` | none | `parseIdAction`, `parseTransa` |
| containers | `src/data.c` | list, hash table, dictionary | insert, remove, lookup, iterate |
| string buffer | `src/string+.c` | buffer, length, space | write, append, copy |
| deployment | `nginx.conf`, `docker-compose.yml` | which server has which client; threads, connections and workers of each | routing, `restart: always` |
| task queue, timers | `facil.io/fio.c` | ring buffers; an ordered list of timers | push, pop, schedule, clear |
| sockets | `facil.io/fio.c` | packets of a descriptor, its lock and counter | write, flush, close |
| connection events | `facil.io/fio.c` | protocol, its locks, the `scheduled` flag | `on_data`, `on_ready`, `ping`, `on_close` |
| HTTP/1.1 | `facil.io/http1.c`, `http1_parser.h` | buffer, stop flags, parser state | batches, throttle, `http1_parse` |
| memory | `facil.io/fio.c` | arenas, blocks, their counters | `fio_malloc`, `fio_free` |
| hash map | `facil.io/fio.h` | ordered array and open table | insert, find, remove, compact, rehash |
| processes | `facil.io/fio.c` | root, workers, links | fork, respawn, signals, shutdown |

How they interact. nginx sends clients 1 and 2 to `api1`, 3 to 5 to `api2`. The
reactor of a process turns events of its sockets into tasks; threads take them
from the queue and run the callbacks of a connection under its locks, and
`http1_on_data` feeds the parser, which calls `cliente_request` for each whole
request. A transaction changes the cached balance under the mutex of the cache,
then inserts its row through `db_exec`, then answers. A statement selects the
rows, copies the cached balance under the mutex, writes that balance to the
table `clientes` and answers. `db_exec` borrows a connection for the time of one
statement. Errors of the database are printed and otherwise ignored. The
balances are read from the database once, at startup.

What is hard:

* handlers of one process overlap at every point where they take a mutex or
  wait for PostgreSQL, and rows become visible in another order than their
  times;
* the pool tests its index without the mutex and changes it under it;
* the balance in the database is a copy made by the last statement, perhaps by
  an older one that was overtaken, perhaps by a server that has been killed;
* any statement may fail and the handler goes on; the database may go away
  and nothing ever connects again;
* a server restarts at any time (`restart: always`), and everything since the
  last statement is gone from its balances;
* the balances of a client must live in exactly one process, which nothing in
  the program enforces;
* tests without a lock, try-locks that leave work to others, tasks that carry
  the handle of a connection that is gone, and events that must not be lost,
  all over `fio.c`;
* bytes arrive cut anywhere, clients do not read, processes die and stop.

What makes each part correct is said property by property in the modules.
`PROJECT.json` lists the hazards one by one, each with its line and with the
properties that cover it.

## 2. Modules

| module | what it is | source |
|---|---|---|
| `ConnLease` | what a pool promises: a connection is owned by at most one thread | |
| `ConnPool` | the pool step by step; implements `ConnLease` | `db_postgres.h`, `db.c` |
| `Ledger` | what the service promises: one balance for each client, each call atomic | |
| `Api` | handlers, cache, tables, restarts; implements `Ledger` | `cliente.h`, `transa.h`, `init.sql` |
| `Statement` | one client's statements with their integer widths, results and error codes, through a database that restarts, loses its tables, refuses | `db_postgres.h`, `init.sql` |
| `DbConnect` | from `main` to the first request: connections, polling, restart by docker | `main.c`, `db_postgres.h` |
| `Parse` | path and body of a request, with nginx's routes in front | `utils.c`, `nginx.conf` |
| `List`, `Sequencing` | linked list with its pointers and memory; the ordered sequences it implements | `data.c` |
| `HashTable`, `Dict` | chained table; dictionary over table and list | `data.c` |
| `StringBuffer` | the growing string | `string+.c` |
| `DeferQueue`, `Fifo` | chained ring buffers; the first-in first-out queue they implement | `fio.c` |
| `Timers` | `fio_run_every` and its list | `fio.c` |
| `Socket` | writes, flushes and closes of a descriptor that is used again | `fio.c` |
| `Connection` | protocol locks, event tasks, `on_close` | `fio.c` |
| `Http1` | batches, throttle, resumption and the two steps of a close, on a keep-alive connection | `http1.c`, `fio.c` |
| `Http1Parser` | the incremental parser | `http1_parser.h` |
| `Malloc` | arenas that slice blocks, blocks that come back | `fio.c` |
| `FioSet` | the hash map that holds the headers of a request | `fio.h` |
| `Workers` | root and worker processes | `fio.c` |
| `WindDown` | the end of a process: connections told, counted, timed out | `fio.c` |
| `Library`, `Reactor`, `Processes` | parts that are checked and proved about side by side: instances of the modules above, with a variable `part` in `Reactor` | |
| `ConnPoolProofs`, `ApiProofs`, `StatementProofs`, `ConnectionProofs`, `SocketProofs`, `MallocProofs`, `ReactorProofs`, `ServerProofs` | theorems | |
| `MCConnPool`, `MCApi`, `MCStatement`, `MCLibrary`, `MCReactor`, `MCProgress` | instances for TLC; the last three extend `Library`, `Reactor`, `Processes` | |

The modules of `Api` and of the pool compose the bank. The modules below them
model one mechanism each, with the others as its environment: `Connection` has
the queue of `DeferQueue` as a set of tasks, `Http1` has the locks of
`Connection` and the packets of `Socket` as a lock and a number.

### ConnPool

`connections`, `available` and `lock` are the fields of `db->context`; `pc`,
`retries` and `conn` are the locals of the threads in `db_exec`. One action is
one access to shared state: `Check` the test of line 92 (`CheckFull`/`CheckFree`),
`Lock`, `ReadSlot`, `Increment` lines 94 to 100, `Run` the statement, `Leave`
the test of line 107, `Decrement` and `Store` lines 113 to 116. A call that got
no connection turns the loop again (`Retry`) until `PoolRetry` turns are used.
The two tests are data races in C; on the targets of the build an aligned word
is read whole, so they read some value the index had, which is what the
interleaving gives. `Words` are the array and the words behind it that an index
can reach: these hold zero or something that is not a connection, and a thread
that runs a query on the latter ends the process (`Fault`).

### Api

| action | code |
|---|---|
| `Boot` | `main` up to `fio_start`: `clientes_init` fills the cache, or leaves it zero when the read fails; all workers of a server start with the same copy |
| `Receive` (`Take`, `Verdict`) | `cliente_request` and the parse of `post_transa`: 405, 404, 400 or on |
| `Lock`, `Calc`, `Store`, `Refuse` | `clientes_creditar` and `clientes_debitar`: take the mutex, compute, then test, write and release |
| `Insert`, `Commit` | `transa_insert`: the time of the row is the start of the statement, it is visible from the commit |
| `Rows`, `Lock`, `Copy`, `Update` | `get_extrato`: `transa_extrato`, `clientes_get_cached`, `clientes_update` |
| `Fail` | a statement ends with an error; the handler goes on without rows, or without effect |
| `Respond` | the answer, with `status` and `saldo` |
| `Crash`, `Orphan` | a server is killed; the database may still execute what it was sent |

`booked`, `covers` and `saved` are history variables: which movements are in a
cached balance, in the balance a statement has read, in the saved balance.
`answered` and `must` remember which transactions had been answered when a
statement was asked for. No action of the code reads them.

Abstractions. A request is its client, kind and amount; what `parseTransa`
makes of a body is an input (`Malformed` stands for the ones it rejects). The
answer to a rejected request is only its status. Integers are unbounded. The
clock moves on with every commit, so that a row of a statement sent after
another one was answered is later, and rows whose statements overlap come in
any order or at the same instant. A failed statement that did take effect is
the same as one that succeeded, since the handler only prints the error. A
server is killed as a whole; the respawn of a single worker is in `Workers`.
`limite` of an answer is left out: it does not change after `Boot`.

### The statements and the start

`Statement` follows an amount from the C integer to the table and back: it is
printed with the width of its format (`AsInt`), read by the procedure's
parameter (`Fits`, 3 bits stand for 32), and stored or refused; the result is
mapped to a code as `db_exec_function_postgres` does, special cases and the null
result included (`Code`, `Remap`). `Lose` is a crash of PostgreSQL, which
empties the unlogged tables. `DbConnect` is `main` with libpq as environment:
`Decide` is PostgreSQL's verdict about a connection, `Outage` and `Recover` its
going and coming back, `Restart` docker's.

### facil.io

A section under a lock is one action unless somebody looks at the lock from
outside; a test made without the lock, a try-lock and its failure are actions
of their own. Threads are the threads of the pool, each with the task it
performs. `Socket` gives a descriptor to one connection after another and keeps
the handles (`uuid`) that calls still carry; its counter is unbounded, 8 bits
wide in C, so that a handle that is good again after 256 uses of the descriptor
is not in the model. The history variable `mistaken` holds the connections whose
data a call for an earlier connection has marked, dropped, cleared or closed.
A write that fails closes the connection for the errors `fio_flush` names
(`SendFails`); any other, as the reset of a peer, is logged and answered with 0
(`SendReset`), and the packets stay. `Connection` has the three kinds of
lock of a protocol and the tasks that postpone themselves; `MarkClose` is the mark
of a `fio_close` with packets in the queue, which `deferred_on_data` takes for a
closed connection (`Reads`). `Malloc` has blocks
of slices instead of bytes; what `memory.lock` guards is one action, what is
only counted is not. `WindDown` runs on one thread, so that a task is one
action. In `Http1` a close is a test of the packets (`Close`) and a mark (`Mark`),
with the flushes of other threads in between, and the history variable `missed`
remembers a mark, or a throttle, that came after the last flush. In `Http1Parser` the text of a line, a chunk's size and a byte of a body
are one symbol each, so that a piece can be cut between any two of them, and also
between the two characters of a line's end, but not of the headers' end (see
below).

## 3. Runs

| run | question | instance |
|---|---|---|
| `pool_deployed` | does the pool work when every thread has a connection? | 3 threads, 3 connections, 2 turns |
| `pool_readme_env` | does each query have a connection under the sample environment? No. | 3 threads, 2 connections |
| `api_deployed` | do rows, balances and saved balances agree, is each call atomic, do statements show what was answered? | 2 servers, 2 clients, 3 threads, 3 requests, 1 failure, lists of 1 row |
| `api_restart` | what survives a kill, late statements and a failed first read? | 1 client, 2 threads, 3 requests, 1 kill, 1 failure |
| `api_limit` | is every debit within the limit accepted? No. | 1 client, 2 threads |
| `api_workers` | does a statement show what was answered with several workers? No. | 2 workers of one server |
| `statements` | which failures are reported, what can the tables hold? | 2 threads, 2 connections, 3-bit integers, 2 posts, 1 failure, 1 loss, 1 restart |
| `statement_null` | is every failure reported? No. | the same |
| `library` | do the containers, strings, parsers and the header map keep what they are given? | below |
| `reactor` | are the parts of facil.io that threads share safe? | below |
| `descriptor_reuse` | do handles keep a connection's packets from the next one? No. | 2 threads, 3 connections, 1 packet each |
| `progress` | does what must happen happen? | below |

`library`, `reactor` and `progress` check several modules in one run. Their
first state chooses a part, and only that part moves: the state space is the sum
of the parts', and each module is checked just as it would be alone. A property
of such a run is the conjunction of the modules' own properties, each for its
part; the modules are unchanged. In `progress` a fairness condition of the run
(`Fair1`, `Strong1`, ...) stands for one condition of each of several modules:
since one part moves, it is that module's condition and no other.

| property | what it is made of |
|---|---|
| `EveryKeyFound` | `HashTable`, `Dict` and `FioSet`: entries are where they are looked for, table and list of a dictionary agree, a header is found exactly when it is there and headers keep their order |
| `KeptUntilRemoved` | a key's value changes only when it is removed (`HashTable`) |
| `ListsWhole`, `ImplementsSequencing` | pointers, ends and sizes agree, iterations miss nothing that stays, and the lists are the sequences of `Sequencing` |
| `StringsKept` | text as asked for, terminator inside the buffer |
| `RequestsJudged` | good bodies accepted and read right, the bodies of the load test refused; of a path that names one client nginx and server agree on it |
| `TasksSound`, `ImplementsFifo`, `RunsAsAsked` | queue: blocks owned once, first in first out; timers: in one place, in order, never early, as often as asked |
| `MemorySound` | pieces never overlap, a block goes back once and wiped, none is lost |
| `BytesInOrder` | packets go out in order and without a gap, to another connection only if a call for an earlier one has struck theirs, all before a close; with one connection no call strikes another |
| `NothingForgotten` | what a flush leaves has a flush to come, unless the peer is gone; data that arrived has an event or will be read, unless the connection is marked for closing |
| `UsedByOne` | callbacks of a kind exclude each other, `on_close` is last, once and alone; no pool connection has two threads |
| `RequestsIntact` | the parser reports the requests that were sent, wherever they are cut but between the two characters that end the headers, and refuses contradicting lengths; after a request that closes at most one is handled by each other thread |
| `ProcessesSound` | never more workers than asked for, none left behind; serving only with all connections up, each freed once; a process does not end before a told client's answer is sent |
| `PendingBounded` | answers waiting for a slow client are bounded |
| `StartEnds`, `WorkersComeAndGo`, `NothingStays`, `AllAnswered` | liveness: the start decides, and serves if the database stays; workers are replaced and all end; timers finish, packets are sent unless the peer goes, `on_close` comes, a process that is told to stop closes its clients; pipelined requests are answered, up to one that closes the connection, which is then closed, except after what `missed` names |

Parts and bounds. `library`: table of 2 buckets, 3 keys; 3 dictionary nodes; 4
list nodes in two lists; strings of 6 with a chunk of 2; bodies of a few
symbols; paths with a segment `/clientes/N/`, with digits before or behind it or
another such segment behind it; 4 headers of which two have one hash and three one place, tables up to
32. `reactor`: buffers of 2 tasks, 3 of them; 2 timers with intervals up to 2;
one connection with 3 packets, or two that use one descriptor; two connections
with one forced event and one user task, or one that is suspended and read
slowly; 2 pipelined requests for the parser, with lengths repeated, contradicting and
beside a chunked body, and 4, in batches of 2, for the
connection that closes; 2 threads, 2 arenas and 2 chunks of 2 blocks of 2
slices; 3 threads with 2 pool connections.
`progress`: 2 workers, 3 forks and a crash; 3 connections to the database, 2
outages; 2 timers; a connection with 2 packets; 3 pipelined requests with
batches of 2, throttled as soon as an answer waits, of which one may close, on two
threads, so that a flush can fall between any two steps of `http1.c:713` or of
`fio_close`; a process that ends with 2 connections.

Why they are enough. What matters to the pool is whether there are more threads
than connections, and three threads are enough to have one in each critical
section and one at an unlocked test. In `Api` each property is about at most two
movements and a statement that overlap, or one of each in order; the limit of 2
with amounts 1 and 2 puts balances on both sides of the limit and on it, and
lists of one row are cut off by the second. Everywhere in `fio.c` a race is
between two threads and one that closes or polls; the bounds let a buffer fill
and a second one be chained, a descriptor be used again, a block be emptied by
the last of two pieces on another thread, a table grow twice and shrink.
`progress` has fewer packets and connections than `reactor`, because liveness
costs more.

Bounds of a run: `MaxRequests`, `MaxFailures`, `MaxCrashes`, `MaxPosts`,
`MaxLosses`, `MaxRestarts`, `MaxOutages`, `MaxNulls`, `MaxForks`, `MaxTime`,
`MaxConn`, `MaxWrites`, `MaxForced`, `UserTasks`, `MaxMessages`, `MaxPieces`,
`MaxChain`, `MaxLen`, `MaxBits`, `MaxFd`, `MaxUnsent`, `Words`: each is a guard
of the action it counts. `Done` is the stutter at the end of a bounded run of
`Api`. Deadlock is not checked where a part comes to its end: `pool_readme_env`
(`Fault` ends the process), the runs of parts, and `descriptor_reuse`, where all
connections may have come and gone.

Fairness. `SomeCallEnds` and `EveryRequestEnds` assume weak fairness of each
thread's steps: the system schedules it, nobody sleeps while holding a mutex,
PostgreSQL answers or fails. Nothing is assumed about who gets a mutex first, so
`SomeCallEnds` says only that some call ends, again and again; `EveryRequestEnds`
speaks of every request because requests are bounded. `Boot`, `Receive`, `Crash`
and `Orphan` are not fair. In `progress` the same holds of threads and
processes; `main` polls and libpq decides; time passes and the reactor cycles.
Strong fairness is assumed where a try-lock or the kernel decides: a thread that
tries a lock again and again while others hold it for one callback gets it, a
kernel that is asked again and again takes a packet (not in `WindDown`, whose
clients need not read: there the clock is strongly fair instead, since it goes
on however often the loop turns within a second).

### Disagreements found

Each of five runs shows one:

* `pool_readme_env`: with more threads than connections (`README.md:119-120`
  gives 10 connections to 25 threads) threads pass the unlocked test together
  and one reads `connections[available]` past the array. If the word is zero
  the increment of the index stays, and the pool is one connection smaller from
  then on. `docker-compose.yml` gives 21 connections to 20 threads, which
  `pool_deployed` and the theorems show to be enough.
* `api_limit`: `clientes_debitar` refuses a debit that leaves exactly
  `-limite`; `test.sql:59` and the load test accept it.
* `api_workers`: with `SERVER_WORKERS` above 1 (`README.md:121`) each worker
  has its own balances.
* `statement_null`: a null result of libpq leaves the code at
  `db_error_ok`, so a statement on a connection that has gone is taken for a
  success from the second one on.
* `descriptor_reuse`: handles "prevent old connection handles from sending data
  to new connections" (`fio.h:558-559`), but `fio_force_close` tests its handle
  once, before it drops, clears and closes. Of two closes at once the slower one
  clears and closes the connection that has been accepted on the descriptor in
  between; the descriptor is given out again while that connection's data still
  stands for it, and its packets go to the next.

Seen while modelling, without a run of their own; where a property would fail
because of one, its statement excludes the case and says so:

| where | what |
|---|---|
| `db_postgres.h:77` | the loop that is to "free all created ones" calls `PQfinish` on the connection that failed each time; the others stay open |
| `utils.c:51` | a `tipo` that is no string is read from the quote of the next key, and a `valor` that is no number as 0 |
| `data.c:140` | `list_merge` destroys the nodes it has just linked |
| `data.c:398` | the walk of `hashtable_set_by_hash` does not compare the last key of a chain, so a key can be there twice |
| `data.c:530` | `dict_set_bin` leaves the old key in the table |
| `string+.c:150` | an append to a wrapped string starts it anew: its text is lost |
| `fio.c:1070` | `fio_defer_has_queue` overlooks tasks that exactly fill the one buffer |
| `fio.c:1297` | `fio_run_every` rejects its arguments without the `on_finish` that is "always called (even on error)" |
| `fio.c:2881` | `fio_close` sets its mark without the lock; when a flush empties the buffer and tests the mark in between, nothing but a later flush looks at the mark (`AllAnswered` leaves these out: `"close"` in `missed`) |
| `fio.c:3029` | an error that is none of those named, as `ECONNRESET`, is logged and answered with 0: the packets stay with no poll, no task and no thread to send them, until the poll reports the hang-up or the connection times out (`FlushOnItsWay` and `EventuallySent` leave out peers that are gone) |
| `fio.c:988` | the clearing of a queue gives its blocks to the `free` of the C library, although they come from `fio_malloc` |
| `fio.c:3043` | the slow-reader branch of `fio_flush` detaches a protocol without its lock, so that `on_close` can run with a callback; it does not count down either, so that a process that ends would wait for ever |
| `fio.c:2193` | a connection marked for closing drops its data event, and is polled for reading no more; and the test comes before the lock: a task that has passed it handles a request that was sent after one that asked to close, or after bytes that are no request (`LateBounded` says how many) |
| `fio.c:2268` | a task already in the queue clears the flag `fio_suspend` sets, and `on_data` runs although nothing forced it |
| `fio.c:2957` | a flush that makes progress does not touch the connection: a client that reads slowly is dropped 8 seconds after the process was told to stop |
| `fio.c:2931` | the link of a worker to its root is not counted when it is told to close, but counts down when it closes: the process can end before an answer is sent (`AnswersSent` excludes it by `stray`) |
| `fio.c:3916` | a signal between the set-up of its handler and `active = 1` is forgotten |
| `fio.c:7082` | after a fork the locks of all arenas are reset, also of one that another thread was in |
| `http1.c:715` | when the buffer drains and `on_ready` runs between the test of `fio_pending` and the suspension, nothing resumes the client (`"on_ready"` in `missed`, which `AllAnswered` leaves out) |
| `nginx.conf:26` | the expressions of the two locations have no anchor and the first that matches anywhere wins: `/clientes/3/clientes/1/x` goes to `api1`, which handles it for client 3 with a balance of its own (`RoutedAsParsed` speaks of paths that name one client) |
| `http1_parser.h:837` | when the end of the headers is cut between its two characters, the second is taken for what follows |
| `fio.h:6104` | removing the last header inserted empties its place in the table; if that place was a hole used again, headers behind it are no longer found (the compiled code does this, too). The server removes no headers |
| `fiobj_hash.c:220` | the test for an empty hash is inverted |

Beside these, the models show behaviour no document speaks about: a restart
takes back the balance of the last statement although later transactions were
answered and their rows stay; of two statements at once the older balance can
be written last (`cliente.h:50`); a failed first read makes the server serve and
save zeros. What still holds then is checked by `api_restart`.

## 4. Proofs

**Pool** (`ConnPoolProofs`), for every finite set of threads and every number of
connections not below theirs (`Provisioned`). The index is tested without the
mutex, so why is it right? Because it counts: `CountInv` says it is the number
of threads that have been lent a connection, so for a thread that is still
asking it is at most the number of the others, which is below the length of the
array. The test itself is never needed. Around this count, `HasInv` says that
threads hold distinct connections and `SlotInv` that the slots from the index on
hold distinct connections that no thread has, except the slot at the index
while the owner of the mutex is between its two writes (`Busy`). None of these
is inductive alone; together with `TypeOK`, `LockInv` and `RunningInv` they are
(`IInv`). From `IInv` follow `OneConnPerThread`, `IndexInBounds`, `NeverRefused`,
`ConnComesBack` and `PoolWholeAgain` (when every call has ended each connection
is in exactly one slot again), and the refinement of `ConnLease`: `Increment` is the
grant, `Store` gives back, all other steps stutter.

**Limit** (`ApiProofs`), for any sets of servers, workers, threads, clients, any
limits, any bounds, with failures and restarts, and with several workers too.
`LimitHeld` is not inductive, since a statement saves a balance it read long
before and a killed server's statements still arrive: `LimitInv` adds that every
balance on its way somewhere (`HasBalance`, `orphans`) is within the limit, and
that the limit in a cache is the client's or a zero that was never read. The
theorem assumes `AmountsNotNegative`; the parser accepts a minus sign.

**Atomicity** (`ApiProofs`): with one worker for each server
(`OneWorkerPerServer`), no restart and no failed first read (`NoRestart`), `Api`
implements `Ledger`. The invariant says that who computes, stores or copies owns the mutex,
that what it computed is still the cached balance plus its own amount when it
stores it, and that clients are only served by their own server. `Store` is the
effect of a credit or debit, `Refuse` of a refused one, `Copy` of a statement.
Statement failures are allowed.

**Pools of any size** (the second part of `ConnPoolProofs`): `NoSharedConn` holds whatever the
number of threads and connections is, so that a pool that is too small can give
out a word that is no connection, but never a connection that is in use. The
index is no longer the number of threads that were lent a connection, since a
null word behind the array is counted and never returned. What is left of the
counting (`SmallCountInv`) is that the index never falls below that number and passes
the end of the array by no more than the threads that were past the test; words
from the index on may repeat words that are no connection, but no connection
(`WordInv`). `SmallPoolTypeOK` and `PoolNoSharedConn` follow, the former also
saying that the index never goes below zero.

**HTTP/1.1 connection** (`ServerProofs`), for any non-empty finite set of threads,
any throttle and any batch (`Deployable`). `PendingBounded` needs that a batch is
opened at the throttle or below and that every response takes one from what is left
of it (`Room`), and that only one thread is in a batch, as the one that is inside
has the task lock (`DataAlone`). For `LateBounded`, `LateKept` adds the requests handled
late to the threads that looked at the connection while it was open and may still
handle one (`Coming`): nobody joins them once it is marked or closed, and who handles a
request then empties the buffer and stops, so the sum stays below the number of
threads. The thread that marked it is the one that is missing from it. For
`Http1TypeOK`, the accounts say that while the connection is open each request the
client has sent is answered, unread, unparsed or pending, also between the two
steps of a close, and that who parses has something to parse.

**Balances** (`ApiProofs`), for any sets of servers, workers, threads and
clients, with several workers, failures and restarts. `BalancesAreSums` says
that no update is lost and none counts twice. `SumsInv` adds what makes a store
right: who computes has the mutex and the balance has not changed since, and the
number of a request that has still to store is in no balance, cached, saved or
on its way to be saved (`Backed`), so the movement that is added is a new one.
Sums of sets are folds, which the provers cannot induct over; `SumOfMore` (the
sum of a set with one member more) is proved from a minimal counterexample: the
family of the subsets for which it fails has a smallest member (`MinimalSet`).

**History** (the second part of `ApiProofs`), with one worker for each
server (`OneWorkerPerServer`) and no restart (`NoCrash`): `SavedNeverAhead`,
`TotalCoversListed`, `ReadYourWrites`, `RowsMatchBalance`. They share `HistoryInv`.
`RecordsInv`: every row, every saved movement and every answered transaction of
a client is counted in the one cache it has, and the counted ones without a row
are in flight or no more than the failures. `CallRecorded`: each call has a
number of its own, and what a statement must show was counted, and without
failures had its row, when it was asked for. `StatementRecorded`: what a
statement has read is counted by the balance it goes on to copy. The two
assumptions are what the deployment gives between two restarts; `api_workers`
shows that the first is needed, and `api_restart` checks what is left without
the second.

**Statements** (`StatementProofs`), for any finite sets of threads and
connections, any width of an `int`, through failures, lost tables and restarts. For
`SilentOnlyWhenTold`, `SessionInv` says that a connection is borrowed by one
thread, and that of a bad connection a failure has been reported or its
borrower has it to report. For `SavedWasCached`, `SavedInv` follows a balance on
its way into the table: it is one the cache had, or the same modulo the width
(`AsIntSame`: what `AsInt` makes of an integer). For `RowsWerePosted`, `RowsInv`
counts, for every amount, the rows that show it together with the statements on
their way to add one: never more than the movements posted.

**Read side of a connection** (`ConnectionProofs`), for any set of threads and any number
of connections and events (`Sane`: the marker for "no thread" is none).
`LockInv` says that a thread inside a callback has the protocol's lock for its
kind of task, that no two have the same, and who has the descriptor's lock:
`OneAtATime` follows, also when a slow reader is detached without that lock.
For `ClosedAlone`, `CloseInv` follows the `on_close` of a protocol: it is nowhere
while the protocol is attached, then in the queue, in one thread, or over, and
once it has begun nobody has the protocol's locks. That is not so when
`fio_flush` takes a client for an attacker (`fio.c:3043`), so the theorem assumes
`~Slowloris`. For `DataOnItsWay`, `DataInv` says who will see to the next event of a connection
that is not marked for closing: a poll, a queued event, a thread that brings one, or
an `on_data` that runs and will ask for the next because nobody has set `scheduled`
since it began. `ConnectionUsedByOne` puts them together, with or without
`Slowloris`, as the runs check them.

**Write side of a connection** (`SocketProofs`), for any set of threads and any number
of packets and of connections that have the descriptor one after the other,
with hang-ups and several closes at once (`Sane` again). The connection whose handle
the descriptor has is `Live`; the queue is the end of what was written to it
(`QueueInv`), so what has left the queue is a beginning, and what has gone out
is that beginning until `fio_force_close` drops the rest (`SentInv`):
`OwnInOrder` and `NoGap`. A thread is past the point where it will strike the
live connection only if `fio_close` was called for it, and then all that was
written by that time has been sent (`Kept`): `AllSentBeforeClose`. `OwnerInv` says
that the kernel's descriptor is the live connection's, unless a close that meant
an earlier one has taken it (`mistaken`); a write that finds it gone then knows
its peer has hung up. `AllSentBeforeClose` and `FlushOnItsWay` except such a peer,
the latter because a flush that fails with a reset gives up without a close: for
every other connection a packet has a poll, a queued flush or a thread that will
flush or close. `mistaken` cannot be left out of the statements: `descriptor_reuse`. With
one connection it is empty (`SocketOneConnection`): `OneInv` says that who is past the
test of the handle means that connection while it lives, and that the descriptor
is not closed before it has been registered.

**Memory** (`MallocProofs`), for any finite sets of threads and arenas, any chunks
of any number of blocks and any sizes of pieces (`MallocBounds`). `MallocInv` says
of every block what its counter counts (`Counting`): the pieces cut from it that are
in use or on their way back, the arenas that have it and the threads in `fio_free`;
at zero a thread, and no other, is wiping it or putting it away. So a block is in the pool
once and wiped (`Wiping`, `Written`), pieces are apart (`Pieces`), and a chunk is
given back by one thread, which has taken its blocks out of the pool (`Giving`). No lock guards these
counters; the proof is that the last decrement is seen by one thread only.

**Timers** (`ReactorProofs`), for any timers, intervals and repetitions
(`TimersBounds`). `TimersInv` is the types, the three invariants and `Counts`: what a
timer has left of its repetitions and how often it has run make up what was asked.
The work is in `AddOrder`: the place found by `fio_timer_add_order` keeps the list
in order and every timer in it once.

**Task queue** (`ReactorProofs`), for any length and any finite set of blocks
(`QueueBounds`). `QueueInv` says that there is a line of blocks from the reader to
the writer, that each in use is on it and the others are spare, and that each ring
is in one of its two positions (`RingOK`). What a ring holds, `Ring`, gets longer at
the end by a push and shorter at the front by a pop, and the contents of the queue
are the rings along the line put together. From these follow `BlocksOwned`,
`HasQueueTells` and the refinement of `Fifo` (`ReactorImplementsFifo`). The definitions
behind the contents are recursive functions; that such a function exists and has the
values its equation says is proved from a least counterexample (`LeastNumber`, from
`WFMin` and the well-foundedness of the naturals), as the library's induction
theorems take operators.

**Start, workers, end of a process** (`ServerProofs`). `StartInv`, for any number of
connections (`StartBounds`): what `db_connect` has made is a beginning of the array,
`db_stat`'s verdict covers the slots it has passed, and only an exit frees.
`ProcessInv`, for any number of workers and forks (`WorkersBounds`): workers are
numbered as they are forked, one that was waited for has ended, and the root is done
when it has waited for all; with it `NeverTooMany` is kept by every step. `WindInv`, for any number of connections,
packets and any grace (`WindBounds`): `connection_count` is the number of connections
told and not yet closed, as long as no link has been counted down (`CountInv`), the
connections that are to be told come first in the queue, each once (`Ordered`), and nobody is waited for when
`fio_cycle_unwind` is not to run again (`EndInv`). `ServerProcessesSound` is the
three together.

**Tables and strings** (`ServerProofs`). Entries stay in the bucket of their key, so
a `get` changes by removal only, for any hash and any table. In a dictionary over
finitely many nodes every key of the list leads through the table to its node
(`DictInv`). A string that has not been misused is what was asked for, with its
terminator inside its buffer (`StringInv`), for any alphabet and any chunk; a text
that belongs to somebody else (`Borrowed`) is the exception the table above names.

**Parts side by side.** `ReactorMemorySound`, `ReactorBytesInOrder`,
`ReactorNothingForgotten`, `ReactorUsedByOne`, `ReactorTasksSound`,
`TimersRunsAsAsked`, `ReactorImplementsFifo`, `StringKept` and `ServerProcessesSound`
state the very properties the runs check. Where a component has a proof module of
its own it is instantiated, so its theorems hold of the part: with `Sane`,
`MallocBounds` or `PoolAssumption` of that instance as assumption.

Only model-checked:

* all liveness: the provers have neither fairness nor ENABLED here;
* `ListsWhole` and `ImplementsSequencing`: the lists are chains of pointers whose
  contents are recursive functions of the heap, which the invariant would have to follow
  through every insert and removal;
* of `EveryKeyFound` the header map (`FioSet`), whose search follows a recursive function;
  that the dictionary finds its keys is `DictKeysAllFound`;
* `RequestsJudged` and the parser's half of `RequestsIntact`: what a parse computes
  for every input is induction over data (the other half is `Http1LateBounded`).

## 5. Not modelled

* `array`, slices of strings, comparison, search and replace, the arithmetic of the
  hash functions: called by nothing in the server.
* The JSON text of answers, the formatting of result entries, logging, the load
  test and the environment's values: data, which the properties do not tell
  apart.
* `fio_realloc`, allocations larger than a block, memory after a fork; urgent
  writes, files as packets and the hooks of TLS; a second protocol on a
  connection; the guard of the hash map against many full collisions;
  `http_pause` and upgrades; a `fork` that fails, on which the thread that waits for
  the worker stops the root, and `SIGUSR1`, which asks the workers to be replaced;
  the text inside a line of a request, responses.
* Headers, cookies, static files and the formatting of responses (`http.c`,
  `http_internal.c`): text handling; `Api` and `Http1` take requests and
  responses as units.
* Pub/sub and cluster messages, websockets, Redis, TLS, HPACK, Mustache, JSON
  and the other objects of facil.io: no line of the program calls them.

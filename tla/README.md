# Simurga in TLA+

Simurga is a FastCGI server that shows a clothing catalogue. One C++ process
speaks FastCGI with a web server on one thread, makes pages from MySQL on
another, and Perl scripts change the catalogue underneath. This directory holds
a model of it: modules translated from the source, TLC configurations that
check them on small instances, and proofs, checked by TLAPS, of what holds for
any number of jobs, requests, callers and retries. Paths below are those of the
repository; `fastcgi++` is `src/fastcgipp`, a copy of fastcgi++ 2.1 that lives
with this code and is modelled with it.

    tlc -config MCServer.cfg MCServer        # one run
    tlapm JobQueueProofs.tla                 # one module of proofs

## 1. The system

| component | code | its state | its operations |
|---|---|---|---|
| Job queue | `src/jobqueue.cpp` | `queue_`, `stop_`, mutex `guard_`, condition variable `signal_` | `add`, `stop` from any thread; `run` on the job thread |
| FastCGI manager loop | `fastcgi++/manager.hpp`, `manager.cpp` | maps `requests`, queue `tasks`, `messages` for itself; `asleep`, `stopBool`, `terminateBool`, a mutex for each | `handler` (the loop), `push` from both threads, `stop`, `terminate`, the signal handler |
| Transceiver | `transceiver.cpp`, `.hpp` | `pollFds`, `fdBuffer`, the output buffer (chunks, frames), the wake-up socket pair | `handler` (poll, accept, read, transmit), `sleep`, `wake`, `requestWrite`/`secureWrite`/`freeRead`, `freeFd` |
| Output stream | `fcgistream.cpp` | none of its own | `write` cuts output into records |
| Request | `request.cpp`, `main.cpp` (class `Request`) | `state` of the protocol, `state_` of the page, queue `messages`, the `HttpObject` | `handler`, `response_start`, `response_finish`, `complete` |
| Pages | `httpservice.cpp`, `collection.cpp`, `model.cpp`, `lookbook.cpp`, `staticpage.cpp` | status, the rows of the page | `handle` on the job thread, `render` on the FastCGI thread |
| Database | `db.cpp`, `asql/mysql.cpp`, `asql/data.hpp` | the MySQL session, `m_initialized`, the statements | `connect`, `execute` with retries |
| Statements | `asql/mysql.cpp`, `asql/data.hpp`, `asql/query.hpp` | bindings, `paramOrder`, the shared data of a query and who owns it | `init`, binding of both ways, the three forms of `execute`; copies, `reset`, `cancel` |
| ASql query pool | `asql/asql.hpp` | threads, a queue and a session for each, transactions | `start`, `terminate`, `queue`, `intHandler`; not started by the server |
| HTTP environment | `http.cpp`, `http.hpp` | parameters, post data, cookies, addresses, sessions | `fill`, `fillPostBuffer`, the parsers; `Address`, `Sessions` |
| Routing and files | `httpservice.cpp`, `staticpage.cpp`, `lookbook.cpp` | the table of paths, status and page of an object | `allocate`, `handle`, `get`, `set_page` |
| Templates | `template.cpp` | a tree of tokens for each file | parsing and `yield` |
| Catalogue scripts | `image/sbin/*` | a transaction; files under `pub/model` | `item add/csv/scsv/desc/sprice/move`, `photo add/remove`, and `model`, `color`, `material` |
| Schema | `image/sql/*` | tables and views | |

How they interact. The loop reads records and calls `Request::handler`, which,
once the input is complete, finds an `HttpObject` and gives the job queue a job
and a completion. The job thread runs the job (which reads the database) and
then the completion, which is `Manager::push`: a message to the request and, if
the loop is asleep, a byte in the wake-up socket. The loop takes the task, the
request renders its page into the output buffer, and END_REQUEST ends it. Shared
state is the two queues, the requests' messages, the sleep flags and the raw
pointer to the `HttpObject` inside the job. The pages meet the scripts in the
database and in the directory of photos, nowhere else.

What is hard here, and with it what the properties are about:

- *sleep and wake-up*: three threads and signal handlers, five mutexes, a socket pair;
  a wake-up lost is a request that hangs;
- *identity*: requests, descriptors and messages are known by small numbers that
  are used again (a `FullId`, an fd); an answer that is late must not reach the
  next owner of the number;
- *ownership across threads*: the job works on an object that the request owns;
- *shutdown*: `stop`, `terminate`, SIGTERM and the end of `main` at any moment;
- *the output buffer*: chunks emptied, reused and dropped by pointer comparisons,
  while writes are cut short and peers hang up;
- *a long-lived database session*: lost after hours, half made, left in a
  transaction; retries that start from what the failed attempt left;
- *the query pool*: transactions of several threads with errors and cancellations,
  callbacks that must be called, a `terminate` that takes no lock;
- *scripts*: overlapping transactions and files without transactions;
- *formats*: rows, fields, addresses, paths and templates that are cut, escaped and
  nested in all ways, where an edge is a value lost or another page shown.

`PROJECT.json` lists every hazard at its line with the properties that cover it.

What makes each part correct: the queue executes every pair once, in order, and
ends when told. The loop never sleeps on a task, halts when told, and on
`terminate` only after everything is answered and sent. Every request the web
server waits for is answered once, with its own page. A connection receives what
was written for it and nothing else. A page shows one committed state of the
catalogue and fails only for a reason. The catalogue loses no item, and its
photos exist. A transaction of the pool is whole or undone, and what is queued is
settled. What a client sent, a row holds, an address says or a template means
comes out as it went in, and a link leads to its page.

## 2. The modules

    JobService <---- implements ---- JobQueue            JobQueueProofs
        ^
        | INSTANCE
     Server                                              ServerProofs
     Manager                                             ManagerProofs
     OutputRecord <--EXTENDS-- Transmitter               TransmitterProofs
     Pages                                               PagesProofs
     Catalogue                                           CatalogueProofs
     QueryPool                                           QueryPoolProofs
     QueryData  Sessions <--EXTENDS-- Parts              PartsProofs
     Parts --INSTANCE--> Statement  Address  Templates
                         Environment  Site --EXTENDS--> UrlEscape (both)

The parts are composed through what they promise and not by multiplying their
states. `Server` uses `JobService`, the abstract specification which `JobQueue`
is shown to implement, in place of locks and batches; it takes from `Manager`
that a queued task is handled; and it leaves bytes to `Transmitter`. `Pages` is
what happens inside one job of `Server`, and its contents of the catalogue are
what `Catalogue` may commit. `Site` makes the response around such a page and
takes the values it is given from a table. `QueryPool` has what its threads do
with a statement as a choice, `Statement` and `QueryData` what happens in one.
`Parts` puts the modules of what a single thread does side by side: a behaviour
exercises one of them, on any input of its bounds. In every module the comment at the top says what is
code and what is environment, the operators carry the names of the code, and
`PROJECT.json` gives each its lines. Variables and constants called *history* or
*bound* are no part of the program: no guard of a code action reads a history.
Operators whose comment begins "A mutant of" are faults used to show that a
property can fail; nothing refers to them.

### JobService and JobQueue (`src/jobqueue.cpp`)

`JobQueue` has one action per atomic step of `add`, `stop` and `run`: locking
(`guard` is the mutex's owner), `push_back`, notifying, waiting, a spurious
wake-up, the swap of the batch, each job and each completion. `run` looks at
`stop_` only between batches. `JobService` is what `jobqueue.hpp` promises: jobs
one after the other in order, each followed at once by its completion. The
refinement maps `pending` to `batch \o queue`.

### Manager (`manager.hpp`, `manager.cpp`, the waking part of `transceiver.cpp`)

`pc` is the place of the main thread in `handler()`: the test of `stopBool`, one
call of `Transceiver::handler()` (`Transceive...`: one descriptor is served), the
test of `terminateBool`, the decision to sleep under two mutexes, `poll()`, the
return to wakefulness, the task. `push` of the receiver happens inside
`Transceive...`; that of the job thread is `JobPush`, `JobLock`, `JobNotify`. For a
management record `push` takes no mutex of `messages` and `tasks` (`manager.hpp:284-285`):
it is a step of its own, `PushUnlocked`, and where the job thread's push falls into it
(`PushesMeet`) one of the two tasks is lost, or a third of garbage is there. `called` is
history: the requests for which the job thread's push was not met by such a one.
`stop` and `terminate` run on a thread of their own or as signal handlers on
either thread (`on`), which then stands still: that is how a handler waits for a
mutex of the very thread it interrupted. What a request does with a message is a
choice here (`HandleMore`, `HandleLast`, `HandleVoid`).

### Server (`main.cpp`, `request.cpp`, the dispatch of `manager.hpp`)

A slot is a `FullId`. The web server (`Peer...`) sends BEGIN, PARAMS and input
in parts, waits for END_REQUEST and uses the slot again; with options it aborts,
sends more input than it announced, sends records out of order or after the end of
its input (`PeerLate`), or asks for a role that is refused. `Receive...` is `push` on the FastCGI thread; `Handle...`
are the branches of `Request::handler`, `response_start` and `response_finish`;
`Job...` is the job thread; `Halt`, `StopJobs`, `Exit` the end of `main`.
`HandleNothing` is `messages.front()` of an empty queue, which the code does not
exclude: it leads to `phase = "undefined"`. Serial numbers are history: they say
which request a record, job or answer belongs to while the code sees slots only.
A web server uses an id again only after END_REQUEST, and does not use one it
aborted, since the code then sends none. `strayed` is history: what it did in a slot
that the protocol does not allow, or that it may do but that the code takes badly.

### OutputRecord and Transmitter (`fcgistream.cpp`, the buffer of `transceiver`)

`OutputRecord` is the arithmetic of `FcgistreamSink::write`: how much of the
output a record takes, and its padding. `Transmitter` puts such records into the
chunks and frames of the buffer, writes them with short writes, frees chunks,
and opens, forgets, closes and reuses descriptors (the lowest free one, as the
kernel does). A short write takes some number of bytes of `Cuts`, or all but one; the
proofs are for any `Cuts`. A byte is known by its connection and place. Accepted descriptors
are blocking, so the branch for EAGAIN never runs and is no action; a write is
cut short only by a signal. One request at a time uses a connection (`RequestId
= {1}`), as the web servers it is made for do.

### Pages (`httpservice.cpp`, `db.cpp`, `asql/mysql.cpp`, `collection.cpp`, `model.cpp`)

One job thread makes one page after the other. `Connect` is closing the old
session, `mysql_real_connect`, and the options and statements set after it, each
of which may fail; `Query` is one attempt of `execute`: execution, rows fetched
into the vector, commit (whose result the code ignores). Around it the catalogue
changes (`Changes`), and the server stops, starts, or ends the session. A
transaction reads the contents committed at its first read. The status of the
page follows `HttpObject::handle` and the two `get` functions; the query of a model has
one row at most, whatever the catalogue lists twice.

### Catalogue (`image/sbin/Simurga.pm`, `item`, `photo`, `image/sql`)

Each script is a transaction with a snapshot (`SELECT`), the rows as they are
now (`INSERT`, `UPDATE`), row locks, and a duplicate-key error; its effects on
the files of photos are immediate and outlive it. Importing, editing, moving,
adding and removing photos are sequences of steps; a script may die before any
of them. Deadlock victims and gap locks, which only delay or kill a script, are
covered by `Dies`. Models, colours and materials exist beforehand.
`spoiled` and `removed` are history: items that two scripts worked on at a time
or one left half-way, and items a photo was removed from.

### QueryPool (`asql/asql.hpp`)

The thread that calls `start` and `terminate` (`control`), a caller of `queue` for
each batch, and `intHandler` of each thread (`pc`). A batch is a transaction or a
lone query, and its last query commits. The instance is named by the caller, or it
is the one with the shortest queue as far as the caller saw, one queue after the
other. `Drop` is the loop after an error, whose condition looks at the failed
query and not at the one it took: it empties the whole queue of the thread. A
callback of a dropped query is called for the failed one if that has none
(`Heir`). `late` is history: the threads that had tested the flag and not yet slept
when `terminate` set it.

### Parts and its modules

- **QueryData** (`asql/query.hpp`): the object of the caller, its copies in a queue
  and in the hand of a thread, the `SharedData` with its flags, and the data sets
  hanging from there, made (`born`), given back (`released`) and deleted (`deleted`,
  history) for each of the specialisations of `Query`; copies go when their query is done,
  is dropped behind one that failed (`Drop`), or is cleared from a transaction.
- **Statement** (`asql/mysql.cpp`, `asql/data.hpp`): the text of a query with its
  placeholders, numbered or not; binding of parameters and of rows with types, signs,
  NULL, dates and times; the three forms of `execute`, which may fail or be stopped
  at each row. What a conversion was last given (`held`) is state: it is converted again
  when the column of a later row is NULL and the element cannot be.
- **Environment** and **UrlEscape** (`http.cpp`): a client means some fields and sends
  them as a query string, cookies, a path, a form or a multipart body, escaped or not,
  with parameters cut into records between pairs and a body cut anywhere; `fill`, `fillPostBuffer` and the
  parsers work on buffers in place.
- **Address** (`http.cpp`): printing, IPv4 written by somebody else, and both readers. **Sessions** (`http.hpp`):
  ids, their base64 text, `generate`, `refresh`, `cleanup`.
- **Templates** (`template.cpp`): the parser, token by token, with its stack of
  blocks, and `yield`; beside them the meaning of a template, by positions and
  without a tree, to compare with.
- **Site** (`httpservice.cpp`, `staticpage.cpp`, `lookbook.cpp`, the heads
  of the pages and `main.cpp`): a URI, made for a page or typed, the object it finds, what is on
  disk and in the database, the exceptions, and what is sent.

## 3. What the runs check

States and times are those of two workers on a small machine.

| run | instance | distinct states, time | shows |
|---|---|---|---|
| `job_queue` | 3 jobs, 2 callers | 7,743; 4 s | `Conserved`, `NoLostWakeup`, `JobsComplete`, and that the queue implements `JobService` |
| `manager` | 1 request, management records, a call of stop/terminate on a thread of its own | 359,498; 167 s | `NoTaskSlept`, `OnlyLateCallsSlept`, `TerminateDrains`, `TasksHandled`, `HaltsUnlessMissed` |
| `manager_signal` | 1 call as a signal handler | violation | `NoSelfDeadlock` fails |
| `server` | 2 slots, 2 requests, the first may deviate | 225,221; 122 s | `OnlyAbortTakesObject`, `EveryMessageHasTask`, `AnswersAreOwn`, `Answered`, `ExitsAfterHalt` |
| `server_abort_job` | 1 slot, 1 request that may be aborted | violation | `JobKeepsItsObject` fails |
| `transmitter` | chunk of 512, 2 connections, 3 requests, 3 short writes | 737,690; 73 s | `OwnOutput`, `NothingLost`, `BufferTells`, `ForgottenWereHungUp`, `Drained` |
| `pages` | 2 items, 5 contents of up to 2 rows, 2 of them per page, 3 attempts | 485,450; 44 s | `PageEndsFresh`, `NotFoundIsTrue`, `FailsOnlyWhenHurt`, `OneSessionOpen`, `Answered` |
| `pages_retry` | the same | violation | `Atomic` fails |
| `catalogue` | 3 scripts, 2 at a time, 2 items, 2 rows, 2 photos | 641,539; 62 s | `ItemsKept`, `ShownPhotosExist`, `PhotosMatch` |
| `catalogue_move` | 1 script at a time | violation | `MovesMeetNobody` fails: see findings |
| `query_pool` | 2 threads, a transaction of 2 queries and a lone query, 1 of them cancellable, 2 with callbacks | 219,948; 124 s | `NoQuerySlept`, `RestOrNothing`, `CallbacksCalled`, `QueriesSettle`, `TerminateEndsUnlessMissed` |
| `parts` | seven parts, each over the inputs of its bounds | 1,196,345; 61 s | `DataOwned`, `StoppedOnlyByCaller`, `RowsComeBack`, `FieldsComeBack`, `AddressesComeBack`, `SessionsKept`, `YieldsAsWritten`, `AnswersWhole` |

What they say, in a phrase each. `JobsComplete`: a queued job is completed unless the
queue is stopped, and `stop` ends `run`. `HaltsUnlessMissed`: a `stop` or `terminate`
halts the loop unless it fell into the window of the findings.
`EveryMessageHasTask`: no message is left lying in a request. `AnswersAreOwn`: nothing
of another request, though it has the same `FullId`. This one and
`OnlyAbortTakesObject` (no job runs on the object of a request that is gone, unless it
was aborted) leave out the slots where a record came after the end of the input;
`Answered` allows `phase = "undefined"` only where the web server aborted or strayed, so a
web server that does neither gets every answer. `ItemsKept`: no listing of an item is
lost or replaced, and the order changes only by a move. `BufferTells`: `empty()` and
`requestWrite()` are right about the buffer. `OneSessionOpen`: the handle is what
`m_initialized` says and no session is left open, except one whose options failed.
`RestOrNothing`: nothing of a transaction with an error is ever committed; of any
other all that is not cancelled, or what comes behind a query that was stopped; and who
loses a query does so behind a failed one. `CallbacksCalled`: once for each settled
query, and for a failed one the next callback behind it. `DataOwned`: each data set
is deleted once, by its owner, as what it is. The last six compare a result with
what was meant: the rows stored, the fields sent, the address printed, the session
used, the template written, the link made.

Most modules state a type invariant, `TypeOK`; the proofs establish it where they
need it, the runs spend their time on the rest. Deadlock checking is off only where
the system stops by itself: `run()` and `handler()` return, `main` ends, the web
server has no more to ask, the scripts are over, `terminate()` has returned or waits
for a thread that slept on, a part has used up its bounds.

`PROJECT.json` has a mutant for every property: a fault of the code, as a definition
beside the right one, under which the property fails in the same run.

### Bounds, and why they are enough

- *Jobs and callers*: two pushes meet in one batch, a third arrives while the
  batch is executed, and `stop` finds the runner in each of its states. The
  proofs hold for any number of both.
- *Manager*: tasks of one request and of the manager itself already alternate;
  a second request adds interleavings of independent work. One call meets every
  state of the loop. The proofs hold for any number of both, and for calls from
  signal handlers.
- *Slots and requests*: of two requests the second runs beside the first, or after
  it in the same slot while its job and tasks may still be on their way, which is
  what confuses ids.
- *Chunk of 512 bytes*: `minBlockSize` is 256, so every case of a full, partly
  full and reused chunk occurs; an output of 700 bytes spans chunks, one of 20
  does not fill one. `RecordFilled` is proved for any room of at least 256 bytes.
- *Pages*: three attempts are those of the code. Two contents of the catalogue
  within one page tell those at its beginning from a change; two rows are enough
  for order, a duplicate, a missing row and a fetch that fails between two. The
  proofs hold for any contents and any number of attempts. `MaxAbandoned` bounds a leak
  that would otherwise grow for ever.
- *Catalogue*: two photos let a removal rename a file, two items and rows
  let scripts meet on one item or not, and an item be listed twice; with three
  scripts two can meet and a third find what they left.

- *Query pool*: with two threads a lone query can be behind the failing transaction
  or beside it; the first query of the transaction has no callback and may fail or be
  cancelled, the second has one. One `start` is enough for a thread to miss
  `terminate`; started again, it would begin with the same state.
- *Parts*: two data sets and two `SharedData`, so that a `reset` leaves an old one to
  the thread; texts of queries with plain and numbered placeholders and up to five of
  them, sets of columns with every kind of type; two fields of names and values with a
  separator, an equals sign, a space or an escape in them; words of an address at
  both ends of their range, in all patterns of zeros; seven seconds with a session
  life of one and a cleanup every two; all templates of up to five pieces out of nine,
  and all URIs of up to five out of nine.

### Fairness, and why the code justifies it

Only what the process or the web server does by itself is fair; nothing fair
depends on the operator, the network failing, or luck.

- `JobQueue`: weak fairness of the runner and of a caller within a call; strong
  fairness of taking the mutex, since contenders for a `std::mutex` are not
  starved for ever by the others. A thread need never call `add`.
- `Manager`: weak fairness of the main thread, which is never descheduled for
  ever; strong fairness of the job thread and of a call, for they pass through
  mutexes. Arrivals, hang-ups and calls have none.
- `Server`: weak fairness of the web server's next record once it has begun a
  request, of the loop, of the job thread (jobs end: a page is a bounded number
  of database calls, see `Answered` of `Pages`), and of `main` after `handler`.
- `Transmitter`: weak fairness of the thread. Short writes are bounded.
- `QueryPool`: weak fairness of the thread that starts and terminates and of callers
  within `queue`; strong fairness of each thread of the pool, which asks for
  `terminateMutex` in turn with others that release it. Statements come to an end; a
  thread need not wake up by itself.
- `Pages`: weak fairness of the job thread. The database may be down for ever;
  the page is answered all the same.

### Findings

- **`item move` moves nothing** (`catalogue_move`). The comments of `move_to()` say
  that the item is moved aside and the others are moved to make the new id free; the
  values of its UPDATEs are the wrong way round (`Simurga.pm:679`), and every move dies on a
  duplicate id or finds no row. `ItemsKept` holds for a `move_to()` that moves as well, if
  no edit reads before a move and saves after it.
- **`stop()` can be missed** (no run of its own: `OnlyLateCallsSlept` and
  `HaltsUnlessMissed` say exactly when). Called between the test of
  `stopBool` (`manager.hpp:304`) and `asleep = true` (`:333`), it sets the flag and
  wakes nobody; `handler()` sleeps until something else arrives. This window is the
  only one; `terminate()` has the same.
- **The SIGTERM handler can deadlock** (`manager_signal`): it locks mutexes that
  the interrupted thread may hold (`manager.cpp:36-51`).
- **An aborted request takes the object of its running job with it**
  (`server_abort_job`): `main.cpp:139` gives the job a raw pointer.
- **A retry repeats rows** (`pages_retry`): `db.cpp:47` executes into the vector
  the failed attempt has filled. Old rows, and an empty one, come before the new.
  `PageEndsFresh` shows what still holds: the page ends with exactly the right
  rows.

Seen while modelling and without a run of its own: with several requests on one
connection, which `protocol.cpp:45` offers to the web server, a failed write
closes a descriptor that other requests still name, and `accept()` may return it
to another connection (`Transmitter` with `RequestId = {1, 2}` shows it at once);
descriptors forgotten on POLLHUP are never closed; with more input than
announced and the other slot's job delaying tasks, a task left behind meets the
next request before its first record (`HandleNothing` in `server`); a page whose last attempt failed
leaves its transaction open, and the next page may show its old contents
(`leftover` in `Pages`); a connect that fails after `mysql_real_connect()` leaks a
session. A PARAMS or IN record after the end of the input throws in `Request::handler`
(`request.cpp:89,107,159-164`), which completes and erases the request while its job
works on the object; the completion of that job is then taken by the next request of
the `FullId` (`PeerLate` in `server`). A management record is pushed without the mutex of
`messages` and `tasks` (`manager.hpp:284-285`), beside the job thread's push
(`PushesMeet` in `manager`): a task may be lost, and its request with it.

Of the query pool: after an error its thread drops everything in its queue, other
transactions and their callbacks included (`asql.hpp:303`); `RestOrNothing` says how
far that goes. A cancellation does not dump the transaction, as `asql.hpp:45-48` has it:
it rolls back the queries before the one it stops, and those behind it run and
are committed (`Rest`). `reset()` does not act as if the query were destroyed
(`query.hpp:317`), for that would cancel it. A thread between its test and its wait misses `terminate()`
(`asql.hpp:234`), which then waits for it. The caller of a synchronous `execute()` has
to roll back itself after an error.

Of statements (`mysql.cpp`): `paramOrder` is not cleared when a statement is
initialised again, and its numbers are `unsigned char`; an error at a fetch leaves
the empty row made for it; an invalid date keeps the old value, since `==` stands
for `=` (448, 471); a negative time shorter than an hour loses its sign both ways
(485, 494); of a NULL into what cannot be NULL a number keeps its value, while a date or a
time is converted from the value of an earlier row, or from memory nobody wrote, and a
text gets the length of the earlier one (189; `Unwritten`, `Repeats`); `if(!stmt)` tests
an array (151).

Of HTTP: a name-value pair that continues in the next PARAMS record is parsed as if
it ended in this one (`http.cpp:116`); a field without `=` takes the next one into
its name; an IPv4 address, which `operator>>` is documented to read (`http.hpp:189-191`),
is dropped without a failure when the stream ends behind it (`AddressesComeBack`); the
boundary is compared up to its seventh character (376); parts of
PATH_INFO keep the length they had before decoding; CONNECT is compared with OPTIONS
(210); the copy constructor of `Post` gives size 0 (`http.hpp:82`); `charToString`
for `wchar_t` does not end on a cut character (`http.cpp:29`); the encoders of
`fcgistream.cpp:126`, which the server does not use, pass a negative length.

Of the site: the size XXXL is never shown (`model.cpp:113`, which has a FIXME);
colours outside `[A-Za-z0-9_-]` cannot be reached by a link; the lookbook served
at the empty path has the base `/`, and its images resolve elsewhere. EINTR in `poll`
or in a write that moved no byte, or any exception that leaves `handler()`, takes
`main` past a joinable thread (`main.cpp:208`).

## 4. What is proved

TLAPS proves the following for all values of the constants that satisfy the
named assumptions, with no step left open. Each proof module states an
invariant `IInv` that is inductive, proves that it holds initially and is kept
by every action, one step per action, and derives the theorems from it.

- **JobQueueProofs** (`ThreadsDiffer`): `TypeCorrect`, `NothingLost`
  (`Conserved`), `NoWakeupLost`, `EndsCleanly` (`run()` returns after `stop()`, not inside
  a batch) and `QueueImplementsService`, the refinement. `IInv` adds to these
  that sections exclude one another, without which a push could fall between
  the test and the wait, and that the batch is empty except while it is
  executed, without which the swap would lose it. For the refinement, each step
  maps to one of `JobService` or to a stutter; for the swap that is because
  `batch \o queue` does not change.
- **ManagerProofs** (`ManagerAssumption`): `TypeCorrect`, `MutualExclusion`,
  `NoLostTask` (`NoTaskSlept`), `OnlyLateCallsMissed`, `TerminationDrains`.
  `NoTaskSlept` is about the tasks queued, and about those of requests in `called`: no push
  that met no other is forgotten (`CallsKept`). It is not inductive: the argument needs when `asleep` is set
  (`AsleepOK`), what the local `sleep` then says (`SleepOK`), where a call of
  `stop` or `terminate` that wakes the loop may be (`LateOK`), and mutual
  exclusion of the sections that test and set.
- **PagesProofs** (`PagesAssumption`, `AskedAssumption`): `TypeCorrect`,
  `SessionsClosed` (`OneSessionOpen`), `PagesEndFresh`, `NotFoundTrue`, and `FailuresAreOwn` (`FailsOnlyWhenHurt`)
  under the further assumption `execute_retry_count > 1`: with one attempt, a
  session lost yesterday is enough to fail a page. `IInv` says that the snapshot
  of an open transaction is among the contents the page may show (`SnapshotOK`)
  and that the rows, followed by those still to be fetched, end with what is
  selected from it, the rest ending in an empty row (`RowsOK`).

- **ServerProofs** (`ServerAssumption`): `OnlyAbortTakes`
  (`OnlyAbortTakesObject`), `AnswersOwn` (`AnswersAreOwn`), `MessagesHaveTasks`
  (`EveryMessageHasTask`), all from `Inductive`, and `ServesJobs`. The code sees slots
  only, so `IInv` says slot by slot in what order records were sent
  (`WireOrder`, `WireSent`), that a request's messages are those records, before the
  ones still on the wire (`LiveOwn`, `MailOrder`), that after `response_start()`
  only an abort and the completion can come (`Started`), and that a job left behind
  by an abort keeps its slot from being used again (`JobOK`). All that is said of slots
  without a late record (`Plain`), and that no other slot suffers from one is part of the
  proof. A task left over
  from an erased request may be more than is needed, never less: the proof counts
  the tasks of a slot against its messages. `ServesJobs` shows step by step that what
  `Server` does with jobs is `JobService`; with `QueueImplementsService` the two compose.
- **QueryPoolProofs** (`QueryPoolAssumption`: batches share no query, and none
  has a query twice): `NoneSlept` (`NoQuerySlept`), which is inductive with the types
  it rests on (`SleepTypes`); `Atomic` (`RestOrNothing`) and `CallbacksOnce`
  (`CallbacksCalled`) from `Lines`. Its invariant `BInv` follows a batch from its caller
  (`OutsideOK`) through the queue of one thread (`LineOK`: each query is followed by
  the rest of its batch, and then another begins) to the hand of that thread (`HandOK`)
  and its session (`SessionOK`, `OpenOK`: what is executed and not committed is the part
  of one batch that came before what is to do next), and says which callback a
  thread that dropped its queue has to call (`HeirOK`).
- **TransmitterProofs** (`TransmitterAssumption`): `RecordFilled`: for any output and any
  room of at least `minBlockSize`, a record takes at least one byte, no more than there
  is, and header, content and padding fill it exactly (arithmetic of divisions by 8, cut
  into steps the SMT solver takes). Then `BufferAlwaysTells` (`BufferTells`)
  and `ForgottenAreHungUp` (`ForgottenWereHungUp`); and, under the hypothesis
  `OneRequest`, `OutputIsOwn` (`OwnOutput`) and `NothingIsLost` (`NothingLost`).
  Three invariants stand on one another. `BufferOK` gives every frame a chunk and an
  offset (`Placed`): the first frame lies at `pRead`, each next one where the last
  ended or at the start of the next chunk, the last ends where the next write begins;
  this is what the pointer comparisons of `empty()` and of the freeing of chunks
  amount to. `FdOK` says whose a descriptor is that a request, the output being
  written or a frame names: open for their connection, or closed after its peer hung up, and then
  not used again before the frames that name it are dropped. `OutputOK` says that what lies at a frame's place are
  the bytes of its connection that follow those received and those in the frames before it.
  `OneRequest` (one id in `RequestId`) is what web servers do here and what
  `MCTransmitter` has; without it the two theorems are false, see the findings:
  another request of a connection still names a descriptor that is closed. `NothingLost`
  sums the frames by a recursive function, for which the proof first shows that there is one.

- **CatalogueProofs** (`CatalogueAssumption`; among it that `"none"`, the row that
  is not there, is no item): `CollectionKept` (`ItemsKept`) from
  `GrowInductive`, `TypeCorrect`, `PhotosShownExist` (`ShownPhotosExist`) from
  `FullInductive`, and `PhotosAgree` (`PhotosMatch`) from `MatchInductive`, for any number of scripts, items and photos. That it keeps
  its items stands on what locks and ids are for: committed rows have the ids 1 to n (`RowsOK`); an import
  owns the ids that follow, without a gap, and no one else's (`ImportOK`); what
  any other script saves or moves is a row still there, with the same item
  (`ChangeOK`, `SelfOK`, `EditOK`); and a move whose first UPDATE found a row cannot be
  completed (`MoveOK`), so a commit only adds ids. For the photos, `FullOK` says that every photo a
  committed or changed row names, or an object in hand or about to be saved
  (`HandFull`), has both files unless a photo of that item was removed. It is inductive
  because no step of a script touches files of another item than the one it works on.
  `PhotosMatch` is about an item listed once, none of whose scripts met another or
  died. `MatchOK` says what such an item is between the steps of the one script
  that may be at work on it (`Alone`): where that script is tells which files have
  both sizes, with the photo it is about to write, or has removed one size of, apart
  (`Sound`, `SelfMatch`); the rows an import holds to save number just the files it
  wrote (`ImportMatch`), and what else is saved leaves number and photos as the
  committed row has them (`EditMatch`); and where no script removes or imports, which
  is when the two change one after the other (`Shifting`), the rows tell the files
  (`RowsMatch`).
- **PartsProofs** (`QueryDataAssumption`, `SessionsAssumption`), of `QueryData` and `Sessions`: `OwnedOnce` (`DataOwned`) and
  `StoppedByCaller` (`StoppedOnlyByCaller`) from `Owners`, for any number of data sets and
  of calls of `reset()`. A `SharedData` deletes what it points to when its last reference goes,
  and nothing stops two from pointing to one set but the way they are used: `IInv` says
  that no two pointers are to one set, nor any to one given back (`PointersOK`), that the
  flags, which say as what to delete it, are those of the kind through every `reset()`
  (`FlagsOK`), that the queue has one copy of a query at most, and the thread another one's
  (`CopiesOK`), so that results a thread deletes are not those a queued copy is to fill
  (`ReadyOK`); and that a set is deleted exactly if nobody has it (`GoneOK`).
  `SessionsStay` (`SessionsKept`) is for any ids that are sequences of bytes, of any
  length, and any times. `TextComesBack` says that `base64Decode` of `base64Encode`
  of an id is the id: the characters of a group give its bits back (`GroupOf`), the
  first pad tells how many bytes the last one had (`EndOfText`), and what is missing
  there counts for nothing (`GroupComesBack`). `SIInv` adds that a client's text is that of
  its id (`CookieOK`) and that a cleanup is never due more than `cleanupFrequency`
  ahead (`TimesOK`), without which a session made just after a cleanup could seem expired
  by it.

Facts about all natural numbers below a bound, such as that sum, are proved by the
least counterexample (`Least`), from the well-foundedness of `<`.

Only model-checked: all liveness, which is out of the prover's reach; and of the parts
`RowsComeBack`, `FieldsComeBack`, `AddressesComeBack`, `YieldsAsWritten` and
`AnswersWhole`: what a row, a field, an address, a template or a URI comes out as is computed
by recursion over the text, and to say it of every input would take induction over
data. (The base64 of `Sessions` is written by position instead, each group of it by
itself, which is why it could be proved.) Every other safety property of a passing
run is a theorem, two of `Transmitter` under `OneRequest`.

## 5. What is not modelled

- The character converters, which do nothing for `char`, and the conversion of
  UTF-8 to `wchar_t`, which the server does not use.
- The wording of pages, HTML and prices; a page is its template and the values it is
  given, or the rows it was made from.
- Of statements: floats, blobs and arrays of characters, which are bound as the
  types modelled are, the insert id and the number of rows. Of HTTP: masks of
  addresses, the date of If-Modified-Since, and the layout of record headers.
- The assembly of incoming records from parts, which is a choice in `Manager`.
- Exceptions that end the process (EINTR, errors of sockets, `std::terminate` on
  a joinable thread): what follows is the end of the process.
- A name-value pair split between two PARAMS records: `Environment` cuts between
  pairs, as web servers with short parameters do; what the code makes of such a
  pair is read from beyond the record.
- The scripts `model`, `color` and `material`: rows of their own tables, and the
  renaming of photo directories with a model's number.
- Reads of memory beyond a value whose outcome does not depend on it, or that no
  client here causes: `Address::assign` looks behind a text that ends in a colon
  (`http.cpp:624-646`), and the search for the boundary goes on behind a CONTENT_TYPE with a
  semicolon and no equals sign (`http.cpp:172`).
- `start()` waits without a condition (`asql.hpp:224`): woken without cause it would give the
  next thread the number of one not yet there. That `reset()` cancels nothing is
  modelled and no property.
- Start-up: options, the listening socket, logging. Site assets and build.

## 6. Plan

Done, in the order of importance: the queue, the loop, the life of a request, the
output buffer, the pages, the scripts for items and photos; the query pool; the parts
one thread works with, from parameters to templates; proofs for the queue, the loop, the
life of a request, the records and the output buffer, the pages, the query pool, its data,
the scripts and the sessions.

To extend the model: the scripts `model`, `color` and `material` with their
directories in `Catalogue`; the assembly of records from parts and their headers in
front of `Environment`, with the pairs that are split (`http.cpp:116`).

To prove more: the text of an address (`AddressesComeBack`) could be written by position, as that
of a session is; the parsers of `Environment` and `Templates` could not, and stay with TLC.

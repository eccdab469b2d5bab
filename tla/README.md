# Verification of the StoRM frontend

The StoRM frontend is the SRM v2.2 server of the StoRM storage manager: a C++
process that accepts SOAP requests over GSI, checks them, and either stores
them in the MySQL database the StoRM backend polls (the asynchronous file
requests) or forwards them to the backend over XML-RPC (everything else). This
directory holds TLA+ modules of the frontend, the TLC configurations that
check them on small instances, and proofs checked by TLAPS.

Paths below are relative to the repository; `frontend/X` is `src/frontend/X`.

## 1. Inventory

| component | code | state it keeps | operations | interacts with |
|---|---|---|---|---|
| thread pool | `frontend/ThreadPool.hpp` | bounded queue, its mutex and two conditions, `_activeThreads`, `_stop`, the threads and their interruption flags | constructor, `schedule`, destructor, `thread_function`, `pop`, `push` | owned by `main()`, runs `process_request` |
| server process | `frontend/storm-frontend.cpp` | `stay_running`, the global pointers to the pools and the monitoring | `main`, `run`, `acceptRequest`, signal handlers, `process_request` | all of the others |
| database connection pool | `frontend/DBConnectionPool.cpp` | map from thread id to MySQL handle, a mutex | `getConnection`, destructor | every worker, `main()` |
| MySQL interface | `src/db/` | the session: connection, transaction, savepoint | transactions, savepoints, queries, ping | asynchronous and status requests |
| asynchronous requests | `frontend/asynch.cpp`, `filerequest_template.hpp`, `PtpRequest.cpp`, `PtgRequest.cpp`, `BolRequest.cpp`, `CopyRequest.cpp` | one object per request: token, status, SURLs with a status each, protocols | `load`, `insertIntoDB`, `buildResponse` | MySQL interface, authorization, monitoring |
| protocol checker | `frontend/ProtocolChecker.cpp` | the supported protocols | `checkProtocols`, `removeUnsupportedProtocols` | asynchronous requests |
| status requests | `frontend/asynch_status.cpp`, `StatusTemplate.hpp`, `FileStatusRequest.hpp`, `*StatusRequest.cpp` | one object per request: SURLs asked, TURLs read | `loadFromDB`, `buildResponse` | MySQL interface, backend (recall table) |
| request summary and tokens | `frontend/srmv2_GetRequestSummary.cpp`, `srmv2_GetRequestTokens.cpp` | none of their own | one handler each | MySQL interface |
| synchronous requests | `frontend/synch.cpp`, `SynchRequest.hpp`, `request_logger.hpp`, `srmv2_{dir,space,xfer,perm}req.cpp`, the 29 `*Request.cpp` of the operations | one object per request; the XML-RPC client of the thread | `handle_request`, `load`, `_impl` and response handler of each operation | authorization, XML-RPC codec, backend, monitoring, logger |
| XML-RPC codec | `frontend/xmlrpc_encode.cpp`, `xmlrpc_decode.cpp`, `xmlrpc_client.cpp`, `HttpPostClient.cpp` | the client and its environment, one per thread | one encoder or decoder per type, `get_xmlrpc_client` | synchronous requests, status requests (recall table) |
| authorization | `frontend/Authorization.cpp` | a PEP handle, one per thread, kept between requests | `is_blacklisted` | Argus service, synchronous and asynchronous requests |
| monitoring | `frontend/Monitoring.cpp`, `Monitoring.hpp`, `Monitor.hpp`, `MonitoringHelper.hpp`, `InstrumentedMonitor*.hpp` | counters of the round and of the whole run, a mutex per monitor, one for the set | registration, `digestRound`, the round thread, the destructor | every worker, `main()`, logger |
| logger | `frontend/srmlogit.cpp` | two mutexes, the log file, the audit file | `srmlogit`, `srmLogResponse`, `srmAudit` and relatives | everything, signal handlers included |
| names and identifiers | `surl_normalizer.cc`, `token_validator.cpp`, `storm_util.cpp`, `request_id.cpp` | none | which SURLs, tokens and descriptions are valid | every request |
| configuration | `frontend/FrontendConfiguration.cpp` | options, read once | parsing | `main()` |
| SOAP and GSI glue, packaging | `soap_util.cpp`, `src/wsdl/`, `etc/`, `rpm` files | none that changes | generated dispatch, credentials out of the GSI plugin | server process |

Where the behaviour is hard, and what makes it right:

* **thread pool**: `notify_one()` on two conditions, interruption at any wait,
  before and after the notification, construction that fails half-way. Right
  when no task is lost or repeated, no wakeup is lost while the pool is open,
  the counter is exact and the destructor ends with no worker left.
* **server process**: signals between any two steps, an accept loop that
  blocks on a full queue, calls out of a request that set no limit on the time
  they wait, a teardown that runs beside active workers. Right when every
  accepted connection is served or accounted for, and a signal whose handler
  gets past its log line ends the loop, and the process once the calls return.
* **connection pool**: a lazily filled map shared by all threads, a connect
  whose failure is ignored. Right when a context belongs to one thread.
* **asynchronous requests**: INSERTs that fail one by one, savepoints,
  transactions over a connection that reconnects by itself, a process that
  dies. Right when the backend sees a request whole or not at all and the
  reply tells what was stored.
* **status requests and summary**: a response built from what the database
  holds for some of the SURLs; transactions left open on a shared session.
  Right when each SURL asked for is answered for once and from current data.
* **synchronous requests**: up to ten parameters encoded one by one, each of
  which may be refused; a call that faults; an answer with fields missing or of
  the wrong type; the client and the PEP handle an earlier request of the
  thread left. Right when nobody unauthorised reaches the backend, the call says
  what the client said, the client is told what the backend said, and the
  outcome is counted once.
* **monitoring**: registrations racing the digest of a round, reads of a round
  without its mutex, a thread stopped at teardown after what it reads was
  deleted. Right when no operation is lost or counted twice and nobody waits
  for ever.
* **logger**: a mutex that is not recursive, taken by signal handlers.

## 2. Plan

In order of importance, each written and checked; what is left follows.

1. `TaskQueue`, `ThreadPool`, `ThreadPoolProofs`: the abstract queue, the pool
   that implements it, the proofs.
2. `Frontend`, `FrontendProofs`: the process around the pool; composes
   `ThreadPool`.
3. `Session`, `AsyncRequest`, `RequestStore`, `AsyncProofs`, `StoreProofs`: the
   MySQL session, what the asynchronous requests do with it, the abstract store
   they implement, and the proofs.
4. `StatusRequest`, `RequestSummary`, `StatusProofs`, `SummaryProofs`: the
   status requests, the summary and the tokens, the last three on one session.
5. `Logger`, `Monitoring`, `MonitoringProofs`: the logger against the signal
   handlers that log, and the counters while a thread digests a round every
   period; `Monitoring` extends `Logger`, which every one of its threads uses.
6. `XmlRpcCodec`, `SynchOperations`, `Authorization`, `SynchRequest`,
   `SynchProofs`: the operations forwarded over XML-RPC.

What is left: lost connections in the summary and the tokens, which need a
`Session` shared by all database handlers of a thread; a composition in which
the requests of `AsyncRequest` and `SynchRequest` are the tasks of `Frontend`.
Every safety property the passing runs check is proved; of liveness, what it
needs beside fairness is proved for the pool, the process and the mutexes of the
monitoring (section 6).

## 3. Modules and code

`ThreadPool` models `frontend/ThreadPool.hpp` at the grain of its mutex: what a
thread does between acquiring and releasing a mutex is one step; each wait on
a condition variable is a step of its own, and so is every access to `_stop`,
which no lock protects.
`wpc[w]` says where worker `w` is in `thread_function` and `pop`, `opc` where
the owner is in the constructor, `push` or the destructor. `notify_one` wakes
any one thread that waits on the condition, a spurious wakeup any thread at any
time. `wait()` ends in an interruption point of its own (`boost::thread`): a
worker that was notified is `"woken"`, and if the destructor interrupts it before
it is out of `wait()` it exits, its notification with it, whatever the queue
holds (`InterruptedWait`); otherwise it goes on to the test of the queue. Tasks are numbered
in the order they are scheduled; those in `Throwing` throw, which
`thread_function` does not catch: the process aborts.

`TaskQueue` is what the pool promises: a bounded FIFO out of which tasks are
taken into hand, finished, or, once closed, dropped. `ThreadPool` implements it
under the mapping that sees a task as held from `pop` to the end of `func()`.

`Frontend` extends `ThreadPool` with `storm-frontend.cpp` and
`DBConnectionPool.cpp`. Its variables `mpc` (where `main()` is), `stayRunning`
and `ppc[w]` (where worker `w` is in `process_request`) drive the pool: every
step that calls the pool is conjoined with the pool's own action, which is how
what is proved of the pool carries over. `Signal` may happen between any two
steps. Its handler logs before it clears `stay_running`; if it hits its thread in
the middle of a log line it never gets further, and every other thread stops at
its own next log line (`logStuck`; `Monitoring` has the mutexes this abbreviates).
A request may be in a call to the backend, the authorization service or the
database (`"calling"`). The clients of XML-RPC and of Argus are set up without a
time limit (`xmlrpc_client.cpp:26-36`, `HttpPostClient.cpp:38-50`), and so are
the statements sent to MySQL, so that nothing makes `CallReturns` happen; the
sockets of gSOAP (`storm-frontend.cpp:127-128`) and the connect to MySQL
(`storm_mysql_ifce.cpp:44-45`) do have one. `ctx[w]` is `"kept"` once `getConnection()` has put a
context into the map, whether or not it is connected.

`Session` is `src/db/` against a MySQL server: committed rows, the work of an
open transaction, its last savepoint, and the state of the connection. The server rolls
a transaction back when the connection drops; the client library reconnects by
itself at the next statement, except inside a transaction, where it refuses
once, and on a handle that never was connected. The functions of
`storm_mysql_ifce.cpp` throw away the result of their statement, so their
actions offer both outcomes. An INSERT that throws may have been executed all the
same, its answer lost with the connection (`ReplyLost`): inside a transaction the
server rolls it back, outside one, after a BEGIN that was lost, the row stays.

`AsyncRequest` extends `Session` with `asynch.cpp`, `filerequest_template.hpp`
and `insertIntoDB` of the three requests, one statement to a step. The
differences between the three are kept where they change the outcome (the
directory options of `PtgRequest`; `BolRequest`, whose INSERT of a directory
option always fails; the status the SURLs get when the client is refused).

`RequestStore` is what the database is to clients and to the backend: a request
enters it in one step, with the files that could be queued, before its client is
told which, or never; nothing stored or told changes again. `AsyncRequest`
implements it, while no connection drops, under the mapping that sees of the
database the committed rows of `request_file` and of a reply the SURLs it calls
queued. The proviso is the code's: the result of COMMIT is thrown away
(`storm_mysql_ifce.cpp:80`), so that after a drop a client may be told that a
request is queued which is not there.

`StatusRequest` is `asynch_status.cpp`, `StatusTemplate.hpp` and the status
request classes on one thread. One stored request is followed; the backend
changes it between any two steps. `m_surls` is `asked`, `m_turls` is `turls`;
both are `std::set`s of pointers, so the order is arbitrary, which is why
`Shown` is a set of possible outcomes. `held` records what statuses a file has
had since the question came. `RequestSummary` extends it with
`srmv2_GetRequestSummary.cpp` and `srmv2_GetRequestTokens.cpp` on the same
session: `snapshot` is what an open transaction sees.

`XmlRpcCodec` is the codec without the values: an encoder is a function from
the class of what it is given (`"good"`, `"null"`, `"empty"`, `"noarray"`,
`"notascii"`, `"invalid"`) to the outcomes it can have, and an outcome says what
is returned and whether the member was put into the structure; a decoder is a
function from the class of the member to what it may return. `"crash"` is what
comes of the allocations it does not check (`Unchecked`). The order of the
tests in the code shows in which class wins.
`SynchOperations` says in which of these the twenty-nine operations differ: what
`load()` accepts, the parameters in the order they are encoded with what an
error of each is answered with, the fields in the order they are decoded.
`Authorization` is `is_blacklisted`, with the PEP handle its thread keeps (`pep`).
`SynchRequest` is `handle_request` over those three: `pc` says where the thread
is, `i` which parameter or field is next, `inputParam` and `reply` what is in
the structure of the call and in the response, `refs` the references to be
released. It is one module for twenty-nine operations because the code is one
pattern written out twenty-nine times; what deviates from the pattern (the Ping
without a status, the operations that refuse or answer on their own, the one
that dereferences a pointer it has cleared) is an action of its own. `pc` is
`"dead"` when the process dies in a handler and `"starved"` when it does so for want
of memory. `supported` says whether the list of protocols is not empty:
`srmGetTransferProtocols` asserts that it is not (`srmv2_xferreq.cpp:1000`), and
`performSanityChecks` is the test with which `main()` declines to start otherwise
(`storm-frontend.cpp:301-305`); the list is never emptied afterwards.

`Logger` models a thread's logging as a stack (`frames`): a signal handler runs
on top of whatever its thread was doing, and the thread goes on only when the
handler has returned. A handler that finds `log_mutex` taken by its own thread
therefore never returns. Signals go to any thread, as POSIX allows; Linux
prefers the main one, which logs as well.
`Monitoring` extends it with the monitors, the workers that register (`pc[w]`),
the thread that digests a round (`digest`) and the part of `main()` that stops
and deletes them (`shutdown`). The digest thread reads the counters of a round
without their mutex, so each read is a step; registrations, made under the
mutex, are two steps, because those reads can fall between. The two passes of a
summary, synchronous monitors then asynchronous ones, are one pass over the
sequence `Monitors`; the header line of the details and execution times are left
out; `digestRound`, which nothing observes half-way, is one step.

Names of actions are those of the functions where TLA+ allows it; `map` in
`PROJECT.json` gives the lines of each definition. Actions commented *mutant*
are not part of a specification: each is a definition broken the way a mistake
in the code would break it, and shows that some property notices.

## 4. Runs

Every bound is a constant in the `.cfg`.

| run | configuration | checks |
|---|---|---|
| `pool` | 3 workers, queue of 2, 5 tasks | the invariants of the pool, that it implements `TaskQueue`, its fairness included, serves every task while it is open, and that its destructor ends |
| `frontend` | 2 workers, queue of 1, 4 connections, the fourth throws, 1 allocation failure, calls that may never return | no connection lost, database contexts private to a thread; what a signal and the accepted connections can count on although handlers log and calls have no time limit (`SignalHeeded`, `ShutdownEnds`, `EveryConnectionServed`) |
| `async_requests` | 2 requests of 2 SURLs, 2 protocols of which 1 is supported, 1 crash, 2 lost connections | atomic visibility, truthful replies and that it implements `RequestStore` while no connection drops; whatever drops, no file without a token, no row of `request_queue` without one unless both connections were lost, and no open transaction |
| `status_answers` | 2 questions about a request of 2 files, any list of at most 2 SURLs | an answer is current; success means done |
| `request_summary` | 2 operations of any kind on one session, 2 files | a summary is of one moment; nothing stored is missed |
| `synch` | 2 requests of any of the 29 operations, the ASCII check on, 4 codes of the backend | the call is authorised and says what the client said; the reply says what the backend said and is complete; structures are released once; the outcome is counted once; the process dies only in the three ways the code has while there is memory, and for want of it only in the operations of `Unguarded` |
| `monitoring` | 2 workers, 1 monitor, 2 operations, 2 rounds, 1 signal, audit and details on, log level 1 | no operation lost; a summary covers what was registered before it; no mutex is waited for in a circle |

Why these bounds are enough: three workers are the least with which one can
sleep, one be on its way and one be interrupted at once; the queue of two fills
with fewer tasks than the five, so that both conditions are waited on, and each
of the three workers takes one with two left. A task that throws ends the
process, so that no progress can be asked of the pool alone: it is in `frontend`,
whose liveness properties make an exception of the abort. Two workers and a
queue of one are the least with which an accept loop blocks while a worker
serves; the fourth connection finds the loop blocked with both workers in calls
and the queue full, so that the case in which nothing goes on any more is among
those checked. A second request shows what the first left behind on the session, the
XML-RPC client or the PEP handle, a second SURL a failure among successes; two
drops lose the connection twice around one transaction, which is what it takes to
leave a row of a request that was refused: one for its BEGIN, one for the answer
to its INSERT. Two files are the least
that can be partly done, and two questions the least of which one can see what
the other left. Two operations on one monitor can register at once, and two
rounds merge twice into the totals; a second monitor multiplies the states by
five and adds none of a new kind, since no step touches two (the proof of
`NoOperationLost` is for any number). The log level of `monitoring` is below
INFO so that signal handlers do not log: at the default level the process can
deadlock, which is what `signal_stops_server` shows.

Runs whose expected result is a violation each check one statement the code
makes about itself:

| run | statement | what happens |
|---|---|---|
| `tasks_finish` | "Waiting for active and pending tasks to finish..." (`storm-frontend.cpp:611`) | `main()` deletes the database pool and the monitoring while a task uses them; pending tasks are dropped |
| `status_for_each_surl` | "Fill status for each surl." (`PutStatusRequest.cpp:197`) | `addMissingSurls` overwrites the last file and leaves the last slot empty |
| `recall_is_available` | "...update DB info (that will be available to the next get status request)" (`BolStatusRequest.cpp:178`) | a summary that finds nothing returns without COMMIT; later status requests of the thread read its old snapshot |
| `optional_error_aborts` | "Also for optional parameter, [...] we prefere to abort the request execution" (`srmv2_dirreq.cpp:731`) | an `authorizationID` that cannot be encoded is dropped and the call made without it |
| `signal_stops_server` | "Signal SIGINT received: shutting down..." (`storm-frontend.cpp:75`) | the handler logs before it clears `stay_running`; on a thread that holds `log_mutex` it waits for ever, and with it the process |

Met while modelling, and not runs of their own:

* A failed ping, unsupported protocols and a request all of whose SURLs failed
  keep their token, against "Do not supply a request token in case of error."
  (`filerequest_template.hpp:140`); `nbreqfiles` counts SURLs that were rolled
  back (`PtpRequest.cpp:250`), which `srmv2_GetRequestSummary.cpp:278` logs as
  "BUG! In DB wrong nbreqfiles".
* `transferParameters` is encoded with its errors ignored and its inner
  structure kept; `encode_ArrayOfTExtraInfo` keeps `infoElement` for an entry
  whose key is null.
* `StatusOfReserveSpaceRequest` clears the response behind the allocation of its
  status and writes through the null pointer (`srmv2_spacereq.cpp:427-431`);
  `set_version_info` compares the key of an entry that may have none.
* `decode_lifetimeValue` writes through an allocation it does not check
  (`xmlrpc_decode.cpp:56`), and so do some others: the `Unchecked` decoders.
* With BEGIN lost to one drop and the answer to the first INSERT to another, the
  client is refused and its row of `request_queue` stays (`NoTokenNoFiles`).
* An empty list of SURLs with a token is accepted by `ReleaseFilesRequest` and
  then refused as an internal error by its encoder; a path detail without a path
  ends the decoding of a listing as "not found", and the client is told success.
* `make_pep` publishes the thread's handle before it is configured; a later
  request uses it half configured, which `BackendCallAuthorized` shows lets
  nobody through.
* A counter of successes printed for a round may be negative, since its terms
  are read at different moments; operations registered between the summary of a
  round and its digest never appear in a "Last" column, only in the totals.

## 5. Fairness

`FairSpec` and `FrontendFairSpec` assume weak fairness of the steps of each
thread that can run: the operating system schedules it, a mutex is held only for
one step and so is given to it in time. The decision to schedule a task or to
destroy the pool, spurious wakeups, new connections, signals and failures are
never forced. Of the environment it is assumed that `soap_accept` returns (it
has a timeout of five seconds, `storm-frontend.cpp:323`) and that `soap_copy`
succeeds in the end (`CopyFails` is bounded by `MaxFailures`). It is not assumed that a call out of a request returns, nor that a
handler gets past its log line. The liveness properties of `Frontend` say what is
left: `SignalHeeded` and `EveryConnectionServed` hold unless a handler is stuck in
the log or every worker ends up in a call that never returns, that is, one worker
whose calls return is enough; `ShutdownEnds` needs that every call returns, since
the destructor of the pool joins every worker. Strong
fairness is not needed. `MonitoringSpec` asks only that some thread goes on while
one can (`WF_vars(System)`), a mutex that is free and a sleep that ends among
what it can go on with: operations, rounds and signals are bounded, so no
thread has an endless run in which another could starve. Clients, signals and
the use of a deleted monitor, which ends the process, are never forced. The
other modules are checked for safety alone.

## 6. Proofs

Every theorem holds for every value of the constants that satisfies the named
assumption of the module.

`ThreadPoolProofs` and `FrontendProofs` hold for every number of workers,
capacity and number of tasks, from `PoolAssumption` (at least one worker
and a queue of at least one place; tasks are natural numbers) and
`FrontendAssumption` (the bound on failures is a natural number).

* `TypeCorrect`: `TypeOK` is not inductive: that the loop index of the owner
  stays in range needs to know which loop it is in. `Shape` adds this, and that
  `_stop` is set exactly from the destructor or the unwinding on.
* `TasksConserved`: every task scheduled is queued, held by exactly one worker,
  finished or dropped, in order. `TaskConservation` is inductive relative to
  `Shape`; a push, a pop and the end of a task each get a lemma.
* `WakeupsAndCounts`, with `QueueStaysBounded` and `ActiveCountExact`: the
  counting argument. Until the destructor sets `_stop`, which is before it
  interrupts anyone, `Counts` relates the length of the queue to the number of
  workers on their way to `pop` while one sleeps (`NoLostWakeup`: an interrupted
  worker may take a notification with it, so that nothing of the kind holds
  afterwards), and always the counter to the workers inside a task. It needs
  `BuildOrder`, that the constructor makes the threads in order, so that the one
  it creates was not counted before.
  The lemmas `JoinsAwake`, `LeavesAwake`, `JoinsCounted`... say how the
  cardinalities change when one worker moves.
* `StopEndsStarting`: `DropsExit`, that a worker that drops its task is over with
  the same step, bounds the tasks dropped by the number of workers; that nobody
  begins one is seen from the steps themselves (`NobodyCleared`).
* `PoolEndsAlone`: `Joined`, that the workers below the loop index have exited,
  gives that none is left when the destructor returns.
* `PoolImplementsTaskQueue`: every step of the pool is a step of `TaskQueue` or
  a stutter, under the mapping above. `Inv` is the conjunction of all of these
  with `Budget`, that the task a `push` is about to add is within the tasks of the
  behaviour, which the abstract queue asks of every task it takes.
* `NobodyIsStuck`, `StopWindsDown`: the part of `EveryTaskServed` and
  `DestructorEnds` that needs no fairness. Until the pool stops, while a task is
  queued or the owner waits for a place, some worker is awake; whoever the destructor waits for is
  awake, is told to end, or is over; and every step behind the interrupt loops
  brings the end nearer by the measure `Ahead`. That a scheduler which lets
  threads go on then ends the destructor is the one inference left to TLC.
  `Called` is the invariant that the loops have interrupted everyone behind
  their index and that nobody is interrupted before.
* `FrontendConservesTasks`, `FrontendKeepsPromises`: every step of the process
  is a step of the pool or leaves it alone, by the form of its actions (a lemma),
  so that what is proved of the pool is proved of the process.
* `FrontendTypeCorrect`, `ConnectionsKept`, `ContextsPrivate`: `FInv` adds to
  the pool's `Shape` and `BuildOrder` where `main()` and each request are.
  `Connections` strengthens `NoConnectionLost`: until `main()` has left its loop
  nothing but a failure lets a connection go. `Contexts` adds to
  `ContextPerWorker` that a worker inside `getConnection()` is serving, without
  which a new request could not be known to enter it alone.
* `ProcessSound`: whatever `main()` waits for in the pool, some worker can go on,
  be it the one inside `getConnection()` that the others wait for, or is in a call
  out of its request; a request
  finds an object of `main()` gone only in the teardown, and none is left when
  `main()` returns. `Drives` says where the pool is at each place of `main()` and
  which objects are there; `NobodyServesYet`, that before the first task there is
  no request to want them.

`AsyncProofs` and `StoreProofs` hold for every number of requests, SURLs,
protocols, crashes and lost connections, from `AsyncAssumption` (at least one
SURL in a request; the supported protocols are among the protocols). The first
section of `AsyncProofs` says what a
statement does to a session whoever sends it: `StatementTidy`, that a
transaction is open on a live connection only, and `StatementRows`, that only
an INSERT adds to `Rows`, which is all the session has stored or could yet
commit.

* `TypeCorrect`: `WorkerOK` with `Tidy` is inductive.
* `NoOpenTransaction`: `TransactionsClosed` is inductive relative to `Tidy`.
  A COMMIT or a ROLLBACK that never reaches the server closes nothing; `Tidy`
  gives that there was nothing left to close.
* `SeenWhole`, `RepliesAreTrue` (`StoreProofs`): `StoreInv`, while no
  connection has dropped. `Linked` says where the connection is up and a
  transaction open; `Isolated`, that what the session has more than the database
  is the request's own; `Inserted`, which rows of it the transaction and its
  savepoint have when the loop is at SURL `i`, namely those of the SURLs below
  `i` that are still queued; `Marked`, what statuses the loop has given so far;
  `Visible`, that every earlier request is in the database whole or not at all
  and was answered accordingly. At COMMIT `Inserted` becomes `Visible`. Both
  properties follow from `Visible`; neither is inductive without the rest.
* `NothingWithoutToken`: `NoTokenNoFiles` speaks of answered requests only.
  `UnservedQuiet` speaks of every request that has not come yet, has stored
  nothing yet, or is being or has been answered without a token: of `Rows` at most
  its row of `request_queue` is its, and while no more than one connection has
  dropped not even that (`UnservedAbsent`). No step makes a request unserved that
  was served (`UnservedBefore`: this needs `TokenKept`, that the token given before
  the first INSERT survives until the answer, and `AnsweredOnce`), and a step that
  inserts makes its request served (`InsertServes`), but for the INSERT whose
  answer is lost (`QueueRowLost`). With one drop in all that INSERT was inside a
  transaction, since `Linked` of `StoreInv` says that until then one is open, and
  the drop rolls it back.
* `RequestsImplementStore`: from the same invariant. A COMMIT that ends a
  transaction is `Store` (`CommitImplements`), `Decline` and `Respond` are
  `Answer` (`AnswerImplements`), and no other step, the crash included, changes
  the database or a reply (`OnlyCommitStores`): a BEGIN finds no transaction to
  commit, an INSERT is always inside one.

`StatusProofs` and `SummaryProofs` hold for every number of files, SURLs, lists
of SURLs asked for and requests, from `StatusAssumption` (a request has a file;
what is asked for are sequences of SURLs).

* `StatusTypeCorrect`: `StatusInv`, with `Counted`: the files counted and those
  still to be counted are together no more than those loaded; `Whole`, that the
  backend has all files of a request or none, comes with the types.
* `AnswersCurrent`, `SuccessOfEach`: `TrueSoFar`. A status loaded is one the file
  had (`Current`); the SELECT leaves none of the files asked for out
  (`LoadedAll`, from `Whole`); a file on disk no longer fails (`Recalled`), so
  that the success buildResponse gives it is one it had; what is counted as done
  is done (`Successes`). Lemma `AllAsked` is the argument that success for the
  whole array is success of every file: counters that reach the size of an array
  with a place for each SURL asked for leave no place for a file that is not
  done, because no two files share a SURL. That is where `SurlsDiffer` is needed.
* `OneMoment`, `StoredFound`: `Collected`, that what has been selected so far is
  of the snapshot, and the snapshot is a moment since the operation came;
  `Underway`, that the database of now is such a moment as well. The status
  requests of the thread keep `StatusInv` whatever the snapshot is.

`MonitoringProofs` holds for every number of workers, monitors, operations,
rounds and signals, from `MonitoringAssumption`.

* `OperationsConserved`: `NoOperationLost` is strengthened by `WorkerHolds` and
  `DigestHolds` (who has the mutex of a monitor, and therefore who has counted
  what so far) and by `Bounded`; `Conserved` is then the sum itself. `SumMoves`
  and the lemmas beside it do the arithmetic of one counter moving.
* `SummariesCover`: `Summing` says, monitor by monitor, that what was registered
  and aggregated when the summary began, with what the round has read since, is
  no more than the summary will know of. `Totals` are such numbers added up along
  the sequence of the monitors. That their sums compare as they do is an
  induction over the number of monitors; the library's rule has an operator for
  a parameter, so that `Induction` states it of a set of numbers, proved from the
  least element of the library's `WFMin`.
* `MonitoringTyped`: `TypeInv`. What bounds a counter is `Numbered`: the
  operations registered with a monitor and the workers that have begun one and
  not registered it (`Pending`) are together no more than those there were.
* `WaitsAscend`: the safety half of `MonitoringNeverBlocks`. Whoever has a mutex
  another waits for waits himself only for one further on in the order
  `m_mutex`, monitor, audit file, log: no circle, but for the handler that waits
  for the log mutex of the very thread it interrupted, which is what
  `signal_stops_server` shows. `Frames` says which frame of which thread has a
  mutex of the logger, `DigestHas` which mutexes the digest thread has where.

`SynchProofs` holds for any number of requests of any of the operations, from
`SynchAssumption`.

* `CallsAreAuthorized`: `Authorized` adds to the property what the places before
  the call know: an `is_blacklisted` that returned false was switched off or was
  told Permit, in this request, since `NewCheck` forgets the last one.
* `StructuresReleased`: `Balanced` says how many references are held at every
  place, so that no return releases twice or not at all.
* `SuccessIsTheBackends`: `Truthful`. Its lemma `OperationsAnswer` goes through
  the tables of all the operations: whatever cannot be encoded is answered with
  an error, and only `GetTransferProtocols` answers on its own.
* `DeathsKnown`: `Mortal` adds that the process has a protocol to answer with, since
  `main()` would not have started without; it needs `Balanced` and `Truthful`.
  `DecodeCrashUnguarded` finds the operations that have a field decoded without a
  check of its allocation. `TokensThere` goes through the
  operations whose log line prints the token of the request: each of them has
  declined a request without one before.
* `CountedAsTold`: `Counted` says what the client is told so far at every place
  and that nothing is counted before the end; `Truthful` says which status an
  answered request has.
* `RepliesComplete`: `Complete`, what of the answer has been decoded so far.
  `DecodersFind` and `OperationsDecode` go through the decoders and the tables:
  no decoder takes a well formed field for one that is absent.
* `CallsCarryRequests`: `Carried`, what the parameters encoded so far have left
  in the structure. `SoundFaithful` says of thirteen of the encoders that "done"
  means put, and put means of a class that may be; `OperationsAnswer` that every
  parameter but the two exempt ones is given to one of these and that its errors
  end the request; `RequestsGiven` that what `load()` lets through are classes
  the encoder of the parameter knows.
* `SynchTypeCorrect`: `RequestTyped`, with `Carried` for the index of the loops
  and `Balanced` for the references.

Only model-checked: the liveness properties, `EveryTaskServed`,
`DestructorEnds`, the fairness of `TaskQueueSpec`, `ShutdownEnds`,
`EveryConnectionServed` and `MonitoringNeverBlocks`: fairness and ENABLED are out
of the prover's reach. What they need beside fairness is proved for the pool
(`NobodyIsStuck`, `StopWindsDown`), for `main()` (`ProcessSound`) and for the
mutexes of the monitoring (`WaitsAscend`). The theorems without a run of their
own (these, and `FrontendKeepsPromises`) were checked on the small instances
before they were proved.

## 7. Not modelled

* The columns of a row other than its request, its SURL and its status; the
  text of tokens, SURLs and explanations; sizes, times and TURLs of a file.
* The values the codec translates (a lifetime is encoded as a signed int and
  decoded as unsigned, `xmlrpc_encode.cpp:80`, `xmlrpc_decode.cpp:57`); failures
  inside the XML-RPC library other than a fault of the call; `HttpPostClient`.
* Failed allocations in the SOAP runtime other than that of the response, of the
  list of protocols and of what is decoded from an answer: they end a request with
  a SOAP fault.
* `buildResponse` of the synchronous request classes, which nothing calls.
* Lost connections during the summary and the tokens, which do not ping.
* Execution times and their deviations in the monitoring; the stub that stands
  for it when it is off; failures to write a log line.
* What the backend does is external: it takes a file from queued to in progress
  to done or failed, never fails a file that is on disk, and knows a recalled
  file when it is asked. So are the MySQL server, the Argus service and the SOAP
  runtime.
* Configuration, SOAP and GSI glue and packaging have no state that changes
  after the start; the rewriting of names has none at all.

# My-Bookstore: TLA+ models and proofs

This directory specifies the parts of the bookstore server whose correctness
depends on what runs at the same time, on what fails half-way, and on what
survives a restart. Each module is translated from the C++ and SQL it names;
`PROJECT.json` maps every definition to its source lines. Source
paths in the table below are relative to the repository's `src/` directory.

## 1. The system

The repository holds an HTTP server (epoll loop, worker threads, MySQL
connection pool, asynchronous log) and a small bookstore on top of it (users,
books, inventory, orders, recommendations). It runs either as a **monolith**, in
which the API gateway calls the services in the same process, or as a **split
deployment**, in which user, book, inventory and order services are gRPC
servers with their own processes and the order service calls the inventory
service.

| Component (source) | State | Operations | Interacts with | What makes it hard | Correct when |
|---|---|---|---|---|---|
| Inventory reservations (`app/repository/mysql/mysql_repositories.cpp`, `scripts/init.sql`) | tables `inventory`, `inventory_reservations`, `inventory_reservation_items` | `reserve_stock(id, items)`, `release_stock(id)`, `add_stock` | called by the inventory gRPC service; one pooled connection per call | transactions of several statements, equal ids in flight, failure at any statement, lost COMMIT answer | units are conserved; a reservation is made once and released once |
| Order service, monolith (`app/service/order_service.h`, `app/client/local_inventory_client.h`) | tables `orders`, `order_items`, `inventory` | `create_order`, `cancel_order` | local inventory client, MySQL repositories | no transaction spans the items, compensation by hand, check-then-act on the order status, crash between steps | no unit is invented or lost |
| Order service, split (`order_service.h`, `app/client/grpc_inventory_client.cpp`, `app/grpc/*`) | `orders`, the id counters in process memory | `create_order`, `cancel_order` | RPCs to the inventory service | lost calls and answers, restart, late calls, reused ids | an order is backed by a reservation of its own until it is cancelled; a rejected order leaves none |
| MySQL connection pool (`db/sql_connection_pool.cpp`) | `connList`, `m_shutdown`, `connectionRAII` objects | `GetConnection`, `ReleaseConnection`, `DestroyPool` | every worker; nested acquisition | notify after unlock, nested waits | one owner per connection, no lost wake-up, not everybody waits |
| Worker thread pool (`pool/threadpool.h`) | `m_workqueue`, `m_stop`, the workers | `append`, `append_p`, `run`, the destructor | event loop, connection pool, `http_conn` | bounded queue, notification, shutdown | queued requests are taken, shutdown drains and ends |
| Event loop and timers (`core/webserver.cpp`, `timer/lst_timer.cpp`) | `users_timer`, timer heap with lazy deletion, epoll set | accept, read, write, signal, tick | thread pool, `http_conn` | stale timer pointers, `improv`/`timer_flag` order, descriptor reuse | a descriptor is closed once and belongs to one client |
| HTTP connection (`net/http/http_conn.cpp`) | read and write buffers, parser indices and state, `iovec`s | `read_once`, `process_read`, `do_request`, `process_write`, `write`, `reset_state` | event loop, router | input cut at any byte, a full buffer, partial writes, keep-alive | the k-th answer is to the k-th request however it is cut; what fits is answered; answers arrive whole |
| Router, URL parameters (`net/http/router.h`, `url_params.h`) | two route tables | `add_route`, `route` | controllers | overlapping patterns, order of registration | the most specific route answers |
| Book catalogue (`app/service/book_service.h`, `mysql_repositories.cpp`, `grpc_book_client.cpp`, `book_grpc_service.cpp`) | tables `books`, `inventory` | `create_book`, `update_book` | inventory table, orders, inbound stock | two statements without a transaction; read-modify-write over gRPC | the two stock columns agree; an update that does not name the stock leaves it alone |
| Recommendations (`app/service/recommend_service.h`, `app/recommend/*`) | one vector index for all requests, under a mutex | `rebuild`, `similar_books` | book client | every request rebuilds the shared index; several queries per request | no active book is missed |
| Log and block queue (`log/log.cpp`, `log/block_queue.h`) | circular queue, file, counters | `write_log`, `async_write_log`, `close`, the destructor | every thread | full queue, rotation at midnight, close while waiting | first in, first out; nothing accepted is lost at close; lines are in the file of their day |
| Users and credential caches (`user_service.h`, `db/user_cache.cpp`, `db/redis_user_cache.cpp`) | table `user`, map, Redis | authenticate, register | MySQL, Redis | a unique key; the caches are loaded and never asked | a user is registered once |
| In-memory repositories (`memory_repositories.h`) | maps under a mutex | as the MySQL ones | tests | – | same contract as the MySQL ones |
| Gateway, controllers, order client, configuration, SHA-256/JSON helpers, web client | none that outlives a call | conversion and dispatch | – | – | – |

## 2. Plan

1. *(done)* Reservation ledger, its statement-level implementation, the two
   order paths, the connection pool, the thread pool, and the event loop with its
   timers, with the proofs of section 6.
2. *(done)* The log and its block queue as an implementation of a bounded FIFO;
   the HTTP connection with the router; the catalogue with the recommendations
   that read it.
3. *(done)* Proofs of every safety property and refinement that the passing runs
   check (section 6): the repository, both order paths, the pools, the catalogue
   with its readers, the log, the event loop with its timer heap, and the HTTP
   connection with the router.

Abstract specifications: `ReservationLedger` (refined by `InventoryRepository`),
`ConnectionPool` (by `ThreadPool`) and `FifoLog` (by `ServerLog`).

## 3. Modules

```
ReservationLedger  <-- refines --  InventoryRepository     (statements and locks)
        ^
        +-- extended by --------  SplitOrders              (order service over RPC)
LocalOrders                                                (monolith order path)
ConnectionPool  <-- extended by, refined by --  ThreadPool (workers and shutdown)
TimerHeap       <-- extended by --  EventLoop              (main thread, timers, hand-over)
Router          <-- extended by --  HttpConn               (one connection, bytes in and out)
Catalogue       <-- extended by --  Recommender            (readers beside the writers)
FifoLog         <-- refines -----  ServerLog               (block queue, writer thread, files)
```

`MC*.tla` name the symmetry sets and derived constants for TLC;
`*Proofs.tla` hold theorems only.

Operators introduced by the comment *Seeded fault* are not part of any
specification. Each is a wrong version of the definition that follows it (a
dropped guard, a missing notification, a loop that ends early) and is there to
show that the property paired with it in `PROJECT.json` ("mutants") fails as soon
as that definition is replaced by it.

**ReservationLedger.** The tables as functions: `available[b]`, `status[r]`
("none" when there is no row), `held[r][b]`. `Reserve`, `Release` and `Inbound`
are one atomic step each, the effect of the gRPC service's `ReserveInventory`,
`ReleaseInventory` and `InboundInventory`. `stocked` is a history variable: units
ever put in.

**InventoryRepository.** The same three operations as the sequence of SQL
statements of `MysqlInventoryRepository`. A session's `pc` names its next
statement (`find`, `insert`, `take`, `read`, `give`, `commit`); `delta` is its
uncommitted change; `resLock` and `rowLock` are InnoDB's locks, which are
external to the repository and modelled from how the statements rely on them:
`SELECT ... FOR UPDATE` locks a row or, if there is none, shares the gap;
`INSERT` waits for the other holders of the gap; `UPDATE` locks a row; COMMIT and
ROLLBACK free everything. `Fail` can strike any statement (deadlock victim, lock
wait timeout, lost connection), and `Commit(s, "failed")` is a COMMIT that took
effect but whose answer was lost. Two items of one book in a request are refused
by the unique key on the item rows, as in the schema.

**LocalOrders.** `create_order` and `cancel_order` on the local client, one
action per repository call. A request's loop is `items`/`next`; `give` is any of
the three loops that release items (rollback of a partly reserved request,
compensation after a failed insertion, cancel). `excess` counts, as history, the
units released by a worker that did not own them. `Crash` loses the workers'
program counters and nothing else. Failed statements may or may not have taken
effect.

**SplitOrders.** The order service's workers against the ledger. `nextId` and
`gatewayId` are the two in-memory counters; `Restart` resets them and leaves calls
that were under way in `late`, to be served at any later time or never.
`ReserveLost` and `CompensateLost` are RPCs that failed before or after they were
carried out.

**ConnectionPool.** `free`, `closed`, `shutdown`, and for each thread the stack of
its live `connectionRAII` objects. What runs under `lock_` is one action; blocking
on `cv_` and the notification after the unlock are separate, and spurious wake-ups
are allowed.

**ThreadPool.** Extends the pool with the work queue, the workers' loop, the main
thread's `append`/`stop`/join and the static destruction of the connection pool.
A worker takes the dispatcher's connection, then up to `MaxDepth - 1` nested
ones, as the repositories do. `Rearm` is the `modfd` that ends `process()`: from
then on the same connection can be queued again while the worker is still
finishing.

**TimerHeap.** The binary heap behind `std::priority_queue`, as operators on
sequences: push, pop, the order in which a loop of pops empties it. It is modelled
as exactly as libstdc++ implements it because the code changes keys in place, and
what a heap does after that depends on where its elements are.

**EventLoop.** The main thread, the timers, and the hand-over to the workers in
both concurrency models (`mode` is `m_actormodel`). `owner` and `armed` are the
kernel's: who is connected to a descriptor, and which event epoll awaits ("off"
after EPOLLONESHOT has reported one). `heap` is `m_heap`; a timer is "current" if
`users_timer` points at it, "stray" if it runs although nothing points at it any
more, and "dead" once cancelled. One action per event the loop handles: `Accept`,
`AcceptRefused`, `Hangup`, `ReadProactor`, `WriteProactor`, `CloseProactor`,
`HandOver` (reactor; followed by `SeeImprov` and `CheckTimerFlag`, the two halves of
`wait_improv`), `Tick`, `Terminate`. A worker's steps are the dispatcher's, with
`improv` and `timer_flag` set in two steps as in the code. `Pass` lets a slot of
TIMESLOT seconds go by; a timer that has expired stays at zero. `CallFreedTimer` is
the undefined behaviour after a purge has deleted the timer that `wait_improv`
holds: the process may crash, or go on as if the timer were still there. What a
request says is nondeterministic: `read_once` and `write` succeed or fail,
`process` asks for more input or for output. `close_conn` is not called from
`process`, since `process_write` does not fail for the codes `process_read` returns.
`overrun` and `wronged` are history variables.

**Router.** The table that `ApiGateway::register_routes` fills and
`Router::route` as operators on sequences of segments: the exact routes first, then
the routes with parameters in their order. `MostSpecific` is the reference
definition, which knows no order. A path is `plain` when its text is its segments
each behind one slash; only such a path can be an exact route, while
`split_path` forgets doubled and trailing slashes. Registering an exact route twice
throws at start-up; the table has none.

**HttpConn.** One connection from `init` to `close_conn`. What the client has sent
is `wire`, what was received is `buf` (`read_idx_` is its length), both sequences
of bytes, of which only CR, LF and a body's bytes are told apart; the text of a
request line or of a header is one symbol. `Read(n)` is `read_once` when `n` bytes
have arrived, in the level- and in the edge-triggered mode; one iteration of
`process_read`'s loop is one action (`RequestLine`, `Header`, `HeadersEnd`,
`Content`, ...); `NoLine` ends `process()` with a wish for more bytes.
`DoRequest` is the gateway's route or any outcome a file may have, and `Pieces` the
`iovec`s that `process_write` fills; `WritePart(n)` is a `writev` that takes `n`
bytes, and `Adjusted` the code's own arithmetic on the pieces after it, which reads
outside the object in some cases ("junk"). `HeaderThrows` is `std::stol` on a
header without a number: nothing catches the exception, and the server ends.
`rescanned`, `piped`, `cutHead` and `why` are history variables that name the
situations the properties except. The `mmap` of an empty file fails, so the branch
of `process_write` for an empty page cannot be reached.

**Catalogue.** The tables `books` and `inventory` under `create_book` and
`update_book`, through the local client or through gRPC, where the client reads the
book, fills in what the update lacks and sends all of it. Each statement outside a
transaction is a step; `UPDATE books` with values the row already has affects no
row, and the update then ends without touching `inventory`. Inbound stock
(`AddStock`), an order's reservation (`ReserveStock`) and its release
(`ReleaseStock`) are the other writers. The last two write `inventory` only, inbound
stock both columns. `sold` stands for the orders there are: a book without one is
never released, one with an order may be released more than once, since cancels
overlap. `taken` (units ordered less units released since the stock was written,
which a release of older units takes below zero) and `ledger` are history variables
that add up what should be there; `torn`, `revived`, `crossed` and `stale` record
which races happened. The
connection's parser takes only GET and POST, so `PATCH /api/books/{book_id}` is
registered but not reachable over HTTP: an update comes in through
`ApiGateway::dispatch` or the gRPC interface.

**Recommender.** `GET /api/books/{book_id}/similar` beside those writers:
`Rebuild` replaces the gateway's one index, `ReadSource`, `SearchIndex` and
`ReadCandidate` are the queries and the search under the mutex. An embedding is
abstracted to a number with a distance; the order of the sort is the code's, and the answer of
the search is the entries with fewer than `Limit` others ahead of them (`Nearest`). `steady`
(books active all through a request) and `faulty` are history variables.

**FifoLog.** What the log promises: lines are handled in the order in which they
were accepted, at most `Capacity` are under way, and the log ends with none left.

**ServerLog.** `Log` and `block_queue` at the level of their critical sections. A
caller reads the clock (`ReadClock`), formats and rotates under `m_mutex`
(`Format`), and in asynchronous mode asks `full()` (`TestFull`) and pushes
(`PushLine`); the writer thread's steps are `PopLine`, `PopWait`, `PopEnd` and
`WriteLine`; the destructor's are `CloseQueue`, `NotifyAll` and `Join`. A file is a
day and a number; `fopen` may fail, which the code does not look at, and the next
rotation then calls `fclose(nullptr)` (`CloseNull`). The mode "closed" is `-c 1`:
`init` is never called. The refinement mapping reads the accepted lines off the
handled ones, the writer's hand and the circular array.

Left out everywhere: prices, totals, user data, message texts and logging, which
no property looks at.

## 4. Runs

| Run | Bounds | Result |
|---|---|---|
| `inventory_repository` | 2 sessions, 2 books, 2 ids, 2 items of at most 2 units | `TypeOK`, `LookupStillHolds`, `WorkIsPublishable`, `Conservation`, `OkMeansReserved`, refinement `LedgerSpec` hold |
| `local_orders` | 2 workers, 2 books, 2 items, 2 orders, 1 failed statement, 1 crash | `TypeOK`, `NoStockInvented`, `NoStockLost` hold |
| `local_cancel` | the same without failures | `CancelReleasesOnce` is **violated** |
| `split_orders` | 2 workers, 1 book, 3 ids, 2 orders, 2 faults, 1 restart | `OrdersAreBacked`, `NoOrphanReservation` hold |
| `split_restart` | the same, no faults | `NoOversell` is **violated** |
| `connection_pool` | 3 threads, 4 connections, depth 2 | `OneOwner`, `NoLostWakeup`, `NotAllWaiting` hold |
| `thread_pool` | 2 workers, 5 connections, depth 3, 2 requests, queue of 1 | `TypeOK`, `NothingLeftBehind`, `QueuedIsTaken`, `StopEndsWorkers` hold |
| `thread_pool_default` | 2 workers, 2 connections, depth 2 | `StopEndsWorkers` is **violated** |
| `event_loop` | both models, 2 descriptors, 2 clients, 1 worker, queue of 1, lifetime 1 slot, purge at 2 | `TypeOK`, `OneTimerEach`, `CountsAgree`, `OneAtATime`, `ProactorClosesInactive`, `WaitEnds`, `StuckEnds` hold |
| `http_conn` | 12 shapes of message, 2 messages, read buffer of 14 symbols, answers of 3 and 3 + 2 bytes, both trigger modes | `TypeOK`, `ParsedAsSent`, `RoutedToMostSpecific`, `FileWhole`, `FitsIsAnswered` hold |
| `server_log` | 2 callers, queue of 2, 5 lines, 2 days, a split every 2 lines, 1 failed `fopen`, all three modes | `TypeOK`, `EveryLineOnce`, `FileOfTheDay`, `FilesStayShort`, refinement `FifoSpec`, `CloseEnds` hold |
| `catalogue` | 2 writers and 2 readers, local or gRPC each, 2 seed books and 1 new, 3 requests, 1 fault, 1 candidate | `TypeOK`, `StocksInStep`, `PartialKeepsStock`, `SimilarComplete` hold |

Four more configurations are kept for the counterexamples they give and are not
among the runs of `PROJECT.json`: `SplitCancel.cfg` (`MCSplitOrders`,
`CancelReleasesStock`), `EventLoopReactor.cfg` and `EventLoopHeap.cfg`
(`MCEventLoop`, `ClosesInactive` and `TickClosesExpired`), and `HttpWrite.cfg`
(`MCHttpConn`, `ResponseWhole`). Section 5 says what they show.

Why these bounds are enough. Every conflict in the repository is between two
transactions over one reservation row or two inventory rows, so two sessions, two
ids and two books produce each of them, including requests that lock the two
books in opposite orders; quantities up to 2 with a stock of at most 2 make a
request refused, granted exactly, and granted with rest. The order paths need two
requests that overlap and one more order to meet; one fault and one crash place a
single failure at every step, which is what the compensation code is written for,
and the second fault of `split_orders` also loses the compensating call itself.
Three threads with depth 2 are the smallest pool in which a waiting thread, a
notifying one and a barging one coexist; with 4 = 3 * (2 - 1) + 1 connections the
pool is exactly above the bound at which it can deadlock. A queue of one element
with two requests makes `append` be refused. In `EventLoop` two
descriptors and two clients make one descriptor pass from one client to another
while a second connection shares the heap, which grows to three timers (to five or
more, three levels, under `EventLoopHeap.cfg`); a purge at 2 happens in many
places, as the 512 of the code does in long runs; one worker and a queue of one
make the queue overflow, and one worker next to a queued request already puts a
connection into two hands. The lifetime of three slots (3 * TIMESLOT) is used in
the two short configurations; in the long run it is a single slot, so that timers
expire in every situation, and the order of unequal expiries is left to
`EventLoopHeap.cfg`.

In `HttpConn` the shapes of message are chosen for the parser's branches (both
kinds of request, several headers of a kind, a body with and without a line end in
it, a negative length, a length without a number, a refused method, bare LF, each
kind of route, one message that fills the buffer and one that fills it but for a
byte), and two messages make one follow another on a kept connection. Each is cut
at every place. In `ServerLog` a queue of two wraps around twice in five lines, a
split happens after every second line, and two callers and two days are what an
inversion at midnight needs. In `Catalogue` each race is between an update and one
other writer, or two updates, and a third request shows what the race left behind;
with `Limit` 1 and three books the search has to choose.

The limits `MaxCancelled`, `MaxOrders`, `MaxIds`,
`MaxStock`, `MaxFaults`, `MaxFailures`, `MaxRestarts`, `MaxCrashes`, `MaxCalls`,
`MaxMessages`, `MaxLines`, `MaxDay`, `MaxBook`, `MaxRequests` only cap counters.
Symmetry is used over sessions, workers, clients, readers, books, threads and
connections in the runs that check invariants and action properties, not under
liveness.

Only `catalogue` turns deadlock checking off: its bound on the requests ends every
behaviour, and what remains is an idle server. In `ThreadPool` the finished server
stutters in `Terminated`, in `EventLoop` the ended loop in `Stopped`, in `HttpConn`
the closed connection and in `ServerLog` the destroyed log in `Ended`; in the other
modules some operation can always start.

### Fairness

`ThreadPool`, `EventLoop`, `HttpConn` and `ServerLog` state fairness. In
`ThreadPool` it is weak fairness of each worker's own steps (`WorkerStep(t)`)
and of the main thread's obligatory ones (`MainStep`: the notification after an
append, the notification, join and destruction after a stop). The operating
system's scheduler justifies it: a thread that can keep running is run. Nothing
is assumed of the mutexes or condition variables (which waiter is woken, who
gets the lock), of epoll (events may never come), or of the arrival of SIGTERM;
spurious wake-ups may but need not happen. A worker's MySQL calls are assumed to
return, since `ReturnInner` and `Rearm` are among its steps.

In `EventLoop` time passes (`WF(Pass)`), a worker that can go on does
(`WF(WorkerStep(w))`; that a queued request is taken is `QueuedIsTaken` of
`ThreadPool`), the main thread leaves `wait_improv` when it can (`WF(WaitImprov)`,
it polls every 100 microseconds), and `timer_handler` runs whenever SIGALRM has been
received and the loop comes round again (`SF_timeout(TickRuns)`): `eventLoop` calls
it at the end of each batch of at most `MAX_EVENT_NUMBER` events. It is strong
because in the reactor model the thread is in `wait_improv` in between, again and
again. Nothing is assumed of the clients: no event need ever come.

In `HttpConn` bytes that were sent arrive and are read (`WF(\E n : Read(n))`), and a
worker that runs `process()` goes on (`WF(Process)`); the first is TCP's promise
together with the event loop's, for which `OneAtATime`, `QueuedIsTaken` and
`WaitEnds` are checked. Nothing is assumed of the client's further messages, of the
socket taking bytes, or of the connection staying open. In `ServerLog` the writer
thread runs when it can (`WF(WriterStep)`), and so does the thread in `~Log`
(`WF(NotifyAll \/ Join)`); no line need ever be written and nobody need destroy the
log.

## 5. Disagreements with the repository's documents

* `docs/ecommerce_api.md:281-283` says a repeated cancel does not release stock
  again. Two overlapping cancels in the monolith do (`local_cancel`): both pass
  the status check before either UPDATE, and the number of affected rows is not
  looked at.
* The same lines say a cancel releases the reserved quantities. In the split
  deployment it does not (`SplitCancel.cfg`): the release by book and quantity is sent
  under a made-up reservation id.
* `docs/ecommerce_api.md:268` says an order is refused when stock is insufficient.
  After a restart of the order service its ids start again, the inventory service
  takes them for retries, and an order is accepted without taking stock
  (`split_restart`).
* `pool/threadpool.h:170` says a worker exits safely once stop is set and the queue
  is empty. With as many connections as workers, the default, the workers can
  block each other in `GetConnection` for ever, so the join never returns
  (`thread_pool_default`).
* `timer/README.md:4` says the timer deals with inactive connections. In the reactor
  model `dealwithread` and `dealwithwrite` pass the timer that `adjust_timer` has
  already replaced to `wait_improv`; the replacement survives the connection, and
  later closes an active connection of another client on the same descriptor
  (`EventLoopReactor.cfg`). In the proactor model the promise is kept
  (`ProactorClosesInactive`).
* `timer/lst_timer.h:53` says the heap is ordered by ascending expiry.
  `WebServer::adjust_timer` changes the expiry of a timer that is in the heap, so a
  cancelled timer can hide expired ones below it from `tick` (`EventLoopHeap.cfg`).
  The delay ends when the cancelled timer expires itself, as `StuckEnds` shows.

* `docs/ecommerce_api.md:200` says that the inventory is synchronized when `stock` is
  updated. `UPDATE books` with values the row already has affects no row, and
  `update_book` then answers 404 and leaves `inventory` as it was, so that setting
  the stock of a book to the number in `books.stock` does not undo what orders have
  taken; and with the two statements outside a transaction another write in between
  leaves the columns apart (`torn` in `StocksInStep`).

Facts about the code that no document contradicts, each an exception that a
property names or an action that a module has:

* *Catalogue.* A partial update over gRPC writes back the stock it read, so units
  ordered in between are on sale again (`revived`). A status that is neither word is
  refused by the local client and becomes "active" over gRPC.
* *Recommendations.* A `list_books` that fails empties the shared index for all
  requests under way (`faulty`), and the mutex of the index is held while
  `list_books` waits for a connection.
* *HTTP input.* A body that is still incomplete is searched for line ends, and
  what the search passes is missing from it (`rescanned`); bytes behind a request
  are dropped with it (`piped`); a line that ends in a bare LF or CR is never
  answered; edge-triggered, a request that fills the buffer to the last byte closes
  the connection when further bytes are queued behind it, because a `recv` of no
  bytes then returns 0 (with an empty queue it fails with `EAGAIN`, and the request
  is answered); a negative
  Content-length waits for ever; one without a number ends the server.
* *HTTP output.* An answer of which a `writev` cut the first piece is not continued
  correctly (`HttpWrite.cfg`): the length that is compared has already been
  shortened, an API answer is continued from the wrong buffer, and when no piece is
  left although bytes are, `write` calls `writev` in a loop (`WriteNothing`).
* *Log.* With `-c 1` the first line that is logged, and after a failed `fopen` the
  next rotation, calls `fclose(nullptr)`. Two threads that
  pass midnight in the opposite order reopen the file of the day before and restart
  its count (`wentBack`). In asynchronous mode a line goes to the file that is open
  when the writer thread gets to it.

In both models the idle timer can close a connection while a worker serves it, and
in the reactor model so can a `timer_flag` that was set after the main thread had
looked at it; no document excludes it. `OneAtATime` holds up to that point.

## 6. Proofs

All proofs are for every value of the constants, under the assumptions named in
the modules: `LedgerAssumption` (finite set of ids, `MaxQuantity` a positive
natural, `MaxStock` a natural), `RepositoryAssumption` (`Free` is not a session,
`MaxItems` positive), `PoolAssumption` (finite non-empty set of threads, finite
set of connections, `NullConn` not one of them, positive depth),
`ThreadPoolAssumption`, `LocalAssumption`, `SplitAssumption`, `LogAssumption` (finite
sets of threads, positive lengths and limits), `CatalogueAssumption` (bodies of
requests have the fields and kinds of values the parser lets through),
`RecommenderAssumption`, `HttpAssumption` (messages have the fields the parser tells
apart, buffers and answers a positive length) and
`LoopAssumption` (at least one descriptor, `NoClient` no client). The finiteness
of the threads is used where a proof counts them; a process has finitely many.

Each inductive invariant below was also checked by TLC, under the constants of the
module's run, as far as TLC can evaluate it (not, for instance,
`\E S : answered \in Seq(S)` in `Typing`). Quantities are counted by cardinalities of sets or by lengths
of sequences. Where a proof depends on what a recursive function returns (the
timer heap's sift steps, `FlattenSeq`), it rests on lemmas that the function's
equation has a solution, and on `SetInduction` (a set that has 0, and with every
number the next, has all of them), which follows from the well-foundedness of the
naturals and needs no operator as a parameter. What is shown by induction is then
that an explicit set holds every number.

**InventoryRepositoryProofs.** First the ledger by itself: `LedgerTyping`;
`LedgerConserves`: `LedgerSpec => []Conservation`; `LedgerIsFinal`: released
reservations stay released and items never change. The held units of a book are
counted as a set of pairs (reservation, unit number); a reserve adds and a release
removes a disjoint block `{r} \X 1..q`, whose cardinality the finite-set theorems
give. The inductive invariant is `LedgerInv == LedgerTypeOK /\ Conservation`.

Then the statements: `RepositoryInvariance`, `RepositoryRefinesLedger`
(`Spec => LedgerSpec`) and `RepositoryConserves`. `Conservation` is not inductive
at statement level: a COMMIT publishes numbers computed several statements
earlier. The inductive invariant adds what the locks guarantee in between:
`LookupStillHolds` (the looked-up reservation is still in the state that was read
and, from the INSERT on, locked by nobody else) and `WorkIsPublishable` (every
changed book is row-locked, a reserve never took more than is available, a release
gives back exactly what is held). With it each COMMIT is shown to be the ledger's
`Reserve` or `Release` and every other statement a stutter, and conservation
follows from the ledger's theorem. `RepositoryOkMeansReserved` adds that an "ok"
of `reserve_stock` means what it says: for that the invariant of the item loop
(`TakenSoFar`) relates `delta` to the items already gone through, so that at the
COMMIT it is the whole request.

**ThreadPoolProofs.** `PoolInvariance`:
`PoolSpec => [](PoolTypeOK /\ OneOwner /\ NoLostWakeup)`; `NoLostWakeup` compares
cardinalities of the free connections and of the threads that are about to take
one or to notify, which is what survives the gap between unlock and notify.
`PoolNeverDeadlocks`: with more than `Cardinality(Threads) * (MaxDepth - 1)`
connections the threads never all wait, because the connections then outnumber
what waiting threads can own. `ThreadPoolRefinesPool` (`Spec => PoolSpec`) carries
both to the server's workers (`WorkersNeverDeadlock`). Depth 3 and the default 8
workers give the number the configuration would need: 17 connections.
`WorkersTyping` and `ShutdownLeavesNothing` (`NothingLeftBehind`) are about the
workers' own state. Workers still take requests and connections while the main
thread is stopping, so the invariant `WorkInv` ties each worker's place to its
stack of connections and each phase of the shutdown to what has already ended: no
worker has exited before `stop` is set and the queue is empty, and the pool is
destroyed only when all have. `OneOwner`, through the refinement, then says that no
connection is anywhere else.

**SplitOrdersProofs.** `SplitUsesLedger` (`Spec => LedgerSpec`): each step, a late
call after a restart included, is an operation of the ledger or leaves its tables
alone; `SplitConserves` takes each of them through the same count of units as the
ledger's proof. `SplitTyping` needs more
than `TypeOK`: that the ids and orders stay within their numbers depends on the
requests under way, which `TypeInv` counts. `SplitOrdersBacked` and
`SplitNoOrphan` rest on `FirstRun`: until the first restart no id at or above the
counter has been used (`FreshIds`), the requests under way have ids of their own,
below the counter and in no order (`OwnIds`, `OrderIdsOnce`), and the place of a
worker says what its reservation's status is (`Places`). A restart breaks
`FreshIds`, which is exactly what `split_restart` shows. An order is backed until it
is cancelled, when its units are to go back; that a cancelled order's reservation
stays "reserved" over gRPC is the bug of `SplitCancel.cfg`, and no theorem needs it.

**LocalOrdersProofs.** `LocalTyping`, `LocalInventsNothing`, `LocalLosesNothing`. The
units of a book that orders or workers account for are sets of
(owner, item, unit number), one pile per order and per worker, and the sum is the
cardinality of their union. No step moves more than one worker's pile, one order's
and `available`; each is shown `Balanced`: what it adds to the units accounted for
it adds to `stocked` or `excess`, exactly unless it is a fault or a crash, and at
most in any case. Both properties are then sums of such steps. `LocalInv` supplies
what the piles need: where a worker is says what its loop runs over and that a
request still creating its order owns what it has reserved.

**CatalogueProofs.** `CatalogueTyping`, `CatalogueStocks`, `CataloguePartial` for the
writers beside the readers of `Recommender`, and `CatalogueAlone` for the writers by
themselves. The properties speak of the tables; the invariant `CatInv` adds what
each worker is about to write. `Place`: it has passed the validation there is (over
gRPC the status of an update is validated only after `book_from_proto` has turned it
into one of the two words). `InStep`: between the two UPDATEs the number about to be
written is the one in the book's row, and a reading carried over gRPC is still
current, unless somebody wrote in between, which puts the worker into `crossed` or
`stale`. `InsertOK`: two INSERTs under way never have one id.

`SimilarMissesNone` (`RSpec => []SimilarComplete`) is about the readers. `ReadInv`
says that from a reader's rebuild on the books active all through its request are
in the shared index, whoever has rebuilt it since (`Offered`), because a book that
is active throughout is in the list that any other reader reads meanwhile. That a
search which leaves one of them out returns `Limit` others is `NearestFull`: the
order of the sort is total (`CloserOrders`), so the number of entries ahead of an
entry is an injection of the entries into `0 .. n - 1`, hence onto it, and exactly
`Limit` entries have a smaller one than `Limit`.

**ServerLogProofs.** `LogTyping`, `LogIsFifo` (`Spec => FifoSpec`), `LogLinesOnce`,
`LogFileOfTheDay`, `LogFilesShort`. `LogInv` holds the arithmetic of the circular
array: `back - front - size` is 0 or one lap either way (`Circle`), and with it a
push is shown to append to `Contents` and a pop to take its head. `Life` ties the destructor to the
threads: the writer ends only when the queue is closed and empty, and nobody is in
`write_log` any more, so that the log's end is the FIFO's. In the refinement a push
accepts, a write handles, a pop is a stutter, and a line of the synchronous mode is
accepted and handled at once. `Once` is `EveryLineOnce` told of the accepted lines
together; `Held` (a caller's line is its own) is what makes the count come out.
`DayInv` keeps the open file at `m_today`. `ShortInv` is about the file numbers: the
open file has the lines since its first, and every file written to is of an earlier
day or starts no later than `m_count`, so that a rotation never returns to a full
one.

**EventLoopProofs.** `LoopOneAtATime`: `Spec => []OneAtATime`, in both concurrency
models. The invariant `LoopInv` says that a descriptor is registered exactly while
it is open (`Kernel`), that what is queued or served is for the present client
(`Served`), and that an armed event, a queued request and a worker on one descriptor
exclude each other (`Apart`), all until `overrun`. This part leaves the heap of
timers arbitrary: `tick` may call back any set of descriptors, and the proof shows
that closing one on which nobody works keeps the invariant, and that closing any
other is recorded in `overrun`.

The second part is about the heap: `LoopOneTimerEach`, `LoopCountsAgree`,
`LoopTyping`, `LoopClosesInactive`. Since the code changes expiries of timers that
are in the heap, nothing can be said of its order; what the operations keep is how
many elements of each kind there are. `PushCounts`, `PopCounts`, `PoppedCounts`,
`PopOrderCounts` and `RebuiltCounts` say so of a push, a pop, `tick`'s loop, the
order in which a loop of pops empties a heap, and a purge, for any set of elements
and a heap of any size; each is an induction over the positions that a sift visits
or over the number of pops. The invariant `TimerInv` says, in both models, that a
descriptor has at most one timer that `users_timer` points at and that
`m_cancelled_count` is no less than the number of dead timers, since `tick`
subtracts them from it (`Counted`), and in the proactor model that the running timers of a descriptor are
as many as its clients, that none is stray, and that `userCount` and `cancelled` are
the numbers of open descriptors and of dead timers (`Paired`). A purge deletes
exactly the dead timers, so that the count starts again from zero, as the code sets
it. That `tick` closes nobody whose timer has not expired then needs no
order either: what it calls back has expired, and there is no other timer on that
descriptor.

**HttpConnProofs.** `HttpTyping`, `HttpRoutes`, `HttpFileWhole`, `HttpParsed`, for any
messages, any cut of the input and of the output and any sizes of the buffers.
`Typing` adds to `TypeOK` that the bytes received and under way belong to messages
that were sent. `Routed` is the property itself, from a lemma on the table: for
every method and path the route that `Router::route` chooses is the only one among
the fitting ones with the fewest parameters. `Whole` says, as long as no `writev`
ended within the first piece, that the client has a prefix of the answer and that
the pieces are exactly the rest: all of it, or an empty first piece and the file
from where it was cut. `Sync` is the parser's loop invariant: while the client waits
for its answers, the buffer and the wire together are the text of the last message,
and the parser is at the first line, behind the i-th header with the `linger_` and
`content_length_` that the first i headers say (`LingerAfter`, `LengthAfter`), or at
the first byte of the body. That `parse_line` finds exactly the line ends of the
text, also when it is called again with more bytes, is where the indices meet.
`Faithful` then says of each answer what `ParsedAsSent` does.

**Only model-checked.** Liveness (`QueuedIsTaken`, `StopEndsWorkers`, `WaitEnds`,
`StuckEnds`, `FitsIsAnswered`, `CloseEnds`) is outside the prover's reach. All other
properties of the passing runs are proved.

## 7. Not modelled

* *Users and credential caches.* A registration is one INSERT under a unique key and
  a login one SELECT, so nothing interleaves. `UserCache` and `RedisUserCache` are
  created and loaded at start-up and asked by nobody afterwards.
* *In-memory repositories.* Each operation is one critical section on a map; the
  tests run on them, the server on MySQL.
* *The remaining controllers, the gateway's order and user clients, and the message
  conversions.* They decode a request, call one operation and format the answer.
* *URL parameters, SHA-256 and JSON helpers.* Pure functions on text, with unit
  tests; nothing in them depends on an order of events.
* *Embeddings and the HNSW index.* Floating point and a vendored library; `Recommender`
  needs of them a distance.
* *Configuration and start-up.* Its defaults appear in `thread_pool_default`, its
  results in the initial states.
* *The web client and `tools/webbench-1.5`.* Browser scripts, and a vendored load
  generator.

MySQL, gRPC, the kernel's sockets and epoll, and the C library's files are external:
they are modelled only as far as the code relies on them. Prices enter
`Catalogue` as a value that is stored and compared; the sum of an order (an `int`
that may overflow) touches no stock and is left out.

# libtradier in TLA+

libtradier is a C++17 client library for a brokerage's REST and streaming
interfaces. Its hard parts are the pieces that run concurrently and are shared by
everything else: a thread pool, a rate limiter, the HTTP client with its retry
loop, the WebSocket connection with its I/O thread, the asynchronous logger, and
on top of them promise chains, the streaming service and the authorization flow.
The rest, the four REST services, turns arguments into one request and one answer
into a struct; what can go wrong there is what a call says when something failed
on the way. This directory holds TLA+ models of all of these, the TLC runs that
check them on small instances, and TLAPS proofs for every instance.

Paths below are relative to the repository (`src/` here stands for its root, so
the library's sources are under `src/src` and `src/include`).

## Inventory

| Component | State | Operations | Interacts with | What is hard | What makes it correct |
|---|---|---|---|---|---|
| `ThreadPool` (`common/async.hpp`) | task queue, stop flag, worker threads, mutex and condition variable | worker loop, `enqueue`, `shutdown`, destructor | every asynchronous call and `Promise` | notification outside the lock, stop racing enqueue, join of sleeping workers | accepted tasks are run once, in order, before shutdown ends; no wake-up is lost |
| `RateLimiter` (`common/async.hpp`) | start of the window, count, mutex, condition variable | `tryAcquire`, `waitForSlot` | the HTTP client | two readings of the clock, a condition nobody notifies, boundary of the window | bounded grants per stretch of time; waiters neither oversleep nor starve |
| HTTP client (`common/http_client.cpp`) | one CURL handle, limiter, retry settings, statistics | `get`/`post`/`put`/`del` (all `performRequest`), setters, `resetStatistics` | limiter; all services; the server | one handle for all requests, retry after a lost answer, settings changed in flight | a call returns its own answer, nothing answered is repeated, counters balance, calls end |
| WebSocket connection (`common/websocket_client.cpp`) | three atomic flags, I/O thread, stream, queue of early messages | `connect`, `disconnect`, destructor, `send`, `setAuthToken`, `setMessageHandler`, I/O thread | streaming service; the server | flags read and written without a common lock, threads that end by themselves, timeouts | flags agree with the thread, joins end, messages go out once, destruction is safe |
| Logger (`common/debug.cpp`) | mode flags, bounded queue, logging thread, dropped count | `log`, `enableAsyncLogging`, `processLogQueue`, `resetDroppedMessageCount` | everything | stop and notify without the mutex, full queue, mode switched while logging | queued lines are printed once and in order or stay queued; switching off ends |
| Promise chains, async calls (`common/async.hpp`, `common/simple_async.hpp`, `market.cpp`) | promises, futures, continuations on the pool | `then`, `catch_`, `executeAsync`, `retryWithBackoff`, `executeSimpleAsync` | pool, HTTP client | continuations block workers, callbacks invoked after they throw, dropped links of a chain | every chain is settled, one callback per outcome |
| Streaming service (`streaming.cpp`) | sessions, connected flag, handlers, subscriptions, heartbeat threads, statistics | sessions, subscribe, add/remove symbols, `connect`, `disconnect`, `reconnect`, heartbeat, dispatch | WebSocket, HTTP client, `ThreadManager` | callbacks on the I/O thread, stop of the heartbeat, flag left behind by a closed socket | events reach the handlers subscribed, disconnect stops every thread |
| Authentication (`auth.cpp`) | pending OAuth states, PKCE verifier, token | authorisation URL, code exchange, refresh, revoke, token file | HTTP client | state expiry, second flow overwriting the first, lost answers, a save cut short | a state is accepted once and only while it lives; no refresh drops the refresh token; the file holds the last save or nothing |
| Trading (`trading.cpp`) | none beyond the client | place, change, cancel, preview, multi-leg and bracket orders, cancel all | validation, HTTP client | repetition of what may have been carried out | what is invalid never reaches the server; what was refused is not repeated |
| Account, market, watchlist services | none beyond the client | one request each | validation, HTTP client | answers of unexpected shape, outcome to `Result` | errors keep their kind; a list is complete or an error |
| Results, errors, validation (`common/api_result.hpp`, `errors.hpp`, `validation.hpp`, `json_utils.hpp`) | none | pure | all services | categories of status codes at their boundaries | total and consistent classification |
| SIMD event processing (`simd/`) | none | scalar and vector path over a batch | streaming | batch remainders | both paths agree |
| JSON conversion (`json/*.cpp`, `common/json_utils_base.cpp`) | none | pure readers | all services | null, missing and mistyped members; conversions between two JSON types | what is read is what was sent |
| Configuration, utilities, version | none | pure | all | - | - |

`PROJECT.json` lists the same components with their status, and the hazards of
the code at the lines where they bite.

## Modules

Order of reading; each module's header says what it abstracts.

* **`TaskService`** - what a user of the pool may rely on: a queue of accepted
  tasks, started once and in order, all finished before the service is closed.
* **`ThreadPool`** - the pool. A critical section of `queueMutex_` is one
  action; the early test of `stopped_`, `notify_one`, `notify_all` and the joins
  are actions of their own. A worker is at the predicate of `condition_.wait`
  (`"check"`), blocked (`"waiting"`), executing (`"running"`) or gone. A task body
  is atomic and its exception is stored in its future, as `packaged_task` does.
  The refinement mapping `Svc` reads the abstract progress of a task off its place
  in the queue, in a worker or among the ready futures.
* **`ThreadPoolProofs`** - proofs about it.
* **`AsyncCalls`** - `Promise` and `executeAsync()` over the pool as `ThreadPool`
  shows it: tasks start in order and hold a worker until they end. A task of
  `then()` or `catch_()` blocks its worker in `get()` of the stage before; it has
  only a `weak_ptr` to the promise it sets, which lives as long as the user's
  `Promise` object (`held`) or a lock (`Locked`). The promise at the head is settled
  by the user's thread or by a task that the user submits at any time, before its
  stages are chained or after (`Submit`). Functions may throw wherever the code lets
  them: out of `then()`'s function, out of `catch_()`'s handler, which is then called
  again, and out of that second call. That last exception, and every one not derived
  from `std::exception`, leaves the task with its promise unset or its callback not
  called (`"escaped"`).
* **`AsyncCallsProofs`** - proofs about it.
* **`RateLimiter`** - the fixed window. Time is `now - windowStart_`, saturated
  one tick past the window: the code looks at nothing else, so the clock needs no
  horizon. `tryAcquire` is one step; `waitForSlot` holds the mutex across its test
  and its second reading of the clock (`holder`) and gives it up in `wait_for`.
* **`GrantHistory`** - the limiter with a history of its grants: `recent[k]` is how
  many were made within the last `k` ticks.
* **`HttpClient`** - `performRequest`. It extends `RateLimiter`: a request is one
  of the limiter's callers, and the gate is the limiter's own actions. The CURL
  handle is the request that last wrote its options, because a transfer carries
  what the handle holds when it starts and delivers into the buffer the handle
  holds when bytes arrive. A transfer ends with a status class (2xx; 3xx and 4xx;
  5xx and 429) or without an answer, in which case the server may have received
  the request or not. Settings change freely before the first request and
  `LiveChanges` times after it. History variables: `wire` counts what the server
  received, `overlap` remembers that two requests have been on the handle together,
  `changed` the changes in flight, `carried` and `stats.threw` complete the balance
  of the counters. `setRateLimit` destroys the limiter it replaces; the model takes
  that step only when nobody is inside, which the code leaves to its caller.
* **`MCHttpClient`** - values of its constants for TLC.
* **`HttpClientProofs`** - proofs about the limiter, its history and the client.
* **`WebSocket`** - `WebSocketImpl`. Every access to an atomic flag that another
  thread can come in between is a step; the waits on `connectionCv_` have timeouts,
  so a waiter may look at its predicate at any time. `close()` has no timeout: the
  stream is `"closing"` until the peer answers (`PeerAnswersClose`), and it may never.
  `fault` remembers that a handshake or a read failed or a `connect()` timed out. Two
  threads that join one `std::thread` get what glibc does: one joins, the other's
  `join` throws and `disconnect()` goes on; a thread assigned to one that is joinable
  terminates the program. That the I/O thread reads the stream while `disconnect()`
  closes it, without a lock, is taken as two operations that each complete.
* **`WebSocketProofs`** - proofs about it.
* **`Streaming`** - `StreamingService` with its `ThreadManager`. Three threads: the
  user, whose calls go through the places of `upc`; the heartbeat `hb`; the I/O
  thread `io` of the connection. The connection is the one of `WebSocket` seen from
  outside: opening, up, or `"lost"`, which is the state where the I/O thread has
  ended unjoined and destroying the object ends the program (`"terminated"`). A
  filter is written under a mutex that the reader does not take, so a read during
  the write may find anything. Resetting the statistics is three stores, between
  which messages are counted. The connection's own `disconnect()` is taken as
  returning, which is `DisconnectReturns` of `WebSocket` with its premise. `fault` and
  `overlapped` are history variables.
* **`StreamingProofs`** - proofs about it.
* **`Auth`** - `AuthService` and the helpers around the token file. A flow stands for
  its state and its verifier, and what its URL said of it: nothing, a plain state, or a
  state with the challenge of a verifier; `usePKCE` may be switched at any time, and a
  verifier or its hash that cannot be made throws after the state is stored. Tokens are
  numbered as the server issues them. The server (external) accepts a code once, with
  the verifier its flow asks for, and the last refresh token it issued. Every request
  may be refused, answered with fields missing or empty, or carried out with the answer
  lost; the application may be restarted between any two steps and a save may be cut
  short. The clock has `TicksPerSecond` ticks, and the file keeps whole seconds. Scopes
  go through their names in both directions. `severed` and `saved` are history
  variables.
* **`AuthProofs`** - proofs about it.
* **`Json`** - the readers of answers as operators. The members of an object are
  reduced to one per way of reading it, because the readers differ only in what a
  missing, null or mistyped member does: a default, or an exception that the
  caller's `parseResponse` turns into "nothing".
* **`Services`** - all calls of the market, account, trading and watchlist services
  as rows of a table (checks, reader) and one life of a call: checks, request,
  answer or `ConnectionError`, reading, `Result`; around it `retryWithBackoff`. The
  server says 2xx only of what it carried out and 4xx only of what it did not. A
  call made directly is one with `maxRetries` 1.
* **`MCServices`** - all calls for TLC.
* **`ServicesProofs`** - proofs about a call under `retryWithBackoff`, and about the
  readers of `Json`.
* **`Logger`** - the asynchronous mode. The test of the wait predicate and the
  sleep are two steps because `stopLogging_` and the notification come without the
  mutex. The destructor is `enableAsyncLogging(false)`, so it is the same actions.
  One thread at a time switches the mode.
* **`LoggerProofs`** - proofs about it.

How they fit together: `HttpClient` extends `RateLimiter`; `ThreadPool` implements
`TaskService`, whose promises are what `AsyncCalls` builds on; `Streaming` takes the
outcomes of `WebSocket`, and `Services` those of `HttpClient` (an answer, or an
exception with the request possibly carried out), as its environment. `Services`
uses `Json` for the answers.

Definitions whose comment begins with "Mutant" are deliberately wrong variants of
the definition that follows them; `PROJECT.json` says which property each one
breaks. They are used by no specification.

## Runs

All runs take their constants from the `.cfg` named in `PROJECT.json`. Deadlock is
checked in every one but `async`, where a chain that is settled leaves nothing to
do.

| Run | Instance | Result |
|---|---|---|
| `thread_pool` | 2 workers, 3 calls of `enqueue`, repeated `shutdown` | passes: nothing accepted is lost, no wake-up is lost, shutdown ends, `TaskService` is implemented, so that every accepted future becomes ready |
| `async` | chain of 3 stages and one callback, 2 workers | passes: values mean that everything before went well, errors are never lost; every stage settles and the callback is called if fewer stages than workers were chained before the settling task is submitted, unless an exception escapes |
| `rate_limiter` (`GrantHistory`) | 3 callers, 2 acquisitions each, budget 2, window of 3 ticks | passes: a stretch as long as the window sees at most two budgets; no sleep outlasts the window |
| `http` (`MCHttpClient`) | 2 requests, retry limit 1 or -1, budget 1, window 1, one change of settings in flight | passes: counters balance, requests end; without overlap on the handle and without a change in flight a call sends no more than its budget and returns its own answer, and an answered request is not repeated |
| `http_shared_handle` | as `http`, retry limit 1, no change in flight | violation: overlapping requests return what they never received |
| `socket_shared` | 2 users, 2 messages | passes: flags agree with the I/O thread and the callers; no message is written twice |
| `socket_owner` | 1 user, 2 messages | passes: `disconnect()` returns if the peer ends its handshakes and answers close frames; while nothing fails `connect()` connects and destruction is clean |
| `streaming` | 4 calls, 2 messages, one quote kind besides trades, one symbol and one exchange to filter on | passes: no thread outlives the connection, `disconnect()` returns, messages that do not overlap a reset are accounted for, the heartbeat starts at most once, and one on a dead connection ends |
| `auth` | 2 flows, 2 tokens, 2 ticks of half a second | passes: states are accepted once and in time, a state that would be accepted keeps its verifier until a later flow replaces it, the refresh token stays in step with the server's, loading gives the last save with its times rounded down, or nothing |
| `services` (`MCServices`) | every call, 0, 1 or 3 attempts, five statuses, lists of up to 2 elements of ten shapes | passes: only what is in doubt is repeated, results tell what happened, lists are complete |
| `services_account` | `getPositions`, `getOrders` | violation: both lists are always empty |
| `logger` | 3 lines, queue of 2 | passes: queued lines are printed once, in order, or stay queued; queued lines are printed unless the mode is switched off |

The bounds. Two workers are needed for one to sleep while the other runs or
exits, and three tasks for one to be queued behind two running ones. Three stages
are more than two workers, so all workers can be blocked while a stage is still
queued, and the callback competes with them. Six acquisitions against a budget of
two fill two windows and ask for a third, which is what the bound on two windows
needs; three ticks make the first, the inner and the last instant of a window
different. Two requests overlap on the handle, and a budget of one grant makes the
second one wait; one retry (`DefaultRetries`, which the code sets to 3) shows the first, the last and a refused attempt, and a
negative limit, which `setRetryPolicy` takes, a loop that is never entered. Two
users are the fewest that overlap `connect()` and `disconnect()`, and two messages
the fewest whose order and repetition matter. Four calls of the streaming service
make a session, a connection, its end and a second connection; two messages let one
be handled while the filters or the statistics change between them. Two flows are
the fewest of which one overwrites the other's verifier; two tokens the fewest for
a refresh after an exchange; two ticks pass the life of a state and of a token, and
the one in the middle of a second is what the file rounds.
Three attempts have a first, an inner and a last one; a list of two elements can
have a good and a bad one in either order. A queue of two lines and three lines
reach the limit and pass it.

`Calls` in the limiter, `LiveChanges`, `MaxCalls` and `MaxMessages`, and the three
bounds of `Auth` shorten behaviours; `Calls` stands for "the others stop acquiring",
without which no waiter on a `std::mutex` is promised service. The other runs cover
behaviours of any length: users connect, disconnect, shut down, switch modes and
call services any number of times.

Fairness. Threads that can run are scheduled (weak fairness of each thread's
steps); a task body, a callback and a handler return; `CURLOPT_TIMEOUT` ends every
transfer; a read on a connection that has ended returns; `connect()` gives up after
30 s; time passes. In `AsyncCalls` the one who begins a chain settles its promise,
submits the task that does, or gives it up, without which no stage can end. Nobody is
obliged to call the library, no spurious wake-up is promised, and the peer owes
nothing: it may stay silent for ever in a handshake, on an open stream and when it is
asked to close. `DisconnectReturns` has as its premise that it does not do so in a
handshake or a close (`PeerReacts`), because the code waits there without a timeout. A
step that waits for a lock has weak fairness only, so
liveness never rests on lucky scheduling against repeated competitors.

### What the violations say

Each one is a place where the code does not do what a line of the repository says
of it; `PROJECT.json` quotes the line.

* `http_shared_handle`: `README.md` promises thread-safe operations, and the
  asynchronous calls run requests on several threads, but `performRequest` resets,
  configures and performs on one handle without a lock.
* `services_account`: `parsePositions` and `parseOrders` are handed a
  `SafeJsonParser`, which becomes a JSON string on the way, and would look for the
  list one level too high anyway; the test expects two positions.

### What the properties leave open, and why

Some properties are stated with a premise, because the model shows that without it
they do not hold. No line of the repository promises more, so they are not findings,
but a reader of the code should know them:

* A destructor after the peer closed or a handshake failed meets a joinable I/O
  thread, since `disconnect()` returns at its first test; the program terminates
  (`DestroyIsClean` and `QuietAfterDisconnect` hold until the first fault). With two
  threads that open and close one connection `DestroyIsClean` fails without a fault:
  it is checked, and proved, for one owner.
* A message that `send()` decides to queue just before the flush of `onConnect()`
  stays in the queue while the connection is up.
* A `connect()` that overlaps a `disconnect()` clears `shouldStop_`; the join may
  then wait for ever (`DisconnectReturns` is checked for one owner).
* `close()` waits for the peer's close frame, and the join for the end of a handshake,
  without a timeout: with a silent peer `disconnect()` and the destructor never return
  (`DisconnectReturns`: `PeerReacts`).
* A `disconnect()` may clear `connecting_` while a `connect()` of another thread is
  about to start its thread; if a third call starts one first, assigning to
  `ioThread_` terminates the program.
* As many stages as the pool has workers, chained before the task that settles their
  promise is enqueued, block all workers, and the task never starts unless the user
  destroys one of the promises in between (`ChainSettles`: `Overtaken`). The bound is
  exact: the property fails when it is raised by one.
* An exception not derived from `std::exception` leaves the promise of a stage unset,
  and from `syncFunc` of `executeAsync()` the callback uncalled.
* A message counted between the three stores of a reset of the statistics, or handled
  across it, leaves the counters out of balance until the next reset
  (`EveryMessageAccounted`: `overlapped`).
* A token loaded from the file ends up to a second earlier than the one that was saved.
* `setRateLimit` takes zero and negative numbers. With no budget nobody would ever be
  granted a slot; the limiter is modelled, and `RequestCompletes` and the theorems
  about it hold, for a positive budget and window (`LimiterAssumption`).
* Retry settings changed while a request pauses may end its loop without an answer,
  and the unassigned `Response` is returned (`ResponseIsOwn`: `changed = 0`).
* `enableAsyncLogging(false)` may lose its notification between the thread's test and
  its sleep, and wait in `join()` for ever.
* A handler of `catch_()` that throws twice leaves its promise unset, and the stages
  behind it wait until the `Promise` object is destroyed.
* After a first `disconnect()` the service never has a heartbeat again
  (`HeartbeatStartsOnce`), so nothing then notices a dead connection.
* A second authorization flow replaces the verifier of the first, whose state is
  still accepted: its exchange is refused by the server (`VerifierKept` says that
  nothing else takes a verifier away). With PKCE switched off in between, or a verifier
  that could not be made, a pending state has none.
* `retryWithBackoff` repeats an order whose answer was lost or unreadable
  (`RepeatedOnlyInDoubt` says that it repeats nothing else). A 429 is not repeated,
  although `isRetryable()` of `ApiError` (`errors.hpp:82`) counts it with the 5xx:
  `retryWithBackoff` does not ask it and stops at every 4xx.
* The four option helpers leave `symbol` empty, so `buildParams` refuses every one of
  their orders; `placeMultiLegOrder` casts an `OptionAction` to an `OrderSide`.
* `parseCorporateActions` reads `json[0]["results"]` without a test, which is
  undefined when the key is missing; such answers are not among the documents.

## Theorems

Proved with TLAPS for every value of the constants, under the assumptions the modules
name. Each is what the code or the language guarantees:

| Assumption | Says |
|---|---|
| `PoolAssumption` | there is a worker, and `NoTask` is no task |
| `LimiterAssumption` | budget and window are positive, `Calls` is a number, `NoCaller` is no caller |
| `HttpAssumption` | the limits of the attempts are integers, negative ones included, and the default is one of them |
| `StreamingAssumption`, `AuthAssumption`, `ServicesAssumption` | the kinds of quotes are those of the code; bounds, lifetimes and attempts are natural numbers; a second has at least one tick of the clock; a status is not 0 |
| `OpsAssumption` | the calls considered are calls of the four services |
| `LoggerAssumption`, `AsyncAssumption` | the queue has room for a line, the pool has a worker |

`WebSocket` needs none; one of its theorems has the premise `OneOwner`. The bounds that
shorten behaviours for TLC (`Calls`, `LiveChanges`, `MaxCalls`, `MaxMessages`,
`MaxFlows`, `MaxTokens`, `MaxTime`, `MaxItems`) are arbitrary numbers in the proofs.

The argument is the same throughout: an invariant holds initially, every action
preserves every conjunct (one step per action), and the property follows from it. What
differs is what has to be added to the properties to make them inductive.

* **`ThreadPoolProofs`**. `PoolInvariant`; from it `PoolTypes`, `NothingDropped`,
  `NoWakeupLost` and `DrainedAtShutdown` (past the join every accepted future is
  ready). That a finished task is a task needs that a running worker holds one; that
  shutdown drains needs that workers leave only with the queue empty and the pool
  stopped, and that nothing enters a stopped pool; that no wake-up is lost needs that a
  worker sleeps only with notification still possible. `PoolKeepsService` is the safety
  part of the refinement: initial states map to initial states, and every step of the
  pool is one step of `TaskService` or none. The mapping reads a task's progress off
  the queue, the workers and the ready futures, so it needs `TasksInOnePlace`: no task
  is in two of them, or twice in one. That the service closes only with nothing left
  undone falls on the exit of the last worker.
* **`HttpClientProofs`**. *Limiter*: `LimiterInvariant` joins the types with the bound
  on sleeps (`LimiterTypes`, `NoOversleep`); another caller may restart the window
  during a sleep, and only the type then bounds what is left. *History*: `TwoBudgets`
  follows from `HistoryInv`. Two budgets in one stretch of a window's length is not
  inductive: what is added is that the grants since the window began are exactly
  `requestCount_`, and that every stretch holds at most a budget more than these.
  *Client*: `ClientInvariant` joins the limiter's invariant with the balance of the
  counters over the finite set of requests under way (`StatsAlwaysBalance`), who owns
  the handle, what attempts and sends are still allowed, and what a buffer holds. From
  it `ClientTypes`, `SendsAlwaysBounded`, `AnswersAreOwn` and the action property
  `AnsweredNotResent`: a request that can still be sent has no final answer, which is
  true only while nobody else uses the handle.
* **`WebSocketProofs`**. `SocketInvariant` joins the types (`SocketTypes`) with
  `FlagsAgree` (`FlagsAlwaysAgree`), whose three parts carry each other: `connected_`
  is served because only the thread sets it and no join passes a running thread; a
  joined thread leaves nothing connected because `connected_` is served. `SentOnce`
  adds that a message is in the queue at most once and only before it is written.
  `CleanDestroy` adds, for one owner, what the flags and the thread may be at each
  place of `connect()` and `disconnect()` until something fails.
* **`StreamingProofs`**. `StreamingInvariant`; from it `StreamingTypes`,
  `DisconnectIsQuiet`, `MessagesAccounted` and `OneHeartbeat`. What is added says who
  waits for whom, and which counters a reset under way has already stored: `stop()` joins the heartbeat before the connection is closed, a
  message is handled only on a connection that is up, a service that is down without
  having been stopped never had a heartbeat, and a thread nobody will join is the
  result of a fault.
* **`AuthProofs`**. `AuthInvariant`; from it `AuthTypes`, `NoStateTwice`,
  `VerifierAtHand`, `RefreshKeepsStep` and `LoadGivesLastSaved`. Added: a state still
  in the cache, or of a flow not begun, was never accepted; a flow not begun has no URL;
  a file written to its end holds what the last completed save wrote. That loading gives
  it back rests on a lemma about the names of the scopes, which are all different, and
  one about the times, which lose less than a second (`TimeRoundTrip`).
* **`LoggerProofs`**. `LoggerInvariant`; from it `LoggerTypes` and
  `NothingIsForgotten`. Added: the thread has a line in hand only while it prints, and
  there is no old thread when a new one is started.
* **`AsyncCallsProofs`**. `AsyncInvariant`; from it `AsyncTypes` and
  `ValueAlwaysMeansAllRan`. A value tells of the stages before it only if what a future
  holds stays; so the invariant says, for every place of a task, who keeps its promise
  alive and what the future then holds, also when an exception has escaped, and that the
  queue holds each task once.
* **`ServicesProofs`**. *The loop*: `CallInvariant`; from it `LoopIsBounded`,
  `RepeatsInDoubt` and `ResultsTellEffects`, which use of the readers only what a call
  makes of any answer, `AnswerKinds`. *Picking*: `PickedInOrder` says that the operator
  by which null elements are left out takes each of the others once and in order; the
  rank of a position among the picked ones is an injection into as many numbers as
  there are positions, hence onto them, so no induction over the sequence is needed.
  *Readers*: for each envelope, what is found at the place the reader looks at is the
  content the server put there (`Found`, `FoundInside`, `TableAt`), and what the reader
  returns there has no member that threw (`ReadersSound`, one case per reader). *The
  call*: `GotInv` is added, that a value is what the call made of the body it got last,
  one of those the server sends for it. From these `ListsAreComplete` (a list read
  without a test for null, as `getWatchlists` does, is complete because a null element
  would have thrown), `ServiceTypes`, and `ConvertedReadsNothing`: whatever the server
  sends, a value of the five account calls that hand a `SafeJsonParser` to a reader is
  a default object or an empty list, which is `services_account` for every answer.

Only model-checked, and why:

* Liveness (`ShutdownTerminates`, `RequestCompletes`, `DisconnectReturns`,
  `ConnectConnects`, `QueuedIsPrinted`, `StopReturns`, `DeadConnectionNoticed`,
  `ChainSettles`, the fairness part of `ImplementsTaskService`): the prover has neither
  fairness nor `ENABLED`.
* What `FlattenSeq` gives for more than one sequence is told only by induction over the
  sequence. The answers considered hold one result, or one group beside a null one, so
  the theorems need it for none and for one (`FlattenNone`, `FlattenOne`).
* The two violations, which are counterexamples.

## Not modelled

* Text: URLs, headers, parameters, messages, log lines, dates and numbers in answers.
* SIMD event processing: floating-point loops that nothing in the library calls.
* Cryptography of states and verifiers (`generateRandomString`, `sha256`,
  `base64UrlEncode`): a state or a verifier is an unguessable name.
* `getTokenInfo`, `validateToken` and the environment helpers of the authentication
  service: one request or one assignment without further state. Of `setConfig` only
  the change of `usePKCE` is modelled; lifetimes and addresses stay as they are.
* `addSymbols`, `removeSymbols` of the streaming service: they change a set that only
  `getSubscribedSymbols` reads. Of `parseStreamSession` (`json/streaming.cpp`) the model
  keeps whether the session it reads is active (`createMarketSession`). `parseAccounts`
  is called by nothing.
* The characters of a symbol, whose test in `requireValidSymbol` refuses it just as the
  test of its length does.
* `waitWithTimeout` and `simple_async.hpp` with the `...Async` variants of the market
  service: one call on a thread of its own.
* Level filter, `LoggerSession` and file writer of the logger; configuration, string
  helpers and version.

## Plan

Every invariant and every action property of the passing runs has a theorem. What is
left is out of the prover's reach (liveness, and with it the fairness part of
`ImplementsTaskService`) or not modelled, as listed above.

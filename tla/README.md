# Verification of requestCore

requestCore is a Go framework for HTTP services. Version 1 (packages at the
root) wraps a handler in a fixed life cycle with persistence, remote calls and
database commands; version 2 (`v2/`) has typed endpoints over four routers
(net/http, chi, gin, fiber), sessions, an error-handler registry, a worker pool
and an application that starts and stops all of them. This directory holds TLA+
models of the parts whose correctness depends on order, failure and
interleaving, TLC runs on small instances, and proofs for all instances.

Contents: 1 inventory, 2 plan, 3 the modules and the code, 4 the runs and their
bounds, 5 fairness, 6 the proofs, 7 where code and documents disagree, 8 limits.

## 1. Inventory

### Parts that keep state or coordinate goroutines

| component | state | operations | interacts with |
| --- | --- | --- | --- |
| worker pool, `v2/workers` | mutex, shutdown flag, job channel, `shutOnce`/`shutDone`, counters | `Submit`, `Shutdown`, `workerLoop`, `executeJob` (retry, backoff, `OnFailure`), `Stats` | handlers submit jobs; `v2/app` shuts it down |
| endpoint lifecycle, `v2/handlers` | one `HandlerRequest`: outcome, `requestInserted`, recovered panic | parse, id parser, insert, initializer, handler, render, finalize, update | response handler, persister, adapter |
| response handler and registry, `v2/response` | table of error handlers, frozen at start | `OK`, `Error`, `Handle`, `LegacyFallback`, presets | `CommitState`, v1 responder |
| commit state, `v2/webFramework` | committed flag and status, hooks and "hooks ran" of a request | `RunBeforeCommitHooks`, `SendResponse` | every writer of a response |
| v2 adapters, `v2/libNetHttp`, `libChi`, `libGin`, `libFiber` | routers and groups with middlewares, response handler, recorded routes | register, group, `With`, dispatch an endpoint's error, catch-all for unmatched requests | lifecycle, registry, framework |
| resources and routing, `v2/resources`, `v2/routing` | none after registration | `Register` of seven operations, aliases and defaults | adapters |
| application, `v2/app` | registered server, frozen registry, pool | `StartWithContext`, its watcher, `Shutdown`, `Close` | pool, server, requests in flight |
| sessions, `v2/session` | data, dirty, revision under a lock; flash entries and read marks; a store; keys | `Set`/`Delete`/`Clear`, `Save`, `Destroy`, flash `Add`/`Get`/`GetAll`/`Clear`, before-commit hook, sign, encrypt, load | commit hooks; cookie, server store or none |
| OAuth2 token cache, `libCallApi/auth*.go` | `AccessToken`, `RefreshToken`, `TokenCacheLock` | `EnsureAuthorization`: `Authenticate`, `handleToken`, `GetAuthHeader` | authorization server; all calls of an API |
| remote calls and retry, `libCallApi`, `handlers/callApi.go`, `libRetry` | one shared `httpClient`, the caller's header map and query stack | `WithRetry`, `CallAPI*`, `Call`, `RemoteCall`, `ConsumeRest*`, `TransmitSoap` | token cache, v1 handlers |
| v1 handlers, `handlers`, `response`, `libRequest` | one `HandlerRequest`; the record of the request; a handler value shared by all requests | parse, duplicate check, insert, initialise, handle, respond, recover, finalise, update | database, remote calls |
| commands and queries, `libQuery`, `libsql` | transactions and connections; the cache of a query handler | check and DML commands, `GetQuery`, cache look-up, `Paginate` | v1 handlers |
| v1 frameworks, `webFramework`, `libContext`, `libGin`, `libFiber`, `libNetHttp`, `libChi` | locals, context and body of a request, per parser or shared | `InitContext`, answers, `Next`, `Abort`, log entries | v1 handlers, middleware |
| tracing and logging, `libTracing`, `libLogger` | global manager, spans, the context's span | initialise, `TraceXxx`, middleware of each framework | v1 handlers and frameworks |

The remaining components (job parser, renderers, generator, parameters and
cryptography, error values and text, test tools) are listed in `PROJECT.json`
with the reason why they have no module.

### How they interact

A version 2 request enters an adapter, passes the middleware (the outermost is
the session middleware, which registers the before-commit hook), and reaches an
endpoint. The lifecycle asks the response handler for every answer; every write
path of v2 first runs the hooks once, then writes, then commits. An error that
nobody could answer goes back to the adapter, which dispatches it once more. A
handler may submit jobs to the pool, whose goroutines outlive the request, or
call a remote API, whose token is in a cache that all goroutines share. The
application owns the server and the pool and stops the first before the second.

A version 1 request passes a tracing middleware and the application's own, then
`BaseHandler` with its deferred `Recovery`. Every part that asks for a context
makes a parser, and the frameworks do not agree on what these parsers share.
The handler's code, its DML commands or its query use the database; one handler
value, with its cache, serves all requests.

### What is hard, and the properties that answer it

* **Pool**: `Submit` against the close of the channel; a shutdown that must wait
  for what is in the channel, in a backoff, in `OnFailure`; a context that ends at
  any of these points; counters raised and lowered in different critical sections.
  Correct means: no send on the closed channel (`NoSendOnClosed`), nothing accepted
  is lost (`DrainedOnNil`, `ServiceSafety`, `ServiceLiveness`), retries and reports
  as promised (`RetryContract`), books that balance (`Conservation`), calls that
  return (`CallsReturn`).
* **A request's answer**: six layers may each believe it is their turn to answer.
  Correct means: one complete response and an answer in the end (`AnsweredOnce`),
  the session saved before it and no success after a failed save in strict mode
  (`SessionFirst`), the record closed exactly once (`Bookkeeping`).
* **Application**: starts, stops, contexts and requests meet in any order. Correct
  means: a stop finds the server it should (`ShutdownFindsServer`), requests keep
  their pool (`PoolOutlivesRequests`), nil means what a caller takes it for
  (`NilMeansStopped`), and starts and stops end (`CallsEnd`).
* **Registration**: With, Group and resources in any mixture on four routers that
  keep middlewares and match paths differently (`MiddlewareOnce`, `RightHandler`).
* **Token cache**: a check without the lock, a second one with it, and a reader that
  never takes it (`OneLiveToken`, `FreshHeader`, `CallersReturn`).
* **Remote calls**: attempts share a header map, a query stack and an HTTP client
  with other attempts and goroutines (`RepeatedWithConsent`, `ValueIsFinal`,
  `ValueIsSuccess`, `OwnRequest`, `RetryRefreshesToken`, `CallsReturn`).
* **Sessions**: a save that copies under the lock and stores outside of it; a key
  that changes while cookies signed with the old one are alive (`CleanIsSaved`,
  `OneShot`, `RotationKeepsSession`).
* **Version 1 requests**: any call may fail or panic, two copies of a request
  arrive together, commands commit one by one, one cache serves all (`OneAnswer`,
  `RecordMatchesAnswer`, `OpenRowsExplained`, `HandledOnce`, `DmlInOrder`,
  `QueryAnswers`, `HandlerSpec`, `HandlersEnd`).
* **What is known of a request afterwards**: spans, user, status and log are passed
  through parsers that share more or less (`SpanTree`, `AuditedUser`,
  `StatusesAgree`, `LogsCollected`).

`PROJECT.json` lists each hazard at its line with the properties that cover it.

## 2. Plan

Done, in this order:

1. `JobService` (what the pool promises), `WorkerPool` (the code), their
   refinement, `WorkerPoolProofs`.
2. `RequestPipeline` (lifecycle, registry, commit state, hooks and adapters of one
   request in one module, because every interesting property spans them) and
   `RequestPipelineProofs`.
3. `TokenCache`, `TokenCacheProofs`.
4. `Session`, below the hook that the pipeline only sees as "saved" or "failed",
   `CookieStore` on top of it, and `SessionProofs` for both.
5. `RemoteCall`, `RemoteCallProofs`.
6. `V1Handler`, `DmlHandler` and `QueryHandler`, which refine it, and
   `HandlersProofs` for all three.
7. `AppLifecycle`, composed with the promise of the pool (`JobService`).
8. `Routing`, and `ApplicationProofs` for both.
9. `RequestParser`, `Tracing`, which extends it, and `TracingProofs`.

Open, in this order:

1. `MultiCall` and the fake API on top of `RemoteCall`.
2. The consume handlers, whose `Initializer` grows a path shared by all requests.
3. `calculateBackoff` and `NormalizeCallError` as functions against a reference.

## 3. The modules and the code

`PROJECT.json` maps every definition to its lines. A comment at each action names
the function when the action's name does not. Definitions marked "Mutant" or
"Faulty" are deliberate mutations of the definition that follows them; no
specification uses them. They show that the property they belong to depends on
that piece of code.

### WorkerPool, JobService

Processes are the calls of `Submit` (one per member of `Jobs`), of `Shutdown`
(`Stoppers`) and the worker goroutines. `mu`, `shutdown`, `closed`, `queue`,
`once`, `waiter` and `stats` are the pool's fields; `call`, `stop` and `work` are
program counters; `outcome`, `runs` and `reports` are history. One step is the
code between two points where another goroutine can be told apart: taking `mu`,
a channel operation, an atomic access, a call of user code.

* `Call` to `Recheck` are `Submit`. With `BlockOnFull` the send waits under `mu` for
  room or the context; without it the default case of the select gives up. The
  count is taken back after `mu` was released, and the flag is looked at again to
  choose the error.
* `EnterOnce` to `ShutdownExpired` are `Shutdown`: `shutOnce`, the flag and the close
  under `mu`, one waiter goroutine, and a select whose two branches may both be ready.
* `Receive` to `Leave` are `workerLoop` and `executeJob`. A handler's result is
  a choice; a panic is a failure, since `runWithObservability` recovers it.
* `MayCall` lets a handler submit another job (`setup.Parent`), and `HandlerFree`
  makes the handler wait for that call.

`JobService` has three variables and no notion of a channel: a submission is
accepted or refused once, an accepted one runs and ends once, nothing is accepted
after the close, and "drained" is answered only when nothing is left. `Status` in
`WorkerPool` is the refinement mapping: handler calls and backoffs of one job are
one run. A job called again after its end has status "again", which the service
does not know, so the mapping cannot hide it.

### RequestPipeline

One request, one goroutine. `pc` is the stage of `runLifecycle` or the place in the
error dispatch; `from` is who asked for the answer (middleware, lifecycle, render,
panic recovery, router), which decides where control goes once it is "answered".
`committed` is `CommitState`, `saves` the runs of the hooks, `wire` the responses
that reached the transport with their status, writer and whether they were
complete. The configuration (`SetupType`) covers the four adapters, three save
modes, three contents of the registry, two fallbacks and which optional hooks
(id parser, persister, initializer, finalizer) the endpoint was given. User code
may return, fail, write itself, or panic at every stage, and an error handler may
answer through either write path, not at all, or panic.

`SendResponse` is the path that propagates a strict hook error, `CommitError` the
path that does not, `LegacyFallback` the v1 responder that knows neither hooks nor
commit state. `Dispatched` is an adapter's last resort, `Unmatched` what the
catch-alls of fiber and net/http do with a finished 404 or 405. Statuses and errors
are reduced to what the resolvers tell apart.

### AppLifecycle

Processes are the calls of `StartWithContext` (with the goroutine that watches their
context), of `Shutdown` and `Close`, and the requests of clients. `nativeServer` and
`registered` are what a stop looks for; `listening` and `halted` are the servers;
`found` and `httpErr` what a stop read and got. `Store`, `Announce`, `Listen`,
`FailToListen`, `StopServing` are a start, `WatcherHalts` its watcher, `CallStop` to
`DrainExpires` a stop. The pool is an instance of `JobService` for the jobs of the
requests: `Submit`, `BeginJob`, `EndJob` and the stop's `ClosePool` and `Drained` are
its steps, so what is shown here uses nothing of the pool but what `WorkerPool` is
proved to implement. An `http.Server` is new for every start, a Fiber application
is one server for all of them.

### Session, CookieStore

A request has its handler's goroutine and a second one that changes and saves the
session at any time, also after the response. `content`, `dirty`, `revision` are
the fields of `Session`; `entries` and `consumed` those of `Flash`; `snap` is the
copy `Save` works on between its two locks. `Hook` is `SaveFlashToSession`,
`HookIsDone` the branch for a session that is not dirty, and `Snapshot`,
`StoreSave`, `StoreFails`, `Finish` are `Save`. `stored` is what the client's next
request will load. `kept`, `selfSaved` and `seen` are history.

`CookieStore` adds the instances of the application, their `SecretKey` and
`VerificationKeys`, the clock, and the cookie's key, encryption and expiry. The
operator announces a key everywhere, then switches to it, then retires the old one,
each a restart of one instance; one of them may get an `EncryptionKey`. With another
store these variables never change. The cryptography is ideal.

### TokenCache

A caller is one goroutine in `EnsureAuthorization`. `Check` looks at the cache
without the lock; `Lock`, `Recheck`, `Refreshed`, `RefreshFails`, `Clear`,
`LoggedIn`, `LoginFails`, `Unlock` are `handleToken` with the deferred unlock;
`Begin` to `ReadToken` are `GetAuthHeader`, one step for each expression that
loads the pointer `AccessToken`. Tokens are numbered as granted and may expire at
any moment; `known` remembers what had expired when `GetAuthHeader` began.

### RemoteCall

A client is a goroutine that makes its calls one after the other with one
parameter object; all call one API. `opt.entry` is the entry point: `opts` and
`json` are `CallAPIJSONWithOpts` and `CallAPIJSON` with `RemoteCall` below them,
`call` is `Call`, `transmit`, `basic` and `soap` the others. `headers`, `query` and
`stack` are what the object keeps from call to call, `limit` is
`http.Client.Timeout` of the package's client and of a supplied one, written by
`Prepare` and read by `Send`; between the two another goroutine may write it. `live`
numbers the API's token: `TokenCache` says how it is kept, and its `FreshHeader`
allows the single step `Authorize` here.

`Begin` is the entry, `Prepare` and `Authorize` are `PrepareCall`, `Send` to `Abort`
are `http.Client.Do` and what the entry point's builder makes of a response
(`accepted` remembers whether it was a 2xx), and `Finish` is the part of
`executeSingleAttempt` and `WithRetry` after an attempt, with the elapsed-time
guard, up to the backoff (`Wake`, `Interrupt`).

### V1Handler, DmlHandler, QueryHandler

`V1Handler` is `BaseHandler` with `Recovery`: `Parse`, `Check`, `Insert`, `Initialize`,
`Handle` or `Simulate`, `Answer`, each with its failure, `Panic` wherever code of the
application runs, with or without an error of its own, then `Finalize`, `Update` and
`Reraise`, which answers with the status of that error or with 500; a RecoveryHandler
keeps the panic to itself and nobody answers. Requests are concurrent and meet in
`rows`, the table of records, which may have a unique key (`conf.unique`). `Respond` is
the responder: it records the status, then sends, and only logs an error of the send. A
committed insert whose answer was an error is a choice in `FailToInsert`.

`DmlHandler` replaces the steps that stand for the handler's code by the commands:
`CheckExists` and `CheckNotExists`, each a query outside of a transaction, and a
transaction of its own for every write, `Begin` to `Commit`. Only `CheckNotExists`
looks at the rows: the query of `CheckExists` returns none without an error, so a
missing row does not stop the commands (see 7). `leaked` are the transactions that
`FailToSetVariables` leaves open, until their context is done (never on gin and
Fiber: `cancels`); `MaxConns` is the database's limit. `QueryHandler` does the same
for queries: `CheckCache`, `Delete`, `QueryToStruct`, `CacheResult`, `Translate` and
`Paginate`. Slices are indices of `heap`, so that the cache and several requests can
hold the same one, and `access` shows the unlocked map two goroutines are in. Both
refine `V1Handler` with the identity as mapping (`HandlerSpec`).

### Routing

Values of the adapters' router types are kept in `groups` with their prefix, their
middlewares and whether they have the response handler; `routes` are the handlers
given to the framework, in order, each with its chain. `Group`, `With`, endpoint and
resource registration are actions, in every order; what a request then runs
(`Runs`) is a function of the state. A pattern is a sequence of segments, so that
joining is concatenation; how a framework ranks patterns is external. The names of
the specification begin with `Routing` because `ApplicationProofs` takes the module
together with `AppLifecycle`.

### RequestParser, Tracing

`RequestParser` is the parser interface on three frameworks: which of a request's
parsers share locals and context (`GinStore`, `FiberStore`, `NetHTTPStore`), what a
second answer does to the first (`GinSend`, `FiberSend`, `NetHTTPSend`), whether the
body can be read twice. `Tracing` sends a request through the tracing middleware, the
application's middleware, `BaseHandler` and `Recovery` with these operations: `spans`
is the tree of spans, `context` the one the next span starts under, `user` what the
audit trail takes. A parser's `log` has the three kinds of notes that
`webFramework/logger.go` keeps apart (tags, arrays, errors); `attrs` is what
`CollectLogs` makes of them: the handler's tags, its arrays as one group, the errors.
On gin and Fiber these become attributes of the line slog-gin or slog-fiber writes; on
net/http they only go to the locals of the parser. `TraceError`, `TraceFunc` and
`TraceVoid` are the functions around the handler's phases, which leave an ended span in
the context; `Call` is a function the handler calls through the others of `libTracing`,
`CallPanics` one that panics and leaves its span open, as `PhasePanics` does with a
phase's. `Recovery` and `RecoveryHandlerPanics` are the two ends of a panic that a
RecoveryHandler gets; without one `AnswerPanic` answers it, after the log was
collected, with its own error's status or 500. Frameworks and their middlewares are
modelled at the versions of go.mod: gin v1.10.1, fiber v2.52.9, slog-gin v1.16.1,
slog-fiber v1.18.0. Tracing may be initialised twice at start, from a file or the
environment, with an exporter that fails.

## 4. The runs

States are those of TLC with two workers.

| run | instance | distinct states | shows |
| --- | --- | --- | --- |
| `Pool` | 2 submissions (one with a retry and a context that propagates), 1 worker, 2 shutdowns, queue of 1, both modes, nested submission without `BlockOnFull` | 55,131 | safety of the pool, that it implements `JobService`, and that calls and accepted jobs end |
| `Pipeline` | 216 configurations, all four kinds of error | 352,538 | the properties of a request's answer |
| `TokenCache` | 3 callers, 3 grants, every expiry | 140,422 | one live token, fresh headers, callers answered |
| `Session` | 2 requests of one client with each kind of store; a second goroutine with the server's store; 2 instances and a key rotation with the cookie's; no overlap | 704,110 | not dirty means saved; one-shot messages; a rotation loses no session |
| `RemoteCall` | one call with a policy (or basic authentication) beside two calls of each other entry point, 2 queries, 2 tokens, one retry | 266,450 | consent, final and successful values, fresh tokens, own query and timeout, calls return |
| `AppLifecycle` | 2 starts, a Shutdown and a Close, one request with a job, http.Server and Fiber | 216,893 | what stops find, what nil means, who closes the pool, starts and stops end |
| `Handlers` | 2 copies of a request, any handler in 5 settings, the DML handler with 2 connections, the query handler with 4 settings of cache and translator | 278,641 | answers, records, commits and rows of version 1; that DML and query handlers are version 1 handlers; that requests end |
| `Routing` | all orders of one resource, one direct route and two more groups, 4 adapters, with and without a global middleware | 223,332 | middlewares once and in order, the right route or fallback |
| `Tracing` | 3 frameworks, 3 tracing middlewares, 4 orders of application middleware, with and without EnableTracing, audit trail, User-Id, RecoveryHandler and a trailing function | 5,845,416 | spans, user, statuses and log of a request |
| `RoutingCatchAll`, `QueryCacheAge`, `TracingHandler` | as above | | violations, see 7 |

Why the bounds are enough to meet the cases:

* A queue of 1 with 2 submissions is at once empty, full, and full while the worker
  is busy. Two attempts give a first failure, a backoff and an exhausted retry; the
  job given `MaxAttempts = 0` meets the default. Two shutdowns are needed for the
  one that waits in `shutOnce`. What two workers could do to each other is left to
  the proofs, which hold for any number of them; liveness is checked with one.
* The pipeline is finite without a bound: a request passes each stage once. The
  endpoints have no hooks, persister and finalizer, or all hooks; the proofs cover
  the other subsets.
* Three callers are one inside the lock, one waiting, one reading; three grants
  (`MaxGrants`) let a token be replaced twice under a reader, so that its checks
  and its read see three different ones.
* One retry and a second goroutine with two calls are enough for a token to expire
  between two attempts, for a timeout to be left behind by an earlier call, and for
  another call to overwrite it between `Prepare` and `Send`.
* Two requests suffice for "the next request". `MaxRevision` bounds the explicit
  changes of a request: two are one before and one during a save; the hook's own
  write is not bounded by it. Two instances are one that has changed its key and one
  that has not; a lifetime of 1 and a clock up to 2 let a cookie expire and a key be
  retired after the last cookie it has signed.
* Two starts, of which one may be cancelled, and two stops are enough for a stop that
  finds no server, its own or another's.
* Two copies of a request are what a duplicate check can miss; with two connections,
  two leaked transactions exhaust the database; a clock up to 1 with `CacheMaxAge` 0
  makes rows too old. Two of three arguments have the same text as cache key.
* Two more groups than the router reach `With` before and after `Group`; a third
  repeats one of them.

Every property of a passing run has a mutant listed in `PROJECT.json`: the named
definition is replaced by its neighbour marked as a mutant, and the property fails.

`CHECK_DEADLOCK FALSE` is set where the system really stops: a pool that was shut
down, a request that was answered, callers that returned, a registration that
panicked.

## 5. Fairness

* `CodeFairness` of the pool: weak fairness for every goroutine of the pool, since
  the Go scheduler runs what can run; strong fairness for taking `mu`, because
  `sync.Mutex` switches to its starvation mode, in which it is handed to the
  waiter that has waited longest. Contexts are not fair: they may never end.
  Handlers are user code; only `LiveSpec` assumes that they return.
* A submission (`Call`) and a shutdown (`CallShutdown`) never have to happen.
* The token cache: weak fairness of each caller, which includes the server's
  answer, since the client made by `NewTokenHTTPClient` has a timeout; strong
  fairness of `Lock`. Expiry is not fair.
* Remote calls: weak fairness of each goroutine's own steps and of the timer of an
  attempt that runs under a timeout. Nothing is assumed of the server. No one asks
  for a timeout of 0 in the run: with a `Time-Out` header that is 0 or no number, on
  the shared client, another goroutine's call may wait for ever.
* The application: goroutines go on, and handlers and jobs end. Clients, callers and
  contexts need do nothing.
* Version 1 handlers: weak fairness of each request's goroutine, so that code of the
  application returns, fails or panics in the end; time and `ContextDone` are not
  fair. `HandlersEnd` names what the code does not promise: connections that are all
  leaked, and a process ended by the runtime for the unlocked map.
* `RequestPipeline`, `Session`, `Routing` and `Tracing` state safety only.

## 6. The proofs

`tlapm` checks eight modules, for all values of the constants that satisfy the named
assumptions (finite sets, a queue of at least one, distinct null values, settings
in their type).

**WorkerPoolProofs.** `NoSendOnClosed` is not inductive: it needs to be known that
a sender holds `mu` and that the flag is unset while it does. `IInv` is the
conjunction of

* `TypeOK`;
* `MutexInv`: who is at "send" or "close" holds `mu`, and what the flag is then;
* `ShutdownInv`: what each stage of a shutdown knows (a stopper past the close sees
  the channel closed, an exited worker an empty one, "nil" a finished waiter);
* `PlaceInv`: an accepted job is in one slot of the channel or with one worker;
* `KeptInv`: an accepted job that has not ended is in one of these places;
* `AttemptInv`: how attempts, calls and outcome agree while a worker has the job;
* `ReportInv`: a failure is reported, or its worker is about to.

`IInvInit` and `IInvStep` show that it is inductive, one step for each action.
From it follow `NeverSendsOnClosed`, `DrainedWhenNil`, `RetriesAsPromised`, and
`ImplementsService`: every step of the pool is a step of `JobService` or changes
nothing there, under `Status`. `Conservation` is inductive next to `IInv`, which says that a
send never meets a closed channel. Its sums are sizes of the sets `Sending`,
`Unended` and `InHand`; a step moves one goroutine, so each set gains or loses one
member or stays (`SizeMoves`, `CallMoves`, `WorkerMoves`), and the sums are compared
with the counter the step changes. The theorem is `BooksBalance`.

**RequestPipelineProofs.** `AnsweredOnce`, `SessionFirst` and `Bookkeeping` are
theorems for every set of configurations and errors (`OneAnswer`, `SavedFirst`,
`RecordClosed`). The invariant says where control may be and who asked for the
answer (`ControlInv`), that at most the last response is whole and that a whole one
is committed (`AnswerInv`, `CommitInv`), what is known while an error handler or a
fallback has its turn (`HandlerInv`), that whoever returns with nothing written has
an error for the adapter or a silent fallback to blame (`ReturnInv`), and how record
and finalizer stand (`BooksInv`). The steps that write are proved one by one from
three lemmas about the wire; all others leave the wire alone (`Silent`).

**TokenCacheProofs.** `OneLiveToken` needs `LockInv` (whoever is beyond `Lock`
holds the lock) and, in `LiveInv`, that no token is alive while one is being
exchanged. `FreshHeader` needs `HeaderInv`: between the expiry check and the last
read the cache holds nothing that had expired before, because a pointer is only
ever replaced by a newer token or nil. The theorems are `OneLoginAtATime` and
`HeadersFresh`.

**RemoteCallProofs.** `RepeatedWithConsent` speaks of all attempts but the last, so
an invariant must say of a running call that *all* its attempts ended in a way the
policy lists and that one is left (`RunningInv`); `EndedInv` says the same of the
others and what the value returned is. `HeaderInv` (with a policy the caller's
header map is never written) gives the action property. `OwnRequest` speaks of what
was sent, so its invariant says where the queries are that were not: `QueryInv` counts
the calls begun (`Taken`) and says that the rest of the stack is what was not popped,
call by call and for each way of taking them; `LimitInv` follows the timeout from
`Prepare` through the shared client to `Send`. The theorems are
`NothingRepeatedUnasked`, `FinalValues`, `SuccessfulValues`, `RequestsAreOwn` and
`RetriesRefreshToken`.

**SessionProofs.** `CleanIsSaved` and `OneShot` are not true when saves or requests of
one client overlap (see 7); the theorems carry that as the hypothesis `~Overlap`, the
setting the run has, and everything else is free. `OneSave` turns it into what the
proofs use: one goroutine saves at a time, for the request that is open. `SaveInv`
says of a save what its snapshot has of the session: the revision is not newer than
the session's, with the same revision or a session not dirty the content is the same,
and after the store call it is what the store keeps. For `OneShot`, `FlashInv` and
`SnapInv` follow a message from the request that read it to the store: neither a
session, a snapshot nor the store has one that was seen, after the hook the session
has none that its own request read, and no save puts one back. The theorems are
`CleanSessionsAreSaved` and `FlashIsOneShot`. `CookieStoreImplementsSession` shows
that every step of requests, instances and operator is a step of `Session`, so
`CookieSessionsKeepPromises` follows without an invariant of its own.
`RotationLosesNoSession` rests on `TokenInv` and `RotationInv`: a token signed with the
old key was made before the last instance switched, one with the new key when every
instance knew it, and the old key is retired only when the clock is past what the
last old token may live. It needs no hypothesis on overlap.

**HandlersProofs.** One invariant for `BaseHandler` with any handler: `CountInv` counts
the answers given and still to give at each place of a request, `OutcomeInv` says when
the outcome agrees with the last answer and what it is during a panic (500 for an
answer that has the status of the panic's own error), `RowInv` follows the record from
insert to update, and `KeyInv` is the unique key. It gives `ClientsGetOneAnswer`,
`RecordsTellTheAnswer`, `OpenRowsHaveReasons` and `CopiesAreHandledOnce`. A step is one
request's, so each is proved for that request and the others keep what they had
(`Same`); what two requests share is in `KeyInv`. `HandlersImplementV1` is the
refinement, for commands, queries and caches of any kind, and `HandlersAnswerOnce` what
the two handlers inherit by it: they keep no records, so it speaks of answers only, and
of theirs a second one can only be that of a panic. `WritesInOrder` needs
`CommandsInv`: an open transaction belongs to the write that is next, and whatever is
before it has succeeded. `QueriesAnswerTheirRequest` has the largest invariant,
`QueryInv`: the cache has under a key only rows of arguments with that key (`RowsInv`);
a request holds a slice exactly between its query and its answer (`PlaceInv`); without
a cache nobody else holds it, so nobody else sorts it (`OwnRows`); an answer is the
page of the rows it was made of (`GotInv`, with the arithmetic of `Paginate` in
`PageCuts`); a missing answer has its reason (`ReasonInv`). TLC checked `QueryInv` on
the queries of the run `Handlers` first. The proof corrected the model's property: for
a page that ends before the first row (`start` -2, `end` -1) `Paginate` returns every
row, which `QueryAnswers` had excluded and no instance had tried. The property now says
so, and the run has such a page.

**TracingProofs.** For any settings, any order and number of middlewares and any number
of initialisations. `SpanInv` says which spans may be open at each place of a request
(the one of the middleware, of the handler, of the running phase, and after a panic
those of the phase and of the call it went through) and that a parent is older than its
child; `NoteInv` where the application's own attribute went. `StatusInv` keeps
`outcome`, the locals and the wire together from the answer to the middleware's end,
with what net/http was asked for (`AskedInv`), and says what the outcome is before a
panic is answered; `ErrorInv` is that an error is noted exactly when one was answered.
`UserInv` says of the middleware that has run (`Ran`) what the last of "auth" and
"logs" left, so that `LastWins` finds the user when the handler reads it. `LogInv` says
what was noted when the attributes were made of it, and how much an answer of a panic
has added since. On net/http that is the result of a recursive function; what it keeps
is proved by induction on its argument without a theorem that takes an operator:
`AllNumbers` (a set of numbers with 0 and the successor of each member is `Nat`)
follows from the well-foundedness of `<`. The theorems are `SpansAreATree`,
`AuditTrailHasTheUser`, `OneStatusEverywhere` and `LogsReachTheFramework`.

**ApplicationProofs**, start and stop, for any number of starts, stops and requests.
`FoundInv` says what a stop that is past its wait knows of the registered server,
`ListenInv` that a listener belongs to a server nobody has halted, `RequestInv` at
which server a request is, `PoolInv` that the jobs are those of requests and drained
means what it says, `QuietInv` that a server whose stop got nil stays without
requests, and `RefusedInv` who closed the pool. The theorems are `ShutdownFinds`,
`NilIsStopped` and `PoolOutlives`.

**ApplicationProofs**, routing, for any middlewares, patterns, resources and requests
and any number of groups. `MiddlewareOnce` speaks of the routes; that it stays true
needs `GroupInv`: every value has exactly what was asked for, and a net/http sub-group
begins with what its router has, which is why the second copy is always a beginning of
the first (`AppliedTwice`). `RightHandler` needs `ResourceInv`: the routes of one
resource come from one group in the order of `Operations`, also when `ValidatePattern`
or a panic cut the registration short (`EntriesAscend`, `RegisterStep`). Two of them
that one request matches have the same method and length, hence are "new" and the
parameter, and the first is not the less specific (`LaterIsNotBetter`). That a best
route exists at all (`BestExists`) is an induction over positions, done on the least
position without one. The theorems are `MiddlewareRunsOnce` and
`RequestsRunTheRightHandler`.

Only model-checked: all liveness (`ServiceLiveness`, the two `CallsReturn`,
`CallersReturn`, `CallsEnd`, `HandlersEnd`), which is out of reach of the prover.
Every safety property of a passing run is a theorem.

## 7. Where code and documents disagree

Each of these is a run that ends in a counterexample, with the quoted lines under
"findings" in `PROJECT.json`:

* `RoutingCatchAll`: on fiber a route's own 404 is answered again by NotFound.
* `QueryCacheAge`: rows in the cache of a query handler are served however old they
  are, and deleted when they are young.
* `TracingHandler`: `TraceFunc` leaves an ended span in the context, so the phases
  after Initializer are not traced.

Others were met while modelling. Where a property has an exception for one of them,
the property names it.

Worker pool and application:

* "Only accepted submissions increment Submitted" is true only in the end: the count
  is raised before the send and taken back. `Stats()` is no snapshot.
* A job whose context is already done is still called once.
* `Shutdown` takes `mu` without a look at its context while a blocked `Submit` has it
  (worker.go:518-519 against 530).
* The first delay of `calculateBackoff` is not capped by the maximum.
* Fiber ignores the context of `StartWithContext` (app.go:350-351), and an http.Server's
  start returns ErrServerClosed before the requests in flight are done.

A version 2 request:

* `LegacyFallback` answers without saving the session (defaults.go:111), and marks a
  status committed that the v1 responder may not send (114).
* A failed encoding looks like a success to `respondOKV2` and to a handler
  (handler.go:117, base_handler.go:347).
* Strict mode reports a failed save once (commit.go:73-100): a custom fallback that
  stays silent about it lets a success out.
* A finalizer and `Update` run before the response when a panic is answered, or when
  the adapter dispatches the error, although they are documented to run after it; a
  panic of `Update` is outside of any recovery (base_handler.go:307), and the request
  stays unanswered. So does one whose error handler panics outside the endpoint.
* `DispatchError` marks 500 committed even when `SendResponse` refused (handler.go:226).
* `commit.go` says that hook errors do not keep `SendResponse` from writing; the
  parsers return them without writing.
* The persister of a resource's endpoint gets `e.Path`, not the path it was registered
  at (endpoint.go:150-154, 279-283); an Endpoint value returned for two operations has
  its path overwritten by the later one.

Routing: net/http `With(mw).Group(p)` applies `mw` twice; its NotFound on "/" shadows a
405, and a second NotFound panics; chi panics for a second group of the same prefix;
global middleware does not run for unmatched requests; Fiber keeps the recorded routes
per value, so a group's 404 may become a 405.

Sessions:

* The hook marks every session dirty, so a request that changed nothing stores the
  content it loaded, perhaps over a newer one or what `Destroy` removed
  (middleware.go:103).
* With `CookieStore` the token of an explicit `Save` goes nowhere, yet the session is
  clean; a `Save` of another goroutine between the hook's write and its check leaves
  the client without a cookie; `Delete` does nothing; an `EncryptionKey` has no
  rotation.
* Two saves of one request at a time may store the older snapshot last, and two
  requests at a time may show one message twice.

Tokens and remote calls:

* `GetAuthHeader` loads the pointer again after its nil check, and panics when another
  caller cleared the cache in between (auth.go:76).
* `PrepareCall` takes an explicit timeout equal to the default for none, and does not
  apply it to a supplied client; an explicit one stays in that client for later calls.
* `CallAPIJSONWithOpts` drops the query stack, which `RemoteCall` pops: a second call
  with the same parameters sends the same query again.
* `ConsumeRestAPI` and `ConsumeRestBasicAuthAPI` return the bytes of a failure without
  an error; `Call` returns a zero value beside a response that is not 200;
  `TransmitSoap` looks neither at the status nor at its timeout; `MultiCall`
  uses the nil status of a call that failed before it had one; `DefaultBuilderfunc`
  refuses every 2xx but 200, `StatusPreservingBuilder` accepts an empty one.
* A negative `MaxRetries` attempts nothing and reports nothing.

Version 1 requests:

* The status recorded need not be the one sent (handlers/README.md:353 says it is): a
  failed send is only logged, and a panic with a libError is recorded as 500 and answered
  with the error's own status, because recovery.go:41 joins that error first and
  webHandler.go:56 takes the first it finds. With a RecoveryHandler the outcome has no
  error although handlers/README.md:341 says "set on ... panics". A receipt and a file
  make two answers; a panic after an answer makes another. The answer of a panic is in no
  log (recovery.go:60-64, 81).
* `QueryCheckExists` is documented to verify that "a record exists" (libQuery/exec.go:43),
  but a missing one is not an error (exec.go:136-147, query.go:158-159), so the writes
  that follow are done.
* `InitRequest` answers a duplicate with 500, since `response.Unwrap` only knows
  `ErrorData`; `GetDescFromCode` may index out of range (response.go:69-99).
* `Dml` leaves its transaction open when `SetModifVariables` fails (dml.go:38-41).
* `UpdateRequest` closes the query interface all requests share (libRequest/dml.go:90).
* `ConsumeHandler.Initializer` appends to the shared `Path` (consumeHandler.go:221-227).
* Query: `OnEmpty200` has no effect; without a page `Paginate` cuts a single row away
  (queryHandler.go:165-167), and a page that ends before the first row gets all of
  them; `QueryToStruct` drops decoding errors; a cache key
  has neither page nor separators, and the map no lock; `Paginate` sorts the cached
  slice in place and panics for a page behind the rows; `Single` takes the first of many.
* libFiber's ErrorHandler answers twice for anything but a 404; AuthMiddleware's user is
  under a key nobody can read; net/http's tracing middleware keeps the status of the
  last `WriteHeader`; attributes a Finalizer adds are lost; Fiber's `GetURLQuery` reads
  the body, and its `GetArgs` panics for a local that is missing.

## 8. Limits

* Goroutines interleave at single loads and stores; the Go memory model gives racy
  programs less than that. The pointer reads of `GetAuthHeader` and the map of the
  query cache are such races; of the second, the end of the process is modelled too.
* A handler that submits to its own full pool with `BlockOnFull` may wait for itself
  for ever. That is by design of the option; the runs nest submissions without it.
* In `RequestPipeline` a handler is assumed not to report success after its own
  `SendResponse` failed (the guard in `StagePasses`), and to write at most once; the
  session middleware is the outermost. Adapters without a response handler are in
  `Routing` only.
* `RemoteCall` takes `MaxRetries` as a natural number. A custom `Sleep` or timeout
  predicate is the caller's. `MultiCall`, the fake API and metrics are left out.
* `OneShot` and `CleanIsSaved` are checked and proved without overlap, see 7.
* `AppLifecycle`: the ten seconds a watcher waits for its server are seen by nobody; a
  listener that fails is a start that returns. `validateConfig` is left out.
* `V1Handler` has the persister that handlers/README.md shows; others may differ.
* `Tracing` has one request, and one attribute of interest. The application is assumed
  not to recover the panic of a function it called through `libTracing`; if it did, that
  function's span would stay open in a request that did not panic.
* The proofs take every action as modelled; that the model is the code is what the map
  in `PROJECT.json` is for.
* Not modelled, with reasons, in `PROJECT.json`: the job parser, renderers, the
  generator, parameters and cryptography, error values and text, test tools.

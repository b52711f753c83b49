# korvex in TLA+

korvex is a web framework for Python with a server in Rust. A Rust thread
(tokio, hyper) accepts connections and reads requests; an asyncio loop runs the
app; the two talk through a queue and a few atomics. Above a loop there may be
several threads with a loop each, and above a process several worker processes.
This project models the parts where that can go wrong: the hand-over between
the two threads, flow control, WebSockets, graceful stop, worker supervision,
what a request does with its dependencies, routing, what an app declares and
what its links, documents and limits make of it, the middlewares, rate limiting
and the test client.

Tools: `tlc -config X.cfg M` for a run, `tlapm M.tla` for a module of proofs.
PROJECT.json lists the runs, which lines of the source each definition models,
the hazards the properties are for, and the theorems.

## The system

| Part | State | Operations | Talks to |
|---|---|---|---|
| event queue (`src/server.rs`, `Shared`, `Server::take`) | queue, `woken`, a socket pair | `push` from Rust tasks, `take` on the loop | everything below |
| streamed responses (`Responder`, `Backlog`, `ChannelBody`; `_serve_http`) | byte counter, `waiting` flag, channel, Python's future | `send_chunk`, `end_stream`, `poll_frame`, drop, `writable()` | the queue (`Writable` events) |
| WebSockets (`src/websocket.rs`; `_serve_websocket`, `WebSocket`) | handshake's decision, channel, backlog, ping timer, the inbox | `handshake`, `relay`, `accept/send/receive/close` | the queue, the stop |
| server lifecycle (`accept_loop`, `serve_connection`, `handle`; `serve()`) | listener, connections, the stop's permit and grace, `finished` | accept, read, answer, stop, close, hooks | all of the above |
| request dispatch (`App._respond`, `_dispatch`, `_websocket`; `Plan.bind`, `Run`) | cached values, open generators, the response | hooks, `resolve`, handler, `close`, errors, answer | streams, the server |
| several loops (`serve_process`) | lock, list of loops, stopping event | `joined`, `stop_all` (also a signal handler), `run_loop` | `serve()` |
| supervisor (`supervise`) | dict of children, `stopping` | `spawn`, `stop` (signal handler), wait and replace | worker processes |
| route tree and router (`src/tree.rs`, `src/path.rs`, `src/lib.rs`; `router.py`) | a radix tree, the constraints, an lru_cache | `route`, `remove`, `match`, `routes`, `constraint` | dispatch; the server's body limits |
| forwarding headers (`src/proxy.rs`) | trusted networks | resolve | `handle` |
| rate limiting (`middleware/_rate_limit.py`) | one timestamp per key, here or in Redis | before and after hooks | dispatch |
| declarations, hosts and URLs (`App`, `_routing.py`, `_urls.py`) | two routers per host, the routes, the names, a cached index of names, the list of body limits | `host`, `group`, `route`, `websocket`, `static`, `docs`, `constraint`, `url_for` | the routers, dispatch, OpenAPI, the server's body limits |
| middleware (`middleware/`, `_response.py`) | the app's two lists of hooks, two ContextVars, a response's headers and body | `compress`, `cors`, `request_id`, `rate_limit`, `security_headers` | dispatch, the log |
| parameters, validation and OpenAPI (`_schema.py`, `_params.py`, `_openapi.py`, `security.py`) | a plan per function, made at registration | `plan_for`, `bind`, `build` | dispatch, dependencies |
| test client (`testing.py`) | a task, a queue and an error catcher per use; cookies | `request`, `stream`, `websocket`, `with`, `close` | any ASGI app |
| command line (`_cli.py`) | | options | `serve_process`, `supervise` |

What is hard: two threads that share atomics with no lock (queue, backlog); a
body, a connection or a task that is dropped at any `await`; a client that
leaves, falls silent or does not read; signals between any two lines of
Python; a worker or a loop that fails while others start or stop; teardown
code of the app that raises while other teardown waits; routes that are refused
half way or removed under a cache; a store whose answer is lost; hooks in any
order, one of which answers early, while another request runs; the same plans
and routes walked by dispatch, by links, by documents and by limits, each with
rules of its own; an app under test that stalls, logs late or puts its
cancellation off.

What makes each part correct: no event is lost and none comes twice; memory is
bounded and a waiting handler is woken; a handler hears of the end of its
connection, once and last; a stop reaches everyone, waits for requests in
progress within its grace, and ends; what a request opened is closed, in
reverse, in time, and with the error if there was one; a path finds the best of
the routes that are registered now; a limit holds in every window; a link, a
document and a limit are about the route that a request would get; a response
is what its headers say, carries its own request's values, and has what the
middlewares promise for every response; what the app did under test reaches the
test, and nothing of it outlives the test.

## Modules

| Module | Models | Proofs |
|---|---|---|
| `EventChannel` | what the queue promises: a FIFO that is always emptied | |
| `EventQueue` | `Shared::push`, `Server::take`, one step per atomic access; implements `EventChannel` | `EventProofs` |
| `StreamFlow` | `Backlog`, `Responder`, `ChannelBody`, the streaming branch of `_serve_http` | `StreamFlowProofs` |
| `WebSocketLink` | `handshake`, `relay`, `WsConnection`, `_serve_websocket`, `WebSocket` | `EventProofs` |
| `ServerLifecycle` | `serve`, `Server::stop/finished/close`, `accept_loop`, `serve_connection`, `handle` | `ServerLifecycleProofs` |
| `RequestRun`, `MCRequestRun` | `_respond`, `_dispatch`, `_websocket`, `_handle_error`, `_finish`, `Plan.bind`, `Run` | `RequestProofs` |
| `LoopThreads` | `serve_process` with several threads | |
| `Supervisor` | `supervise` and its workers | `SupervisorProofs` |
| `Patterns` | `Segment`, `Constraint`: what a pattern fits, and which of two is tried first | |
| `RouteTree`, `Router`, `MCRouter` | `Node`, `Methods`, `Segments`; the `Router` classes of both languages | |
| `AppRouting`, `MCAppRouting` | `App` and `Group` as they are declared, `_Host`, `_match`, `_urls.py`, `_routes_for`, `Shared::body_limit` | `RequestProofs` |
| `TokenBucket` | what a rate limit promises: a bucket per key | |
| `RateLimit`, `MCRateLimit` | `MemoryStore`, `RedisStore` and its script, the before hook; implements `TokenBucket` | `RateLimitProofs` |
| `Binding` | `plan_for`, `Plan.bind`, `Plan.everything`, `Plan.validates`, security schemes, the operation of a document | |
| `Exchange`, `MCExchange` | the five middlewares' hooks, `_respond`'s two loops over them, `Headers`, `Response`, `_raw_headers`, `_logged`; `Binding` for the route | `ExchangeProofs` |
| `TestClient`, `MCTestClient` | `AsyncTestClient`, `TestClient`, their streams, WebSockets and lifespan, `_ErrorCatcher` | `TestClientProofs` |

The modules stack: `StreamFlow`, `WebSocketLink` and `ServerLifecycle` take the
queue to be the channel that `EventQueue` is shown to implement;
`ServerLifecycle` knows of a request only what kind of answer it gives, which
is `RequestRun`'s subject; `LoopThreads` and `Supervisor` rely on a `serve()`
that ends once it is told to, `ServerLifecycle`'s `StopEnds`. `AppRouting`
takes a router to be the set of what is registered in it, which finds the best
of these: that is what `Router`'s `FindsBest` shows of the tree, with the same
`Patterns`. `Exchange` has the hooks of all requests at once and the route as
one step, whose outcome is `Binding`'s; `RequestRun` takes that step apart for
one request, and `RateLimit` the store's.

Conventions. Each module has `Init`, one action per step of the code, `Next`,
`SafeSpec` without fairness and, where liveness is checked, `Spec` with it. Two
have names of their own for these, `QueueInit`, `QueueNext`, `QueueSafeSpec` and
`QueueSpec` in `EventQueue`, `RoutingInit`, `RoutingNext` and `RoutingSpec` in
`AppRouting`, because each shares a module of proofs with another component. A
definition called a mutant is a wrong version of the one that follows it; no
specification uses it, and the run that checks the property named in
PROJECT.json fails with it in place.

### How state and actions correspond to the code

*EventQueue.* `queue`, `woken` and `wakeBytes` (bytes in the socket pair) are
the shared state; a thread in `push()` goes PushBack (under the mutex),
SwapWoken, WriteByte, and `take()` goes Readable, ReadBytes, ReadNothing,
ClearWoken, DrainQueue. The mutex orders the queue's accesses, and the
acquire-release pairs on `woken` are taken as sequentially consistent.

*StreamFlow.* `bytes` is the `AtomicUsize` with its wrapping arithmetic (modulo
`WordSize`), `flag` is `waiting`. Python's add is AddBytes, StoreWaiting,
Recheck, Unflag, then SendChunk; the body's poll is PollFrame, Taken, Wake,
PushWritable; its drop is DropWake, DropPush, DropReceiver, in the order Rust
drops fields. Chunks are known by the offset of their end, so that double or
missing subtraction shows.

*WebSocketLink.* `link` is where the Rust task is, from `handshake()` through
`relay()` to the final wake; `out` and `backlog` are the outgoing channel,
`events` the queue, `inbox` the asyncio queue, `future` and `slot` the futures
and `waiting[id]`. Nothing keeps the app from a call at a time when it makes
little sense: the handler may receive, and any task accept, send or close,
before the decision, after the end and after a disconnect it caught. `connect`
is the message that starts ASGI, which a first `receive()` takes away from
`_wait_connect()`; a call that then has to wait for another message is in two
steps (`AcceptWaits`, `AcceptResumes`). `told` is that the disconnect was taken.
The parts of `Backlog` are one step each here: `StreamFlow` takes them apart.

*ServerLifecycle.* `py` is where `serve()` is, `rust` where `accept_loop()` is,
`permit` the `Notify`. The runtime has one thread: connections only run inside
`accept_loop()`, and Python's tasks only while `serve()` awaits, never inside
`Server.stop()` or `Server.close()`.

*RequestRun.* `stack` holds the frames of `bind()` and `resolve()`, which call
each other; `started` numbers the generators, `teardowns` and `closing` are
the lists of `Run.close()`, `torn` is what was torn down, whether the error was
thrown at its yield, and what had failed by then: the run, or only the stream
that was sent (`broken`). `slip` names the ways the code loses a run.

*LoopThreads.* The main thread has a stack of `frames`, one per run of the
signal handler, because Python may interrupt the handler too; `lock` is a plain
`threading.Lock`, and so is the one inside the `threading.Event`, which is held
between `MainEnters` and `MainLeaves`.

*Supervisor.* Pids are numbers; `worker[p]` is a worker's life as the parent and
signals see it; `Interrupt` runs the handler between any two of the parent's
lines. `known[p]` is the copy of `children` that a child has from its fork.

*RouteTree, Router.* A node is a record of its methods, literals, parameters in
matching order, and wildcard; `NodeInsert`, `NodeRemove` and `NodeFind` are
`insert_at`, `remove_at` and `find_from`, recursive like them. A path is the
sequence of the parts between its slashes, so that doubled and trailing slashes
are there; which parts an `int` or a regex fits is a constant. `Router` has one
action per call; `table`, the set of routes promised by the calls so far, is
the reference its answers are held to.

*AppRouting.* `router[<<host, websocket>>]` is a router's table, constraints and
version; `routes` the dicts of `_Route`, whose `place` records what each was
declared for; `names` what `_check_name` keeps, `limits` the list `_body_limits`,
`cache` the index of `url_for()` with its signature, `hosts` the hosts in the
order they are tried in, `declared` in the order of declaration. One action
per declaration, which may be refused half way, as the code refuses it: what
ran before the line that raised stays. `Dispatch`, `UrlFor`, `Described` and
`BodyLimit` are what a request, a link, a document and the server then find.
`Shown` are the routes that `build()` goes through, `Overwrites` the ones that
take another's place in its `paths`. A request line's path is a raw one: the
server looks for limits with it, dispatch with what `Unquote` makes of it.

*RateLimit.* `next_free` and `known` are the dict of timestamps, or Redis's
keys; `Refuse` and `Allow` are the two ends of `_hit()` and of the script,
which are the same algorithm. A MemoryStore decides under its lock, in one step
(`Hit`); with a RedisStore a request goes `Send`, `Execute`, then `Reply` or
`Unreachable`, which may also come before the script has run. `grants` and
`grantsAt` log what was allowed, for the properties.

*Binding.* No state: a signature gives each function its declared parameters;
`SourceOf` is the chain of conditions of `plan_for()`, `Refused` its errors,
`Outcome` what `bind()` answers, `Fits`, `Responses` and `Security` what the
document says, and `Meant` what the documentation says of blanks. A value is
text that is a number or not, a blank, a file, or is missing.

*Exchange.* Each request has its `pc` and its place `at` among the hooks as they
were declared, or in reverse; `NextBefore` passes over the middlewares that
have an after hook only. `context` is its copy of the ContextVars, as each request runs in a task
of its own; the store's decision is a step of its own between `Ask` and
`StoreAnswers`. A body is known by the request and the sequence of encodings on
it, a length by the body it is the length of, so that a stale length shows.

*TestClient.* A block is one use of the client; `pc` is where the test is in it,
`task` where the app's task is, `queue` what the task sent. With `TestClient`
the loop runs during calls only. A timeout may come whenever the code waits with
one. `told` (the exceptions a block raised in the test), `logged` and `sent`
record what happened, for the properties.

## Runs

| Run | Checks | Bounds | Shows |
|---|---|---|---|
| `EventQueue` | NoLostWakeup, ImplementsChannel | 2 threads, 5 events, socket of 2, reads of 1 | no lost wake-up, FIFO, always emptied |
| `StreamFlow` | BacklogBound, WakeupComing, WaiterResumes | marks 4 and 1, chunks of 1, 2 and 5 | bounded memory, no wait for ever while the client is there |
| `WebSocketLink` | DisconnectTold, HandlerDoneCloses, SilentClientClosed, SenderResumes | 2 tasks, 2 messages out past a mark of 1, 1 in, calls in any order, a client that leaves at any moment, falls silent or stops reading | the handler hears of the end, sends go on, connections end, but for the waits listed below |
| `ServerLifecycle` | GracefulDrain, GraceHonoured, StopEnds | 2 connections, 2 requests in all | a stop waits for requests in progress within its grace, and ends |
| `RequestRun` | TornInReverse, AllTornDown, NoEarlyTeardown, FailureThrown, FailureAnswered | 3 plans over 3 generators (none, a diamond, a diamond with one uncached edge), 1 before hook, 2 after hooks | teardown is complete, reversed, in time and told of errors, but for a stream's own |
| `LoopThreads` | StopEnds | 3 loops, 2 signals, every fault | a loop that joins late hears of the stop too; the stop ends |
| `Supervisor` | StopReachesAll, StopEnds | 2 workers, 2 crashes, 2 signals, failing forks | a stop reaches every worker, and ends |
| `Router` | FindsBest, CacheFresh | 11 patterns, 4 changes, 6 paths, a cache of one | lookups are the best of what is registered, cached or not |
| `AppRouting` | IndexFresh, LinkReaches, OwnerAnswers, DocsComplete, LimitApplies | 3 registrations out of 18, a literal host, a host with a parameter that fits it too, a constraint; 3 paths, and 2 percent-encoded spellings of them | links, requests, documents and limits agree on what was declared, but for the cases listed below |
| `RateLimit` | WindowBound, RetryExact, ImplementsBucket | 2 keys, 5 requests, bursts of 2, 7 ticks, both stores | a token bucket, whatever is forgotten, expired or lost |
| `Exchange` | OwnContext, EveryAnswer, HonestBody, TwinAnswers, AsDocumented | 2 requests alike or different in one thing; 3 hooks in every order, all five middlewares in two; plans of a handler and a dependency, with a scheme | responses keep their own values, promised headers and true lengths; validation is as documented, but for some blanks |
| `TestClient` | NothingRuns, ErrorsSurface, LoggerClean, NoDeafWait, SecureStays | a block of each kind, and a request beside a WebSocket; 3 messages, 2 redirects, 4 answers with cookies | errors are raised in the test unless something else is, nothing is left running or installed, no wait for a dead app |

Type invariants are proved where a module has proofs, and are left out of the
runs; so is a property whose proof its run would only repeat (`SingleByte`,
`NoOrphans`, the counter of `StreamFlow`).

Why the bounds are enough. Two threads and one taker meet in every order of
their steps, and five events make several bursts. The marks and chunk sizes of
`StreamFlow` include chunks under, at and over the distance between the marks.
Of a WebSocket's two messages the second is past the high mark, so that a send
waits, before the decision and after it; a second task is what another's future
or an early close takes. Two connections and two requests give both two at once and one after the other
on a connection kept open. Three generators are the least with a shared
dependency, one uncached edge makes one be started twice, and two after hooks
let the second see what the first put in place. Two signals are needed for one
to interrupt the other; three loops, for one to fail between two others. Four
changes of the routes are two that overlap, one that is refused or replaces,
and a removal; the patterns have every kind of segment, each pair of them that
can compete for a path, names that conflict and a pattern refused at its second
segment, and the lookups may be taken at any point between. Five requests use up
a burst, are refused, come back, and make the store forget; the ticks cover the
time it takes a full burst to come back, and more. Three registrations are one
that is replaced, shadowed or refused, the one that does it, and a third that a
stale index or a name would meet; the eighteen have the same function on several
routes, equal names in one and in two places, parameters that clash between
patterns and with a host's, and limits that overlap. The encoded paths are a
letter, and a slash that only unquoting makes one. Two requests are what a
ContextVar could mix up, and what a cache could; any middleware's effect on
another's shows with a third hook of the app's beside the two. A function and
its dependency are one step of the walks over a plan, which are the same at
every depth. Two blocks share a client's logger and, in `TestClient`, its loop.
Where there are proofs they leave the bounds behind.

Deadlock is checked in `RequestRun` only: a stream, a connection, a process
that is over has no further step, by design, nor has an app once it is
declared. There, `Over` is the one state in
which a request may stay, so no run of it is stuck anywhere else.

### Fairness, and why the code justifies it

- `EventQueue`: a thread in `push()` finishes it, since nothing in it blocks;
  the loop polls its selector. Nobody has to push.
- `StreamFlow`: started calls finish, the loop polls, hyper polls the body of a
  client that reads. Producing, leaving and being cancelled are free.
- `WebSocketLink`: weak for what the loop and the runtime run next. Strong for
  the branches of relay()'s `select!`, which picks among ready branches at
  random; a write in between disables them, so weak would be too little.
  Clients and handlers owe nothing. The branches that end the loop share one
  condition: each of them is the last one taken.
- `ServerLifecycle`: `serve()` and the Rust thread only. Handlers and clients
  owe nothing: the timer bounds them.
- `LoopThreads`, `Supervisor`: threads and processes run, and a `serve()` that
  was told to stop ends (`ServerLifecycle`). Signals and failures are free.

## Where the code deviates

Properties that hold otherwise except these by name, so that each can be looked
for by removing the exception.

Streams, WebSockets and the server:

- A handler can wait for ever on a stream whose client left. `Drop for
  ChannelBody` wakes Python first and closes the channel after; a `send_chunk()`
  in between is told to wait, and no `Writable` follows (`src/src/server.rs:521`;
  line 520 says "The client left: a waiting Python learns it from its next
  send_chunk()"). `WakeupComing` and `WaiterResumes` are about a body that is not
  being dropped.
- `taken()` decides on the value it read, and wakes after Python may have filled
  the backlog again: Python can be woken above `LOW_WATER`, indeed above
  `HIGH_WATER` (`src/src/server.rs:121`; lines 71-72 say "once the backlog is
  down to `LOW_WATER`"). `BacklogBound` allows two chunks for it.
- A WebSocket's handler may never hear that its client left before it accepted:
  hyper drops the handshake's future and nobody pushes `Closed`
  (`src/src/websocket.rs:216`; docs/websockets.md:20 says that receive() raises
  "once the client is gone"). `DisconnectTold` and `SenderResumes` except
  `link = "gone"`.
- The disconnect is one message: whoever calls `receive()` again after it waits
  for ever on the queue (`src/korvex/_serve.py:355`; the docstring at
  `_requests.py:262` says "Raises `WebSocketDisconnect` when the client has
  gone"). `DisconnectTold` excepts `told`.
- An app that closes before it accepts is told nothing: `receive()` after its
  own `close()` waits for ever, as a refused handshake pushes no `Closed`
  (`src/src/websocket.rs:219`). `DisconnectTold` excepts `link = "refused"` with
  `closed`.
- A `receive()` before `accept()` returns the connect message as an empty one.
  `accept()` or `close()`, the close at the end of a handler included, then
  waits for a message of the client's and drops it, which before the decision
  never comes (`src/korvex/_requests.py:313-317`). No property is about a task
  in that wait; it may take the disconnect, which is why `told` is set there too.
- A send past the high mark before `accept()` waits with nobody to take what it
  waits for: the handler never gets to accept (`src/korvex/_serve.py:366`; and
  when another task refuses, the refusal wakes nobody). `SenderResumes` is about
  a decided link, and excepts `link = "refused"`.
- Two tasks that wait on one WebSocket share `waiting[id]`: the second
  overwrites the first one's future, which is never set
  (`src/korvex/_serve.py:216`). `SenderResumes` is about the task on record.
- An upgrade that fails returns without `backlog.wake()`
  (`src/src/websocket.rs:221-223`; line 234 does it for the other exit).
  `SenderResumes` excepts `link = "failed"`.
- relay() awaits a write inside a branch of its select loop, so no ping is
  polled while a client that reads nothing keeps its buffers full
  (`src/src/websocket.rs:297`; docs/server.md:32 says a silent client is
  closed). `SilentClientClosed` and `HandlerDoneCloses` except
  `client = "stuck"`.

Processes and loops:

- A loop that fails may not stop the others: its own closed loop is still in the
  list, `call_soon_threadsafe()` raises on it, and the loops after it are never
  told (`src/korvex/_serve.py:139`; line 150 says "stop the others too"). A
  second signal inside `stop_all()`'s `with lock`, or inside the
  `stopping.set()` before it, waits for the thread it interrupted (lines 136,
  137). `StopEnds` excepts both, as `StopAllDied` and `WaitsForItself`.
- `os.fork()` raising leaves `supervise()` by the exception, with workers
  running and no one to pass signals on (`src/korvex/_serve.py:416`).

Requests:

- An after hook that raises makes the answer a bare 500, and the hooks left are
  skipped (`src/korvex/_app.py:550`; after_request's docstring says "every
  response, errors included"); a stream it drops never gets the `_finish()` of
  line 553, and its dependencies are never torn down (`_response.py:205` says of
  `_on_close` "run once sent, or not sent after all"). `EveryAnswer` and
  `OwnContext` except it in `Worked`, `AllTornDown` as `slip = "after_hook"`.
- A WebSocket's task that is cancelled does not close its run
  (`src/korvex/_app.py:657`), nor does an after hook cancelled on a stream; a
  header that latin-1 cannot encode raises outside every `try`
  (`src/korvex/_serve.py:302`); a generator whose `aclose()` raises ends
  `Run.close()` (`src/korvex/_schema.py:489`). These are the values of `slip`.
- A streaming body that raises or is cancelled while it is sent is torn down as
  after a success: the `finally` calls `_finish()`, which passes no error to
  `Run.close()`, and so a dependency's `yield` returns and its code after it
  runs, a commit say (`src/korvex/_serve.py:314-316`; docs/dependencies.md says
  that an error "from the handler is raised at the `yield`"). `FailureThrown`
  excepts `failure = "stream"`.
- A before hook that answers first, a CORS preflight say, leaves the before
  halves after it out: with `request_id()` declared after `cors()`, a preflight
  has no ID, neither in its headers nor in the log. `OwnContext` says so with
  `Reached`.
- `Plan.everything()` keeps the first reader of a field, dependencies first: a
  field that two functions read as different types is documented one way, and
  may be refused with a 422 the document's reader would not expect
  (`src/korvex/_schema.py:345`). `AsDocumented` excepts it as `~Agree`.
- Blanks. `request.query` drops them (`src/korvex/_requests.py:128`), so that a
  required `str` sent as `?a=` is a 422, and an optional number sent so is let
  through; the document says the opposite of both. An empty optional file, and an
  optional form model whose fields are sent empty, are 422s
  (`src/korvex/_schema.py:388,397`), where docs/validation.md:61 and `Form()`'s
  docstring say that an empty form field "counts as missing, except for a
  `str`". `AsDocumented` excepts these as `BlankRefused` and `BlankForgiven`.

Routing:

- A link to a route of a host with a parameter can name a host that another
  pattern owns, and a link to a route without a host, followed on a host that
  has the path itself, gets that host's route. `LinkReaches` excepts the two, as
  `elsewhere` and `shadowed`.
- Body limits go by path, on every host; the limit of `/upload/{id}` applies to
  `/upload/me` as well, which dispatch gives to a route without one
  (`src/src/server.rs:185-193`). `LimitApplies` is about apps without hosts, and
  about routes that have a limit.
- The limit is looked up with the path as it is on the request line, the route
  with the path unquoted: `POST /%61` gets to the route of `/a` with the default
  limit, or with that of `/{id}` (`src/src/server.rs:659`, `_serve.py:290`;
  server.rs:184 says "its route's, or the default"). `LimitApplies` excepts a
  path that some limited pattern fits only in one of the two forms.
- Two routes of one OpenAPI path and method have one place in the document: the
  later one takes it, in the order of `routes()`, those without a host last, so
  that `GET /{id}` of the root takes the place of a host's own `GET /{id:int}`,
  the one dispatch finds (`src/korvex/_openapi.py:143`). `DocsComplete` excepts
  it as `Overwrites`.
- The document of a host lists what requests there do not get: a route without
  a host for POST whose path the host has for GET only, which answers 405, and
  one that a pattern of the host's shadows (`src/korvex/_app.py:353`).
  `DocsComplete` says that nothing else is missing, and not that nothing is too
  much.

Test client:

- An error that the app logged is not raised when the block ends with another
  exception, an expected one included, nor when a WebSocket is refused before it
  is accepted: `__aenter__` raises `WebSocketDisconnect` and never looks at the
  catcher, so that a test of a refusal passes though the handler crashed
  (`src/korvex/testing.py:526-534`; lines 151-153 say that an unhandled error
  "is raised in the test, with its traceback"). `ErrorsSurface` names the
  outcomes.
- A second read of a stream whose app is dead waits out its timeout.
  `NoDeafWait` excepts a stream whose test was told.

Read in the code while modelling, and not in a property:

- A tree tries constraints that fit the same part in the order in which each
  first came to it (`src/src/tree.rs:187`), and the tree of limits is filled with
  the limited routes only: with `int` and a constraint of the app that fits
  numbers too, a route without a limit that comes first can make the two trees
  try them in different orders, and a request is then held to the `max_body` of
  a route that does not answer it (`src/src/server.rs:256`; line 184 says "its
  route's, or the default"). `Before` does not order such patterns, and the
  declarations of `AppRouting`'s run for one method have no two of them, so
  `LimitApplies` does not say otherwise.
- A HEAD request gets a 405, although a GET route has its path, if another
  pattern without GET also has the path and is tried first: the 405 lists the
  methods of that pattern only (`src/korvex/_app.py:833`; docs/routes.md:126).
- The name of a parameter stays taken after its last route was removed, or when
  the pattern that brought it was refused further on (`src/src/tree.rs:184`;
  path.rs:228 says "both registered"); the name of a route stays taken after the
  route was replaced.
- `app.constraint()` defines a constraint for the app's own router, not for its
  WebSocket router (`src/korvex/_app.py:399-402`).
- With `docs()` called twice, the first path serves the second document. Limited
  patterns of two hosts whose parameters have different names keep the server
  from starting. The limit of a replaced route stays in the list.
- `cors()` sets no `Vary: Origin` on a response to a request without an allowed
  origin, which a cache may give to one that has it. Two `rate_limit()` on one
  app share `_decision`, and so their headers. Optional security schemes are
  documented as if they were required; the 415 of form routes is not documented.
- Test client: startup that fails runs no shutdown hooks, and one that times out
  leaves the lifespan's task running; a `TimeoutError` of the app's own, after
  its response, is reported as "still runs"; close() of a WebSocket after one
  that timed out raises CancelledError; requests side by side on one loop share
  the errors that are logged; a Content-Type header given by hand survives a
  redirect to GET.
- Redis's script keeps its timestamps with `tostring()`, which has 14 digits:
  about a tenth of a millisecond for a time of day. Limits with a shorter
  interval do not hold exactly (`_rate_limit.py:99`). The model's ticks are
  exact.

## Proofs

TLAPS checks them for every value of the constants under the modules' `ASSUME`s.
Each rests on an inductive invariant `IInv`, in the component's module or the
proofs', because the properties say too little of the moments in between; every
`IInv` was an invariant of a TLC run before it was proved (in `Exchange`, but
for the conjunct that `setup` stays in `Setup`, a large set and a variable that
no action changes). `LinkInv`, `RoutingInv` and `TInv`, named below, are the
inductive invariants of the later proofs; the last two quantify over more than
TLC can enumerate, and TLC has checked what follows from them.

- `EventProofs`, the queue: any number of threads, events and socket sizes.
  `Handshake` says how flag, byte, writer and `take()` stand to each other; with it no
  queued event is without someone about to wake the loop, and never are there
  two bytes. `RefinesChannel` shows each step to be a step of `EventChannel`
  or a stutter: the safety half of `ImplementsChannel`.
- `EventProofs`, a WebSocket: any number of tasks and messages. `LinkInv` says
  that the handler has a queue while it runs (`Opened`), that whoever ends the
  connection has pushed `Closed` by then, which is still on its way or was taken
  (`EndTold`), that a handshake is refused only by an app that closed it or
  whose handler is done (`RefusalKnown`), and where a task inside `send_data()`
  is (`Sender`). `Disconnects` follows, with the exceptions that
  `DisconnectTold` names. `Mail`, what
  a batch of events leaves in the inbox, is defined by counting places instead
  of by filtering a sequence, so that `MailSound` can be proved of it: the
  inbox gets messages and the end, and the end if the batch has one.
- `StreamFlowProofs`, any marks and chunk sizes that fit the word. `Accounted`
  ties the counter to what was counted, popped and subtracted, so that it cannot
  wrap; `FlagOwned` and `WaitCovered` tie each wait to one flag or one event;
  `Levels` bounds the backlog at each point of both threads, which is what makes
  `BacklogBound` inductive.
- `SupervisorProofs`, any number of workers, crashes and signals. `Bookkeeping`
  says what the parent holds at each line; `StopCovers` says that the stop
  reaches every worker but the one whose fork is being recorded, which the line
  after it then kills. `StrengthKept` adds a count of the workers still missing.
- `RequestProofs`, a run: any plan of dependencies and any number of hooks. It is
  open, being closed, or closed: `OpenRun` says that an open one holds all that
  was started, in order; `ClosingRun` that the rest is in reverse and that a
  failure of the run is still raised, which one of the stream alone never was;
  `ClosedRun` that it is all torn down, or lost by a `slip`; `TornExact` numbers
  what was torn down.
- `RequestProofs`, routing: any hosts, declarations, paths and methods, in any
  order; of the patterns only that they are sequences. `RoutingInv` has three
  parts. `RoutingTypes`: every router's table is finite, so that the best of the
  routes that reach a path exists (`BestIsOne`, as `Before` is a strict order,
  `BeforeOrder`) and a lookup answers with a route of the table, or with none
  only if none reaches the path (`MatchSound`, `RequestSound`). `HostsInv`: the
  hosts that are tried are those declared, once each, literal ones first and
  else in the order declared; that the sort is one is `Places`, a count.
  `IndexInv`: the signature that is kept lists no more hosts than there are now
  and, with as many, no version above its router's. Every step is `Quiet` (no
  table, version or route changes), `Newer` (a version grows) or `Grown` (there
  is a host more), and the last two make the signature another: `Index`
  follows. `Owners`, `Documents` and `Links` follow from the first two parts
  without looking at steps again; `Documents` says that what dispatch finds is
  among the routes that `build()` goes through, and leaves the document only
  when another takes its place.
- `RateLimitProofs`, any number of keys and requests, any limit, either store.
  `Owed` says that a key's allowance is fully back only once every allowed
  request is paid for, with all those after it: `WindowBound` follows when
  another one is allowed, because a burst fits in `per`. `Pending` says that a
  key's timestamp stays where a refused request found it until another one is
  allowed, and is forgotten only once it is past: `RetryExact` follows.
  `Implements` maps what is left of each key's allowance to the bucket's
  contents: forgetting and expiry are stutters, as are messages.

- `ServerLifecycleProofs`, any number of connections and requests. `StopOrder`
  and `GraceKept` follow the two steps of `stop()` on both sides of the
  `Notify`: whoever took the permit finds the grace stored (`Honoured`).
  `Ownership` and `Progress` say what a connection and the task of its request
  know of each other, and `Pursued` that a request in the app is answered,
  deserted, or still somebody's: with `Drained`, that a thread which did not
  give up has no open connection, `Graceful` follows.
- `TestClientProofs`, any number of blocks of any kind, of either client.
  `Places` says where each kind of block can be. `DoneLast` and `DoneKept` say
  that `_DONE` is the last message of a task that is over and who may have
  taken it, so that a wait always has something to end it (`Answered`);
  `Listening` and `Collected`, that the catcher is on while its block is, and
  has what was logged, until the block raises it or another exception (`Raised`,
  with `Refused` for the WebSocket that never was; `Clean`); `Flagged`, that the jar's flag is its
  cookie's (`Secured`).
- `ExchangeProofs`, any number of requests, any hooks in any order, any options
  and any route. `Carried` and `Agreed` say what the before hooks that ran left
  in a request's own context; `Sound`, of a response between any two hooks, that
  its headers agree with each other and with its body; `MarkedBy`, which after
  hooks have worked on it since it was made or replaced. Every answer is shown
  to be sound when it is made, once for each kind (`RoutedNew`, `PreflightNew`,
  `TypeNew`), and every after hook to keep what the others did (`VariedDoes`,
  `EncodedDoes`, `CorsDoes`, `MarkDoes`, `SecureDoes`); at the end the places
  reached are those that `Worked` and `Reached` name. `Own`, `Every` and
  `Honest` follow. The outcome of `bind()` is any number there: these
  properties do not depend on it. `Twins` compares two requests, which may be at
  different hooks: a second invariant, `TInv`, gives each response its course, a
  function from the hooks that ran to the response after each. Two courses that
  begin alike stay alike, hook by hook, up to what `TwinAnswers` lets differ
  (`CoursesLike`, `CoursesNear`), by the least hook at which they would not.

Only model-checked, and why:

- liveness (`StopEnds`, `WaiterResumes`, `SenderResumes`, `HandlerDoneCloses`,
  `SilentClientClosed`, the liveness of `EventChannel`), which is out of the
  prover's reach, as is anything about ENABLED; `LoopThreads` has nothing else;
- `FindsBest` and `CacheFresh`: the tree is defined by recursive operators, as it
  is in the code;
- `LimitApplies`, which does not hold for all constants of the model: two
  constraints that fit the same part are alike to `Before`, where the tree tries
  the one registered first, and the two trees of the code need not agree on
  which that is (above);
- `AsDocumented`, whose plans are folds over dependencies: what a fold computes
  for any plan needs an induction over data.

## Assumptions of the models

- A signal to a process group reaches its processes at once; Python runs
  handlers between bytecodes of the main thread. A fresh fork child may, in
  CPython, lose a signal that was pending in its parent: not modelled. Pids are
  not reused while their worker is in `children`.
- hyper drops the service's future and the body of a client that is gone, calls
  the service for one request of a connection at a time, and lets the current
  request finish in `graceful_shutdown()`. tokio's `Notify` keeps one permit.
- A task is cancelled only where it awaits.
- The calls of a `Router` come one at a time: Python holds its lock (the GIL, or
  PyO3's borrow of the class) through each of them.
- A store's clock does not go back, and its numbers hold the times exactly;
  Redis drops a key no sooner than its PX.
- Each request, and each of the app's tasks, has a context of its own (asyncio
  copies it when a task is created), and an app is declared by one thread.

## Not modelled, and the plan

- `src/proxy.rs`: the choice of the client's address among forwarded hops is a
  function of one request's headers, most of it the syntax of addresses.
- The command line: options.
- Of what is modelled: the bytes of HTTP, of encodings, of cookies and URLs; the
  text of documents and errors; lists, aliases, and the models of the libraries
  that validate; the hooks of a WebSocket's handshake in `Exchange` (they are in
  `RequestRun`); the Redis client that a RedisStore keeps per event loop.
- Examples and benchmarks, which use the framework.

The order of the plan, most important behaviour first:

1. done: `EventQueue`, `StreamFlow`, `WebSocketLink`, `Supervisor`,
   `LoopThreads`, `RequestRun`, `ServerLifecycle`, `Router`, `RateLimit`,
   `AppRouting`, `TestClient`, `Exchange` with `Binding`;
2. done: the proofs under "Proofs", which cover every safety property of the runs
   but the four named at the end of that section;
3. left: an order of constraints in `Patterns`, for a proof of `LimitApplies` in
   apps whose constraints do not overlap;
4. `ForwardedFor`: the choice of the client's address, with hops as values.

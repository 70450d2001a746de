# goXpress verification

TLA+ models of the goXpress HTTP framework, the TLC runs that check them on
small instances, and TLAPS proofs of the properties that matter most for every
instance. `PROJECT.json` lists components, runs, mutants, findings, hazards and
theorems, and maps every definition to the lines it translates.

## The system

goXpress is a router and middleware library on top of net/http. Its parts, the
state they keep and how they interact:

| Part | Source | State | Operations | What makes it correct | Modelled in |
|---|---|---|---|---|---|
| Radix tree | `tree.go`, `params.go` | nodes: path, indices, children, priority, wildcard flag, handlers | `addRoute`, `getValue` | a lookup finds the one registered route that matches, whatever the order of registration; bad patterns panic | RadixTree |
| Context and chain engine | `context.go` | request, parameters, handler chain, one index, query cache, value store | `reset`, `Next`, `Abort`, response helpers | handlers run once, in order; Abort and errors stop the chain; nothing survives recycling | HandlerChain |
| Response writer | `response.go` | status, size, suppressBody, the connection | `WriteHeader`, `Write`, `reset` | its account of the response is what the client got | HandlerChain, Layers |
| Router, serving | `router.go` | a `sync.Pool` of Contexts, `Recovery` and other options | `ServeHTTP`, `dispatch`, `runChain`, `recover` | a Context is in one place; every failure is answered; every request ends; HEAD, OPTIONS, 404, 405 and redirects agree with the routes | HandlerChain, Router |
| Router, registration | `router.go`, `group.go` | one tree per method, slices of middleware, mounts | `Handle`, `Use`, `Group`, `Mount` | a route gets the middleware and the path declared for it; a mount answers as what is mounted | Groups, Router |
| Error pipeline | `errors.go` | - | `DefaultErrorHandler` | the first status wins; else the error's own; else 500 | HandlerChain, Layers |
| Recoverer | `middleware/recoverer.go` | - | deferred recover, Abort, 500 | a panic neither escapes nor continues the chain | HandlerChain, Layers |
| RateLimit | `middleware/ratelimit.go` | a bucket per key, `lastSweep`, a mutex | `allow`, `sweep` | burst plus rate is never exceeded; eviction does not show | RateLimit, RateContract |
| Compress, FromStd | `middleware/compress.go`, `adapter.go` | writers on top of the Context's writer | wrap, write, close, restore | the client can decode what it gets; the writer is restored | Layers |
| Logger, CORS, BasicAuth, BodyLimit, Decompress | `middleware/*.go` | - | log; answer, refuse or pass on | what is logged is what was sent; a refusal reaches the client | Layers |
| Server lifecycle | `server.go` | two goroutines, a channel, a signal context | serve, shut down | no lost error; a shutdown that is graceful and ends | Server |
| WebSocket | `ws/ws.go` | connection, buffered reader, write mutex | `Upgrade`, `ReadMessage`, `WriteMessage`, `Close` | messages arrive whole and in order; frames of several goroutines do not mix; no writer is stuck | WebSocket |
| OpenAPI document | `openapi.go`, `schema.go` | route metadata, `components` | `Route` methods, `buildOpenAPI`, `schemaFor`, `queryParams` | the document describes the routes and types there are | Api |
| Binding | `bind.go`, `bind_generics.go` | - | `Bind`, `BindQuery`, `BindForm`, `BindJSON` | fields get what was sent, or there is an error | Api |
| Rendering, static files, banner, the other middleware | `render.go`, `static.go`, `banner.go`, `middleware/*.go` | none that lasts | - | - | not modelled, see below |

net/http runs every request in a goroutine of its own. Goroutines meet in four
places only: the pool of Contexts, the rate limiter, `ListenAndServe` with the
goroutine it starts and, when a handler starts goroutines of its own, a
WebSocket connection. The rest of the difficulty is sequential: `Next` is
reentrant and shares one index among all its frames, handlers are user code
that may call the API in any order, panics unwind through several layers each
of which has put a writer on top of another, `append` shares arrays, and the
shape of the tree depends on the order of registration. The hazards are
listed, each at its line, in `PROJECT.json`.

## The modules

An `MC` module holds the constants of a run that a `.cfg` cannot express.
A definition whose comment begins with "Mutant of" is a bug on purpose; no
specification uses it (see *Mutants*).

### HandlerChain (MCHandlerChain)

One request is one process. Its state is where `ServeHTTP` is (`pc`), the
Context it holds (`ctx`), the stack of handlers that have been called and have
not returned (`stack`), the error `runChain` got (`err`) and what net/http has
sent to the client (`wire`). Contexts live at addresses (`ctxs`) and are shared
through `pool`. A Context keeps the fields of the Go struct and of the writer
embedded in it; request data is represented by the identity of the request it
came from, so that leftovers of another request are visible.

| Code | Definition |
|---|---|
| `Context.reset`, `responseWriter.reset` | `Reset`, `ResetWriter` |
| `Next`: the call, the loop, its two ways to return | `Next_`, `Loop`, `ReturnNil`, `ReturnError`, `NextReturns` |
| `Abort`, `AbortWithStatus` | actions of the same name |
| `Status`, `NoContent`; `JSON`, `XML`, `String`, `Blob`, `HTML`; `Redirect`; `Writer.Write`; `SSEvent`; `Flush`; `Set`; `Query*` | `Status`; `Respond`; `Redirect`; `WriteBody`; `SSEvent`; `Flush`; `Set`; `Query` |
| `pool.Get`, `pool.Put`, the collector | `PoolGet`, `PoolPut`, `EvictPool` |
| `dispatch`: redirect; matched, HEAD, 404, 405 and OPTIONS chains | `ServeRedirect`, `ServeChain` with `RunChain` |
| a panic that meets a Recoverer, `Router.recover`, or nobody | `PanicRecoverer`, `PanicRouter`, `PanicEscapes` |
| `DefaultErrorHandler` | action of the same name |

A handler of kind `"plain"` is user code and may take any of these actions at
any time; a `"recoverer"` may only do what the middleware does. Which chain
`dispatch` picks is left open here (any chain, with or without parameters and
HEAD); Router is about that. A write of the body may be accepted by the
connection or not (`Accepted`). Variables listed as history are written and
never read by the code.

A `Context` that a panic carries out of `ServeHTTP` is garbage; its address may
be used for a new one. That is what `pool.Put` not being deferred means.

### RateLimit and RateContract

A request reads the clock (`Arrive`), waits for the mutex, and decides
(`Allow`: sweep, refill, take a token, compute Retry-After). Between the two,
time and other requests go on, so decisions use clock readings out of order and
`now.Sub(last)` may be negative. Tokens are counted in ticks of refill, so that
they stay integers: `Cost` ticks are one token and `Capacity` is `burst * Cost`.
Rounding of `float64` is the one thing this leaves out. `MaxDelay` bounds the
wait at the mutex; the properties state how it enters.

`RateContract` is what the middleware promises: a bucket per key that lives for
ever, written as one number, the time at which it is full again. RateLimit
implements it under the mapping `debt[k] <- Debt(k)`.

### RadixTree (MCRadixTree)

`addRoute`, `insertChild`, `incrementChildPriority` and `getValue` as operators
on trees, on the level of bytes, as wildcards, slashes and splits are about
bytes: an ASCII byte is a one-letter string, a byte from 0x80 on its hexadecimal
name. The five places that compute `tsr` are named one by one. `AddRoute(p)`
registers a pattern; a panic leaves what the code leaves. `String` is Go's
conversion of a byte to a string, by which `addRoute` makes indices: the byte is
taken for a code point, so from 0x80 on it becomes two bytes, and the node has an
index more than it has children. What follows from that is in the model: a
position without a child is a panic in `addRoute` (`OutOfRange`) and in `getValue`
(`Crashes`), and `addRoute` may split the same child for ever (`Hangs`, which
counts as a panic, since the program does not start either way). `LookupCorrect`,
`PanicsOnlyOnError` and `TreeShape` are stated for routes that part at bytes of
ASCII (`AsciiBranches`; letters that are not ASCII may be anywhere else) and
do not clash; `NoRedirectLoop` only needs the latter. See *Known
divergences*. The reference definition is segment-wise:
`Captures(p, path)` says what a pattern captures from a path, `Malformed` and
`Conflict` what must not be registered. What patterns and paths have to do with
each other without a tree (`longestCommonPrefix`, `Conflict`, `Toggle`) is in
**RoutePaths**, which Router uses as well.

### Router (MCRouter)

Two routers with a tree per method, the second one mounted under
prefixes of the first. The tree is a parameter: `TreeAdd`, `TreeValue` and
`EmptyTree`, for which MCRouter takes `addRoute`, `getValue` and `EmptyNode` of
RadixTree. `TreeAssumption` says what the router relies on: with patterns that do
not conflict, a lookup finds the one pattern that matches, what it captures
fits into one of the patterns, and a redirect is not answered by one back. That
is what RadixTree's `LookupCorrect` and `NoRedirectLoop` check of the tree itself,
for patterns that part at bytes of ASCII, as those of this instance do;
here TLC evaluates it for all 98 trees that the instance can build (`Built`).
Lookups that panic, after conflicts or where patterns part at other bytes, are
left to RadixTree. `Handle` and `Mount` are the actions; setup is sequential and
serving writes nothing that lasts, so the properties quantify over every
request in every state that setup can reach, under every setting of
`HandleHEAD`, `HandleOPTIONS` and `RedirectTrailingSlash`. `dispatch` follows
the code: the method's own tree, its redirect, automatic HEAD, and then what
`allowHeader` finds in the other trees; `Serve` is `dispatch` with the delegate
of `Mount` behind it. A route's handlers are represented by its pattern.
`Mount` takes prefixes without wildcards here (`MountAssumption`), since it strips
the prefix as text (see *Known divergences*), and of more than a slash: it refuses
`/` but not `//`.

### Groups (MCGroups)

Middleware is kept in Go slices, and what `append` does to an array that others
look at is the question here. `heap` holds the arrays; a slice is an array and
a length; `append` writes into the array while there is room and moves to a new
array, with any spare room up to `MaxSpare`, when there is none. The program
calls `Use`, `Group` and `Handle` on the router and on groups and has a slice of
its own (`own`) that it may hand over to a group, append to and change. It is a
program that hands over slices without spare room, such as literals, and does
not change an element that it has handed over; see *Known divergences* for what
happens to one that does. Paths are joined byte by byte (`joinPaths`).

### Layers (MCLayers)

One request on its way down a chain of middleware and up again: Logger,
Recoverer, Compress, CORS, a `guard` that may refuse (BasicAuth, BodyLimit,
Decompress), `FromStd` around middleware that passes its writer on (`std`) or a
wrapper of it (`wrapper`), and a second router behind `Mount`, with a Context of
its own. Each of them calls Next at most once, so a position (`at`) and a
direction (`dir`) stand for the stack. Writers point to the writer below them
(`out.under`) and the lowest one is the connection. `Way(o, w)` is the list of
writers that a call of `w` comes to: `Status` takes the first of them that keeps
a status, `WriteHeader` informs those before the first that has recorded one, and
`Write` lets each of them do its part and pass on the rest (`WriteAt`, `Pass`),
as the calls from writer to writer do in the code. `MaxLayers` bounds the length
of chains and so of ways; a way that is longer goes in circles.
`Content-Encoding` is the one header that is modelled, and of the codes the 204
is special because it has no body. A `gzip.Writer` sends its header with the first byte it
gets and the rest when it is closed.

### Server

`ListenAndServe` in one goroutine (`main`), `http.Server.Serve` in another
(`loop`), the channel with room for one value between them (`errc`), the
context that a signal ends (`ctx`), the listener, and the requests. `Shutdown`
is modelled from what it does for this caller: new calls of Serve are refused,
the listener of a running one is closed, and it waits until no request is being
served or its time is over. A request may be hijacked, which takes it out of
Shutdown's sight.

### WebSocket (MCWebSocket)

One connection. The processes are the goroutine of the handler, which alone
reads and also writes, further goroutines that write, the client and the
network. `inbox` holds the frames under way to the server, `out` one element per
`conn.Write`, `job` the `writeFrame` call each goroutine is in.

| Code | Definition |
|---|---|
| `Upgrade`: its checks, Hijack, the answer, `c.Abort` | `Upgrade` |
| `ReadMessage`: the call; a frame in either of its loops; a failing read | `ReadMessage`; `ReadFrame` with `Extends`, `Answer`, `Fails`; `ReadFails` |
| `readFrame`: header, limit, unmasking | `readHeader`, `ReadFrame`, `Unmask` |
| `writeFrame`: header bytes; Lock and the first write; the second write and Unlock | `frameHeader`; `WriteHeader`; `WritePayload` |
| `WriteMessage`, `WriteText`; `Close` | `WriteMessage`; `Close` and `CloseConn` |
| encoding/binary, RFC 6455 clients, `net.Conn` (external) | `bigEndian`, `Uint`; `RfcHeader`, `SendData`, `SendControl`; `Break`, `Down`, `Outcomes` |

Headers are sequences of bytes, built and taken apart as in the code. A payload
is its length and one bit, and masking is the exclusive or with 1: enough to
tell a payload from another and from a masked one. The handler stops reading at
the first error, as the example in the package comment does. The connection may
break at any time and then loses a suffix of what is under way; a write to it
then fails or is lost.

### Api (MCApi)

Two walks over Go types by reflection that must agree: the one that documents
them and the one that binds requests to them. A type is a member of `Types`,
described by `Decl` (kind, name, element, fields with their tags). A behaviour
is either a program in setup, which registers and documents routes and calls
`OpenAPI`, or one that is serving, which binds one request. `schemaFor`
threads `components` through the recursion and reserves a name before it walks
the fields, as the code does; the order in which a map of responses is walked is
an input. The reference (`Shape`, `Denotes`) says what a type looks like and
what a text means, without components and without tags that do not apply.

## The runs

| Run | Instance | Distinct states | Shows |
|---|---|---|---|
| `pool` | two requests, two Contexts, chains of one handler | 2,391,610 | exclusive Contexts, isolation, the writer's account |
| `flow` | one request, chains of three handlers with Recoverer in each place or nowhere, two calls of Next each | 652,941 | order, Abort, errors, answers to failures, termination |
| `bucket` | two goroutines, one key, 9 ticks | 1,131,444 | rate bound, honest Retry-After, refinement of the contract |
| `routes` | 27 patterns, wildcards below the root, malformed and clashing ones and texts that are not ASCII among them, all sequences of up to 4 registrations, all short paths | 190,027 | lookup, registration errors, shape of the tree, no redirect loop |
| `ws_frames` | the handler and one more goroutine, three masked client frames, one longer than `maxPayload`, a length for each header form | 517,376 | messages are returned whole and in order, frames do not mix and pongs echo pings, reads fail for a cause (control frames between fragments apart), every write and Close ends |
| `groups` | two groups, nested or not, one route, four arrays, slices of up to two handlers before `append` | 3,922,640 | middleware, chains and paths are as declared |
| `router` | two routes out of seven patterns and five methods, one of them not standard, two routers, three options | 26,664 | Allow, automatic HEAD, mounts, redirects, room for parameters |
| `layers` | all chains of three middlewares, of two around or behind a mount, and the one the repository's README recommends; three writes, two codes | 653,868 | bodies decode, failures reach the client, writers are restored and lead to the connection, the log is true |
| `server` | two requests, timeouts 0 (default), 1 and 3 | 2,715 | errors are reported, shutdown is graceful and ends, the goroutine ends |
| `api` | two routes, two calls that document them with recursive, nested, anonymous and equally named types; requests with up to two names, in the query and the body, bound to a struct with fields of every kind, a recursive struct and a map | 88,748 | the document is right, documented parameters can be bound, binding is exact |

The bounds are chosen by what must be able to happen: two requests and two
Contexts are enough for one request to get the other's Context, fresh or
recycled; three handlers and two calls of Next give a caller, a callee and
something left to start after each returns, at two depths; 9 ticks with
`sweepInterval` 6 and a bucket of 4 let a bucket empty, refill, be evicted and
be created again with a late clock reading in between (one key: that a request
evicts the buckets of other keys too is covered by the proof); four registrations
cover a split of a split, a reordering by priority and a wildcard at each of
them. Three client frames give a first, a middle and a last fragment, or a
control frame between two others; two goroutines with the pong and the close
echo of the reader are four kinds of frame that compete for the mutex. Two
groups are two owners of arrays next to the router and the program, and room
for one element is what makes one `append` move and the next one write. Two
routes are a GET and another method, or a HEAD route and a GET route, or a route
on each side of a mount, which adds 14 more. Three layers put one writer above
and one below any other. Two requests let one be served and one be under way
when the drain ends. Two routes with two types each let one type be registered
by the other before its own turn.

Two runs are expected to fail and show where the code and its documents
disagree:

| Run | What is said | What happens |
|---|---|---|
| `lost_error` | the README says that a returned HTTPError is rendered with its status and message | behind Compress the closing of the gzip stream sends 200 before the error handler runs, and the client gets an empty 200 |
| `std_wrapper` | the comment at `adapter.go:26` says that a ResponseWriter the middleware substitutes, a gzip writer for example, is propagated to the downstream handlers | the Context's writer is put on top of a wrapper that lies on top of that writer, and the first write never ends |

Deadlock checking is off everywhere, because every system here may stop: the
requests have been served, the clock reached its bound, setup is over, the
connection is closed, the server has returned.

**Fairness.** `RequestTerminates`, `WritesFinish`, `SignalEndsServer` and
`GoroutineEnds` need it. For the first, weak fairness of returning says that
handlers return in the end, which is an assumption about user code, and that
Recoverer, which does nothing but call Next, calls it; weak fairness of the error
handler and of `PoolPut` says that a goroutine with nothing to wait for runs. For
the second, weak fairness of `WritePayload` and `CloseConn` says that a
`conn.Write` ends, because the client reads or the connection breaks; strong
fairness of `WriteHeader` is the promise of Go's `sync.Mutex` (starvation mode)
that a waiter gets a mutex that is free again and again. For the other two, weak
fairness of `Main`, `Loop` and `Tick` says that the two goroutines run when they
can and that time passes; nothing is assumed of handlers, so a shutdown ends by
its timeout if need be. No fairness is assumed of anything that a handler, a
client or a signal may or may not do.

**Mutants.** For every property of a passing run a definition is changed the way
a plausible bug would (a field that `reset` forgets, a loop with a local index,
a Context left in the pool, a sweep that ignores the last use, an `append` to
the parent's slice, a channel without a buffer, ...) and TLC must then find the
property violated.

## The proofs

Everything below is proved for all values of the constants, from the
assumptions named in the modules: chains are non-empty and no longer than
`abortIndex`, status codes are positive, `Cost` and `sweepInterval` are
positive, timeouts are numbers within `MaxTime`, the read limit leaves room for
any control frame (`maxPayload >= 125`), a frame's length fits in 63 bits (a Go
int; RFC 6455 asks for the same), handlers and the cells of an array that hold
none are told apart, and `None` is none of the values it stands next to. A chain
of Layers ends with its only handler, has one mount at most and no more than
`MaxLayers` layers, whatever that number is; what Router assumes of the tree
and of mounts is above. TLC evaluates every assumption in a run of the module.

**HandlerChainProofs** proves eight theorems from one inductive invariant,
`IInv`: the types, `ContextExclusive`, and for each request `Good(r)`. A request
holds a Context exactly while it is running, failed or finished; that Context
is its own and agrees with the wire (`Mine`); a request that was not served yet
has left no trace (`Fresh`); the handlers a running chain has started lie at or
before its index and inside the chain, and after Abort the index is at least
`abortIndex` (`InChain`); a failure remembers the status sent before it.
None of the properties is inductive alone: order needs `InChain`, Abort needs
that chains are not longer than `abortIndex`, the answer to a failure needs that
a status the writer has recorded has reached the wire, and all of them need
exclusiveness, without which a step of one request could change the Context of
another. The proof is local: `StepKeepsOthers` shows that a step which leaves
the other requests' Contexts alone keeps the invariant if it keeps `Good` of its
own request, and one lemma per operation shows that. Writes are handled once,
by `Wrote`, a relation closed under composition. The eighth theorem,
`ErrorsStopTheChain`, adds `ErrorsPending`: an error that nobody has dropped is
what the running handler got from `Next`, unless a Recoverer has aborted the
chain, so `Next` finds either an error or an index behind the chain.

**RateLimitProofs** proves the types, that RateLimit implements RateContract,
and from the same lemmas the rate bound. Both need `SweepIsLate`: a bucket fills
up within `sweepInterval`, with room for two delayed clock readings. Without it
the bound fails: with `RateLimit(0.001)` a bucket takes longer than the sweep
interval to fill, and eviction refills it early. The key lemma, `AllowOnDebts`,
says that a decision depends on a bucket only through the time at which it is
full and that sweeping does not change that time as far as any clock reading
still possible can tell. `RetryAfterIsHonest` needs no `SweepIsLate`, since an
early eviction favours the client; its invariant, `PromisesKept`, says that no
key was told to come back before its bucket has gained a token, and rests on
`RetryAfter` rounding up.

**ServerProofs** proves `GracefulShutdown`, `ErrorsReported` and the types for
any number of requests and any timeouts. A drain is given up on only after the
time that is configured, and after the default only where none is
(`DrainIsPatient`, from `TimeoutBound`). `GracefulShutdown` is not inductive:
that nil cannot come from the channel needs to know that what lies in it is what
Serve returned (`ChannelInv`), that Serve is told "closed" by nobody but Shutdown
(`LoopInv`), and that Shutdown is called after a signal only and by a `main` that
has left the select (`MainInv`). That no request is accepted after the return
needs that Serve, when it begins late, finds the server shut down.

**GroupsProofs** proves that the router, the groups and the routes keep what
they were given, for any handlers, nesting of groups and growth of arrays.
`AppendSlice` says what `append` does, once: it writes behind a slice with room
or moves to a new array. The invariant adds who may do that to which array
(`Separate`: an array that the program has not lent has one user that may
append, and the chain of a route is in an array that nobody appends to) and that
a slice of an array that was lent has no room (`Full`). `Full` is where the
kind of program that is modelled enters: see *Known divergences*. The paths are
another matter: `PathsAsDeclared` compares `joinPaths`, called once per group,
with the segments joined at once, for paths without empty segments
(`Single`), which `joinPaths` leaves as they are. It is carried by a relation
between the path of a group and its segments that one call keeps.

**WebSocketProofs** proves the three safety properties of a connection and that
headers round-trip. The invariant has four parts besides the properties. `Calls`
says which call each goroutine may be in, and that the handler's goroutine is in
the call that its state waits for. `Output` says that what was written is whole
frames, except that the holder of the mutex owes a payload. `Synchronous` is the
heart: there is a trace of the stages the client went through, one before each
frame under way and one after the last, such that the frames are those that lead
from stage to stage, the first stage is what the server has read up to, and the
last is where the client is. Reading drops the first stage, sending adds one,
and neither looks at the rest; that the messages come out in order and the pongs
answer the pings is read off the first stage. A broken connection loses a suffix
of the trace, after which nothing more is claimed of what was lost.

**LayersProofs** proves all five properties of Layers for chains of any length,
any number of writes and any codes, under one hypothesis, `NoWrapper`: no
net/http middleware wraps the writer it was given. With such middleware
`WritersReachWire` is false, as the run `std_wrapper` shows, and the first write
never ends. The invariant has four parts, each resting on those before it.

- `Structure`: the layers that have called Next are those above the one in
  control (`Control`); each has put the writer it should on top of the one it
  found (`Linked`); and what the Contexts hold is a writer of a layer of theirs
  that was called, the one that was there before once control has come back
  (`Held`), unless a panic passed Compress or Mount. From it a way is known to
  go through gzip writers, a Context's writer, more of them, perhaps the other
  Context's writer, and the connection (`Leads`), and to
  be no longer than there are layers above and two Contexts. `ContextRestored`
  and `WritersReachWire` follow.
- `Heads`: the Contexts in use have recorded the status that was sent (`Agreed`),
  nothing is sent by layers that call Next (`Quiet`) and so nothing was written
  before (`Blank`), `Content-Encoding` is set as soon as a layer compresses
  (`Marked`), and a logged status is the one that was sent (`Logs`). It gives
  `LogTruthful`. `Sent` says once what WriteHeader, Write, Close and the error
  handler have in common, and is closed under composition.
- `Failing`: where a failure is on its way up, its code is still known, nothing
  below it has control any more, and nothing was sent if nothing had been when
  it began and no Compress lies between.
- `Carried`, for chains in which one layer at most compresses (`Single`, a
  premise of the two properties): the buffer of the gzip writer, or the body if
  there is none, holds what was written so far, in order, and once the stream is
  closed the body decodes to it. It gives `BodyDecodes` and
  `FailureReachesClient`.

`Way` and `Write` are recursive functions of the number of writers; that they
satisfy their equations is proved with Induction, and what a whole chain of
writers does follows by induction over the way.

**RouterProofs** proves all five properties of Router for any methods,
patterns, mounts, paths and options. `AllowIsExact` needs nothing about
the trees: by the cases of `dispatch`, the methods that `allowHeader` lists are
those `dispatch` serves, whatever the lookups return. The other four rest on
`TreeAssumption` and an invariant, `Registration`: every tree is one that
`addRoute` builds from what was registered for its method (`Represented`), no
pattern has more wildcards than `maxParams` (`Counted`), and every prefix that is
mounted has both its patterns in the tree of every method of `allMethods`
(`Mounted`). `Finds` then says that a lookup is right, `DelegateServes` that a
path below a mount is served by the delegate for every method, and
`DelegatesBelow` that no other path is. `MountIsTransparent` follows, and
`HeadFollowsGet` from the fact that HEAD and GET reach the same router with the
same path, where one router's answers are compared by cases (`HeadOfOne`).
`ParamsFit` is `Counted` with the bound on captures. `RedirectsEnd` is an
induction over hops: a redirect of the mounted router leads to a shorter path,
since it loses the prefix, and one of the main router leads to a path that
either is shorter, too, or gets an answer (`MainRedirects`). The last needs that
a path whose other spelling is below a mount, but which is not itself, differs
from the prefix by the slash only (`ToggleBelow`), so that the mounted router is
asked for its root, which is never redirected.

**Induction** has induction over the natural numbers with a set in the place of
the predicate, obtained from the well-foundedness of `<`. With it recursive
functions can be reasoned about: a solution of the recursive equation is shown to
exist by induction on its domain, so the function chosen satisfies it, and what
it computes is again shown by induction (`Shift`, `Uint` and `bigEndian` of
WebSocket, `Joined` of Groups, `Way` and `Write` of Layers, the hops of Router).

Model-checked only:

- the liveness properties (`RequestTerminates`, `SignalEndsServer`,
  `GoroutineEnds`, `WritesFinish`), which rest on fairness and ENABLED;
- RadixTree (`LookupCorrect`, `PanicsOnlyOnError`, `TreeShape`, `NoRedirectLoop`)
  and Api (`DocumentFaithful`, `QueryAgrees`, `BindExact`): their operators are
  RECURSIVE, over trees and over types that refer to each other, and the prover's
  SMT backend is not available where such an operator is in reach. What the
  proofs about Router take of RadixTree is the assumption that TLC evaluates.

## Known divergences without a run of their own

Met while modelling; properties exclude them by name or by a premise.

- A middleware that consumes an error and returns nil makes the outer loop go on
  behind the handler that failed, against "Execution stops at the first handler
  that returns a non-nil error" (`context.go:95`; `ErrorStopsUnlessSwallowed`).
- Flush before the first write sends a 200 that `Written` does not know of
  (`response.go:27`; `WriterMatchesWire`).
- A bucket that takes longer than ten minutes to fill is evicted before that
  (`ratelimit.go:81`; `SweepIsLate`).
- A static route and a parameter in one place may both be accepted, and one of
  them is lost, against "panics on ... conflicts" (`tree.go:35`; `NoConflicts`).
- `string(c)` of a byte from 0x80 on is two bytes (`tree.go:68`, `tree.go:100`),
  against "indices[i] is the first byte of children[i].path" (`tree.go:19`). With
  `/€` and then `/` registered, a lookup of `/€` is a 404 and one of a slash and
  the byte 0xA2 panics; `/a` and then `/é` panics in `incrementChildPriority`
  (`tree.go:338`); `/€` and then `/é` never comes back from `addRoute`. Routes that
  part at bytes of ASCII are not affected (`AsciiBranches`).
- `/a/` is a 404, not a redirect, with `/a`, `/a/a` and `/a/b` registered
  (`tree.go:228`); with other routes a redirect leads to a 404 (`/a/b` with
  `/ab`). Redirects do end (`RedirectsEnd`).
- A redirect of a mounted router lacks the prefix of the mount. Mount does not
  delegate methods outside `allMethods`, nor does it strip a prefix with a
  parameter.
- A control frame between two fragments, which RFC 6455 allows, makes ReadMessage
  fail with "expected continuation frame" and lose the message, against "It
  transparently answers ping frames with pongs and discards pongs. When the peer
  sends a close frame it echoes the close and returns ErrClosed" (`ws.go:134`): a
  ping is not answered, a pong not discarded, and a close neither echoed nor told
  by ErrClosed. `FailuresHaveCauses` leaves it out by name (`Interrupted`);
  messages are lost, but never mixed (`MessagesInOrder`).
- Groups made from one slice with spare room overwrite each other's middleware
  with `Use`, because `Router.Group` keeps the caller's slice (`group.go:31`).
- A group with middleware accepts a route without handlers, which the router
  refuses.
- Logger logs 200 for an error returned through it, which is rendered later
  (`LogTruthful`). Two Compress on one path compress twice under one
  `Content-Encoding` (`BodyDecodes`). Compress and CORS overwrite each other's
  `Vary`. Timeout leaves its cancelled context in the request.
- A panic that passes Compress or Mount leaves the gzip writer or the stripped
  path to the middleware further out (`ContextRestored`).
- The comment on `serve` says that it drains when the server stops on its own
  too; it returns at once (`server.go:42`).
- A multipart form binds nothing and gives no error (`bind.go:24`, `ParseForm`).
  Query fields of type `time.Time` are documented and cannot be bound.
- Struct types of the same name share one schema (`schema.go:59`; `UniqueNames`),
  and which one it is may depend on the order of a map. A type that is its own
  element type would recurse for ever. A wildcard in the middle of a segment is
  routed and not documented.

## Not modelled

- Rendering and static files (`render.go`, `static.go`): one call each of
  html/template and of net/http's file server, which keep the state.
- SecureHeaders, RequestID, RealIP, Timeout: they set headers, a value or a
  deadline and call Next; to the chain they are plain handlers. Of Decompress
  the replaced body is left out, of FromStd the substituted request, and Flush
  under Compress.
- `Router.Listen` is one call of net/http; the banner is console output.
- `acceptKey`, base64 and hashing; the texts in the OpenAPI document; what
  encoding/json does with a body; rounding of `float64` in RateLimit.
- The examples and benchmarks are programs that use the library.

## What could come next

1. The tree itself: `getValue` is a loop and could be a recursive function of the
   number of steps, `addRoute` a descent and a rebuild along its trail. To prove
   `LookupCorrect`, and so discharge `TreeAssumption`, needs a theory of prefixes
   of paths with three kinds of segments.
2. The walks over types in Api as functions on a set of types, which is finite,
   instead of mutually recursive operators.

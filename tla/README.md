# Formal models of gpchi

gpchi is a Chi-compatible HTTP router written in Go+; `router.gp` and
`middleware/*.gp` are the authored files and `*_gp.go` their generated Go twins.
Line numbers here and in `PROJECT.json` refer to the Go twins, which are what
is compiled. This directory holds TLA+ models of the router, of the
middleware that shares state or depends on order, the TLC configurations that
check them, and the TLAPS proofs about them.

## 1. The system

| Component | State | Operations | Talks to |
|---|---|---|---|
| Route patterns (`parsePattern`, `shape`, `compatibilityShape`, `matchRoute`) | none | accept a pattern, compute its shapes and specificity, match a path | compilation, dispatch |
| Compilation (`compile`, `Compile`, `compatibilitySnapshot`) | none; reads the mux under its mutex | build an immutable `Snapshot`, report conflicts | mux, snapshot cache |
| `Snapshot` | exact table, sorted dynamic table, fallbacks, middleware chain | `ServeHTTP`, `Match`, `Find`, `Resolve`, `Routes`, `Metadata` | route context, handlers |
| `Mux` registration | `routes`, `middlewares`, fallbacks, `mounts`, `sealed`; children keep `prefix`, `local`, `sealed` | `Method`, `Handle`, verbs, `Use`, `With`, `Group`, `Route`, `Mount`, `NotFound`, `MethodNotAllowed` | children write the root's table under the root's mutex |
| Snapshot cache (`compiled`) | one atomic pointer | `snapshot` (load, fill, store), `invalidate` (store nil), `Compile` (store) | every request and every registration |
| Mounted routers | the wrapper made by `Mount` | shift `RoutePath`, inherit fallbacks | parent's snapshot, child's `ServeHTTP` |
| Route context and pool | parameters, route patterns, inherited fallbacks | acquire, `Reset`, release | handlers |
| Traversal (`Walk`, `Chain`) | none | enumerate routes with their middlewares | `Routes` |
| `ThrottleWithOpts` | two buffered channels of tokens | admit, refuse, wait, time out, release | request contexts, handlers |
| Response pipeline (`WrapResponseWriter`, `Recoverer`, `Timeout`, `Logger`) | status, bytes, wroteHeader per response | write, flush, recover, log | each other, the server |
| `Compress` | encoder pools; per response `wroteHeader`, `compressible` | decide, encode, flush, close | server's writer |
| `HeaderRouter`, path, transform, client IP, request id, diagnostics | rule maps, a process-wide counter | per-request decisions | next handler |
| `internal/cmd/apimanifest` | none | compare API declarations | files |

What is hard here:

* **Concurrency.** A mux is served while it is registered to. The snapshot
  cache is filled lazily: the load, the compilation and the store are separate
  steps, and the last store is outside the mutex. `Mount` takes the root's
  mutex three times. The throttle's channels are shared by all requests.
* **Ordering.** Precedence of routes is the result of two maps, a stable sort
  and the order of three lookups; with conflicts the table is first rewritten by
  replacement. Fallbacks come from four places.
* **Agreement.** The lookup is written three times (`serveHTTP`,
  `allowedMethods`, `Resolve`), the snapshot is built in two ways, replacement
  has its own shape function: each pair has to agree.
* **Failure.** A failed match must roll its parameters back; a handler that
  panics, a timer or a cancellation must give back the throttle's tokens; a
  deadline, a panic or an abort may come before, between or after the handler's
  own writes, and the deferred functions of three middlewares each answer some
  of them.
* **Protocols.** `Use` after a route, path middlewares in any order, and
  `WriteHeader`, `Write` and `Flush` in any order are all legal sequences of
  calls, most of which no test tries.

What makes each modelled component correct:

* *dispatch*: the registration table alone determines the handler, the
  parameters, the `Allow` header and the fallback, however the snapshot was
  built and whether it was cached;
* *cache*: a request is answered from the current table or from the snapshot
  registered, compiled or put back last, and a registration that overlaps no fill
  is not hidden;
* *mounts*: one mount per path, each mounted router on its own route; a request
  ends at the mux and handler that the tables lead to, with the context of the
  whole way down;
* *mux tree*: all routes of a mux are wrapped in the same middlewares, and `Walk`
  reports the middlewares that run, in their order;
* *path middlewares*: in any order and on any mux of a tree they do not change
  where a settled path is dispatched, do not undo one another, and do not send a
  client in circles;
* *response pipeline*: one final status per response, which the log tells
  truthfully; no byte lost; the failure that came first is what the client
  learns; every response is logged;
* *compression*: no request gets a byte of another's encoder, a client can decode
  what it was sent, the header tells whether the body is encoded, and the encoding
  set last is preferred;
* *throttle*: at most `Limit` handlers run, at most `Limit + BacklogLimit`
  requests are inside, no token is lost, nobody waits for ever.

## 2. Modules

| Module | Models | Reads as |
|---|---|---|
| `RoutePattern` | patterns and `matchRoute` | operators; `Describes` and `Rebuilds` are the reference meaning, stated without the scan |
| `RouteTable` (EXTENDS `RoutePattern`) | `compile`, `compatibilitySnapshot`, `serveHTTP`, `allowedMethods`, `Resolve` | operators over a snapshot |
| `Precedence` (EXTENDS `RouteTable`) | no code: which registration of a list a request should reach | reference definitions |
| `Dispatch` (EXTENDS `Precedence`) | a mux used by one goroutine | state machine, one action per call |
| `PathMiddlewares` (EXTENDS `RouteTable`) | `CleanPath`, `StripSlashes`, `RedirectSlashes`, `GetHead`, `URLFormat` | operators from a route context to the next |
| `MountServe` (EXTENDS `Precedence`, `PathMiddlewares`) | requests through muxes mounted in one another, past the path middlewares of each | state machine, one action per registration, middleware, `serveHTTP` or mount handler |
| `SharedMux` | what a shared mux promises, without a lock | abstract specification |
| `MuxCache` | a mux shared by goroutines | state machine, one action per critical section, load or store; `AnswersFromShown` instantiates `SharedMux` |
| `MuxTree` | the muxes made from routers, what they collect and what they wrap | state machine, one action per call |
| `MuxWalk` (EXTENDS `RouteTable`, `MuxTree`) | `Walk`, and what a request passes in the same tree | operators over the state of `MuxTree` |
| `Pipeline` | `WrapResponseWriter` under `RequestLogger`, `Recoverer`, `Timeout` | state machine, one action per call on the writer or deferred function |
| `Compress` | a `Compressor` and its response writers | state machine, one action per `SetEncoder`, call on a writer or deferred function |
| `Admission` | bounded admission | abstract specification |
| `Throttle` | `ThrottleWithOpts` | state machine, one action per select outcome or deferred send; `BoundedAdmission` instantiates `Admission` |
| `RouteTableProofs`; `DispatchProofs`, `MountServeProofs`, `MuxTreeProofs` (EXTENDS `RouteTableProofs`) | | proofs about matching, compilation and lookup; about the mux that answers by them; about requests through mounted muxes; about sealing and `Walk` |
| `MuxCacheProofs`, `PipelineProofs`, `CompressProofs`, `ThrottleProofs` | | proofs about the module they are named after |
| `MCDispatch`, `MCMountServe`, `MCMuxCache`, `MCMuxWalk`, `MCCompress`, `MCThrottle` | | small universes for TLC |

### How state and actions correspond to the code

**Patterns and paths.** A path is the sequence of its `/`-separated parts, so
`/` is `<<"">>` and `/a/` is `<<"a", "">>`; a pattern is a sequence of segment
records. Concatenation of a prefix and a pattern is concatenation of sequences.
A regular expression is the function from the parts it accepts to what it
captures; its source text is kept because `compatibilityShape` compares it. The
character scan of `parsePattern` and `parseCompositeSegment` is abstracted to
the kind of segment it yields or to `Malformed`. The loop of `matchRoute` is the
recursive function `Scan`: its value at `k` is the state after `k` iterations,
`remaining` (`rest`) and `terminalEmpty` included, and `MatchSegment` is one of
them. Loops are written as recursive functions so that theorems can be proved
about them.

**Snapshots.** `exact` and `dynamic` are computed from the list of compiled
routes by the operators `ExactAt` and `Dynamic`, the second when the snapshot is
compiled. `sort.SliceStable` is `InOrder`: the one sequence of the positions
that falls in specificity and, the sort being stable, rises among equals.
`KeptUpTo` is the loop of `compatibilitySnapshot` and `Tries` the two nested
loops of `match`, over the method's own routes and then those of `*`. `Handler(role, n)` names a handler by what it was
registered as and when, so a replaced handler can be told from its successor.

**Dispatch.** `routes`, `fallbacks` and `compiled` are the root's fields and
`reply` is what the latest request got. `Register` parses only the text it is
given and stores `prefix \o pattern`, as the code does. `RequestPanics` is the
panic of `compatibilitySnapshot`.

**MountServe.** `tables[m]` holds the path middlewares, routes, mounted paths and
fallbacks of mux `m`, and `request.ctx` is the route context: `params`
(`URLParams`), `patterns` (`RoutePatterns`), `routePath`, `routeMethod` and the
two inherited fallbacks. `request.todo` is what of the mux's middlewares is still
to run; `Rewrite` runs the first of them, and `RedirectSlashes` may answer, after
which `Follow` is the client that follows the redirect. `Context.Routes`, which
`GetHead` looks ahead in, is the mux the request is at. Paths are rooted; the
last dot of `URLFormat` is the function `Stems`.
`EnterMount` and `Answer` are the two outcomes of `serveHTTP`: it calls a
mount's handler, or the one that answers. `HandOver` is that handler, the
closure at lines 736-769, up to the call of the mounted router. It remembers the
text passed to `Mount`, while the route it stands on has the `Route` prefix in
front. Mount prefixes are literal: one that holds a parameter is never cut off,
since `TrimPrefix` compares text. A mux is mounted on lower ones only, so
requests end.

**MuxCache.** `table` stands for what `compile` reads under the mutex; a
snapshot is the table it was built from, since `compile` is a function of it.
A step is a region under the root's mutex or one load or store of `compiled`
(the public `Compile` stores under the mutex, so that store belongs to its
step). `MountReserve`, `MountHandle` and `MountAttach` are the three critical
sections of `Mount`. `Nil` is the nil pointer. A mounted router is named by the
path it is mounted at, so that an attachment to a wrong route is visible.

**MuxTree.** A mux made by `With`, `Group` or `Route` has the router as parent,
not the mux the call was made on, and copies that mux's prefix and middlewares.
`muxes[m]` keeps `root`, `prefix`, `local`, `middlewares` and `sealed`; a
middleware is its number, so which calls wrapped a handler can be read off it.
The function given to `Group` or `Route` is the steps that follow. `by`, the mux
a route was registered through, is kept for the property only. `Listing` in
`MuxWalk` is `walkRoutes`, from the bottom up: `Leaves` is what it lists of a route,
`Beneath` of a route with a router behind it, and `Shortened` its `ReplaceAll` from
left to right. `Through` runs the closures that `compile`, `ChainHandler` and
`Mount` build, one hop from router to router at a time. Both read the snapshots of
the same tables; where a table has a route that does not parse, building its snapshot
panics, and `SnapshotsExist` excepts it.

**Pipeline.** The middlewares are nested in the order `RequestLogger`,
`Recoverer`, `Timeout`, so that the log sees what the other two answer. `writer`
is the logger's `responseWriter` and `client` what net/http was told to send;
`client.by` names whose code did. `End` is the handler's return or panic, and
`TimeoutEnds`, `RecovererEnds`, `LoggerEnds` the deferred functions from the
inside out. `ContextEnds` may come at any moment while the handler runs. A body
is a number of bytes; a write may be taken or not. `ReadFrom` has its two paths.

**Compress.** `compressor` holds `encodingPrecedence`, `pools` and `encoders`; a
pool or an `EncoderFunc` is the number of the `SetEncoder` call that made it, and
`encoder[e]` says which function made an encoder, where it writes and what it
holds. A pool gives back any encoder that was put into it or a new one. `End`,
`Close` and `Cleanup` are the handler's end and the two deferred calls.
`SetEncoder` comes before requests only, as the maps have no mutex. `EncoderFunc`s
never return nil, and encoders can be flushed and closed, as those of `gzip` and
`flate` can; which names an Accept-Encoding contains is a set.

**Throttle.** `processing` and `backlog` count the tokens in the two channels.
The first and second select do not wait; the third does, and any of its ready
cases may be taken. Deferred sends are steps of their own, in the order in which
Go runs deferred calls, and wait for room in their channel. A direct hand-off
from sender to receiver is the two steps in sequence; no order among waiting
requests is assumed.

## 3. Runs

| Run | Instance | Shows |
|---|---|---|
| `dispatch_routing` | 2 methods and `*`, 5 overlapping patterns, 4 paths, up to 3 registrations; two 404 and two 405 handlers for the root, `/a`, `/a/b` and `/{id}` | `DispatchesToRankedWinner`, `AllowIsExactlyWhatWouldBeServed`, `ParametersRebuildThePath`, `ResolvePredictsServe`, `NearestFallbackAnswers` |
| `dispatch_conflicts` | 8 patterns that share shapes, two of them composite, on the root and on a child with prefix `/{id}`, 5 paths, up to 3 registrations | `DispatchesToRankedWinner` after replacement, `CompatibilityAgreesWithoutConflicts`, `DescribedPathsAreRouted`, `TypeOK`; requests may panic here |
| `mount_serve` | 3 muxes, one mount prefix, 3 patterns, 3 paths, 2 methods, up to 4 registrations | `NestedDispatch`, `NearestMuxAnswers`, `ContextSpansTheMounts` |
| `mount_rewritten` | 2 muxes, one mounted, up to 2 path middlewares on either in any order, `HEAD` and `GET`, paths with repeated, trailing and no extra slashes and with an extension | `NestedDispatch`, `SlashesStayStripped`, `RedirectedOnce` |
| `mux_concurrent` | 2 registrars, 2 servers, 3 routes, registrations at any moment | `MountedOnce`, `AttachedNoEarlier`, `StaleOnlyAfterOverlap`, `OnlyALateStoreMakesStale`, `AnswersFromShown` |
| `throttle` | 3 requests, `Limit` 1, `BacklogLimit` 1, fairness | `TokensConserved`, `WaitingFitsBacklog`, `ReleaseNeverBlocks`, `RefusedOnlyWhenFull`, `BoundedAdmission`, `EveryWaitEnds`, `EveryRequestLeaves` |
| `mux_tree` | 2 routers, 2 muxes made from them, 2 middlewares, 2 registrations, patterns `/` and `/{id}`, `Route` prefix `/{id}`, mounts at `/m` | `TypeOK`, `RoutesShareTheirMiddlewares`, `WalkListsWhatRuns` |
| `pipeline` | statuses 101, 103, 200, 404, up to 4 calls on the writer, fairness | `OneFinalStatus`, `LogTellsTheStatus`, `BytesAddUp`, `FailuresReachTheClient`, `EveryResponseIsLogged` |
| `compress` | 2 requests, 2 encodings, 2 encoders, 2 calls of `SetEncoder` after the constructor's, 3 calls on writers | `TypeOK`, `StreamsStayApart`, `DecodesToTheBody`, `OnlyAnEarlyFlushMisleads`, `LastSetEncoderEncodes` |
| `mux_late_store` (violation) | 1 registrar, 2 servers | `LaterHandlerWins` fails: see section 6 |
| `mount_in_route` (violation) | 2 muxes, mounts also inside `Route("/v")` | `NestedDispatch` fails |

**Bounds.** `MaxRoutes` and `MaxCalls` bound the registrations of a behaviour
and `MaxUses` the calls of `Use`; the other universes are finite sets of the configuration.
Three registrations are enough for every pairwise interaction of routes
(conflict, replacement, precedence) with a third one that loses or wins to
both; the pattern sets hold each kind of segment, pairs that match the same
path, pairs of equal specificity and pairs of equal shape. The paths include the
root, a trailing slash, an inner match and one longer than any pattern. In
`MuxCache` two servers and two registrars are enough for a store to race with a
registration, with `Compile`, and with another store, and for two mounts to
overlap. In `MountServe` three muxes make two hops, the least in which
something inherited can be inherited again or overridden, and four registrations
are two mounts with two routes or handlers; one pattern ends in a `*` that is
not a mount's, and a mux can be mounted twice. In `mount_rewritten` two
middlewares on each mux are every ordered pair, the least in which one can undo
the other, and one mux below another is where a shifted path can be undone.

In `mux_tree` a router with a child of a child, or two routers with a child each,
fit into four muxes, and a middleware can come before and after a route on each of
them; two registrations are a mount and a route below it, or two routes of one
mux on either side of a `Use`. In `pipeline` four calls are enough for any three to
meet a fourth that must not be forwarded; the statuses are one of each kind the
writer tells apart (101 is final, 103 is not). In `compress` two requests and
two encoders are enough for one to get what the other gave back, and `SetEncoder`
can replace either encoding, with a pool or without; three calls hold every order
of `WriteHeader`, `Write` and `Flush`. In `throttle` three requests are one more
than `Limit + BacklogLimit`, so that every refusal and every hand-over happens;
the safety part for all larger limits is proved.

`CHECK_DEADLOCK` is off in `mux_tree`, `pipeline` and `compress`, where the
program may stop: all registrations are made, or all responses are sent.
Elsewhere requests can always come. `compress` and `mux_concurrent` use symmetry;
neither has a liveness property. `TypeOK` of `MuxCache`, `Pipeline` and `Throttle`
is proved and not run.

**Fairness.** `Throttle!FairSpec` assumes weak fairness of the middleware's own
steps for each request: Go's scheduler runs a goroutine that can go on, and the
backlog timer of `time.NewTimer` fires. Nothing is assumed of handlers in
`EveryWaitEnds`; `EveryRequestLeaves` has "every handler returns" as its
hypothesis. Weak fairness is enough because a waiting request can always time
out. `Pipeline!FairSpec` assumes weak fairness of what runs once the handler has
ended (`Unwind`): deferred functions do not block here. The handler itself need
not end. The other specifications are used for safety only.

## 4. Proofs

`DispatchProofs`, with the lemmas of `RouteTableProofs`
(for any methods, patterns, prefixes and paths that satisfy
`DispatchAssumption`, and any number of registrations):

* `TypeCorrect`, `RankedWinner`, `AllowExact`, `ParametersRebuild`,
  `ResolveAgrees`, `NearestAnswers`, `CompatibilityAgrees` and `DescribedRouted`:
  every property that the two dispatch runs check.
* The inductive invariant `IInv` is small: the registrations and fallbacks are
  well formed, a cached snapshot is `FillSnapshot` of the registrations and
  fallbacks as they are now, and the last reply is what `Serve` makes of it.
  None of the properties is inductive, as each speaks of the reply alone; each
  follows from `IInv` by what the operators compute (the lemmas `IInvTypeOK`,
  `IInvWinner`, ...). That `Compile` and a request publish equal snapshots when
  both can is `NoConflictsFill`.
* What the operators compute is proved for patterns, paths and tables of any
  length, in four steps:
  * *one route*: `ScanFixed` says where the scan stands after `k` segments, and
    from it `MatchRouteDescribes` that `matchRoute` succeeds exactly when the
    pattern describes the path, `MatchRouteRebuilds` that the parameters it binds
    give the path back;
  * *one snapshot*: `TriesFindFirst` and `MatchDynamicFinds` say that `match` finds
    the first route of the sorted lists that describes the path and has left
    nothing of the others in the context, `LookupFinds` that the three lookups
    together find the least by grade (exact before dynamic, own method before `*`,
    specificity, position);
  * *replacement*: `KeptIs` says that after any number of registrations the kept
    list holds, for each compatibility key, the last registration at the
    place of the first, and `FilledFromKept` that both ways to build a snapshot
    compile that list;
  * *together*: `LookupIsWinner` says that the route found is the registration
    `Precedence` ranks first, `ProbesFindTheServed` the same for the probes of
    `allowedMethods` and `Resolve`. `Resolve` has a lookup of its own, by scans of
    the listed routes that may fall through; `ResolveIs` says that it reports what
    `Lookup` finds, and `ParamsMapIs` that its map of parameters loses none, as
    the names of a pattern that parses are different. `ScopedFallbackIs` and `FallbackIs` do the
    same for the fallbacks, and `AlikeDescribe` says that two patterns with one
    compatibility shape accept the same paths unless composite parts differ.
* The library's induction theorems take an operator as parameter and cannot be
  used here. `Induction` is proved instead for subsets of `Nat`: a set of naturals
  has a least member (`LeastNatural`, since inclusion of finite sets is well
  founded). A recursive function is a `CHOOSE`; `Recursion` builds one with the
  equations asked for out of its finite beginnings, and `RecursionUnique` says
  there is no other. `ScanDef`, `NamesUpToDef`, `TriesDef` and `KeptUpToIs` are its
  uses; `SortedExists` does the same for `InOrder`.

`DispatchAssumption` says what the encoding of patterns takes from the code: a
text is a sequence of segments as `parsePattern` makes them (a composite part has
as many captures as names, `captureIndices`), equal expressions accept equal
parts, a literal part has no braces and is not `*` (`parsePattern` rejects the
first at line 372 and reads the second as a wildcard), the shape of a composite
part is more than its placeholder, and a path is not empty. `ToldApart`, what it
says of shapes, is only used by `DescribedRouted`; the rest gives types. TLC
evaluates it on both runs.

`MountServeProofs` (for any number of muxes, mounted in any way on lower ones; any
patterns, literal prefixes, paths and path middlewares):

* `TypesHold`: `Spec => []TypeInv`. `TypeInv` says more than types: the routes of
  a mux are parsed ones or the wildcard routes of mounts of muxes created later
  (`RoutesOf`), and a request on its way has only middlewares of its mux left to run.
  With it the lemmas of `RouteTableProofs` apply at every mux of the tree: `ServeIs`
  and `OutcomeIs` tell what a mux answers from its routes alone.
* `SlashesStripped` and `OneRedirect`: `[]SlashesStayStripped` and
  `[]RedirectedOnce`, from `PathInv`. It relates the path that will be looked up next
  to the URL's: the path stays clean but for a last slash (`Tame`) wherever the URL's
  was, is clean below a root that strips slashes and, on any mux, once its own
  `StripSlashes` ran; and after a redirect it is clean throughout. Each step of that
  is a lemma: `path.Clean` leaves no empty part (`CleanIsPlain`), neither does what
  `RedirectSlashes` names (`LocationIsPlain`), and cutting a mount's prefix off a
  clean path leaves one (`RemainingIs`).
* `NestedDispatched` and `NearestAnswered`: `[]NestedDispatch` and
  `[]NearestMuxAnswers`, for trees without a mount inside `Route`
  (`RoutePrefixes \subseteq {<<>>}`; with one the first is false, which is what
  `mount_in_route` shows). The properties speak of the reply only; `JourneyInv` says
  at every step where the request is on its journey (`Where`, a stage of the
  reference recursion, defined from the tables). `WayInv`: one path is looked up per
  mux and each mux was created later than the one before, so `Depth` stages are
  enough; and the middlewares still to run are the last ones of the mux. `DownInv`,
  for a settled request: at a mux the journey is there too, its path is the one to be
  looked up, its method is the request's until `GetHead` ran (`MethodAfter`), and the
  context inherits the fallback of the last mux above that has one (`Nearest`,
  `NearestNext`). That a mount takes off its own pattern and no more is
  `BelowIsRemaining`, and the only step that needs the hypothesis (`EnterDown`).
  The stages are a recursive function, which `StagesDef` shows is what its
  definition says.
* `ContextSpans`: `[]ContextSpansTheMounts`, for such trees whose middlewares look
  up no other path than the one asked for, as `CleanPath`, `StripSlashes` and
  `URLFormat` do; the run that checks it has no middlewares. `ContextInv` says what the context holds between two muxes: for each mount passed, its pattern and
  an empty `*` (`Hops`), and that the mounts' texts and the path still to be looked
  up spell the URL's path (`Spells`). A mount's handler rewrites the last entry
  (`ClearsLast`), which is the one its own match appended (`MountBinds`). The last
  step, `RoutedSpans`, is about patterns only: behind literal texts
  (`ScanLiterals`), and behind any patterns that match (`ScanBehind`), a pattern
  describes and binds what it does alone (`SpansBehind`).
* Each action is proved to do what a lemma says of it (`PassFields`, `EnterIs`,
  `HandOverIs`, `AnswerStep`, `RedirectIs`, together `StepIs`); the proofs that
  invariants are kept use these and not the actions.

`MountServeAssumption` is what the encoding takes from the code: a text is a
sequence of segments, prefixes are literal, a path has a part, and no method of a
request is the one that stands for all.

`MuxCacheProofs` (for any goroutines, routes, mounts and bounds):

* `TypeCorrect`: `Spec => []TypeOK`. Besides types, `TypeOK` says which steps a
  goroutine can be at and what it holds there.
* `StalenessHasOneCause`: `OnlyALateStoreMakesStale`, by cases on the action;
  every step that changes `table` sets `compiled` to `Nil`, and those that set
  `compiled` to something else, except `Store`, set it to `table`.
* `StalenessNeedsOverlap`: `[]StaleOnlyAfterOverlap`, in every interleaving. It
  is not inductive, since `Store` writes what a server read earlier; `CacheInv`
  adds that, unless the latest change of the table fell into a fill, every
  server about to store holds the current table. `overlapped` is a history
  variable: it records whether that change did, and no action reads it.
* `MountsAreExclusive`: `[]MountedOnce`. `MountInv` adds that every mounted path
  and every path being mounted is in `mounts`, which `MountReserve` tests.
* `LazyCompilationRefines`: `Spec => AnswersFromShown`, in every interleaving.
  `SharedMux` has no lock between a fill and a registration: a registration shows
  its table to new requests at once, and a request that read the table itself may
  show what it read later, once. The table shown is the cached snapshot, or
  `table` when there is none; a server waits while it is at `compile` or
  `compat`, and owes a store while it is at `store`. The late store of section 6
  is its step `PutBack`.
* `AttachmentsAreNoEarlier`: `[]AttachedNoEarlier`. `Mount` finds its own route
  again as the last of the table, which another goroutine may have added;
  `AttachInv` adds that a registrar about to attach has a route of its own in the
  table, so the last route is that one or a later one. Routes are only ever
  appended, which `AddRouteAttached` uses.

`ThrottleProofs` (for any finite set of requests and any limits allowed by the
checks at lines 31-36):

* the inductive invariant is `Inv == TypeOK /\ TokensConserved`: tokens in a
  channel plus requests that hold one make its capacity. Each step moves one
  request in or out of the holders, and one token the other way (`Moves`).
* `ThrottleConserves`, `ReleasesNeverBlock`, `RefusalsAreJustified` follow by
  counting; `WaitersAreBounded` also, as everyone inside holds a reservation
  and a request starts to wait only when all tokens are held (`WaitFindsRoom`).
* `ThrottleImplementsAdmission`: every step maps to a step or a stutter of
  `Admission` with `inside` and `running` read off `pc` (`StepSimulation`).

`MuxTreeProofs` (for any routers, muxes, patterns, methods, paths and bounds):

* `TypeCorrect` and `SealingWorks`: `[]RoutesShareTheirMiddlewares`. The
  inductive invariant adds `Sealed`: the mux of a registered route is sealed, so
  `Use` cannot change the list that its routes share. It needs from `TypeOK` that
  a router's own `local` is empty. `MuxesChange` is the case of all steps that
  leave the tables alone.
* `WalkListsAll`: `[]WalkListsWhatRuns` when the texts of `Mount` are literal and
  not `/`. The code allows both: a mount prefix with a parameter is never cut off
  the path, and of routers mounted at `/` in one another `Walk` leaves every second
  `*` in the pattern (section 6). The inductive invariant adds `MountTexts`: the
  route of a mounted router is the text that its handler cuts off, and the wildcard.
  In a state with that invariant, `Walk` goes down the tree and a request goes down
  one branch of it, and the proof follows the request. `On` says where it is: below
  mounts whose joined patterns are `Q`, which `Walk` shortens to `P` (`Shortens`)
  and which with the path that is left spell the path (`Spelt`), whatever
  `walkRoutes` lists at its router is listed at the first one behind `Q` and the
  middlewares run so far (`Under`). `HopDown` carries `On` to the next router, and
  `HopToEndpoint` finds the endpoint's entry. `ListingIs` unfolds `Listing`, whose
  recursion ends because routers are mounted in earlier ones only; `ShortenedKeeps`
  says that literal parts stay as they are, and `ServeAtIs` rests on `LookupFinds`
  of `RouteTableProofs`.

`PipelineProofs` (for any statuses and any number of calls):

* `TypeCorrect`, `StatusIsFinal`, `LogIsTrue`, `NoByteIsLost` and
  `FailuresAreAnswered` follow from one invariant. `WriterInv` relates the wrapper
  to the server: a final status that was sent is one that the wrapper marked, and
  unless the body is discarded the two agree on which. `Unwinding` says how far
  the deferred functions got and what each has answered, `LogInv` what the entry
  was told.

`CompressProofs` (for any requests, encodings, encoders and bounds):

* `TypeCorrect`, `StreamsAreSeparate`, `BodiesAreComplete` and
  `HeadersTellTheTruth` follow from `Inv`, three statements about each request:
  `InUse` (from the moment it is obtained until after `cleanup`, an encoder is in
  no pool and writes to that request alone; the property itself ends before
  `cleanup` and is not inductive), `Accounts` (the bytes the client has and those
  the encoder holds are the bytes written) and `Announces`. `OthersUntouched`
  carries all three over for every other request.
* `NewestEncoderIsChosen`: `[]LastSetEncoderEncodes`. `Ordered` says that the
  precedence lists the names that were set, newest first, each with exactly what its
  last `SetEncoder` left; taking a name out keeps the others in their order
  (`WithoutOne`). `Newest` keeps, for each request, that its choice was right.

They rest on `CompressAssumption` (the names of encodings are none of the
values the model uses for "no encoding").

Only model-checked: the liveness properties, as fairness is out of the prover's
reach; and that the constants of the MC modules satisfy the assumptions, which TLC
evaluates on every run.

## 5. Not modelled

* `Handle` with a method in its pattern and `RegisterMethod`; the fallbacks that a
  child wraps in its own middlewares (`router_gp.go:780-783`, `802-805`).
* A mux mounted below itself, and registrations while a request is on its way
  through several muxes: a mount's handler reads its parent's snapshot a second
  time (`router_gp.go:754`), which may then be newer than the one that routed the
  request.
* The route context's pool; `RoutePattern()`, which formats `RoutePatterns`;
  `Metadata`, which copies the routes; a `Walk` function that fails, which only ends
  the walk.
* Middleware constructors, which run under the root's mutex in `compile`: what one
  does is its author's, and one that calls back into the mux never returns.
* `Compile` called on a child: it compiles the child's own empty table and
  caches it on the child, where nothing reads it.
* Of the writers: `Hijack`, `Push` and `Unwrap`, which forward; which interfaces
  `NewWrapResponseWriter` offers; `Vary` and `Content-Length`.
* `HeaderRouter`: one scan over one request. Its only hazard is that the rules are
  kept in a map, whose order no property can rely on.
* Client IP, transform, basic auth, request id and diagnostics middleware: one
  condition or one conversion per request, which unit tests reach. Heartbeat and
  `StripPrefix`; percent-encoded paths.
* Retry-After and status codes of the throttle; the text of log lines and stacks.
* Case folding of methods (they are upper case in the models) and wording of errors.
* `internal/cmd/apimanifest`, a release tool that compares declarations.

## 6. Where code and documentation disagree

Each of these has a violation run and an entry under `findings`:

1. A request that compiles before a registration may store its snapshot after
   it; the registration stays hidden until the next one (`router_gp.go:523`,
   against `COMPATIBILITY.md:59-60`).
2. `Mount` inside `Route` cuts only its own text off the path, so the mounted
   router is handed the whole path and finds none of its routes
   (`router_gp.go:746`, against `COMPATIBILITY.md:72`). `mount_serve` therefore
   mounts outside `Route`, and `WalkListsWhatRuns` excepts such mounts.

Disagreements and surprises that no run is spent on:

* two goroutines registering at once: `Mount` attaches its router to the last
  route of the table, whoever added it (`router_gp.go:773`). What does hold is
  `AttachedNoEarlier`;
* a prefix passed to `Route` is never parsed; one with a wildcard, or with a
  parameter its patterns repeat, makes every request panic (`router_gp.go:714`,
  `536`);
* only a registration through the root itself seals it: `Use` on the root still
  succeeds after its children have routes (`router_gp.go:695`), though
  `COMPATIBILITY.md:70` lists late-middleware panics. A root's middlewares run
  before routing, so all routes still share them;
* two composite parts that differ in their constraint only replace one another,
  and a path that only the earlier one accepts is lost (`router_gp.go:577`, against
  the "regex-constrained literal suffixes" of `COMPATIBILITY.md:15-17`):
  `DescribedPathsAreRouted` excepts them;
* `Resolve` may return the metadata of another registration with the same
  pattern text (`router_gp.go:1228`);
* a composite part gives one segment several names, against the law of
  `laws_fuzz_test.go:28`;
* a fallback registered inside a `Route` whose prefix has a parameter never
  answers, because `scopedFallback` compares the path with the prefix as text
  (`router_gp.go:838`), against `COMPATIBILITY.md:25`; for the same reason a
  mount prefix with a parameter is not cut off (`router_gp.go:746`).
  `NearestFallbackAnswers` states what holds: only literal prefixes answer;
* of routers mounted at `/` in one another, `Walk` reports a pattern with every
  second `*` left in it, because `ReplaceAll` does not look again at a slash that it
  has just used (`router_gp.go:1289`); such a pattern does not describe the paths
  that are routed by it;
* `GetHead` on a router finds the `*` route of a mount for `HEAD`, so a `HEAD`
  request to a `GET` route of a mounted router is answered 405 unless that router
  uses `GetHead` too (`COMPATIBILITY.md:41`, "HEAD-to-GET fallback"). `MethodAt` in
  `MountServe` states what holds;
* `CleanPath` does nothing once a route path is set: after `StripSlashes`, and on a
  mounted router (`path_gp.go:77`);
* a handler that flushes before its first write sends a header without
  Content-Encoding and may then send an encoded body (`compress_gp.go:192`):
  `OnlyAnEarlyFlushMisleads` excepts it;
* an invalid level makes `flate` and `gzip` return typed nil writers, which pass
  for resettable encoders and panic at the first request
  (`compress_gp.go:67`, `71`).

## 7. What is left

Done: patterns and tables, dispatch, the shared cache, mounted routers, the mux
tree and `Walk`, path middlewares, the response pipeline, compression and the
throttle; proofs about all of them.

Worth adding, most important first:

1. `MuxCache` and `MountServe` composed: registrations while a request is between
   two muxes, for the second snapshot that a mount's handler reads.
2. The route context's pool, with handlers that outlive their request.

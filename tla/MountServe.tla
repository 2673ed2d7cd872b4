----------------------------- MODULE MountServe -----------------------------
(***************************************************************************)
(* Routers mounted in routers: a request goes down from mux to mux, and    *)
(* its route context carries the rest of the path, the parameters, the     *)
(* route patterns and the fallbacks of the muxes above.  At each mux it    *)
(* first passes the middlewares that rewrite what the mux looks up.        *)
(*                                                                         *)
(* Registrations come while no request runs; MuxCache has those that do    *)
(* not.  A step of a request is one middleware, one serveHTTP or one mount *)
(* handler.                                                                *)
(***************************************************************************)
EXTENDS Precedence, PathMiddlewares

CONSTANTS
    Depth,          \* the muxes are 1..Depth; a mux is mounted on lower ones
    Registered,     \* methods of registrations
    Methods,        \* methods of requests
    Patterns,       \* texts passed to Method
    RoutePrefixes,  \* literal prefixes of the muxes' Route children; <<>> for none
    MountPrefixes,  \* literal texts passed to Mount, without a final slash
    Middlewares,    \* those of PathMiddlewares that Use is called with
    Paths,          \* request paths
    MaxUses,        \* bound: calls of Use in a behaviour
    MaxCalls        \* bound: registrations in a behaviour

ASSUME MountServeAssumption ==
    /\ Depth \in Nat \ {0}
    /\ MaxCalls \in Nat /\ MaxUses \in Nat
    /\ Registered \subseteq Methods
    /\ AnyMethod \notin Methods
    /\ \A text \in Patterns : IsText(text)
    /\ \A text \in RoutePrefixes \cup MountPrefixes : IsText(text) /\ IsExact(text)
    /\ Paths \subseteq Seq(Word) \ {<<>>}
    /\ \A part \in DOMAIN Stems : Stems[part] \in Word

Muxes == 1..Depth
Root == 1

VARIABLES
    tables,         \* of each mux: middlewares, routes, mounted paths and fallbacks
    calls,          \* registrations made
    request,        \* the request that runs
    reply           \* what the latest request was answered

vars == <<tables, calls, request, reply>>

Idle == [phase |-> "idle"]
NoReply == [kind |-> "none"]

Init ==
    /\ tables = [m \in Muxes |-> [uses |-> <<>>, routes |-> <<>>, mounts |-> {},
                                  fallbacks |-> NoFallbacks]]
    /\ calls = 0
    /\ request = Idle
    /\ reply = NoReply

-----------------------------------------------------------------------------
Registers ==
    /\ request = Idle
    /\ calls < MaxCalls
    /\ calls' = calls + 1
    /\ reply' = NoReply
    /\ UNCHANGED request

Uses == LET count[m \in 0..Depth] ==
              IF m = 0 THEN 0 ELSE count[m - 1] + Len(tables[m].uses)
        IN  count[Depth]

(* Use panics once the mux has a route.                                    *)
Use(m, middleware) ==
    /\ request = Idle
    /\ Uses < MaxUses
    /\ tables[m].routes = <<>>
    /\ tables' = [tables EXCEPT ![m].uses = Append(@, middleware)]
    /\ reply' = NoReply
    /\ UNCHANGED <<calls, request>>

AddRoute(table, method, pattern, handler) ==
    [table EXCEPT !.routes = Append(@, [method |-> method, pattern |-> pattern,
                                        handler |-> handler])]

Method(m, method, pattern) ==
    /\ Registers
    /\ Parses(pattern)
    /\ tables' = [tables EXCEPT ![m] =
                     AddRoute(@, method, pattern, Handler("route", Len(@.routes) + 1))]

(* The handler of a mount remembers the text passed to Mount, the route    *)
(* has the whole pattern.                                                  *)
MountHandler(child, prefix) == [role |-> "mount", nth |-> child, prefix |-> prefix]

Mount(m, routePrefix, prefix, child) ==
    /\ Registers
    /\ m < child
    /\ routePrefix \o prefix \notin tables[m].mounts
    /\ tables' = [tables EXCEPT ![m] =
           [AddRoute(@, AnyMethod, routePrefix \o prefix \o <<Wildcard(Unnamed)>>,
                     MountHandler(child, prefix))
            EXCEPT !.mounts = tables[m].mounts \cup {routePrefix \o prefix}]]

NotFound(m) ==
    /\ Registers
    /\ tables' = [tables EXCEPT ![m].fallbacks.notFound = Handler("404", m)]

MethodNotAllowed(m) ==
    /\ Registers
    /\ tables' = [tables EXCEPT ![m].fallbacks.methodNotAllowed = Handler("405", m)]

-----------------------------------------------------------------------------
NewContext ==
    [params |-> FreshContext.params, notFound |-> FreshContext.notFound,
     methodNotAllowed |-> FreshContext.methodNotAllowed,
     routePath |-> <<>>, routeMethod |-> Blank, patterns |-> <<>>]

(* todo: middlewares of the mux that the request has not passed; handler:  *)
(* the mount's handler that was called; looked: the paths looked up so     *)
(* far; redirects: how often it was redirected.                            *)
Incoming(method, path, redirects) ==
    [phase |-> "serve", mux |-> Root, todo |-> tables[Root].uses, method |-> method,
     path |-> path, ctx |-> NewContext, handler |-> NoHandler, looked |-> <<>>,
     redirects |-> redirects]

Arrive(method, path) ==
    /\ request = Idle
    /\ request' = Incoming(method, path, 0)
    /\ reply' = NoReply
    /\ UNCHANGED <<tables, calls>>

(* A client follows a redirect.                                            *)
Follow ==
    /\ request = Idle
    /\ reply.kind = "redirect"
    /\ request' = Incoming(reply.method, reply.target, reply.redirects + 1)
    /\ reply' = NoReply
    /\ UNCHANGED <<tables, calls>>

(* Mutant of CurrentPath: RoutePath is not consulted.                      *)
OriginalPath == request.path

CurrentPath == RoutedPath(request.ctx, request.path)
CurrentMethod == RoutedMethod(request.ctx, request.method)

SnapshotOf(m) == FillSnapshot(tables[m].routes, tables[m].fallbacks)

Outcome == Serve(SnapshotOf(request.mux), request.ctx, CurrentMethod, CurrentPath)

-----------------------------------------------------------------------------
(* A middleware at the head of todo ...                                    *)
Reaches(middleware) ==
    /\ request.phase = "serve"
    /\ request.todo # <<>> /\ Head(request.todo) = middleware

(* ... calls the next handler with the context it made.                    *)
Pass(middleware, ctx) ==
    /\ Reaches(middleware)
    /\ request' = [request EXCEPT !.todo = Tail(@), !.ctx = ctx]
    /\ UNCHANGED <<tables, calls, reply>>

RedirectSlashes ==
    /\ Reaches("RedirectSlashes")
    /\ TrailingSlash(CurrentPath)
    /\ request' = Idle
    /\ reply' = [kind |-> "redirect", method |-> request.method,
                 target |-> Location(Trimmed(CurrentPath)), redirects |-> request.redirects]
    /\ UNCHANGED <<tables, calls>>

(* Context.Routes is the mux the request is at.                            *)
Rewrite ==
    \/ /\ Reaches("CleanPath")
       /\ Pass("CleanPath", CleanPath(request.ctx, request.path))
    \/ /\ Reaches("StripSlashes")
       /\ Pass("StripSlashes", StripSlashes(request.ctx, request.path))
    \/ /\ Reaches("URLFormat")
       /\ Pass("URLFormat", URLFormat(request.ctx, request.path))
    \/ /\ Reaches("GetHead")
       /\ Pass("GetHead", GetHead(SnapshotOf(request.mux), request.ctx, request.method,
                                  request.path))
    \/ /\ Reaches("RedirectSlashes")
       /\ ~TrailingSlash(CurrentPath)
       /\ Pass("RedirectSlashes", request.ctx)
    \/ RedirectSlashes

-----------------------------------------------------------------------------

(* serveHTTP up to the handler it calls, which is a mount's ...            *)
EnterMount ==
    /\ request.phase = "serve" /\ request.todo = <<>>
    /\ \E outcome \in {Outcome} :
          /\ outcome.handler.role = "mount"
          /\ request' =
                [request EXCEPT
                   !.phase = "mount", !.handler = outcome.handler,
                   !.looked = Append(@, CurrentPath),
                   !.ctx = [request.ctx EXCEPT
                              !.params = outcome.params,
                              !.patterns = Append(request.ctx.patterns, outcome.pattern)]]
    /\ UNCHANGED <<tables, calls, reply>>

(* ... or the one that answers.                                            *)
Answer ==
    /\ request.phase = "serve" /\ request.todo = <<>>
    /\ \E outcome \in {Outcome} :
          /\ outcome.handler.role # "mount"
          /\ reply' =
                [kind |-> outcome.kind, handler |-> outcome.handler,
                 params |-> outcome.params, allow |-> outcome.allow,
                 method |-> request.method, path |-> request.path, mux |-> request.mux,
                 patterns |-> IF outcome.kind = "route"
                              THEN Append(request.ctx.patterns, outcome.pattern)
                              ELSE request.ctx.patterns,
                 looked |-> Append(request.looked, CurrentPath)]
    /\ request' = Idle
    /\ UNCHANGED <<tables, calls>>

(* Mutant of Inherit: what came from above stays.                          *)
InheritFirst(inherited, custom, default) ==
    CASE inherited # NoHandler                          -> inherited
      [] inherited = NoHandler /\ custom # NoHandler    -> custom
      [] inherited = NoHandler /\ custom = NoHandler    -> default

Inherit(inherited, custom, default) ==
    CASE custom # NoHandler                             -> custom
      [] custom = NoHandler /\ inherited # NoHandler    -> inherited
      [] custom = NoHandler /\ inherited = NoHandler    -> default

(* Mutant of ClearWildcard: the first parameter is emptied.                *)
ClearFirst(params) ==
    IF params # <<>> /\ Head(params).name = Unnamed
    THEN [params EXCEPT ![1].value = <<Blank>>] ELSE params

(* A parameter "*" at the end is the mount's own and is emptied.           *)
ClearWildcard(params) ==
    IF params # <<>> /\ Last(params).name = Unnamed
    THEN [params EXCEPT ![Len(params)].value = <<Blank>>] ELSE params

(* Mount's handler, which calls the mounted router in the same context.    *)
HandOver ==
    /\ request.phase = "mount"
    /\ LET prefix    == request.handler.prefix
           remaining == TrimPrefix(CurrentPath, prefix)
           custom    == tables[request.mux].fallbacks
           old       == request.ctx
       IN  request' =
             [phase |-> "serve", mux |-> request.handler.nth,
              todo |-> tables[request.handler.nth].uses,
              method |-> request.method, path |-> request.path, handler |-> NoHandler,
              looked |-> request.looked, redirects |-> request.redirects,
              ctx |-> [params    |-> ClearWildcard(old.params),
                       patterns  |-> [old.patterns EXCEPT ![Len(old.patterns)] = prefix],
                       routePath |-> IF remaining = <<>> THEN <<Blank>> ELSE remaining,
                       routeMethod |-> old.routeMethod,
                       notFound  |-> Inherit(old.notFound, custom.notFound, Default404),
                       methodNotAllowed |->
                           Inherit(old.methodNotAllowed, custom.methodNotAllowed, Default405)]]
    /\ UNCHANGED <<tables, calls, reply>>

Next ==
    \/ \E m \in Muxes :
          \/ \E method \in Registered, pattern \in Patterns : Method(m, method, pattern)
          \/ \E routePrefix \in RoutePrefixes, prefix \in MountPrefixes, child \in Muxes :
                Mount(m, routePrefix, prefix, child)
          \/ NotFound(m)
          \/ MethodNotAllowed(m)
          \/ \E middleware \in Middlewares : Use(m, middleware)
    \/ \E method \in Methods, path \in Paths : Arrive(method, path)
    \/ Follow
    \/ Rewrite
    \/ EnterMount
    \/ HandOver
    \/ Answer

Spec == Init /\ [][Next]_vars

-----------------------------------------------------------------------------
(* Where a request has to end, by the tables alone: at every mux the       *)
(* ranked winner is taken, and a mount leads to its router with the path   *)
(* below the mounted one.  From the first mux with GetHead that has        *)
(* nothing for HEAD on, a HEAD request is a GET request.                   *)
Below(pattern, path) ==
    IF Len(path) < Len(pattern) THEN <<Blank>> ELSE SubSeq(path, Len(pattern), Len(path))

UsesAnyOf(m, middlewares) == Range(tables[m].uses) \cap middlewares # {}

MethodAt(m, method, path) ==
    IF /\ method = "HEAD" /\ UsesAnyOf(m, {"GetHead"})
       /\ Candidates(tables[m].routes, "HEAD", path) = {}
    THEN "GET" ELSE method

Onward(j) ==
    LET mux    == Last(j.muxes)
        routes == tables[mux].routes
        method == MethodAt(mux, j.method, j.rest)
        winner == routes[Winner(routes, method, j.rest)]
    IN  CASE j.handler # NoHandler \/ Candidates(routes, method, j.rest) = {} -> j
          [] j.handler = NoHandler /\ Candidates(routes, method, j.rest) # {} ->
               IF winner.handler.role = "mount"
               THEN [j EXCEPT !.muxes = Append(@, winner.handler.nth),
                              !.method = method,
                              !.rest = Below(winner.pattern, @)]
               ELSE [j EXCEPT !.handler = winner.handler]

(* After each number of steps, of which Depth are enough.                  *)
Stages(first, path) ==
    LET stage[n \in 0..Depth] ==
          IF n = 0 THEN [muxes |-> <<Root>>, method |-> first, rest |-> path,
                         handler |-> NoHandler]
          ELSE Onward(stage[n - 1])
    IN  stage

Journey(first, path) == Stages(first, path)[Depth]

Answered == reply.kind \in {"route", "404", "405"}

(* No part but that of "/" itself is empty.                                *)
Plain(path) == path = <<Blank>> \/ \A k \in DOMAIN path : path[k] # Blank

(* What GetHead of the root saw is what was looked up, and the path has    *)
(* nothing left for the mounted muxes to rewrite.                          *)
Settled ==
    /\ \A k \in DOMAIN tables[Root].uses :
          tables[Root].uses[k] = "GetHead" => k = Len(tables[Root].uses)
    /\ \A m \in Muxes \ {Root} :
          /\ ~UsesAnyOf(m, {"URLFormat"})
          /\ UsesAnyOf(m, {"StripSlashes", "RedirectSlashes"}) =>
                Plain(reply.looked[1])

(* A request reaches, through any number of mounts, the mux and handler    *)
(* its journey leads to, and a 405 lists the methods of the mux it ends    *)
(* at.  Once the path is settled, no middleware on the way down changes    *)
(* where the request ends, and HEAD is answered as GET exactly where the   *)
(* nearest GetHead finds nothing for it (serveHTTP, Mount, path_gp.go).    *)
NestedDispatch ==
    Answered /\ Settled =>
        LET j       == Journey(reply.method, reply.looked[1])
            served  == {m \in Methods :
                          Candidates(tables[Last(j.muxes)].routes, m, j.rest) # {}}
        IN  IF j.handler # NoHandler
            THEN reply.mux = Last(j.muxes) /\ reply.handler = j.handler
            ELSE /\ reply.kind = IF served = {} THEN "404" ELSE "405"
                 /\ reply.allow = served

(* A 404 or 405 is answered by the mux nearest to where the request ended  *)
(* that has a handler for it, and by the default if none has.              *)
NearestMuxAnswers ==
    Answered /\ Settled /\ reply.kind # "route" =>
        LET muxes  == Journey(reply.method, reply.looked[1]).muxes
            own(m) == IF reply.kind = "404" THEN tables[m].fallbacks.notFound
                      ELSE tables[m].fallbacks.methodNotAllowed
            custom == {k \in DOMAIN muxes : own(muxes[k]) # NoHandler}
        IN  IF custom = {}
            THEN reply.handler = IF reply.kind = "404" THEN Default404 ELSE Default405
            ELSE \E k \in custom : /\ reply.handler = own(muxes[k])
                                   /\ \A j \in custom : j <= k

(* The route patterns of a routed request, joined, describe the path that  *)
(* was asked for, a trailing slash apart, and its parameters are one empty *)
(* "*" for every mount and then those of the joined pattern.               *)
ContextSpansTheMounts ==
    reply.kind = "route" =>
        LET joined == Segments(FlattenSeq(reply.patterns))
            hops   == Len(reply.patterns) - 1
            own    == SubSeq(reply.params, hops + 1, Len(reply.params))
        IN  /\ \A k \in 1..hops : reply.params[k] = [name |-> Unnamed, value |-> <<Blank>>]
            /\ \E path \in {reply.path, reply.path \o <<Blank>>} :
                  Describes(joined, path) /\ Rebuilds(joined, own, path)

(* Under StripSlashes, on the root or on the mux that answers, no path     *)
(* that has no two slashes in a row and is not cut by URLFormat is looked  *)
(* up with a slash at its end, whatever the other middlewares do.          *)
SlashesStayStripped ==
    /\ Answered
    /\ UsesAnyOf(Root, {"StripSlashes"}) \/ UsesAnyOf(reply.mux, {"StripSlashes"})
    /\ \A m \in Muxes : ~UsesAnyOf(m, {"URLFormat"})
    /\ \A k \in 1..(Len(reply.path) - 1) : reply.path[k] # Blank
    => ~TrailingSlash(Last(reply.looked))

(* Without URLFormat a client is redirected once at most: what             *)
(* RedirectSlashes names, on whatever mux, is never redirected again.      *)
RedirectedOnce ==
    reply.kind = "redirect" /\ (\A m \in Muxes : ~UsesAnyOf(m, {"URLFormat"}))
        => reply.redirects = 0
=============================================================================

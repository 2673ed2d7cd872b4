----------------------------- MODULE RouteTable -----------------------------
(***************************************************************************)
(* Immutable snapshots of gpchi: how a list of registrations is compiled,  *)
(* how a snapshot looks a request up, and how it answers one.              *)
(*                                                                         *)
(* A registration is [method, pattern, handler]; its method is upper case  *)
(* or "*", its pattern the concatenated text.                              *)
(***************************************************************************)
EXTENDS RoutePattern

AnyMethod == "*"

(* Handlers are told apart by what they were registered as and in which    *)
(* order.                                                                  *)
Handler(role, nth) == [role |-> role, nth |-> nth]
NoHandler  == Handler("nil", 0)
Default404 == Handler("http.NotFoundHandler", 0)
Default405 == Handler("default 405", 0)

Key(r) == <<r.method, r.pattern>>
SegmentsOf(r) == Segments(r.pattern)
ShapeKey(r) == <<r.method, Shape(SegmentsOf(r))>>

(* The positions in S by falling rank, and in order among equals.          *)
Precedes(rank, i, j) == rank[i] > rank[j] \/ (rank[i] = rank[j] /\ i < j)

InOrder(S, rank) ==
    CHOOSE seq \in [1..Cardinality(S) -> S] :
        \A i, j \in DOMAIN seq : i < j => Precedes(rank, seq[i], seq[j])

Unranked(routes) == [i \in DOMAIN routes |-> 0]

-----------------------------------------------------------------------------
(* compile                                                                 *)

(* Mutant of Retained: an error of parsePattern is ignored.                *)
RetainedUnparsed(routes) ==
    {i \in DOMAIN routes : \A j \in 1..(i - 1) : Key(routes[j]) # Key(routes[i])}

(* Registrations that parse and are the first with their method and text.  *)
Retained(routes) ==
    {i \in DOMAIN routes :
        /\ Parses(routes[i].pattern)
        /\ \A j \in 1..(i - 1) : Key(routes[j]) # Key(routes[i])}

(* Mutant of HasConflicts: ambiguous shapes are not reported.              *)
HasDuplicates(routes) == Retained(routes) # DOMAIN routes

HasConflicts(routes) ==
    \/ Retained(routes) # DOMAIN routes
    \/ \E i, j \in DOMAIN routes : j < i /\ ShapeKey(routes[i]) = ShapeKey(routes[j])

CompileRoutes(routes) ==
    LET kept == InOrder(Retained(routes), Unranked(routes))
    IN  [n \in DOMAIN kept |-> routes[kept[n]]]

DynamicAt(routes, method) ==
    {i \in DOMAIN routes : routes[i].method = method /\ ~IsExact(routes[i].pattern)}

(* Mutant of Dynamic: the stable sort is missing.                          *)
DynamicUnsorted(routes, method) == InOrder(DynamicAt(routes, method), Unranked(routes))

(* The dynamic routes of a method: most specific first, registration order *)
(* among equals.                                                           *)
Dynamic(routes, method) ==
    InOrder(DynamicAt(routes, method),
            [i \in DOMAIN routes |-> Specificity(SegmentsOf(routes[i]))])

(* The mux fields that a snapshot copies beside the routes.  A scoped      *)
(* handler is [prefix, handler].                                           *)
NoFallbacks == [notFound |-> NoHandler, methodNotAllowed |-> NoHandler,
                scopedNotFound |-> <<>>, scopedMethodNA |-> <<>>]

(* s.dynamic has an entry for every method of s.methods.                   *)
CompileSnapshot(routes, fallbacks) ==
    LET kept == CompileRoutes(routes)
    IN  [routes |-> kept, fallbacks |-> fallbacks,
         dynamic |-> [m \in {r.method : r \in Range(kept)} |-> Dynamic(kept, m)]]

-----------------------------------------------------------------------------
(* compatibilitySnapshot: a later route takes the place of the first one   *)
(* with its method and compatibility shape; one that does not parse panics.*)
CompatibilityKey(r) == <<r.method, CompatibilityShape(SegmentsOf(r))>>

CompatibilityPanics(routes) == \E i \in DOMAIN routes : ~Parses(routes[i].pattern)

(* Mutant of KeepLater: the earlier handler wins.                          *)
KeepEarlier(kept, route) ==
    IF \E k \in DOMAIN kept : CompatibilityKey(kept[k]) = CompatibilityKey(route)
    THEN kept ELSE Append(kept, route)

KeepLater(kept, route) ==
    LET taken == {k \in DOMAIN kept : CompatibilityKey(kept[k]) = CompatibilityKey(route)}
    IN  IF taken = {} THEN Append(kept, route)
        ELSE [k \in DOMAIN kept |-> IF k \in taken THEN route ELSE kept[k]]

(* What is kept of the first k routes, for every k.                        *)
KeptUpTo(routes) ==
    LET kept[k \in 0..Len(routes)] ==
          IF k = 0 THEN <<>> ELSE KeepLater(kept[k - 1], routes[k])
    IN  kept

Kept(routes) == KeptUpTo(routes)[Len(routes)]

CompatibilitySnapshot(routes, fallbacks) == CompileSnapshot(Kept(routes), fallbacks)

(* What snapshot() builds when none is cached.                             *)
FillSnapshot(routes, fallbacks) ==
    IF HasConflicts(routes) THEN CompatibilitySnapshot(routes, fallbacks)
    ELSE CompileSnapshot(routes, fallbacks)

-----------------------------------------------------------------------------
(* Lookup                                                                  *)

(* s.exact holds the static routes by method and text.                     *)
ExactAt(s, method, path) ==
    {i \in DOMAIN s.routes :
        /\ s.routes[i].method = method
        /\ IsExact(s.routes[i].pattern)
        /\ PathOf(s.routes[i].pattern) = path}

NoMatch(params) == [route |-> 0, params |-> params]

DynamicOf(s, method) == IF method \in DOMAIN s.dynamic THEN s.dynamic[method] ELSE <<>>

(* Once a route matched, the others are not tried.                         *)
Try(s, found, i, path) ==
    LET m == MatchRoute(SegmentsOf(s.routes[i]), path, found.params)
    IN  IF found.route # 0 THEN found
        ELSE [route |-> IF m.ok THEN i ELSE 0, params |-> m.params]

(* The outcome of trying the first k of a list of routes, for every k.     *)
Tries(s, params, list, path) ==
    LET tried[k \in 0..Len(list)] ==
          IF k = 0 THEN NoMatch(params) ELSE Try(s, tried[k - 1], list[k], path)
    IN  tried

(* match: the route's position in s.routes, 0 for none, and the parameters *)
(* left in the context.                                                    *)
MatchDynamic(s, params, method, path) ==
    LET list == DynamicOf(s, method) \o DynamicOf(s, AnyMethod)
    IN  Tries(s, params, list, path)[Len(list)]

(* The three lookups of serveHTTP, and of Snapshot.Match, in their order.  *)
Lookup(s, params, method, path) ==
    CASE ExactAt(s, method, path) # {} ->
           [route |-> CHOOSE i \in ExactAt(s, method, path) : TRUE, params |-> params]
      [] ExactAt(s, method, path) = {} /\ ExactAt(s, AnyMethod, path) # {} ->
           [route |-> CHOOSE i \in ExactAt(s, AnyMethod, path) : TRUE, params |-> params]
      [] OTHER -> MatchDynamic(s, params, method, path)

(* Mutant of AllowedMethods: the exact table is not consulted.             *)
AllowedDynamicMethods(s, path) ==
    {m \in DOMAIN s.dynamic : MatchDynamic(s, <<>>, m, path).route # 0}

AllowedMethods(s, path) ==
    {m \in DOMAIN s.dynamic :
        ExactAt(s, m, path) # {} \/ MatchDynamic(s, <<>>, m, path).route # 0}

-----------------------------------------------------------------------------
(* scopedFallback.  A prefix is a pattern text compared with the path as   *)
(* text, so only a prefix without placeholders can cover a path.           *)
Covers(prefix, path) == IsExact(prefix) /\ IsPrefix(PathOf(prefix), path)

(* Mutant of ScopedFallback: the first covering prefix wins.               *)
ScopedFallbackFirst(scoped, path) ==
    LET covering == SelectSeq(scoped, LAMBDA c : Covers(c.prefix, path))
    IN  IF covering = <<>> THEN NoHandler ELSE Head(covering).handler

ScopedFallback(scoped, path) ==
    LET covering == {k \in DOMAIN scoped : Covers(scoped[k].prefix, path)}
        longest  == {k \in covering : \A j \in covering :
                                        Len(scoped[j].prefix) <= Len(scoped[k].prefix)}
    IN  IF covering = {} THEN NoHandler ELSE scoped[CHOOSE k \in longest : TRUE].handler

(* What a mount's handler leaves of the path, for the text passed to Mount.*)
TrimPrefix(path, prefix) ==
    IF Covers(prefix, path) THEN SubSeq(path, Len(prefix) + 1, Len(path)) ELSE path

(* The handler of a 404 or 405: scoped, then the mux's own, then the one a *)
(* parent mux left in the context, then the default.                       *)
Fallback(scoped, own, inherited, default, path) ==
    LET sources == <<ScopedFallback(scoped, path), own, inherited, default>>
        first   == CHOOSE k \in 1..4 : /\ sources[k] # NoHandler \/ k = 4
                                      /\ \A j \in 1..(k - 1) : sources[j] = NoHandler
    IN  sources[first]

(* A route context on arrival: parameters bound by an outer match, and the *)
(* fallbacks of a parent mux.                                              *)
FreshContext == [params |-> <<>>, notFound |-> NoHandler, methodNotAllowed |-> NoHandler]

(* serveHTTP: which handler runs, with which route pattern, parameters and  *)
(* Allow header.                                                           *)
Serve(s, ctx, method, path) ==
    LET found   == Lookup(s, ctx.params, method, path)
        allowed == AllowedMethods(s, path)
        f       == s.fallbacks
    IN  CASE found.route # 0 ->
               [kind |-> "route", handler |-> s.routes[found.route].handler,
                pattern |-> s.routes[found.route].pattern,
                params |-> found.params, allow |-> {}]
          [] found.route = 0 /\ allowed # {} ->
               [kind |-> "405", params |-> found.params, allow |-> allowed,
                handler |-> Fallback(f.scopedMethodNA, f.methodNotAllowed,
                                     ctx.methodNotAllowed, Default405, path)]
          [] OTHER ->
               [kind |-> "404", params |-> found.params, allow |-> {},
                handler |-> Fallback(f.scopedNotFound, f.notFound,
                                     ctx.notFound, Default404, path)]

(* Mutant of OtherMethods: only exact routes are probed.                   *)
OtherExactMethods(s, method, path) ==
    {m \in DOMAIN s.dynamic \ {method, AnyMethod} : ExactAt(s, m, path) # {}}

(* The methods Resolve reports in a MethodMismatch.                        *)
OtherMethods(s, method, path) ==
    {m \in DOMAIN s.dynamic \ {method, AnyMethod} :
        ExactAt(s, m, path) # {} \/ MatchDynamic(s, <<>>, m, path).route # 0}

(* A path read as the text of a pattern, and the listed routes of some     *)
(* methods with a given text.                                              *)
AsText(path) == [k \in DOMAIN path |-> Static(path[k])]

Listed(s, methods, text) ==
    {i \in DOMAIN s.routes : s.routes[i].method \in methods /\ s.routes[i].pattern = text}

FirstListed(list) == CHOOSE i \in list : \A j \in list : i <= j

(* The bindings as a map: the last one of a name stays.                    *)
ParamsMap(params) ==
    [name \in {params[k].name : k \in DOMAIN params} |->
        LET own == {k \in DOMAIN params : params[k].name = name}
        IN  params[CHOOSE k \in own : \A j \in own : j <= k].value]

(* The metadata of the first listed route, with the handler looked up.     *)
Reported(s, list, handler, params) ==
    [kind |-> "MatchedRoute", pattern |-> s.routes[FirstListed(list)].pattern,
     handler |-> handler, params |-> ParamsMap(params)]

(* s.exact has the path and s.routes lists it.                             *)
ReportsExact(s, method, path) ==
    ExactAt(s, method, path) # {} /\ Listed(s, {method}, AsText(path)) # {}

ReportExact(s, method, path) ==
    Reported(s, Listed(s, {method}, AsText(path)),
             s.routes[CHOOSE i \in ExactAt(s, method, path) : TRUE].handler, <<>>)

ReportDynamic(s, method, path) ==
    LET found == MatchDynamic(s, <<>>, method, path)
        route == s.routes[found.route]
    IN  Reported(s, Listed(s, {method, AnyMethod}, route.pattern), route.handler, found.params)

ReportsDynamic(s, method, path) ==
    LET found == MatchDynamic(s, <<>>, method, path).route
    IN  found # 0 /\ Listed(s, {method, AnyMethod}, s.routes[found].pattern) # {}

ReportMismatch(s, method, path) ==
    LET allowed == OtherMethods(s, method, path)
    IN  [kind |-> IF allowed = {} THEN "RouteMissing" ELSE "MethodMismatch",
         allowed |-> allowed]

(* Mutant of Resolve: routes of any method come first.                     *)
ResolveAnyMethodFirst(s, method, path) ==
    CASE ReportsExact(s, AnyMethod, path)   -> ReportExact(s, AnyMethod, path)
      [] ~ReportsExact(s, AnyMethod, path) /\ ReportsExact(s, method, path) ->
           ReportExact(s, method, path)
      [] ~ReportsExact(s, AnyMethod, path) /\ ~ReportsExact(s, method, path)
         /\ ReportsDynamic(s, method, path) -> ReportDynamic(s, method, path)
      [] OTHER -> ReportMismatch(s, method, path)

(* Snapshot.Resolve for an upper-case method: its own lookup, in which a   *)
(* hit that is not listed falls through to the next.                       *)
Resolve(s, method, path) ==
    CASE ReportsExact(s, method, path) -> ReportExact(s, method, path)
      [] ~ReportsExact(s, method, path) /\ ReportsExact(s, AnyMethod, path) ->
           ReportExact(s, AnyMethod, path)
      [] ~ReportsExact(s, method, path) /\ ~ReportsExact(s, AnyMethod, path)
         /\ ReportsDynamic(s, method, path) -> ReportDynamic(s, method, path)
      [] OTHER -> ReportMismatch(s, method, path)
=============================================================================

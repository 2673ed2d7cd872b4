------------------------------ MODULE MuxWalk ------------------------------
(***************************************************************************)
(* What Walk says of a tree of routers, and what a request runs through on *)
(* its way down the same tree.                                             *)
(***************************************************************************)
EXTENDS RouteTable, MuxTree

CONSTANTS
    RegisteredMethods,  \* registeredMethods: Methods and the others known
    Paths               \* request paths

ASSUME MuxWalkAssumption ==
    /\ Methods \subseteq RegisteredMethods /\ AnyMethod \notin RegisteredMethods
    /\ Star = Wildcard(Unnamed)
    /\ \A part \in Parts : IsSegment(part)
    /\ Paths \subseteq Seq(Word) \ {<<>>}

SnapshotOf(router) == FillSnapshot(routes[router], NoFallbacks)

-----------------------------------------------------------------------------
(* Walk *)

(* Mutant of MiddlewaresOf: those of a mount's own chain are left out.     *)
MiddlewaresOfLeaf(router, route) ==
    muxes[router].middlewares \o
        (IF route.subRoutes = NoRouter THEN route.handler.middlewares ELSE <<>>)

(* Router.Middlewares and then those of the route's ChainHandler.          *)
MiddlewaresOf(router, route) == muxes[router].middlewares \o route.handler.middlewares

(* Snapshot.Routes: a "*" route that is no mounted router stands for every *)
(* registered method.                                                      *)
MethodsOf(route) ==
    IF route.method = AnyMethod THEN RegisteredMethods ELSE {route.method}

(* What walkRoutes lists of a route of router m that is no router, and of  *)
(* one whose router lists entries.                                         *)
Leaves(m, route) ==
    {[method |-> method, pattern |-> route.pattern, endpoint |-> route.handler.endpoint,
      middlewares |-> MiddlewaresOf(m, route)] : method \in MethodsOf(route)}

Beneath(m, route, entries) ==
    {[e EXCEPT !.pattern = route.pattern \o @,
               !.middlewares = MiddlewaresOf(m, route) \o @] : e \in entries}

(* walkRoutes below a router, the patterns not yet shortened.              *)
Listing[m \in Roots] ==
    UNION {IF route.subRoutes = NoRouter THEN Leaves(m, route)
           ELSE Beneath(m, route, Listing[route.subRoutes]) :
              route \in Range(SnapshotOf(m).routes)}

(* ReplaceAll of "/*/" by "/" in the first k parts, for every k.  Of two   *)
(* "*" in a row the second stays: the slash before it is already cut.      *)
Shortened(full) ==
    LET short[k \in 0..Len(full)] ==
          IF k = 0 THEN [text |-> <<>>, cut |-> FALSE]
          ELSE IF full[k] = Star /\ k < Len(full) /\ ~short[k - 1].cut
               THEN [text |-> short[k - 1].text, cut |-> TRUE]
               ELSE [text |-> Append(short[k - 1].text, full[k]), cut |-> FALSE]
    IN  short

WithoutMounts(full) == Shortened(full)[Len(full)].text

(* What Walk calls its function with for router 1.                         *)
Walk == {[e EXCEPT !.pattern = WithoutMounts(@)] : e \in Listing[1]}

-----------------------------------------------------------------------------
(* A request through the same routers: serveHTTP at each, inside the       *)
(* router's middlewares; the matched route's ChainHandler; and a mount's   *)
(* handler, which shifts the path.                                         *)
NoEndpoint == <<>>

ServeAt(snapshots, j, method) ==
    LET s     == snapshots[j.router]
        found == Lookup(s, <<>>, method, j.path).route
        rest  == TrimPrefix(j.path, s.routes[found].handler.mounted)
        ran   == j.ran \o muxes[j.router].middlewares
    IN  CASE found = 0 -> [j EXCEPT !.router = NoRouter, !.ran = ran]
          [] OTHER ->
               [router |-> s.routes[found].subRoutes,
                path |-> IF rest = <<>> THEN <<Blank>> ELSE rest,
                ran |-> ran \o s.routes[found].handler.middlewares,
                endpoint |-> IF s.routes[found].subRoutes = NoRouter
                             THEN s.routes[found].handler.endpoint ELSE NoEndpoint]

(* Where the request is after each number of hops.                         *)
Through(snapshots, method, path) ==
    LET after[hop \in 0..Routers] ==
          IF hop = 0 THEN [router |-> 1, path |-> path, ran |-> <<>>, endpoint |-> NoEndpoint]
          ELSE IF after[hop - 1].router = NoRouter THEN after[hop - 1]
               ELSE ServeAt(snapshots, after[hop - 1], method)
    IN  after

-----------------------------------------------------------------------------
(* A mount inside Route hands its router the whole path.                   *)
MountsOutsideRoute ==
    \A m \in Roots : \A i \in DOMAIN routes[m] :
        routes[m][i].subRoutes # NoRouter => muxes[routes[m][i].by].prefix = <<>>

(* Building a snapshot panics over a pattern that does not parse with the  *)
(* prefixes it got.                                                        *)
SnapshotsExist == \A m \in Roots : ~CompatibilityPanics(routes[m])

(* Unless a router is mounted inside Route, Walk lists every endpoint a    *)
(* request can reach, with its method, a route that describes the path (a  *)
(* trailing slash apart), and exactly the middlewares that ran before it,  *)
(* in the order in which they ran.                                         *)
WalkListsWhatRuns ==
    MountsOutsideRoute /\ SnapshotsExist =>
    \A walked \in {Walk}, snapshots \in {[m \in Roots |-> SnapshotOf(m)]},
       method \in RegisteredMethods, path \in Paths :
        LET t == Through(snapshots, method, path)[Routers]
        IN  t.endpoint # NoEndpoint =>
              \E e \in walked :
                 /\ e.endpoint = t.endpoint
                 /\ e.method = method
                 /\ e.middlewares = t.ran
                 /\ \E p \in {path, path \o <<Blank>>} : Describes(Segments(e.pattern), p)
=============================================================================

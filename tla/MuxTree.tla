------------------------------ MODULE MuxTree ------------------------------
(***************************************************************************)
(* Routers and the muxes made from them with With, Group and Route: which  *)
(* middlewares each mux collects, when Use panics, and what a registration *)
(* wraps its handler in.                                                   *)
(*                                                                         *)
(* Every mux made from a router has that router as its parent, whatever    *)
(* mux it was called on, and registers in the router's table.              *)
(***************************************************************************)
EXTENDS Naturals, Sequences

CONSTANTS
    Routers,        \* the muxes 1..Routers are made with NewRouter
    Methods,        \* methods of registrations other than Handle
    Patterns,       \* texts passed to Method and Handle
    RoutePrefixes,  \* texts passed to Route
    MountPrefixes,  \* texts passed to Mount, without a final slash
    Parts,          \* the parts texts are made of
    Star,           \* the part "*"
    MaxMuxes,       \* bound: muxes in all
    MaxRoutes,      \* bound: registrations in all
    MaxMiddlewares  \* bound: calls of Use and With

ASSUME MuxTreeAssumption ==
    /\ Routers \in Nat \ {0}
    /\ MaxMuxes \in Nat
    /\ MaxRoutes \in Nat
    /\ MaxMiddlewares \in Nat
    /\ "*" \notin Methods
    /\ Patterns \cup RoutePrefixes \cup MountPrefixes \subseteq Seq(Parts)
    /\ Star \in Parts

VARIABLES
    muxes,          \* every mux, in the order they were made
    routes,         \* the table of each router
    mounts,         \* the mounted paths of each router
    made            \* middlewares made so far; each is its number

vars == <<muxes, routes, mounts, made>>

Roots == 1..Routers
NoRouter == 0

(* middlewares is a router's own list, local that of a mux made from it.   *)
NewRouter(m) ==
    [root |-> m, prefix |-> <<>>, local |-> <<>>, middlewares |-> <<>>, sealed |-> FALSE]

Init ==
    /\ muxes = [m \in Roots |-> NewRouter(m)]
    /\ routes = [m \in Roots |-> <<>>]
    /\ mounts = [m \in Roots |-> {}]
    /\ made = 0

-----------------------------------------------------------------------------
(* Use on a sealed mux panics.                                             *)
Use(m) ==
    /\ made < MaxMiddlewares
    /\ ~muxes[m].sealed
    /\ made' = made + 1
    /\ muxes' = IF muxes[m].root = m
                THEN [muxes EXCEPT ![m].middlewares = Append(@, made + 1)]
                ELSE [muxes EXCEPT ![m].local = Append(@, made + 1)]
    /\ UNCHANGED <<routes, mounts>>

(* Mutant of ParentOf: the mux the call was made on is the parent.         *)
ParentItself(m) == m

ParentOf(m) == muxes[m].root

Child(m, prefix, middlewares) ==
    /\ Len(muxes) < MaxMuxes
    /\ muxes' = Append(muxes,
                  [NewRouter(ParentOf(m)) EXCEPT !.prefix = muxes[m].prefix \o prefix,
                                                   !.local = muxes[m].local \o middlewares])
    /\ UNCHANGED <<routes, mounts>>

With(m) ==
    /\ made < MaxMiddlewares
    /\ made' = made + 1
    /\ Child(m, <<>>, <<made + 1>>)

(* Group and Route run a function on the child; what it does are further   *)
(* steps.                                                                  *)
Group(m) == Child(m, <<>>, <<>>) /\ UNCHANGED made

Route(m, prefix) == Child(m, prefix, <<>>) /\ UNCHANGED made

Registrations == LET count[m \in 0..Routers] ==
                       IF m = 0 THEN 0 ELSE count[m - 1] + Len(routes[m])
                 IN  count[Routers]

(* Mutant of Seal: only a router is sealed.                                *)
SealRouter(m) == [muxes EXCEPT ![m].sealed = @ \/ muxes[m].root = m]

Seal(m) == [muxes EXCEPT ![m].sealed = TRUE]

(* Method and Handle.  The endpoint is told apart by where and when it was *)
(* registered; mounted is what a mount's handler keeps.  The code does not *)
(* keep by, the mux of the call.                                           *)
AddRoute(m, method, pattern, mounted, subRoutes) ==
    /\ Registrations < MaxRoutes
    /\ LET root    == muxes[m].root
           handler == [middlewares |-> muxes[m].local, mounted |-> mounted,
                       endpoint |-> <<root, Len(routes[root]) + 1>>]
       IN  routes' = [routes EXCEPT ![root] =
                        Append(@, [method |-> method, pattern |-> muxes[m].prefix \o pattern,
                                   handler |-> handler, subRoutes |-> subRoutes,
                                   by |-> m])]
    /\ muxes' = Seal(m)
    /\ UNCHANGED made

Method(m, method, pattern) ==
    AddRoute(m, method, pattern, <<>>, NoRouter) /\ UNCHANGED mounts

Handle(m, pattern) ==
    AddRoute(m, "*", pattern, <<>>, NoRouter) /\ UNCHANGED mounts

(* router is NoRouter for a handler that is no router.  Routers are        *)
(* mounted in earlier ones only.                                           *)
Mount(m, prefix, router) ==
    LET root == muxes[m].root
        path == muxes[m].prefix \o prefix
    IN  /\ router = NoRouter \/ root < router
        /\ path \notin mounts[root]
        /\ mounts' = [mounts EXCEPT ![root] = @ \cup {path}]
        /\ AddRoute(m, "*", Append(prefix, Star), prefix, router)

Next ==
    \E m \in DOMAIN muxes :
        \/ Use(m)
        \/ With(m)
        \/ Group(m)
        \/ \E prefix \in RoutePrefixes : Route(m, prefix)
        \/ \E method \in Methods, pattern \in Patterns : Method(m, method, pattern)
        \/ \E pattern \in Patterns : Handle(m, pattern)
        \/ \E prefix \in MountPrefixes, router \in Roots \cup {NoRouter} :
              Mount(m, prefix, router)

Spec == Init /\ [][Next]_vars

-----------------------------------------------------------------------------
Middlewares == Seq(Nat \ {0})

MuxType ==
    [root : Roots, prefix : Seq(Parts), local : Middlewares, middlewares : Middlewares,
     sealed : BOOLEAN]

RouteType ==
    [method : Methods \cup {"*"}, pattern : Seq(Parts),
     handler : [middlewares : Middlewares, mounted : Seq(Parts),
                endpoint : Roots \X (Nat \ {0})],
     subRoutes : Roots \cup {NoRouter}, by : Nat]

(* Types; a mux registers in its own router's table, and a router is       *)
(* mounted in earlier ones only.                                           *)
TypeOK ==
    /\ made \in Nat
    /\ muxes \in Seq(MuxType)
    /\ Roots \subseteq DOMAIN muxes
    /\ \A m \in Roots : muxes[m].root = m /\ muxes[m].local = <<>> /\ muxes[m].prefix = <<>>
    /\ routes \in [Roots -> Seq(RouteType)]
    /\ \A m \in Roots : \A i \in DOMAIN routes[m] :
          /\ routes[m][i].by \in DOMAIN muxes
          /\ muxes[routes[m][i].by].root = m
          /\ routes[m][i].subRoutes # NoRouter => m < routes[m][i].subRoutes
    /\ mounts \in [Roots -> SUBSET Seq(Parts)]

(* All routes registered through one mux are wrapped in the same           *)
(* middlewares, those the mux has now: Use adds none after its first       *)
(* route, and what is added to a mux does not reach the ones that With,    *)
(* Group or Route copied from it before (sealed, local).                   *)
RoutesShareTheirMiddlewares ==
    \A m \in Roots : \A i \in DOMAIN routes[m] :
        routes[m][i].handler.middlewares = muxes[routes[m][i].by].local
=============================================================================

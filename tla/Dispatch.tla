------------------------------ MODULE Dispatch ------------------------------
(***************************************************************************)
(* A gpchi Mux used by one goroutine: registrations on the root and on its *)
(* prefixed children, Compile, and requests.  Each call runs to its end.   *)
(***************************************************************************)
EXTENDS Precedence

CONSTANTS
    Methods,        \* registered upper-case methods
    Patterns,       \* texts passed to Method and Handle
    MuxPrefixes,    \* prefixes of the muxes that register routes; <<>> is the root's
    FallbackPrefixes, \* prefixes of the muxes that set 404 and 405 handlers
    Paths,          \* request paths
    Fallbacks,      \* how many different custom 404 and 405 handlers there are
    MaxRoutes,      \* bound: routes and custom fallbacks in all
    NoSnapshot      \* the nil snapshot pointer

Texts == Patterns \cup MuxPrefixes \cup FallbackPrefixes

(* Equal expressions accept the same parts; a literal has no braces, and   *)
(* the shape of a composite part is more than its placeholder.             *)
ToldApart(segments) ==
    \A s, t \in segments :
        /\ s.kind = "regex" /\ t.kind = "regex" /\ s.expression = t.expression
              => DOMAIN s.captures = DOMAIN t.captures
        /\ s.kind = "static" => s.literal \notin {"*", Hole}
        /\ s.kind = "regex" => s.shapeText \notin {"*", Hole}
        /\ s.kind = "static" /\ t.kind = "regex" /\ t.shapeText # Blank
              => s.literal # t.shapeText

ASSUME DispatchAssumption ==
    /\ AnyMethod \notin Methods
    /\ Fallbacks \in Nat
    /\ MaxRoutes \in Nat
    /\ \A text \in Texts : IsText(text)
    /\ ToldApart(UNION {Range(text) : text \in Texts})
    /\ Paths \subseteq Seq(Word) \ {<<>>}

VARIABLES
    routes,         \* root.routes
    fallbacks,      \* root.notFound, methodNotAllowed and the scoped handlers
    compiled,       \* root.compiled
    reply           \* what the latest call, if a request, was answered

vars == <<routes, fallbacks, compiled, reply>>

NoReply == [kind |-> "none"]

Custom(f) ==
    Len(f.scopedNotFound) + Len(f.scopedMethodNA)
      + Cardinality({h \in {f.notFound, f.methodNotAllowed} : h # NoHandler})

Init ==
    /\ routes = <<>>
    /\ fallbacks = NoFallbacks
    /\ compiled = NoSnapshot
    /\ reply = NoReply

-----------------------------------------------------------------------------
(* Only the text passed by the caller is parsed: the prefix is not.        *)
Register(method, prefix, pattern) ==
    /\ Len(routes) + Custom(fallbacks) < MaxRoutes
    /\ Parses(pattern)
    /\ routes' = Append(routes, [method |-> method, pattern |-> prefix \o pattern,
                                 handler |-> Handler("route", Len(routes) + 1)])
    /\ compiled' = NoSnapshot
    /\ reply' = NoReply
    /\ UNCHANGED fallbacks

Method(method, prefix, pattern) == Register(method, prefix, pattern)

Handle(prefix, pattern) == Register(AnyMethod, prefix, pattern)

ReplaceScopedHandler(scoped, prefix, handler) ==
    LET same == {k \in DOMAIN scoped : scoped[k].prefix = prefix}
    IN  IF same = {} THEN Append(scoped, [prefix |-> prefix, handler |-> handler])
        ELSE [k \in DOMAIN scoped |->
                IF k \in same THEN [scoped[k] EXCEPT !.handler = handler] ELSE scoped[k]]

NotFound(prefix, handler) ==
    /\ fallbacks' = IF prefix = <<>>
                    THEN [fallbacks EXCEPT !.notFound = handler]
                    ELSE [fallbacks EXCEPT !.scopedNotFound =
                                               ReplaceScopedHandler(@, prefix, handler)]
    /\ Len(routes) + Custom(fallbacks') <= MaxRoutes
    /\ compiled' = NoSnapshot
    /\ reply' = NoReply
    /\ UNCHANGED routes

MethodNotAllowed(prefix, handler) ==
    /\ fallbacks' = IF prefix = <<>>
                    THEN [fallbacks EXCEPT !.methodNotAllowed = handler]
                    ELSE [fallbacks EXCEPT !.scopedMethodNA =
                                               ReplaceScopedHandler(@, prefix, handler)]
    /\ Len(routes) + Custom(fallbacks') <= MaxRoutes
    /\ compiled' = NoSnapshot
    /\ reply' = NoReply
    /\ UNCHANGED routes

(* The public Compile publishes its snapshot only without conflicts.       *)
Compile ==
    /\ compiled' = IF HasConflicts(routes) THEN compiled
                   ELSE CompileSnapshot(routes, fallbacks)
    /\ reply' = NoReply
    /\ UNCHANGED <<routes, fallbacks>>

Answer(method, path, outcome) ==
    [method |-> method, path |-> path, kind |-> outcome.kind, handler |-> outcome.handler,
     params |-> outcome.params, allow |-> outcome.allow]

RequestPanics ==
    /\ compiled = NoSnapshot
    /\ CompatibilityPanics(routes)
    /\ reply' = [kind |-> "panic"]
    /\ UNCHANGED <<routes, fallbacks, compiled>>

Request(method, path) ==
    /\ compiled # NoSnapshot \/ ~CompatibilityPanics(routes)
    /\ LET s == IF compiled # NoSnapshot THEN compiled ELSE FillSnapshot(routes, fallbacks)
       IN  /\ compiled' = s
           /\ reply' = Answer(method, path, Serve(s, FreshContext, method, path))
    /\ UNCHANGED <<routes, fallbacks>>

Next ==
    \/ \E prefix \in MuxPrefixes, pattern \in Patterns :
          \/ \E method \in Methods : Method(method, prefix, pattern)
          \/ Handle(prefix, pattern)
    \/ \E prefix \in FallbackPrefixes, n \in 1..Fallbacks :
          \/ NotFound(prefix, Handler("404", n))
          \/ MethodNotAllowed(prefix, Handler("405", n))
    \/ Compile
    \/ RequestPanics
    \/ \E method \in Methods, path \in Paths : Request(method, path)

Spec == Init /\ [][Next]_vars

-----------------------------------------------------------------------------
Answered == reply.kind \in {"route", "404", "405"}

-----------------------------------------------------------------------------
(* The cached snapshot and the last reply are well formed.                 *)
TypeOK ==
    /\ \A i \in DOMAIN routes :
          /\ routes[i].method \in Methods \cup {AnyMethod}
          /\ \E prefix \in MuxPrefixes, pattern \in Patterns :
                routes[i].pattern = prefix \o pattern
    /\ fallbacks.notFound.nth \in 0..Fallbacks
    /\ fallbacks.methodNotAllowed.nth \in 0..Fallbacks
    /\ compiled # NoSnapshot =>
          /\ Len(compiled.routes) <= Len(routes)
          /\ \A i \in DOMAIN compiled.routes : Parses(compiled.routes[i].pattern)
    /\ reply.kind \in {"none", "panic", "route", "404", "405"}

(* Whatever was cached and whichever way the snapshot was built, a request *)
(* runs the handler the registration table ranks first among the patterns  *)
(* that describe its path (router_gp.go serveHTTP, match, compile,         *)
(* compatibilitySnapshot).                                                 *)
DispatchesToRankedWinner ==
    Answered =>
        LET candidates == Candidates(routes, reply.method, reply.path)
        IN  IF candidates = {} THEN reply.kind # "route"
            ELSE reply.handler = routes[Winner(routes, reply.method, reply.path)].handler

(* A 405 names in Allow exactly the methods whose request for that path    *)
(* would reach a route, and a 404 is given only when there is none         *)
(* (allowedMethods against serveHTTP's own lookup).                        *)
AllowIsExactlyWhatWouldBeServed ==
    Answered /\ reply.kind # "route" =>
        LET served == {m \in Methods : Candidates(routes, m, reply.path) # {}}
        IN  reply.allow = served /\ (reply.kind = "405" <=> served # {})

(* The parameters of a routed request are those of its own pattern, in     *)
(* order, and give its path back: nothing is left over from the candidates *)
(* tried before (matchRoute's fail()); an unrouted one binds none.         *)
ParametersRebuildThePath ==
    /\ reply.kind = "route" =>
          \E r \in {routes[i] : i \in DOMAIN routes} :
             r.handler = reply.handler /\ Rebuilds(SegmentsOf(r), reply.params, reply.path)
    /\ reply.kind \in {"404", "405"} => reply.params = <<>>

(* Snapshot.Resolve, which looks the route up in its own way and runs no   *)
(* handler, predicts what ServeHTTP on the same snapshot did: the handler, *)
(* the pattern it was registered with, every parameter, and else the same  *)
(* allowed methods.                                                        *)
ResolvePredictsServe ==
    Answered =>
        LET answer == Resolve(compiled, reply.method, reply.path)
            names  == {reply.params[k].name : k \in DOMAIN reply.params}
        IN  CASE reply.kind = "route" ->
                   /\ answer.kind = "MatchedRoute" /\ answer.handler = reply.handler
                   /\ \E i \in DOMAIN routes :
                         routes[i].handler = reply.handler /\ routes[i].pattern = answer.pattern
                   /\ DOMAIN answer.params = names
                   /\ \A k \in DOMAIN reply.params :
                         answer.params[reply.params[k].name] = reply.params[k].value
              [] reply.kind = "405" ->
                   answer = [kind |-> "MethodMismatch", allowed |-> reply.allow]
              [] OTHER -> answer = [kind |-> "RouteMissing", allowed |-> {}]

(* Without conflicts the two ways of building a snapshot agree, so a mux   *)
(* answers alike whether Compile published it or a request filled it.      *)
CompatibilityAgreesWithoutConflicts ==
    ~HasConflicts(routes) =>
        CompatibilitySnapshot(routes, fallbacks) = CompileSnapshot(routes, fallbacks)

(* Composite parts of one shape with different constraints.                *)
DifferInComposite(a, b) ==
    \E k \in DOMAIN a \cap DOMAIN b :
        /\ a[k].kind = "regex" /\ a[k].shapeText # Blank
        /\ b[k].kind = "regex" /\ a[k].expression # b[k].expression

(* A path that some registration for its method describes is answered 404  *)
(* or 405 only if a later registration replaced that one although a        *)
(* composite part of theirs differs in its constraint; otherwise           *)
(* replacement drops a route only for one that accepts the same paths      *)
(* (compatibilityShape, compatibilitySnapshot).                            *)
DescribedPathsAreRouted ==
    Answered /\ reply.kind # "route" =>
        \A i \in DOMAIN routes :
            /\ routes[i].method \in {reply.method, AnyMethod}
            /\ Describes(SegmentsOf(routes[i]), reply.path)
            => \E j \in Alike(routes, i) :
                  j > i /\ DifferInComposite(SegmentsOf(routes[i]), SegmentsOf(routes[j]))

(* A 404 or 405 under literal prefixes with handlers of their own goes to  *)
(* the one of the longest such prefix, as last set, and elsewhere to the   *)
(* mux's handler; a prefix with a placeholder never gets one               *)
(* (scopedFallback, replaceScopedHandler, serveHTTP).                      *)
NearestFallbackAnswers ==
    Answered /\ reply.kind # "route" =>
        LET missing == reply.kind = "404"
            scoped  == IF missing THEN fallbacks.scopedNotFound ELSE fallbacks.scopedMethodNA
            own     == IF missing THEN fallbacks.notFound ELSE fallbacks.methodNotAllowed
            default == IF missing THEN Default404 ELSE Default405
            above   == {k \in DOMAIN scoped :
                           /\ Len(scoped[k].prefix) <= Len(reply.path)
                           /\ \A n \in DOMAIN scoped[k].prefix :
                                 scoped[k].prefix[n] = Static(reply.path[n])}
        IN  IF above # {}
            THEN \E k \in above :
                    /\ reply.handler = scoped[k].handler
                    /\ \A j \in above : Len(scoped[j].prefix) <= Len(scoped[k].prefix)
            ELSE reply.handler = IF own # NoHandler THEN own ELSE default
=============================================================================

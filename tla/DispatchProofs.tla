--------------------------- MODULE DispatchProofs ---------------------------
(***************************************************************************)
(* What a mux answers, for any patterns, prefixes, paths and number of     *)
(* calls.                                                                  *)
(***************************************************************************)
EXTENDS Dispatch, RouteTableProofs

(* The texts a registration can have.                                      *)
Prefixed == {prefix \o pattern : prefix \in MuxPrefixes, pattern \in Patterns}

(* A registration of this mux.                                             *)
Registration ==
    [method : Methods \cup {AnyMethod}, pattern : Prefixed, handler : {Handler("route", n) : n \in Nat}]

(* The custom 404 or 405 handlers.                                         *)
Numbered(role) == {Handler(role, n) : n \in 1..Fallbacks}

(* The handlers of prefixed muxes.                                         *)
ScopedFallbacks(role) == Seq([prefix : FallbackPrefixes, handler : Numbered(role)])

(* Only custom handlers of its own kind are in each place.                 *)
FallbacksOK ==
    fallbacks \in [notFound : Numbered("404") \cup {NoHandler},
                   methodNotAllowed : Numbered("405") \cup {NoHandler},
                   scopedNotFound : ScopedFallbacks("404"),
                   scopedMethodNA : ScopedFallbacks("405")]

(* compatibilitySnapshot would not panic.                                  *)
Parsable == \A i \in DOMAIN routes : Parses(routes[i].pattern)

(* A cached snapshot is what FillSnapshot makes of the registrations now.  *)
Current == Parsable /\ compiled = FillSnapshot(routes, fallbacks)

(* The last reply is the answer of the cached snapshot.                    *)
AnsweredFromTable ==
    /\ Current
    /\ reply.method \in Methods /\ reply.path \in Paths
    /\ reply = Answer(reply.method, reply.path,
                      Serve(compiled, FreshContext, reply.method, reply.path))

(* The inductive invariant. A snapshot published by Compile, or filled by  *)
(* a request, is a function of the current registrations as long as it is  *)
(* cached, and so is the last answer.                                      *)
IInv ==
    /\ routes \in Seq(Registration)
    /\ FallbacksOK
    /\ compiled # NoSnapshot => Current
    /\ reply.kind \in {"none", "panic", "route", "404", "405"}
    /\ Answered => AnsweredFromTable

(* What DispatchAssumption says of the texts holds of the prefixed ones.   *)
LEMMA PrefixedTexts ==
    ASSUME NEW text \in Prefixed
    PROVE  /\ IsText(text)
           /\ \A k \in DOMAIN text : text[k] \in UNION {Range(t) : t \in Texts}
<1>1. PICK a \in MuxPrefixes, b \in Patterns : text = a \o b
  BY DEF Prefixed
<1>2. a \in Texts /\ b \in Texts /\ IsText(a) /\ IsText(b)
  BY DispatchAssumption DEF Texts
<1>3. IsText(text) /\ \A k \in DOMAIN text : text[k] \in Range(a) \cup Range(b)
  BY <1>1, <1>2, ConcatIsText
<1>. QED  BY <1>2, <1>3

(* The registrations of a parsable table, as the lemmas about tables take them.*)
LEMMA TableParsed ==
    ASSUME routes \in Seq(Registration), Parsable
    PROVE  /\ Parsed(Range(routes)) /\ routes \in Seq(Range(routes))
           /\ \A i \in 1..Len(routes) : routes[i].method \in Methods \cup {AnyMethod}
<1>1. /\ DOMAIN routes = 1..Len(routes) /\ Len(routes) \in Nat
      /\ routes = [i \in 1..Len(routes) |-> routes[i]]
      /\ \A i \in 1..Len(routes) : routes[i] \in Registration
  BY LenProperties, ElementOfSeq
<1>2. \A i \in 1..Len(routes) : routes[i].method \in Methods \cup {AnyMethod}
                                  /\ routes[i].pattern \in Prefixed
  BY <1>1 DEF Registration
<1>3. \A i \in 1..Len(routes) : IsText(routes[i].pattern) /\ Parses(routes[i].pattern)
  BY <1>1, <1>2, PrefixedTexts DEF Parsable
<1>4. Range(routes) = {routes[i] : i \in 1..Len(routes)}
  BY <1>1 DEF Range
<1>5. Parsed(Range(routes))
  BY <1>3, <1>4 DEF Parsed
<1>6. routes \in Seq(Range(routes))
  <2>1. \A i \in 1..Len(routes) : routes[i] \in Range(routes)
    BY <1>4
  <2>. QED  BY <1>1, <2>1, SeqDef
<1>. QED  BY <1>2, <1>5, <1>6

-----------------------------------------------------------------------------

(* Compile publishes what a request would fill in.                         *)
LEMMA NoConflictsFill ==
    ASSUME routes \in Seq(Registration), ~HasConflicts(routes)
    PROVE  Parsable /\ CompileSnapshot(routes, fallbacks) = FillSnapshot(routes, fallbacks)
<1>1. \A i \in 1..Len(routes) : Parses(routes[i].pattern)
  BY NoConflictsApart
<1>2. DOMAIN routes = 1..Len(routes)
  BY LenProperties
<1>. QED  BY <1>1, <1>2 DEF Parsable, FillSnapshot

(* Setting a handler for a prefix again replaces it.                       *)
LEMMA ReplaceScopedType ==
    ASSUME NEW role, NEW scoped \in ScopedFallbacks(role), NEW prefix \in FallbackPrefixes,
           NEW handler \in Numbered(role)
    PROVE  ReplaceScopedHandler(scoped, prefix, handler) \in ScopedFallbacks(role)
<1> DEFINE C == [prefix : FallbackPrefixes, handler : Numbered(role)]
           same == {k \in DOMAIN scoped : scoped[k].prefix = prefix}
           value(k) == IF k \in same THEN [scoped[k] EXCEPT !.handler = handler] ELSE scoped[k]
<1>1. scoped \in Seq(C)
  BY DEF ScopedFallbacks
<1>2. DOMAIN scoped = 1..Len(scoped) /\ Len(scoped) \in Nat /\ \A k \in 1..Len(scoped) : scoped[k] \in C
  BY <1>1, LenProperties, ElementOfSeq
<1>3. [prefix |-> prefix, handler |-> handler] \in C
  OBVIOUS
<1> HIDE DEF same
<1>4. \A k \in 1..Len(scoped) : value(k) \in C
  <2>1. \A c \in C : [c EXCEPT !.handler = handler] \in C
    OBVIOUS
  <2> HIDE DEF C
  <2>. QED  BY <1>2, <2>1
<1> HIDE DEF C, value
<1>5. Append(scoped, [prefix |-> prefix, handler |-> handler]) \in Seq(C)
  BY <1>1, <1>3, AppendProperties
<1>6. [k \in DOMAIN scoped |-> value(k)] \in Seq(C)
  BY <1>2, <1>4, SeqDef
<1>7. \/ ReplaceScopedHandler(scoped, prefix, handler) =
           Append(scoped, [prefix |-> prefix, handler |-> handler])
      \/ ReplaceScopedHandler(scoped, prefix, handler) = [k \in DOMAIN scoped |-> value(k)]
  BY DEF ReplaceScopedHandler, same, value
<1>. QED  BY <1>5, <1>6, <1>7 DEF ScopedFallbacks, C

(* A request is answered by a route, a 404 or a 405.                       *)
LEMMA ServedKinds ==
    ASSUME NEW s, NEW method, NEW path
    PROVE  Serve(s, FreshContext, method, path).kind \in {"route", "404", "405"}
BY DEF Serve

(* The fields of a reply.                                                  *)
LEMMA AnsweredFields ==
    ASSUME NEW method, NEW path, NEW outcome
    PROVE  LET r == Answer(method, path, outcome)
           IN  /\ r.method = method /\ r.path = path /\ r.kind = outcome.kind
               /\ r.handler = outcome.handler /\ r.params = outcome.params
               /\ r.allow = outcome.allow
BY DEF Answer

(* Nothing is registered, cached or answered (NewMux, router_gp.go).       *)
THEOREM InitIInv == Init => IInv
<1> SUFFICES ASSUME Init PROVE IInv
  OBVIOUS
<1>1. routes \in Seq(Registration)
  BY EmptySeq DEF Init
<1>2. FallbacksOK
  <2>1. <<>> \in ScopedFallbacks("404") /\ <<>> \in ScopedFallbacks("405")
    BY EmptySeq DEF ScopedFallbacks
  <2>. QED  BY <2>1 DEF Init, NoFallbacks, FallbacksOK
<1>3. compiled = NoSnapshot /\ reply.kind = "none"
  BY DEF Init, NoReply
<1>. QED  BY <1>1, <1>2, <1>3 DEF IInv, Answered

(* A registration drops the snapshot (Method and Handle, router_gp.go).    *)
LEMMA RegisterIInv ==
    ASSUME IInv, NEW method \in Methods \cup {AnyMethod}, NEW prefix \in MuxPrefixes,
           NEW pattern \in Patterns, Register(method, prefix, pattern)
    PROVE  IInv'
<1> DEFINE r == [method |-> method, pattern |-> prefix \o pattern,
                 handler |-> Handler("route", Len(routes) + 1)]
<1>1. routes' = Append(routes, r) /\ fallbacks' = fallbacks /\ compiled' = NoSnapshot /\ reply' = NoReply
  BY DEF Register
<1>2. r \in Registration
  <2>1. prefix \o pattern \in Prefixed
    BY DEF Prefixed
  <2>2. Handler("route", Len(routes) + 1) \in {Handler("route", n) : n \in Nat}
    <3>1. Len(routes) + 1 \in Nat
      BY LenProperties DEF IInv
    <3>. QED  BY <3>1
  <2>. QED  BY <2>1, <2>2 DEF Registration
<1> HIDE DEF r
<1>3. routes' \in Seq(Registration)
  BY <1>1, <1>2, AppendProperties DEF IInv
<1>4. FallbacksOK'
  BY <1>1 DEF IInv, FallbacksOK
<1>5. reply'.kind = "none"
  BY <1>1 DEF NoReply
<1>. QED  BY <1>1, <1>3, <1>4, <1>5 DEF IInv, Answered

(* So does a custom 404 or 405 handler (NotFound and MethodNotAllowed,     *)
(* router_gp.go).                                                          *)
LEMMA FallbackIInv ==
    ASSUME IInv, NEW prefix \in FallbackPrefixes, NEW n \in 1..Fallbacks,
           NotFound(prefix, Handler("404", n)) \/ MethodNotAllowed(prefix, Handler("405", n))
    PROVE  IInv'
<1>1. routes' = routes /\ compiled' = NoSnapshot /\ reply' = NoReply
  BY DEF NotFound, MethodNotAllowed
<1>2. Handler("404", n) \in Numbered("404") /\ Handler("405", n) \in Numbered("405")
  BY DEF Numbered
<1>3. FallbacksOK
  BY DEF IInv
<1>4. /\ fallbacks.scopedNotFound \in ScopedFallbacks("404")
      /\ fallbacks.scopedMethodNA \in ScopedFallbacks("405")
  BY <1>3 DEF FallbacksOK
<1>5. FallbacksOK'
  <2>1. CASE NotFound(prefix, Handler("404", n))
    <3> DEFINE h == Handler("404", n)
               scoped == ReplaceScopedHandler(fallbacks.scopedNotFound, prefix, h)
    <3>1. scoped \in ScopedFallbacks("404")
      BY <1>2, <1>4, ReplaceScopedType
    <3>2. fallbacks' = [fallbacks EXCEPT !.notFound = h] \/ fallbacks' = [fallbacks EXCEPT !.scopedNotFound = scoped]
      BY <2>1 DEF NotFound
    <3> HIDE DEF h, scoped
    <3>3. h \in Numbered("404")
      BY <1>2 DEF h
    <3>. QED  BY <1>3, <3>1, <3>2, <3>3 DEF FallbacksOK
  <2>2. CASE MethodNotAllowed(prefix, Handler("405", n))
    <3> DEFINE h == Handler("405", n)
               scoped == ReplaceScopedHandler(fallbacks.scopedMethodNA, prefix, h)
    <3>1. scoped \in ScopedFallbacks("405")
      BY <1>2, <1>4, ReplaceScopedType
    <3>2. fallbacks' = [fallbacks EXCEPT !.methodNotAllowed = h] \/ fallbacks' = [fallbacks EXCEPT !.scopedMethodNA = scoped]
      BY <2>2 DEF MethodNotAllowed
    <3> HIDE DEF h, scoped
    <3>3. h \in Numbered("405")
      BY <1>2 DEF h
    <3>. QED  BY <1>3, <3>1, <3>2, <3>3 DEF FallbacksOK
  <2>. QED  BY <2>1, <2>2
<1>6. reply'.kind = "none"
  BY <1>1 DEF NoReply
<1>. QED  BY <1>1, <1>5, <1>6 DEF IInv, Answered

(* Compile publishes a current snapshot or leaves the cached one.          *)
LEMMA CompileIInv ==
    ASSUME IInv, Compile
    PROVE  IInv'
<1>1. routes' = routes /\ fallbacks' = fallbacks /\ reply' = NoReply
  BY DEF Compile
<1>2. reply'.kind = "none"
  BY <1>1 DEF NoReply
<1>3. routes' \in Seq(Registration) /\ FallbacksOK'
  BY <1>1 DEF IInv, FallbacksOK
<1>4. CASE HasConflicts(routes)
  <2>1. compiled' = compiled
    BY <1>4 DEF Compile
  <2>2. compiled' # NoSnapshot => Current'
    BY <1>1, <2>1 DEF IInv, Current, Parsable
  <2>. QED  BY <1>2, <1>3, <2>2 DEF IInv, Answered
<1>5. CASE ~HasConflicts(routes)
  <2>1. Parsable /\ compiled' = FillSnapshot(routes, fallbacks)
    BY <1>5, NoConflictsFill DEF Compile, IInv
  <2>2. Current'
    BY <1>1, <2>1 DEF Current, Parsable
  <2>. QED  BY <1>2, <1>3, <2>2 DEF IInv, Answered
<1>. QED  BY <1>4, <1>5

(* A request answers from the cached snapshot, or fills it first.          *)
LEMMA RequestIInv ==
    ASSUME IInv, NEW method \in Methods, NEW path \in Paths, Request(method, path)
    PROVE  IInv'
<1> DEFINE s == IF compiled # NoSnapshot THEN compiled ELSE FillSnapshot(routes, fallbacks)
           o == Serve(s, FreshContext, method, path)
<1>1. /\ routes' = routes /\ fallbacks' = fallbacks /\ compiled' = s
      /\ reply' = Answer(method, path, o)
      /\ compiled # NoSnapshot \/ ~CompatibilityPanics(routes)
  BY DEF Request
<1>2. Parsable /\ s = FillSnapshot(routes, fallbacks)
  BY <1>1 DEF IInv, Current, CompatibilityPanics, Parsable
<1>3. o.kind \in {"route", "404", "405"}
  BY ServedKinds
<1> HIDE DEF s
<1>4. Current'
  BY <1>1, <1>2 DEF Current, Parsable
<1>5. o = Serve(compiled', FreshContext, method, path)
  BY <1>1
<1> HIDE DEF o
<1>6. reply'.kind = o.kind /\ reply'.method = method /\ reply'.path = path
  BY <1>1, AnsweredFields
<1>7. AnsweredFromTable'
  BY <1>1, <1>4, <1>5, <1>6 DEF AnsweredFromTable
<1>8. routes' \in Seq(Registration) /\ FallbacksOK'
  BY <1>1 DEF IInv, FallbacksOK
<1>. QED  BY <1>3, <1>4, <1>6, <1>7, <1>8 DEF IInv

(* Every call keeps the inductive invariant: whatever was registered,      *)
(* compiled and requested in whatever order, the cache never answers from  *)
(* an older table (snapshot, invalidate, router_gp.go).                    *)
THEOREM NextIInv == IInv /\ [Next]_vars => IInv'
<1> SUFFICES ASSUME IInv, [Next]_vars PROVE IInv'
  OBVIOUS
<1>1. CASE \E prefix \in MuxPrefixes, pattern \in Patterns :
              \/ \E method \in Methods : Method(method, prefix, pattern)
              \/ Handle(prefix, pattern)
  BY <1>1, RegisterIInv DEF Method, Handle
<1>2. CASE \E prefix \in FallbackPrefixes, n \in 1..Fallbacks :
              \/ NotFound(prefix, Handler("404", n))
              \/ MethodNotAllowed(prefix, Handler("405", n))
  BY <1>2, FallbackIInv
<1>3. CASE Compile
  BY <1>3, CompileIInv
<1>4. CASE RequestPanics
  <2>1. UNCHANGED <<routes, fallbacks, compiled>> /\ reply'.kind = "panic"
    BY <1>4 DEF RequestPanics
  <2>. QED  BY <2>1 DEF IInv, FallbacksOK, Current, Parsable, Answered
<1>5. CASE \E method \in Methods, path \in Paths : Request(method, path)
  BY <1>5, RequestIInv
<1>6. CASE UNCHANGED vars
  BY <1>6 DEF vars, IInv, FallbacksOK, Current, Parsable, Answered, AnsweredFromTable
<1>. QED  BY <1>1, <1>2, <1>3, <1>4, <1>5, <1>6 DEF Next

(* A mux used by one goroutine always answers from a snapshot of its       *)
(* current registrations (snapshot, Compile, serveHTTP, router_gp.go).     *)
THEOREM Invariance == Spec => []IInv
<1>. QED  BY InitIInv, NextIInv, PTL DEF Spec

-----------------------------------------------------------------------------

(* What an answer says of the table it came from.                          *)
LEMMA AnswerIs ==
    ASSUME IInv, Answered
    PROVE  LET C == Candidates(routes, reply.method, reply.path)
               w == Winner(routes, reply.method, reply.path)
               f == fallbacks
               served == {m \in Methods : Candidates(routes, m, reply.path) # {}}
           IN  \/ /\ reply.kind = "route" /\ C # {} /\ w \in C /\ w \in 1..Len(routes)
                  /\ reply.handler = routes[w].handler
                  /\ Serves(routes[w], reply.method, reply.path)
                  /\ reply.params =
                        IF IsExact(routes[w].pattern) THEN <<>>
                        ELSE MatchRoute(SegmentsOf(routes[w]), reply.path, <<>>).params
                  /\ Resolve(compiled, reply.method, reply.path) =
                        [kind |-> "MatchedRoute", pattern |-> routes[w].pattern,
                         handler |-> reply.handler, params |-> ParamsMap(reply.params)]
               \/ /\ reply.kind = IF served # {} THEN "405" ELSE "404"
                  /\ C = {} /\ reply.allow = served /\ reply.params = <<>>
                  /\ reply.handler =
                        IF served # {}
                        THEN Fallback(f.scopedMethodNA, f.methodNotAllowed, NoHandler,
                                      Default405, reply.path)
                        ELSE Fallback(f.scopedNotFound, f.notFound, NoHandler,
                                      Default404, reply.path)
                  /\ Resolve(compiled, reply.method, reply.path) =
                        [kind |-> IF served = {} THEN "RouteMissing" ELSE "MethodMismatch",
                         allowed |-> served]
<1> DEFINE s == compiled
           m == reply.method
           p == reply.path
           R == Range(routes)
           C == Candidates(routes, m, p)
           w == Winner(routes, m, p)
           served == {x \in Methods : Candidates(routes, x, p) # {}}
           found == Lookup(s, <<>>, m, p)
           o == Serve(s, FreshContext, m, p)
<1>1. /\ routes \in Seq(Registration) /\ AnsweredFromTable /\ Parsable
      /\ s = FillSnapshot(routes, fallbacks) /\ m \in Methods /\ p \in Paths
  BY DEF IInv, AnsweredFromTable, Current
<1>2. /\ Parsed(R) /\ routes \in Seq(R)
      /\ \A i \in 1..Len(routes) : routes[i].method \in Methods \cup {AnyMethod}
  BY <1>1, TableParsed
<1>3. p \in Seq(Word) \ {<<>>} /\ AnyMethod \notin Methods /\ m # AnyMethod
  BY <1>1, DispatchAssumption
<1>4. Filled(s, Kept(routes)) /\ s.fallbacks = fallbacks
  <2>1. s = [routes |-> Kept(routes), fallbacks |-> fallbacks,
             dynamic |-> [x \in {r.method : r \in Range(Kept(routes))} |-> Dynamic(Kept(routes), x)]]
    BY <1>1, <1>2, FilledFromKept
  <2>. QED  BY <2>1 DEF Filled
<1>5. <<>> \in Seq(Binding)
  BY EmptySeq
<1> HIDE DEF R
<1>6. \/ found.route = 0 /\ found.params = <<>> /\ C = {}
      \/ /\ found.route \in Nat \ {0} /\ w \in C /\ w \in 1..Len(routes)
         /\ s.routes[found.route] = routes[w] /\ Serves(routes[w], m, p)
         /\ found.params = IF IsExact(routes[w].pattern) THEN <<>>
                           ELSE MatchRoute(SegmentsOf(routes[w]), p, <<>>).params
  <2> HIDE DEF s, m, p
  <2>1. FindsWinner(routes, s, m, p, <<>>, Lookup(s, <<>>, m, p))
    BY <1>2, <1>3, <1>4, <1>5, LookupIsWinner
  <2>. QED  BY <2>1 DEF FindsWinner
<1>7. FreshContext.params = <<>> /\ FreshContext.notFound = NoHandler /\ FreshContext.methodNotAllowed = NoHandler
  BY DEF FreshContext
<1>8. /\ reply.kind = o.kind /\ reply.handler = o.handler /\ reply.params = o.params
      /\ reply.allow = o.allow
  <2>1. reply = Answer(m, p, o)
    BY <1>1 DEF AnsweredFromTable
  <2> HIDE DEF m, p, o
  <2>. QED  BY <2>1, AnsweredFields
<1>11. Resolve(s, m, p) =
          IF found.route # 0
          THEN [kind |-> "MatchedRoute", pattern |-> s.routes[found.route].pattern,
                handler |-> s.routes[found.route].handler, params |-> ParamsMap(found.params)]
          ELSE ReportMismatch(s, m, p)
  <2>1. Kept(routes) \in Seq(R)
    BY <1>2, KeptTable
  <2> HIDE DEF s, m, p
  <2>. QED  BY <1>2, <1>3, <1>4, <2>1, ResolveIs
<1>9. CASE found.route # 0
  <2>1. /\ found.route \in Nat \ {0} /\ w \in C /\ w \in 1..Len(routes)
        /\ s.routes[found.route] = routes[w] /\ Serves(routes[w], m, p)
        /\ found.params = IF IsExact(routes[w].pattern) THEN <<>>
                          ELSE MatchRoute(SegmentsOf(routes[w]), p, <<>>).params
    BY <1>6, <1>9
  <2>2. o = [kind |-> "route", handler |-> s.routes[found.route].handler,
             pattern |-> s.routes[found.route].pattern,
             params |-> found.params, allow |-> {}]
    BY <1>7, <1>9 DEF Serve
  <2>3. Resolve(s, m, p) =
           [kind |-> "MatchedRoute", pattern |-> s.routes[found.route].pattern,
            handler |-> s.routes[found.route].handler, params |-> ParamsMap(found.params)]
    BY <1>9, <1>11
  <2> HIDE DEF found, o, s, m, p, w, C
  <2>4. o.kind = "route" /\ o.handler = routes[w].handler /\ o.params = found.params
    BY <2>1, <2>2
  <2>5. Resolve(s, m, p) =
           [kind |-> "MatchedRoute", pattern |-> routes[w].pattern,
            handler |-> reply.handler, params |-> ParamsMap(reply.params)]
    BY <1>8, <2>1, <2>3, <2>4
  <2>. QED  BY <1>8, <2>1, <2>4, <2>5 DEF s, m, p, w, C
<1>10. CASE found.route = 0
  <2>1. C = {} /\ found.params = <<>>
    BY <1>6, <1>10
  <2>2. AllowedMethods(s, p) = served /\ OtherMethods(s, m, p) = served
    <3>1. Candidates(routes, m, p) = {}
      BY <2>1
    <3>2. /\ AllowedMethods(s, p) = {x \in Methods : Candidates(routes, x, p) # {}}
          /\ OtherMethods(s, m, p) = AllowedMethods(s, p)
      <4> HIDE DEF s, m, p, C
      <4>. QED  BY <1>1, <1>2, <1>3, <1>4, <3>1, ProbesFindTheServed
    <3>. QED  BY <3>2
  <2>3. o = IF served # {}
            THEN [kind |-> "405", params |-> found.params, allow |-> served,
                  handler |-> Fallback(fallbacks.scopedMethodNA, fallbacks.methodNotAllowed,
                                       NoHandler, Default405, p)]
            ELSE [kind |-> "404", params |-> found.params, allow |-> {},
                  handler |-> Fallback(fallbacks.scopedNotFound, fallbacks.notFound,
                                       NoHandler, Default404, p)]
    <3> HIDE DEF served
    <3>. QED  BY <1>4, <1>7, <1>10, <2>2 DEF Serve
  <2>4. Resolve(s, m, p) = [kind |-> IF served = {} THEN "RouteMissing" ELSE "MethodMismatch",
                            allowed |-> served]
    <3> HIDE DEF served
    <3>. QED  BY <1>10, <1>11, <2>2 DEF ReportMismatch
  <2> HIDE DEF found, o, s, C, served
  <2>5. /\ o.kind = (IF served # {} THEN "405" ELSE "404")
        /\ o.params = <<>> /\ o.allow = served
        /\ o.handler =
              IF served # {}
              THEN Fallback(fallbacks.scopedMethodNA, fallbacks.methodNotAllowed, NoHandler,
                            Default405, p)
              ELSE Fallback(fallbacks.scopedNotFound, fallbacks.notFound, NoHandler,
                            Default404, p)
    BY <2>1, <2>3
  <2>. QED  BY <1>8, <2>1, <2>4, <2>5 DEF s, C, served
<1>. QED  BY <1>9, <1>10

(* The type invariant follows.                                             *)
LEMMA IInvTypeOK == IInv => TypeOK
<1> SUFFICES ASSUME IInv PROVE TypeOK
  OBVIOUS
<1>1. DOMAIN routes = 1..Len(routes) /\ Len(routes) \in Nat
      /\ \A i \in 1..Len(routes) : routes[i] \in Registration
  BY LenProperties, ElementOfSeq DEF IInv
<1>2. \A i \in 1..Len(routes) :
         /\ routes[i].method \in Methods \cup {AnyMethod}
         /\ \E prefix \in MuxPrefixes, pattern \in Patterns : routes[i].pattern = prefix \o pattern
  <2>1. ASSUME NEW i \in 1..Len(routes)
        PROVE  routes[i].method \in Methods \cup {AnyMethod} /\ routes[i].pattern \in Prefixed
    BY <1>1 DEF Registration
  <2>2. \A x \in Prefixed : \E prefix \in MuxPrefixes, pattern \in Patterns : x = prefix \o pattern
    BY DEF Prefixed
  <2>. QED  BY <2>1, <2>2
<1>3. fallbacks.notFound.nth \in 0..Fallbacks /\ fallbacks.methodNotAllowed.nth \in 0..Fallbacks
  <2>1. /\ fallbacks.notFound \in Numbered("404") \cup {NoHandler}
        /\ fallbacks.methodNotAllowed \in Numbered("405") \cup {NoHandler}
    BY DEF IInv, FallbacksOK
  <2>2. ASSUME NEW role, NEW h \in Numbered(role) \cup {NoHandler} PROVE h.nth \in 0..Fallbacks
    BY DispatchAssumption DEF Numbered, NoHandler, Handler
  <2>. QED  BY <2>1, <2>2
<1>4. ASSUME compiled # NoSnapshot
      PROVE  /\ Len(compiled.routes) <= Len(routes)
             /\ \A i \in DOMAIN compiled.routes : Parses(compiled.routes[i].pattern)
  <2>1. Parsable /\ compiled = FillSnapshot(routes, fallbacks) /\ routes \in Seq(Registration)
    BY <1>4 DEF IInv, Current
  <2>2. Parsed(Range(routes)) /\ routes \in Seq(Range(routes))
    BY <2>1, TableParsed
  <2> DEFINE kept == Kept(routes)
             R == Range(routes)
  <2>3. compiled = [routes |-> kept, fallbacks |-> fallbacks,
                    dynamic |-> [m \in {r.method : r \in Range(kept)} |-> Dynamic(kept, m)]]
    BY <2>1, <2>2, FilledFromKept
  <2>4. compiled.routes = kept
    BY <2>3
  <2>5. kept \in Seq(R) /\ Len(kept) <= Len(routes)
    BY <2>2, KeptIs, KeptNoLonger
  <2> HIDE DEF kept, R
  <2>6. DOMAIN kept = 1..Len(kept) /\ \A i \in 1..Len(kept) : Parses(kept[i].pattern)
    BY <2>2, <2>5, KeptWellFormed DEF R
  <2>. QED  BY <2>4, <2>5, <2>6
<1>5. reply.kind \in {"none", "panic", "route", "404", "405"}
  BY DEF IInv
<1>. QED  BY <1>1, <1>2, <1>3, <1>4, <1>5 DEF TypeOK

(* The winner answers.                                                     *)
LEMMA IInvWinner == IInv => DispatchesToRankedWinner
<1> SUFFICES ASSUME IInv, Answered PROVE DispatchesToRankedWinner
  BY DEF DispatchesToRankedWinner
<1> DEFINE C == Candidates(routes, reply.method, reply.path)
           w == Winner(routes, reply.method, reply.path)
<1>1. \/ reply.kind = "route" /\ C # {} /\ reply.handler = routes[w].handler
      \/ reply.kind \in {"404", "405"} /\ C = {}
  BY AnswerIs
<1>. QED  BY <1>1 DEF DispatchesToRankedWinner

(* Allow lists what would be served.                                       *)
LEMMA IInvAllow == IInv => AllowIsExactlyWhatWouldBeServed
<1> SUFFICES ASSUME IInv, Answered, reply.kind # "route" PROVE AllowIsExactlyWhatWouldBeServed
  BY DEF AllowIsExactlyWhatWouldBeServed
<1> DEFINE served == {m \in Methods : Candidates(routes, m, reply.path) # {}}
<1>1. reply.kind = (IF served # {} THEN "405" ELSE "404") /\ reply.allow = served
  BY AnswerIs
<1>. QED  BY <1>1 DEF AllowIsExactlyWhatWouldBeServed

(* A routed reply has the handler, and gives the path back through the     *)
(* pattern, of the winner, whose names are different.                      *)
LEMMA RoutedReply ==
    ASSUME IInv, reply.kind = "route"
    PROVE  LET r == routes[Winner(routes, reply.method, reply.path)]
           IN  /\ Winner(routes, reply.method, reply.path) \in DOMAIN routes
               /\ r.handler = reply.handler
               /\ Rebuilds(SegmentsOf(r), reply.params, reply.path)
               /\ reply.params \in Seq(Binding)
               /\ IsInjective([k \in DOMAIN reply.params |-> reply.params[k].name])
<1> DEFINE w == Winner(routes, reply.method, reply.path)
           r == routes[w]
           p == reply.path
<1>1. Answered
  BY DEF Answered
<1>2. /\ w \in 1..Len(routes) /\ reply.handler = r.handler /\ Serves(r, reply.method, p)
      /\ reply.params = IF IsExact(r.pattern) THEN <<>>
                        ELSE MatchRoute(SegmentsOf(r), p, <<>>).params
  BY <1>1, AnswerIs
<1>3. Parsable /\ p \in Paths /\ routes \in Seq(Registration)
  BY <1>1 DEF IInv, AnsweredFromTable, Current
<1>4. p \in Seq(Word) \ {<<>>}
  BY <1>3, DispatchAssumption
<1>5. Parsed(Range(routes)) /\ routes \in Seq(Range(routes))
  BY <1>3, TableParsed
<1> HIDE DEF p, w
<1>6. DOMAIN routes = 1..Len(routes) /\ IsText(r.pattern) /\ Parses(r.pattern) /\ WellFormed(SegmentsOf(r))
  BY <1>2, <1>5, KeptWellFormed
<1>7. Describes(SegmentsOf(r), p)
  BY <1>2 DEF Serves
<1> HIDE DEF r
<1>8. <<>> \in Seq(Binding)
  BY EmptySeq
<1> DEFINE names == [k \in DOMAIN reply.params |-> reply.params[k].name]
<1>9. CASE IsExact(r.pattern)
  <2>1. Rebuilds(SegmentsOf(r), reply.params, p)
    BY <1>2, <1>4, <1>6, <1>7, <1>9, ExactRebuilds DEF SegmentsOf
  <2>2. reply.params = <<>>
    BY <1>2, <1>9
  <2>3. DOMAIN reply.params = {}
    BY <2>2
  <2>4. IsInjective(names)
    BY <2>3 DEF IsInjective
  <2>. QED  BY <1>2, <1>6, <1>8, <2>1, <2>2, <2>4 DEF r, p, w
<1>10. CASE ~IsExact(r.pattern)
  <2>1. /\ MatchRoute(SegmentsOf(r), p, <<>>).ok
        /\ MatchRoute(SegmentsOf(r), p, <<>>).params \in Seq(Binding)
    BY <1>4, <1>6, <1>7, <1>8, MatchRouteDescribes
  <2>2. Rebuilds(SegmentsOf(r), reply.params, p) /\ reply.params \in Seq(Binding)
    BY <1>2, <1>4, <1>6, <1>10, <2>1, MatchRouteRebuilds
  <2>3. names = ParamNames(SegmentsOf(r))
    BY <2>2 DEF Rebuilds
  <2>4. r.pattern # RootText
    <3>1. IsExact(RootText)
      BY DEF IsExact, RootText, Static
    <3>. QED  BY <1>10, <3>1
  <2>5. SegmentsOf(r) = r.pattern
    BY <2>4 DEF SegmentsOf, Segments
  <2>6. IsInjective(ParamNames(r.pattern))
    BY <1>6 DEF Parses
  <2>7. IsInjective(names)
    BY <2>3, <2>5, <2>6
  <2>. QED  BY <1>2, <1>6, <2>2, <2>7 DEF r, p, w
<1>. QED  BY <1>9, <1>10

(* A routed reply has the parameters of its own pattern.                   *)
LEMMA IInvRebuild == IInv => ParametersRebuildThePath
<1> SUFFICES ASSUME IInv PROVE ParametersRebuildThePath
  OBVIOUS
<1>1. ASSUME reply.kind = "route"
      PROVE  \E r \in {routes[i] : i \in DOMAIN routes} :
                r.handler = reply.handler /\ Rebuilds(SegmentsOf(r), reply.params, reply.path)
  BY <1>1, RoutedReply
<1>2. ASSUME reply.kind \in {"404", "405"} PROVE reply.params = <<>>
  <2>1. Answered
    BY <1>2 DEF Answered
  <2>. QED  BY <1>2, <2>1, AnswerIs
<1>. QED  BY <1>1, <1>2 DEF ParametersRebuildThePath

(* Resolve reads the same snapshot.                                        *)
LEMMA IInvResolve == IInv => ResolvePredictsServe
<1> SUFFICES ASSUME IInv, Answered PROVE ResolvePredictsServe
  BY DEF ResolvePredictsServe
<1> DEFINE served == {m \in Methods : Candidates(routes, m, reply.path) # {}}
           answer == Resolve(compiled, reply.method, reply.path)
           w == Winner(routes, reply.method, reply.path)
           names == {reply.params[k].name : k \in DOMAIN reply.params}
           Same == /\ answer.kind = "MatchedRoute" /\ answer.handler = reply.handler
                   /\ \E i \in DOMAIN routes :
                         routes[i].handler = reply.handler /\ routes[i].pattern = answer.pattern
                   /\ DOMAIN answer.params = names
                   /\ \A k \in DOMAIN reply.params :
                         answer.params[reply.params[k].name] = reply.params[k].value
<1>1. \/ /\ reply.kind = "route"
         /\ answer = [kind |-> "MatchedRoute", pattern |-> routes[w].pattern,
                      handler |-> reply.handler, params |-> ParamsMap(reply.params)]
      \/ /\ reply.kind = IF served # {} THEN "405" ELSE "404"
         /\ reply.allow = served
         /\ answer = [kind |-> IF served = {} THEN "RouteMissing" ELSE "MethodMismatch",
                      allowed |-> served]
  BY AnswerIs
<1>2. ASSUME reply.kind = "route" PROVE Same
  <2>1. /\ w \in DOMAIN routes /\ routes[w].handler = reply.handler
        /\ reply.params \in Seq(Binding)
        /\ IsInjective([k \in DOMAIN reply.params |-> reply.params[k].name])
    BY <1>2, RoutedReply
  <2>2. /\ DOMAIN ParamsMap(reply.params) = names
        /\ \A k \in DOMAIN reply.params :
              ParamsMap(reply.params)[reply.params[k].name] = reply.params[k].value
    BY <2>1, ParamsMapIs
  <2> HIDE DEF answer, served, w, names
  <2>3. /\ answer.kind = "MatchedRoute" /\ answer.handler = reply.handler
        /\ answer.pattern = routes[w].pattern /\ answer.params = ParamsMap(reply.params)
    BY <1>1, <1>2
  <2>. QED  BY <2>1, <2>2, <2>3
<1> HIDE DEF served, answer, Same
<1>3. (CASE reply.kind = "route" -> Same
         [] reply.kind = "405" -> answer = [kind |-> "MethodMismatch", allowed |-> reply.allow]
         [] OTHER -> answer = [kind |-> "RouteMissing", allowed |-> {}])
  BY <1>1, <1>2
<1>. QED  BY <1>3 DEF ResolvePredictsServe, answer, Same

(* Without conflicts nothing is replaced.                                  *)
LEMMA IInvAgrees == IInv => CompatibilityAgreesWithoutConflicts
<1> SUFFICES ASSUME IInv, ~HasConflicts(routes)
             PROVE  CompatibilitySnapshot(routes, fallbacks) = CompileSnapshot(routes, fallbacks)
  BY DEF CompatibilityAgreesWithoutConflicts
<1>1. Kept(routes) = routes
  BY NoConflictsApart, KeptWithoutReplacing DEF IInv
<1>. QED  BY <1>1 DEF CompatibilitySnapshot

(* scopedFallback, against the prefixes read part by part.                 *)
LEMMA NearestFallback ==
    ASSUME NEW role, role # "nil", NEW scoped \in ScopedFallbacks(role), NEW own, NEW default,
           NEW path \in Seq(Word)
    PROVE  LET above == {k \in DOMAIN scoped :
                           /\ Len(scoped[k].prefix) <= Len(path)
                           /\ \A n \in DOMAIN scoped[k].prefix :
                                 scoped[k].prefix[n] = Static(path[n])}
               handler == Fallback(scoped, own, NoHandler, default, path)
           IN  IF above # {}
               THEN \E k \in above :
                       /\ handler = scoped[k].handler
                       /\ \A j \in above : Len(scoped[j].prefix) <= Len(scoped[k].prefix)
               ELSE handler = IF own # NoHandler THEN own ELSE default
<1> DEFINE C == [prefix : FallbackPrefixes, handler : Numbered(role)]
           above == {k \in DOMAIN scoped :
                           /\ Len(scoped[k].prefix) <= Len(path)
                           /\ \A n \in DOMAIN scoped[k].prefix :
                                 scoped[k].prefix[n] = Static(path[n])}
           covering == {k \in 1..Len(scoped) : Covers(scoped[k].prefix, path)}
           handler == Fallback(scoped, own, NoHandler, default, path)
<1>1. scoped \in Seq(C)
  BY DEF ScopedFallbacks
<1>2. DOMAIN scoped = 1..Len(scoped) /\ \A k \in 1..Len(scoped) : scoped[k] \in C
  BY <1>1, LenProperties, ElementOfSeq
<1>3. \A k \in 1..Len(scoped) : scoped[k].prefix \in FallbackPrefixes /\ scoped[k].handler \in Numbered(role)
  BY <1>2
<1>4. \A prefix \in FallbackPrefixes : IsText(prefix) /\ Len(prefix) \in Nat
  <2>1. \A prefix \in FallbackPrefixes : IsText(prefix)
    BY DispatchAssumption DEF Texts
  <2>. QED  BY <2>1, LenProperties DEF IsText
<1>5. covering = above
  BY <1>2, <1>3, <1>4, CoversIs
<1>6. \A h \in Numbered(role) : h # NoHandler
  BY DEF Numbered, NoHandler, Handler
<1>7. \A c \in C : Len(c.prefix) \in Nat
  BY <1>4
<1> HIDE DEF C
<1>8. IF covering = {} THEN ScopedFallback(scoped, path) = NoHandler
      ELSE \E k \in covering :
              /\ ScopedFallback(scoped, path) = scoped[k].handler
              /\ \A j \in covering : Len(scoped[j].prefix) <= Len(scoped[k].prefix)
  BY <1>1, <1>7, ScopedFallbackIs
<1>9. handler = IF ScopedFallback(scoped, path) # NoHandler THEN ScopedFallback(scoped, path)
                ELSE IF own # NoHandler THEN own ELSE default
  BY FallbackIs
<1>10. \A k \in covering : scoped[k].handler # NoHandler
  BY <1>3, <1>6
<1> HIDE DEF covering, above, handler
<1>11. CASE above = {}
  BY <1>5, <1>8, <1>9, <1>11 DEF above, handler
<1>12. CASE above # {}
  <2>1. PICK k \in above :
           /\ ScopedFallback(scoped, path) = scoped[k].handler
           /\ \A j \in above : Len(scoped[j].prefix) <= Len(scoped[k].prefix)
    BY <1>5, <1>8, <1>12
  <2>2. handler = scoped[k].handler
    BY <1>5, <1>9, <1>10, <2>1
  <2>. QED  BY <1>12, <2>1, <2>2 DEF above, handler
<1>. QED  BY <1>11, <1>12

(* The nearest fallback answers.                                           *)
LEMMA IInvNearest == IInv => NearestFallbackAnswers
<1> SUFFICES ASSUME IInv, Answered, reply.kind # "route" PROVE NearestFallbackAnswers
  BY DEF NearestFallbackAnswers
<1> DEFINE served == {m \in Methods : Candidates(routes, m, reply.path) # {}}
           f == fallbacks
<1>1. /\ reply.kind = IF served # {} THEN "405" ELSE "404"
      /\ reply.handler =
            IF served # {}
            THEN Fallback(f.scopedMethodNA, f.methodNotAllowed, NoHandler, Default405, reply.path)
            ELSE Fallback(f.scopedNotFound, f.notFound, NoHandler, Default404, reply.path)
  BY AnswerIs
<1>2. reply.path \in Seq(Word)
  BY DispatchAssumption DEF IInv, AnsweredFromTable
<1>3. f.scopedNotFound \in ScopedFallbacks("404") /\ f.scopedMethodNA \in ScopedFallbacks("405")
  BY DEF IInv, FallbacksOK
<1> HIDE DEF served
<1>4. CASE reply.kind = "404"
  <2>1. reply.handler = Fallback(f.scopedNotFound, f.notFound, NoHandler, Default404, reply.path)
    BY <1>1, <1>4
  <2>. QED  BY <1>2, <1>3, <1>4, <2>1, NearestFallback DEF NearestFallbackAnswers
<1>5. CASE reply.kind = "405"
  <2>1. reply.handler = Fallback(f.scopedMethodNA, f.methodNotAllowed, NoHandler, Default405, reply.path)
    BY <1>1, <1>5
  <2>. QED  BY <1>2, <1>3, <1>5, <2>1, NearestFallback DEF NearestFallbackAnswers
<1>. QED  BY <1>1, <1>4, <1>5

(* Two parts of one compatibility shape.                                   *)
AlikeParts(s, t) ==
    \/ s.kind = "regex" /\ t.kind = "regex" /\ s.expression = t.expression
    \/ s.kind = "static" /\ t.kind = "static" /\ s.literal = t.literal
    \/ s.kind = "parameter" /\ t.kind = "parameter"
    \/ s.kind = "wildcard" /\ t.kind = "wildcard"
    \/ s.kind = "regex" /\ t.kind = "regex" /\ s.shapeText # Blank /\ s.expression # t.expression

(* Segments at one position of two patterns of one compatibility shape are *)
(* alike.                                                                  *)
LEMMA ShapesAlike ==
    ASSUME NEW a, NEW b, WellFormed(a), WellFormed(b),
           CompatibilityShape(a) = CompatibilityShape(b),
           NEW S, ToldApart(S), NEW k \in DOMAIN a, a[k] \in S, b[k] \in S
    PROVE  /\ k \in DOMAIN b
           /\ AlikeParts(a[k], b[k])
<1>1. DOMAIN a = DOMAIN b
  <2>1. DOMAIN CompatibilityShape(a) = DOMAIN a /\ DOMAIN CompatibilityShape(b) = DOMAIN b
    BY DEF CompatibilityShape
  <2>. QED  BY <2>1
<1> DEFINE s == a[k]
           t == b[k]
           whole(x) == x.kind = "regex" /\ x.shapeText = Blank
           cut(x) == CASE x.kind = "static"    -> x.literal
                       [] x.kind = "parameter" -> Hole
                       [] x.kind = "regex"     -> IF x.shapeText # Blank THEN x.shapeText ELSE Hole
                       [] x.kind = "wildcard"  -> "*"
<1>2. /\ CompatibilityShape(a)[k] = IF whole(s) THEN <<"{", s.expression, "}">> ELSE <<cut(s)>>
      /\ CompatibilityShape(b)[k] = IF whole(t) THEN <<"{", t.expression, "}">> ELSE <<cut(t)>>
  <2>1. ASSUME NEW c, k \in DOMAIN c
        PROVE  CompatibilityShape(c)[k] =
                  IF whole(c[k]) THEN <<"{", c[k].expression, "}">> ELSE <<cut(c[k])>>
    <3>1. Shape(c)[k] = cut(c[k])
      BY <2>1 DEF Shape
    <3>2. CompatibilityShape(c)[k] =
             IF whole(c[k]) THEN <<"{", c[k].expression, "}">> ELSE <<Shape(c)[k]>>
      BY <2>1 DEF CompatibilityShape
    <3>. QED  BY <3>1, <3>2
  <2>. QED  BY <1>1, <2>1
<1>3. CompatibilityShape(a)[k] = CompatibilityShape(b)[k]
  OBVIOUS
<1>4. /\ s.kind \in {"static", "parameter", "wildcard", "regex"}
      /\ t.kind \in {"static", "parameter", "wildcard", "regex"}
  BY <1>1, SegmentForms DEF WellFormed
<1>5. /\ s.kind = "static" => s.literal \notin {"*", Hole}
      /\ t.kind = "static" => t.literal \notin {"*", Hole}
      /\ s.kind = "regex" => s.shapeText \notin {"*", Hole}
      /\ t.kind = "regex" => t.shapeText \notin {"*", Hole}
      /\ s.kind = "static" /\ t.kind = "regex" /\ t.shapeText # Blank => s.literal # t.shapeText
      /\ t.kind = "static" /\ s.kind = "regex" /\ s.shapeText # Blank => t.literal # s.shapeText
  BY DEF ToldApart
<1>6. Hole # "*"
  BY Zenon DEF Hole
<1> HIDE DEF whole, cut
<1>7. CASE whole(s) /\ whole(t)
  <2>1. <<"{", s.expression, "}">> = <<"{", t.expression, "}">>
    BY <1>2, <1>3, <1>7, Zenon
  <2>2. <<"{", s.expression, "}">>[2] = s.expression /\ <<"{", t.expression, "}">>[2] = t.expression
    OBVIOUS
  <2>3. s.expression = t.expression
    BY <2>1, <2>2, Zenon
  <2>. QED  BY <1>1, <1>7, <2>3 DEF whole, AlikeParts
<1>8. CASE whole(s) /\ ~whole(t)
  <2>1. <<"{", s.expression, "}">> = <<cut(t)>>
    BY <1>2, <1>3, <1>8, Zenon
  <2>. QED  BY <2>1, TuplesDiffer, Zenon
<1>9. CASE ~whole(s) /\ whole(t)
  <2>1. <<"{", t.expression, "}">> = <<cut(s)>>
    BY <1>2, <1>3, <1>9, Zenon
  <2>. QED  BY <2>1, TuplesDiffer, Zenon
<1>10. CASE ~whole(s) /\ ~whole(t)
  <2>1. cut(s) = cut(t)
    BY <1>2, <1>3, <1>10, TuplesDiffer, Zenon
  <2> HIDE DEF s, t
  <2>2. AlikeParts(s, t)
    <3>1. CASE s.kind = "static"
      BY <1>4, <1>5, <1>10, <2>1, <3>1 DEF cut, whole, AlikeParts
    <3>2. CASE s.kind = "parameter"
      BY <1>4, <1>5, <1>6, <1>10, <2>1, <3>2 DEF cut, whole, AlikeParts
    <3>3. CASE s.kind = "wildcard"
      BY <1>4, <1>5, <1>6, <1>10, <2>1, <3>3 DEF cut, whole, AlikeParts
    <3>4. CASE s.kind = "regex"
      BY <1>4, <1>5, <1>6, <1>10, <2>1, <3>4 DEF cut, whole, AlikeParts
    <3>. QED  BY <1>4, <3>1, <3>2, <3>3, <3>4
  <2>. QED  BY <1>1, <2>2 DEF s, t
<1>. QED  BY <1>7, <1>8, <1>10, <1>9

(* Patterns of one compatibility shape whose composite parts do not differ *)
(* describe the same paths.                                                *)
LEMMA AlikeDescribe ==
    ASSUME NEW a, NEW b, WellFormed(a), WellFormed(b),
           CompatibilityShape(a) = CompatibilityShape(b), ~DifferInComposite(a, b),
           NEW S, ToldApart(S), \A k \in DOMAIN a : a[k] \in S, \A k \in DOMAIN b : b[k] \in S,
           NEW path, Describes(a, path)
    PROVE  Describes(b, path)
<1>1. DOMAIN a = DOMAIN b /\ DOMAIN a = 1..Len(a) /\ DOMAIN b = 1..Len(b) /\ Len(a) \in Nat /\ Len(b) \in Nat
  <2>1. DOMAIN CompatibilityShape(a) = DOMAIN a /\ DOMAIN CompatibilityShape(b) = DOMAIN b
    BY DEF CompatibilityShape
  <2>. QED  BY <2>1, WellFormedLen
<1>2. Len(a) = Len(b)
  <2> DEFINE x == Len(a)
             y == Len(b)
  <2>1. x \in Nat /\ y \in Nat /\ 1..x = 1..y
    BY <1>1
  <2> HIDE DEF x, y
  <2>2. x = y
    <3>1. ~(x < y)
      <4>1. x < y => y \in 1..y /\ y \notin 1..x
        BY <2>1
      <4>. QED  BY <2>1, <4>1, Zenon
    <3>2. ~(y < x)
      <4>1. y < x => x \in 1..x /\ x \notin 1..y
        BY <2>1
      <4>. QED  BY <2>1, <4>1, Zenon
    <3>. QED  BY <2>1, <3>1, <3>2
  <2>. QED  BY <2>2 DEF x, y
<1>3. \A k \in 1..Len(a) : AlikeParts(a[k], b[k])
  BY <1>1, ShapesAlike
<1>4. \A k \in 1..Len(a) : a[k].kind = "wildcard" <=> b[k].kind = "wildcard"
  BY <1>3 DEF AlikeParts
<1>5. a = <<>> <=> b = <<>>
  <2>1. a \in Seq(Range(a)) /\ b \in Seq(Range(b))
    BY DEF WellFormed
  <2>2. (a = <<>> <=> Len(a) = 0) /\ (b = <<>> <=> Len(b) = 0)
    BY <2>1, EmptySeq
  <2>. QED  BY <1>2, <2>2
<1>6. IsWild(a) <=> IsWild(b)
  <2>1. CASE a = <<>>
    BY <1>5, <2>1 DEF IsWild
  <2>2. CASE a # <<>>
    <3>1. Len(a) \in 1..Len(a)
      <4>1. Len(a) # 0
        BY <2>2, EmptySeq DEF WellFormed
      <4>. QED  BY <1>1, <4>1
    <3>. QED  BY <1>2, <1>4, <1>5, <2>2, <3>1 DEF IsWild, Last
  <2>. QED  BY <2>1, <2>2
<1>7. FixedLen(a) = FixedLen(b) /\ FixedLen(a) \in 0..Len(a)
  BY <1>2, <1>6, FixedSegments DEF FixedLen
<1>8. ASSUME NEW k \in 1..FixedLen(a), Stands(a, path, k)
      PROVE  Stands(b, path, k)
  <2>1. k \in DOMAIN a /\ k \in DOMAIN b
    BY <1>1, <1>7
  <2>2. /\ IsSegment(a[k]) /\ IsSegment(b[k]) /\ AlikeParts(a[k], b[k])
        /\ ~(a[k].kind = "regex" /\ a[k].shapeText # Blank /\ b[k].kind = "regex"
               /\ a[k].expression # b[k].expression)
    BY <1>1, <1>3, <2>1 DEF WellFormed, DifferInComposite
  <2>3. a[k].kind = "regex" /\ b[k].kind = "regex" /\ a[k].expression = b[k].expression
           => DOMAIN a[k].captures = DOMAIN b[k].captures
    BY <2>1 DEF ToldApart
  <2>4. Accepts(a[k], path[k])
    BY <1>8 DEF Stands
  <2>5. \A w : Static(w).kind = "static" /\ Static(w).literal = w
    BY DEF Static
  <2>6. Accepts(b[k], path[k])
    BY <2>2, <2>3, <2>4 DEF Accepts, AlikeParts
  <2>7. ASSUME k = Len(path), path[k] = Blank
        PROVE  b[k] = Static(Blank) /\ k > 1
    <3>1. a[k] = Static(Blank) /\ k > 1
      BY <1>8, <2>7 DEF Stands
    <3>2. a[k].kind = "static" /\ a[k].literal = Blank
      BY <2>5, <3>1
    <3>3. b[k].kind = "static" /\ b[k].literal = Blank
      BY <2>2, <3>2 DEF AlikeParts
    <3>. QED  BY <2>2, <3>1, <3>3, SegmentForms
  <2>. QED  BY <2>6, <2>7 DEF Stands
<1>9. /\ IF IsWild(a) THEN FixedLen(a) <= Len(path)
         ELSE FixedLen(a) = Len(path) \/ (a = <<>> /\ path = <<Blank>>)
      /\ \A k \in 1..FixedLen(a) : Stands(a, path, k)
  BY DescribesStands
<1>10. /\ IF IsWild(b) THEN FixedLen(b) <= Len(path)
          ELSE FixedLen(b) = Len(path) \/ (b = <<>> /\ path = <<Blank>>)
       /\ \A k \in 1..FixedLen(b) : Stands(b, path, k)
  BY <1>5, <1>6, <1>7, <1>8, <1>9
<1>. QED  BY <1>10, DescribesStands

(* A registration is lost only to one that differs in a composite part.    *)
LEMMA IInvDescribed == IInv => DescribedPathsAreRouted
<1> SUFFICES ASSUME IInv, Answered, reply.kind # "route", NEW i \in DOMAIN routes,
                    routes[i].method \in {reply.method, AnyMethod},
                    Describes(SegmentsOf(routes[i]), reply.path)
             PROVE  \E j \in Alike(routes, i) :
                       j > i /\ DifferInComposite(SegmentsOf(routes[i]), SegmentsOf(routes[j]))
  BY DEF DescribedPathsAreRouted
<1> DEFINE R == Range(routes)
           kept == Kept(routes)
           m == reply.method
           p == reply.path
           n == Len(routes)
           S == UNION {Range(text) : text \in Texts}
<1>1. routes \in Seq(Registration) /\ Parsable
  BY DEF IInv, AnsweredFromTable, Current
<1>2. Parsed(R) /\ routes \in Seq(R) /\ DOMAIN routes = 1..n /\ n \in Nat
  BY <1>1, TableParsed, LenProperties
<1>3. PICK first, last : KeptFrom(routes, n, kept, first, last)
  BY <1>2, KeptIs
<1>4. kept \in Seq(R)
  BY <1>2, KeptIs
<1>5. Candidates(routes, m, p) = {}
  BY AnswerIs
<1> HIDE DEF R, kept
<1>6. PICK at \in 1..Len(kept) : SameKey(routes, first[at], i)
  BY <1>2, <1>3 DEF KeptFrom
<1> DEFINE j == last[at]
<1>7. /\ kept[at] = routes[j] /\ j \in 1..n /\ i <= j /\ SameKey(routes, i, j)
  BY <1>2, <1>3, <1>6 DEF KeptFrom, SameKey
<1>8. ~Serves(kept[at], m, p)
  BY <1>2, <1>3, <1>4, <1>5, CandidatesAreKept
<1> HIDE DEF j
<1>9. /\ routes[i].method = routes[j].method
      /\ CompatibilityShape(SegmentsOf(routes[i])) = CompatibilityShape(SegmentsOf(routes[j]))
  BY <1>7, TuplesDiffer DEF SameKey, CompatibilityKey
<1>10. ~Describes(SegmentsOf(routes[j]), p)
  BY <1>7, <1>8, <1>9 DEF Serves
<1>11. i < j
  BY <1>2, <1>7, <1>10
<1>12. j \in Alike(routes, i)
  BY <1>2, <1>7 DEF Alike, SameKey
<1>13. ASSUME NEW x \in 1..n
       PROVE  /\ WellFormed(SegmentsOf(routes[x]))
              /\ \A k \in DOMAIN SegmentsOf(routes[x]) : SegmentsOf(routes[x])[k] \in S
  <2>1. routes[x] \in Registration
    BY <1>1, ElementOfSeq
  <2>2. routes[x].pattern \in Prefixed
    BY <2>1 DEF Registration
  <2>3. \A k \in DOMAIN routes[x].pattern : routes[x].pattern[k] \in S
    BY <2>2, PrefixedTexts
  <2>4. WellFormed(SegmentsOf(routes[x]))
    BY <1>2, KeptWellFormed
  <2>. QED  BY <2>3, <2>4 DEF SegmentsOf, Segments
<1>14. ToldApart(S)
  BY DispatchAssumption
<1>15. DifferInComposite(SegmentsOf(routes[i]), SegmentsOf(routes[j]))
  <2> DEFINE a == SegmentsOf(routes[i])
             b == SegmentsOf(routes[j])
  <2>1. WellFormed(a) /\ \A k \in DOMAIN a : a[k] \in S
    BY <1>2, <1>13
  <2>2. WellFormed(b) /\ \A k \in DOMAIN b : b[k] \in S
    BY <1>7, <1>13
  <2>3. CompatibilityShape(a) = CompatibilityShape(b) /\ Describes(a, p) /\ ~Describes(b, p)
    BY <1>9, <1>10
  <2> HIDE DEF a, b, S, p
  <2>4. DifferInComposite(a, b)
    BY <1>14, <2>1, <2>2, <2>3, AlikeDescribe
  <2>. QED  BY <2>4 DEF a, b
<1>. QED  BY <1>11, <1>12, <1>15

-----------------------------------------------------------------------------

(* However the calls follow each other, a cached snapshot holds only       *)
(* registered, parsable patterns (router_gp.go compile,                    *)
(* compatibilitySnapshot).                                                 *)
THEOREM TypeCorrect == Spec => []TypeOK
BY Invariance, IInvTypeOK, PTL

(* A request always runs the handler of the registration that precedence   *)
(* ranks first among those describing its path, for any patterns, prefixes *)
(* and order of calls: the exact tables, the sorted lists and replacement  *)
(* agree with the reference (router_gp.go serveHTTP, match, compile,       *)
(* compatibilitySnapshot).                                                 *)
THEOREM RankedWinner == Spec => []DispatchesToRankedWinner
BY Invariance, IInvWinner, PTL

(* Allow lists exactly the methods whose request would reach a route, and  *)
(* a 404 means there is none (router_gp.go serveHTTP, allowedMethods).     *)
THEOREM AllowExact == Spec => []AllowIsExactlyWhatWouldBeServed
BY Invariance, IInvAllow, PTL

(* The parameters of a routed request are those of its own pattern and     *)
(* give its path back; candidates that failed before leave nothing         *)
(* (router_gp.go matchRoute).                                              *)
THEOREM ParametersRebuild == Spec => []ParametersRebuildThePath
BY Invariance, IInvRebuild, PTL

(* Snapshot.Resolve, whose lookup is written apart from serveHTTP's,       *)
(* predicts the handler, pattern and parameters, or the 405 and its        *)
(* methods, of serving the request (router_gp.go Resolve, serveHTTP).      *)
THEOREM ResolveAgrees == Spec => []ResolvePredictsServe
BY Invariance, IInvResolve, PTL

(* A 404 or 405 goes to the handler last set for the longest literal       *)
(* prefix above the path, else to the mux's own (router_gp.go              *)
(* scopedFallback, replaceScopedHandler).                                  *)
THEOREM NearestAnswers == Spec => []NearestFallbackAnswers
BY Invariance, IInvNearest, PTL

(* Without conflicts the snapshot a request fills is the one Compile       *)
(* publishes (router_gp.go Compile, compatibilitySnapshot).                *)
THEOREM CompatibilityAgrees == Spec => []CompatibilityAgreesWithoutConflicts
BY Invariance, IInvAgrees, PTL

(* A path some registration describes is refused only when a later         *)
(* registration of the same shape, with another constraint in a composite  *)
(* part, replaced it (router_gp.go compatibilityShape,                     *)
(* compatibilitySnapshot).                                                 *)
THEOREM DescribedRouted == Spec => []DescribedPathsAreRouted
BY Invariance, IInvDescribed, PTL
=============================================================================

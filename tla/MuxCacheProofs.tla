--------------------------- MODULE MuxCacheProofs ---------------------------
(***************************************************************************)
(* The mux shared by any number of goroutines, with any number of routes.  *)
(***************************************************************************)
EXTENDS MuxCache, SequenceTheorems, TLAPS

(* Mount's second change of the table keeps its routes and their patterns. *)
LEMMA AttachKeepsRoutes ==
    ASSUME NEW routes \in Seq(Route), NEW sub \in Routers
    PROVE  LET new == [routes EXCEPT ![Len(routes)].subRoutes = sub]
           IN  /\ new \in Seq(Route)
               /\ DOMAIN new = DOMAIN routes
               /\ \A i \in DOMAIN routes : new[i].pattern = routes[i].pattern
<1>. DEFINE n == Len(routes)
            new == [routes EXCEPT ![n].subRoutes = sub]
<1>1. n \in Nat /\ routes \in [1..n -> Route] /\ DOMAIN routes = 1..n
  OBVIOUS
<1>2. \A i \in 1..n : new[i] = IF i = n THEN [routes[n] EXCEPT !.subRoutes = sub] ELSE routes[i]
  BY <1>1
<1>3. \A i \in 1..n : new[i] \in Route /\ new[i].pattern = routes[i].pattern
  BY <1>1, <1>2 DEF Route
<1>4. DOMAIN new = 1..n
  BY <1>1
<1>5. new \in [1..n -> Route]
  BY <1>3, <1>4
<1>. QED
  BY <1>1, <1>3, <1>4, <1>5

-----------------------------------------------------------------------------
LEMMA InitType == Init => TypeOK
<1>. SUFFICES ASSUME Init PROVE TypeOK
  OBVIOUS
<1>. USE MuxCacheAssumption DEF Init, Goroutines
<1>1. table \in Table
  <2>1. <<>> \in Seq(Route)
    OBVIOUS
  <2>. QED
    BY <2>1 DEF Table
<1>2. /\ sealed \in BOOLEAN /\ mounts \subseteq MountPaths
      /\ compiled \in Table \cup {Nil}
      /\ mounting \in [Registrars -> MountPaths \cup {Nil}]
      /\ snap \in [Servers -> Table \cup {Nil}]
      /\ overlapped \in BOOLEAN
      /\ pc \in [Goroutines -> {"idle", "mountHandle", "mountAttach",
                                "compile", "compat", "store", "serve"}]
  OBVIOUS
<1>. QED
  BY <1>1, <1>2 DEF TypeOK

LEMMA NextType == TypeOK /\ [Next]_vars => TypeOK'
<1>. SUFFICES ASSUME TypeOK, [Next]_vars PROVE TypeOK'
  OBVIOUS
<1>. USE MuxCacheAssumption DEF TypeOK, Goroutines
<1>1. CASE UNCHANGED vars
  BY <1>1 DEF vars
<1>2. ASSUME NEW pattern \in Patterns \cup MountPaths, AddRoute(pattern)
      PROVE  table' \in Table /\ compiled' = Nil /\ overlapped' \in BOOLEAN
  <2>1. NewRoute(pattern) \in Route
    BY DEF NewRoute, Route
  <2>2. Append(table.routes, NewRoute(pattern)) \in Seq(Route)
    BY <2>1 DEF Table
  <2>. QED
    BY <1>2, <2>2 DEF AddRoute, Publish, Table
<1>3. ASSUME NEW r \in Registrars, Registration(r)
      PROVE  TypeOK'
  <2>1. ASSUME NEW pattern \in Patterns, NEW onRoot \in BOOLEAN, Register(r, pattern, onRoot)
        PROVE  TypeOK'
    BY <2>1, <1>2 DEF Register
  <2>2. CASE Use(r)
    BY <2>2 DEF Use, Publish, Table
  <2>3. ASSUME NEW handler \in Fallbacks, SetFallback(r, handler)
        PROVE  TypeOK'
    BY <2>3 DEF SetFallback, Publish, Table
  <2>4. ASSUME NEW path \in MountPaths, MountReserve(r, path)
        PROVE  TypeOK'
    BY <2>4 DEF MountReserve
  <2>5. ASSUME NEW onRoot \in BOOLEAN, MountHandle(r, onRoot)
        PROVE  TypeOK'
    BY <2>5, <1>2 DEF MountHandle
  <2>6. CASE MountAttach(r)
    <3>1. mounting[r] \in Routers
      BY <2>6 DEF MountAttach
    <3>2. table' \in Table
      BY <2>6, <3>1, AttachKeepsRoutes DEF MountAttach, Publish, Table
    <3>. QED
      BY <2>6, <3>2 DEF MountAttach, Publish
  <2>7. CASE Compile(r)
    BY <2>7 DEF Compile
  <2>. QED
    BY <1>3, <2>1, <2>2, <2>3, <2>4, <2>5, <2>6, <2>7 DEF Registration
<1>4. ASSUME NEW s \in Servers, Request(s)
      PROVE  TypeOK'
  <2>. USE NilIsNoTable
  <2>1. CASE Load(s)
    BY <2>1 DEF Load
  <2>2. CASE FillCompile(s)
    BY <2>2 DEF FillCompile
  <2>3. CASE FillPanic(s)
    BY <2>3 DEF FillPanic
  <2>4. CASE FillCompatibility(s)
    BY <2>4 DEF FillCompatibility
  <2>5. CASE Store(s)
    BY <2>5 DEF Store
  <2>6. CASE Serve(s)
    BY <2>6 DEF Serve
  <2>. QED
    BY <1>4, <2>1, <2>2, <2>3, <2>4, <2>5, <2>6 DEF Request
<1>. QED
  BY <1>1, <1>3, <1>4 DEF Next

(* Every variable keeps its type in every interleaving.                    *)
THEOREM TypeCorrect == Spec => []TypeOK
<1>. QED
  BY InitType, NextType, PTL DEF Spec

-----------------------------------------------------------------------------
(* The cache can only be made stale by a late store (router_gp.go          *)
(* snapshot): whatever else goroutines do keeps it equal to the table or   *)
(* empties it.                                                             *)
THEOREM StalenessHasOneCause == Spec => OnlyALateStoreMakesStale
<1>. DEFINE Allowed == compiled' # Nil /\ compiled' # table' =>
                          \/ UNCHANGED <<compiled, table>>
                          \/ \E s \in Servers : Store(s) /\ snap[s] # table
<1>1. [Next]_vars => Allowed
  <2>. SUFFICES ASSUME [Next]_vars PROVE Allowed
    OBVIOUS
  <2>1. ASSUME NEW r \in Registrars, Registration(r)
        PROVE  Allowed
    BY <2>1 DEF Registration, Register, AddRoute, Publish, Use, SetFallback,
                MountReserve, MountHandle, MountAttach, Compile
  <2>2. ASSUME NEW s \in Servers, Request(s)
        PROVE  Allowed
    BY <2>2 DEF Request, Load, FillCompile, FillPanic, FillCompatibility, Store, Serve
  <2>. QED
    BY <2>1, <2>2 DEF Next, vars
<1>. QED
  BY <1>1, PTL DEF Spec, OnlyALateStoreMakesStale

-----------------------------------------------------------------------------
(* When the latest change of the table fell into no fill, what a request   *)
(* is about to store is the table too.                                     *)
CacheInv ==
    /\ TypeOK
    /\ StaleOnlyAfterOverlap
    /\ ~overlapped => \A s \in Filling : snap[s] = table

LEMMA InitCache == Init => CacheInv
<1>. QED
  BY InitType DEF Init, CacheInv, StaleOnlyAfterOverlap, Filling, Goroutines

LEMMA NextCache == CacheInv /\ [Next]_vars => CacheInv'
<1>. DEFINE Fresh == ~overlapped => \A s \in Servers : pc[s] = "store" => snap[s] = table
<1>0. CacheInv <=> TypeOK /\ StaleOnlyAfterOverlap /\ Fresh
  BY DEF CacheInv, Filling
<1>. SUFFICES ASSUME CacheInv, [Next]_vars
              PROVE  StaleOnlyAfterOverlap' /\ Fresh'
  BY <1>0, NextType DEF CacheInv, Filling
<1>. USE <1>0 DEF StaleOnlyAfterOverlap
<1>1. CASE UNCHANGED vars
  BY <1>1 DEF vars
<1>2. ASSUME NEW r \in Registrars, Registration(r)
      PROVE  StaleOnlyAfterOverlap' /\ Fresh'
  <2>1. \A s \in Servers : pc'[s] = pc[s] /\ snap'[s] = snap[s]
    BY <1>2, MuxCacheAssumption
    DEF Registration, Register, Use, SetFallback, MountReserve, MountHandle,
        MountAttach, Compile, TypeOK, Goroutines
  <2>2. CASE compiled' = Nil /\ overlapped' = (Filling # {})
    BY <2>1, <2>2 DEF Filling
  <2>3. CASE /\ table' = table /\ overlapped' = overlapped
             /\ compiled' = compiled \/ compiled' = table
    BY <2>1, <2>3
  <2>. QED
    BY <1>2, <2>2, <2>3
    DEF Registration, Register, AddRoute, Publish, Use, SetFallback,
        MountReserve, MountHandle, MountAttach, Compile
<1>3. ASSUME NEW s \in Servers, Request(s)
      PROVE  StaleOnlyAfterOverlap' /\ Fresh'
  BY <1>3 DEF Request, Load, FillCompile, FillPanic, FillCompatibility, Store, Serve,
              TypeOK, Goroutines
<1>. QED
  BY <1>1, <1>2, <1>3 DEF Next

(* A stale cache is always the work of a registration that fell into a     *)
(* fill (router_gp.go snapshot, invalidate): the next one that does not    *)
(* heals it, in every interleaving.                                        *)
THEOREM StalenessNeedsOverlap == Spec => []StaleOnlyAfterOverlap
<1>1. CacheInv => StaleOnlyAfterOverlap
  BY DEF CacheInv
<1>. QED
  BY <1>1, InitCache, NextCache, PTL DEF Spec

-----------------------------------------------------------------------------
(* A path with a route of its own, or with a call about to add one, is     *)
(* taken in root.mounts.                                                   *)
MountInv ==
    /\ TypeOK
    /\ MountedOnce
    /\ \A path \in MountPaths : MountsOf(path) # {} \/ Owners(path) # {} => path \in mounts

LEMMA AddRouteMounts ==
    ASSUME TypeOK, NEW pattern, AddRoute(pattern), NEW path
    PROVE  MountsOf(path)' = IF pattern = path THEN MountsOf(path) \cup {Len(table.routes) + 1}
                             ELSE MountsOf(path)
<1>. DEFINE n == Len(table.routes)
<1>1. table.routes \in Seq(Route) /\ n \in Nat /\ DOMAIN table.routes = 1..n
  BY DEF TypeOK, Table
<1>2. table'.routes = Append(table.routes, NewRoute(pattern))
  BY DEF AddRoute, Publish, TypeOK, Table
<1>3. /\ DOMAIN table'.routes = 1..(n + 1)
      /\ \A i \in 1..n : table'.routes[i] = table.routes[i]
      /\ table'.routes[n + 1] = NewRoute(pattern)
  BY <1>1, <1>2
<1>. QED
  BY <1>1, <1>3 DEF MountsOf, NewRoute

LEMMA NextMount == MountInv /\ [Next]_vars => MountInv'
<1>. SUFFICES ASSUME MountInv, [Next]_vars, NEW path \in MountPaths
              PROVE  /\ (\A i, j \in MountsOf(path) : i = j)'
                     /\ (\A q, r \in Owners(path) : q = r)'
                     /\ (MountsOf(path) = {} \/ Owners(path) = {})'
                     /\ (MountsOf(path) # {} \/ Owners(path) # {} => path \in mounts)'
  BY NextType DEF MountInv, MountedOnce
<1>. DEFINE Good ==
              /\ \A i, j \in MountsOf(path) : i = j
              /\ \A q, r \in Owners(path) : q = r
              /\ MountsOf(path) = {} \/ Owners(path) = {}
              /\ MountsOf(path) # {} \/ Owners(path) # {} => path \in mounts
<1>0. TypeOK /\ Good
  BY DEF MountInv, MountedOnce
<1>1. MountsOf(path)' = MountsOf(path) /\ Owners(path)' = Owners(path) /\ mounts' = mounts => Good'
  BY <1>0
<1>2. UNCHANGED <<pc, mounting>> => Owners(path)' = Owners(path)
  BY DEF Owners
<1>3. UNCHANGED table => MountsOf(path)' = MountsOf(path)
  BY DEF MountsOf
<1>4. ASSUME NEW r \in Registrars, Registration(r)
      PROVE  Good'
  <2>1. ASSUME NEW pattern \in Patterns, NEW onRoot \in BOOLEAN, Register(r, pattern, onRoot)
        PROVE  Good'
    <3>1. AddRoute(pattern) /\ pattern # path
      BY <2>1, MuxCacheAssumption DEF Register
    <3>2. MountsOf(path)' = MountsOf(path)
      BY <3>1, <1>0, AddRouteMounts
    <3>. QED
      BY <2>1, <3>2, <1>1, <1>2 DEF Register
  <2>2. CASE Use(r) \/ \E handler \in Fallbacks : SetFallback(r, handler)
    <3>1. table'.routes = table.routes
      BY <2>2, <1>0 DEF Use, SetFallback, Publish, TypeOK, Table
    <3>2. MountsOf(path)' = MountsOf(path)
      BY <3>1 DEF MountsOf
    <3>. QED
      BY <2>2, <3>2, <1>1, <1>2 DEF Use, SetFallback
  <2>3. ASSUME NEW p \in MountPaths, MountReserve(r, p)
        PROVE  Good'
    <3>1. MountsOf(path)' = MountsOf(path) /\ mounts \subseteq mounts'
      BY <2>3, <1>3 DEF MountReserve
    <3>2. Owners(path)' = IF p = path THEN Owners(path) \cup {r} ELSE Owners(path)
      BY <2>3, <1>0 DEF MountReserve, Owners, TypeOK, Goroutines
    <3>3. p = path => path \in mounts' /\ MountsOf(path) = {} /\ Owners(path) = {}
      BY <2>3, <1>0 DEF MountReserve
    <3>. QED
      BY <3>1, <3>2, <3>3, <1>0
  <2>4. ASSUME NEW onRoot \in BOOLEAN, MountHandle(r, onRoot)
        PROVE  Good'
    <3>1. Owners(path)' = Owners(path) \ {r} /\ mounts' = mounts
      BY <2>4, <1>0 DEF MountHandle, Owners, TypeOK, Goroutines
    <3>2. MountsOf(path)' = IF mounting[r] = path THEN MountsOf(path) \cup {Len(table.routes) + 1}
                            ELSE MountsOf(path)
      BY <2>4, <1>0, AddRouteMounts DEF MountHandle
    <3>3. r \in Owners(path) <=> mounting[r] = path
      BY <2>4 DEF MountHandle, Owners
    <3>. QED
      BY <3>1, <3>2, <3>3, <1>0
  <2>5. CASE MountAttach(r)
    <3>1. mounting[r] \in Routers
      BY <2>5, <1>0 DEF MountAttach, TypeOK
    <3>2. table.routes \in Seq(Route)
      BY <1>0 DEF TypeOK, Table
    <3>3. table'.routes = [table.routes EXCEPT ![Len(table.routes)].subRoutes = mounting[r]]
      BY <2>5, <1>0 DEF MountAttach, Publish, TypeOK, Table
    <3>4. MountsOf(path)' = MountsOf(path)
      BY <3>1, <3>2, <3>3, AttachKeepsRoutes DEF MountsOf
    <3>5. Owners(path)' = Owners(path)
      BY <2>5, <1>0 DEF MountAttach, Owners, TypeOK, Goroutines
    <3>. QED
      BY <2>5, <3>4, <3>5, <1>1 DEF MountAttach
  <2>6. CASE Compile(r)
    BY <2>6, <1>1, <1>2, <1>3 DEF Compile
  <2>. QED
    BY <1>4, <2>1, <2>2, <2>3, <2>4, <2>5, <2>6 DEF Registration
<1>5. ASSUME NEW s \in Servers, Request(s)
      PROVE  Good'
  <2>1. UNCHANGED <<table, mounts, mounting>>
    BY <1>5 DEF Request, Load, FillCompile, FillPanic, FillCompatibility, Store, Serve
  <2>2. \A r \in Registrars : pc'[r] = pc[r]
    BY <1>5, <1>0, MuxCacheAssumption
    DEF Request, Load, FillCompile, FillPanic, FillCompatibility, Store, Serve,
        TypeOK, Goroutines
  <2>3. Owners(path)' = Owners(path)
    BY <2>1, <2>2 DEF Owners
  <2>. QED
    BY <2>1, <2>3, <1>1, <1>3
<1>6. CASE UNCHANGED vars
  BY <1>6, <1>1, <1>2, <1>3 DEF vars
<1>. QED
  BY <1>4, <1>5, <1>6 DEF Next

(* Of the calls that race to mount one path exactly one gets it (Mount).   *)
THEOREM MountsAreExclusive == Spec => []MountedOnce
<1>1. Init => MountInv
  BY InitType DEF Init, MountInv, MountedOnce, MountsOf, Owners, Goroutines
<1>2. MountInv => MountedOnce
  BY DEF MountInv
<1>. QED
  BY <1>1, <1>2, NextMount, PTL DEF Spec

-----------------------------------------------------------------------------
(* A registrar about to attach its router has a route of its own.          *)
AttachInv ==
    /\ TypeOK
    /\ AttachedNoEarlier
    /\ \A r \in Registrars : pc[r] = "mountAttach" =>
          \E j \in DOMAIN table.routes : table.routes[j].pattern = mounting[r]

LEMMA AddRouteAttached ==
    ASSUME TypeOK, AttachedNoEarlier, NEW pattern, AddRoute(pattern)
    PROVE  /\ AttachedNoEarlier'
           /\ DOMAIN table.routes \subseteq DOMAIN table'.routes
           /\ \A j \in DOMAIN table.routes : table'.routes[j].pattern = table.routes[j].pattern
           /\ \E j \in DOMAIN table'.routes : table'.routes[j].pattern = pattern
<1>. DEFINE n == Len(table.routes)
<1>1. table.routes \in Seq(Route) /\ n \in Nat /\ DOMAIN table.routes = 1..n
  BY DEF TypeOK, Table
<1>2. table'.routes = Append(table.routes, NewRoute(pattern))
  BY DEF AddRoute, Publish, TypeOK, Table
<1>3. /\ DOMAIN table'.routes = 1..(n + 1)
      /\ \A i \in 1..n : table'.routes[i] = table.routes[i]
      /\ table'.routes[n + 1] = NewRoute(pattern)
  BY <1>1, <1>2
<1>4. NewRoute(pattern).pattern = pattern /\ NewRoute(pattern).subRoutes = Nil
  BY DEF NewRoute
<1>5. AttachedNoEarlier'
  <2>. SUFFICES ASSUME NEW i \in 1..(n + 1), table'.routes[i].subRoutes # Nil
                PROVE  \E j \in 1..i : table'.routes[j].pattern = table'.routes[i].subRoutes
    BY <1>3 DEF AttachedNoEarlier
  <2>1. i \in 1..n /\ table.routes[i].subRoutes # Nil
    BY <1>1, <1>3, <1>4
  <2>2. PICK j \in 1..i : table.routes[j].pattern = table.routes[i].subRoutes
    BY <1>1, <2>1 DEF AttachedNoEarlier
  <2>3. j \in 1..n
    BY <1>1, <2>1, <2>2
  <2>. QED
    BY <1>3, <2>1, <2>2, <2>3
<1>. QED
  BY <1>1, <1>3, <1>4, <1>5

LEMMA NextAttach == AttachInv /\ [Next]_vars => AttachInv'
<1>. SUFFICES ASSUME AttachInv, [Next]_vars
              PROVE  /\ AttachedNoEarlier'
                     /\ \A r \in Registrars : pc'[r] = "mountAttach" =>
                           \E j \in DOMAIN table'.routes : table'.routes[j].pattern = mounting'[r]
  BY NextType DEF AttachInv
<1>. DEFINE Own(q) == \E j \in DOMAIN table.routes : table.routes[j].pattern = mounting[q]
            Stays == /\ DOMAIN table.routes \subseteq DOMAIN table'.routes
                     /\ \A j \in DOMAIN table.routes :
                           table'.routes[j].pattern = table.routes[j].pattern
            Good == /\ AttachedNoEarlier'
                    /\ \A q \in Registrars : pc'[q] = "mountAttach" => Own(q)'
<1>0. /\ TypeOK /\ AttachedNoEarlier
      /\ \A q \in Registrars : pc[q] = "mountAttach" => Own(q)
  BY DEF AttachInv
<1>1. ASSUME NEW q \in Registrars, Stays, mounting'[q] = mounting[q], Own(q)
      PROVE  Own(q)'
  BY <1>1
<1>2. ASSUME table'.routes = table.routes
      PROVE  AttachedNoEarlier' /\ Stays
  BY <1>0, <1>2 DEF AttachedNoEarlier
<1>3. ASSUME NEW r \in Registrars, Registration(r)
      PROVE  Good
  <2>1. ASSUME NEW pattern \in Patterns, NEW onRoot \in BOOLEAN, Register(r, pattern, onRoot)
        PROVE  Good
    <3>1. AddRoute(pattern) /\ UNCHANGED <<pc, mounting>>
      BY <2>1 DEF Register
    <3>2. AttachedNoEarlier' /\ Stays
      BY <3>1, <1>0, AddRouteAttached
    <3>. QED
      BY <3>1, <3>2, <1>0, <1>1
  <2>2. CASE Use(r) \/ \E handler \in Fallbacks : SetFallback(r, handler)
    <3>1. table'.routes = table.routes /\ UNCHANGED <<pc, mounting>>
      BY <2>2, <1>0 DEF Use, SetFallback, Publish, TypeOK, Table
    <3>. QED
      BY <3>1, <1>0, <1>1, <1>2
  <2>3. ASSUME NEW p \in MountPaths, MountReserve(r, p)
        PROVE  Good
    <3>1. UNCHANGED table
      BY <2>3 DEF MountReserve
    <3>2. \A q \in Registrars : pc'[q] = "mountAttach" =>
              pc[q] = "mountAttach" /\ mounting'[q] = mounting[q]
      BY <2>3, <1>0 DEF MountReserve, TypeOK, Goroutines
    <3>. QED
      BY <3>1, <3>2, <1>0, <1>1, <1>2
  <2>4. ASSUME NEW onRoot \in BOOLEAN, MountHandle(r, onRoot)
        PROVE  Good
    <3>1. AddRoute(mounting[r]) /\ UNCHANGED mounting
      BY <2>4 DEF MountHandle
    <3>2. AttachedNoEarlier' /\ Stays /\ Own(r)'
      BY <3>1, <1>0, AddRouteAttached
    <3>3. \A q \in Registrars \ {r} : pc'[q] = pc[q]
      BY <2>4, <1>0 DEF MountHandle, TypeOK, Goroutines
    <3>. QED
      BY <3>1, <3>2, <3>3, <1>0, <1>1
  <2>5. CASE MountAttach(r)
    <3>. DEFINE n == Len(table.routes)
    <3>1. mounting[r] \in Routers /\ Own(r)
      BY <2>5, <1>0 DEF MountAttach, TypeOK
    <3>2. table.routes \in Seq(Route) /\ n \in Nat /\ DOMAIN table.routes = 1..n
      BY <1>0 DEF TypeOK, Table
    <3>3. table'.routes = [table.routes EXCEPT ![n].subRoutes = mounting[r]]
      BY <2>5, <1>0 DEF MountAttach, Publish, TypeOK, Table
    <3>4. Stays /\ DOMAIN table'.routes = 1..n
      BY <3>1, <3>2, <3>3, AttachKeepsRoutes
    <3>5. \A i \in 1..n : i # n => table'.routes[i] = table.routes[i]
      BY <3>2, <3>3
    <3>6. n \in 1..n => table'.routes[n].subRoutes = mounting[r]
      BY <3>2, <3>3 DEF Route
    <3>7. AttachedNoEarlier'
      <4>. SUFFICES ASSUME NEW i \in 1..n, table'.routes[i].subRoutes # Nil
                    PROVE  \E j \in 1..i : table'.routes[j].pattern = table'.routes[i].subRoutes
        BY <3>4 DEF AttachedNoEarlier
      <4>1. CASE i = n
        BY <4>1, <3>1, <3>2, <3>4, <3>6
      <4>2. CASE i # n
        <5>1. PICK j \in 1..i : table.routes[j].pattern = table.routes[i].subRoutes
          BY <4>2, <3>2, <3>5, <1>0 DEF AttachedNoEarlier
        <5>. QED
          BY <4>2, <5>1, <3>2, <3>4, <3>5
      <4>. QED
        BY <4>1, <4>2
    <3>8. UNCHANGED mounting /\ \A q \in Registrars : pc'[q] = "mountAttach" => pc[q] = "mountAttach"
      BY <2>5, <1>0 DEF MountAttach, TypeOK, Goroutines
    <3>. QED
      BY <3>4, <3>7, <3>8, <1>0, <1>1
  <2>6. CASE Compile(r)
    BY <2>6, <1>0, <1>1, <1>2 DEF Compile
  <2>. QED
    BY <1>3, <2>1, <2>2, <2>3, <2>4, <2>5, <2>6 DEF Registration
<1>4. ASSUME NEW s \in Servers, Request(s)
      PROVE  Good
  <2>1. UNCHANGED <<table, mounting>>
    BY <1>4 DEF Request, Load, FillCompile, FillPanic, FillCompatibility, Store, Serve
  <2>2. \A r \in Registrars : pc'[r] = pc[r]
    BY <1>4, <1>0, MuxCacheAssumption
    DEF Request, Load, FillCompile, FillPanic, FillCompatibility, Store, Serve,
        TypeOK, Goroutines
  <2>. QED
    BY <2>1, <2>2, <1>0, <1>1, <1>2
<1>5. CASE UNCHANGED vars
  BY <1>5, <1>0, <1>1, <1>2 DEF vars
<1>. QED
  BY <1>3, <1>4, <1>5 DEF Next

(* However goroutines race, Mount attaches its router to its own route or  *)
(* to one that was registered after it.                                    *)
THEOREM AttachmentsAreNoEarlier == Spec => []AttachedNoEarlier
<1>1. Init => AttachInv
  BY InitType DEF Init, AttachInv, AttachedNoEarlier, Goroutines
<1>2. AttachInv => AttachedNoEarlier
  BY DEF AttachInv
<1>. QED
  BY <1>1, <1>2, NextAttach, PTL DEF Spec

-----------------------------------------------------------------------------
(* Every step is one of the shared mux, or none.                           *)
LEMMA StepSimulation == TypeOK /\ [Next]_vars => [Shared!Next]_(Shared!vars)
<1>. SUFFICES ASSUME TypeOK, [Next]_vars
              PROVE  [Shared!Next]_(Shared!vars)
  OBVIOUS
<1>. DEFINE Undecided == {s \in Servers : pc[s] \in {"compile", "compat"}}
            shown == IF compiled = Nil THEN table ELSE compiled
            due == {s \in Servers : pc[s] = "store"}
<1>. USE DEF Filling
<1>0. TypeOK /\ TypeOK'
  BY NextType
<1>1. table # Nil /\ table' # Nil
  BY <1>0, NilIsNoTable DEF TypeOK
<1>2. ASSUME NEW r \in Registrars, Registration(r)
      PROVE  [Shared!Next]_(Shared!vars)
  <2>1. snap' = snap /\ \A s \in Servers : pc'[s] = pc[s]
    BY <1>2, <1>0, MuxCacheAssumption
    DEF Registration, Register, Use, SetFallback, MountReserve, MountHandle,
        MountAttach, Compile, TypeOK, Goroutines
  <2>2. Undecided' = Undecided /\ due' = due
    BY <2>1
  <2>3. CASE compiled' = Nil
    <3>1. shown' = table'
      BY <2>3
    <3>2. Shared!Change
      BY <1>1, <2>1, <2>2, <3>1 DEF Shared!Change
    <3>. QED
      BY <3>2 DEF Shared!Next
  <2>4. CASE table' = table /\ compiled' = compiled
    BY <2>1, <2>2, <2>4 DEF Shared!vars
  <2>5. CASE table' = table /\ compiled' = table
    <3>1. shown' = table
      BY <1>1, <2>5
    <3>2. Shared!Refresh
      BY <2>1, <2>2, <2>5, <3>1 DEF Shared!Refresh
    <3>. QED
      BY <3>2 DEF Shared!Next
  <2>. QED
    BY <1>2, <2>3, <2>4, <2>5
    DEF Registration, Register, AddRoute, Publish, Use, SetFallback,
        MountReserve, MountHandle, MountAttach, Compile
<1>3. ASSUME NEW s \in Servers, Request(s)
      PROVE  [Shared!Next]_(Shared!vars)
  <2>. USE <1>0 DEF TypeOK, Goroutines
  <2>1. CASE Load(s)
    <3>1. CASE compiled # Nil
      <4>1. /\ Undecided' = Undecided /\ s \notin Undecided /\ due' = due
            /\ shown' = shown /\ shown = compiled
            /\ snap[s] = Nil /\ snap' = [snap EXCEPT ![s] = compiled] /\ table' = table
        BY <2>1, <3>1 DEF Load
      <4>2. Shared!LookAtShown(s)
        BY <4>1 DEF Shared!LookAtShown
      <4>. QED
        BY <4>2 DEF Shared!Next
    <3>2. CASE compiled = Nil
      <4>1. /\ Undecided' = Undecided \cup {s} /\ s \notin Undecided /\ due' = due
            /\ shown' = shown
            /\ snap[s] = Nil /\ snap' = snap /\ table' = table
        BY <2>1, <3>2 DEF Load
      <4>2. Shared!Arrive(s)
        BY <4>1 DEF Shared!Arrive
      <4>. QED
        BY <4>2 DEF Shared!Next
    <3>. QED
      BY <3>1, <3>2
  <2>2. CASE FillCompile(s)
    <3>1. CASE HasConflicts(table.routes)
      <4>1. /\ Undecided' = Undecided /\ due' = due /\ shown' = shown
            /\ snap' = snap /\ table' = table
        BY <2>2, <3>1 DEF FillCompile
      <4>. QED
        BY <4>1 DEF Shared!vars
    <3>2. CASE ~HasConflicts(table.routes)
      <4>1. /\ Undecided' = Undecided \ {s} /\ s \in Undecided /\ due' = due \cup {s}
            /\ shown' = table
            /\ snap' = [snap EXCEPT ![s] = table] /\ table' = table
        BY <1>1, <2>2, <3>2 DEF FillCompile
      <4>2. Shared!LookAtTable(s)
        BY <4>1 DEF Shared!LookAtTable
      <4>. QED
        BY <4>2 DEF Shared!Next
    <3>. QED
      BY <3>1, <3>2
  <2>3. CASE FillPanic(s)
    <3>1. /\ Undecided' = Undecided \ {s} /\ s \in Undecided /\ due' = due
          /\ shown' = shown /\ snap' = snap /\ table' = table
      BY <2>3 DEF FillPanic
    <3>2. Shared!GiveUp(s)
      BY <3>1 DEF Shared!GiveUp
    <3>. QED
      BY <3>2 DEF Shared!Next
  <2>4. CASE FillCompatibility(s)
    <3>1. /\ Undecided' = Undecided \ {s} /\ s \in Undecided /\ due' = due \cup {s}
          /\ shown' = shown
          /\ snap' = [snap EXCEPT ![s] = table] /\ table' = table
      BY <2>4 DEF FillCompatibility
    <3>2. Shared!LookAtTable(s)
      BY <3>1 DEF Shared!LookAtTable
    <3>. QED
      BY <3>2 DEF Shared!Next
  <2>5. CASE Store(s)
    <3>1. /\ Undecided' = Undecided /\ s \in due /\ due' = due \ {s}
          /\ snap' = snap /\ table' = table
      BY <2>5 DEF Store
    <3>2. shown' = snap[s]
      BY <2>5 DEF Store
    <3>3. Shared!PutBack(s)
      BY <3>1, <3>2 DEF Shared!PutBack
    <3>. QED
      BY <3>3 DEF Shared!Next
  <2>6. CASE Serve(s)
    <3>1. /\ Undecided' = Undecided /\ s \notin due /\ due' = due
          /\ shown' = shown /\ table' = table
          /\ snap[s] # Nil /\ snap' = [snap EXCEPT ![s] = Nil]
      BY <2>6 DEF Serve
    <3>2. Shared!Answer(s)
      BY <3>1 DEF Shared!Answer
    <3>. QED
      BY <3>2 DEF Shared!Next
  <2>. QED
    BY <1>3, <2>1, <2>2, <2>3, <2>4, <2>5, <2>6 DEF Request
<1>4. CASE UNCHANGED vars
  BY <1>4 DEF vars, Shared!vars
<1>. QED
  BY <1>2, <1>3, <1>4 DEF Next

(* In every interleaving, lazy compilation shows a request the current     *)
(* table or the snapshot that was registered, compiled or put back last,   *)
(* and each fill puts back one snapshot (router_gp.go snapshot, Compile,   *)
(* invalidate).                                                            *)
THEOREM LazyCompilationRefines == Spec => AnswersFromShown
<1>1. Init => Shared!Init
  BY InitType, NilIsNoTable DEF Init, Shared!Init, TypeOK, Goroutines, Filling
<1>2. TypeOK /\ [Next]_vars => [Shared!Next]_(Shared!vars)
  BY StepSimulation
<1>. QED
  BY <1>1, <1>2, TypeCorrect, PTL DEF Spec, AnswersFromShown, Shared!Spec

=============================================================================

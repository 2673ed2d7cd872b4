--------------------------- MODULE MuxTreeProofs ---------------------------
(***************************************************************************)
(* Sealing, for any routers, muxes, patterns and middlewares; and what     *)
(* Walk says of the routers mounted in one another: each hop of a request  *)
(* adds to the path, the pattern and the middlewares that were passed what *)
(* walkRoutes adds when it goes down the same mount.                       *)
(***************************************************************************)
EXTENDS MuxWalk, RouteTableProofs

(* The mux of a route is sealed: no later Use changes what it shares.      *)
Sealed ==
    \A m \in Roots : \A i \in DOMAIN routes[m] : muxes[routes[m][i].by].sealed

(* The route of a mounted router is the text its handler cuts off, and the *)
(* wildcard.                                                               *)
MountTexts ==
    \A m \in Roots : \A i \in DOMAIN routes[m] :
        LET r == routes[m][i]
        IN  r.subRoutes # NoRouter =>
              /\ r.handler.mounted \in MountPrefixes
              /\ r.pattern = muxes[r.by].prefix \o Append(r.handler.mounted, Star)

(* The inductive invariant.                                                *)
Inv == TypeOK /\ Sealed /\ RoutesShareTheirMiddlewares /\ MountTexts

(* At first there are the routers, and no routes.                          *)
LEMMA InitInv == Init => Inv
<1>. SUFFICES ASSUME Init PROVE Inv
  OBVIOUS
<1>. USE MuxTreeAssumption DEF Init, Roots
<1>1. \A m \in Roots : NewRouter(m) \in MuxType
  BY DEF NewRouter, MuxType, Middlewares
<1>2. muxes \in Seq(MuxType) /\ DOMAIN muxes = Roots
  BY <1>1
<1>3. TypeOK
  BY <1>2 DEF TypeOK, NewRouter
<1>. QED
  BY <1>3 DEF Inv, Sealed, RoutesShareTheirMiddlewares, MountTexts

(* Steps that change no table: they leave the sealed muxes, and what the   *)
(* others are in the tree.                                                 *)
LEMMA MuxesChange ==
    ASSUME Inv, muxes' \in Seq(MuxType), made' \in Nat, UNCHANGED <<routes, mounts>>,
           DOMAIN muxes \subseteq DOMAIN muxes',
           \A k \in DOMAIN muxes :
              /\ muxes'[k].root = muxes[k].root
              /\ muxes'[k].prefix = muxes[k].prefix
              /\ muxes[k].sealed \/ muxes[k].root = k => muxes'[k].local = muxes[k].local
              /\ muxes[k].sealed => muxes'[k].sealed
    PROVE  Inv'
<1>. USE DEF Inv, TypeOK
<1>1. \A k \in Roots : k \in DOMAIN muxes /\ muxes[k].root = k
  OBVIOUS
<1>2. \A k \in Roots : muxes'[k].root = k /\ muxes'[k].local = <<>> /\ muxes'[k].prefix = <<>>
  BY <1>1
<1>3. \A k \in Roots : \A i \in DOMAIN routes[k] :
         /\ routes[k][i].by \in DOMAIN muxes /\ routes[k][i].by \in DOMAIN muxes'
         /\ muxes'[routes[k][i].by].root = k
         /\ routes[k][i].subRoutes # NoRouter => k < routes[k][i].subRoutes
  <2>. TAKE k \in Roots
  <2>. TAKE i \in DOMAIN routes[k]
  <2>1. /\ routes[k][i].by \in DOMAIN muxes /\ muxes[routes[k][i].by].root = k
        /\ routes[k][i].subRoutes # NoRouter => k < routes[k][i].subRoutes
    OBVIOUS
  <2>2. muxes'[routes[k][i].by].root = muxes[routes[k][i].by].root
    BY <2>1
  <2>. QED
    BY <2>1, <2>2
<1>4. TypeOK'
  BY <1>1, <1>2, <1>3
<1>5. Sealed'
  BY <1>3 DEF Sealed
<1>6. RoutesShareTheirMiddlewares'
  BY <1>3 DEF Sealed, RoutesShareTheirMiddlewares
<1>7. MountTexts'
  <2>. SUFFICES ASSUME NEW k \in Roots, NEW i \in DOMAIN routes[k], routes[k][i].subRoutes # NoRouter
                PROVE  /\ routes[k][i].handler.mounted \in MountPrefixes
                       /\ routes[k][i].pattern = muxes'[routes[k][i].by].prefix \o
                                                  Append(routes[k][i].handler.mounted, Star)
    BY DEF MountTexts
  <2>. DEFINE r == routes[k][i]
  <2>1. /\ r.handler.mounted \in MountPrefixes
        /\ r.pattern = muxes[r.by].prefix \o Append(r.handler.mounted, Star)
    BY DEF MountTexts
  <2>2. muxes'[r.by].prefix = muxes[r.by].prefix
    BY <1>3
  <2>. QED
    BY <2>1, <2>2
<1>. QED
  BY <1>4, <1>5, <1>6, <1>7

(* Use changes a mux that is not sealed.                                   *)
LEMMA UseKeepsInv ==
    ASSUME Inv, NEW m \in DOMAIN muxes, Use(m) PROVE Inv'
<1>. DEFINE old == muxes[m]
            new == [old EXCEPT
                      !.middlewares = IF old.root = m THEN Append(old.middlewares, made + 1)
                                      ELSE old.middlewares,
                      !.local = IF old.root = m THEN old.local ELSE Append(old.local, made + 1)]
<1>. USE DEF Inv
<1>1. old \in MuxType /\ made + 1 \in Nat \ {0}
  BY DEF TypeOK
<1>2. new \in MuxType /\ new.root = old.root /\ new.prefix = old.prefix
      /\ (old.root = m => new.local = old.local)
  <2>1. Append(old.middlewares, made + 1) \in Middlewares /\ Append(old.local, made + 1) \in Middlewares
    BY <1>1 DEF MuxType, Middlewares
  <2>. QED
    BY <1>1, <2>1 DEF MuxType
<1>3. muxes' = [muxes EXCEPT ![m] = new]
  <2>1. CASE old.root = m
    <3>1. new = [old EXCEPT !.middlewares = Append(old.middlewares, made + 1)]
      BY <1>1, <2>1 DEF MuxType
    <3>. QED
      BY <2>1, <3>1 DEF Use
  <2>2. CASE old.root # m
    <3>1. new = [old EXCEPT !.local = Append(old.local, made + 1)]
      BY <1>1, <2>2 DEF MuxType
    <3>. QED
      BY <2>2, <3>1 DEF Use
  <2>. QED
    BY <2>1, <2>2
<1>4. /\ muxes' \in Seq(MuxType) /\ DOMAIN muxes' = DOMAIN muxes
      /\ \A k \in DOMAIN muxes : muxes'[k] = IF k = m THEN new ELSE muxes[k]
  BY <1>2, <1>3 DEF TypeOK
<1>5. ~old.sealed /\ made' \in Nat /\ UNCHANGED <<routes, mounts>>
  BY DEF Use, TypeOK
<1>. QED
  BY <1>2, <1>4, <1>5, MuxesChange

(* A new mux comes last and has no routes.                                 *)
LEMMA ChildKeepsInv ==
    ASSUME Inv, NEW m \in DOMAIN muxes, NEW prefix \in Seq(Parts),
           NEW added \in Middlewares, Child(m, prefix, added), made' \in Nat
    PROVE  Inv'
<1>. DEFINE new == [NewRouter(muxes[m].root) EXCEPT !.prefix = muxes[m].prefix \o prefix,
                                                    !.local = muxes[m].local \o added]
<1>. USE DEF Inv
<1>1. muxes[m] \in MuxType
  BY DEF TypeOK
<1>2. new \in MuxType
  <2>1. muxes[m].prefix \o prefix \in Seq(Parts) /\ muxes[m].local \o added \in Middlewares
    BY <1>1, ConcatProperties DEF MuxType, Middlewares
  <2>2. NewRouter(muxes[m].root) \in MuxType
    BY <1>1 DEF MuxType, Middlewares, NewRouter
  <2>. QED
    BY <2>1, <2>2 DEF MuxType
<1>3. muxes' = Append(muxes, new) /\ UNCHANGED <<routes, mounts>>
  BY DEF Child, ParentOf
<1>4. /\ muxes' \in Seq(MuxType)
      /\ DOMAIN muxes \subseteq DOMAIN muxes'
      /\ \A k \in DOMAIN muxes : muxes'[k] = muxes[k]
  BY <1>2, <1>3 DEF TypeOK
<1>. QED
  BY <1>3, <1>4, MuxesChange

(* A registration seals its mux and wraps the handler in what it has.      *)
LEMMA AddRouteKeepsInv ==
    ASSUME Inv, NEW m \in DOMAIN muxes, NEW method \in Methods \cup {"*"},
           NEW pattern \in Seq(Parts), NEW mounted \in Seq(Parts),
           NEW subRoutes \in Roots \cup {NoRouter},
           subRoutes # NoRouter => /\ muxes[m].root < subRoutes
                                   /\ mounted \in MountPrefixes /\ pattern = Append(mounted, Star),
           AddRoute(m, method, pattern, mounted, subRoutes),
           mounts' \in [Roots -> SUBSET Seq(Parts)]
    PROVE  Inv'
<1>. DEFINE root == muxes[m].root
            new  == [method |-> method, pattern |-> muxes[m].prefix \o pattern,
                     handler |-> [middlewares |-> muxes[m].local, mounted |-> mounted,
                                  endpoint |-> <<root, Len(routes[root]) + 1>>],
                     subRoutes |-> subRoutes, by |-> m]
<1>. USE DEF Inv
<1>1. muxes[m] \in MuxType /\ m \in Nat /\ root \in Roots
  <2>1. muxes \in Seq(MuxType) /\ m \in 1..Len(muxes) /\ Len(muxes) \in Nat
    BY LenProperties DEF TypeOK
  <2>2. muxes[m] \in MuxType
    BY <2>1, ElementOfSeq
  <2>. QED
    BY <2>1, <2>2 DEF MuxType
<1>2. new \in RouteType
  <2>1. Len(routes[root]) \in Nat
    BY <1>1 DEF TypeOK
  <2>2. <<root, Len(routes[root]) + 1>> \in Roots \X (Nat \ {0})
    BY <1>1, <2>1
  <2>3. muxes[m].local \in Middlewares /\ muxes[m].prefix \o pattern \in Seq(Parts)
    BY <1>1, ConcatProperties DEF MuxType
  <2>. QED
    BY <1>1, <2>2, <2>3 DEF RouteType
<1>3. routes' = [routes EXCEPT ![root] = Append(@, new)]
  BY DEF AddRoute
<1>4. /\ routes' \in [Roots -> Seq(RouteType)]
      /\ \A k \in Roots : \A i \in DOMAIN routes'[k] :
            \/ i \in DOMAIN routes[k] /\ routes'[k][i] = routes[k][i]
            \/ k = root /\ routes'[k][i] = new
  <2>1. routes \in [Roots -> Seq(RouteType)] /\ routes[root] \in Seq(RouteType)
    BY <1>1 DEF TypeOK
  <2>. HIDE DEF new, root
  <2>2. /\ Append(routes[root], new) \in Seq(RouteType)
        /\ \A i \in DOMAIN Append(routes[root], new) :
              \/ i \in DOMAIN routes[root] /\ Append(routes[root], new)[i] = routes[root][i]
              \/ Append(routes[root], new)[i] = new
    BY <1>2, <2>1, AppendProperties
  <2>. QED
    BY <1>1, <1>3, <2>1, <2>2
<1>5. /\ muxes' \in Seq(MuxType) /\ DOMAIN muxes' = DOMAIN muxes
      /\ muxes'[m].sealed
      /\ \A k \in DOMAIN muxes : /\ muxes'[k].root = muxes[k].root
                                 /\ muxes'[k].local = muxes[k].local
                                 /\ muxes'[k].prefix = muxes[k].prefix
                                 /\ muxes[k].sealed => muxes'[k].sealed
  <2>1. [muxes[m] EXCEPT !.sealed = TRUE] \in MuxType
    BY <1>1 DEF MuxType
  <2>2. muxes' = [muxes EXCEPT ![m] = [muxes[m] EXCEPT !.sealed = TRUE]]
    BY DEF AddRoute, Seal
  <2>3. muxes \in Seq(MuxType) /\ m \in 1..Len(muxes)
    BY DEF TypeOK
  <2>4. /\ muxes' \in Seq(MuxType) /\ DOMAIN muxes' = DOMAIN muxes
        /\ \A k \in DOMAIN muxes :
              muxes'[k] = IF k = m THEN [muxes[m] EXCEPT !.sealed = TRUE] ELSE muxes[k]
    BY <2>1, <2>2, <2>3, ExceptSeq
  <2>. QED
    BY <1>1, <2>4 DEF MuxType
<1>. DEFINE Stays(k, i) == i \in DOMAIN routes[k] /\ routes'[k][i] = routes[k][i]
            Old(k, i) == LET r == routes[k][i]
                         IN  /\ r.by \in DOMAIN muxes /\ muxes[r.by].root = k
                             /\ muxes[r.by].sealed
                             /\ r.handler.middlewares = muxes[r.by].local
                             /\ r.subRoutes # NoRouter =>
                                  /\ k < r.subRoutes /\ r.handler.mounted \in MountPrefixes
                                  /\ r.pattern = muxes[r.by].prefix \o Append(r.handler.mounted, Star)
            Good(k, i) == LET r == routes'[k][i]
                          IN  /\ r.by \in DOMAIN muxes' /\ muxes'[r.by].root = k
                              /\ muxes'[r.by].sealed
                              /\ r.handler.middlewares = muxes'[r.by].local
                              /\ r.subRoutes # NoRouter =>
                                   /\ k < r.subRoutes /\ r.handler.mounted \in MountPrefixes
                                   /\ r.pattern = muxes'[r.by].prefix \o Append(r.handler.mounted, Star)
<1>a. ASSUME NEW k \in Roots, NEW i \in DOMAIN routes'[k]
      PROVE  Good(k, i)
  <2>1. CASE Stays(k, i)
    <3>1. Old(k, i)
      BY <2>1 DEF TypeOK, Sealed, RoutesShareTheirMiddlewares, MountTexts
    <3>. QED
      BY <1>5, <2>1, <3>1
  <2>2. CASE k = root /\ routes'[k][i] = new
    <3>1. /\ new.by = m /\ new.handler.middlewares = muxes[m].local
          /\ new.subRoutes = subRoutes /\ new.handler.mounted = mounted
          /\ new.pattern = muxes[m].prefix \o pattern
      OBVIOUS
    <3>2. routes'[k][i].subRoutes # NoRouter =>
             /\ k < routes'[k][i].subRoutes /\ routes'[k][i].handler.mounted \in MountPrefixes
             /\ routes'[k][i].pattern = muxes[m].prefix \o Append(routes'[k][i].handler.mounted, Star)
      BY <2>2, <3>1
    <3>3. /\ muxes'[m].root = root /\ muxes'[m].local = muxes[m].local
          /\ muxes'[m].prefix = muxes[m].prefix /\ muxes'[m].sealed /\ m \in DOMAIN muxes'
      BY <1>5
    <3>4. routes'[k][i].by = m /\ routes'[k][i].handler.middlewares = muxes[m].local
      BY <2>2, <3>1
    <3>. HIDE DEF new, root
    <3>. QED
      BY <2>2, <3>2, <3>3, <3>4
  <2>. QED
    BY <1>4, <2>1, <2>2
<1>6. TypeOK'
  <2>1. made' \in Nat /\ Roots \subseteq DOMAIN muxes'
    BY <1>5 DEF TypeOK, AddRoute
  <2>2. \A k \in Roots : muxes'[k].root = k /\ muxes'[k].local = <<>> /\ muxes'[k].prefix = <<>>
    BY <1>5 DEF TypeOK
  <2>3. \A k \in Roots : \A i \in DOMAIN routes'[k] :
          /\ routes'[k][i].by \in DOMAIN muxes'
          /\ muxes'[routes'[k][i].by].root = k
          /\ routes'[k][i].subRoutes # NoRouter => k < routes'[k][i].subRoutes
    BY <1>a
  <2>. QED
    BY <1>4, <1>5, <2>1, <2>2, <2>3 DEF TypeOK, RouteType, MuxType
<1>7. Sealed'
  BY <1>a DEF Sealed
<1>8. RoutesShareTheirMiddlewares'
  BY <1>a DEF RoutesShareTheirMiddlewares
<1>9. MountTexts'
  BY <1>a DEF MountTexts
<1>. QED
  BY <1>6, <1>7, <1>8, <1>9

(* Every step keeps the invariant.                                         *)
LEMMA NextInv == Inv /\ [Next]_vars => Inv'
<1>. SUFFICES ASSUME Inv, [Next]_vars PROVE Inv'
  OBVIOUS
<1>1. CASE UNCHANGED vars
  <2>1. muxes' = muxes /\ routes' = routes /\ mounts' = mounts /\ made' = made
    BY <1>1 DEF vars
  <2>2. TypeOK'
    BY <2>1 DEF Inv, TypeOK
  <2>3. Sealed' /\ RoutesShareTheirMiddlewares' /\ MountTexts'
    BY <2>1 DEF Inv, Sealed, RoutesShareTheirMiddlewares, MountTexts
  <2>. QED
    BY <2>2, <2>3 DEF Inv
<1>2. ASSUME NEW m \in DOMAIN muxes, Use(m) PROVE Inv'
  BY <1>2, UseKeepsInv
<1>3. ASSUME NEW m \in DOMAIN muxes,
             With(m) \/ Group(m) \/ \E prefix \in RoutePrefixes : Route(m, prefix)
      PROVE  Inv'
  <2>0. /\ made \in Nat /\ <<>> \in Middlewares /\ <<made + 1>> \in Middlewares
        /\ <<>> \in Seq(Parts) /\ RoutePrefixes \subseteq Seq(Parts)
    BY MuxTreeAssumption DEF Inv, TypeOK, Middlewares
  <2>1. CASE With(m)
    <3>1. Child(m, <<>>, <<made + 1>>) /\ made' \in Nat
      BY <2>0, <2>1 DEF With
    <3>. QED
      BY <2>0, <3>1, ChildKeepsInv
  <2>2. CASE Group(m)
    BY <2>0, <2>2, ChildKeepsInv DEF Group
  <2>3. CASE \E prefix \in RoutePrefixes : Route(m, prefix)
    <3>1. PICK prefix \in RoutePrefixes : Route(m, prefix)
      BY <2>3
    <3>2. Child(m, prefix, <<>>) /\ made' \in Nat /\ prefix \in Seq(Parts)
      BY <2>0, <3>1 DEF Route
    <3>. QED
      BY <2>0, <3>2, ChildKeepsInv
  <2>. QED
    BY <1>3, <2>1, <2>2, <2>3
<1>4. ASSUME NEW m \in DOMAIN muxes, NEW pattern \in Patterns,
             Handle(m, pattern) \/ \E method \in Methods : Method(m, method, pattern)
      PROVE  Inv'
  <2>1. /\ pattern \in Seq(Parts) /\ mounts' \in [Roots -> SUBSET Seq(Parts)]
        /\ <<>> \in Seq(Parts) /\ NoRouter \in Roots \cup {NoRouter}
    BY <1>4, MuxTreeAssumption DEF Inv, TypeOK, Handle, Method
  <2>2. PICK method \in Methods \cup {"*"} : AddRoute(m, method, pattern, <<>>, NoRouter)
    BY <1>4 DEF Handle, Method
  <2>. QED
    BY <2>1, <2>2, AddRouteKeepsInv
<1>5. ASSUME NEW m \in DOMAIN muxes, NEW prefix \in MountPrefixes,
             NEW router \in Roots \cup {NoRouter}, Mount(m, prefix, router)
      PROVE  Inv'
  <2>1. muxes[m] \in MuxType
    BY DEF Inv, TypeOK
  <2>2. prefix \in Seq(Parts) /\ Append(prefix, Star) \in Seq(Parts)
    BY MuxTreeAssumption
  <2>3. muxes[m].prefix \o prefix \in Seq(Parts)
    BY <2>1, <2>2 DEF MuxType
  <2>4. mounts' \in [Roots -> SUBSET Seq(Parts)]
    BY <1>5, <2>1, <2>3 DEF Mount, Inv, TypeOK, MuxType
  <2>5. AddRoute(m, "*", Append(prefix, Star), prefix, router)
        /\ (router # NoRouter => muxes[m].root < router)
    BY <1>5 DEF Mount
  <2>6. "*" \in Methods \cup {"*"}
    OBVIOUS
  <2>. QED
    BY <2>2, <2>4, <2>5, <2>6, AddRouteKeepsInv
<1>. QED
  BY <1>1, <1>2, <1>3, <1>4, <1>5 DEF Next

(* In every behaviour the muxes, tables and mounts have their types, each  *)
(* mux registers in its own router's table, and mounts lead to later       *)
(* routers (router_gp.go 598-777).                                         *)
THEOREM TypeCorrect == Spec => []TypeOK
<1>. QED
  BY InitInv, NextInv, PTL DEF Spec, Inv

(* Sealing works: for any muxes made in any order, the routes of a mux run *)
(* in the middlewares that it has now (router_gp.go 614-668, 692-716).     *)
THEOREM SealingWorks == Spec => []RoutesShareTheirMiddlewares
<1>. QED
  BY InitInv, NextInv, PTL DEF Spec, Inv

-----------------------------------------------------------------------------
(* Walk                                                                    *)

(* What walkRoutes may list.                                               *)
Entries ==
    [method : RegisteredMethods, pattern : Seq(Parts), endpoint : Roots \X (Nat \ {0}),
     middlewares : Middlewares]

(* Texts are made of segments.                                             *)
LEMMA PartsText ==
    ASSUME NEW text \in Seq(Parts)
    PROVE  IsText(text)
<1>1. DOMAIN text = 1..Len(text) /\ Len(text) \in Nat /\ \A k \in 1..Len(text) : text[k] \in Parts
  BY LenProperties, ElementOfSeq
<1>2. \A k \in DOMAIN text : text[k] \in Range(text)
  BY DEF Range
<1>3. text \in Seq(Range(text))
  BY <1>1, <1>2, SeqDef
<1>. QED  BY <1>1, <1>3, MuxWalkAssumption DEF IsText

(* A snapshot of a router keeps routes of its table, which all parse.      *)
LEMMA SnapshotIs ==
    ASSUME TypeOK, SnapshotsExist, NEW m \in Roots
    PROVE  LET kept == Kept(routes[m])
               R    == Range(routes[m])
           IN  /\ Parsed(R) /\ kept \in Seq(R) /\ Distinct(kept) /\ Filled(SnapshotOf(m), kept)
               /\ SnapshotOf(m).routes = kept
               /\ \A r \in R : r \in RouteType /\ \E i \in DOMAIN routes[m] : r = routes[m][i]
               /\ Range(kept) \subseteq R
<1> DEFINE table == routes[m]
           R == Range(table)
           kept == Kept(table)
<1>1. table \in Seq(RouteType)
  BY DEF TypeOK
<1>2. \A i \in DOMAIN table : table[i] \in RouteType /\ Parses(table[i].pattern)
  <2>1. DOMAIN table = 1..Len(table)
    BY <1>1, LenProperties
  <2>2. \A i \in DOMAIN table : table[i] \in RouteType
    BY <1>1, <2>1, ElementOfSeq
  <2>3. ~CompatibilityPanics(table)
    BY DEF SnapshotsExist
  <2>. QED  BY <2>2, <2>3 DEF CompatibilityPanics
<1> HIDE DEF table
<1>3. \A r \in R : \E i \in DOMAIN table : r = table[i]
  BY DEF Range
<1>4. \A r \in R : r \in RouteType /\ Parses(r.pattern)
  BY <1>2, <1>3
<1>5. Parsed(R)
  <2>1. \A r \in R : r.pattern \in Seq(Parts)
    BY <1>4 DEF RouteType
  <2>. QED  BY <1>4, <2>1, PartsText DEF Parsed
<1>6. table \in Seq(R)
  <2>1. \A i \in DOMAIN table : table[i] \in R
    BY DEF Range
  <2>2. DOMAIN table = 1..Len(table) /\ Len(table) \in Nat
    BY <1>1, LenProperties
  <2> HIDE DEF R
  <2>. QED  BY <1>1, <2>1, <2>2, SeqDef
<1> HIDE DEF R
<1>7. kept \in Seq(R) /\ Distinct(kept)
  BY <1>5, <1>6, KeptTable
<1>8. FillSnapshot(table, NoFallbacks) =
         [routes |-> kept, fallbacks |-> NoFallbacks,
          dynamic |-> [x \in {r.method : r \in Range(kept)} |-> Dynamic(kept, x)]]
  BY <1>5, <1>6, FilledFromKept
<1>9. SnapshotOf(m) = FillSnapshot(table, NoFallbacks)
  BY DEF SnapshotOf, table
<1> HIDE DEF kept
<1>10. SnapshotOf(m).routes = kept /\ Filled(SnapshotOf(m), kept)
  BY <1>8, <1>9 DEF Filled
<1>11. Range(kept) \subseteq R
  <2>1. DOMAIN kept = 1..Len(kept) /\ \A i \in 1..Len(kept) : kept[i] \in R
    BY <1>7, LenProperties, ElementOfSeq
  <2>. QED  BY <2>1 DEF Range
<1>. QED  BY <1>3, <1>4, <1>5, <1>7, <1>10, <1>11 DEF table, R, kept

(* What walkRoutes lists at a router, given what it lists at the others.   *)
ListedAt(m, listing) ==
    UNION {IF route.subRoutes = NoRouter THEN Leaves(m, route)
           ELSE Beneath(m, route, listing[route.subRoutes]) :
              route \in Range(SnapshotOf(m).routes)}

(* The middlewares on the way to a route.                                  *)
LEMMA MiddlewaresType ==
    ASSUME TypeOK, NEW m \in Roots, NEW route \in RouteType
    PROVE  /\ MiddlewaresOf(m, route) \in Middlewares
           /\ muxes[m].middlewares \in Middlewares /\ route.handler.middlewares \in Middlewares
<1>1. muxes[m] \in MuxType
  <2>1. m \in DOMAIN muxes /\ muxes \in Seq(MuxType)
    BY DEF TypeOK
  <2>. QED  BY <2>1, LenProperties, ElementOfSeq
<1>2. muxes[m].middlewares \in Middlewares /\ route.handler.middlewares \in Middlewares
  BY <1>1 DEF MuxType, RouteType
<1>. QED  BY <1>2, ConcatProperties DEF MiddlewaresOf, Middlewares

(* An entry behind a mount.                                                *)
LEMMA EntryBeneath ==
    ASSUME NEW e \in Entries, NEW p \in Seq(Parts), NEW ran \in Middlewares
    PROVE  LET d == [e EXCEPT !.pattern = p \o @, !.middlewares = ran \o @]
           IN  /\ d \in Entries /\ d.method = e.method /\ d.pattern = p \o e.pattern
               /\ d.endpoint = e.endpoint /\ d.middlewares = ran \o e.middlewares
<1>1. p \o e.pattern \in Seq(Parts) /\ ran \o e.middlewares \in Middlewares
  BY ConcatProperties DEF Entries, Middlewares
<1> HIDE DEF Middlewares
<1>. QED  BY <1>1 DEF Entries

(* What is listed are entries, if all is that is listed further down.      *)
LEMMA ListedAreEntries ==
    ASSUME TypeOK, SnapshotsExist, NEW m \in Roots, NEW listing \in [Roots -> SUBSET Entries]
    PROVE  ListedAt(m, listing) \in SUBSET Entries
<1> SUFFICES ASSUME NEW route \in Range(SnapshotOf(m).routes),
                    NEW e \in (IF route.subRoutes = NoRouter THEN Leaves(m, route)
                               ELSE Beneath(m, route, listing[route.subRoutes]))
             PROVE  e \in Entries
  BY DEF ListedAt
<1>1. route \in RouteType
  BY SnapshotIs
<1>2. /\ MiddlewaresOf(m, route) \in Middlewares /\ route.pattern \in Seq(Parts)
      /\ route.handler.endpoint \in Roots \X (Nat \ {0})
      /\ route.subRoutes \in Roots \cup {NoRouter}
  BY <1>1, MiddlewaresType DEF RouteType
<1>3. MethodsOf(route) \subseteq RegisteredMethods
  BY <1>1, MuxWalkAssumption DEF MethodsOf, RouteType, AnyMethod
<1>4. CASE route.subRoutes = NoRouter
  <2>1. e \in Leaves(m, route)
    BY <1>4
  <2> HIDE DEF Middlewares
  <2>2. PICK method \in MethodsOf(route) :
           e = [method |-> method, pattern |-> route.pattern, endpoint |-> route.handler.endpoint,
                middlewares |-> MiddlewaresOf(m, route)]
    BY <2>1 DEF Leaves
  <2>3. method \in RegisteredMethods
    BY <1>3
  <2>. QED  BY <1>2, <2>2, <2>3 DEF Entries
<1>5. CASE route.subRoutes # NoRouter
  <2>1. e \in Beneath(m, route, listing[route.subRoutes]) /\ route.subRoutes \in Roots
    BY <1>2, <1>5
  <2>2. PICK d \in listing[route.subRoutes] :
           e = [d EXCEPT !.pattern = route.pattern \o @,
                         !.middlewares = MiddlewaresOf(m, route) \o @]
    BY <2>1 DEF Beneath
  <2>3. d \in Entries
    BY <2>1, <2>2
  <2>. QED  BY <1>2, <2>2, <2>3, EntryBeneath
<1>. QED  BY <1>4, <1>5

(* What is listed at a router depends on the routers mounted in it, and    *)
(* those come later.                                                       *)
LEMMA ListedFromLater ==
    ASSUME TypeOK, SnapshotsExist, NEW m \in Roots, NEW f, NEW g,
           \A k \in Roots : m < k => f[k] = g[k]
    PROVE  ListedAt(m, f) = ListedAt(m, g)
<1>1. ASSUME NEW route \in Range(SnapshotOf(m).routes)
      PROVE  route.subRoutes # NoRouter => f[route.subRoutes] = g[route.subRoutes]
  <2>1. route \in RouteType /\ \E i \in DOMAIN routes[m] : route = routes[m][i]
    BY SnapshotIs
  <2>2. route.subRoutes # NoRouter => m < route.subRoutes
    BY <2>1 DEF TypeOK
  <2>3. route.subRoutes \in Roots \cup {NoRouter}
    BY <2>1 DEF RouteType
  <2>. QED  BY <2>2, <2>3
<1>. QED  BY <1>1 DEF ListedAt

(* Listing is what its recursion says: the last routers come first.        *)
LEMMA ListingIs ==
    ASSUME TypeOK, SnapshotsExist
    PROVE  \A m \in Roots : Listing[m] = ListedAt(m, Listing)
<1> DEFINE n == Routers
           V == [Roots -> SUBSET Entries]
           base == [m \in Roots |-> {}]
           step == [k \in 1..n |-> [f \in V |-> [f EXCEPT ![n + 1 - k] = ListedAt(n + 1 - k, f)]]]
<1>1. n \in Nat /\ Roots = 1..n
  BY MuxTreeAssumption DEF Roots
<1>2. base \in V
  OBVIOUS
<1>3. step \in [1..n -> [V -> V]]
  <2>1. ASSUME NEW k \in 1..n, NEW f \in V
        PROVE  [f EXCEPT ![n + 1 - k] = ListedAt(n + 1 - k, f)] \in V
    <3> DEFINE at == n + 1 - k
    <3>1. at \in Roots
      BY <1>1
    <3> HIDE DEF at
    <3>2. ListedAt(at, f) \in SUBSET Entries
      BY <3>1, ListedAreEntries
    <3>3. [f EXCEPT ![at] = ListedAt(at, f)] \in V
      BY <3>2
    <3>. QED  BY <3>3 DEF at
  <2> HIDE DEF V
  <2>. QED  BY <2>1
<1> HIDE DEF V, base, step
<1>4. PICK g \in [0..n -> V] : Follows(g, n, base, step)
  BY <1>1, <1>2, <1>3, Recursion
<1> DEFINE Good == {k \in 0..n : \A m \in Roots : m > n - k => g[k][m] = ListedAt(m, g[k])}
<1>5. 0 \in Good
  BY <1>1
<1>6. ASSUME NEW k \in 0..(n - 1), k \in Good PROVE k + 1 \in Good
  <2> DEFINE at == n - k
  <2>1. at \in Roots /\ k + 1 \in 0..n /\ k \in 0..n /\ at = n + 1 - (k + 1) /\ k + 1 \in 1..n
        /\ (k + 1) - 1 = k
    BY <1>1
  <2>2. g[k + 1] = step[k + 1][g[k]] /\ g[k] \in V
    BY <1>4, <2>1 DEF Follows
  <2>3. step[k + 1][g[k]] = [g[k] EXCEPT ![at] = ListedAt(at, g[k])]
    BY <2>1, <2>2 DEF step
  <2>4. g[k] \in [Roots -> SUBSET Entries]
    BY <2>2 DEF V
  <2> HIDE DEF at
  <2>5. /\ g[k + 1][at] = ListedAt(at, g[k])
        /\ \A m \in Roots : m # at => g[k + 1][m] = g[k][m]
    BY <2>1, <2>2, <2>3, <2>4
  <2>6. ASSUME NEW m \in Roots, m >= at PROVE ListedAt(m, g[k]) = ListedAt(m, g[k + 1])
    <3>1. \A j \in Roots : m < j => g[k][j] = g[k + 1][j]
      BY <1>1, <2>1, <2>5, <2>6
    <3>. QED  BY <3>1, ListedFromLater
  <2>7. ASSUME NEW m \in Roots, m > n - (k + 1)
        PROVE  g[k + 1][m] = ListedAt(m, g[k + 1])
    <3>1. CASE m = at
      BY <2>1, <2>5, <2>6, <3>1, <1>1
    <3>2. CASE m # at
      <4>1. m > n - k /\ m >= at
        BY <1>1, <2>1, <2>7, <3>2 DEF at
      <4>2. g[k][m] = ListedAt(m, g[k])
        BY <1>6, <4>1
      <4>. QED  BY <2>5, <2>6, <3>2, <4>1, <4>2
    <3>. QED  BY <3>1, <3>2
  <2>. QED  BY <2>1, <2>7
<1>7. n \in Good
  <2> HIDE DEF Good
  <2>1. 0..n \subseteq Good
    BY <1>1, <1>5, <1>6, Induction
  <2>. QED  BY <1>1, <2>1
<1>8. g[n] = [m \in Roots |-> ListedAt(m, g[n])]
  <2>1. g[n] \in [Roots -> SUBSET Entries]
    BY <1>1, <1>4 DEF V
  <2>2. \A m \in Roots : g[n][m] = ListedAt(m, g[n])
    BY <1>1, <1>7
  <2>. QED  BY <2>1, <2>2
<1>9. Listing = CHOOSE f : f = [m \in Roots |-> ListedAt(m, f)]
  BY DEF Listing, ListedAt
<1>10. Listing = [m \in Roots |-> ListedAt(m, Listing)]
  BY <1>8, <1>9
<1>. QED  BY <1>10

(* One more part of a pattern whose "/*/" are replaced.                    *)
ShortenPart(full, k, s) ==
    IF full[k] = Star /\ k < Len(full) /\ ~s.cut
    THEN [text |-> s.text, cut |-> TRUE]
    ELSE [text |-> Append(s.text, full[k]), cut |-> FALSE]

(* What of the parts is kept, told by its recursion.                       *)
LEMMA ShortenedDef ==
    ASSUME NEW full \in Seq(Parts)
    PROVE  /\ \A k \in 0..Len(full) :
                 /\ Shortened(full)[k] \in [text : Seq(Parts), cut : BOOLEAN]
                 /\ Shortened(full)[k].text \in Seq(Parts)
           /\ Shortened(full)[0] = [text |-> <<>>, cut |-> FALSE]
           /\ \A k \in 1..Len(full) :
                 Shortened(full)[k] = ShortenPart(full, k, Shortened(full)[k - 1])
<1> DEFINE n == Len(full)
           Short == [text : Seq(Parts), cut : BOOLEAN]
           base == [text |-> <<>>, cut |-> FALSE]
           step == [k \in 1..n |-> [s \in Short |-> ShortenPart(full, k, s)]]
           Is(f) == f = [k \in 0..n |-> IF k = 0 THEN base ELSE ShortenPart(full, k, f[k - 1])]
<1>1. n \in Nat /\ \A k \in 1..n : full[k] \in Parts
  BY LenProperties, ElementOfSeq
<1>2. step \in [1..n -> [Short -> Short]] /\ base \in Short
  <2>1. ASSUME NEW k \in 1..n, NEW s \in Short PROVE ShortenPart(full, k, s) \in Short
    <3>1. Append(s.text, full[k]) \in Seq(Parts)
      BY <1>1
    <3>. QED  BY <3>1 DEF ShortenPart
  <2>2. base \in Short
    OBVIOUS
  <2> HIDE DEF base, Short
  <2>. QED  BY <2>1, <2>2
<1> HIDE DEF base, Short
<1>3. PICK f \in [0..n -> Short] : Follows(f, n, base, step)
  <2> HIDE DEF step, n
  <2>. QED  BY <1>1, <1>2, Recursion
<1>4. \A k \in 1..n : k # 0 /\ k - 1 \in 0..n /\ k \in 0..n
  BY <1>1
<1>5. Is(f)
  <2>1. \A k \in 1..n : f[k] = ShortenPart(full, k, f[k - 1])
    BY <1>1, <1>3, <1>4 DEF Follows
  <2>2. f[0] = base
    BY <1>3 DEF Follows
  <2>3. \A k \in 0..n : k = 0 \/ k \in 1..n
    BY <1>1
  <2>. QED  BY <2>1, <2>2, <2>3
<1>6. Shortened(full) = CHOOSE g : Is(g)
  BY DEF Shortened, base, ShortenPart
<1>7. PICK g : Is(g) /\ g = Shortened(full)
  <2> HIDE DEF Is
  <2>. QED  BY <1>5, <1>6
<1>8. g = f
  <2>1. g = [k \in 0..n |-> g[k]]
    BY <1>7
  <2>2. g[0] = base /\ \A k \in 1..n : g[k] = ShortenPart(full, k, g[k - 1])
    BY <1>1, <1>4, <1>7
  <2>3. \A k \in 1..n : \A s \in Short : step[k][s] = ShortenPart(full, k, s)
    OBVIOUS
  <2> HIDE DEF step, n, Is
  <2>4. FollowsIn(g, n, Short, base, step)
    BY <2>2, <2>3 DEF FollowsIn
  <2>. QED  BY <1>1, <1>2, <1>3, <2>1, <2>4, RecursionUnique
<1>9. \A k \in 1..n : f[k] = ShortenPart(full, k, f[k - 1])
  BY <1>1, <1>4, <1>5
<1>10. \A k \in 0..n : f[k] \in Short /\ f[k].text \in Seq(Parts)
  BY <1>3 DEF Short
<1>. QED  BY <1>3, <1>7, <1>8, <1>9, <1>10 DEF base, Follows, Short

(* Parts that are no "*" before the end are kept.                          *)
LEMMA ShortenedKeeps ==
    ASSUME NEW full \in Seq(Parts), NEW a \in 0..Len(full), NEW b \in Seq(Parts),
           a + Len(b) <= Len(full),
           \A i \in 1..Len(b) : full[a + i] = b[i] /\ (b[i] # Star \/ a + i = Len(full))
    PROVE  /\ Shortened(full)[a + Len(b)].text = Shortened(full)[a].text \o b
           /\ b # <<>> => ~Shortened(full)[a + Len(b)].cut
<1> DEFINE short == Shortened(full)
           n == Len(full)
           l == Len(b)
           t == short[a].text
           c == Len(t)
           Good == {k \in 0..l : /\ Len(short[a + k].text) = c + k
                                 /\ \A i \in 1..c : short[a + k].text[i] = t[i]
                                 /\ \A i \in 1..k : short[a + k].text[c + i] = b[i]
                                 /\ k > 0 => ~short[a + k].cut}
<1>1. n \in Nat /\ l \in Nat /\ a \in Nat /\ a + l <= n
  BY LenProperties
<1>2. /\ \A k \in 0..n : short[k].text \in Seq(Parts)
      /\ \A k \in 1..n : short[k] = ShortenPart(full, k, short[k - 1])
  BY ShortenedDef
<1>3. \A i \in 1..l : full[a + i] = b[i] /\ b[i] \in Parts /\ (b[i] # Star \/ a + i = n)
  BY ElementOfSeq
<1> HIDE DEF short, n, l
<1>4. c \in Nat /\ t \in Seq(Parts)
  BY <1>1, <1>2, LenProperties
<1> HIDE DEF c, t
<1>5. 0 \in Good
  BY <1>1, <1>4 DEF c, t
<1>6. ASSUME NEW k \in 0..(l - 1), k \in Good PROVE k + 1 \in Good
  <2> DEFINE s == short[a + k]
             x == Append(s.text, b[k + 1])
  <2>1. /\ k + 1 \in 1..l /\ k \in 0..l /\ k + 1 \in 0..l /\ a + k \in 0..n
        /\ a + (k + 1) \in 1..n /\ (a + (k + 1)) - 1 = a + k /\ k + 1 > 0
    BY <1>1
  <2>2. full[a + (k + 1)] = b[k + 1] /\ b[k + 1] \in Parts
        /\ ~(full[a + (k + 1)] = Star /\ a + (k + 1) < n)
    BY <1>1, <1>3, <2>1
  <2>3. short[a + (k + 1)] = [text |-> x, cut |-> FALSE]
    BY <1>2, <2>1, <2>2 DEF ShortenPart, n
  <2>4. s.text \in Seq(Parts)
    BY <1>2, <2>1
  <2>5. /\ Len(s.text) = c + k
        /\ \A i \in 1..c : s.text[i] = t[i]
        /\ \A i \in 1..k : s.text[c + i] = b[i]
    BY <1>6
  <2> DEFINE u == s.text
             y == b[k + 1]
  <2>6. u \in Seq(Parts) /\ y \in Parts
    BY <2>2, <2>4
  <2> HIDE DEF u, y
  <2>7. /\ Len(Append(u, y)) = Len(u) + 1 /\ Append(u, y)[Len(u) + 1] = y
        /\ \A i \in 1..Len(u) : Append(u, y)[i] = u[i]
    BY <2>6, AppendProperties
  <2>8. Len(x) = Len(u) + 1 /\ x[Len(u) + 1] = y /\ \A i \in 1..Len(u) : x[i] = u[i]
    BY <2>7 DEF u, y
  <2> HIDE DEF x
  <2>9. Len(u) = c + k /\ (\A i \in 1..c : u[i] = t[i]) /\ (\A i \in 1..k : u[c + i] = b[i])
    BY <2>5 DEF u
  <2>10. Len(x) = c + (k + 1) /\ x[c + (k + 1)] = b[k + 1]
    BY <1>4, <2>1, <2>8, <2>9 DEF y
  <2>11. \A i \in 1..c : x[i] = t[i]
    BY <1>4, <2>1, <2>8, <2>9
  <2>12. \A i \in 1..(k + 1) : x[c + i] = b[i]
    <3> TAKE i \in 1..(k + 1)
    <3>1. CASE i = k + 1
      BY <2>10, <3>1
    <3>2. CASE i # k + 1
      <4>1. i \in 1..k /\ c + i \in 1..Len(u)
        BY <1>4, <2>1, <2>9, <3>2
      <4>. QED  BY <2>8, <2>9, <4>1
    <3>. QED  BY <3>1, <3>2
  <2>. QED  BY <2>1, <2>3, <2>10, <2>11, <2>12
<1>7. l \in Good
  <2> HIDE DEF Good
  <2>1. 0..l \subseteq Good
    BY <1>1, <1>5, <1>6, Induction
  <2>. QED  BY <1>1, <2>1
<1> DEFINE whole == short[a + l].text
<1>8. /\ Len(whole) = c + l
      /\ \A i \in 1..c : whole[i] = t[i]
      /\ \A i \in 1..l : whole[c + i] = b[i]
      /\ l > 0 => ~short[a + l].cut
      /\ whole \in Seq(Parts)
  BY <1>1, <1>2, <1>7
<1> HIDE DEF whole, Good
<1>9. /\ t \o b \in Seq(Parts) /\ Len(t \o b) = c + l
      /\ \A i \in 1..c : (t \o b)[i] = t[i]
      /\ \A i \in 1..l : (t \o b)[c + i] = b[i]
  <2>1. Parts \cup Parts = Parts
    OBVIOUS
  <2>2. /\ t \o b \in Seq(Parts \cup Parts) /\ Len(t \o b) = Len(t) + Len(b)
        /\ \A i \in 1..Len(t) : (t \o b)[i] = t[i]
        /\ \A i \in 1..Len(b) : (t \o b)[Len(t) + i] = b[i]
    BY <1>4, ConcatIs
  <2>. QED  BY <2>1, <2>2 DEF c, l
<1>10. \A i \in 1..(c + l) : i \in 1..c \/ (i - c \in 1..l /\ c + (i - c) = i)
  BY <1>1, <1>4
<1>11. \A i \in 1..(c + l) : whole[i] = (t \o b)[i]
  <2> TAKE i \in 1..(c + l)
  <2>1. CASE i \in 1..c
    BY <1>8, <1>9, <2>1
  <2>2. CASE i \notin 1..c
    <3>1. PICK j \in 1..l : c + j = i
      BY <1>10, <2>2
    <3>. QED  BY <1>8, <1>9, <3>1
  <2>. QED  BY <2>1, <2>2
<1>12. whole = t \o b
  <2> DEFINE z == t \o b
  <2>1. z \in Seq(Parts) /\ Len(z) = Len(whole) /\ \A i \in 1..Len(whole) : whole[i] = z[i]
    BY <1>8, <1>9, <1>11
  <2> HIDE DEF z
  <2>2. whole = z
    BY <1>8, <2>1, SeqEqual
  <2>. QED  BY <2>2 DEF z
<1>13. b # <<>> => l > 0
  <2>1. b # <<>> => Len(b) # 0
    BY EmptySeq
  <2>. QED  BY <1>1, <2>1 DEF l
<1>. QED  BY <1>8, <1>12, <1>13 DEF whole, short, l, t

(* Below mounts whose patterns joined are Q, Walk puts P before a pattern. *)
Shortens(Q, P) ==
    \A p \in Seq(Parts) : p # <<>> => Shortened(Q \o p)[Len(Q)].text = P

(* Nothing is put before the patterns of the first router.                 *)
LEMMA ShortensNone == Shortens(<<>>, <<>>)
<1> SUFFICES ASSUME NEW p \in Seq(Parts) PROVE Shortened(<<>> \o p)[Len(<<>>)].text = <<>>
  BY DEF Shortens
<1>1. <<>> \o p = p /\ Len(<<>>) = 0
  BY EmptySeq, ConcatEmptySeq
<1>2. Shortened(p)[0] = [text |-> <<>>, cut |-> FALSE]
  BY ShortenedDef
<1>. QED  BY <1>1, <1>2

(* A concatenation is made of its two sequences.                           *)
LEMMA PartsJoined ==
    ASSUME NEW d \in Seq(Parts), NEW e \in Seq(Parts)
    PROVE  /\ d \o e \in Seq(Parts) /\ Len(d \o e) = Len(d) + Len(e)
           /\ Len(d) \in Nat /\ Len(e) \in Nat
           /\ \A i \in 1..Len(d) : (d \o e)[i] = d[i]
           /\ \A i \in 1..Len(e) : (d \o e)[Len(d) + i] = e[i]
<1>1. Parts \cup Parts = Parts
  OBVIOUS
<1>2. /\ d \o e \in Seq(Parts \cup Parts) /\ Len(d \o e) = Len(d) + Len(e)
      /\ Len(d) \in Nat /\ Len(e) \in Nat
      /\ \A i \in 1..Len(d) : (d \o e)[i] = d[i]
      /\ \A i \in 1..Len(e) : (d \o e)[Len(d) + i] = e[i]
  BY ConcatIs
<1>. QED  BY <1>1, <1>2

(* Concatenating texts is associative.                                     *)
LEMMA PartsAssociate ==
    ASSUME NEW a \in Seq(Parts), NEW b \in Seq(Parts), NEW c \in Seq(Parts)
    PROVE  (a \o b) \o c = a \o (b \o c)
  BY ConcatAssociative

(* A mount's text is put behind what comes before it, its "*" is not.      *)
LEMMA ShortensNext ==
    ASSUME NEW Q \in Seq(Parts), NEW P \in Seq(Parts), Shortens(Q, P),
           NEW b \in Seq(Parts), b # <<>>, \A i \in 1..Len(b) : b[i] # Star
    PROVE  Shortens(Q \o Append(b, Star), P \o b)
<1> SUFFICES ASSUME NEW p \in Seq(Parts), p # <<>>
             PROVE  Shortened((Q \o Append(b, Star)) \o p)[Len(Q \o Append(b, Star))].text = P \o b
  BY DEF Shortens
<1> DEFINE star == Append(b, Star)
           r == star \o p
           full == Q \o r
           n == Len(full)
           a == Len(Q)
           l == Len(b)
           k == a + l
<1>1. /\ star \in Seq(Parts) /\ Len(star) = l + 1 /\ star[l + 1] = Star
      /\ \A i \in 1..l : star[i] = b[i]
      /\ l \in Nat /\ a \in Nat /\ Len(p) \in Nat \ {0}
  <2>1. Star \in Parts
    BY MuxTreeAssumption
  <2>2. Len(p) # 0
    BY EmptySeq
  <2>. QED  BY <2>1, <2>2, AppendProperties, LenProperties
<1> HIDE DEF star
<1>2. /\ r \in Seq(Parts) /\ Len(r) = (l + 1) + Len(p)
      /\ \A i \in 1..(l + 1) : r[i] = star[i]
  <2>1. /\ star \o p \in Seq(Parts) /\ Len(star \o p) = Len(star) + Len(p)
        /\ \A i \in 1..Len(star) : (star \o p)[i] = star[i]
    BY <1>1, PartsJoined
  <2>. QED  BY <1>1, <2>1
<1>3. (Q \o star) \o p = full /\ Len(Q \o star) = k + 1
  <2>1. (Q \o star) \o p = Q \o (star \o p)
    BY <1>1, PartsAssociate
  <2>2. Len(Q \o star) = Len(Q) + Len(star)
    BY <1>1, PartsJoined
  <2>. QED  BY <1>1, <2>1, <2>2
<1> HIDE DEF r
<1>4. /\ full \in Seq(Parts) /\ n = a + Len(r)
      /\ \A i \in 1..Len(r) : full[a + i] = r[i]
  BY <1>2, PartsJoined
<1> HIDE DEF full, a, l
<1>5. /\ k + 1 < n /\ k + 1 \in 1..n /\ k \in 0..n /\ a \in 0..n /\ k <= n /\ (k + 1) - 1 = k
      /\ l + 1 \in 1..(l + 1) /\ l + 1 \in 1..Len(r) /\ a + (l + 1) = k + 1
      /\ \A i \in 1..l : i \in 1..(l + 1) /\ i \in 1..Len(r)
  BY <1>1, <1>2, <1>4
<1>6. Shortened(full)[a].text = P
  <2>1. r # <<>>
    BY <1>1, <1>2, EmptySeq
  <2>. QED  BY <1>2, <2>1 DEF Shortens, full, a
<1>7. full[k + 1] = Star
  BY <1>1, <1>2, <1>4, <1>5
<1>8. \A i \in 1..l : full[a + i] = b[i] /\ b[i] # Star
  <2>1. \A i \in 1..l : b[i] # Star
    BY DEF l
  <2>. QED  BY <1>1, <1>2, <1>4, <1>5, <2>1
<1>9. Shortened(full)[k].text = P \o b /\ ~Shortened(full)[k].cut
  <2>1. /\ Shortened(full)[a + Len(b)].text = Shortened(full)[a].text \o b
        /\ b # <<>> => ~Shortened(full)[a + Len(b)].cut
    <3>1. a \in 0..Len(full) /\ a + Len(b) <= Len(full)
      BY <1>5 DEF l
    <3>2. \A i \in 1..Len(b) : full[a + i] = b[i] /\ (b[i] # Star \/ a + i = Len(full))
      BY <1>8 DEF l
    <3>. QED  BY <1>4, <3>1, <3>2, ShortenedKeeps
  <2>. QED  BY <1>6, <2>1 DEF l
<1>10. Shortened(full)[k + 1] = ShortenPart(full, k + 1, Shortened(full)[k])
  <2>1. \A j \in 1..n : Shortened(full)[j] = ShortenPart(full, j, Shortened(full)[j - 1])
    BY <1>4, ShortenedDef
  <2> HIDE DEF k, n
  <2>2. Shortened(full)[k + 1] = ShortenPart(full, k + 1, Shortened(full)[(k + 1) - 1])
    BY <1>5, <2>1
  <2>. QED  BY <1>5, <2>2
<1>11. Shortened(full)[k + 1].text = P \o b
  BY <1>5, <1>7, <1>9, <1>10 DEF ShortenPart
<1>. QED  BY <1>3, <1>11 DEF star

(* The pattern of an endpoint follows as it is.                            *)
LEMMA ShortensLeaf ==
    ASSUME NEW Q \in Seq(Parts), NEW P \in Seq(Parts), Shortens(Q, P),
           NEW p \in Seq(Parts), p # <<>>, \A i \in 1..Len(p) : p[i] = Star => i = Len(p)
    PROVE  WithoutMounts(Q \o p) = P \o p
<1> DEFINE full == Q \o p
<1>1. /\ full \in Seq(Parts) /\ Len(full) = Len(Q) + Len(p) /\ Len(Q) \in Nat /\ Len(p) \in Nat
      /\ \A i \in 1..Len(p) : full[Len(Q) + i] = p[i]
  BY PartsJoined
<1>2. Shortened(full)[Len(Q)].text = P
  BY DEF Shortens
<1> HIDE DEF full
<1>3. Shortened(full)[Len(Q) + Len(p)].text = Shortened(full)[Len(Q)].text \o p
  <2>1. Len(Q) \in 0..Len(full) /\ Len(Q) + Len(p) <= Len(full)
    BY <1>1
  <2>2. \A i \in 1..Len(p) :
           full[Len(Q) + i] = p[i] /\ (p[i] # Star \/ Len(Q) + i = Len(full))
    BY <1>1
  <2>. QED  BY <1>1, <2>1, <2>2, ShortenedKeeps
<1>. QED  BY <1>1, <1>2, <1>3 DEF WithoutMounts, full

-----------------------------------------------------------------------------
(* Where a request through the routers can be.                             *)
Journeys ==
    [router : Roots \cup {NoRouter}, path : RequestPaths, ran : Middlewares,
     endpoint : (Roots \X (Nat \ {0})) \cup {NoEndpoint}]

(* The snapshots that the routers serve requests from.                     *)
Snapshots == [m \in Roots |-> SnapshotOf(m)]

(* Concatenating middlewares is associative.                               *)
LEMMA MiddlewaresAssociate ==
    ASSUME NEW a \in Middlewares, NEW b \in Middlewares, NEW c \in Middlewares
    PROVE  (a \o b) \o c = a \o (b \o c)
  BY ConcatAssociative DEF Middlewares

(* Each router serves the request by a route of its snapshot, or not.      *)
LEMMA ServeAtIs ==
    ASSUME TypeOK, SnapshotsExist, NEW method \in RegisteredMethods, NEW j \in Journeys,
           j.router # NoRouter, j.endpoint = NoEndpoint
    PROVE  LET next == ServeAt(Snapshots, j, method)
           IN  /\ next \in Journeys
               /\ \/ next.router = NoRouter /\ next.endpoint = NoEndpoint
                  \/ \E route \in Range(SnapshotOf(j.router).routes) :
                        /\ Serves(route, method, j.path)
                        /\ next.router = route.subRoutes
                        /\ next.path = Remaining(j.path, route.handler.mounted)
                        /\ next.ran = j.ran \o MiddlewaresOf(j.router, route)
                        /\ next.endpoint = IF route.subRoutes = NoRouter
                                           THEN route.handler.endpoint ELSE NoEndpoint
<1> DEFINE m == j.router
           path == j.path
           s == SnapshotOf(m)
           kept == Kept(routes[m])
           R == Range(routes[m])
           lookup == Lookup(s, <<>>, method, path)
           found == lookup.route
           own == muxes[m].middlewares
           next == ServeAt(Snapshots, j, method)
<1>1. m \in Roots /\ path \in RequestPaths /\ j.ran \in Middlewares
  BY DEF Journeys
<1>2. /\ Parsed(R) /\ kept \in Seq(R) /\ Distinct(kept) /\ Filled(s, kept) /\ s.routes = kept
      /\ \A r \in R : r \in RouteType
      /\ Range(kept) \subseteq R
  BY <1>1, SnapshotIs
<1>3. Snapshots[m] = s
  BY <1>1 DEF Snapshots
<1> HIDE DEF R, kept, s, m, path
<1>4. Finds(kept, method, path, <<>>, lookup)
  <2>1. method # AnyMethod
    BY MuxWalkAssumption
  <2>2. path \in Seq(Word) \ {<<>>}
    BY <1>1 DEF RequestPaths
  <2>3. <<>> \in Seq(Binding)
    BY EmptySeq
  <2>. QED  BY <1>2, <2>1, <2>2, <2>3, LookupFinds
<1>5. own \in Middlewares /\ j.ran \o own \in Middlewares
  <2>1. \A route \in RouteType : own \in Middlewares
    BY <1>1, MiddlewaresType
  <2>2. m \in DOMAIN muxes /\ muxes \in Seq(MuxType)
    BY <1>1 DEF TypeOK
  <2>3. muxes[m] \in MuxType
    BY <2>2, LenProperties, ElementOfSeq
  <2>4. own \in Middlewares
    BY <2>3 DEF MuxType
  <2>. QED  BY <1>1, <2>4, ConcatProperties DEF Middlewares
<1> HIDE DEF lookup, own
<1>6. CASE found = 0
  <2>1. next = [j EXCEPT !.router = NoRouter, !.ran = j.ran \o own]
    BY <1>3, <1>6 DEF ServeAt, lookup, path, m, own
  <2>2. next \in Journeys /\ next.router = NoRouter /\ next.endpoint = NoEndpoint
    <3> HIDE DEF Middlewares, RequestPaths, NoEndpoint
    <3>. QED  BY <1>5, <2>1 DEF Journeys
  <2>. QED  BY <2>2
<1>7. CASE found # 0
  <2> DEFINE route == kept[found]
             left == Remaining(path, route.handler.mounted)
             end == IF route.subRoutes = NoRouter THEN route.handler.endpoint ELSE NoEndpoint
             ran == (j.ran \o own) \o route.handler.middlewares
  <2>1. found \in 1..Len(kept) /\ Serves(route, method, path)
    BY <1>4, <1>7 DEF Finds
  <2>2. route \in R /\ route \in Range(kept) /\ route \in RouteType
    <3>1. found \in DOMAIN kept /\ kept[found] \in R
      BY <1>2, <2>1, LenProperties, ElementOfSeq
    <3>2. kept[found] \in Range(kept)
      BY <3>1 DEF Range
    <3>. QED  BY <1>2, <3>1, <3>2
  <2>3. next = [router |-> route.subRoutes, path |-> left, ran |-> ran, endpoint |-> end]
    BY <1>2, <1>3, <1>7 DEF ServeAt, lookup, path, m, own, Remaining
  <2> HIDE DEF route, next
  <2>4. /\ route.handler.middlewares \in Middlewares /\ route.handler.mounted \in Seq(Parts)
        /\ route.handler.endpoint \in Roots \X (Nat \ {0})
        /\ route.subRoutes \in Roots \cup {NoRouter}
    BY <2>2 DEF RouteType
  <2>5. left \in RequestPaths
    <3>1. Len(route.handler.mounted) \in Nat
      BY <2>4, LenProperties
    <3>. QED  BY <1>1, <3>1, RemainingIsPath
  <2>6. ran \in Middlewares /\ ran = j.ran \o MiddlewaresOf(m, route)
    <3>1. (j.ran \o own) \o route.handler.middlewares = j.ran \o (own \o route.handler.middlewares)
      BY <1>1, <1>5, <2>4, MiddlewaresAssociate
    <3>2. ran \in Middlewares
      BY <1>5, <2>4, ConcatProperties DEF Middlewares
    <3>. QED  BY <3>1, <3>2 DEF MiddlewaresOf, own
  <2>7. end \in (Roots \X (Nat \ {0})) \cup {NoEndpoint}
    BY <2>4
  <2> HIDE DEF left, end, ran
  <2>8. next \in Journeys
    <3> HIDE DEF Middlewares, RequestPaths, NoEndpoint
    <3>. QED  BY <2>3, <2>4, <2>5, <2>6, <2>7 DEF Journeys
  <2>9. /\ Serves(route, method, path) /\ next.router = route.subRoutes
        /\ next.path = left /\ next.ran = j.ran \o MiddlewaresOf(m, route) /\ next.endpoint = end
    BY <2>1, <2>3, <2>6
  <2>10. route \in Range(SnapshotOf(m).routes)
    BY <1>2, <2>2 DEF s
  <2>. QED  BY <2>8, <2>9, <2>10 DEF left, end, next, m, path
<1>. QED  BY <1>6, <1>7

(* One more hop.                                                           *)
HopFrom(j, method) == IF j.router = NoRouter THEN j ELSE ServeAt(Snapshots, j, method)

(* The journeys of requests that no router has answered yet.               *)
Open == {j \in Journeys : j.router # NoRouter => j.endpoint = NoEndpoint}

(* A hop leads to such a journey.                                          *)
LEMMA HopIsOpen ==
    ASSUME TypeOK, SnapshotsExist, NEW method \in RegisteredMethods, NEW j \in Open
    PROVE  HopFrom(j, method) \in Open
<1>1. CASE j.router = NoRouter
  BY <1>1 DEF HopFrom
<1>2. CASE j.router # NoRouter
  <2> DEFINE next == ServeAt(Snapshots, j, method)
  <2>1. j \in Journeys /\ j.endpoint = NoEndpoint
    BY <1>2 DEF Open
  <2>2. /\ next \in Journeys
        /\ \/ next.router = NoRouter
           \/ \E route \in Range(SnapshotOf(j.router).routes) :
                 /\ next.router = route.subRoutes
                 /\ next.endpoint = IF route.subRoutes = NoRouter
                                    THEN route.handler.endpoint ELSE NoEndpoint
    BY <1>2, <2>1, ServeAtIs
  <2> HIDE DEF next
  <2>3. next.router # NoRouter => next.endpoint = NoEndpoint
    BY <2>2
  <2>. QED  BY <1>2, <2>2, <2>3 DEF HopFrom, Open, next
<1>. QED  BY <1>1, <1>2

(* The start of a request.                                                 *)
Departure(path) == [router |-> 1, path |-> path, ran |-> <<>>, endpoint |-> NoEndpoint]

(* It is at the first router.                                              *)
LEMMA DepartureIsOpen ==
    ASSUME NEW path \in RequestPaths
    PROVE  Departure(path) \in Open
<1>1. 1 \in Roots /\ <<>> \in Middlewares
  BY MuxTreeAssumption, EmptySeq DEF Roots, Middlewares
<1>2. Departure(path) \in Journeys
  <2> HIDE DEF RequestPaths, Middlewares, NoEndpoint
  <2>. QED  BY <1>1 DEF Departure, Journeys
<1>. QED  BY <1>2 DEF Open, Departure

(* A request's way, told by its recursion.                                 *)
LEMMA ThroughDef ==
    ASSUME TypeOK, SnapshotsExist, NEW method \in RegisteredMethods, NEW path \in RequestPaths
    PROVE  /\ \A k \in 0..Routers : Through(Snapshots, method, path)[k] \in Open
           /\ Through(Snapshots, method, path)[0] = Departure(path)
           /\ \A k \in 1..Routers :
                 Through(Snapshots, method, path)[k] =
                    HopFrom(Through(Snapshots, method, path)[k - 1], method)
<1> DEFINE n == Routers
           base == Departure(path)
           step == [k \in 1..n |-> [j \in Open |-> HopFrom(j, method)]]
           Is(f) == f = [k \in 0..n |-> IF k = 0 THEN base ELSE HopFrom(f[k - 1], method)]
<1>1. n \in Nat
  BY MuxTreeAssumption
<1>2. step \in [1..n -> [Open -> Open]] /\ base \in Open
  <2>1. \A j \in Open : HopFrom(j, method) \in Open
    BY HopIsOpen
  <2>2. base \in Open
    BY DepartureIsOpen
  <2> HIDE DEF base
  <2>. QED  BY <2>1, <2>2
<1> HIDE DEF base
<1>3. PICK f \in [0..n -> Open] : Follows(f, n, base, step)
  <2> HIDE DEF step, n
  <2>. QED  BY <1>1, <1>2, Recursion
<1>4. \A k \in 1..n : k # 0 /\ k - 1 \in 0..n /\ k \in 0..n
  BY <1>1
<1>5. Is(f)
  <2>1. \A k \in 1..n : f[k] = HopFrom(f[k - 1], method)
    BY <1>1, <1>3, <1>4 DEF Follows
  <2>2. f[0] = base
    BY <1>3 DEF Follows
  <2>3. \A k \in 0..n : k = 0 \/ k \in 1..n
    BY <1>1
  <2>. QED  BY <2>1, <2>2, <2>3
<1>6. Through(Snapshots, method, path) = CHOOSE g : Is(g)
  BY DEF Through, base, HopFrom, Departure
<1>7. PICK g : Is(g) /\ g = Through(Snapshots, method, path)
  <2> HIDE DEF Is
  <2>. QED  BY <1>5, <1>6
<1>8. g = f
  <2>1. g = [k \in 0..n |-> g[k]]
    BY <1>7
  <2>2. g[0] = base /\ \A k \in 1..n : g[k] = HopFrom(g[k - 1], method)
    BY <1>1, <1>4, <1>7
  <2>3. \A k \in 1..n : \A j \in Open : step[k][j] = HopFrom(j, method)
    OBVIOUS
  <2> HIDE DEF step, n, Is
  <2>4. FollowsIn(g, n, Open, base, step)
    BY <2>2, <2>3 DEF FollowsIn
  <2>. QED  BY <1>1, <1>2, <1>3, <2>1, <2>4, RecursionUnique
<1>9. \A k \in 1..n : f[k] = HopFrom(f[k - 1], method)
  BY <1>1, <1>4, <1>5
<1>10. \A k \in 0..n : f[k] \in Open
  BY <1>3
<1>. QED  BY <1>3, <1>7, <1>8, <1>9, <1>10 DEF base, Follows

(* An entry behind mounts with pattern Q, on whose way ran was run.        *)
Under(Q, ran, e) == [e EXCEPT !.pattern = Q \o @, !.middlewares = ran \o @]

(* Entries are told apart by their fields.                                 *)
LEMMA EntriesEqual ==
    ASSUME NEW d \in Entries, NEW e \in Entries,
           d.method = e.method, d.pattern = e.pattern, d.endpoint = e.endpoint,
           d.middlewares = e.middlewares
    PROVE  d = e
<1> HIDE DEF Middlewares
<1>. QED  BY DEF Entries

(* Behind a mount behind others.                                           *)
LEMMA UnderTwice ==
    ASSUME NEW e \in Entries, NEW Q \in Seq(Parts), NEW p \in Seq(Parts),
           NEW ran \in Middlewares, NEW own \in Middlewares
    PROVE  Under(Q, ran, Under(p, own, e)) = Under(Q \o p, ran \o own, e)
<1> DEFINE d == Under(p, own, e)
           a == Under(Q, ran, d)
           b == Under(Q \o p, ran \o own, e)
<1>1. /\ d \in Entries /\ d.method = e.method /\ d.pattern = p \o e.pattern
      /\ d.endpoint = e.endpoint /\ d.middlewares = own \o e.middlewares
  BY EntryBeneath DEF Under
<1> HIDE DEF d
<1>2. /\ a \in Entries /\ a.method = d.method /\ a.pattern = Q \o d.pattern
      /\ a.endpoint = d.endpoint /\ a.middlewares = ran \o d.middlewares
  BY <1>1, EntryBeneath DEF Under
<1>3. Q \o p \in Seq(Parts) /\ ran \o own \in Middlewares
  BY ConcatProperties DEF Middlewares
<1>4. /\ b \in Entries /\ b.method = e.method /\ b.pattern = (Q \o p) \o e.pattern
      /\ b.endpoint = e.endpoint /\ b.middlewares = (ran \o own) \o e.middlewares
  BY <1>3, EntryBeneath DEF Under
<1> HIDE DEF a, b
<1>5. e.pattern \in Seq(Parts) /\ e.middlewares \in Middlewares
  <2> HIDE DEF Middlewares
  <2>. QED  BY DEF Entries
<1>6. (Q \o p) \o e.pattern = Q \o (p \o e.pattern)
  BY <1>5, PartsAssociate
<1>7. (ran \o own) \o e.middlewares = ran \o (own \o e.middlewares)
  BY <1>5, MiddlewaresAssociate
<1>8. /\ a \in Entries /\ b \in Entries /\ a.method = b.method /\ a.pattern = b.pattern
      /\ a.endpoint = b.endpoint /\ a.middlewares = b.middlewares
  BY <1>1, <1>2, <1>4, <1>6, <1>7
<1>9. a = b
  BY <1>8, EntriesEqual
<1>. QED  BY <1>9 DEF a, b, d

(* Behind no mount.                                                        *)
LEMMA UnderNone ==
    ASSUME NEW e \in Entries
    PROVE  Under(<<>>, <<>>, e) = e
<1> DEFINE d == Under(<<>>, <<>>, e)
<1>1. <<>> \in Seq(Parts) /\ <<>> \in Middlewares
  BY EmptySeq DEF Middlewares
<1>2. /\ d \in Entries /\ d.method = e.method /\ d.pattern = <<>> \o e.pattern
      /\ d.endpoint = e.endpoint /\ d.middlewares = <<>> \o e.middlewares
  BY <1>1, EntryBeneath DEF Under
<1> HIDE DEF d
<1>3. e.pattern \in Seq(Parts) /\ e.middlewares \in Seq(Nat \ {0})
  BY DEF Entries, Middlewares
<1>4. <<>> \o e.pattern = e.pattern
  BY <1>3, ConcatEmptySeq
<1>5. <<>> \o e.middlewares = e.middlewares
  BY <1>3, ConcatEmptySeq
<1>6. d = e
  BY <1>2, <1>4, <1>5, EntriesEqual
<1>. QED  BY <1>6 DEF d

(* The text P spells what is cut off path when rest is left: a mount's     *)
(* handler leaves "/" of a path that it cuts off as a whole.               *)
Spelt(P, rest, path) ==
    \/ PathOf(P) \o rest = path
    \/ PathOf(P) \o rest = path \o <<Blank>> /\ rest = <<Blank>>

(* One more mount.                                                         *)
LEMMA SpeltNext ==
    ASSUME NEW P \in Seq(Literals), NEW b \in Seq(Literals), NEW path \in RequestPaths,
           NEW rest \in RequestPaths, Describes(b \o <<Rest>>, rest), Spelt(P, rest, path)
    PROVE  Spelt(P \o b, Remaining(rest, b), path)
<1> DEFINE c == PathOf(P)
           d == PathOf(b)
           left == Remaining(rest, b)
<1>1. /\ PathOf(P \o b) = c \o d /\ c \in Seq(Word) /\ d \in Seq(Word)
      /\ IsText(b) /\ IsExact(b) /\ Len(b) \in Nat
  BY PathOfJoined, LiteralTexts, LiteralIs
<1>2. \/ d \o left = rest /\ (rest = <<Blank>> => left = <<Blank>>)
      \/ d = rest /\ rest # <<Blank>> /\ left = <<Blank>>
  BY <1>1, MountLeaves
<1>3. left \in Seq(Word)
  BY <1>1, RemainingIsPath DEF RequestPaths
<1>4. c \o rest = path \/ (c \o rest = path \o <<Blank>> /\ rest = <<Blank>>)
  BY DEF Spelt
<1> HIDE DEF c, d, left
<1>5. (c \o d) \o left = c \o (d \o left)
  BY <1>1, <1>3, ConcatAssociative
<1>6. \/ (c \o d) \o left = path
      \/ (c \o d) \o left = path \o <<Blank>> /\ left = <<Blank>>
  <2>1. CASE d \o left = rest /\ (rest = <<Blank>> => left = <<Blank>>)
    BY <1>4, <1>5, <2>1
  <2>2. CASE d = rest /\ rest # <<Blank>> /\ left = <<Blank>>
    BY <1>4, <2>2
  <2>. QED  BY <1>2, <2>1, <2>2
<1>. QED  BY <1>1, <1>6 DEF Spelt, left

(* A request on its way: below mounts whose patterns are Q, which Walk     *)
(* shortens to P, everything that its router lists is listed for the first *)
(* router, behind Q and what has run.                                      *)
On(j, path) ==
    \E P \in Seq(Literals), Q \in Seq(Parts) :
        /\ P \in Seq(Parts) /\ Shortens(Q, P) /\ Spelt(P, j.path, path)
        /\ \A e \in Listing[j.router] \cap Entries : Under(Q, j.ran, e) \in Listing[1]

(* A request at an endpoint: Walk lists what it ran.                       *)
Ended(j, method, path) ==
    \E e \in Walk :
        /\ e.endpoint = j.endpoint /\ e.method = method /\ e.middlewares = j.ran
        /\ \E p \in {path, path \o <<Blank>>} : Describes(Segments(e.pattern), p)

(* A request sets out.                                                     *)
LEMMA SetsOut ==
    ASSUME NEW path \in RequestPaths
    PROVE  On(Departure(path), path)
<1> DEFINE j == Departure(path)
<1>1. j.path = path /\ j.ran = <<>> /\ j.router = 1
  BY DEF Departure
<1> HIDE DEF j
<1>2. /\ <<>> \in Seq(Literals) /\ <<>> \in Seq(Parts) /\ Shortens(<<>>, <<>>)
  BY EmptySeq, ShortensNone
<1>3. Spelt(<<>>, path, path)
  <2>1. /\ PathOf(<<>>) \in Seq(Word) /\ Len(PathOf(<<>>)) = Len(<<>>)
    BY <1>2, LiteralTexts, LiteralIs
  <2>2. PathOf(<<>>) = <<>>
    BY <2>1, EmptySeq
  <2>3. <<>> \o path = path
    BY ConcatEmptySeq DEF RequestPaths
  <2>. QED  BY <2>2, <2>3 DEF Spelt
<1>4. \A e \in Listing[1] \cap Entries : Under(<<>>, <<>>, e) \in Listing[1]
  BY UnderNone
<1>5. On(j, path)
  BY <1>1, <1>2, <1>3, <1>4 DEF On
<1>. QED  BY <1>5 DEF j

(* A mounted router's route: a literal text and "*".                       *)
LEMMA MountedRoute ==
    ASSUME Inv, SnapshotsExist, MountsOutsideRoute,
           \A b \in MountPrefixes : IsExact(b) /\ b # <<>>,
           NEW m \in Roots, NEW route \in Range(SnapshotOf(m).routes),
           route.subRoutes # NoRouter
    PROVE  LET b == route.handler.mounted
           IN  /\ b \in Seq(Parts) /\ b \in Seq(Literals) /\ b # <<>>
               /\ \A i \in 1..Len(b) : b[i] # Star
               /\ route.pattern = Append(b, Star)
               /\ Segments(route.pattern) = b \o <<Rest>>
<1> DEFINE b == route.handler.mounted
<1>1. PICK nth \in DOMAIN routes[m] : route = routes[m][nth]
  BY SnapshotIs DEF Inv
<1>2. /\ b \in MountPrefixes /\ route.pattern = muxes[route.by].prefix \o Append(b, Star)
      /\ muxes[route.by].prefix = <<>>
  BY <1>1 DEF Inv, MountTexts, MountsOutsideRoute
<1>3. b \in Seq(Parts) /\ Star \in Parts /\ IsExact(b) /\ b # <<>>
  BY <1>2, MuxTreeAssumption
<1> HIDE DEF b
<1>4. IsText(b) /\ b \in Seq(Literals)
  BY <1>3, PartsText, LiteralTexts
<1>5. Append(b, Star) \in Seq(Parts) /\ Append(b, Star) = b \o <<Star>>
  BY <1>3
<1>6. route.pattern = Append(b, Star)
  BY <1>2, <1>5, ConcatEmptySeq
<1>7. Star = Rest
  BY MuxWalkAssumption DEF Rest
<1>8. Segments(route.pattern) = b \o <<Rest>>
  BY <1>3, <1>4, <1>5, <1>6, <1>7, MountPattern
<1>9. \A i \in 1..Len(b) : b[i] # Star
  <2>1. \A i \in 1..Len(b) : b[i].kind = "static"
    BY <1>3, <1>4, LiteralIs
  <2>2. Star.kind = "wildcard"
    BY <1>7, RestIsSegment
  <2>. QED  BY <2>1, <2>2
<1>. QED  BY <1>3, <1>4, <1>6, <1>8, <1>9 DEF b

(* A hop to a mounted router.                                              *)
LEMMA HopDown ==
    ASSUME Inv, SnapshotsExist, MountsOutsideRoute,
           \A b \in MountPrefixes : IsExact(b) /\ b # <<>>,
           NEW path \in RequestPaths, NEW method, NEW j \in Journeys, j.router \in Roots,
           On(j, path), NEW route \in Range(SnapshotOf(j.router).routes),
           route.subRoutes # NoRouter, Serves(route, method, j.path), NEW next,
           next.router = route.subRoutes,
           next.path = Remaining(j.path, route.handler.mounted),
           next.ran = j.ran \o MiddlewaresOf(j.router, route)
    PROVE  On(next, path)
<1> DEFINE m == j.router
           b == route.handler.mounted
           own == MiddlewaresOf(m, route)
           pattern == route.pattern
<1>1. PICK P \in Seq(Literals), Q \in Seq(Parts) :
         /\ P \in Seq(Parts) /\ Shortens(Q, P) /\ Spelt(P, j.path, path)
         /\ \A e \in Listing[m] \cap Entries : Under(Q, j.ran, e) \in Listing[1]
  BY DEF On
<1>2. /\ b \in Seq(Parts) /\ b \in Seq(Literals) /\ b # <<>>
      /\ \A i \in 1..Len(b) : b[i] # Star
      /\ pattern = Append(b, Star) /\ Segments(pattern) = b \o <<Rest>>
  BY MountedRoute
<1>3. route \in RouteType /\ own \in Middlewares /\ j.ran \in Middlewares /\ j.path \in RequestPaths
      /\ route.subRoutes \in Roots
  <2>1. route \in RouteType
    BY SnapshotIs DEF Inv
  <2>2. own \in Middlewares
    BY <2>1, MiddlewaresType DEF Inv
  <2>3. route.subRoutes \in Roots
    BY <2>1 DEF RouteType
  <2>. QED  BY <2>1, <2>2, <2>3 DEF Journeys
<1>4. Describes(b \o <<Rest>>, j.path)
  BY <1>2 DEF Serves, SegmentsOf
<1> HIDE DEF b, own, pattern, m
<1>5. P \o b \in Seq(Literals) /\ P \o b \in Seq(Parts)
  BY <1>1, <1>2, ConcatProperties
<1>6. pattern \in Seq(Parts) /\ Q \o pattern \in Seq(Parts) /\ Shortens(Q \o pattern, P \o b)
  <2>1. Append(b, Star) \in Seq(Parts)
    BY <1>2, MuxTreeAssumption
  <2>2. Shortens(Q \o Append(b, Star), P \o b)
    BY <1>1, <1>2, ShortensNext
  <2>. QED  BY <1>1, <1>2, <2>1, <2>2, ConcatProperties
<1>7. Spelt(P \o b, next.path, path)
  BY <1>1, <1>2, <1>3, <1>4, SpeltNext DEF b
<1>8. ASSUME NEW e \in Listing[next.router] \cap Entries
      PROVE  Under(Q \o pattern, next.ran, e) \in Listing[1]
  <2> DEFINE d == Under(pattern, own, e)
  <2>1. d \in Entries
    BY <1>3, <1>6, EntryBeneath DEF Under
  <2>2. d \in Beneath(m, route, Listing[route.subRoutes])
    BY DEF Beneath, Under, pattern, own
  <2>3. Listing[m] = ListedAt(m, Listing)
    BY ListingIs DEF Inv, m
  <2>4. d \in Listing[m]
    BY <2>2, <2>3 DEF ListedAt, m
  <2> HIDE DEF d
  <2>5. Under(Q, j.ran, d) \in Listing[1]
    BY <1>1, <2>1, <2>4
  <2>6. Under(Q, j.ran, d) = Under(Q \o pattern, j.ran \o own, e)
    BY <1>1, <1>3, <1>6, UnderTwice DEF d
  <2>. QED  BY <2>5, <2>6 DEF own, m
<1>. QED  BY <1>5, <1>6, <1>7, <1>8 DEF On

(* A hop to an endpoint.                                                   *)
LEMMA HopToEndpoint ==
    ASSUME Inv, SnapshotsExist, NEW path \in RequestPaths, NEW method \in RegisteredMethods,
           NEW j \in Journeys, j.router \in Roots, On(j, path),
           NEW route \in Range(SnapshotOf(j.router).routes),
           route.subRoutes = NoRouter, Serves(route, method, j.path), NEW next,
           next.endpoint = route.handler.endpoint,
           next.ran = j.ran \o MiddlewaresOf(j.router, route)
    PROVE  Ended(next, method, path)
<1> DEFINE m == j.router
           own == MiddlewaresOf(m, route)
           p == route.pattern
           d == [method |-> method, pattern |-> p, endpoint |-> route.handler.endpoint,
                 middlewares |-> own]
<1>1. PICK P \in Seq(Literals), Q \in Seq(Parts) :
         /\ P \in Seq(Parts) /\ Shortens(Q, P) /\ Spelt(P, j.path, path)
         /\ \A e \in Listing[m] \cap Entries : Under(Q, j.ran, e) \in Listing[1]
  BY DEF On
<1>2. /\ route \in RouteType /\ own \in Middlewares /\ j.ran \in Middlewares
      /\ j.path \in RequestPaths /\ p \in Seq(Parts)
      /\ route.handler.endpoint \in Roots \X (Nat \ {0})
  <2>1. route \in RouteType
    BY SnapshotIs DEF Inv
  <2>2. own \in Middlewares
    BY <2>1, MiddlewaresType DEF Inv
  <2>3. p \in Seq(Parts) /\ route.handler.endpoint \in Roots \X (Nat \ {0})
    BY <2>1 DEF RouteType
  <2>. QED  BY <2>1, <2>2, <2>3 DEF Journeys
<1>3. IsText(p) /\ Parses(p) /\ Describes(Segments(p), j.path)
  <2>1. PICK i \in DOMAIN routes[m] : route = routes[m][i]
    BY SnapshotIs DEF Inv
  <2>2. Parses(p)
    BY <2>1 DEF SnapshotsExist, CompatibilityPanics
  <2>. QED  BY <1>2, <2>2, PartsText DEF Serves, SegmentsOf
<1>4. method \in MethodsOf(route)
  BY DEF Serves, MethodsOf
<1>5. d \in Listing[m] /\ d \in Entries
  <2>1. d \in Leaves(m, route)
    BY <1>4 DEF Leaves
  <2>2. Listing[m] = ListedAt(m, Listing)
    BY ListingIs DEF Inv
  <2>3. d \in Listing[m]
    BY <2>1, <2>2 DEF ListedAt
  <2> HIDE DEF Middlewares, own, p
  <2>4. d \in Entries
    BY <1>2 DEF Entries
  <2>. QED  BY <2>3, <2>4
<1>6. d.method = method /\ d.pattern = p /\ d.endpoint = route.handler.endpoint /\ d.middlewares = own
  OBVIOUS
<1> HIDE DEF d, own, p, m
<1> DEFINE u == Under(Q, j.ran, d)
           short == [u EXCEPT !.pattern = WithoutMounts(@)]
<1>7. /\ u \in Listing[1] /\ u \in Entries /\ u.method = method /\ u.pattern = Q \o p
      /\ u.endpoint = next.endpoint /\ u.middlewares = next.ran
  <2>1. u \in Listing[1]
    BY <1>1, <1>5
  <2>2. d \in Entries /\ Q \in Seq(Parts) /\ j.ran \in Middlewares
    BY <1>1, <1>2, <1>5
  <2>3. /\ u \in Entries /\ u.method = d.method /\ u.pattern = Q \o d.pattern
        /\ u.endpoint = d.endpoint /\ u.middlewares = j.ran \o d.middlewares
    BY <2>2, EntryBeneath DEF Under
  <2>. QED  BY <1>6, <2>1, <2>3 DEF own, m
<1> HIDE DEF u
<1>8. short \in Walk
  BY <1>7 DEF Walk
<1>9. /\ short.method = u.method /\ short.endpoint = u.endpoint /\ short.middlewares = u.middlewares
      /\ short.pattern = WithoutMounts(u.pattern)
  <2> HIDE DEF Middlewares
  <2>. QED  BY <1>7 DEF Entries
<1> HIDE DEF short
<1>10. WithoutMounts(Q \o p) = P \o p
  <2>1. p # <<>> /\ \A i \in DOMAIN p : p[i].kind = "wildcard" => i = Len(p)
    BY <1>3 DEF Parses
  <2>2. Star.kind = "wildcard" /\ DOMAIN p = 1..Len(p)
    BY <1>2, RestIsSegment, MuxWalkAssumption, LenProperties DEF Rest
  <2>. QED  BY <1>1, <1>2, <2>1, <2>2, ShortensLeaf
<1>11. Describes(Segments(P \o p), PathOf(P) \o j.path)
  BY <1>1, <1>2, <1>3, LiteralTexts, DescribesBehind DEF RequestPaths
<1>12. PathOf(P) \o j.path \in {path, path \o <<Blank>>}
  BY <1>1 DEF Spelt
<1>. QED  BY <1>7, <1>8, <1>9, <1>10, <1>11, <1>12 DEF Ended

(* Walk tells of every request what it runs.                               *)
LEMMA WalkLists ==
    ASSUME \A b \in MountPrefixes : IsExact(b) /\ b # <<>>, Inv
    PROVE  WalkListsWhatRuns
<1> SUFFICES ASSUME MountsOutsideRoute, SnapshotsExist,
                    NEW method \in RegisteredMethods, NEW path \in Paths,
                    Through(Snapshots, method, path)[Routers].endpoint # NoEndpoint
             PROVE  Ended(Through(Snapshots, method, path)[Routers], method, path)
  BY DEF WalkListsWhatRuns, Snapshots, Ended
<1> DEFINE n == Routers
           at == Through(Snapshots, method, path)
           Good == {k \in 0..n : IF at[k].router # NoRouter THEN On(at[k], path)
                                 ELSE at[k].endpoint # NoEndpoint => Ended(at[k], method, path)}
<1>1. path \in RequestPaths /\ n \in Nat /\ TypeOK
  BY MuxWalkAssumption, MuxTreeAssumption DEF RequestPaths, Inv
<1>2. /\ \A k \in 0..n : at[k] \in Open
      /\ at[0] = Departure(path)
      /\ \A k \in 1..n : at[k] = HopFrom(at[k - 1], method)
  BY <1>1, ThroughDef
<1> HIDE DEF at, n
<1>3. 0 \in Good
  <2>1. at[0].router # NoRouter
    BY <1>2 DEF Departure, NoRouter
  <2>. QED  BY <1>1, <1>2, <2>1, SetsOut
<1>4. ASSUME NEW k \in 0..(n - 1), k \in Good PROVE k + 1 \in Good
  <2> DEFINE j == at[k]
             next == at[k + 1]
  <2>1. k \in 0..n /\ k + 1 \in 1..n /\ k + 1 \in 0..n /\ (k + 1) - 1 = k
    BY <1>1
  <2>2. j \in Open /\ next = HopFrom(j, method)
    BY <1>2, <2>1
  <2>3. IF j.router # NoRouter THEN On(j, path)
        ELSE j.endpoint # NoEndpoint => Ended(j, method, path)
    BY <1>4
  <2> SUFFICES IF next.router # NoRouter THEN On(next, path)
               ELSE next.endpoint # NoEndpoint => Ended(next, method, path)
    BY <2>1
  <2> HIDE DEF j, next, Good
  <2>4. CASE j.router = NoRouter
    BY <2>2, <2>3, <2>4 DEF HopFrom
  <2>5. CASE j.router # NoRouter
    <3>1. j \in Journeys /\ j.endpoint = NoEndpoint /\ j.router \in Roots /\ On(j, path)
      BY <2>2, <2>3, <2>5 DEF Open, Journeys
    <3>2. next = ServeAt(Snapshots, j, method)
      BY <2>2, <2>5 DEF HopFrom
    <3>3. /\ next \in Journeys
          /\ \/ next.router = NoRouter /\ next.endpoint = NoEndpoint
             \/ \E route \in Range(SnapshotOf(j.router).routes) :
                   /\ Serves(route, method, j.path)
                   /\ next.router = route.subRoutes
                   /\ next.path = Remaining(j.path, route.handler.mounted)
                   /\ next.ran = j.ran \o MiddlewaresOf(j.router, route)
                   /\ next.endpoint = IF route.subRoutes = NoRouter
                                      THEN route.handler.endpoint ELSE NoEndpoint
      BY <1>1, <2>5, <3>1, <3>2, ServeAtIs
    <3>4. CASE next.router = NoRouter /\ next.endpoint = NoEndpoint
      BY <3>4
    <3>5. ASSUME NEW route \in Range(SnapshotOf(j.router).routes),
                 Serves(route, method, j.path), next.router = route.subRoutes,
                 next.path = Remaining(j.path, route.handler.mounted),
                 next.ran = j.ran \o MiddlewaresOf(j.router, route),
                 next.endpoint = IF route.subRoutes = NoRouter
                                 THEN route.handler.endpoint ELSE NoEndpoint
          PROVE  IF next.router # NoRouter THEN On(next, path)
                 ELSE next.endpoint # NoEndpoint => Ended(next, method, path)
      <4>1. CASE route.subRoutes # NoRouter
        <5>1. On(next, path)
          BY <1>1, <3>1, <3>5, <4>1, HopDown
        <5>. QED  BY <3>5, <4>1, <5>1
      <4>2. CASE route.subRoutes = NoRouter
        <5>1. Ended(next, method, path)
          BY <1>1, <3>1, <3>5, <4>2, HopToEndpoint
        <5>. QED  BY <3>5, <4>2, <5>1
      <4>. QED  BY <4>1, <4>2
    <3>. QED  BY <3>3, <3>4, <3>5
  <2>. QED  BY <2>4, <2>5
<1>5. n \in Good
  <2> HIDE DEF Good
  <2>1. 0..n \subseteq Good
    BY <1>1, <1>3, <1>4, Induction
  <2>. QED  BY <1>1, <2>1
<1>6. at[n].router = NoRouter
  <2>1. at[n] \in Open /\ at[n].endpoint # NoEndpoint
    BY <1>1, <1>2 DEF at, n
  <2>. QED  BY <2>1 DEF Open
<1>. QED  BY <1>5, <1>6 DEF at, n

(* Walk never misses an endpoint, and never tells of other middlewares     *)
(* than those that run, whatever is registered and in whatever order, when *)
(* the texts of Mount are literal and not "/".                             *)
THEOREM WalkListsAll ==
    ASSUME \A b \in MountPrefixes : IsExact(b) /\ b # <<>>
    PROVE  Spec => []WalkListsWhatRuns
<1>1. Init => Inv
  BY InitInv
<1>2. Inv /\ [Next]_vars => Inv'
  BY NextInv
<1>3. Inv => WalkListsWhatRuns
  BY WalkLists
<1>. QED  BY <1>1, <1>2, <1>3, PTL DEF Spec
=============================================================================

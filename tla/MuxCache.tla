------------------------------ MODULE MuxCache ------------------------------
(***************************************************************************)
(* The lazily compiled snapshot of a gpchi Mux shared by goroutines: some  *)
(* register routes, others serve requests.  A step is a region of code     *)
(* that runs under root.mu, or one load or store of root.compiled; between *)
(* steps any goroutine may run.                                            *)
(*                                                                         *)
(* What compile computes is a function of the table it reads, so a         *)
(* snapshot is modelled by that table.                                     *)
(***************************************************************************)
EXTENDS Naturals, Sequences

CONSTANTS
    Registrars,     \* goroutines that register routes
    Servers,        \* goroutines that serve requests
    Patterns,       \* patterns of Method and Handle
    MountPaths,     \* paths of Mount
    Routers,        \* those whose handler implements Routes
    Unparsable,     \* patterns whose text, behind its prefix, does not parse
    Fallbacks,      \* custom 404 and 405 handlers
    MaxRoutes,      \* bound: routes in the table
    MaxUses,        \* bound: calls of Use
    Nil

ASSUME MuxCacheAssumption ==
    /\ Routers \subseteq MountPaths
    /\ Unparsable \subseteq Patterns
    /\ Patterns \cap MountPaths = {}
    /\ Registrars \cap Servers = {}
    /\ Nil \notin Fallbacks \cup MountPaths
    /\ MaxRoutes \in Nat /\ MaxUses \in Nat

(* subRoutes is the mounted router, named by the path it was mounted at.   *)
Route == [pattern : Patterns \cup MountPaths, subRoutes : Routers \cup {Nil}]

Table == [routes : Seq(Route), middlewares : Nat, fallback : Fallbacks \cup {Nil}]

ASSUME NilIsNoTable == Nil \notin Table

VARIABLES
    table,      \* root.routes, root.middlewares and the fallback handlers
    sealed,     \* root.sealed
    mounts,     \* root.mounts
    compiled,   \* root.compiled: Nil, or the table it was built from
    pc,         \* where each goroutine is
    mounting,   \* the path of each registrar's Mount call
    snap,       \* the snapshot each server holds
    overlapped  \* history, read by no action: the latest change of the table
                \* fell between a request's reading of the table and its store

vars == <<table, sealed, mounts, compiled, pc, mounting, snap, overlapped>>

Goroutines == Registrars \cup Servers

Init ==
    /\ table = [routes |-> <<>>, middlewares |-> 0, fallback |-> Nil]
    /\ sealed = FALSE
    /\ mounts = {}
    /\ compiled = Nil
    /\ pc = [g \in Goroutines |-> "idle"]
    /\ mounting = [r \in Registrars |-> Nil]
    /\ snap = [s \in Servers |-> Nil]
    /\ overlapped = FALSE

-----------------------------------------------------------------------------
(* Registration                                                            *)

Filling == {s \in Servers : pc[s] = "store"}

(* Mutant of Publish: root.invalidate() is missing.                        *)
PublishWithoutInvalidating(new) ==
    /\ table' = new
    /\ overlapped' = (Filling # {})
    /\ UNCHANGED compiled

(* A change of the table under root.mu, which ends in root.invalidate().   *)
Publish(new) ==
    /\ table' = new
    /\ compiled' = Nil
    /\ overlapped' = (Filling # {})

NewRoute(pattern) == [pattern |-> pattern, subRoutes |-> Nil]

AddRoute(pattern) ==
    /\ Len(table.routes) < MaxRoutes
    /\ Publish([table EXCEPT !.routes = Append(@, NewRoute(pattern))])

(* Method and Handle on the root, which they seal, or on a child, whose    *)
(* own mutex and seal are not root's.                                      *)
Register(r, pattern, onRoot) ==
    /\ pc[r] = "idle"
    /\ AddRoute(pattern)
    /\ sealed' = (sealed \/ onRoot)
    /\ UNCHANGED <<mounts, pc, mounting, snap>>

(* Use panics on a sealed mux and then changes nothing.                    *)
Use(r) ==
    /\ pc[r] = "idle"
    /\ ~sealed
    /\ table.middlewares < MaxUses
    /\ Publish([table EXCEPT !.middlewares = @ + 1])
    /\ UNCHANGED <<sealed, mounts, pc, mounting, snap>>

(* NotFound and MethodNotAllowed, scoped or not.                           *)
SetFallback(r, handler) ==
    /\ pc[r] = "idle"
    /\ Publish([table EXCEPT !.fallback = handler])
    /\ UNCHANGED <<sealed, mounts, pc, mounting, snap>>

(* Mutant of MountReserve: root.mounts is not consulted.                   *)
MountReserveUnchecked(r, path) ==
    /\ pc[r] = "idle"
    /\ Len(table.routes) < MaxRoutes
    /\ mounts' = mounts \cup {path}
    /\ mounting' = [mounting EXCEPT ![r] = path]
    /\ pc' = [pc EXCEPT ![r] = "mountHandle"]
    /\ UNCHANGED <<table, sealed, compiled, snap, overlapped>>

(* Mount takes root.mu three times: to reserve the path (it panics on one  *)
(* already taken), inside Handle, and to attach the mounted router to the  *)
(* last route of the table.                                                *)
MountReserve(r, path) ==
    /\ pc[r] = "idle"
    /\ path \notin mounts
    /\ Len(table.routes) < MaxRoutes
    /\ mounts' = mounts \cup {path}
    /\ mounting' = [mounting EXCEPT ![r] = path]
    /\ pc' = [pc EXCEPT ![r] = "mountHandle"]
    /\ UNCHANGED <<table, sealed, compiled, snap, overlapped>>

MountHandle(r, onRoot) ==
    /\ pc[r] = "mountHandle"
    /\ AddRoute(mounting[r])
    /\ sealed' = (sealed \/ onRoot)
    /\ pc' = [pc EXCEPT ![r] = IF mounting[r] \in Routers THEN "mountAttach" ELSE "idle"]
    /\ UNCHANGED <<mounts, mounting, snap>>

(* Mutant of MountAttach: the wrong end of the table.                      *)
MountAttachFirst(r) ==
    /\ pc[r] = "mountAttach"
    /\ Publish([table EXCEPT !.routes[1].subRoutes = mounting[r]])
    /\ pc' = [pc EXCEPT ![r] = "idle"]
    /\ UNCHANGED <<sealed, mounts, mounting, snap>>

MountAttach(r) ==
    /\ pc[r] = "mountAttach"
    /\ Publish([table EXCEPT !.routes[Len(table.routes)].subRoutes = mounting[r]])
    /\ pc' = [pc EXCEPT ![r] = "idle"]
    /\ UNCHANGED <<sealed, mounts, mounting, snap>>

-----------------------------------------------------------------------------
(* Compilation and requests                                                *)

HasConflicts(routes) ==
    \/ \E i \in DOMAIN routes : routes[i].pattern \in Unparsable
    \/ \E i, j \in DOMAIN routes : i # j /\ routes[i].pattern = routes[j].pattern

Panics(routes) == \E i \in DOMAIN routes : routes[i].pattern \in Unparsable

(* The public Compile.                                                     *)
Compile(r) ==
    /\ pc[r] = "idle"
    /\ compiled' = IF HasConflicts(table.routes) THEN compiled ELSE table
    /\ UNCHANGED <<table, sealed, mounts, pc, mounting, snap, overlapped>>

(* snapshot(): the load of root.compiled.                                  *)
Load(s) ==
    /\ pc[s] = "idle"
    /\ IF compiled # Nil
       THEN pc' = [pc EXCEPT ![s] = "serve"] /\ snap' = [snap EXCEPT ![s] = compiled]
       ELSE pc' = [pc EXCEPT ![s] = "compile"] /\ UNCHANGED snap
    /\ UNCHANGED <<table, sealed, mounts, compiled, mounting, overlapped>>

(* snapshot(): Compile, which publishes the snapshot when it can.          *)
FillCompile(s) ==
    /\ pc[s] = "compile"
    /\ IF HasConflicts(table.routes)
       THEN pc' = [pc EXCEPT ![s] = "compat"] /\ UNCHANGED <<compiled, snap>>
       ELSE /\ pc' = [pc EXCEPT ![s] = "store"]
            /\ compiled' = table
            /\ snap' = [snap EXCEPT ![s] = table]
    /\ UNCHANGED <<table, sealed, mounts, mounting, overlapped>>

(* compatibilitySnapshot(): the request panics on an unparsable route.     *)
FillPanic(s) ==
    /\ pc[s] = "compat"
    /\ Panics(table.routes)
    /\ pc' = [pc EXCEPT ![s] = "idle"]
    /\ UNCHANGED <<table, sealed, mounts, compiled, mounting, snap, overlapped>>

FillCompatibility(s) ==
    /\ pc[s] = "compat"
    /\ ~Panics(table.routes)
    /\ pc' = [pc EXCEPT ![s] = "store"]
    /\ snap' = [snap EXCEPT ![s] = table]
    /\ UNCHANGED <<table, sealed, mounts, compiled, mounting, overlapped>>

(* snapshot(): m.compiled.Store(s), outside the mutex.                     *)
Store(s) ==
    /\ pc[s] = "store"
    /\ compiled' = snap[s]
    /\ pc' = [pc EXCEPT ![s] = "serve"]
    /\ UNCHANGED <<table, sealed, mounts, mounting, snap, overlapped>>

(* Mutant of Serve: the snapshot is stored when the request is over.       *)
ServeStoring(s) ==
    /\ pc[s] = "serve"
    /\ compiled' = snap[s]
    /\ pc' = [pc EXCEPT ![s] = "idle"]
    /\ snap' = [snap EXCEPT ![s] = Nil]
    /\ UNCHANGED <<table, sealed, mounts, mounting, overlapped>>

Serve(s) ==
    /\ pc[s] = "serve"
    /\ pc' = [pc EXCEPT ![s] = "idle"]
    /\ snap' = [snap EXCEPT ![s] = Nil]
    /\ UNCHANGED <<table, sealed, mounts, compiled, mounting, overlapped>>

-----------------------------------------------------------------------------
Registration(r) ==
    \/ \E pattern \in Patterns, onRoot \in BOOLEAN : Register(r, pattern, onRoot)
    \/ Use(r)
    \/ \E handler \in Fallbacks : SetFallback(r, handler)
    \/ \E path \in MountPaths : MountReserve(r, path)
    \/ \E onRoot \in BOOLEAN : MountHandle(r, onRoot)
    \/ MountAttach(r)
    \/ Compile(r)

Request(s) ==
    \/ Load(s)
    \/ FillCompile(s)
    \/ FillPanic(s)
    \/ FillCompatibility(s)
    \/ Store(s)
    \/ Serve(s)

Next ==
    \/ \E r \in Registrars : Registration(r)
    \/ \E s \in Servers : Request(s)

Spec == Init /\ [][Next]_vars

-----------------------------------------------------------------------------
(* Every variable holds a value of its kind, and a goroutine is only at    *)
(* the steps of its own calls.                                             *)
TypeOK ==
    /\ table \in Table
    /\ sealed \in BOOLEAN
    /\ mounts \subseteq MountPaths
    /\ compiled \in Table \cup {Nil}
    /\ pc \in [Goroutines -> {"idle", "mountHandle", "mountAttach",
                              "compile", "compat", "store", "serve"}]
    /\ mounting \in [Registrars -> MountPaths \cup {Nil}]
    /\ snap \in [Servers -> Table \cup {Nil}]
    /\ overlapped \in BOOLEAN
    /\ \A r \in Registrars :
          /\ pc[r] \in {"idle", "mountHandle", "mountAttach"}
          /\ pc[r] = "mountHandle" => mounting[r] \in MountPaths
          /\ pc[r] = "mountAttach" => mounting[r] \in Routers
    /\ \A s \in Servers :
          /\ pc[s] \in {"idle", "compile", "compat", "store", "serve"}
          /\ snap[s] # Nil <=> pc[s] \in {"store", "serve"}

(* A cached snapshot older than the table means that the latest change of  *)
(* the table fell inside a request's fill: a change that no fill overlaps  *)
(* leaves no stale snapshot, whatever happened before (snapshot,           *)
(* invalidate).                                                            *)
StaleOnlyAfterOverlap == compiled # Nil /\ compiled # table => overlapped

(* The cache departs from the table only when a request stores a snapshot  *)
(* built before the latest registration: no other step of any goroutine    *)
(* makes it stale.                                                         *)
OnlyALateStoreMakesStale ==
    [][compiled' # Nil /\ compiled' # table' =>
          \/ UNCHANGED <<compiled, table>>
          \/ \E s \in Servers : Store(s) /\ snap[s] # table]_vars

(* Calls that race to mount one path: one of them wins it, and the table   *)
(* never holds two mounts of a path (Mount's check of root.mounts).        *)
MountsOf(path) == {i \in DOMAIN table.routes : table.routes[i].pattern = path}
Owners(path) == {r \in Registrars : pc[r] = "mountHandle" /\ mounting[r] = path}

MountedOnce ==
    \A path \in MountPaths :
        /\ \A i, j \in MountsOf(path) : i = j
        /\ \A q, r \in Owners(path) : q = r
        /\ MountsOf(path) = {} \/ Owners(path) = {}

(* A mounted router stands on the route of its own mount or, if another    *)
(* goroutine registered meanwhile, on a later one, never on an earlier one *)
(* and never instead of no route of its own (Mount's last critical         *)
(* section).                                                               *)
AttachedNoEarlier ==
    \A i \in DOMAIN table.routes :
        table.routes[i].subRoutes # Nil =>
            \E j \in 1..i : table.routes[j].pattern = table.routes[i].subRoutes

(* When the mux is quiet, a request for a pattern reaches the handler that *)
(* was registered for it last.                                             *)
LaterHandlerWins ==
    (\A g \in Goroutines : pc[g] = "idle") /\ compiled # Nil =>
        \A i \in DOMAIN table.routes :
            \E j \in DOMAIN compiled.routes :
                j >= i /\ compiled.routes[j].pattern = table.routes[i].pattern

(* A request that finds no snapshot is answered from the table as it       *)
(* stands, one that finds a snapshot from the latest table registered,     *)
(* compiled or put back by a fill; each fill puts back once what it read.  *)
(* Nothing else ever reaches a request (snapshot, Compile, invalidate).    *)
Shared == INSTANCE SharedMux
    WITH shown   <- IF compiled = Nil THEN table ELSE compiled,
         waiting <- {s \in Servers : pc[s] \in {"compile", "compat"}},
         view    <- snap,
         due     <- Filling

AnswersFromShown == Shared!Spec
=============================================================================

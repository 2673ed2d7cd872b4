----------------------------- MODULE Admission -----------------------------
(***************************************************************************)
(* What a throttle promises: at most Limit requests run, and at most       *)
(* Limit + BacklogLimit are inside, running or waiting to run.             *)
(***************************************************************************)
EXTENDS Naturals, FiniteSets

CONSTANTS Requests, Limit, BacklogLimit

VARIABLES
    inside,     \* requests that were let in and have not left
    running     \* those of them whose handler may be running

vars == <<inside, running>>

Init == inside = {} /\ running = {}

Enter(q) ==
    /\ q \notin inside
    /\ Cardinality(inside) < Limit + BacklogLimit
    /\ inside' = inside \cup {q}
    /\ UNCHANGED running

Start(q) ==
    /\ q \in inside \ running
    /\ Cardinality(running) < Limit
    /\ running' = running \cup {q}
    /\ UNCHANGED inside

Stop(q) ==
    /\ q \in running
    /\ running' = running \ {q}
    /\ UNCHANGED inside

Leave(q) ==
    /\ q \in inside \ running
    /\ inside' = inside \ {q}
    /\ UNCHANGED running

Next == \E q \in Requests : Enter(q) \/ Start(q) \/ Stop(q) \/ Leave(q)

Spec == Init /\ [][Next]_vars
=============================================================================

----------------------------- MODULE SharedMux -----------------------------
(***************************************************************************)
(* What a mux shared by goroutines promises, which has no lock between a   *)
(* request and a registration.  New requests are answered from the table   *)
(* that is shown.  A registration shows its own table at once.  A request  *)
(* that looked at the table itself may show that table, once, later on.    *)
(***************************************************************************)
CONSTANTS Servers, Nil

VARIABLES
    table,      \* everything registered so far
    shown,      \* the table that new requests are answered from
    waiting,    \* the servers with a request whose table is not chosen yet
    view,       \* the table each server answers from, Nil between requests
    due         \* the servers that will still show what they looked at

vars == <<table, shown, waiting, view, due>>

Init ==
    /\ table # Nil
    /\ shown = table
    /\ waiting = {}
    /\ view = [s \in Servers |-> Nil]
    /\ due = {}

Change ==
    /\ table' # Nil
    /\ shown' = table'
    /\ UNCHANGED <<waiting, view, due>>

Refresh ==
    /\ shown' = table
    /\ UNCHANGED <<table, waiting, view, due>>

Arrive(s) ==
    /\ s \notin waiting /\ view[s] = Nil
    /\ waiting' = waiting \cup {s}
    /\ UNCHANGED <<table, shown, view, due>>

LookAtShown(s) ==
    /\ s \notin waiting /\ view[s] = Nil
    /\ view' = [view EXCEPT ![s] = shown]
    /\ UNCHANGED <<table, shown, waiting, due>>

(* A request that waited sees the table as it is now, and may show it.     *)
LookAtTable(s) ==
    /\ s \in waiting
    /\ waiting' = waiting \ {s}
    /\ view' = [view EXCEPT ![s] = table]
    /\ due' = due \cup {s}
    /\ shown' \in {shown, table}
    /\ UNCHANGED table

PutBack(s) ==
    /\ s \in due
    /\ shown' = view[s]
    /\ due' = due \ {s}
    /\ UNCHANGED <<table, waiting, view>>

Answer(s) ==
    /\ s \notin due /\ view[s] # Nil
    /\ view' = [view EXCEPT ![s] = Nil]
    /\ UNCHANGED <<table, shown, waiting, due>>

GiveUp(s) ==
    /\ s \in waiting
    /\ waiting' = waiting \ {s}
    /\ UNCHANGED <<table, shown, view, due>>

Next ==
    \/ Change
    \/ Refresh
    \/ \E s \in Servers :
          Arrive(s) \/ LookAtShown(s) \/ LookAtTable(s) \/ PutBack(s) \/ Answer(s) \/ GiveUp(s)

Spec == Init /\ [][Next]_vars
=============================================================================

------------------------------ MODULE Throttle ------------------------------
(***************************************************************************)
(* middleware.ThrottleWithOpts: two buffered channels of tokens bound the  *)
(* requests that run and the requests that are let in.  A step is one      *)
(* channel operation, one select, or one return of a deferred call; the    *)
(* request goroutines interleave between steps.                            *)
(*                                                                         *)
(* A waiting request that could take a token and whose timer fired or      *)
(* whose context is done takes any of them, as Go's select does.  No order *)
(* among the requests that wait is assumed.                                *)
(***************************************************************************)
EXTENDS Naturals, FiniteSets

CONSTANTS
    Requests,       \* request goroutines; each serves one request after another
    Limit,
    BacklogLimit

ASSUME ThrottleAssumption ==
    /\ IsFiniteSet(Requests)
    /\ Limit \in Nat \ {0}
    /\ BacklogLimit \in Nat

VARIABLES
    processing,     \* tokens in the channel of that name
    backlog,        \* tokens in the channel of that name
    pc,             \* where each request is
    canceled,       \* requests whose context is done
    answer          \* how each request ended

vars == <<processing, backlog, pc, canceled, answer>>

(* Mutant of Capacity: one reservation too many.                           *)
CapacityPlusOne == Limit + BacklogLimit + 1

Capacity == Limit + BacklogLimit

Init ==
    /\ processing = Limit
    /\ backlog = Capacity
    /\ pc = [q \in Requests |-> "idle"]
    /\ canceled = {}
    /\ answer = [q \in Requests |-> "none"]

Goto(q, from, to) == pc[q] = from /\ pc' = [pc EXCEPT ![q] = to]

Answers(q, how) == answer' = [answer EXCEPT ![q] = how]

-----------------------------------------------------------------------------
(* The server and the client.                                              *)
Arrive(q) ==
    /\ Goto(q, "idle", "arrived")
    /\ Answers(q, "none")
    /\ canceled' = canceled \ {q}
    /\ UNCHANGED <<processing, backlog>>

Cancel(q) ==
    /\ pc[q] # "idle"
    /\ canceled' = canceled \cup {q}
    /\ UNCHANGED <<processing, backlog, pc, answer>>

-----------------------------------------------------------------------------
(* The first select: the default case is taken only if no other is ready.  *)
RejectCanceled(q) ==
    /\ Goto(q, "arrived", "idle")
    /\ q \in canceled
    /\ Answers(q, "canceled")
    /\ UNCHANGED <<processing, backlog, canceled>>

Reserve(q) ==
    /\ Goto(q, "arrived", "reserved")
    /\ backlog > 0
    /\ backlog' = backlog - 1
    /\ UNCHANGED <<processing, canceled, answer>>

(* Mutant of RejectFull: refused although a reservation is left.           *)
RejectAlmostFull(q) ==
    /\ Goto(q, "arrived", "idle")
    /\ backlog <= 1
    /\ q \notin canceled
    /\ Answers(q, "full")
    /\ UNCHANGED <<processing, backlog, canceled>>

RejectFull(q) ==
    /\ Goto(q, "arrived", "idle")
    /\ backlog = 0
    /\ q \notin canceled
    /\ Answers(q, "full")
    /\ UNCHANGED <<processing, backlog, canceled>>

(* Mutant of StartAtOnce: the token is given back but was never taken.     *)
StartAtOnceFree(q) ==
    /\ Goto(q, "reserved", "running")
    /\ processing > 0
    /\ UNCHANGED <<processing, backlog, canceled, answer>>

(* The second select, which does not wait.                                 *)
StartAtOnce(q) ==
    /\ Goto(q, "reserved", "running")
    /\ processing > 0
    /\ processing' = processing - 1
    /\ UNCHANGED <<backlog, canceled, answer>>

Wait(q) ==
    /\ Goto(q, "reserved", "waiting")
    /\ processing = 0
    /\ UNCHANGED <<processing, backlog, canceled, answer>>

(* Mutant of TimeOut: the backlog timer is missing from the select.        *)
TimeOutCanceled(q) ==
    /\ Goto(q, "waiting", "releaseReservation")
    /\ q \in canceled
    /\ Answers(q, "timeout")
    /\ UNCHANGED <<processing, backlog, canceled>>

(* Mutant of CancelWaiting: the reservation is not given back.             *)
CancelWaitingLeaking(q) ==
    /\ Goto(q, "waiting", "idle")
    /\ q \in canceled
    /\ Answers(q, "canceled")
    /\ UNCHANGED <<processing, backlog, canceled>>

(* The third select.                                                       *)
TimeOut(q) ==
    /\ Goto(q, "waiting", "releaseReservation")
    /\ Answers(q, "timeout")
    /\ UNCHANGED <<processing, backlog, canceled>>

CancelWaiting(q) ==
    /\ Goto(q, "waiting", "releaseReservation")
    /\ q \in canceled
    /\ Answers(q, "canceled")
    /\ UNCHANGED <<processing, backlog, canceled>>

StartWaiting(q) ==
    /\ Goto(q, "waiting", "running")
    /\ processing > 0
    /\ processing' = processing - 1
    /\ UNCHANGED <<backlog, canceled, answer>>

(* next.ServeHTTP returns or panics; the deferred sends run either way,    *)
(* the token's before the reservation's.  A send waits for room.           *)
Return(q) ==
    /\ Goto(q, "running", "releaseToken")
    /\ \E how \in {"served", "panicked"} : Answers(q, how)
    /\ UNCHANGED <<processing, backlog, canceled>>

ReleaseToken(q) ==
    /\ Goto(q, "releaseToken", "releaseReservation")
    /\ processing < Limit
    /\ processing' = processing + 1
    /\ UNCHANGED <<backlog, canceled, answer>>

ReleaseReservation(q) ==
    /\ Goto(q, "releaseReservation", "idle")
    /\ backlog < Capacity
    /\ backlog' = backlog + 1
    /\ UNCHANGED <<processing, canceled, answer>>

-----------------------------------------------------------------------------
(* The steps of the middleware itself, which the Go scheduler and the      *)
(* backlog timer bring about.                                              *)
Middleware(q) ==
    \/ RejectCanceled(q) \/ Reserve(q) \/ RejectFull(q)
    \/ StartAtOnce(q) \/ Wait(q)
    \/ TimeOut(q) \/ CancelWaiting(q) \/ StartWaiting(q)
    \/ ReleaseToken(q) \/ ReleaseReservation(q)

Next == \E q \in Requests : Arrive(q) \/ Cancel(q) \/ Middleware(q) \/ Return(q)

Spec == Init /\ [][Next]_vars

(* A goroutine that can go on is scheduled in the end and a timer fires;   *)
(* nothing is assumed of handlers.                                         *)
FairSpec == Spec /\ \A q \in Requests : WF_vars(Middleware(q))

-----------------------------------------------------------------------------
(* A request inside holds a reservation, a holder a processing token too.  *)
In(places) == {q \in Requests : pc[q] \in places}

HolderPlaces == {"running", "releaseToken"}
InsidePlaces == {"reserved", "waiting", "releaseReservation"} \cup HolderPlaces

Holders == In(HolderPlaces)
Inside  == In(InsidePlaces)
Waiting == In({"waiting"})

(* Counters stay within their channels and requests at known steps.        *)
TypeOK ==
    /\ processing \in 0..Limit
    /\ backlog \in 0..Capacity
    /\ pc \in [Requests -> {"idle", "arrived"} \cup InsidePlaces]
    /\ canceled \subseteq Requests
    /\ answer \in [Requests -> {"none", "canceled", "full", "timeout", "served", "panicked"}]

(* No token is lost or made up on any way out: success, panic, timeout or  *)
(* cancellation.                                                           *)
TokensConserved ==
    /\ processing + Cardinality(Holders) = Limit
    /\ backlog + Cardinality(Inside) = Capacity

(* At most BacklogLimit requests wait.  It takes the order of the deferred *)
(* sends: a request gives its token back before its reservation, so one    *)
(* let in in its place finds the token.                                    *)
WaitingFitsBacklog == Cardinality(Waiting) <= BacklogLimit

(* The deferred sends never block: there is room for what a request holds. *)
ReleaseNeverBlocks ==
    \A q \in Requests :
        /\ pc[q] = "releaseToken" => processing < Limit
        /\ pc[q] = "releaseReservation" => backlog < Capacity

(* "Server capacity exceeded" is only said when Limit + BacklogLimit other *)
(* requests are inside.                                                    *)
RefusedOnlyWhenFull ==
    [][\A q \in Requests :
          answer'[q] = "full" /\ answer[q] # "full" =>
              Cardinality(Inside \ {q}) = Capacity]_vars

(* The throttle implements bounded admission.                              *)
Admission == INSTANCE Admission WITH inside <- Inside, running <- Holders

BoundedAdmission == Admission!Spec

(* However long handlers run, no request waits for ever (the timer).       *)
EveryWaitEnds == \A q \in Requests : pc[q] = "waiting" ~> pc[q] # "waiting"

(* If every handler returns, every request is answered and leaves, having  *)
(* given back what it took.                                                *)
EveryHandlerReturns == \A q \in Requests : []<>(pc[q] # "running")

EveryRequestLeaves ==
    EveryHandlerReturns => \A q \in Requests : pc[q] = "arrived" ~> pc[q] = "idle"
=============================================================================

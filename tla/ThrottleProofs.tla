--------------------------- MODULE ThrottleProofs ---------------------------
(***************************************************************************)
(* The throttle's bounds for every set of requests and every limit.        *)
(***************************************************************************)
EXTENDS Throttle, FiniteSetTheorems, TLAPS

(* A request that moves changes the number of requests in a set of places  *)
(* by what it adds and what it takes away.                                 *)
LEMMA Moves ==
    ASSUME TypeOK, NEW q \in Requests, NEW from, NEW to, Goto(q, from, to), NEW P
    PROVE  /\ IsFiniteSet(In(P)) /\ Cardinality(In(P)) \in Nat
           /\ In(P)' = IF to \in P THEN In(P) \cup {q} ELSE In(P) \ {q}
           /\ Cardinality(In(P)') = Cardinality(In(P))
                 + (IF to \in P THEN 1 ELSE 0) - (IF from \in P THEN 1 ELSE 0)
<1>1. IsFiniteSet(In(P)) /\ Cardinality(In(P)) \in Nat
  BY ThrottleAssumption, FS_Subset, FS_CardinalityType DEF In
<1>2. In(P)' = IF to \in P THEN In(P) \cup {q} ELSE In(P) \ {q}
  BY DEF TypeOK, Goto, In
<1>3. q \in In(P) <=> from \in P
  BY DEF Goto, In
<1>4. Cardinality(In(P) \cup {q}) = IF q \in In(P) THEN Cardinality(In(P)) ELSE Cardinality(In(P)) + 1
  BY <1>1, FS_AddElement
<1>5. Cardinality(In(P) \ {q}) = IF q \in In(P) THEN Cardinality(In(P)) - 1 ELSE Cardinality(In(P))
  BY <1>1, FS_RemoveElement
<1>6. CASE to \in P
  BY <1>1, <1>2, <1>3, <1>4, <1>6
<1>7. CASE to \notin P
  BY <1>1, <1>2, <1>3, <1>5, <1>7
<1>. QED
  BY <1>6, <1>7

(* The counters and the requests that hold tokens, together.               *)
Inv == TypeOK /\ TokensConserved

LEMMA InitInv == Init => Inv
<1>. SUFFICES ASSUME Init PROVE Inv
  OBVIOUS
<1>1. Holders = {} /\ Inside = {}
  BY DEF Init, Holders, Inside, In, HolderPlaces, InsidePlaces
<1>2. Cardinality(Holders) = 0 /\ Cardinality(Inside) = 0
  BY <1>1, FS_EmptySet
<1>3. TypeOK
  BY ThrottleAssumption DEF Init, TypeOK, Capacity, InsidePlaces
<1>. QED
  BY <1>2, <1>3, ThrottleAssumption DEF Inv, TokensConserved, Init, Capacity

LEMMA NextInv == Inv /\ [Next]_vars => Inv'
<1>. SUFFICES ASSUME Inv, [Next]_vars PROVE Inv'
  OBVIOUS
<1>. USE ThrottleAssumption DEF Inv, Capacity
<1>1. TypeOK'
  <2>1. CASE UNCHANGED vars
    BY <2>1 DEF TypeOK, vars
  <2>2. ASSUME NEW q \in Requests,
               Arrive(q) \/ Cancel(q) \/ Middleware(q) \/ Return(q)
        PROVE  TypeOK'
    <3>1. CASE Arrive(q)
      BY <3>1 DEF TypeOK, Arrive, Goto, Answers
    <3>2. CASE Cancel(q)
      BY <3>2 DEF TypeOK, Cancel
    <3>3. CASE RejectCanceled(q) \/ RejectFull(q)
      BY <3>3 DEF TypeOK, RejectCanceled, RejectFull, Goto, Answers
    <3>4. CASE Reserve(q) \/ StartAtOnce(q) \/ Wait(q) \/ StartWaiting(q)
      BY <3>4 DEF TypeOK, Reserve, StartAtOnce, Wait, StartWaiting, Goto,
                  InsidePlaces, HolderPlaces
    <3>5. CASE TimeOut(q) \/ CancelWaiting(q) \/ Return(q)
      BY <3>5 DEF TypeOK, TimeOut, CancelWaiting, Return, Goto, Answers,
                  InsidePlaces, HolderPlaces
    <3>6. CASE ReleaseToken(q) \/ ReleaseReservation(q)
      BY <3>6 DEF TypeOK, ReleaseToken, ReleaseReservation, Goto,
                  InsidePlaces, HolderPlaces
    <3>. QED
      BY <2>2, <3>1, <3>2, <3>3, <3>4, <3>5, <3>6 DEF Middleware
  <2>. QED
    BY <2>1, <2>2 DEF Next
<1>2. TokensConserved'
  <2>0. UNCHANGED <<processing, backlog, pc>> => TokensConserved'
    BY DEF TokensConserved, Holders, Inside, In
  <2>1. ASSUME NEW q \in Requests, NEW from, NEW to, Goto(q, from, to),
               processing' = processing + (IF from \in HolderPlaces THEN 1 ELSE 0)
                                        - (IF to \in HolderPlaces THEN 1 ELSE 0),
               backlog' = backlog + (IF from \in InsidePlaces THEN 1 ELSE 0)
                                  - (IF to \in InsidePlaces THEN 1 ELSE 0)
        PROVE  TokensConserved'
    <3>1. /\ Cardinality(Holders) \in Nat
          /\ Cardinality(Holders') = Cardinality(Holders)
                + (IF to \in HolderPlaces THEN 1 ELSE 0) - (IF from \in HolderPlaces THEN 1 ELSE 0)
      BY <2>1, Moves DEF Holders
    <3>2. /\ Cardinality(Inside) \in Nat
          /\ Cardinality(Inside') = Cardinality(Inside)
                + (IF to \in InsidePlaces THEN 1 ELSE 0) - (IF from \in InsidePlaces THEN 1 ELSE 0)
      BY <2>1, Moves DEF Inside
    <3>. QED
      BY <2>1, <3>1, <3>2 DEF TokensConserved, TypeOK
  <2>2. ASSUME NEW q \in Requests,
               Arrive(q) \/ Cancel(q) \/ Middleware(q) \/ Return(q)
        PROVE  TokensConserved'
    <3>. USE DEF HolderPlaces, InsidePlaces, TypeOK
    <3>1. CASE Arrive(q)
      BY <3>1, <2>1 DEF Arrive
    <3>2. CASE Cancel(q)
      BY <3>2, <2>0 DEF Cancel
    <3>3. CASE RejectCanceled(q) \/ RejectFull(q)
      BY <3>3, <2>1 DEF RejectCanceled, RejectFull
    <3>4. CASE Reserve(q)
      BY <3>4, <2>1 DEF Reserve
    <3>5. CASE StartAtOnce(q)
      BY <3>5, <2>1 DEF StartAtOnce
    <3>6. CASE Wait(q)
      BY <3>6, <2>1 DEF Wait
    <3>7. CASE StartWaiting(q)
      BY <3>7, <2>1 DEF StartWaiting
    <3>8. CASE TimeOut(q) \/ CancelWaiting(q)
      BY <3>8, <2>1 DEF TimeOut, CancelWaiting
    <3>9. CASE Return(q)
      BY <3>9, <2>1 DEF Return
    <3>10. CASE ReleaseToken(q)
      BY <3>10, <2>1 DEF ReleaseToken
    <3>11. CASE ReleaseReservation(q)
      BY <3>11, <2>1 DEF ReleaseReservation
    <3>. QED
      BY <2>2, <3>1, <3>2, <3>3, <3>4, <3>5, <3>6, <3>7, <3>8, <3>9, <3>10, <3>11
      DEF Middleware
  <2>. QED
    BY <2>0, <2>2 DEF Next, vars
<1>. QED
  BY <1>1, <1>2

(* Every variable keeps its type (middleware.ThrottleWithOpts).            *)
THEOREM TypeCorrect == Spec => []TypeOK
<1>. QED
  BY InitInv, NextInv, PTL DEF Spec, Inv

(* On every path through the middleware, a token or reservation taken is   *)
(* given back exactly once.                                                *)
THEOREM ThrottleConserves == Spec => []TokensConserved
<1>. QED
  BY InitInv, NextInv, PTL DEF Spec, Inv

-----------------------------------------------------------------------------
LEMMA InvReleases == Inv => ReleaseNeverBlocks
<1>. SUFFICES ASSUME Inv, NEW q \in Requests
              PROVE  /\ pc[q] = "releaseToken" => processing < Limit
                     /\ pc[q] = "releaseReservation" => backlog < Capacity
  BY DEF ReleaseNeverBlocks
<1>1. IsFiniteSet(Holders) /\ IsFiniteSet(Inside)
  BY ThrottleAssumption, FS_Subset DEF Holders, Inside, In
<1>2. pc[q] = "releaseToken" => Holders # {}
  BY DEF Holders, In, HolderPlaces
<1>3. pc[q] = "releaseReservation" => Inside # {}
  BY DEF Inside, In, InsidePlaces
<1>4. /\ Cardinality(Holders) \in Nat /\ (Holders # {} => Cardinality(Holders) # 0)
      /\ Cardinality(Inside) \in Nat /\ (Inside # {} => Cardinality(Inside) # 0)
  BY <1>1, FS_EmptySet, FS_CardinalityType
<1>. QED
  BY <1>2, <1>3, <1>4, ThrottleAssumption DEF Inv, TypeOK, TokensConserved, Capacity

(* The deferred sends of a leaving request never wait for room.            *)
THEOREM ReleasesNeverBlock == Spec => []ReleaseNeverBlocks
<1>. QED
  BY InitInv, NextInv, InvReleases, PTL DEF Spec

-----------------------------------------------------------------------------
(* When a request finds no token, all Limit of them are held by requests   *)
(* inside that do not wait, so the others and itself are at most           *)
(* BacklogLimit.                                                           *)
LEMMA WaitFindsRoom ==
    ASSUME Inv, NEW q \in Requests, Wait(q)
    PROVE  Cardinality(Waiting) + 1 <= BacklogLimit
<1>. DEFINE Others == Inside \ Holders
<1>1. IsFiniteSet(Inside) /\ IsFiniteSet(Holders) /\ IsFiniteSet(Waiting) /\ IsFiniteSet(Others)
  BY ThrottleAssumption, FS_Subset DEF Holders, Inside, Waiting, In
<1>2. Cardinality(Holders) = Limit
  <2>1. Cardinality(Holders) \in Nat
    BY <1>1, FS_CardinalityType
  <2>. QED
    BY <2>1, ThrottleAssumption DEF Inv, TokensConserved, TypeOK, Wait
<1>3. Cardinality(Inside) = Cardinality(Holders) + Cardinality(Others)
  <2>1. Inside = Holders \cup Others /\ Holders \cap Others = {}
    BY DEF Inside, Holders, In, InsidePlaces
  <2>2. Cardinality(Holders \cup Others)
          = Cardinality(Holders) + Cardinality(Others) - Cardinality(Holders \cap Others)
    BY <1>1, FS_Union
  <2>3. Cardinality(Holders \cap Others) = 0
    BY <2>1, FS_EmptySet
  <2>4. Cardinality(Holders) \in Nat /\ Cardinality(Others) \in Nat
    BY <1>1, FS_CardinalityType
  <2>5. Cardinality(Inside) = Cardinality(Holders \cup Others)
    BY <2>1
  <2>. HIDE DEF Others
  <2>. QED
    BY <2>2, <2>3, <2>4, <2>5
<1>4. Waiting \cup {q} \subseteq Others /\ q \notin Waiting
  BY DEF Wait, Goto, Waiting, Inside, Holders, In, InsidePlaces, HolderPlaces
<1>5. Cardinality(Waiting) + 1 <= Cardinality(Others)
  <2>1. Cardinality(Waiting \cup {q}) = Cardinality(Waiting) + 1
    BY <1>1, <1>4, FS_AddElement
  <2>2. Cardinality(Waiting \cup {q}) <= Cardinality(Others)
    BY <1>1, <1>4, FS_Subset
  <2>. QED
    BY <2>1, <2>2
<1>6. Cardinality(Inside) <= Capacity
  <2>1. Cardinality(Inside) \in Nat
    BY <1>1, FS_CardinalityType
  <2>. QED
    BY <2>1, ThrottleAssumption DEF Inv, TokensConserved, TypeOK, Capacity
<1>7. Cardinality(Waiting) \in Nat /\ Cardinality(Others) \in Nat
  BY <1>1, FS_CardinalityType
<1>. QED
  <2>. HIDE DEF Others
  <2>. QED
    BY <1>2, <1>3, <1>5, <1>6, <1>7, ThrottleAssumption DEF Capacity

LEMMA NextWaiting == Inv /\ WaitingFitsBacklog /\ [Next]_vars => WaitingFitsBacklog'
<1>. SUFFICES ASSUME Inv, WaitingFitsBacklog, [Next]_vars PROVE WaitingFitsBacklog'
  OBVIOUS
<1>1. UNCHANGED pc => WaitingFitsBacklog'
  BY DEF WaitingFitsBacklog, Waiting, In
<1>2. ASSUME NEW q \in Requests, NEW from, NEW to, Goto(q, from, to), to # "waiting"
      PROVE  WaitingFitsBacklog'
  <2>1. /\ Cardinality(Waiting) \in Nat
        /\ Cardinality(Waiting') = Cardinality(Waiting) - (IF from = "waiting" THEN 1 ELSE 0)
    BY <1>2, Moves DEF Waiting, Inv
  <2>. QED
    BY <2>1, ThrottleAssumption DEF WaitingFitsBacklog
<1>3. ASSUME NEW q \in Requests, Wait(q)
      PROVE  WaitingFitsBacklog'
  <2>1. Goto(q, "reserved", "waiting")
    BY <1>3 DEF Wait
  <2>2. /\ Cardinality(Waiting) \in Nat
        /\ Cardinality(Waiting') = Cardinality(Waiting) + 1
    BY <2>1, Moves DEF Waiting, Inv
  <2>. QED
    BY <1>3, <2>2, WaitFindsRoom DEF WaitingFitsBacklog
<1>4. ASSUME NEW q \in Requests,
             Arrive(q) \/ Cancel(q) \/ Middleware(q) \/ Return(q)
      PROVE  WaitingFitsBacklog'
  BY <1>1, <1>2, <1>3, <1>4
  DEF Arrive, Cancel, Middleware, RejectCanceled, Reserve, RejectFull, StartAtOnce,
      TimeOut, CancelWaiting, StartWaiting, Return, ReleaseToken, ReleaseReservation
<1>. QED
  BY <1>1, <1>4 DEF Next, vars

(* No more requests wait than the backlog was given places for; with a     *)
(* backlog of 0 no request ever waits.                                     *)
THEOREM WaitersAreBounded == Spec => []WaitingFitsBacklog
<1>1. Init => WaitingFitsBacklog
  <2>1. Init => Waiting = {}
    BY DEF Init, Waiting, In
  <2>. QED
    BY <2>1, FS_EmptySet, ThrottleAssumption DEF WaitingFitsBacklog
<1>. QED
  BY <1>1, InitInv, NextInv, NextWaiting, PTL DEF Spec

-----------------------------------------------------------------------------
(* A request is refused for capacity only while Limit + BacklogLimit       *)
(* others are inside.                                                      *)
THEOREM RefusalsAreJustified == Spec => RefusedOnlyWhenFull
<1>. DEFINE Justified == \A q \in Requests :
                            answer'[q] = "full" /\ answer[q] # "full" =>
                                Cardinality(Inside \ {q}) = Capacity
<1>1. Inv /\ [Next]_vars => Justified
  <2>. SUFFICES ASSUME Inv, [Next]_vars, NEW q \in Requests,
                       answer'[q] = "full", answer[q] # "full"
                PROVE  Cardinality(Inside \ {q}) = Capacity
    OBVIOUS
  <2>1. PICK p \in Requests : Arrive(p) \/ Cancel(p) \/ Middleware(p) \/ Return(p)
    BY DEF Next, vars
  <2>2. RejectFull(p) /\ p = q
    BY <2>1 DEF Inv, TypeOK, Arrive, Cancel, Middleware, RejectCanceled, Reserve,
                RejectFull, StartAtOnce, Wait, TimeOut, CancelWaiting, StartWaiting,
                Return, ReleaseToken, ReleaseReservation, Answers
  <2>3. Inside \ {q} = Inside
    BY <2>2 DEF RejectFull, Goto, Inside, In, InsidePlaces, HolderPlaces
  <2>4. Cardinality(Inside) \in Nat
    BY ThrottleAssumption, FS_Subset, FS_CardinalityType DEF Inside, In
  <2>. QED
    BY <2>2, <2>3, <2>4, ThrottleAssumption DEF RejectFull, Inv, TokensConserved, Capacity
<1>. QED
  BY <1>1, InitInv, NextInv, PTL DEF Spec, RefusedOnlyWhenFull

-----------------------------------------------------------------------------
LEMMA InsideCounts ==
    ASSUME Inv
    PROVE  /\ Cardinality(Inside) = Capacity - backlog
           /\ Cardinality(Holders) = Limit - processing
<1>1. Cardinality(Inside) \in Nat /\ Cardinality(Holders) \in Nat
  BY ThrottleAssumption, FS_Subset, FS_CardinalityType DEF Inside, Holders, In
<1>. QED
  BY <1>1, ThrottleAssumption DEF Inv, TypeOK, TokensConserved, Capacity

(* The instance counts with a Cardinality of its own.                      *)
LEMMA SameCardinality == \A S : Admission!Cardinality(S) = Cardinality(S)
<1>. QED
  BY DEF Cardinality, Admission!Cardinality

LEMMA StepSimulation == Inv /\ [Next]_vars => [Admission!Next]_(Admission!vars)
<1>. SUFFICES ASSUME Inv, [Next]_vars
              PROVE  Admission!Next \/ (Inside' = Inside /\ Holders' = Holders)
  BY DEF Admission!vars
<1>1. UNCHANGED pc => Inside' = Inside /\ Holders' = Holders
  BY DEF Inside, Holders, In
<1>2. ASSUME NEW q \in Requests, NEW from, NEW to, Goto(q, from, to)
      PROVE  /\ Inside' = IF to \in InsidePlaces THEN Inside \cup {q} ELSE Inside \ {q}
             /\ Holders' = IF to \in HolderPlaces THEN Holders \cup {q} ELSE Holders \ {q}
             /\ q \in Inside <=> from \in InsidePlaces
             /\ q \in Holders <=> from \in HolderPlaces
  <2>1. TypeOK
    BY DEF Inv
  <2>2. Inside' = IF to \in InsidePlaces THEN Inside \cup {q} ELSE Inside \ {q}
    BY <1>2, <2>1, Moves DEF Inside
  <2>3. Holders' = IF to \in HolderPlaces THEN Holders \cup {q} ELSE Holders \ {q}
    BY <1>2, <2>1, Moves DEF Holders
  <2>. QED
    BY <1>2, <2>2, <2>3 DEF Goto, Inside, Holders, In
<1>3. ASSUME NEW q \in Requests,
             Arrive(q) \/ Cancel(q) \/ Middleware(q) \/ Return(q)
      PROVE  Admission!Next \/ (Inside' = Inside /\ Holders' = Holders)
  <2>. USE DEF InsidePlaces, HolderPlaces
  <2>1. CASE Cancel(q)
    BY <2>1, <1>1 DEF Cancel
  <2>2. CASE Arrive(q) \/ RejectCanceled(q) \/ RejectFull(q)
    BY <2>2, <1>2 DEF Arrive, RejectCanceled, RejectFull
  <2>3. CASE Wait(q) \/ TimeOut(q) \/ CancelWaiting(q) \/ Return(q)
    BY <2>3, <1>2 DEF Wait, TimeOut, CancelWaiting, Return
  <2>4. CASE Reserve(q)
    <3>1. Goto(q, "arrived", "reserved") /\ backlog > 0
      BY <2>4 DEF Reserve
    <3>2. Admission!Enter(q)
      BY <3>1, <1>2, InsideCounts, SameCardinality, ThrottleAssumption
      DEF Admission!Enter, Inv, TypeOK, Capacity
    <3>. QED
      BY <3>2 DEF Admission!Next
  <2>5. CASE StartAtOnce(q) \/ StartWaiting(q)
    <3>1. processing > 0 /\ (Goto(q, "reserved", "running") \/ Goto(q, "waiting", "running"))
      BY <2>5 DEF StartAtOnce, StartWaiting
    <3>2. Admission!Start(q)
      BY <3>1, <1>2, InsideCounts, SameCardinality, ThrottleAssumption DEF Admission!Start, Inv, TypeOK
    <3>. QED
      BY <3>2 DEF Admission!Next
  <2>6. CASE ReleaseToken(q)
    <3>1. Goto(q, "releaseToken", "releaseReservation")
      BY <2>6 DEF ReleaseToken
    <3>2. Admission!Stop(q)
      BY <3>1, <1>2 DEF Admission!Stop
    <3>. QED
      BY <3>2 DEF Admission!Next
  <2>7. CASE ReleaseReservation(q)
    <3>1. Goto(q, "releaseReservation", "idle")
      BY <2>7 DEF ReleaseReservation
    <3>2. Admission!Leave(q)
      BY <3>1, <1>2 DEF Admission!Leave
    <3>. QED
      BY <3>2 DEF Admission!Next
  <2>. QED
    BY <1>3, <2>1, <2>2, <2>3, <2>4, <2>5, <2>6, <2>7 DEF Middleware
<1>. QED
  BY <1>1, <1>3 DEF Next, vars

(* The throttle, with its two channels and three selects, implements       *)
(* bounded admission.                                                      *)
THEOREM ThrottleImplementsAdmission == Spec => BoundedAdmission
<1>1. Init => Admission!Init
  BY DEF Init, Admission!Init, Inside, Holders, In, InsidePlaces, HolderPlaces
<1>. QED
  BY <1>1, InitInv, NextInv, StepSimulation, PTL
  DEF Spec, BoundedAdmission, Admission!Spec

=============================================================================

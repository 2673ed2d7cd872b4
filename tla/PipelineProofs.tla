--------------------------- MODULE PipelineProofs ---------------------------
(***************************************************************************)
(* What the client and the log are told, for any statuses and any number   *)
(* of calls of the handler.                                                *)
(***************************************************************************)
EXTENDS Pipeline, TLAPS

Writers == [status : 0..999, wroteHeader : BOOLEAN, bytes : Nat,
            discard : BOOLEAN, tee : BOOLEAN]

Answerers == {"nobody", "handler", "timeout", "recoverer", "server"}

Clients == [status : 0..999, by : Answerers, bytes : Nat, dropped : Nat,
            twice : BOOLEAN]

(* The wrapper and the server, while the wrapper is in use: they agree on  *)
(* whether a final status was sent and, if nothing was discarded, on which.*)
WriterInv ==
    /\ writer \in Writers
    /\ writer.status # 0 => writer.wroteHeader
    /\ copied \in [bytes : Nat, from : Nat]
    /\ client \in Clients
    /\ ~client.twice
    /\ client.by = "nobody" <=> client.status = 0
    /\ client.status # 0 => writer.wroteHeader
    /\ ~writer.discard =>
          client.status = IF writer.status # 0 THEN writer.status
                          ELSE IF writer.wroteHeader THEN OK ELSE 0
    /\ writer.bytes = client.bytes + client.dropped
    /\ writer.tee => copied.from + copied.bytes = writer.bytes

(* Who answers is whose code runs, and only if nobody did before.          *)
AnsweredNow ==
    \/ client'.status = client.status /\ client'.by = client.by
    \/ client.status = 0 /\ client'.by = pc

(* How far the handler's end got, and what the middlewares answered on the *)
(* way.                                                                    *)
Unwinding ==
    /\ pc \in {"handler", "timeout", "recoverer", "logger", "server", "done"}
    /\ err \in {"none", "deadline", "canceled"}
    /\ panicking \in {"no", "value", "abort", "recovered"}
    /\ pc = "handler" => panicking = "no"
    /\ panicking = "recovered" => pc \in {"logger", "server", "done"}
    /\ panicking = "value" => pc \in {"timeout", "recoverer"}
    /\ pc \in {"handler", "timeout"} => client.by \in {"nobody", "handler"}
    /\ client.by = "timeout" => client.status = GatewayTimeout /\ err = "deadline"
    /\ client.by = "recoverer" =>
          /\ client.status = InternalServerError
          /\ panicking = "recovered" /\ ~upgrade /\ err # "deadline"
    /\ client.by = "server" => pc = "done"
    /\ pc \notin {"handler", "timeout"} /\ err = "deadline" /\ ~writer.discard =>
          client.status # 0
    /\ panicking = "recovered" /\ ~upgrade /\ ~writer.discard => client.status # 0

LogInv ==
    /\ logged \in [written : BOOLEAN, status : 0..999, bytes : Nat]
    /\ logged.written <=> pc \in {"server", "done"}
    /\ logged.written => logged.status = writer.status /\ logged.bytes = writer.bytes

(* The invariant while the request runs; in the end what is to be shown.   *)
Inv ==
    /\ TypeOK
    /\ OneFinalStatus
    /\ BytesAddUp
    /\ Unwinding
    /\ LogInv
    /\ pc # "done" => WriterInv
    /\ LogTellsTheStatus
    /\ FailuresReachTheClient

-----------------------------------------------------------------------------
(* Calls of the writer keep what the wrapper and the server agree on.      *)

(* The wrapper and the client once a status is set.                        *)
WithStatus(w, status) == [w EXCEPT !.status = status, !.wroteHeader = TRUE]

Answered(c, status, by) == [c EXCEPT !.status = status, !.by = by]

LEMMA WriterFields ==
    ASSUME writer \in Writers, NEW status \in 0..999
    PROVE  LET v == WithStatus(writer, status)
           IN  /\ v \in Writers
               /\ v.status = status /\ v.wroteHeader /\ v.bytes = writer.bytes
               /\ v.discard = writer.discard /\ v.tee = writer.tee
<1>. DEFINE u == [writer EXCEPT !.status = status]
            v == [u EXCEPT !.wroteHeader = TRUE]
<1>1. /\ u \in Writers /\ u.status = status
      /\ u.bytes = writer.bytes /\ u.discard = writer.discard /\ u.tee = writer.tee
  BY DEF Writers
<1>. HIDE DEF u
<1>2. /\ v \in Writers /\ v.status = u.status /\ v.wroteHeader
      /\ v.bytes = u.bytes /\ v.discard = u.discard /\ v.tee = u.tee
  <2>1. PICK b \in BOOLEAN : v = [u EXCEPT !.wroteHeader = b]
    OBVIOUS
  <2>2. v.wroteHeader
    BY <1>1 DEF Writers
  <2>. HIDE DEF v
  <2>3. /\ v \in Writers /\ v.status = u.status
        /\ v.bytes = u.bytes /\ v.discard = u.discard /\ v.tee = u.tee
    BY <1>1, <2>1 DEF Writers
  <2>. QED
    BY <2>2, <2>3
<1>. HIDE DEF v
<1>3. /\ v \in Writers /\ v.status = status /\ v.wroteHeader
      /\ v.bytes = writer.bytes /\ v.discard = writer.discard /\ v.tee = writer.tee
  BY <1>1, <1>2
<1>. QED
  BY <1>3 DEF u, v, WithStatus

LEMMA ClientFields ==
    ASSUME client \in Clients, NEW status \in 0..999, NEW by \in Answerers
    PROVE  LET d == Answered(client, status, by)
           IN  /\ d \in Clients /\ d.status = status /\ d.by = by
               /\ d.bytes = client.bytes /\ d.dropped = client.dropped /\ d.twice = client.twice
<1>. DEFINE b == [client EXCEPT !.status = status]
            d == [b EXCEPT !.by = by]
<1>1. /\ b \in Clients /\ b.status = status
      /\ b.bytes = client.bytes /\ b.dropped = client.dropped /\ b.twice = client.twice
  BY DEF Clients
<1>. HIDE DEF b
<1>2. /\ d \in Clients /\ d.status = b.status /\ d.by = by
      /\ d.bytes = b.bytes /\ d.dropped = b.dropped /\ d.twice = b.twice
  BY <1>1 DEF Clients
<1>. HIDE DEF d
<1>3. /\ d \in Clients /\ d.status = status /\ d.by = by
      /\ d.bytes = client.bytes /\ d.dropped = client.dropped /\ d.twice = client.twice
  BY <1>1, <1>2
<1>. QED
  BY <1>3 DEF b, d, Answered

(* The fields' types.                                                      *)
LEMMA Fields ==
    ASSUME WriterInv
    PROVE  /\ writer.status \in 0..999 /\ writer.wroteHeader \in BOOLEAN
           /\ writer.bytes \in Nat /\ writer.discard \in BOOLEAN /\ writer.tee \in BOOLEAN
           /\ copied.bytes \in Nat /\ copied.from \in Nat
           /\ client.status \in 0..999 /\ client.by \in Answerers
           /\ client.bytes \in Nat /\ client.dropped \in Nat
BY DEF WriterInv, Writers, Clients

(* The first final status: what Recorded and Forwarded give then.          *)
LEMMA FirstStatus ==
    ASSUME WriterInv, pc \in {"handler", "timeout", "recoverer"},
           NEW status \in 100..999, ~Informational(status), ~writer.wroteHeader
    PROVE  \E w \in Writers, c \in Clients :
               /\ w = Recorded(writer, status)
               /\ c = Forwarded(writer, client, status)
               /\ w.status = status /\ w.wroteHeader /\ w.bytes = writer.bytes
               /\ w.discard = writer.discard /\ w.tee = writer.tee
               /\ ~c.twice /\ c.bytes = client.bytes /\ c.dropped = client.dropped
               /\ IF writer.discard THEN c = client ELSE c.status = status /\ c.by = pc
<1>1. client.status = 0
  BY DEF WriterInv
<1>2. writer \in Writers /\ client \in Clients /\ ~client.twice
      /\ status \in 0..999 /\ pc \in Answerers
  BY DEF WriterInv, Answerers
<1>3. Recorded(writer, status) = WithStatus(writer, status)
  BY DEF Recorded, WithStatus
<1>4. Forwarded(writer, client, status) =
        IF writer.discard THEN client ELSE Answered(client, status, pc)
  BY <1>1 DEF Forwarded, Send, Answered
<1>. DEFINE w == WithStatus(writer, status)
            d == Answered(client, status, pc)
            c == IF writer.discard THEN client ELSE d
<1>5. /\ w \in Writers /\ w.status = status /\ w.wroteHeader /\ w.bytes = writer.bytes
      /\ w.discard = writer.discard /\ w.tee = writer.tee
  BY <1>2, WriterFields, ZenonT(60)
<1>6. /\ d \in Clients /\ d.status = status /\ d.by = pc
      /\ d.bytes = client.bytes /\ d.dropped = client.dropped /\ d.twice = client.twice
  BY <1>2, ClientFields, ZenonT(60)
<1>. HIDE DEF d
<1>7. /\ c \in Clients /\ ~c.twice /\ c.bytes = client.bytes /\ c.dropped = client.dropped
      /\ IF writer.discard THEN c = client ELSE c.status = status /\ c.by = pc
  BY <1>2, <1>6
<1>8. w = Recorded(writer, status) /\ c = Forwarded(writer, client, status)
  BY <1>3, <1>4 DEF d
<1>. HIDE DEF w, c
<1>. w \in Writers /\ c \in Clients
  BY <1>5, <1>7
<1>. WITNESS w \in Writers, c \in Clients
<1>. QED
  BY <1>5, <1>7, <1>8

(* WriteHeader forwards the first final status and no other.               *)
LEMMA WriteHeaderAgrees ==
    ASSUME WriterInv, pc \in {"handler", "timeout", "recoverer"},
           NEW status \in 100..999, WriteHeader(status)
    PROVE  /\ WriterInv'
           /\ writer'.discard = writer.discard
           /\ AnsweredNow
           /\ ~writer.discard /\ ~Informational(status) =>
                 /\ client'.status # 0
                 /\ client'.by # client.by => client'.status = status
           /\ writer.discard => client' = client
<1>1. CASE Informational(status)
  BY <1>1 DEF WriterInv, AnsweredNow, WriteHeader, Recorded, Forwarded, Send
<1>2. CASE ~Informational(status) /\ writer.wroteHeader
  <2>1. writer' = writer /\ client' = client /\ copied' = copied
    BY <1>2 DEF WriteHeader, Recorded, Forwarded
  <2>. QED
    BY <1>2, <2>1 DEF WriterInv, AnsweredNow, OK
<1>3. CASE ~Informational(status) /\ ~writer.wroteHeader
  <2>1. client.status = 0 /\ client.by = "nobody"
    BY <1>3 DEF WriterInv
  <2>2. copied' = copied
    BY DEF WriteHeader
  <2>3. /\ writer' \in Writers
        /\ writer'.status = status /\ writer'.wroteHeader /\ writer'.bytes = writer.bytes
        /\ writer'.discard = writer.discard /\ writer'.tee = writer.tee
        /\ client' \in Clients /\ ~client'.twice
        /\ client'.bytes = client.bytes /\ client'.dropped = client.dropped
        /\ IF writer.discard THEN client' = client
           ELSE client'.status = status /\ client'.by = pc
      <3>1. PICK w \in Writers, c \in Clients :
               /\ w = Recorded(writer, status)
               /\ c = Forwarded(writer, client, status)
               /\ w.status = status /\ w.wroteHeader /\ w.bytes = writer.bytes
               /\ w.discard = writer.discard /\ w.tee = writer.tee
               /\ ~c.twice /\ c.bytes = client.bytes /\ c.dropped = client.dropped
               /\ IF writer.discard THEN c = client ELSE c.status = status /\ c.by = pc
      BY <1>3, FirstStatus, ZenonT(60)
    <3>2. writer' = w /\ client' = c
      BY <3>1 DEF WriteHeader
    <3>. QED
      BY <3>1, <3>2
  <2>. QED
    BY <1>3, <2>1, <2>2, <2>3 DEF WriterInv, AnsweredNow
<1>. QED
  BY <1>1, <1>2, <1>3

(* A write is a 200 first, unless there was a status or a flush.           *)
LEMMA WriteAgrees ==
    ASSUME WriterInv, pc = "handler", NEW taken \in 0..1,
           Write(taken) \/ ReadFrom(taken)
    PROVE  WriterInv' /\ AnsweredNow
<1>1. ~Informational(OK) /\ OK \in 100..999 /\ taken \in Nat
  BY DEF Informational, OK
<1>2. PICK w \in Writers, c \in Clients :
           /\ w = Recorded(writer, OK)
           /\ c = Forwarded(writer, client, OK)
           /\ w.wroteHeader /\ w.bytes = writer.bytes
           /\ w.discard = writer.discard /\ w.tee = writer.tee
           /\ w.status = IF writer.wroteHeader THEN writer.status ELSE OK
           /\ ~c.twice /\ c.bytes = client.bytes /\ c.dropped = client.dropped
           /\ IF writer.wroteHeader \/ writer.discard THEN c = client
              ELSE c.status = OK /\ c.by = pc
  <2>1. CASE writer.wroteHeader
    <3>1. Recorded(writer, OK) = writer /\ Forwarded(writer, client, OK) = client
      BY <1>1, <2>1 DEF Recorded, Forwarded
    <3>. writer \in Writers /\ client \in Clients /\ ~client.twice
      BY DEF WriterInv
    <3>. WITNESS writer \in Writers, client \in Clients
    <3>. QED
      BY <2>1, <3>1
  <2>2. CASE ~writer.wroteHeader
    BY <1>1, <2>2, FirstStatus, ZenonT(60)
  <2>. QED
    BY <2>1, <2>2
<1>3. ~writer.discard => c.status # 0
  BY <1>2 DEF WriterInv, OK
<1>4. ~writer.discard => SendImplicitly(c) = c
  BY <1>3 DEF SendImplicitly
<1>5. /\ writer' = [w EXCEPT !.bytes = w.bytes + taken]
      /\ client' = IF writer.discard THEN [c EXCEPT !.dropped = c.dropped + taken]
                   ELSE [c EXCEPT !.bytes = c.bytes + taken]
      /\ copied' = IF writer.tee THEN [copied EXCEPT !.bytes = copied.bytes + taken]
                   ELSE copied
  BY <1>2, <1>4 DEF Write, ReadFrom
<1>6. /\ writer' \in Writers
      /\ writer'.status = w.status /\ writer'.wroteHeader
      /\ writer'.bytes = writer.bytes + taken
      /\ writer'.discard = writer.discard /\ writer'.tee = writer.tee
  BY <1>1, <1>2, <1>5 DEF Writers
<1>7. /\ client' \in Clients /\ ~client'.twice
      /\ client'.status = c.status /\ client'.by = c.by
      /\ client'.bytes = (IF writer.discard THEN client.bytes ELSE client.bytes + taken)
      /\ client'.dropped = (IF writer.discard THEN client.dropped + taken ELSE client.dropped)
  BY <1>1, <1>2, <1>5 DEF Clients
<1>8. /\ copied' \in [bytes : Nat, from : Nat]
      /\ copied'.from = copied.from
      /\ writer.tee => copied'.bytes = copied.bytes + taken
  BY <1>1, <1>5 DEF WriterInv
<1>9. ~writer.wroteHeader => client.status = 0 /\ client.by = "nobody"
  BY DEF WriterInv
<1>10. AnsweredNow
  BY <1>2, <1>7, <1>9 DEF AnsweredNow
<1>11. writer'.bytes = client'.bytes + client'.dropped
  BY <1>1, <1>6, <1>7, Fields DEF WriterInv
<1>12. writer'.tee => copied'.from + copied'.bytes = writer'.bytes
  BY <1>1, <1>6, <1>8, Fields DEF WriterInv
<1>13. /\ client'.by = "nobody" <=> client'.status = 0
       /\ ~writer'.discard => client'.status = IF writer'.status # 0 THEN writer'.status ELSE OK
  BY <1>2, <1>6, <1>7, <1>9 DEF WriterInv, OK
<1>. QED
  BY <1>6, <1>7, <1>8, <1>10, <1>11, <1>12, <1>13 DEF WriterInv

(* A flush sends a 200 and has the later statuses dropped.                 *)
LEMMA FlushAgrees ==
    ASSUME WriterInv, pc = "handler", Flush
    PROVE  WriterInv' /\ AnsweredNow
<1>1. client' = IF client.status = 0 THEN Answered(client, OK, pc) ELSE client
  BY DEF Flush, SendImplicitly, Send, Informational, OK, Answered
<1>2. writer' = [writer EXCEPT !.wroteHeader = TRUE] /\ copied' = copied
  BY DEF Flush
<1>3. /\ writer' \in Writers
      /\ writer'.status = writer.status /\ writer'.wroteHeader
      /\ writer'.bytes = writer.bytes
      /\ writer'.discard = writer.discard /\ writer'.tee = writer.tee
  <2>1. writer \in Writers
    BY DEF WriterInv
  <2>2. PICK b \in BOOLEAN : writer' = [writer EXCEPT !.wroteHeader = b]
    BY <1>2
  <2>3. /\ writer' \in Writers
        /\ writer'.status = writer.status /\ writer'.bytes = writer.bytes
        /\ writer'.discard = writer.discard /\ writer'.tee = writer.tee
    BY <2>1, <2>2 DEF Writers
  <2>4. writer'.wroteHeader
    BY <1>2, <2>1 DEF Writers
  <2>. QED
    BY <2>3, <2>4
<1>4. /\ client' \in Clients
      /\ client'.status = (IF client.status = 0 THEN OK ELSE client.status)
      /\ client'.by = (IF client.status = 0 THEN pc ELSE client.by)
      /\ client'.bytes = client.bytes /\ client'.dropped = client.dropped /\ ~client'.twice
  <2>1. client \in Clients /\ ~client.twice /\ OK \in 0..999 /\ pc \in Answerers
    BY DEF WriterInv, OK, Answerers
  <2>. QED
    BY <1>1, <2>1, ClientFields, ZenonT(60)
<1>5. AnsweredNow
  BY <1>4 DEF AnsweredNow, WriterInv
<1>6. writer'.bytes = client'.bytes + client'.dropped
      /\ (writer'.tee => copied'.from + copied'.bytes = writer'.bytes)
  BY <1>2, <1>3, <1>4 DEF WriterInv
<1>7. /\ copied' \in [bytes : Nat, from : Nat]
      /\ writer'.status # 0 => writer'.wroteHeader
      /\ client'.by = "nobody" <=> client'.status = 0
      /\ client'.status # 0 => writer'.wroteHeader
      /\ ~writer'.discard =>
            client'.status = IF writer'.status # 0 THEN writer'.status
                             ELSE IF writer'.wroteHeader THEN OK ELSE 0
  BY <1>2, <1>3, <1>4 DEF WriterInv, OK
<1>. QED
  BY <1>3, <1>4, <1>5, <1>6, <1>7 DEF WriterInv

(* A tee starts to count; from a discard on the client is not told.        *)
LEMMA TeeOrDiscardAgrees ==
    ASSUME WriterInv, Tee \/ Discard
    PROVE  WriterInv' /\ AnsweredNow
<1>1. writer \in Writers
  BY DEF WriterInv
<1>2. writer.bytes \in Nat
  BY Fields
<1>3. CASE Tee
  <2>1. PICK b \in BOOLEAN : writer' = [writer EXCEPT !.tee = b]
    BY <1>3 DEF Tee
  <2>2. copied' = [bytes |-> 0, from |-> writer.bytes] /\ client' = client
    BY <1>3 DEF Tee
  <2>3. /\ writer' \in Writers
        /\ writer'.status = writer.status /\ writer'.wroteHeader = writer.wroteHeader
        /\ writer'.bytes = writer.bytes /\ writer'.discard = writer.discard
    BY <1>1, <2>1 DEF Writers
  <2>4. /\ copied' \in [bytes : Nat, from : Nat] /\ client' = client
        /\ copied'.from + copied'.bytes = writer.bytes
    BY <1>2, <2>2
  <2>5. AnsweredNow
    BY <2>4 DEF AnsweredNow
  <2>. QED
    BY <2>3, <2>4, <2>5 DEF WriterInv
<1>4. CASE Discard
  <2>1. PICK b \in BOOLEAN : writer' = [writer EXCEPT !.discard = b]
    BY <1>4 DEF Discard
  <2>2. copied' = copied /\ client' = client
    BY <1>4 DEF Discard
  <2>3. /\ writer' \in Writers
        /\ writer'.status = writer.status /\ writer'.wroteHeader = writer.wroteHeader
        /\ writer'.bytes = writer.bytes /\ writer'.tee = writer.tee
    BY <1>1, <2>1 DEF Writers
  <2>4. writer'.discard
    BY <1>1, <1>4 DEF Discard, Writers
  <2>5. AnsweredNow
    BY <2>2 DEF AnsweredNow
  <2>. QED
    BY <2>3, <2>5, <2>2, <2>4 DEF WriterInv
<1>. QED
  BY <1>3, <1>4

-----------------------------------------------------------------------------
LEMMA InitInv == Init => Inv
BY PipelineAssumption
   DEF Init, Inv, TypeOK, OneFinalStatus, BytesAddUp, Unwinding, LogInv, WriterInv,
       Writers, Clients, Answerers,
       LogTellsTheStatus, FailuresReachTheClient

(* What is left to show of a step that does not end the request.           *)
LEMMA Running ==
    ASSUME WriterInv', Unwinding', LogInv', pc' # "done", calls' \in Nat,
           upgrade' \in BOOLEAN
    PROVE  Inv'
BY DEF Inv, TypeOK, OneFinalStatus, BytesAddUp, Unwinding, LogInv, WriterInv,
       Writers, Clients, Answerers,
       LogTellsTheStatus, FailuresReachTheClient

LEMMA NextInv == Inv /\ [Next]_vars => Inv'
<1>. SUFFICES ASSUME Inv, [Next]_vars PROVE Inv'
  OBVIOUS
<1>0. calls \in Nat /\ upgrade \in BOOLEAN /\ (pc # "done" => WriterInv) /\ Unwinding /\ LogInv
  BY DEF Inv, TypeOK
<1>1. CASE UNCHANGED vars
  BY <1>1 DEF vars, Inv, TypeOK, OneFinalStatus, BytesAddUp, Unwinding, LogInv, WriterInv,
              LogTellsTheStatus, FailuresReachTheClient
<1>2. CASE Call
  <2>1. WriterInv /\ pc = "handler"
    BY <1>0, <1>2 DEF Call
  <2>2. WriterInv' /\ AnsweredNow
    <3>1. ASSUME NEW status \in Statuses, WriteHeader(status) PROVE WriterInv' /\ AnsweredNow
      <4>1. status \in 100..999
        BY PipelineAssumption
      <4>. QED
        BY <2>1, <3>1, <4>1, WriteHeaderAgrees, ZenonT(60)
    <3>2. ASSUME NEW taken \in 0..1, Write(taken) \/ ReadFrom(taken)
          PROVE  WriterInv' /\ AnsweredNow
      BY <2>1, <3>2, WriteAgrees
    <3>3. ASSUME Flush PROVE WriterInv' /\ AnsweredNow
      BY <2>1, <3>3, FlushAgrees
    <3>4. ASSUME Tee \/ Discard PROVE WriterInv' /\ AnsweredNow
      BY <2>1, <3>4, TeeOrDiscardAgrees
    <3>. QED
      BY <1>2, <3>1, <3>2, <3>3, <3>4 DEF Call
  <2>3. /\ UNCHANGED <<pc, upgrade, err, panicking, logged>> /\ calls' \in Nat
    BY <1>0, <1>2 DEF Call
  <2>4. Unwinding'
    BY <1>0, <2>1, <2>2, <2>3 DEF Unwinding, AnsweredNow
  <2>5. LogInv'
    BY <1>0, <2>1, <2>3 DEF LogInv
  <2>. QED
    BY <1>0, <2>1, <2>2, <2>3, <2>4, <2>5, Running
<1>3. ASSUME NEW how \in {"no", "value", "abort"}, End(how) PROVE Inv'
  <2>1. WriterInv' /\ Unwinding' /\ LogInv'
    BY <1>0, <1>3 DEF End, WriterInv, Unwinding, LogInv
  <2>. QED
    BY <1>0, <1>3, <2>1, Running DEF End
<1>4. ASSUME NEW why \in {"deadline", "canceled"}, ContextEnds(why) PROVE Inv'
  <2>1. WriterInv' /\ Unwinding' /\ LogInv'
    BY <1>0, <1>4 DEF ContextEnds, WriterInv, Unwinding, LogInv
  <2>. QED
    BY <1>0, <1>4, <2>1, Running DEF ContextEnds
<1>5. CASE TimeoutEnds
  <2>1. /\ WriterInv /\ pc = "timeout" /\ pc' = "recoverer"
        /\ err' = (IF err = "none" THEN "canceled" ELSE err)
        /\ UNCHANGED <<calls, upgrade, panicking, logged>>
    BY <1>0, <1>5 DEF TimeoutEnds
  <2>2. CASE err = "deadline"
    <3>1. WriteHeader(GatewayTimeout) /\ GatewayTimeout \in 100..999
          /\ ~Informational(GatewayTimeout)
      BY <1>5, <2>2 DEF TimeoutEnds, GatewayTimeout, Informational
    <3>2. /\ WriterInv' /\ writer'.discard = writer.discard /\ AnsweredNow
          /\ ~writer.discard => /\ client'.status # 0
                                /\ client'.by # client.by => client'.status = GatewayTimeout
          /\ writer.discard => client' = client
      BY <2>1, <3>1, WriteHeaderAgrees, ZenonT(60)
    <3>3. Unwinding'
      BY <1>0, <2>1, <2>2, <3>2 DEF Unwinding, AnsweredNow
    <3>4. LogInv'
      BY <1>0, <2>1 DEF LogInv
    <3>. QED
      BY <1>0, <2>1, <3>2, <3>3, <3>4, Running
  <2>3. CASE err # "deadline"
    <3>1. UNCHANGED <<writer, client, copied>>
      BY <1>5, <2>3 DEF TimeoutEnds
    <3>2. WriterInv' /\ Unwinding' /\ LogInv'
      BY <1>0, <2>1, <2>3, <3>1 DEF WriterInv, Unwinding, LogInv
    <3>. QED
      BY <1>0, <2>1, <3>2, Running
  <2>. QED
    BY <2>2, <2>3
<1>6. CASE RecovererEnds
  <2>1. /\ WriterInv /\ pc = "recoverer" /\ pc' = "logger"
        /\ UNCHANGED <<calls, upgrade, err, logged>>
    BY <1>0, <1>6 DEF RecovererEnds
  <2>2. CASE panicking = "value" /\ ~upgrade
    <3>1. /\ WriteHeader(InternalServerError) /\ InternalServerError \in 100..999
          /\ ~Informational(InternalServerError) /\ panicking' = "recovered"
      BY <1>6, <2>2 DEF RecovererEnds, InternalServerError, Informational
    <3>2. /\ WriterInv' /\ writer'.discard = writer.discard /\ AnsweredNow
          /\ ~writer.discard => /\ client'.status # 0
                                /\ client'.by # client.by => client'.status = InternalServerError
          /\ writer.discard => client' = client
      BY <2>1, <3>1, WriteHeaderAgrees, ZenonT(60)
    <3>3. Unwinding'
      BY <1>0, <2>1, <2>2, <3>1, <3>2 DEF Unwinding, AnsweredNow, WriterInv
    <3>4. LogInv'
      BY <1>0, <2>1 DEF LogInv
    <3>. QED
      BY <1>0, <2>1, <3>2, <3>3, <3>4, Running
  <2>3. CASE ~(panicking = "value" /\ ~upgrade)
    <3>1. UNCHANGED <<writer, client, copied>>
          /\ panicking' = (IF panicking = "value" THEN "recovered" ELSE panicking)
      BY <1>6, <2>3 DEF RecovererEnds
    <3>2. WriterInv'
      BY <2>1, <3>1 DEF WriterInv
    <3>3. Unwinding' /\ LogInv'
      BY <1>0, <2>1, <2>3, <3>1 DEF Unwinding, LogInv
    <3>. QED
      BY <1>0, <2>1, <3>2, <3>3, Running
  <2>. QED
    BY <2>2, <2>3
<1>7. CASE LoggerEnds
  <2>1. WriterInv /\ WriterInv'
    BY <1>0, <1>7 DEF LoggerEnds, WriterInv
  <2>2. Unwinding' /\ LogInv'
    <3>1. Unwinding'
      BY <1>0, <1>7 DEF LoggerEnds, Unwinding
    <3>2. writer.status \in 0..999 /\ writer.bytes \in Nat
      BY <2>1, Fields
    <3>3. LogInv'
      BY <1>7, <3>2 DEF LoggerEnds, LogInv
    <3>. QED
      BY <3>1, <3>3
  <2>. QED
    BY <1>0, <1>7, <2>1, <2>2, Running DEF LoggerEnds
<1>8. CASE ServerEnds
  <2>1. /\ WriterInv /\ pc = "server" /\ pc' = "done"
        /\ UNCHANGED <<calls, upgrade, err, panicking, writer, copied, logged>>
    BY <1>0, <1>8 DEF ServerEnds
  <2>2. client' = IF panicking = "abort" \/ client.status # 0 THEN client
                  ELSE Answered(client, OK, "server")
    BY <1>8, <2>1 DEF ServerEnds, SendImplicitly, Send, Informational, OK, Answered
  <2>3. /\ client' \in Clients /\ ~client'.twice
        /\ client'.bytes = client.bytes /\ client'.dropped = client.dropped
        /\ IF panicking = "abort" \/ client.status # 0 THEN client' = client
           ELSE client'.status = OK /\ client'.by = "server"
    <3>1. client \in Clients /\ ~client.twice /\ OK \in 0..999 /\ "server" \in Answerers
      BY <2>1 DEF WriterInv, OK, Answerers
    <3>. QED
      BY <2>2, <3>1, ClientFields, ZenonT(60)
  <2>4. TypeOK' /\ OneFinalStatus' /\ BytesAddUp'
    BY <1>0, <2>1, <2>3
       DEF Inv, TypeOK, OneFinalStatus, BytesAddUp, WriterInv, Writers, Clients, Answerers
  <2>5. Unwinding' /\ LogInv'
    BY <1>0, <2>1, <2>3 DEF Unwinding, LogInv, WriterInv, OK
  <2>6. LogTellsTheStatus'
    BY <1>0, <2>1, <2>3 DEF LogTellsTheStatus, LogInv, WriterInv, OK
  <2>7. FailuresReachTheClient'
    <3>1. CASE panicking = "abort" \/ client.status # 0
      <4>1. client' = client /\ writer' = writer /\ err' = err /\ panicking' = panicking
            /\ upgrade' = upgrade
        BY <2>1, <2>3, <3>1
      <4>2. client.by \in Answerers \ {"server"} /\ (client.by = "nobody" <=> client.status = 0)
        BY <1>0, <2>1, Fields DEF Unwinding, WriterInv
      <4>3. CASE client.by = "nobody"
        <5>1. panicking = "abort" /\ client.status = 0 /\ (~writer.discard => err # "deadline")
          BY <1>0, <2>1, <3>1, <4>2, <4>3 DEF Unwinding
        <5>. QED
          BY <4>1, <5>1 DEF FailuresReachTheClient
      <4>4. CASE client.by = "timeout"
        BY <1>0, <4>1, <4>4 DEF FailuresReachTheClient, Unwinding
      <4>5. CASE client.by = "recoverer"
        BY <1>0, <4>1, <4>5 DEF FailuresReachTheClient, Unwinding
      <4>6. CASE client.by = "handler"
        BY <4>1, <4>6 DEF FailuresReachTheClient
      <4>. QED
        BY <4>2, <4>3, <4>4, <4>5, <4>6 DEF Answerers
    <3>2. CASE ~(panicking = "abort" \/ client.status # 0)
      <4>1. client'.status = OK /\ writer' = writer /\ err' = err /\ panicking' = panicking
            /\ upgrade' = upgrade
        BY <2>1, <2>3, <3>2
      <4>2. ~writer.discard => err # "deadline" /\ ~(panicking = "recovered" /\ ~upgrade)
        BY <1>0, <2>1, <3>2 DEF Unwinding
      <4>. QED
        BY <3>2, <4>1, <4>2 DEF FailuresReachTheClient
    <3>. QED
      BY <3>1, <3>2
  <2>. QED
    BY <2>1, <2>4, <2>5, <2>6, <2>7 DEF Inv
<1>. QED
  BY <1>1, <1>2, <1>3, <1>4, <1>5, <1>6, <1>7, <1>8 DEF Next, Unwind

-----------------------------------------------------------------------------
(* Types, and that a status is kept only with the header marked            *)
(* (wrap_writer_gp.go 22-47).                                              *)
THEOREM TypeCorrect == Spec => []TypeOK
<1>. QED
  BY InitInv, NextInv, PTL DEF Spec, Inv

(* The server is given one final status, whatever the handler calls and    *)
(* whoever answers after it (wrap_writer_gp.go 31-82, timeout_gp.go 15-21, *)
(* recoverer_gp.go 19-35).                                                 *)
THEOREM StatusIsFinal == Spec => []OneFinalStatus
<1>. QED
  BY InitInv, NextInv, PTL DEF Spec, Inv

(* The log's status is the client's (logger_gp.go 50-52).                  *)
THEOREM LogIsTrue == Spec => []LogTellsTheStatus
<1>. QED
  BY InitInv, NextInv, PTL DEF Spec, Inv

(* The log's bytes are what the client took and what was discarded, and a  *)
(* tee misses none (wrap_writer_gp.go 49-71, 110-120).                     *)
THEOREM NoByteIsLost == Spec => []BytesAddUp
<1>. QED
  BY InitInv, NextInv, PTL DEF Spec, Inv

(* A deadline or a panic is answered unless the handler answered           *)
(* (timeout_gp.go 15-21, recoverer_gp.go 19-35).                           *)
THEOREM FailuresAreAnswered == Spec => []FailuresReachTheClient
<1>. QED
  BY InitInv, NextInv, PTL DEF Spec, Inv
=============================================================================

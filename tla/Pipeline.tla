------------------------------ MODULE Pipeline ------------------------------
(***************************************************************************)
(* One response on its way through RequestLogger, Recoverer and Timeout,   *)
(* in this order from the outside in, so that the log sees the answers of  *)
(* the other two.  The handler writes to the logger's WrapResponseWriter,  *)
(* which writes to the server's; when the handler ends, with or without a  *)
(* panic, the deferred functions run from the inside out.                  *)
(*                                                                         *)
(* A body is a number of bytes.  The server is net/http's.                 *)
(***************************************************************************)
EXTENDS Naturals

CONSTANTS
    Statuses,       \* statuses the handler passes to WriteHeader
    MaxCalls        \* bound: calls of the handler on its writer

ASSUME PipelineAssumption == Statuses \subseteq 100..999 /\ MaxCalls \in Nat

VARIABLES
    pc,             \* whose code runs
    calls,          \* calls of the handler so far
    upgrade,        \* the request has the header "Connection: Upgrade"
    err,            \* ctx.Err() of the context made by Timeout
    panicking,      \* what is being panicked with
    writer,         \* the logger's responseWriter
    copied,         \* bytes in its tee, and its count when the tee was set
    client,         \* what the server was told to send
    logged          \* what the log entry was told

vars == <<pc, calls, upgrade, err, panicking, writer, copied, client, logged>>

OK == 200
SwitchingProtocols == 101
InternalServerError == 500
GatewayTimeout == 504

Informational(status) == status \in 100..199 /\ status # SwitchingProtocols

Init ==
    /\ pc = "handler"
    /\ calls = 0
    /\ upgrade \in BOOLEAN
    /\ err = "none"
    /\ panicking = "no"
    /\ writer = [status |-> 0, wroteHeader |-> FALSE, bytes |-> 0,
                 discard |-> FALSE, tee |-> FALSE]
    /\ copied = [bytes |-> 0, from |-> 0]
    /\ client = [status |-> 0, by |-> "nobody", bytes |-> 0, dropped |-> 0, twice |-> FALSE]
    /\ logged = [written |-> FALSE, status |-> 0, bytes |-> 0]

-----------------------------------------------------------------------------
(* net/http: a second final status is superfluous, and the first byte or   *)
(* flush sends a 200 if no status came before.                             *)
Send(c, status) ==
    CASE Informational(status) -> c
      [] ~Informational(status) /\ c.status = 0 -> [c EXCEPT !.status = status, !.by = pc]
      [] OTHER -> [c EXCEPT !.twice = TRUE]

SendImplicitly(c) == IF c.status = 0 THEN Send(c, OK) ELSE c

-----------------------------------------------------------------------------
(* responseWriter.  An operator gives the writer or the client after the   *)
(* call, for the writer w and the client c before it.                      *)

(* Mutant of Recorded: the status is kept before the header is looked at.  *)
RecordedFirst(w, status) ==
    CASE Informational(status) -> w
      [] OTHER -> [w EXCEPT !.status = status, !.wroteHeader = TRUE]

Recorded(w, status) ==
    IF Informational(status) \/ w.wroteHeader THEN w
    ELSE [w EXCEPT !.status = status, !.wroteHeader = TRUE]

Forwarded(w, c, status) ==
    IF w.discard \/ (w.wroteHeader /\ ~Informational(status)) THEN c ELSE Send(c, status)

WriteHeader(status) ==
    /\ writer' = Recorded(writer, status)
    /\ client' = Forwarded(writer, client, status)
    /\ UNCHANGED copied

(* A body of one byte, of which the destination takes taken bytes: a       *)
(* client that is gone takes none.                                         *)
Write(taken) ==
    LET w == Recorded(writer, OK)
        c == Forwarded(writer, client, OK)
    IN  /\ writer' = [w EXCEPT !.bytes = @ + taken]
        /\ client' = IF w.discard THEN [c EXCEPT !.dropped = @ + taken]
                     ELSE [SendImplicitly(c) EXCEPT !.bytes = @ + taken]
        /\ copied' = IF w.tee THEN [copied EXCEPT !.bytes = @ + taken] ELSE copied

(* Mutant of ReadFrom: the tee is passed by.                               *)
ReadFromDirectly(taken) ==
    LET c == Forwarded(writer, client, OK)
    IN  IF writer.discard THEN Write(taken)
        ELSE /\ writer' = [Recorded(writer, OK) EXCEPT !.bytes = @ + taken]
             /\ client' = [SendImplicitly(c) EXCEPT !.bytes = @ + taken]
             /\ UNCHANGED copied

(* io.Copy through Write with a tee or when discarding; else the server    *)
(* reads from the source itself.                                           *)
ReadFrom(taken) ==
    LET c == Forwarded(writer, client, OK)
    IN  IF writer.tee \/ writer.discard THEN Write(taken)
        ELSE /\ writer' = [Recorded(writer, OK) EXCEPT !.bytes = @ + taken]
             /\ client' = [SendImplicitly(c) EXCEPT !.bytes = @ + taken]
             /\ UNCHANGED copied

(* Mutant of Flush: the header is not marked as written.                   *)
FlushUnmarked ==
    /\ client' = SendImplicitly(client)
    /\ UNCHANGED <<writer, copied>>

Flush ==
    /\ writer' = [writer EXCEPT !.wroteHeader = TRUE]
    /\ client' = SendImplicitly(client)
    /\ UNCHANGED copied

Tee ==
    /\ writer' = [writer EXCEPT !.tee = TRUE]
    /\ copied' = [bytes |-> 0, from |-> writer.bytes]
    /\ UNCHANGED client

Discard ==
    /\ writer' = [writer EXCEPT !.discard = TRUE]
    /\ UNCHANGED <<client, copied>>

-----------------------------------------------------------------------------
(* The handler, and what happens around it.                                *)
Call ==
    /\ pc = "handler"
    /\ calls < MaxCalls
    /\ calls' = calls + 1
    /\ \/ \E status \in Statuses : WriteHeader(status)
       \/ \E taken \in 0..1 : Write(taken)
       \/ \E taken \in 0..1 : ReadFrom(taken)
       \/ Flush
       \/ Tee
       \/ Discard
    /\ UNCHANGED <<pc, upgrade, err, panicking, logged>>

(* The handler returns, or panics with a value or http.ErrAbortHandler.    *)
End(how) ==
    /\ pc = "handler"
    /\ pc' = "timeout"
    /\ panicking' = how
    /\ UNCHANGED <<calls, upgrade, err, writer, copied, client, logged>>

(* The deadline passes, or the client goes away: the first one decides.    *)
ContextEnds(why) ==
    /\ pc = "handler"
    /\ err = "none"
    /\ err' = why
    /\ UNCHANGED <<pc, calls, upgrade, panicking, writer, copied, client, logged>>

-----------------------------------------------------------------------------
(* The deferred functions.                                                 *)

(* Mutant of TimeoutEnds: nothing is deferred.                             *)
TimeoutEndsOnReturn ==
    /\ pc = "timeout"
    /\ pc' = "recoverer"
    /\ err' = IF err = "none" THEN "canceled" ELSE err
    /\ IF err = "deadline" /\ panicking = "no" THEN WriteHeader(GatewayTimeout)
       ELSE UNCHANGED <<writer, client, copied>>
    /\ UNCHANGED <<calls, upgrade, panicking, logged>>

(* Timeout: cancel, which decides err if nothing did, and 504.             *)
TimeoutEnds ==
    /\ pc = "timeout"
    /\ pc' = "recoverer"
    /\ err' = IF err = "none" THEN "canceled" ELSE err
    /\ IF err = "deadline" THEN WriteHeader(GatewayTimeout)
       ELSE UNCHANGED <<writer, client, copied>>
    /\ UNCHANGED <<calls, upgrade, panicking, logged>>

(* Recoverer: http.ErrAbortHandler goes on, another panic ends here and is *)
(* reported to the log entry.                                              *)
RecovererEnds ==
    /\ pc = "recoverer"
    /\ pc' = "logger"
    /\ IF panicking = "value"
       THEN /\ panicking' = "recovered"
            /\ IF upgrade THEN UNCHANGED <<writer, client, copied>>
               ELSE WriteHeader(InternalServerError)
       ELSE UNCHANGED <<panicking, writer, client, copied>>
    /\ UNCHANGED <<calls, upgrade, err, logged>>

(* Mutant of LoggerEnds: nothing is deferred.                              *)
LoggerEndsOnReturn ==
    /\ pc = "logger"
    /\ panicking # "abort"
    /\ pc' = "server"
    /\ logged' = [written |-> TRUE, status |-> writer.status, bytes |-> writer.bytes]
    /\ UNCHANGED <<calls, upgrade, err, panicking, writer, copied, client>>

(* RequestLogger writes its entry.                                         *)
LoggerEnds ==
    /\ pc = "logger"
    /\ pc' = "server"
    /\ logged' = [written |-> TRUE, status |-> writer.status, bytes |-> writer.bytes]
    /\ UNCHANGED <<calls, upgrade, err, panicking, writer, copied, client>>

(* net/http: a panic aborts the response, an empty one is a 200.           *)
ServerEnds ==
    /\ pc = "server"
    /\ pc' = "done"
    /\ client' = IF panicking = "abort" THEN client ELSE SendImplicitly(client)
    /\ UNCHANGED <<calls, upgrade, err, panicking, writer, copied, logged>>

Unwind == TimeoutEnds \/ RecovererEnds \/ LoggerEnds \/ ServerEnds

Next ==
    \/ Call
    \/ \E how \in {"no", "value", "abort"} : End(how)
    \/ \E why \in {"deadline", "canceled"} : ContextEnds(why)
    \/ Unwind

Spec == Init /\ [][Next]_vars

(* The goroutine goes on once the handler has ended.                       *)
FairSpec == Spec /\ WF_vars(Unwind)

-----------------------------------------------------------------------------
(* Types; a status is only kept with the header marked as written.         *)
TypeOK ==
    /\ pc \in {"handler", "timeout", "recoverer", "logger", "server", "done"}
    /\ calls \in Nat
    /\ upgrade \in BOOLEAN
    /\ err \in {"none", "deadline", "canceled"}
    /\ panicking \in {"no", "value", "abort", "recovered"}
    /\ writer \in [status : 0..999, wroteHeader : BOOLEAN, bytes : Nat,
                   discard : BOOLEAN, tee : BOOLEAN]
    /\ writer.status # 0 => writer.wroteHeader
    /\ copied \in [bytes : Nat, from : Nat]
    /\ client \in [status : 0..999, by : {"nobody", "handler", "timeout", "recoverer", "server"},
                   bytes : Nat, dropped : Nat, twice : BOOLEAN]
    /\ logged \in [written : BOOLEAN, status : 0..999, bytes : Nat]

(* Whatever the handler writes and flushes, and whoever answers for it     *)
(* after a panic or a deadline, the server gets one final status.          *)
OneFinalStatus == ~client.twice

(* The status in the log is the one the client got; no status in the log   *)
(* means that the client got the server's own 200, or that the response    *)
(* was aborted.  A response that the handler told to discard apart.        *)
LogTellsTheStatus ==
    pc = "done" /\ ~writer.discard =>
        client.status = CASE logged.status # 0    -> logged.status
                          [] client.by = "nobody" -> 0
                          [] OTHER                -> OK

(* The bytes in the log are those that the client took and those that were *)
(* discarded, and a tee holds all that came after it was set.              *)
BytesAddUp ==
    /\ writer.bytes = client.bytes + client.dropped
    /\ logged.written => logged.bytes = writer.bytes
    /\ writer.tee => copied.from + copied.bytes = writer.bytes

(* Unless the handler answered, the client learns how it ended: 504 if its *)
(* deadline passed first, also when it panicked, 500 for a panic that is   *)
(* no abort and no upgraded connection, and else an empty 200.             *)
FailuresReachTheClient ==
    pc = "done" /\ ~writer.discard /\ client.by # "handler" =>
        client.status = CASE err = "deadline" -> GatewayTimeout
                          [] err # "deadline" /\ panicking = "recovered" /\ ~upgrade ->
                               InternalServerError
                          [] err # "deadline" /\ panicking = "abort" -> 0
                          [] OTHER -> OK

(* Once the handler ended, the entry is written, also when the panic goes  *)
(* on to the server.                                                       *)
EveryResponseIsLogged == pc # "handler" ~> logged.written
=============================================================================

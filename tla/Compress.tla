------------------------------ MODULE Compress ------------------------------
(***************************************************************************)
(* One Compressor: SetEncoder while it is set up, then requests served     *)
(* concurrently, each by a compressionResponseWriter over the server's.    *)
(* An encoding is made by an EncoderFunc; if what it makes can be Reset,   *)
(* the encoders are kept in a pool between requests.                       *)
(*                                                                         *)
(* An encoder is an identity, a body is a number of bytes.  An EncoderFunc *)
(* is the number of the SetEncoder call it was given to; it never returns  *)
(* nil, and its encoders can be flushed and closed.  A header is its       *)
(* Content-Encoding and whether its Content-Type is one to compress.  The  *)
(* server is net/http's.                                                   *)
(***************************************************************************)
EXTENDS Naturals, SequencesExt

CONSTANTS
    Requests,
    Names,          \* names of encodings
    Encoders,       \* what EncoderFuncs return
    Nobody,         \* no request
    Identity,       \* no encoder: the body goes to the server as it is
    MaxSets,        \* bound: SetEncoder calls after the constructor's
    MaxCalls        \* bound: calls of the handlers on their writers

ASSUME CompressAssumption ==
    /\ Nobody \notin Requests /\ Identity \notin Encoders
    /\ Names \cap {"nothing", "none", "own"} = {}
    /\ MaxSets \in Nat /\ MaxCalls \in Nat

VARIABLES
    compressor,     \* encodingPrecedence, pools and encoders: the EncoderFunc or 0
    sets,           \* how many SetEncoder calls there were, and the last of a name
    idle,           \* encoders in the pools
    encoder,        \* of an encoder, who made it, whom it writes to, the bytes it holds
    calls,          \* calls of the handlers so far
    pc,             \* whose code runs for a request
    accepted,       \* encodings its Accept-Encoding contains
    header,         \* its response header
    writer,         \* its compressionResponseWriter
    client          \* what its client was sent

vars == <<compressor, sets, idle, encoder, calls, pc, accepted, header, writer, client>>

NotMade == [func |-> 0, destination |-> Nobody, held |-> 0]

Held == {writer[r].output : r \in {q \in Requests : pc[q] \notin {"new", "done"}}}

(* A handler sets its header first, and maybe encodes its body itself.     *)
Headers == {[encoding |-> "none", compressible |-> TRUE],
            [encoding |-> "none", compressible |-> FALSE],
            [encoding |-> "own", compressible |-> TRUE]}

Init ==
    /\ \E name \in Names :
          /\ compressor = [precedence |-> <<name>>,
                           pools |-> [n \in Names |-> IF n = name THEN 1 ELSE 0],
                           encoders |-> [n \in Names |-> 0]]
          /\ sets = [count |-> 1, last |-> [n \in Names |-> IF n = name THEN 1 ELSE 0]]
    /\ idle = {}
    /\ encoder = [e \in Encoders |-> NotMade]
    /\ calls = 0
    /\ pc = [r \in Requests |-> "new"]
    /\ accepted \in [Requests -> SUBSET Names]
    /\ header \in [Requests -> Headers]
    /\ writer = [r \in Requests |-> [output |-> Identity, encoding |-> "none",
                                     wroteHeader |-> FALSE, compressible |-> FALSE,
                                     written |-> 0]]
    /\ client = [r \in Requests |->
                    [sent |-> "nothing", by |-> Nobody, plain |-> 0, encoded |-> 0,
                     ended |-> FALSE, func |-> 0, foreign |-> FALSE]]

-----------------------------------------------------------------------------
(* The server: the header is sent once, as it is then, and before a body.  *)
Sent(c, encoding, by) ==
    IF c.sent = "nothing" THEN [c EXCEPT !.sent = encoding, !.by = by] ELSE c

(* What encoder e holds goes to its destination, in a call by request r.   *)
Emit(e, r, count, ends) ==
    LET d == encoder[e].destination
        c == Sent(client[d], header[d].encoding, "body")
    IN  client' = [client EXCEPT ![d] =
            [c EXCEPT !.encoded = @ + count,
                      !.ended = ends,
                      !.func = encoder[e].func,
                      !.foreign = @ \/ d # r]]

-----------------------------------------------------------------------------
(* Setting up.                                                             *)

(* Mutant of WithoutEncoder: the EncoderFunc stays.                        *)
WithoutPool(c, name) == [c EXCEPT !.pools[name] = 0]

WithoutEncoder(c, name) == [c EXCEPT !.encoders[name] = 0, !.pools[name] = 0]

Without(precedence, name) ==
    LET at == {k \in DOMAIN precedence : precedence[k] = name}
    IN  IF at = {} THEN precedence ELSE RemoveAt(precedence, CHOOSE k \in at : TRUE)

(* Mutant of ToTheFront: the name goes to the end.                         *)
ToTheEnd(precedence, name) == Append(Without(precedence, name), name)

ToTheFront(precedence, name) == <<name>> \o Without(precedence, name)

SetEncoder(name, resettable) ==
    LET func == sets.count + 1
        c == WithoutEncoder(compressor, name)
        pools == IF resettable THEN [c.pools EXCEPT ![name] = func] ELSE c.pools
        encoders == IF pools[name] = 0 THEN [c.encoders EXCEPT ![name] = func] ELSE c.encoders
    IN  /\ \A r \in Requests : pc[r] = "new"
        /\ sets.count <= MaxSets
        /\ compressor' = [precedence |-> ToTheFront(c.precedence, name),
                          pools |-> pools, encoders |-> encoders]
        /\ sets' = [count |-> func, last |-> [sets.last EXCEPT ![name] = func]]
        /\ UNCHANGED <<idle, encoder, pc, calls, accepted, header, writer, client>>

-----------------------------------------------------------------------------
(* A request.                                                              *)

(* Whether the k-th encoding of the precedence is accepted and has an      *)
(* encoder; the first such is chosen.                                      *)
Usable(r, k) ==
    LET name == compressor.precedence[k]
    IN  /\ name \in accepted[r]
        /\ compressor.pools[name] # 0 \/ compressor.encoders[name] # 0

Chosen(r, k) == Usable(r, k) /\ \A j \in 1..(k - 1) : ~Usable(r, j)

(* A pool gives an encoder that was put back or, like an EncoderFunc, a    *)
(* new one.                                                                *)
Obtain(r, name) ==
    LET pool == compressor.pools[name]
        new  == Encoders \ (Held \cup idle)
    IN  \E e \in new \cup {i \in idle : pool # 0 /\ encoder[i].func = pool} :
          /\ idle' = idle \ {e}
          /\ encoder' = [encoder EXCEPT ![e] =
                [func |-> IF pool # 0 THEN pool ELSE compressor.encoders[name],
                 destination |-> r, held |-> 0]]
          /\ writer' = [writer EXCEPT ![r].output = e, ![r].encoding = name]

Start(r) ==
    /\ pc[r] = "new"
    /\ pc' = [pc EXCEPT ![r] = "handler"]
    /\ \/ /\ \A k \in DOMAIN compressor.precedence : ~Usable(r, k)
          /\ UNCHANGED <<idle, encoder, writer>>
       \/ \E k \in DOMAIN compressor.precedence :
             Chosen(r, k) /\ Obtain(r, compressor.precedence[k])
    /\ UNCHANGED <<compressor, sets, calls, accepted, header, client>>

(* The first WriteHeader decides whether the body is encoded.  A status is *)
(* final, or informational: that leaves the header to be sent again.       *)
Decides(r) == ~writer[r].wroteHeader /\ header[r].encoding = "none"
              /\ writer[r].encoding # "none" /\ header[r].compressible

(* Mutant of HeaderFor: announced whatever the type is.                    *)
HeaderForAnyType(r) ==
    IF ~writer[r].wroteHeader /\ header[r].encoding = "none" /\ writer[r].encoding # "none"
    THEN [header[r] EXCEPT !.encoding = writer[r].encoding]
    ELSE header[r]

HeaderFor(r) ==
    IF Decides(r) THEN [header[r] EXCEPT !.encoding = writer[r].encoding] ELSE header[r]

WriterFor(r) ==
    [writer[r] EXCEPT !.wroteHeader = TRUE, !.compressible = @ \/ Decides(r)]

WriteHeader(r, final) ==
    /\ header' = [header EXCEPT ![r] = HeaderFor(r)]
    /\ writer' = [writer EXCEPT ![r] = WriterFor(r)]
    /\ client' = IF final
                 THEN [client EXCEPT ![r] = Sent(@, HeaderFor(r).encoding, "header")]
                 ELSE client
    /\ UNCHANGED encoder

(* A body of one byte.  The encoder holds it until it is flushed or closed.*)
Write(r) ==
    LET w == IF writer[r].wroteHeader THEN writer[r] ELSE WriterFor(r)
        h == IF writer[r].wroteHeader THEN header[r] ELSE HeaderFor(r)
        c == IF writer[r].wroteHeader THEN client[r] ELSE Sent(client[r], h.encoding, "header")
    IN  /\ header' = [header EXCEPT ![r] = h]
        /\ writer' = [writer EXCEPT ![r] = [w EXCEPT !.written = @ + 1]]
        /\ IF w.compressible
           THEN /\ encoder' = [encoder EXCEPT ![w.output].held = @ + 1]
                /\ client' = [client EXCEPT ![r] = c]
           ELSE /\ client' = [client EXCEPT ![r] = [Sent(c, h.encoding, "body")
                                                      EXCEPT !.plain = @ + 1]]
                /\ UNCHANGED encoder

Flush(r) ==
    /\ UNCHANGED <<header, writer>>
    /\ IF writer[r].compressible
       THEN LET e == writer[r].output
            IN  /\ Emit(e, r, encoder[e].held, FALSE)
                /\ encoder' = [encoder EXCEPT ![e].held = 0]
       ELSE /\ client' = [client EXCEPT ![r] = Sent(@, header[r].encoding, "flush")]
            /\ UNCHANGED encoder

Call(r) ==
    /\ pc[r] = "handler"
    /\ calls < MaxCalls
    /\ calls' = calls + 1
    /\ \/ \E final \in BOOLEAN : WriteHeader(r, final)
       \/ Write(r)
       \/ Flush(r)
    /\ UNCHANGED <<compressor, sets, idle, pc, accepted>>

-----------------------------------------------------------------------------
(* The deferred functions, the last deferred first: Close, then cleanup.   *)

(* Mutant of Deferred: cleanup first.                                      *)
DeferredInOrder == [handler |-> "cleanup", cleanup |-> "close", close |-> "done"]

Deferred == [handler |-> "close", close |-> "cleanup", cleanup |-> "done"]

(* The handler returns or panics.                                          *)
End(r) ==
    /\ pc[r] = "handler"
    /\ pc' = [pc EXCEPT ![r] = Deferred[@]]
    /\ UNCHANGED <<compressor, sets, idle, encoder, calls, accepted, header, writer, client>>

(* Mutant of Close: only what is held is sent.                             *)
CloseIfHeld(r) ==
    /\ pc[r] = "close"
    /\ pc' = [pc EXCEPT ![r] = Deferred[@]]
    /\ IF writer[r].compressible /\ encoder[writer[r].output].held > 0
       THEN LET e == writer[r].output
            IN  /\ Emit(e, r, encoder[e].held, TRUE)
                /\ encoder' = [encoder EXCEPT ![e].held = 0]
       ELSE UNCHANGED <<encoder, client>>
    /\ UNCHANGED <<compressor, sets, idle, calls, accepted, header, writer>>

Close(r) ==
    /\ pc[r] = "close"
    /\ pc' = [pc EXCEPT ![r] = Deferred[@]]
    /\ IF writer[r].compressible
       THEN LET e == writer[r].output
            IN  /\ Emit(e, r, encoder[e].held, TRUE)
                /\ encoder' = [encoder EXCEPT ![e].held = 0]
       ELSE UNCHANGED <<encoder, client>>
    /\ UNCHANGED <<compressor, sets, idle, calls, accepted, header, writer>>

Cleanup(r) ==
    /\ pc[r] = "cleanup"
    /\ pc' = [pc EXCEPT ![r] = Deferred[@]]
    /\ idle' = IF writer[r].output # Identity /\ compressor.pools[writer[r].encoding] # 0
               THEN idle \cup {writer[r].output} ELSE idle
    /\ UNCHANGED <<compressor, sets, encoder, calls, accepted, header, writer, client>>

Next ==
    \/ \E name \in Names, resettable \in BOOLEAN : SetEncoder(name, resettable)
    \/ \E r \in Requests : Start(r) \/ Call(r) \/ End(r) \/ Close(r) \/ Cleanup(r)

Spec == Init /\ [][Next]_vars

-----------------------------------------------------------------------------
(* Types; an encoding has a pool or an EncoderFunc, never both.            *)
TypeOK ==
    /\ compressor \in [precedence : Seq(Names), pools : [Names -> Nat],
                       encoders : [Names -> Nat]]
    /\ \A n \in Names : compressor.pools[n] = 0 \/ compressor.encoders[n] = 0
    /\ sets \in [count : Nat, last : [Names -> Nat]]
    /\ idle \subseteq Encoders
    /\ encoder \in [Encoders -> [func : Nat, destination : Requests \cup {Nobody}, held : Nat]]
    /\ calls \in Nat
    /\ pc \in [Requests -> {"new", "handler", "close", "cleanup", "done"}]
    /\ accepted \in [Requests -> SUBSET Names]
    /\ header \in [Requests -> [encoding : Names \cup {"none", "own"}, compressible : BOOLEAN]]
    /\ writer \in [Requests -> [output : Encoders \cup {Identity},
                                encoding : Names \cup {"none"}, wroteHeader : BOOLEAN,
                                compressible : BOOLEAN, written : Nat]]
    /\ client \in [Requests -> [sent : Names \cup {"nothing", "none", "own"},
                                by : {Nobody, "header", "body", "flush"},
                                plain : Nat, encoded : Nat, ended : BOOLEAN,
                                func : Nat, foreign : BOOLEAN]]

(* No client gets what another request's encoder held, or its end, and     *)
(* no encoder is taken, or put into the pool, while a request uses it.     *)
StreamsStayApart ==
    /\ \A r \in Requests : ~client[r].foreign
    /\ \A r \in Requests : pc[r] \in {"handler", "close"} /\ writer[r].output # Identity =>
          /\ writer[r].output \notin idle
          /\ encoder[writer[r].output].destination = r

(* A client decodes what the handler wrote: all of it is encoded and the   *)
(* encoding ended, or none of it is.                                       *)
DecodesToTheBody ==
    \A r \in Requests : pc[r] = "done" =>
        IF writer[r].compressible
        THEN client[r].encoded = writer[r].written /\ client[r].ended /\ client[r].plain = 0
        ELSE client[r].plain = writer[r].written /\ client[r].encoded = 0 /\ ~client[r].ended

(* The header tells whether the body is encoded, unless a flush sent it    *)
(* before that was decided.                                                *)
OnlyAnEarlyFlushMisleads ==
    \A r \in Requests : pc[r] = "done" /\ client[r].sent # "nothing"
                        /\ client[r].by # "flush" =>
        (client[r].sent \in Names <=> client[r].ended)

(* What is announced is, of the accepted encodings, the one set last, and  *)
(* the encoder is made by the function it was set with last.               *)
LastSetEncoderEncodes ==
    \A r \in Requests : client[r].sent \in Names =>
        /\ client[r].sent \in accepted[r]
        /\ \A n \in accepted[r] : sets.last[n] <= sets.last[client[r].sent]
        /\ client[r].func # 0 => client[r].func = sets.last[client[r].sent]
=============================================================================

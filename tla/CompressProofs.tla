--------------------------- MODULE CompressProofs ---------------------------
(***************************************************************************)
(* What clients are sent, for any requests, encodings, encoders and number *)
(* of calls.                                                               *)
(***************************************************************************)
EXTENDS Compress, SequenceTheorems, TLAPS

Active == {"handler", "close", "cleanup"}

Uses == [func : Nat, destination : Requests \cup {Nobody}, held : Nat]

HeaderStates == [encoding : Names \cup {"none", "own"}, compressible : BOOLEAN]

Writers == [output : Encoders \cup {Identity}, encoding : Names \cup {"none"},
            wroteHeader : BOOLEAN, compressible : BOOLEAN, written : Nat]

Clients == [sent : Names \cup {"nothing", "none", "own"},
            by : {Nobody, "header", "body", "flush"},
            plain : Nat, encoded : Nat, ended : BOOLEAN, func : Nat, foreign : BOOLEAN]

(* A request and its encoder, from the moment it is obtained until it is   *)
(* given back.                                                             *)
InUse(r) ==
    /\ ~client[r].foreign
    /\ writer[r].encoding = "none" <=> writer[r].output = Identity
    /\ writer[r].compressible => writer[r].output # Identity
    /\ pc[r] = "new" => writer[r].output = Identity
    /\ pc[r] \in Active /\ writer[r].output # Identity =>
          /\ writer[r].output \notin idle
          /\ encoder[writer[r].output].destination = r

(* Where the bytes are that the handler wrote.                             *)
Accounts(r) ==
    /\ ~writer[r].wroteHeader => ~writer[r].compressible /\ writer[r].written = 0
    /\ ~writer[r].compressible =>
          /\ client[r].plain = writer[r].written
          /\ client[r].encoded = 0 /\ ~client[r].ended
          /\ pc[r] = "handler" /\ writer[r].output # Identity =>
                encoder[writer[r].output].held = 0
    /\ writer[r].compressible =>
          /\ client[r].plain = 0
          /\ pc[r] \in {"handler", "close"} =>
                client[r].encoded + encoder[writer[r].output].held = writer[r].written
          /\ pc[r] \in {"cleanup", "done"} =>
                client[r].encoded = writer[r].written /\ client[r].ended
          /\ pc[r] # "new"

(* What the header says, and what the client was told.                     *)
Announces(r) ==
    /\ writer[r].compressible => header[r].encoding = writer[r].encoding
    /\ ~writer[r].compressible => header[r].encoding \in {"none", "own"}
    /\ client[r].sent # "nothing" /\ client[r].by # "flush" =>
          writer[r].wroteHeader /\ client[r].sent = header[r].encoding

Inv == TypeOK /\ \A r \in Requests : InUse(r) /\ Accounts(r) /\ Announces(r)

-----------------------------------------------------------------------------
(* Two requests never use one encoder.                                     *)
LEMMA EncodersApart ==
    ASSUME Inv, NEW r \in Requests, NEW q \in Requests, q # r,
           pc[r] \in Active, pc[q] \in Active, writer[r].output # Identity
    PROVE  writer[q].output # writer[r].output
BY DEF Inv, InUse

(* A header goes out once, and changes nothing else.                       *)
LEMMA SentOnce ==
    ASSUME NEW c \in Clients, NEW encoding \in Names \cup {"none", "own"},
           NEW by \in {"header", "body", "flush"}
    PROVE  LET d == Sent(c, encoding, by)
           IN  /\ d \in Clients
               /\ d.plain = c.plain /\ d.encoded = c.encoded
               /\ d.ended = c.ended /\ d.func = c.func /\ d.foreign = c.foreign
               /\ IF c.sent = "nothing" THEN d.sent = encoding /\ d.by = by
                  ELSE d.sent = c.sent /\ d.by = c.by
<1>1. CASE c.sent = "nothing"
  BY <1>1 DEF Sent, Clients
<1>2. CASE c.sent # "nothing"
  BY <1>2 DEF Sent, Clients
<1> QED
  BY <1>1, <1>2

(* A request's encoder writes to its own client.                           *)
LEMMA EmitsToItsClient ==
    ASSUME Inv, NEW r \in Requests, pc[r] \in Active, writer[r].compressible,
           NEW count \in Nat, NEW ends \in BOOLEAN,
           Emit(writer[r].output, r, count, ends)
    PROVE  /\ client' \in [Requests -> Clients]
           /\ \A q \in Requests : q # r => client'[q] = client[q]
           /\ client'[r].plain = client[r].plain
           /\ client'[r].encoded = client[r].encoded + count
           /\ client'[r].ended = ends
           /\ ~client'[r].foreign
           /\ client'[r].func = encoder[writer[r].output].func
           /\ client'[r].sent \in {client[r].sent, header[r].encoding}
           /\ Announces(r) => \/ client'[r].sent = header[r].encoding
                              \/ client'[r].by = "flush"
<1> DEFINE e == writer[r].output
           s == Sent(client[r], header[r].encoding, "body")
           c == [s EXCEPT !.encoded = @ + count, !.ended = ends,
                          !.func = encoder[e].func, !.foreign = @ \/ r # r]
<1>1. encoder[e].destination = r /\ ~client[r].foreign
  BY DEF Inv, InUse
<1>2. client' = [client EXCEPT ![r] = c]
  BY <1>1 DEF Emit
<1>3. client \in [Requests -> Clients]
  BY DEF Inv, TypeOK, Clients
<1>4. encoder[e].func \in Nat /\ header[r].encoding \in Names \cup {"none", "own"}
  BY DEF Inv, TypeOK, InUse
<1>5. /\ s \in Clients
      /\ s.plain = client[r].plain /\ s.encoded = client[r].encoded
      /\ s.foreign = client[r].foreign
      /\ IF client[r].sent = "nothing" THEN s.sent = header[r].encoding /\ s.by = "body"
         ELSE s.sent = client[r].sent /\ s.by = client[r].by
  BY <1>3, <1>4, SentOnce
<1>0. e = writer[r].output
  OBVIOUS
<1> HIDE DEF s, e
<1>6. /\ c \in Clients /\ c.func = encoder[e].func
      /\ c.plain = s.plain /\ c.encoded = s.encoded + count /\ c.ended = ends
      /\ c.foreign = s.foreign /\ c.sent = s.sent /\ c.by = s.by
  <2>1. s.foreign \in BOOLEAN /\ (s.foreign \/ r # r) = s.foreign
    BY <1>5 DEF Clients
  <2>2. c = [s EXCEPT !.encoded = s.encoded + count, !.ended = ends,
                      !.func = encoder[e].func, !.foreign = s.foreign]
    BY <2>1
  <2>3. encoder[e].func \in Nat
    BY <1>4
  <2> HIDE DEF c
  <2>4. DOMAIN s = {"sent", "by", "plain", "encoded", "ended", "func", "foreign"}
    BY <1>5 DEF Clients
  <2>5. /\ c.plain = s.plain /\ c.encoded = s.encoded + count /\ c.ended = ends
        /\ c.foreign = s.foreign /\ c.sent = s.sent /\ c.by = s.by
        /\ c.func = encoder[e].func
    BY <2>2, <2>4
  <2>6. c \in Clients
    <3> DEFINE f == encoder[e].func
               n == s.encoded + count
    <3>1. f \in Nat /\ n \in Nat /\ s \in Clients
      BY <1>5, <2>3 DEF Clients
    <3> HIDE DEF f, n
    <3>2. c = [s EXCEPT !.encoded = n, !.ended = ends, !.func = f, !.foreign = s.foreign]
      BY <2>2 DEF f, n
    <3> QED
      BY <2>1, <3>1, <3>2 DEF Clients
  <2> QED
    BY <2>5, <2>6
<1> HIDE DEF c
<1>7. client'[r] = c
  BY <1>2, <1>3
<1> QED
  BY <1>0, <1>1, <1>2, <1>3, <1>5, <1>6, <1>7 DEF Announces

LEMMA RequestTypes ==
    ASSUME TypeOK
    PROVE  /\ encoder \in [Encoders -> Uses] /\ header \in [Requests -> HeaderStates]
           /\ writer \in [Requests -> Writers] /\ client \in [Requests -> Clients]
           /\ calls \in Nat
BY DEF TypeOK, Uses, HeaderStates, Writers, Clients

LEMMA TypesKept ==
    ASSUME TypeOK, UNCHANGED <<compressor, sets, idle, accepted>>, calls' \in Nat,
           pc' \in [Requests -> {"new", "handler", "close", "cleanup", "done"}],
           encoder' \in [Encoders -> Uses], header' \in [Requests -> HeaderStates],
           writer' \in [Requests -> Writers], client' \in [Requests -> Clients]
    PROVE  TypeOK'
BY DEF TypeOK, Uses, HeaderStates, Writers, Clients

(* An encoder holds more or less than before; nothing else changes.        *)
LEMMA HoldsOnly ==
    ASSUME Inv, NEW e \in Encoders, NEW n \in Nat,
           encoder' = [encoder EXCEPT ![e].held = n]
    PROVE  /\ encoder' \in [Encoders -> Uses]
           /\ encoder'[e].destination = encoder[e].destination
           /\ encoder'[e].func = encoder[e].func /\ encoder'[e].held = n
           /\ \A x \in Encoders : x # e => encoder'[x] = encoder[x]
<1> DEFINE new == [encoder[e] EXCEPT !.held = n]
<1>1. encoder \in [Encoders -> Uses]
  BY DEF Inv, TypeOK, Uses
<1>2. /\ new \in Uses
      /\ new.destination = encoder[e].destination
      /\ new.func = encoder[e].func /\ new.held = n
  <2>1. encoder[e] \in Uses
    BY <1>1
  <2> QED
    BY <2>1 DEF Uses
<1>3. encoder' = [encoder EXCEPT ![e] = new]
  OBVIOUS
<1> HIDE DEF new
<1> QED
  BY <1>1, <1>2, <1>3

(* A step of one request that uses no encoder but its own leaves the       *)
(* others as they are.                                                     *)
LEMMA OthersUntouched ==
    ASSUME Inv, NEW r \in Requests, NEW q \in Requests, q # r, pc[r] \in Active,
           pc'[q] = pc[q], writer'[q] = writer[q], client'[q] = client[q],
           header'[q] = header[q], idle' = idle,
           \/ encoder' = encoder
           \/ /\ writer[r].output # Identity
              /\ \A e \in Encoders : e # writer[r].output => encoder'[e] = encoder[e]
    PROVE  (InUse(q) /\ Accounts(q) /\ Announces(q))'
<1>1. InUse(q) /\ Accounts(q) /\ Announces(q)
  BY DEF Inv
<1>2. pc[q] \in Active /\ writer[q].output # Identity =>
         encoder'[writer[q].output] = encoder[writer[q].output]
  BY EncodersApart DEF Inv, TypeOK
<1>3. InUse(q)'
  BY <1>1, <1>2 DEF InUse, Active
<1>4. Accounts(q)'
  BY <1>1, <1>2 DEF InUse, Accounts, Active
<1> QED
  BY <1>1, <1>3, <1>4 DEF Announces

(* The precedence stays a sequence of names.                               *)
LEMMA WithoutType ==
    ASSUME NEW precedence \in Seq(Names), NEW name \in Names
    PROVE  Without(precedence, name) \in Seq(Names)
<1> DEFINE at == {k \in DOMAIN precedence : precedence[k] = name}
           i == CHOOSE k \in at : TRUE
<1>1. CASE at = {}
  BY <1>1 DEF Without
<1>2. CASE at # {}
  <2>1. i \in 1..Len(precedence)
    BY <1>2
  <2> HIDE DEF i
  <2>2. SubSeq(precedence, 1, i - 1) \in Seq(Names)
    BY <2>1, SubSeqProperties
  <2>3. SubSeq(precedence, i + 1, Len(precedence)) \in Seq(Names)
    BY <2>1, SubSeqProperties
  <2>4. RemoveAt(precedence, i) \in Seq(Names)
    BY <2>2, <2>3 DEF RemoveAt
  <2> QED
    BY <1>2, <2>4 DEF Without, i
<1> QED
  BY <1>1, <1>2

-----------------------------------------------------------------------------
LEMMA InitInv == Init => Inv
<1> SUFFICES ASSUME Init PROVE Inv
  OBVIOUS
<1> USE CompressAssumption
<1>1. PICK name \in Names :
          /\ compressor = [precedence |-> <<name>>,
                           pools |-> [n \in Names |-> IF n = name THEN 1 ELSE 0],
                           encoders |-> [n \in Names |-> 0]]
          /\ sets = [count |-> 1, last |-> [n \in Names |-> IF n = name THEN 1 ELSE 0]]
  BY DEF Init
<1>2. TypeOK
  <2>1. /\ compressor \in [precedence : Seq(Names), pools : [Names -> Nat],
                           encoders : [Names -> Nat]]
        /\ sets \in [count : Nat, last : [Names -> Nat]]
        /\ \A n \in Names : compressor.pools[n] = 0 \/ compressor.encoders[n] = 0
    BY <1>1
  <2>2. header \in [Requests -> [encoding : Names \cup {"none", "own"}, compressible : BOOLEAN]]
    <3>1. Headers \subseteq [encoding : Names \cup {"none", "own"}, compressible : BOOLEAN]
      BY DEF Headers
    <3>2. header \in [Requests -> Headers]
      BY DEF Init
    <3> QED
      BY <3>1, <3>2
  <2> QED
    BY <2>1, <2>2 DEF Init, TypeOK, NotMade
<1>3. ASSUME NEW r \in Requests PROVE InUse(r) /\ Accounts(r) /\ Announces(r)
  BY DEF Init, Headers, InUse, Accounts, Announces
<1> QED
  BY <1>2, <1>3 DEF Inv

LEMMA SetEncoderInv ==
    ASSUME Inv, NEW name \in Names, NEW resettable \in BOOLEAN,
           SetEncoder(name, resettable)
    PROVE  Inv'
<1> DEFINE func == sets.count + 1
           c == WithoutEncoder(compressor, name)
           pools == IF resettable THEN [c.pools EXCEPT ![name] = func] ELSE c.pools
           encoders == IF pools[name] = 0 THEN [c.encoders EXCEPT ![name] = func] ELSE c.encoders
<1>1. /\ c.precedence = compressor.precedence
      /\ c.pools = [compressor.pools EXCEPT ![name] = 0]
      /\ c.encoders = [compressor.encoders EXCEPT ![name] = 0]
  BY DEF Inv, TypeOK, WithoutEncoder
<1>2. func \in Nat
  BY DEF Inv, TypeOK
<1>3. /\ pools \in [Names -> Nat] /\ encoders \in [Names -> Nat]
      /\ \A n \in Names : pools[n] = 0 \/ encoders[n] = 0
  <2> HIDE DEF c, func
  <2> QED
    BY <1>1, <1>2 DEF Inv, TypeOK
<1>4. ToTheFront(c.precedence, name) \in Seq(Names)
  <2>1. Without(c.precedence, name) \in Seq(Names)
    BY <1>1, WithoutType DEF Inv, TypeOK
  <2> QED
    BY <2>1 DEF ToTheFront
<1>5. TypeOK'
  <2>1. /\ compressor' = [precedence |-> ToTheFront(c.precedence, name),
                          pools |-> pools, encoders |-> encoders]
        /\ sets' = [count |-> func, last |-> [sets.last EXCEPT ![name] = func]]
        /\ UNCHANGED <<idle, encoder, pc, calls, accepted, header, writer, client>>
    BY DEF SetEncoder
  <2> HIDE DEF pools, encoders, func, c
  <2> QED
    BY <1>2, <1>3, <1>4, <2>1 DEF Inv, TypeOK
<1> QED
  BY <1>5 DEF Inv, SetEncoder, InUse, Accounts, Announces

LEMMA StartInv ==
    ASSUME Inv, NEW r \in Requests, Start(r)
    PROVE  Inv'
<1> USE CompressAssumption
<1>1. /\ pc[r] = "new"
      /\ pc' = [pc EXCEPT ![r] = "handler"]
      /\ UNCHANGED <<compressor, sets, calls, accepted, header, client>>
  BY DEF Start
<1>2. /\ writer[r].output = Identity /\ ~writer[r].compressible
      /\ writer[r].encoding = "none"
  BY <1>1 DEF Inv, InUse
<1>3. CASE UNCHANGED <<idle, encoder, writer>>
  <2>1. TypeOK'
    BY <1>1, <1>3 DEF Inv, TypeOK
  <2>2. ASSUME NEW q \in Requests PROVE (InUse(q) /\ Accounts(q) /\ Announces(q))'
    <3>1. pc'[q] = IF q = r THEN "handler" ELSE pc[q]
      BY <1>1 DEF Inv, TypeOK
    <3> QED
      BY <1>1, <1>2, <1>3, <3>1 DEF Inv, InUse, Accounts, Announces, Active
  <2> QED
    BY <2>1, <2>2 DEF Inv
<1>4. ASSUME NEW k \in DOMAIN compressor.precedence,
             Obtain(r, compressor.precedence[k])
      PROVE  Inv'
  <2> DEFINE name == compressor.precedence[k]
             func == IF compressor.pools[name] # 0 THEN compressor.pools[name]
                     ELSE compressor.encoders[name]
  <2>1. name \in Names
    BY DEF Inv, TypeOK
  <2>2. func \in Nat
    BY <2>1 DEF Inv, TypeOK
  <2>3. PICK e \in (Encoders \ (Held \cup idle)) \cup idle :
          /\ idle' = idle \ {e}
          /\ encoder' = [encoder EXCEPT ![e] =
                            [func |-> func, destination |-> r, held |-> 0]]
          /\ writer' = [writer EXCEPT ![r].output = e, ![r].encoding = name]
    BY <1>4 DEF Obtain
  <2>4. e \in Encoders
    BY <2>3 DEF Inv, TypeOK
  <2>5. ASSUME NEW q \in Requests, q # r, pc[q] \in Active PROVE writer[q].output # e
    <3>1. writer[q].output \in Held
      BY <2>5 DEF Held, Active
    <3> QED
      BY <2>3, <2>4, <2>5, <3>1 DEF Inv, InUse
  <2> HIDE DEF name, func
  <2>6. TypeOK'
    <3>1. encoder' \in [Encoders -> [func : Nat, destination : Requests \cup {Nobody},
                                     held : Nat]]
      BY <2>2, <2>3, <2>4 DEF Inv, TypeOK
    <3>2. writer' \in [Requests -> [output : Encoders \cup {Identity},
                                    encoding : Names \cup {"none"}, wroteHeader : BOOLEAN,
                                    compressible : BOOLEAN, written : Nat]]
      <4> DEFINE w == [writer[r] EXCEPT !.output = e, !.encoding = name]
      <4>1. writer' = [writer EXCEPT ![r] = w]
        BY <2>3 DEF Inv, TypeOK
      <4>2. w \in [output : Encoders \cup {Identity}, encoding : Names \cup {"none"},
                   wroteHeader : BOOLEAN, compressible : BOOLEAN, written : Nat]
        <5>1. writer[r] \in [output : Encoders \cup {Identity},
                             encoding : Names \cup {"none"}, wroteHeader : BOOLEAN,
                             compressible : BOOLEAN, written : Nat]
          BY DEF Inv, TypeOK
        <5> QED
          BY <2>1, <2>4, <5>1
      <4> HIDE DEF w
      <4> QED
        BY <4>1, <4>2 DEF Inv, TypeOK
    <3>3. idle' \subseteq Encoders
      BY <2>3 DEF Inv, TypeOK
    <3>4. pc' \in [Requests -> {"new", "handler", "close", "cleanup", "done"}]
      BY <1>1 DEF Inv, TypeOK
    <3> QED
      BY <1>1, <3>1, <3>2, <3>3, <3>4 DEF Inv, TypeOK
  <2>7. ASSUME NEW q \in Requests PROVE (InUse(q) /\ Accounts(q) /\ Announces(q))'
    <3>1. CASE q = r
      <4>1. /\ pc'[r] = "handler"
            /\ writer'[r] = [writer[r] EXCEPT !.output = e, !.encoding = name]
            /\ encoder'[e] = [func |-> func, destination |-> r, held |-> 0]
        BY <1>1, <2>3, <2>4 DEF Inv, TypeOK
      <4>2. /\ writer'[r].output = e /\ writer'[r].encoding = name
            /\ writer'[r].compressible = writer[r].compressible
            /\ writer'[r].wroteHeader = writer[r].wroteHeader
            /\ writer'[r].written = writer[r].written
        BY <4>1 DEF Inv, TypeOK
      <4>3. name # "none" /\ e # Identity /\ e \notin idle'
        BY <2>1, <2>3, <2>4
      <4> QED
        BY <1>1, <1>2, <3>1, <4>1, <4>2, <4>3 DEF Inv, InUse, Accounts, Announces, Active
    <3>2. CASE q # r
      <4>1. pc'[q] = pc[q] /\ writer'[q] = writer[q] /\ client'[q] = client[q]
            /\ header'[q] = header[q]
        BY <1>1, <2>3, <3>2 DEF Inv, TypeOK
      <4>2. pc[q] \in Active => encoder'[writer[q].output] = encoder[writer[q].output]
        <5>1. CASE writer[q].output = Identity
          BY <2>3, <2>4, <5>1 DEF Inv, TypeOK
        <5>2. CASE writer[q].output # Identity
          BY <2>3, <2>5, <3>2, <5>2 DEF Inv, TypeOK
        <5> QED
          BY <5>1, <5>2
      <4>3. InUse(q)'
        <5>1. InUse(q) /\ idle' \subseteq idle
          BY <2>3 DEF Inv
        <5> QED
          BY <4>1, <4>2, <5>1 DEF InUse, Active
      <4>4. Accounts(q)'
        BY <4>1, <4>2 DEF Inv, InUse, Accounts, Active
      <4> QED
        BY <4>1, <4>3, <4>4 DEF Inv, Announces
    <3> QED
      BY <3>1, <3>2
  <2> QED
    BY <2>6, <2>7 DEF Inv
<1> QED
  BY <1>3, <1>4 DEF Start

LEMMA EndInv ==
    ASSUME Inv, NEW r \in Requests, End(r)
    PROVE  Inv'
<1>1. pc[r] = "handler" /\ pc' = [pc EXCEPT ![r] = "close"]
      /\ UNCHANGED <<compressor, sets, idle, encoder, calls, accepted, header, writer, client>>
  BY DEF End, Deferred, Inv, TypeOK
<1>2. TypeOK'
  BY <1>1 DEF Inv, TypeOK
<1>3. ASSUME NEW q \in Requests PROVE (InUse(q) /\ Accounts(q) /\ Announces(q))'
  <2>1. pc'[q] = IF q = r THEN "close" ELSE pc[q]
    BY <1>1 DEF Inv, TypeOK
  <2> QED
    BY <1>1, <2>1 DEF Inv, InUse, Accounts, Announces, Active
<1> QED
  BY <1>2, <1>3 DEF Inv

LEMMA CleanupInv ==
    ASSUME Inv, NEW r \in Requests, Cleanup(r)
    PROVE  Inv'
<1> USE CompressAssumption
<1>1. pc[r] = "cleanup" /\ pc' = [pc EXCEPT ![r] = "done"]
      /\ UNCHANGED <<compressor, sets, encoder, calls, accepted, header, writer, client>>
  BY DEF Cleanup, Deferred, Inv, TypeOK
<1>2. \/ idle' = idle
      \/ writer[r].output # Identity /\ idle' = idle \cup {writer[r].output}
  BY DEF Cleanup
<1>3. TypeOK'
  <2>1. idle' \subseteq Encoders
    BY <1>2 DEF Inv, TypeOK
  <2> QED
    BY <1>1, <2>1 DEF Inv, TypeOK
<1>4. ASSUME NEW q \in Requests PROVE (InUse(q) /\ Accounts(q) /\ Announces(q))'
  <2>1. pc'[q] = IF q = r THEN "done" ELSE pc[q]
    BY <1>1 DEF Inv, TypeOK
  <2>2. q # r /\ pc[q] \in Active /\ writer[q].output # Identity =>
            writer[q].output \notin idle'
    BY <1>1, <1>2, EncodersApart DEF Inv, InUse, Active
  <2> QED
    BY <1>1, <2>1, <2>2 DEF Inv, InUse, Accounts, Announces, Active
<1> QED
  BY <1>3, <1>4 DEF Inv

LEMMA CloseInv ==
    ASSUME Inv, NEW r \in Requests, Close(r)
    PROVE  Inv'
<1> DEFINE e == writer[r].output
<1>1. /\ pc[r] = "close" /\ pc' = [pc EXCEPT ![r] = "cleanup"]
      /\ UNCHANGED <<compressor, sets, idle, calls, accepted, header, writer>>
  BY DEF Close, Deferred, Inv, TypeOK
<1>2. pc' \in [Requests -> {"new", "handler", "close", "cleanup", "done"}]
  BY <1>1 DEF Inv, TypeOK
<1>3. InUse(r) /\ Accounts(r) /\ Announces(r)
  BY DEF Inv
<1>4. CASE writer[r].compressible
  <2>1. e \in Encoders /\ e # Identity
    BY <1>3, <1>4 DEF Inv, TypeOK, InUse
  <2>2. encoder[e].held \in Nat /\ client[r].encoded \in Nat
    BY <2>1 DEF Inv, TypeOK
  <2>3. Emit(e, r, encoder[e].held, TRUE) /\ encoder' = [encoder EXCEPT ![e].held = 0]
    BY <1>4 DEF Close
  <2>4. /\ client' \in [Requests -> Clients]
        /\ \A q \in Requests : q # r => client'[q] = client[q]
        /\ client'[r].plain = client[r].plain
        /\ client'[r].encoded = client[r].encoded + encoder[e].held
        /\ client'[r].ended = TRUE
        /\ ~client'[r].foreign
        /\ client'[r].sent = header[r].encoding \/ client'[r].by = "flush"
    BY <1>1, <1>3, <1>4, <2>2, <2>3, EmitsToItsClient DEF Active
  <2>5. /\ encoder' \in [Encoders -> Uses]
        /\ encoder'[e].destination = encoder[e].destination
        /\ \A x \in Encoders : x # e => encoder'[x] = encoder[x]
    BY <2>1, <2>3, HoldsOnly
  <2>6. TypeOK'
    BY <1>1, <1>2, <2>4, <2>5, TypesKept, RequestTypes DEF Inv
  <2>7. (InUse(r) /\ Accounts(r) /\ Announces(r))'
    <3>1. pc'[r] = "cleanup"
      BY <1>1 DEF Inv, TypeOK
    <3>2. InUse(r)'
      BY <1>1, <1>3, <2>4, <2>5, <3>1 DEF InUse, Active
    <3>3. Accounts(r)'
      BY <1>1, <1>3, <1>4, <2>4, <3>1 DEF Accounts
    <3> QED
      BY <1>1, <1>3, <1>4, <2>4, <3>2, <3>3 DEF Accounts, Announces
  <2>8. ASSUME NEW q \in Requests, q # r PROVE (InUse(q) /\ Accounts(q) /\ Announces(q))'
    <3>1. pc'[q] = pc[q]
      BY <1>1, <2>8 DEF Inv, TypeOK
    <3> QED
      BY <1>1, <2>1, <2>4, <2>5, <2>8, <3>1, OthersUntouched DEF Active
  <2> QED
    BY <2>6, <2>7, <2>8 DEF Inv
<1>5. CASE ~writer[r].compressible
  <2>1. UNCHANGED <<encoder, client>>
    BY <1>5 DEF Close
  <2>2. TypeOK'
    BY <1>1, <1>2, <2>1 DEF Inv, TypeOK
  <2>3. ASSUME NEW q \in Requests PROVE (InUse(q) /\ Accounts(q) /\ Announces(q))'
    <3>1. pc'[q] = IF q = r THEN "cleanup" ELSE pc[q]
      BY <1>1 DEF Inv, TypeOK
    <3> QED
      BY <1>1, <1>5, <2>1, <3>1 DEF Inv, InUse, Accounts, Announces, Active
  <2> QED
    BY <2>2, <2>3 DEF Inv
<1> QED
  BY <1>4, <1>5

(* What the first WriteHeader decides stays decided.                       *)
LEMMA DecidedOnce ==
    ASSUME Inv, NEW r \in Requests
    PROVE  LET h == HeaderFor(r)
               w == WriterFor(r)
           IN  /\ h \in HeaderStates /\ w \in Writers
               /\ w.output = writer[r].output /\ w.encoding = writer[r].encoding
               /\ w.written = writer[r].written /\ w.wroteHeader
               /\ w.compressible => w.output # Identity /\ h.encoding = w.encoding
               /\ ~w.compressible => h.encoding \in {"none", "own"}
               /\ writer[r].compressible => w.compressible
               /\ writer[r].wroteHeader => h = header[r] /\ w = writer[r]
<1> DEFINE h == HeaderFor(r)
           w == WriterFor(r)
<1>1. /\ header[r] \in HeaderStates /\ writer[r] \in Writers
      /\ writer[r].encoding \in Names \cup {"none"}
  BY RequestTypes DEF Inv, Writers
<1>2. InUse(r) /\ Accounts(r) /\ Announces(r)
  BY DEF Inv
<1>3. CASE Decides(r)
  <2>1. /\ w = [writer[r] EXCEPT !.wroteHeader = TRUE, !.compressible = TRUE]
        /\ h = [header[r] EXCEPT !.encoding = writer[r].encoding]
    BY <1>3 DEF WriterFor, HeaderFor
  <2>2. ~writer[r].wroteHeader /\ writer[r].encoding # "none"
    BY <1>3 DEF Decides
  <2> HIDE DEF h, w
  <2> QED
    BY <1>1, <1>2, <2>1, <2>2 DEF InUse, Accounts, Writers, HeaderStates, h, w
<1>4. CASE ~Decides(r)
  <2>1. /\ w = [writer[r] EXCEPT !.wroteHeader = TRUE]
        /\ h = header[r]
    <3>1. (writer[r].compressible \/ Decides(r)) = writer[r].compressible
      BY <1>1, <1>4 DEF Writers
    <3> QED
      BY <1>1, <1>4, <3>1 DEF WriterFor, HeaderFor, Writers
  <2>2. writer[r].wroteHeader => w = writer[r]
    BY <1>1, <2>1 DEF Writers
  <2>3. /\ w \in Writers /\ w.output = writer[r].output
        /\ w.encoding = writer[r].encoding /\ w.written = writer[r].written
        /\ w.wroteHeader /\ w.compressible = writer[r].compressible
    BY <1>1, <2>1 DEF Writers
  <2> HIDE DEF h, w
  <2> QED
    BY <1>1, <1>2, <2>1, <2>2, <2>3 DEF InUse, Accounts, Announces, h, w
<1> QED
  BY <1>3, <1>4

(* What every call of the handler on its writer leaves alone.              *)
Calls(r) ==
    /\ pc[r] = "handler"
    /\ calls' = calls + 1
    /\ UNCHANGED <<compressor, sets, idle, pc, accepted>>

LEMMA CallTypes ==
    ASSUME Inv, NEW r \in Requests, Calls(r),
           encoder' \in [Encoders -> Uses], header' \in [Requests -> HeaderStates],
           writer' \in [Requests -> Writers], client' \in [Requests -> Clients]
    PROVE  TypeOK'
<1>1. UNCHANGED <<compressor, sets, idle, accepted>> /\ calls' \in Nat
  BY DEF Inv, Calls, TypeOK
<1>2. pc' \in [Requests -> {"new", "handler", "close", "cleanup", "done"}]
  BY DEF Inv, Calls, TypeOK
<1> QED
  BY <1>1, <1>2, TypesKept DEF Inv

LEMMA WriteHeaderInv ==
    ASSUME Inv, NEW r \in Requests, Calls(r), NEW final \in BOOLEAN,
           WriteHeader(r, final)
    PROVE  Inv'
<1> DEFINE h == HeaderFor(r)
           w == WriterFor(r)
           c == IF final THEN Sent(client[r], h.encoding, "header") ELSE client[r]
<1>1. /\ encoder \in [Encoders -> Uses] /\ header \in [Requests -> HeaderStates]
      /\ writer \in [Requests -> Writers] /\ client \in [Requests -> Clients]
      /\ calls \in Nat
  BY RequestTypes DEF Inv
<1>2. /\ h \in HeaderStates /\ w \in Writers
      /\ w.output = writer[r].output /\ w.encoding = writer[r].encoding
      /\ w.written = writer[r].written /\ w.wroteHeader
      /\ w.compressible => w.output # Identity /\ h.encoding = w.encoding
      /\ ~w.compressible => h.encoding \in {"none", "own"}
      /\ writer[r].compressible => w.compressible
      /\ writer[r].wroteHeader => h = header[r] /\ w = writer[r]
  BY DecidedOnce
<1>3. InUse(r) /\ Accounts(r) /\ Announces(r)
  BY DEF Inv
<1>4. header' = [header EXCEPT ![r] = h] /\ writer' = [writer EXCEPT ![r] = w]
      /\ encoder' = encoder
  BY DEF WriteHeader
<1> HIDE DEF h, w
<1>5. client' = [client EXCEPT ![r] = c]
  BY <1>1 DEF WriteHeader, h
<1>6. /\ c \in Clients /\ c.plain = client[r].plain /\ c.encoded = client[r].encoded
      /\ c.ended = client[r].ended /\ c.foreign = client[r].foreign
      /\ \/ c.sent = client[r].sent /\ c.by = client[r].by
         \/ c.sent = h.encoding
  BY <1>1, <1>2, SentOnce DEF HeaderStates
<1> HIDE DEF c
<1>7. TypeOK'
  <2>1. /\ header' \in [Requests -> HeaderStates] /\ writer' \in [Requests -> Writers]
        /\ client' \in [Requests -> Clients]
    BY <1>1, <1>2, <1>4, <1>5, <1>6
  <2> QED
    BY <1>1, <1>4, <2>1, CallTypes
<1>8. (InUse(r) /\ Accounts(r) /\ Announces(r))'
  <2>1. /\ header'[r] = h /\ writer'[r] = w /\ client'[r] = c /\ pc'[r] = "handler"
        /\ pc[r] = "handler"
    BY <1>1, <1>4, <1>5 DEF Calls
  <2>2. InUse(r)'
    BY <1>2, <1>3, <1>4, <1>6, <2>1 DEF InUse, Active, Calls
  <2>3. Accounts(r)'
    <3>1. CASE writer[r].wroteHeader
      BY <1>2, <1>3, <1>4, <1>6, <2>1, <3>1 DEF Accounts
    <3>2. CASE ~writer[r].wroteHeader
      BY <1>1, <1>2, <1>3, <1>4, <1>6, <2>1, <3>2 DEF Accounts
    <3> QED
      BY <3>1, <3>2
  <2>4. Announces(r)'
    BY <1>2, <1>3, <1>6, <2>1 DEF Announces
  <2> QED
    BY <2>2, <2>3, <2>4
<1>9. ASSUME NEW q \in Requests, q # r PROVE (InUse(q) /\ Accounts(q) /\ Announces(q))'
  BY <1>1, <1>4, <1>5, <1>9, OthersUntouched DEF Calls, Active
<1> QED
  BY <1>7, <1>8, <1>9 DEF Inv

LEMMA FlushInv ==
    ASSUME Inv, NEW r \in Requests, Calls(r), Flush(r)
    PROVE  Inv'
<1> DEFINE e == writer[r].output
<1>1. /\ encoder \in [Encoders -> Uses] /\ header \in [Requests -> HeaderStates]
      /\ writer \in [Requests -> Writers] /\ client \in [Requests -> Clients]
      /\ calls \in Nat
  BY RequestTypes DEF Inv
<1>2. InUse(r) /\ Accounts(r) /\ Announces(r) /\ pc[r] = "handler" /\ pc'[r] = "handler"
  BY DEF Inv, Calls
<1>3. UNCHANGED <<header, writer, idle, pc>>
  BY DEF Flush, Calls
<1>4. CASE writer[r].compressible
  <2>1. e \in Encoders /\ e # Identity
    BY <1>1, <1>2, <1>4 DEF InUse, Writers
  <2>2. encoder[e].held \in Nat /\ client[r].encoded \in Nat
    BY <1>1, <2>1 DEF Uses, Clients
  <2>3. Emit(e, r, encoder[e].held, FALSE) /\ encoder' = [encoder EXCEPT ![e].held = 0]
    BY <1>4 DEF Flush
  <2>4. /\ client' \in [Requests -> Clients]
        /\ \A q \in Requests : q # r => client'[q] = client[q]
        /\ client'[r].plain = client[r].plain
        /\ client'[r].encoded = client[r].encoded + encoder[e].held
        /\ client'[r].ended = FALSE
        /\ ~client'[r].foreign
        /\ client'[r].sent = header[r].encoding \/ client'[r].by = "flush"
    BY <1>2, <1>4, <2>2, <2>3, EmitsToItsClient DEF Active
  <2>5. /\ encoder' \in [Encoders -> Uses]
        /\ encoder'[e].destination = encoder[e].destination
        /\ encoder'[e].held = 0
        /\ \A x \in Encoders : x # e => encoder'[x] = encoder[x]
    BY <2>1, <2>3, HoldsOnly
  <2>6. TypeOK'
    BY <1>1, <1>3, <2>4, <2>5, CallTypes
  <2>7. (InUse(r) /\ Accounts(r) /\ Announces(r))'
    <3>1. InUse(r)'
      BY <1>2, <1>3, <2>4, <2>5 DEF InUse, Active
    <3>2. Accounts(r)'
      BY <1>2, <1>3, <1>4, <2>2, <2>4, <2>5 DEF Accounts
    <3> QED
      BY <1>2, <1>3, <1>4, <2>4, <3>1, <3>2 DEF Accounts, Announces
  <2>8. ASSUME NEW q \in Requests, q # r PROVE (InUse(q) /\ Accounts(q) /\ Announces(q))'
    BY <1>2, <1>3, <2>1, <2>4, <2>5, <2>8, OthersUntouched DEF Active
  <2> QED
    BY <2>6, <2>7, <2>8 DEF Inv
<1>5. CASE ~writer[r].compressible
  <2> DEFINE c == Sent(client[r], header[r].encoding, "flush")
  <2>1. client' = [client EXCEPT ![r] = c] /\ encoder' = encoder
    BY <1>5 DEF Flush
  <2>2. /\ c \in Clients /\ c.plain = client[r].plain /\ c.encoded = client[r].encoded
        /\ c.ended = client[r].ended /\ c.foreign = client[r].foreign
        /\ \/ c.sent = client[r].sent /\ c.by = client[r].by
           \/ c.by = "flush"
    BY <1>1, SentOnce DEF HeaderStates
  <2> HIDE DEF c
  <2>3. TypeOK'
    <3>1. client' \in [Requests -> Clients]
      BY <1>1, <2>1, <2>2
    <3> QED
      BY <1>1, <1>3, <2>1, <3>1, CallTypes
  <2>4. client'[r] = c
    BY <1>1, <2>1
  <2>5. (InUse(r) /\ Accounts(r) /\ Announces(r))'
    BY <1>2, <1>3, <1>5, <2>1, <2>2, <2>4 DEF InUse, Accounts, Announces, Active
  <2>6. ASSUME NEW q \in Requests, q # r PROVE (InUse(q) /\ Accounts(q) /\ Announces(q))'
    BY <1>1, <1>2, <1>3, <2>1, <2>6, OthersUntouched DEF Active
  <2> QED
    BY <2>3, <2>5, <2>6 DEF Inv
<1> QED
  BY <1>4, <1>5

LEMMA WriteInv ==
    ASSUME Inv, NEW r \in Requests, Calls(r), Write(r)
    PROVE  Inv'
<1> DEFINE e == writer[r].output
           h == HeaderFor(r)
           w == WriterFor(r)
           v == [w EXCEPT !.written = @ + 1]
           c == IF writer[r].wroteHeader THEN client[r] ELSE Sent(client[r], h.encoding, "header")
           s == Sent(c, h.encoding, "body")
           d == [s EXCEPT !.plain = @ + 1]
<1>1. /\ encoder \in [Encoders -> Uses] /\ header \in [Requests -> HeaderStates]
      /\ writer \in [Requests -> Writers] /\ client \in [Requests -> Clients]
      /\ calls \in Nat
  BY RequestTypes DEF Inv
<1>2. /\ h \in HeaderStates /\ w \in Writers
      /\ w.output = writer[r].output /\ w.encoding = writer[r].encoding
      /\ w.written = writer[r].written /\ w.wroteHeader
      /\ w.compressible => w.output # Identity /\ h.encoding = w.encoding
      /\ ~w.compressible => h.encoding \in {"none", "own"}
      /\ writer[r].compressible => w.compressible
      /\ writer[r].wroteHeader => h = header[r] /\ w = writer[r]
  BY DecidedOnce
<1>3. InUse(r) /\ Accounts(r) /\ Announces(r) /\ pc[r] = "handler" /\ pc'[r] = "handler"
      /\ UNCHANGED <<idle, pc>>
  BY DEF Inv, Calls
<1>4. /\ header' = [header EXCEPT ![r] = h] /\ writer' = [writer EXCEPT ![r] = v]
      /\ IF w.compressible
         THEN encoder' = [encoder EXCEPT ![w.output].held = @ + 1]
              /\ client' = [client EXCEPT ![r] = c]
         ELSE client' = [client EXCEPT ![r] = d] /\ encoder' = encoder
  BY <1>2 DEF Write
<1> HIDE DEF h, w
<1>5. /\ v \in Writers /\ v.output = w.output /\ v.encoding = w.encoding
      /\ v.wroteHeader /\ v.compressible = w.compressible /\ v.written = w.written + 1
  BY <1>2 DEF Writers
<1>6. /\ c \in Clients /\ c.plain = client[r].plain /\ c.encoded = client[r].encoded
      /\ c.ended = client[r].ended /\ c.foreign = client[r].foreign
      /\ \/ c.sent = client[r].sent /\ c.by = client[r].by
         \/ c.sent = h.encoding
      /\ writer[r].wroteHeader => c.sent = client[r].sent /\ c.by = client[r].by
  BY <1>1, <1>2, SentOnce DEF HeaderStates
<1> HIDE DEF c, v
<1>7. /\ s \in Clients /\ s.plain = c.plain /\ s.encoded = c.encoded
      /\ s.ended = c.ended /\ s.foreign = c.foreign
      /\ \/ s.sent = c.sent /\ s.by = c.by
         \/ s.sent = h.encoding
  BY <1>2, <1>6, SentOnce DEF HeaderStates
<1> HIDE DEF s
<1>8. /\ d \in Clients /\ d.plain = s.plain + 1 /\ d.encoded = s.encoded
      /\ d.ended = s.ended /\ d.foreign = s.foreign
      /\ d.sent = s.sent /\ d.by = s.by
  BY <1>7 DEF Clients
<1> HIDE DEF d
<1>9. header'[r] = h /\ writer'[r] = v
  BY <1>1, <1>4
<1>10. header' \in [Requests -> HeaderStates] /\ writer' \in [Requests -> Writers]
  BY <1>1, <1>2, <1>4, <1>5
<1>11. CASE w.compressible
  <2>1. e \in Encoders /\ e # Identity /\ w.output = e
    BY <1>1, <1>2, <1>11 DEF Writers
  <2>2. encoder[e].held \in Nat
    BY <1>1, <2>1 DEF Uses
  <2>3. encoder' = [encoder EXCEPT ![e].held = encoder[e].held + 1]
    BY <1>4, <1>11, <2>1
  <2>4. /\ encoder' \in [Encoders -> Uses]
        /\ encoder'[e].destination = encoder[e].destination
        /\ encoder'[e].held = encoder[e].held + 1
        /\ \A x \in Encoders : x # e => encoder'[x] = encoder[x]
    <3>1. encoder[e].held + 1 \in Nat
      BY <2>2
    <3> QED
      BY <2>1, <2>3, <3>1, HoldsOnly
  <2>5. client' = [client EXCEPT ![r] = c]
    BY <1>4, <1>11
  <2>6. client' \in [Requests -> Clients] /\ client'[r] = c
    BY <1>1, <1>6, <2>5
  <2>7. TypeOK'
    BY <1>10, <2>4, <2>6, CallTypes
  <2>8. (InUse(r) /\ Accounts(r) /\ Announces(r))'
    <3>1. InUse(r)'
      BY <1>2, <1>3, <1>5, <1>6, <1>9, <2>1, <2>4, <2>6 DEF InUse, Active
    <3>2. client[r].encoded \in Nat /\ writer[r].written \in Nat
      BY <1>1 DEF Clients, Writers
    <3>3. /\ client[r].encoded + encoder[e].held = writer[r].written
          /\ client[r].plain = 0
      <4>1. CASE writer[r].compressible
        BY <1>3, <4>1 DEF Accounts
      <4>2. CASE ~writer[r].compressible
        <5>1. ~writer[r].wroteHeader
          BY <1>2, <1>11, <4>2
        <5> QED
          BY <1>3, <2>1, <2>2, <4>2, <5>1 DEF Accounts
      <4> QED
        BY <4>1, <4>2
    <3>4. /\ client'[r].encoded + encoder'[e].held = writer'[r].written
          /\ client'[r].plain = 0
      BY <1>2, <1>5, <1>6, <1>9, <2>2, <2>4, <2>6, <3>2, <3>3
    <3>5. Accounts(r)'
      BY <1>2, <1>3, <1>5, <1>9, <1>11, <2>1, <3>4 DEF Accounts
    <3>6. Announces(r)'
      BY <1>2, <1>3, <1>5, <1>6, <1>9, <1>11, <2>6 DEF Announces
    <3> QED
      BY <3>1, <3>5, <3>6
  <2>9. ASSUME NEW q \in Requests, q # r PROVE (InUse(q) /\ Accounts(q) /\ Announces(q))'
    BY <1>1, <1>3, <1>4, <2>1, <2>4, <2>5, <2>9, OthersUntouched DEF Active
  <2> QED
    BY <2>7, <2>8, <2>9 DEF Inv
<1>12. CASE ~w.compressible
  <2>1. client' = [client EXCEPT ![r] = d] /\ encoder' = encoder
    BY <1>4, <1>12
  <2>2. client' \in [Requests -> Clients] /\ client'[r] = d
    BY <1>1, <1>8, <2>1
  <2>3. TypeOK'
    BY <1>1, <1>10, <2>1, <2>2, CallTypes
  <2>4. (InUse(r) /\ Accounts(r) /\ Announces(r))'
    <3>1. InUse(r)'
      BY <1>2, <1>3, <1>5, <1>6, <1>7, <1>8, <1>9, <1>12, <2>1, <2>2 DEF InUse, Active
    <3>2. ~writer[r].compressible
      BY <1>2, <1>12
    <3>3. client[r].plain \in Nat /\ writer[r].written \in Nat
      BY <1>1 DEF Clients, Writers
    <3>4. Accounts(r)'
      BY <1>2, <1>3, <1>5, <1>6, <1>7, <1>8, <1>9, <1>12, <2>1, <2>2, <3>2, <3>3 DEF Accounts
    <3>5. Announces(r)'
      BY <1>2, <1>3, <1>5, <1>6, <1>7, <1>8, <1>9, <1>12, <2>2 DEF Announces
    <3> QED
      BY <3>1, <3>4, <3>5
  <2>5. ASSUME NEW q \in Requests, q # r PROVE (InUse(q) /\ Accounts(q) /\ Announces(q))'
    BY <1>1, <1>3, <1>4, <2>1, <2>5, OthersUntouched DEF Active
  <2> QED
    BY <2>3, <2>4, <2>5 DEF Inv
<1> QED
  BY <1>11, <1>12

-----------------------------------------------------------------------------
LEMMA InvHolds == Spec => []Inv
<1>1. Inv /\ [Next]_vars => Inv'
  <2> SUFFICES ASSUME Inv, [Next]_vars PROVE Inv'
    OBVIOUS
  <2>1. ASSUME NEW name \in Names, NEW resettable \in BOOLEAN, SetEncoder(name, resettable)
        PROVE  Inv'
    BY <2>1, SetEncoderInv
  <2>2. ASSUME NEW r \in Requests, Start(r) PROVE Inv'
    BY <2>2, StartInv
  <2>3. ASSUME NEW r \in Requests, Call(r) PROVE Inv'
    <3>1. Calls(r)
      BY <2>3 DEF Call, Calls
    <3>2. ASSUME NEW final \in BOOLEAN, WriteHeader(r, final) PROVE Inv'
      BY <3>1, <3>2, WriteHeaderInv
    <3>3. CASE Write(r)
      BY <3>1, <3>3, WriteInv
    <3>4. CASE Flush(r)
      BY <3>1, <3>4, FlushInv
    <3> QED
      BY <2>3, <3>2, <3>3, <3>4 DEF Call
  <2>4. ASSUME NEW r \in Requests, End(r) PROVE Inv'
    BY <2>4, EndInv
  <2>5. ASSUME NEW r \in Requests, Close(r) PROVE Inv'
    BY <2>5, CloseInv
  <2>6. ASSUME NEW r \in Requests, Cleanup(r) PROVE Inv'
    BY <2>6, CleanupInv
  <2>7. CASE UNCHANGED vars
    BY <2>7 DEF vars, Inv, TypeOK, InUse, Accounts, Announces
  <2> QED
    BY <2>1, <2>2, <2>3, <2>4, <2>5, <2>6, <2>7 DEF Next
<1> QED
  BY InitInv, <1>1, PTL DEF Spec

(* Types, and no encoding is left with both a pool and an EncoderFunc      *)
(* (compress_gp.go 85-96).                                                 *)
THEOREM TypeCorrect == Spec => []TypeOK
<1>1. Inv => TypeOK
  BY DEF Inv
<1> QED
  BY <1>1, InvHolds, PTL

(* However requests overlap, none gets a byte, or the end, of another's    *)
(* encoder: Close comes before cleanup, and cleanup before the next Get    *)
(* (compress_gp.go 106-141).                                               *)
THEOREM StreamsAreSeparate == Spec => []StreamsStayApart
<1>1. Inv => StreamsStayApart
  BY DEF Inv, InUse, StreamsStayApart, Active
<1> QED
  BY <1>1, InvHolds, PTL

(* Whatever the order of WriteHeader, Write and Flush, and if the handler  *)
(* panics, the client gets all that was written, encoded and ended, or all *)
(* of it as it is (compress_gp.go 157-223).                                *)
THEOREM BodiesAreComplete == Spec => []DecodesToTheBody
<1>1. Inv => DecodesToTheBody
  BY DEF Inv, Accounts, DecodesToTheBody
<1> QED
  BY <1>1, InvHolds, PTL

(* The header that WriteHeader or the encoder sent tells the truth         *)
(* (compress_gp.go 157-190).                                               *)
THEOREM HeadersTellTheTruth == Spec => []OnlyAnEarlyFlushMisleads
<1>1. Inv => OnlyAnEarlyFlushMisleads
  <2> SUFFICES ASSUME Inv, NEW r \in Requests, pc[r] = "done",
                      client[r].sent # "nothing", client[r].by # "flush"
               PROVE  client[r].sent \in Names <=> client[r].ended
    BY DEF OnlyAnEarlyFlushMisleads
  <2>1. InUse(r) /\ Accounts(r) /\ Announces(r)
    BY DEF Inv
  <2>2. writer[r] \in Writers
    BY RequestTypes DEF Inv
  <2>3. CASE writer[r].compressible
    BY <2>1, <2>2, <2>3 DEF InUse, Accounts, Announces, Writers
  <2>4. CASE ~writer[r].compressible
    BY <2>1, <2>4, CompressAssumption DEF Accounts, Announces
  <2> QED
    BY <2>3, <2>4
<1> QED
  BY <1>1, InvHolds, PTL

-----------------------------------------------------------------------------
(* Which encoding a request gets, for any sequence of SetEncoder calls.    *)

(* The precedence is the names that were set, the one set last first, and  *)
(* each has what its last call left.                                       *)
Ordered ==
    LET precedence == compressor.precedence
    IN  /\ \A n \in Names : sets.last[n] <= sets.count
        /\ \A n \in Names : sets.last[n] = 0 =>
              compressor.pools[n] = 0 /\ compressor.encoders[n] = 0
        /\ \A n \in Names : sets.last[n] # 0 =>
              sets.last[n] \in {compressor.pools[n], compressor.encoders[n]}
        /\ \A k \in 1..Len(precedence) : sets.last[precedence[k]] # 0
        /\ \A j, k \in 1..Len(precedence) :
              j < k => sets.last[precedence[j]] > sets.last[precedence[k]]
        /\ \A n \in Names : sets.last[n] # 0 => \E k \in 1..Len(precedence) : precedence[k] = n

(* A request's encoding is the one set last of those it accepts, and its   *)
(* encoder was made by the function it was set with.                       *)
Newest(r) ==
    LET chosen == writer[r].encoding
    IN  /\ chosen # "none" =>
              /\ chosen \in accepted[r]
              /\ \A n \in accepted[r] : sets.last[n] <= sets.last[chosen]
              /\ pc[r] \in Active => encoder[writer[r].output].func = sets.last[chosen]
        /\ client[r].sent \in Names => client[r].sent = chosen
        /\ client[r].func # 0 => chosen # "none" /\ client[r].func = sets.last[chosen]

OrderInv == Ordered /\ \A r \in Requests : Newest(r)

-----------------------------------------------------------------------------
(* Without a name, the others stay in their order; at says where each was. *)
LEMMA WithoutOne ==
    ASSUME NEW precedence \in Seq(Names), NEW name \in Names,
           \A j, k \in 1..Len(precedence) : j # k => precedence[j] # precedence[k]
    PROVE  LET rest == Without(precedence, name)
           IN  \E at \in [1..Len(rest) -> 1..Len(precedence)] :
                  /\ \A k \in 1..Len(rest) : rest[k] = precedence[at[k]] /\ rest[k] # name
                  /\ \A j, k \in 1..Len(rest) : j < k => at[j] < at[k]
                  /\ \A x \in 1..Len(precedence) :
                        precedence[x] # name => \E k \in 1..Len(rest) : at[k] = x
<1> DEFINE rest == Without(precedence, name)
           places == {k \in DOMAIN precedence : precedence[k] = name}
           i == CHOOSE k \in places : TRUE
           n == Len(precedence)
<1>1. n \in Nat /\ DOMAIN precedence = 1..n
  OBVIOUS
<1>2. CASE places = {}
  <2>1. rest = precedence
    BY <1>2 DEF Without
  <2>2. \A k \in 1..n : precedence[k] # name
    BY <1>1, <1>2
  <2> DEFINE at == [k \in 1..n |-> k]
  <2>3. /\ at \in [1..n -> 1..n]
        /\ \A k \in 1..n : at[k] = k
    OBVIOUS
  <2> HIDE DEF at, rest, n, places
  <2> QED
    BY <2>1, <2>2, <2>3 DEF n, rest
<1>3. CASE places # {}
  <2>1. i \in 1..n /\ precedence[i] = name
    BY <1>1, <1>3
  <2>2. rest = RemoveAt(precedence, i)
    BY <1>3 DEF Without
  <2> HIDE DEF i, rest, places
  <2> DEFINE before == SubSeq(precedence, 1, i - 1)
             after == SubSeq(precedence, i + 1, n)
  <2>3. /\ before \in Seq(Names) /\ Len(before) = i - 1
        /\ \A k \in 1..(i - 1) : before[k] = precedence[k]
    BY <1>1, <2>1, SubSeqProperties
  <2>4. /\ after \in Seq(Names) /\ Len(after) = n - i
        /\ \A k \in 1..(n - i) : after[k] = precedence[i + k]
    <3>1. i + 1 \in 1..(n + 1) /\ n \in i..n
      BY <1>1, <2>1
    <3>2. /\ after \in Seq(Names)
          /\ Len(after) = IF i + 1 <= n THEN n - (i + 1) + 1 ELSE 0
          /\ \A k \in 1..(n - (i + 1) + 1) : after[k] = precedence[(i + 1) + k - 1]
      BY <1>1, <2>1, <3>1, SubSeqProperties
    <3> HIDE DEF after, n
    <3>3. /\ Len(after) = n - i
          /\ n - (i + 1) + 1 = n - i
          /\ \A k \in 1..(n - i) : (i + 1) + k - 1 = i + k
      BY <1>1, <2>1, <3>2
    <3> QED
      BY <3>2, <3>3
  <2>5. rest = before \o after
    BY <2>2 DEF RemoveAt
  <2> HIDE DEF before, after, n
  <2>6. /\ Len(rest) = n - 1
        /\ \A k \in 1..(n - 1) : k < i => rest[k] = precedence[k]
        /\ \A k \in 1..(n - 1) : k >= i => rest[k] = precedence[k + 1]
    <3>1. /\ Len(rest) = Len(before) + Len(after)
          /\ \A k \in 1..(Len(before) + Len(after)) :
                rest[k] = IF k <= Len(before) THEN before[k] ELSE after[k - Len(before)]
      BY <2>3, <2>4, <2>5, ConcatProperties
    <3>2. Len(before) + Len(after) = n - 1
      BY <1>1, <2>1, <2>3, <2>4
    <3>3. ASSUME NEW k \in 1..(n - 1), k < i PROVE rest[k] = precedence[k]
      BY <1>1, <2>1, <2>3, <2>4, <3>1, <3>2, <3>3
    <3>4. ASSUME NEW k \in 1..(n - 1), k >= i PROVE rest[k] = precedence[k + 1]
      <4>1. rest[k] = after[k - Len(before)]
        BY <1>1, <2>1, <2>3, <2>4, <3>1, <3>2, <3>4
      <4>2. k - Len(before) \in 1..(n - i) /\ i + (k - Len(before)) = k + 1
        BY <1>1, <2>1, <2>3, <3>4
      <4> QED
        BY <2>4, <4>1, <4>2
    <3> QED
      BY <3>1, <3>2, <3>3, <3>4
  <2> DEFINE at == [k \in 1..(n - 1) |-> IF k < i THEN k ELSE k + 1]
  <2>7. /\ at \in [1..(n - 1) -> 1..n]
        /\ \A j, k \in 1..(n - 1) : j < k => at[j] < at[k]
        /\ \A k \in 1..(n - 1) : at[k] # i
    BY <1>1, <2>1
  <2>8. \A k \in 1..(n - 1) : rest[k] = precedence[at[k]]
    BY <1>1, <2>1, <2>6
  <2>9. \A k \in 1..(n - 1) : rest[k] # name
    <3> TAKE k \in 1..(n - 1)
    <3>1. at[k] \in 1..n /\ at[k] # i
      BY <2>7
    <3> HIDE DEF at
    <3> QED
      BY <2>1, <2>8, <3>1 DEF n
  <2>10. ASSUME NEW x \in 1..n, precedence[x] # name
         PROVE  \E k \in 1..(n - 1) : at[k] = x
    <3>1. x # i
      BY <2>1, <2>10
    <3>2. CASE x < i
      <4>1. x \in 1..(n - 1) /\ at[x] = x
        BY <1>1, <2>1, <3>2
      <4> QED
        BY <4>1
    <3>3. CASE x > i
      <4>1. x - 1 \in 1..(n - 1) /\ at[x - 1] = x
        BY <1>1, <2>1, <3>3
      <4> QED
        BY <4>1
    <3> QED
      BY <1>1, <2>1, <3>1, <3>2, <3>3
  <2> HIDE DEF at
  <2>11. at \in [1..Len(rest) -> 1..n]
    BY <2>6, <2>7
  <2>12. /\ \A k \in 1..Len(rest) : rest[k] = precedence[at[k]] /\ rest[k] # name
         /\ \A j, k \in 1..Len(rest) : j < k => at[j] < at[k]
         /\ \A x \in 1..n : precedence[x] # name => \E k \in 1..Len(rest) : at[k] = x
    BY <2>6, <2>7, <2>8, <2>9, <2>10
  <2> QED
    BY <2>11, <2>12 DEF n, rest
<1> QED
  BY <1>2, <1>3

LEMMA OrderInit == Init => OrderInv
<1> SUFFICES ASSUME Init PROVE OrderInv
  OBVIOUS
<1>1. PICK name \in Names :
          /\ compressor = [precedence |-> <<name>>,
                           pools |-> [n \in Names |-> IF n = name THEN 1 ELSE 0],
                           encoders |-> [n \in Names |-> 0]]
          /\ sets = [count |-> 1, last |-> [n \in Names |-> IF n = name THEN 1 ELSE 0]]
  BY DEF Init
<1>2. Ordered
  <2>1. /\ compressor.precedence = <<name>> /\ Len(<<name>>) = 1 /\ <<name>>[1] = name
        /\ compressor.pools = [n \in Names |-> IF n = name THEN 1 ELSE 0]
        /\ compressor.encoders = [n \in Names |-> 0]
        /\ sets.count = 1 /\ sets.last = [n \in Names |-> IF n = name THEN 1 ELSE 0]
    BY <1>1
  <2> QED
    BY <2>1 DEF Ordered
<1>3. ASSUME NEW r \in Requests PROVE Newest(r)
  BY CompressAssumption DEF Init, Newest
<1> QED
  BY <1>2, <1>3 DEF OrderInv

LEMMA SetEncoderOrders ==
    ASSUME Inv, OrderInv, NEW name \in Names, NEW resettable \in BOOLEAN,
           SetEncoder(name, resettable)
    PROVE  OrderInv'
<1> DEFINE func == sets.count + 1
           c == WithoutEncoder(compressor, name)
           pools == IF resettable THEN [c.pools EXCEPT ![name] = func] ELSE c.pools
           encoders == IF pools[name] = 0 THEN [c.encoders EXCEPT ![name] = func] ELSE c.encoders
           last == [sets.last EXCEPT ![name] = func]
           old == compressor.precedence
           rest == Without(old, name)
           new == <<name>> \o rest
<1>1. /\ c.precedence = old
      /\ c.pools = [compressor.pools EXCEPT ![name] = 0]
      /\ c.encoders = [compressor.encoders EXCEPT ![name] = 0]
  BY DEF Inv, TypeOK, WithoutEncoder
<1>2. /\ func \in Nat \ {0} /\ sets.last \in [Names -> Nat] /\ sets.count \in Nat
      /\ compressor.pools \in [Names -> Nat] /\ compressor.encoders \in [Names -> Nat]
      /\ old \in Seq(Names)
  BY DEF Inv, TypeOK
<1>3. \A x \in Nat : x <= sets.count => x <= func /\ x < func
  BY <1>2
<1>4. /\ compressor' = [precedence |-> new, pools |-> pools, encoders |-> encoders]
      /\ sets' = [count |-> func, last |-> last]
      /\ UNCHANGED <<encoder, pc, accepted, writer, client>>
      /\ \A r \in Requests : pc[r] = "new"
  BY <1>1 DEF SetEncoder, ToTheFront
<1>5. /\ \A n \in Names : n # name => /\ pools[n] = compressor.pools[n]
                                     /\ encoders[n] = compressor.encoders[n]
                                     /\ last[n] = sets.last[n]
      /\ last[name] = func
      /\ func \in {pools[name], encoders[name]}
  <2> HIDE DEF c, func
  <2> QED
    BY <1>1, <1>2
<1>6. rest \in Seq(Names)
  BY <1>2, WithoutType
<1>7. PICK at \in [1..Len(rest) -> 1..Len(old)] :
          /\ \A k \in 1..Len(rest) : rest[k] = old[at[k]] /\ rest[k] # name
          /\ \A j, k \in 1..Len(rest) : j < k => at[j] < at[k]
          /\ \A x \in 1..Len(old) : old[x] # name => \E k \in 1..Len(rest) : at[k] = x
  <2>1. \A j, k \in 1..Len(old) : j # k => old[j] # old[k]
    <3> SUFFICES ASSUME NEW j \in 1..Len(old), NEW k \in 1..Len(old), j # k, old[j] = old[k]
                 PROVE  FALSE
      OBVIOUS
    <3>1. sets.last[old[j]] \in Nat
      BY <1>2
    <3>2. j < k \/ k < j
      OBVIOUS
    <3> QED
      BY <3>1, <3>2 DEF OrderInv, Ordered
  <2> QED
    BY <1>2, <2>1, WithoutOne
<1> HIDE DEF pools, encoders, last, func, c, rest
<1>8. /\ Len(new) = Len(rest) + 1
      /\ new[1] = name
      /\ \A k \in 2..Len(new) : k - 1 \in 1..Len(rest) /\ new[k] = rest[k - 1]
  BY <1>6, ConcatProperties
<1> HIDE DEF new
<1>9. ASSUME NEW k \in 1..Len(rest)
      PROVE  /\ rest[k] \in Names /\ rest[k] # name
             /\ last[rest[k]] = sets.last[rest[k]]
             /\ last[rest[k]] \in Nat /\ last[rest[k]] # 0 /\ last[rest[k]] < func
  <2>1. at[k] \in 1..Len(old) /\ rest[k] = old[at[k]] /\ rest[k] # name
    BY <1>7
  <2>2. /\ rest[k] \in Names /\ sets.last[rest[k]] # 0
        /\ sets.last[rest[k]] <= sets.count
    BY <1>2, <2>1 DEF OrderInv, Ordered
  <2>3. sets.last[rest[k]] \in Nat
    BY <1>2, <2>2
  <2>4. last[rest[k]] = sets.last[rest[k]]
    BY <1>5, <2>1, <2>2
  <2> QED
    BY <1>3, <2>1, <2>2, <2>3, <2>4
<1>10. ASSUME NEW j \in 1..Len(rest), NEW k \in 1..Len(rest), j < k
      PROVE  last[rest[j]] > last[rest[k]]
  <2>1. /\ at[j] \in 1..Len(old) /\ at[k] \in 1..Len(old) /\ at[j] < at[k]
        /\ rest[j] = old[at[j]] /\ rest[k] = old[at[k]]
    BY <1>7, <1>10
  <2>2. sets.last[old[at[j]]] > sets.last[old[at[k]]]
    BY <2>1 DEF OrderInv, Ordered
  <2> QED
    BY <1>9, <2>1, <2>2
<1>11. ASSUME NEW n \in Names, n # name, sets.last[n] # 0
       PROVE  \E k \in 1..Len(new) : new[k] = n
  <2>1. PICK x \in 1..Len(old) : old[x] = n
    BY <1>11 DEF OrderInv, Ordered
  <2>2. PICK k \in 1..Len(rest) : at[k] = x
    BY <1>7, <1>11, <2>1
  <2>3. rest[k] = n
    BY <1>7, <2>1, <2>2
  <2>4. k + 1 \in 2..Len(new) /\ (k + 1) - 1 = k /\ k + 1 \in 1..Len(new)
    BY <1>6, <1>8
  <2>5. new[k + 1] = n
    BY <1>8, <2>3, <2>4
  <2> QED
    BY <2>4, <2>5
<1>12. Ordered'
  <2>1. /\ compressor'.precedence = new /\ compressor'.pools = pools
        /\ compressor'.encoders = encoders /\ sets'.count = func /\ sets'.last = last
    BY <1>4
  <2>2. \A n \in Names : last[n] <= func
    <3> SUFFICES ASSUME NEW n \in Names PROVE last[n] <= func
      OBVIOUS
    <3>1. sets.last[n] \in Nat /\ sets.last[n] <= sets.count
      BY <1>2 DEF OrderInv, Ordered
    <3>2. CASE n = name
      BY <1>2, <1>5, <3>2
    <3>3. CASE n # name
      BY <1>3, <1>5, <3>1, <3>3
    <3> QED
      BY <3>2, <3>3
  <2>3. \A n \in Names : last[n] = 0 => pools[n] = 0 /\ encoders[n] = 0
    BY <1>2, <1>5 DEF OrderInv, Ordered
  <2>4. \A n \in Names : last[n] # 0 => last[n] \in {pools[n], encoders[n]}
    BY <1>2, <1>5 DEF OrderInv, Ordered
  <2>5. \A k \in 1..Len(new) : last[new[k]] # 0
    <3> TAKE k \in 1..Len(new)
    <3>1. CASE k = 1
      BY <1>2, <1>5, <1>8, <3>1
    <3>2. CASE k \in 2..Len(new)
      BY <1>8, <1>9, <3>2
    <3> QED
      BY <1>6, <1>8, <3>1, <3>2
  <2>6. \A j, k \in 1..Len(new) : j < k => last[new[j]] > last[new[k]]
    <3> SUFFICES ASSUME NEW j \in 1..Len(new), NEW k \in 1..Len(new), j < k
                 PROVE  last[new[j]] > last[new[k]]
      OBVIOUS
    <3>1. k \in 2..Len(new) /\ k - 1 \in 1..Len(rest) /\ new[k] = rest[k - 1]
      BY <1>6, <1>8
    <3>2. CASE j = 1
      BY <1>2, <1>5, <1>8, <1>9, <3>1, <3>2
    <3>3. CASE j # 1
      <4>1. j - 1 \in 1..Len(rest) /\ new[j] = rest[j - 1] /\ j - 1 < k - 1
        BY <1>6, <1>8, <3>1, <3>3
      <4> QED
        BY <1>10, <3>1, <4>1
    <3> QED
      BY <3>2, <3>3
  <2>7. \A n \in Names : last[n] # 0 => \E k \in 1..Len(new) : new[k] = n
    <3> SUFFICES ASSUME NEW n \in Names, last[n] # 0
                 PROVE  \E k \in 1..Len(new) : new[k] = n
      OBVIOUS
    <3>1. CASE n = name
      BY <1>6, <1>8, <3>1
    <3>2. CASE n # name
      BY <1>5, <1>11, <3>2
    <3> QED
      BY <3>1, <3>2
  <2> QED
    BY <2>1, <2>2, <2>3, <2>4, <2>5, <2>6, <2>7 DEF Ordered
<1>13. ASSUME NEW r \in Requests PROVE Newest(r)'
  <2>1. writer[r].encoding = "none"
    BY <1>4 DEF Inv, InUse
  <2> QED
    BY <1>4, <2>1 DEF OrderInv, Newest
<1> QED
  BY <1>12, <1>13 DEF OrderInv

LEMMA StartOrders ==
    ASSUME Inv, OrderInv, NEW r \in Requests, Start(r)
    PROVE  OrderInv'
<1> DEFINE P == compressor.precedence
<1>1. /\ pc[r] = "new"
      /\ pc' = [pc EXCEPT ![r] = "handler"]
      /\ UNCHANGED <<compressor, sets, calls, accepted, header, client>>
  BY DEF Start
<1>2. /\ writer[r].encoding = "none" /\ client[r].sent \notin Names /\ client[r].func = 0
      /\ Newest(r)
  <2>1. writer[r].encoding = "none"
    BY <1>1 DEF Inv, InUse
  <2>2. "none" \notin Names
    BY CompressAssumption
  <2>3. client[r].func \in Nat
    BY RequestTypes DEF Inv, Clients
  <2> QED
    BY <2>1, <2>2, <2>3 DEF OrderInv, Newest
<1>3. Ordered'
  BY <1>1 DEF OrderInv, Ordered
<1>4. CASE UNCHANGED <<idle, encoder, writer>>
  <2>1. ASSUME NEW q \in Requests PROVE Newest(q)'
    <3>1. q # r => pc'[q] = pc[q]
      BY <1>1 DEF Inv, TypeOK
    <3> QED
      BY <1>1, <1>2, <1>4, <3>1 DEF OrderInv, Newest
  <2> QED
    BY <1>3, <2>1 DEF OrderInv
<1>5. ASSUME NEW k \in DOMAIN P, Chosen(r, k), Obtain(r, P[k]) PROVE OrderInv'
  <2> DEFINE name == P[k]
             func == IF compressor.pools[name] # 0 THEN compressor.pools[name]
                     ELSE compressor.encoders[name]
  <2>1. name \in Names /\ k \in 1..Len(P) /\ Len(P) \in Nat /\ accepted[r] \subseteq Names
        /\ \A n \in Names : sets.last[n] \in Nat
    BY DEF Inv, TypeOK
  <2>2. name \in accepted[r]
    BY <1>5 DEF Chosen, Usable
  <2>3. ASSUME NEW n \in accepted[r] PROVE sets.last[n] <= sets.last[name]
    <3>1. CASE sets.last[n] = 0
      BY <2>1, <3>1
    <3>2. CASE sets.last[n] # 0
      <4>1. PICK j \in 1..Len(P) : P[j] = n
        BY <2>1, <3>2 DEF OrderInv, Ordered
      <4>2. compressor.pools[n] # 0 \/ compressor.encoders[n] # 0
        BY <2>1, <3>2 DEF OrderInv, Ordered
      <4>3. Usable(r, j)
        BY <4>1, <4>2 DEF Usable
      <4>4. j \notin 1..(k - 1)
        BY <1>5, <4>3 DEF Chosen
      <4>5. CASE j = k
        BY <2>1, <4>1, <4>5
      <4>6. CASE j # k
        <5>1. k < j
          BY <2>1, <4>4, <4>6
        <5>2. sets.last[P[k]] > sets.last[P[j]]
          BY <2>1, <5>1 DEF OrderInv, Ordered
        <5> QED
          BY <2>1, <4>1, <5>2
      <4> QED
        BY <4>5, <4>6
    <3> QED
      BY <3>1, <3>2
  <2>4. func = sets.last[name]
    <3>1. /\ sets.last[name] # 0
          /\ sets.last[name] \in {compressor.pools[name], compressor.encoders[name]}
      BY <2>1 DEF OrderInv, Ordered
    <3>2. compressor.pools[name] = 0 \/ compressor.encoders[name] = 0
      BY <2>1 DEF Inv, TypeOK
    <3> QED
      BY <3>1, <3>2
  <2>5. PICK e \in (Encoders \ (Held \cup idle)) \cup idle :
          /\ idle' = idle \ {e}
          /\ encoder' = [encoder EXCEPT ![e] =
                            [func |-> func, destination |-> r, held |-> 0]]
          /\ writer' = [writer EXCEPT ![r].output = e, ![r].encoding = name]
    BY <1>5 DEF Obtain
  <2>6. e \in Encoders
    BY <2>5 DEF Inv, TypeOK
  <2> HIDE DEF name, func
  <2>7. Newest(r)'
    <3>1. writer'[r].output = e /\ writer'[r].encoding = name /\ encoder'[e].func = func
      BY <2>5, <2>6 DEF Inv, TypeOK
    <3> QED
      BY <1>1, <1>2, <2>1, <2>2, <2>3, <2>4, <3>1, CompressAssumption DEF Newest
  <2>8. ASSUME NEW q \in Requests, q # r PROVE Newest(q)'
    <3>1. pc'[q] = pc[q] /\ writer'[q] = writer[q]
      BY <1>1, <2>5, <2>8 DEF Inv, TypeOK
    <3>2. pc[q] \in Active /\ writer[q].encoding # "none" =>
             encoder'[writer[q].output] = encoder[writer[q].output]
      <4>1. ASSUME pc[q] \in Active, writer[q].encoding # "none"
            PROVE  writer[q].output # e
        <5>1. writer[q].output \in Held
          BY <4>1 DEF Held, Active
        <5>2. writer[q].output # Identity /\ writer[q].output \notin idle
          BY <4>1 DEF Inv, InUse
        <5> QED
          BY <2>5, <5>1, <5>2
      <4>2. writer[q].encoding # "none" => writer[q].output \in Encoders
        BY DEF Inv, InUse, TypeOK
      <4> QED
        BY <2>5, <2>6, <4>1, <4>2 DEF Inv, TypeOK
    <3> QED
      BY <1>1, <3>1, <3>2 DEF OrderInv, Newest, Active
  <2> QED
    BY <1>3, <2>7, <2>8 DEF OrderInv
<1> QED
  BY <1>4, <1>5 DEF Start

(* A step of a request under way leaves its encoding and the makers of the *)
(* encoders alone, and what it sends was its header or its encoder's.      *)
LEMMA RequestOrders ==
    ASSUME Inv, Inv', OrderInv, NEW r \in Requests,
           UNCHANGED <<compressor, sets, accepted>>,
           \A q \in Requests :
              /\ writer'[q].encoding = writer[q].encoding
              /\ writer'[q].output = writer[q].output
              /\ pc'[q] \in Active => pc[q] \in Active
              /\ q # r => client'[q] = client[q],
           \A e \in Encoders : encoder'[e].func = encoder[e].func,
           client'[r].sent \in {client[r].sent, header'[r].encoding},
           \/ client'[r].func = client[r].func
           \/ /\ pc[r] \in Active /\ writer[r].compressible
              /\ client'[r].func = encoder[writer[r].output].func
    PROVE  OrderInv'
<1>1. Ordered'
  BY DEF OrderInv, Ordered
<1>2. ASSUME NEW q \in Requests PROVE Newest(q)'
  <2>1. Newest(q) /\ InUse(q) /\ (InUse(q) /\ Announces(q))'
    BY DEF OrderInv, Inv
  <2>2. writer[q].encoding # "none" => writer[q].output \in Encoders
    BY <2>1 DEF Inv, TypeOK, InUse
  <2>3. client'[q].sent \in Names => client'[q].sent = writer[q].encoding
    <3>1. CASE client'[q].sent = client[q].sent
      BY <2>1, <3>1 DEF Newest
    <3>2. CASE client'[q].sent = header'[q].encoding
      BY <2>1, <3>2, CompressAssumption DEF Announces
    <3> QED
      BY <3>1, <3>2
  <2>4. client'[q].func # 0 => writer[q].encoding # "none"
                               /\ client'[q].func = sets.last[writer[q].encoding]
    <3>1. CASE client'[q].func = client[q].func
      BY <2>1, <3>1 DEF Newest
    <3>2. CASE /\ pc[q] \in Active /\ writer[q].compressible
               /\ client'[q].func = encoder[writer[q].output].func
      BY <2>1, <3>2 DEF InUse, Newest
    <3> QED
      BY <3>1, <3>2
  <2> QED
    BY <2>1, <2>2, <2>3, <2>4 DEF Newest, Active
<1> QED
  BY <1>1, <1>2 DEF OrderInv

(* What goes through an encoder, on a flush or at the end.                 *)
LEMMA EmitOrders ==
    ASSUME Inv, Inv', OrderInv, NEW r \in Requests, NEW ends \in BOOLEAN,
           UNCHANGED <<compressor, sets, accepted, header, writer>>,
           \A q \in Requests : pc'[q] \in Active => pc[q] \in Active,
           pc[r] \in Active, writer[r].compressible,
           Emit(writer[r].output, r, encoder[writer[r].output].held, ends),
           encoder' = [encoder EXCEPT ![writer[r].output].held = 0]
    PROVE  OrderInv'
<1> DEFINE e == writer[r].output
<1>1. e \in Encoders
  BY RequestTypes DEF Inv, InUse, Writers
<1>2. encoder[e].held \in Nat
  BY <1>1, RequestTypes DEF Inv, Uses
<1>3. /\ \A q \in Requests : q # r => client'[q] = client[q]
      /\ client'[r].func = encoder[e].func
      /\ client'[r].sent \in {client[r].sent, header[r].encoding}
  BY <1>2, EmitsToItsClient
<1>4. \A x \in Encoders : encoder'[x].func = encoder[x].func
  BY <1>1, HoldsOnly
<1> QED
  BY <1>3, <1>4, RequestOrders

LEMMA OthersOrder ==
    ASSUME Inv, Inv', OrderInv, NEW r \in Requests, End(r) \/ Close(r) \/ Cleanup(r)
    PROVE  OrderInv'
<1>1. UNCHANGED <<compressor, sets, accepted, header, writer>>
  BY DEF End, Close, Cleanup
<1>2. pc[r] \in Active /\ \A q \in Requests : pc'[q] \in Active => pc[q] \in Active
  <2>1. pc[r] \in Active /\ pc' = [pc EXCEPT ![r] = Deferred[pc[r]]]
    BY DEF End, Close, Cleanup, Active
  <2> QED
    BY <2>1 DEF Inv, TypeOK
<1>3. CASE UNCHANGED <<encoder, client>>
  BY <1>1, <1>2, <1>3, RequestOrders
<1>4. CASE ~UNCHANGED <<encoder, client>>
  <2>1. Close(r) /\ writer[r].compressible
    BY <1>4 DEF End, Close, Cleanup
  <2>2. /\ Emit(writer[r].output, r, encoder[writer[r].output].held, TRUE)
        /\ encoder' = [encoder EXCEPT ![writer[r].output].held = 0]
    BY <2>1 DEF Close
  <2> QED
    BY <1>1, <1>2, <2>1, <2>2, EmitOrders
<1> QED
  BY <1>3, <1>4

LEMMA CallOrders ==
    ASSUME Inv, Inv', OrderInv, NEW r \in Requests, Call(r)
    PROVE  OrderInv'
<1> DEFINE h == HeaderFor(r)
           w == WriterFor(r)
<1>1. /\ UNCHANGED <<compressor, sets, accepted, pc>> /\ pc[r] \in Active
      /\ writer \in [Requests -> Writers] /\ client \in [Requests -> Clients]
      /\ encoder \in [Encoders -> Uses] /\ header \in [Requests -> HeaderStates]
  BY RequestTypes DEF Call, Active, Inv
<1>2. /\ h \in HeaderStates /\ w \in Writers
      /\ w.output = writer[r].output /\ w.encoding = writer[r].encoding
      /\ w.compressible => w.output # Identity
      /\ writer[r].wroteHeader => h = header[r] /\ w = writer[r]
  BY DecidedOnce
<1>3. h.encoding \in Names \cup {"none", "own"}
  BY <1>2 DEF HeaderStates
<1>4. ASSUME NEW final \in BOOLEAN, WriteHeader(r, final) PROVE OrderInv'
  <2>1. /\ header' = [header EXCEPT ![r] = h] /\ writer' = [writer EXCEPT ![r] = w]
        /\ encoder' = encoder
        /\ \/ client' = client
           \/ client' = [client EXCEPT ![r] = Sent(client[r], h.encoding, "header")]
    BY <1>4 DEF WriteHeader
  <2> HIDE DEF h, w
  <2>2. /\ \A q \in Requests : q # r => client'[q] = client[q]
        /\ client'[r].func = client[r].func
        /\ client'[r].sent \in {client[r].sent, h.encoding}
    BY <1>1, <1>3, <2>1, SentOnce
  <2>3. /\ header'[r] = h
        /\ \A q \in Requests : writer'[q].encoding = writer[q].encoding
                               /\ writer'[q].output = writer[q].output
    BY <1>1, <1>2, <2>1
  <2> QED
    BY <1>1, <2>1, <2>2, <2>3, RequestOrders
<1>5. CASE Write(r)
  <2> DEFINE v == [w EXCEPT !.written = @ + 1]
             c == IF writer[r].wroteHeader THEN client[r]
                  ELSE Sent(client[r], h.encoding, "header")
             s == Sent(c, h.encoding, "body")
             d == [s EXCEPT !.plain = @ + 1]
  <2>1. /\ header' = [header EXCEPT ![r] = h] /\ writer' = [writer EXCEPT ![r] = v]
        /\ \/ /\ w.compressible /\ client' = [client EXCEPT ![r] = c]
              /\ encoder' = [encoder EXCEPT ![w.output].held = @ + 1]
           \/ client' = [client EXCEPT ![r] = d] /\ encoder' = encoder
    BY <1>2, <1>5 DEF Write
  <2> HIDE DEF h, w
  <2>2. v.output = writer[r].output /\ v.encoding = writer[r].encoding
    BY <1>2 DEF Writers
  <2>3. c \in Clients /\ c.func = client[r].func /\ c.sent \in {client[r].sent, h.encoding}
    BY <1>1, <1>3, SentOnce
  <2> HIDE DEF c
  <2>4. s \in Clients /\ s.func = c.func /\ s.sent \in {c.sent, h.encoding}
    BY <1>3, <2>3, SentOnce
  <2> HIDE DEF s
  <2>5. d.func = s.func /\ d.sent = s.sent
    BY <2>4 DEF Clients
  <2> HIDE DEF d, v
  <2>6. /\ \A q \in Requests : q # r => client'[q] = client[q]
        /\ client'[r].func = client[r].func
        /\ client'[r].sent \in {client[r].sent, h.encoding}
    BY <1>1, <2>1, <2>3, <2>4, <2>5
  <2>7. /\ header'[r] = h
        /\ \A q \in Requests : writer'[q].encoding = writer[q].encoding
                               /\ writer'[q].output = writer[q].output
    BY <1>1, <2>1, <2>2
  <2>8. \A x \in Encoders : encoder'[x].func = encoder[x].func
    <3>1. CASE encoder' = encoder
      BY <3>1
    <3>2. CASE w.compressible /\ encoder' = [encoder EXCEPT ![w.output].held = @ + 1]
      <4>1. w.output \in Encoders
        BY <1>2, <3>2 DEF Writers
      <4>2. encoder[w.output].held + 1 \in Nat
        BY <1>1, <4>1 DEF Uses
      <4>3. encoder' = [encoder EXCEPT ![w.output].held = encoder[w.output].held + 1]
        BY <3>2
      <4> QED
        BY <4>1, <4>2, <4>3, HoldsOnly
    <3> QED
      BY <2>1, <3>1, <3>2
  <2> QED
    BY <1>1, <2>6, <2>7, <2>8, RequestOrders
<1>6. CASE Flush(r)
  <2>1. UNCHANGED <<header, writer>>
    BY <1>6 DEF Flush
  <2>2. CASE writer[r].compressible
    <3>1. /\ Emit(writer[r].output, r, encoder[writer[r].output].held, FALSE)
          /\ encoder' = [encoder EXCEPT ![writer[r].output].held = 0]
      BY <1>6, <2>2 DEF Flush
    <3> QED
      BY <1>1, <2>1, <2>2, <3>1, EmitOrders
  <2>3. CASE ~writer[r].compressible
    <3>1. /\ client' = [client EXCEPT ![r] = Sent(client[r], header[r].encoding, "flush")]
          /\ encoder' = encoder
      BY <1>6, <2>3 DEF Flush
    <3>2. header[r].encoding \in Names \cup {"none", "own"}
      BY <1>1 DEF HeaderStates
    <3>3. /\ \A q \in Requests : q # r => client'[q] = client[q]
          /\ client'[r].func = client[r].func
          /\ client'[r].sent \in {client[r].sent, header[r].encoding}
      BY <1>1, <3>1, <3>2, SentOnce
    <3> QED
      BY <1>1, <2>1, <3>1, <3>3, RequestOrders
  <2> QED
    BY <2>2, <2>3
<1> QED
  BY <1>4, <1>5, <1>6 DEF Call

-----------------------------------------------------------------------------
(* However often encoders were replaced, what a client is told is, of the  *)
(* encodings it accepts, the one that SetEncoder was called for last, and  *)
(* it was made by the function of that call (compress_gp.go 77-145).       *)
THEOREM NewestEncoderIsChosen == Spec => []LastSetEncoderEncodes
<1>1. Inv /\ Inv' /\ OrderInv /\ [Next]_vars => OrderInv'
  <2> SUFFICES ASSUME Inv, Inv', OrderInv, [Next]_vars PROVE OrderInv'
    OBVIOUS
  <2>1. ASSUME NEW name \in Names, NEW resettable \in BOOLEAN, SetEncoder(name, resettable)
        PROVE  OrderInv'
    BY <2>1, SetEncoderOrders
  <2>2. ASSUME NEW r \in Requests, Start(r) PROVE OrderInv'
    BY <2>2, StartOrders
  <2>3. ASSUME NEW r \in Requests, Call(r) PROVE OrderInv'
    BY <2>3, CallOrders
  <2>4. ASSUME NEW r \in Requests, End(r) \/ Close(r) \/ Cleanup(r) PROVE OrderInv'
    BY <2>4, OthersOrder
  <2>5. CASE UNCHANGED vars
    BY <2>5 DEF vars, OrderInv, Ordered, Newest
  <2> QED
    BY <2>1, <2>2, <2>3, <2>4, <2>5 DEF Next
<1>2. Inv /\ OrderInv => LastSetEncoderEncodes
  <2> SUFFICES ASSUME Inv, OrderInv, NEW r \in Requests, client[r].sent \in Names
               PROVE  /\ client[r].sent \in accepted[r]
                      /\ \A n \in accepted[r] : sets.last[n] <= sets.last[client[r].sent]
                      /\ client[r].func # 0 => client[r].func = sets.last[client[r].sent]
    BY DEF LastSetEncoderEncodes
  <2> QED
    BY CompressAssumption DEF OrderInv, Newest
<1> QED
  BY OrderInit, InvHolds, <1>1, <1>2, PTL DEF Spec
=============================================================================

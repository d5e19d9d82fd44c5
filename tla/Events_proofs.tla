---------------------------- MODULE Events_proofs ----------------------------
(***************************************************************************)
(* A watch shows whole events of the types asked for, each once and in     *)
(* order, and says truly why it ends, for all types, requests, numbers of  *)
(* retries, events and lines.                                              *)
(***************************************************************************)
EXTENDS Events, SequenceTheorems, TLAPS

Lines ==
  [field : {"data"}, value : Nat \ {0}] \cup [field : {"retry"}, value : Delays] \cup {Blank}

TypeFlags ==
  /\ received \in BOOLEAN /\ expired \in BOOLEAN /\ canceled \in BOOLEAN
  /\ open \in BOOLEAN /\ heard \in BOOLEAN

TypeWatch ==
  /\ pc \in {"idle", "check", "connect", "stream", "wait", "ended"}
  /\ request \in Requests \cup {NoRequest}
  /\ attempt \in Nat /\ serverDelay \in Delays
  /\ shown \in Seq(Nat)

TypeStream ==
  /\ event \in Nat /\ retryDelay \in Delays
  /\ wire \in Seq(Lines)

TypeHistory ==
  /\ published \in Seq(Types) /\ torn \subseteq 1 .. Len(published)
  /\ fruitless \in Nat

TypeOK == TypeFlags /\ TypeWatch /\ TypeStream /\ TypeHistory

\* A blank line follows the data of an event and nothing else; only a broken
\* connection ends behind data.
Framed ==
  /\ pc # "stream" => wire = <<>> /\ ~open /\ event = 0
  /\ \A i \in 1 .. Len(wire) :
       wire[i] = Blank <=> IF i = 1 THEN event # 0 ELSE wire[i - 1].field = "data"
  /\ open => IF wire = <<>> THEN event = 0 ELSE wire[Len(wire)].field # "data"

\* What is under way has been published, is in order, and comes after all that was shown.
UnderWay ==
  /\ \A i \in 1 .. Len(wire) : wire[i].field = "data" =>
       /\ wire[i].value \in 1 .. Len(published) /\ event < wire[i].value
       /\ \A k \in 1 .. Len(shown) : shown[k] < wire[i].value
       /\ \A j \in 1 .. Len(wire) : i < j /\ wire[j].field = "data" => wire[i].value < wire[j].value
  /\ event # 0 =>
       event \in 1 .. Len(published) /\ \A k \in 1 .. Len(shown) : shown[k] < event

\* An event that was cut off has no blank line coming.
TornApart ==
  /\ \A i \in 1 .. Len(wire) :
       wire[i].field = "data" /\ i < Len(wire) => wire[i].value \notin torn
  /\ event # 0 /\ wire # <<>> => event \notin torn

\* The attempt counter counts the connections without an event since the last one.
Counting ==
  /\ pc \in {"idle", "check"} => attempt = 0 /\ ~heard /\ fruitless = 0
  /\ pc \in {"idle", "check", "connect"} => ~received
  /\ received /\ pc = "stream" => heard /\ fruitless = 0
  /\ ~received /\ pc \in {"connect", "stream"} => 
       (heard => attempt = fruitless + 1) /\ (~heard => attempt = fruitless)
  /\ pc \in {"connect", "stream"} => attempt <= Retries
  /\ pc = "wait" =>
       attempt < Retries /\ (heard => fruitless = attempt) /\ (~heard => fruitless = attempt + 1)

\* A request that runs was accepted, and only a deadline that was asked for passes.
Asked ==
  /\ pc = "idle" => shown = <<>> /\ ~expired
  /\ pc # "ended" <=> outcome = "none"
  /\ pc \notin {"idle", "ended"} => Accepts(request)
  /\ expired => request.once

\* The inductive invariant.
IInv ==
  /\ TypeOK /\ Framed /\ UnderWay /\ TornApart /\ Counting /\ Asked
  /\ ShownRight /\ EndRight

-----------------------------------------------------------------------------

LEMMA RetriesNat == Retries \in Nat
  BY EventsAssumption

\* The three kinds of lines.
LEMMA LineKinds ==
  ASSUME NEW l \in Lines
  PROVE  /\ l = Blank <=> l.field = ""
         /\ l.field = "data" => l.value \in Nat \ {0}
         /\ l.field = "retry" => l.value \in Delays
         /\ l.field \in {"", "data", "retry"}
<1>1. Blank.field = "" /\ Blank.value = 0
  BY DEF Blank, Line
<1>2. CASE l \in [field : {"data"}, value : Nat \ {0}]
  BY <1>1, <1>2
<1>3. CASE l \in [field : {"retry"}, value : Delays]
  BY <1>1, <1>3
<1>4. CASE l = Blank
  BY <1>1, <1>4
<1> QED
  BY <1>2, <1>3, <1>4 DEF Lines

\* The lines that are sent are lines.
LEMMA LinesSent ==
  /\ \A n \in Nat \ {0} : Line("data", n) \in Lines
  /\ \A d \in Delays : Line("retry", d) \in Lines
  /\ Blank \in Lines
  BY DEF Lines, Line, Blank

\* A watch that ends leaves nothing on the wire.
LEMMA EndKeeps ==
  ASSUME IInv, NEW result, End(result), shown' = shown, published' = published, torn' = torn
  PROVE  Framed' /\ UnderWay' /\ TornApart'
  BY DEF End, Framed, UnderWay, TornApart, IInv

\* So does one that goes on with nothing on the wire.
LEMMA EmptyKeeps ==
  ASSUME IInv, wire' = <<>>, event' = 0, shown' = shown, published' = published, torn' = torn,
         open' => pc' = "stream"
  PROVE  Framed' /\ UnderWay' /\ TornApart'
  BY DEF Framed, UnderWay, TornApart, IInv

\* What was shown stays right.
LEMMA ShownKeeps ==
  ASSUME IInv, shown' = shown, published' = published, torn' = torn, request' = request
  PROVE  ShownRight'
  BY DEF IInv, ShownRight, Selected

LEMMA InitInvariant == Init => IInv
<1> SUFFICES ASSUME Init PROVE IInv
  OBVIOUS
<1> USE DEF Init
<1>1. TypeOK
  <2>0. TypeFlags
    BY DEF TypeFlags
  <2>1. TypeWatch
    BY DEF TypeWatch, Delays
  <2>2. TypeStream
    BY DEF TypeStream, Delays
  <2>3. TypeHistory
    BY DEF TypeHistory
  <2> QED
    BY <2>0, <2>1, <2>2, <2>3 DEF TypeOK
<1>2. Framed /\ UnderWay /\ TornApart /\ Counting /\ Asked
  BY DEF Framed, UnderWay, TornApart, Counting, Asked
<1>3. ShownRight /\ EndRight
  BY DEF ShownRight, EndRight, NoRequest
<1> QED
  BY <1>1, <1>2, <1>3 DEF IInv

LEMMA StartInvariant == ASSUME IInv, Start PROVE IInv'
<1> PICK r \in Requests :
      /\ request' = r
      /\ IF Accepts(r) THEN pc' = "check" /\ outcome' = outcome
                       ELSE pc' = "ended" /\ outcome' = "usage"
  BY DEF Start
<1>1. pc = "idle" /\ UNCHANGED <<attempt, received, serverDelay, shown, decoder, context, connection,
                 published, torn, history>>
  BY DEF Start
<1> USE DEF decoder, context, connection, history
<1>2. TypeOK'
  <2>1. TypeFlags'
    BY <1>1 DEF IInv, TypeOK, TypeFlags
  <2>2. TypeWatch' /\ TypeStream' /\ TypeHistory'
    BY <1>1 DEF IInv, TypeOK, TypeWatch, TypeStream, TypeHistory
  <2> QED
    BY <2>1, <2>2 DEF TypeOK
<1>3. Framed' /\ UnderWay' /\ TornApart'
  BY <1>1, EmptyKeeps DEF IInv, Framed
<1>4. Counting' /\ Asked'
  BY <1>1 DEF IInv, Counting, Asked, TypeOK, TypeWatch
<1>5. ShownRight'
  BY <1>1 DEF IInv, ShownRight, Asked
<1>6. EndRight'
  <2>1. shown' = <<>> /\ outcome' \in {"none", "usage"}
    BY <1>1 DEF IInv, Asked
  <2> QED
    BY <2>1 DEF EndRight
<1> QED
  BY <1>2, <1>3, <1>4, <1>5, <1>6 DEF IInv

LEMMA CheckInvariant == ASSUME IInv, Check PROVE IInv'
<1>1. /\ pc = "check" /\ pc' \in {"connect", "ended"}
      /\ UNCHANGED <<request, attempt, received, serverDelay, shown, retryDelay, context,
                 published, torn, history>>
  BY DEF Check, End
<1>2. wire' = <<>> /\ event' = 0 /\ open' = FALSE
  BY <1>1 DEF Check, End, IInv, Framed, connection, TypeOK, TypeFlags
<1> USE DEF context, history
<1>3. TypeOK'
  <2>1. TypeWatch' /\ TypeHistory'
    BY <1>1 DEF IInv, TypeOK, TypeWatch, TypeHistory
  <2>2. TypeStream'
    BY <1>1, <1>2 DEF IInv, TypeOK, TypeStream
  <2>3. TypeFlags'
    BY <1>1, <1>2 DEF IInv, TypeOK, TypeFlags
  <2> QED
    BY <2>1, <2>2, <2>3 DEF TypeOK
<1>4. Framed' /\ UnderWay' /\ TornApart'
  BY <1>1, <1>2, EmptyKeeps
<1>5. Counting'
  <2>1. attempt' = 0 /\ fruitless' = 0 /\ ~heard' /\ ~received'
    BY <1>1 DEF IInv, Counting
  <2>2. 0 <= Retries
    BY RetriesNat
  <2> QED
    BY <1>1, <2>1, <2>2 DEF Counting
<1>6. Asked' /\ EndRight'
  <2>1. /\ outcome = "none" /\ shown' = shown /\ request' = request
        /\ \/ pc' = "connect" /\ outcome' = "none"
           \/ pc' = "ended" /\ outcome' \in {"error", "unsupported", "canceled"}
    BY <1>1 DEF IInv, Asked, Check, End
  <2>2. Asked'
    BY <1>1, <2>1 DEF IInv, Asked, Accepts
  <2>3. EndRight'
    BY <2>1 DEF IInv, EndRight
  <2> QED
    BY <2>2, <2>3
<1>7. ShownRight'
  BY <1>1, ShownKeeps
<1> QED
  BY <1>3, <1>4, <1>5, <1>6, <1>7 DEF IInv

\* A watch whose context ends, or that gives up for another reason than a lost connection.
LEMMA EndInvariant ==
  ASSUME IInv, pc \notin {"idle", "ended"},
         NEW result \in {"error", "unsupported", "canceled", "no match", "delay too long"},
         result = "no match" => expired /\ ~canceled,
         End(result),
         UNCHANGED <<request, attempt, received, serverDelay, shown, retryDelay, context,
                 published, torn, history>>
  PROVE  IInv'
<1> USE DEF context, history
<1>1. pc' = "ended" /\ outcome' = result /\ open' = FALSE /\ wire' = <<>> /\ event' = 0
  BY DEF End
<1>2. TypeOK'
  <2>1. TypeFlags'
    BY <1>1 DEF IInv, TypeOK, TypeFlags
  <2>2. TypeWatch' /\ TypeHistory'
    BY <1>1 DEF IInv, TypeOK, TypeWatch, TypeHistory
  <2>3. TypeStream'
    <3>0. event' = 0 /\ wire' = <<>>
      BY <1>1
    <3>1. event' \in Nat
      BY <3>0
    <3>3. wire' \in Seq(Lines)
      BY <3>0, EmptySeq
    <3>2. retryDelay' \in Delays
      BY DEF IInv, TypeOK, TypeStream
    <3> QED
      BY <3>1, <3>2, <3>3 DEF TypeStream
  <2> QED
    BY <2>1, <2>2, <2>3 DEF TypeOK
<1>3. Framed' /\ UnderWay' /\ TornApart'
  BY <1>1, EmptyKeeps
<1>4. Counting'
  BY <1>1 DEF Counting
<1>5. Asked'
  BY <1>1 DEF IInv, Asked
<1>6. EndRight'
  <2>1. request.once => shown = <<>>
    <3>1. outcome = "none"
      BY DEF IInv, Asked
    <3> QED
      BY <3>1, EmptySeq DEF IInv, EndRight, TypeOK, TypeWatch
  <2>2. expired => request.once
    BY DEF IInv, Asked
  <2>3. /\ request.once => Len(shown) = 0
        /\ result = "no match" => shown = <<>> /\ expired /\ ~canceled
    BY <2>1, <2>2
  <2>4. outcome' \notin {"done", "disconnected", "logout"}
    BY <1>1
  <2>5. request'.once => Len(shown') = 0
    BY <2>3
  <2>6. outcome' = "no match" => shown' = <<>> /\ expired' /\ ~canceled'
    BY <1>1, <2>3
  <2> QED
    BY <2>4, <2>5, <2>6 DEF EndRight
<1>7. ShownRight'
  BY ShownKeeps
<1> QED
  BY <1>2, <1>3, <1>4, <1>5, <1>6, <1>7 DEF IInv

\* The reason given for an ended context is the true one.
LEMMA ContextInvariant ==
  ASSUME IInv, pc \notin {"idle", "ended"}, ContextDone, End(ContextError),
         UNCHANGED <<request, attempt, received, serverDelay, shown, retryDelay, context,
                 published, torn, history>>
  PROVE  IInv'
<1>1. /\ ContextError \in {"error", "unsupported", "canceled", "no match", "delay too long"}
      /\ ContextError = "no match" => expired /\ ~canceled
  BY DEF ContextError, ContextDone
<1> QED
  BY <1>1, EndInvariant

\* A connection that failed or is over.
LEMMA DisconnectedInvariant ==
  ASSUME IInv, Disconnected, pc \in {"connect", "stream"}, wire = <<>>, ~open
  PROVE  IInv'
<1> USE DEF context, history, connection
<1>1. /\ UNCHANGED <<request, received, serverDelay, shown, retryDelay, expired, canceled, published,
                 torn, heard>>
      /\ wire' = <<>> /\ event' = 0 /\ open' = FALSE
      /\ \/ pc' = "ended" /\ outcome' = "disconnected" /\ Attempt >= Retries
         \/ pc' = "wait" /\ outcome' = outcome /\ ~(Attempt >= Retries)
  BY DEF Disconnected, End, IInv, TypeOK, TypeFlags
<1>2. /\ attempt' \in Nat /\ fruitless' \in Nat /\ attempt' = Attempt
      /\ Attempt <= Retries
      /\ heard => fruitless' = Attempt
      /\ ~heard => fruitless' = Attempt + 1
  <2>1. attempt \in Nat /\ fruitless \in Nat /\ Retries \in Nat /\ attempt <= Retries
    BY RetriesNat DEF IInv, TypeOK, TypeWatch, TypeHistory, Counting
  <2>2. CASE received
    <3>1. heard /\ Attempt = 0 /\ attempt' = 0 /\ fruitless' = 0
      BY <2>2 DEF IInv, Counting, Disconnected, Attempt
    <3> QED
      BY <2>1, <3>1
  <2>3. CASE ~received
    <3>1. Attempt = attempt /\ attempt' = attempt
      BY <2>3 DEF Disconnected, Attempt
    <3>2. (heard => attempt = fruitless + 1) /\ (~heard => attempt = fruitless)
      BY <2>3 DEF IInv, Counting
    <3>3. fruitless <= Retries
      BY <2>1, <3>2
    <3>4. fruitless' = IF fruitless <= Retries + 1 THEN fruitless + 1 ELSE fruitless
      BY <2>3 DEF Disconnected
    <3>5. fruitless' = fruitless + 1
      BY <2>1, <3>3, <3>4
    <3> QED
      BY <2>1, <3>1, <3>2, <3>5
  <2> QED
    BY <2>2, <2>3
<1>3. TypeOK'
  <2>1. TypeFlags'
    BY <1>1 DEF IInv, TypeOK, TypeFlags
  <2>2. TypeWatch' /\ TypeStream' /\ TypeHistory'
    BY <1>1, <1>2 DEF IInv, TypeOK, TypeWatch, TypeStream, TypeHistory
  <2> QED
    BY <2>1, <2>2 DEF TypeOK
<1>4. Framed' /\ UnderWay' /\ TornApart'
  BY <1>1, EmptyKeeps
<1>5. Attempt >= Retries => Attempt = Retries
  BY <1>2, RetriesNat
<1>6. ~(Attempt >= Retries) => Attempt < Retries
  BY <1>2, RetriesNat
<1>7. Counting'
  BY <1>1, <1>2, <1>6 DEF Counting
<1>8. Asked'
  BY <1>1 DEF IInv, Asked, Accepts
<1>9. EndRight'
  <2>1. outcome = "none" /\ (request.once => Len(shown) = 0)
    BY DEF IInv, Asked, EndRight
  <2>2. outcome' = "disconnected" =>
          /\ heard' => fruitless' = Retries
          /\ ~heard' => fruitless' = Retries + 1
    BY <1>1, <1>2, <1>5, <2>1
  <2>3. outcome' = "disconnected" => fruitless' = Retries + (IF heard' THEN 0 ELSE 1)
    BY <2>2, RetriesNat
  <2>4. outcome' \in {"none", "disconnected"} /\ (request'.once => Len(shown') = 0)
    BY <1>1, <2>1
  <2> QED
    BY <2>3, <2>4 DEF EndRight
<1>10. ShownRight'
  BY <1>1, ShownKeeps
<1> QED
  BY <1>3, <1>4, <1>7, <1>8, <1>9, <1>10 DEF IInv

LEMMA ConnectInvariant == ASSUME IInv, Connect PROVE IInv'
<1> USE DEF context, history
<1>1. pc = "connect" /\ wire = <<>> /\ ~open
  BY DEF Connect, IInv, Framed
<1>2. CASE Disconnected
  BY <1>1, <1>2, DisconnectedInvariant
<1>3. CASE ContextDone /\ End(ContextError) /\
      UNCHANGED <<request, attempt, received, serverDelay, shown, retryDelay, context,
                       published, torn, history>>
  BY <1>1, <1>3, ContextInvariant
<1>4. CASE /\ pc' = "stream"
           /\ open' = TRUE /\ wire' = <<>> /\ event' = 0 /\ retryDelay' = "none"
           /\ UNCHANGED <<request, attempt, received, serverDelay, shown, outcome, context,
                       published, torn, history>>
  <2>1. TypeOK'
    <3>1. TypeFlags'
      BY <1>4 DEF IInv, TypeOK, TypeFlags
    <3>2. TypeWatch' /\ TypeHistory'
      BY <1>4 DEF IInv, TypeOK, TypeWatch, TypeHistory
    <3>3. TypeStream'
      BY <1>4 DEF TypeStream, Delays
    <3> QED
      BY <3>1, <3>2, <3>3 DEF TypeOK
  <2>2. Framed' /\ UnderWay' /\ TornApart'
    BY <1>4, EmptyKeeps
  <2>3. Counting' /\ Asked'
    BY <1>1, <1>4 DEF IInv, Counting, Asked, Accepts
  <2>4. ShownRight' /\ EndRight'
    BY <1>1, <1>4, ShownKeeps DEF IInv, EndRight, Asked
  <2> QED
    BY <2>1, <2>2, <2>3, <2>4 DEF IInv
<1> QED
  BY <1>2, <1>3, <1>4 DEF Connect

LEMMA StreamEndsInvariant == ASSUME IInv, EndOfStream \/ StreamCanceled PROVE IInv'
<1>1. CASE EndOfStream
  BY <1>1, DisconnectedInvariant DEF EndOfStream
<1>2. CASE StreamCanceled
  BY <1>2, ContextInvariant DEF StreamCanceled
<1> QED
  BY <1>1, <1>2

LEMMA WaitInvariant == ASSUME IInv, Wait PROVE IInv'
<1> USE DEF context, history, connection
<1>1. pc = "wait" /\ wire = <<>> /\ ~open /\ event = 0 /\ outcome = "none"
  BY DEF Wait, IInv, Framed, Asked
<1>2. UNCHANGED <<request, shown, retryDelay, context, published, torn, history>>
  BY DEF Wait
<1>3. CASE ContextDone /\ End(ContextError) /\ UNCHANGED <<attempt, received, serverDelay>>
  BY <1>1, <1>2, <1>3, ContextInvariant
<1>4. CASE End("delay too long") /\ UNCHANGED <<attempt, received, serverDelay>>
  BY <1>1, <1>2, <1>4, EndInvariant
<1>5. CASE /\ pc' = "connect" /\ attempt' = attempt + 1
           /\ received' = FALSE /\ serverDelay' = "none"
           /\ UNCHANGED <<outcome, connection, event>>
  <2>1. attempt \in Nat /\ fruitless \in Nat /\ Retries \in Nat
    BY RetriesNat DEF IInv, TypeOK, TypeWatch, TypeHistory
  <2>2. TypeOK'
    <3>1. TypeFlags'
      BY <1>2, <1>5 DEF IInv, TypeOK, TypeFlags
    <3>2. TypeWatch'
      BY <1>2, <1>5, <2>1 DEF IInv, TypeOK, TypeWatch, Delays
    <3>3. TypeStream' /\ TypeHistory'
      BY <1>2, <1>5 DEF IInv, TypeOK, TypeStream, TypeHistory
    <3> QED
      BY <3>1, <3>2, <3>3 DEF TypeOK
  <2>3. Framed' /\ UnderWay' /\ TornApart'
    BY <1>1, <1>2, <1>5, EmptyKeeps
  <2>4. Counting'
    <3>1. attempt < Retries /\ (heard => fruitless = attempt) /\ (~heard => fruitless = attempt + 1)
      BY <1>1 DEF IInv, Counting
    <3>2. /\ attempt' <= Retries
          /\ heard' => attempt' = fruitless' + 1
          /\ ~heard' => attempt' = fruitless'
      BY <1>2, <1>5, <2>1, <3>1
    <3>3. ~received' /\ pc' = "connect"
      BY <1>5
    <3> QED
      BY <3>2, <3>3 DEF Counting
  <2>5. Asked'
    BY <1>1, <1>2, <1>5 DEF IInv, Asked, Accepts
  <2>6. ShownRight' /\ EndRight'
    BY <1>1, <1>2, <1>5, ShownKeeps DEF IInv, EndRight
  <2> QED
    BY <2>2, <2>3, <2>4, <2>5, <2>6 DEF IInv
<1> QED
  BY <1>3, <1>4, <1>5 DEF Wait

LEMMA ContextEndsInvariant == ASSUME IInv, Expire \/ Interrupt PROVE IInv'
<1> USE DEF watch, decoder, connection, history
<1>1. UNCHANGED <<watch, decoder, connection, published, torn, history>>
  BY DEF Expire, Interrupt
<1>2. TypeOK'
  <2>1. TypeFlags'
    BY <1>1 DEF IInv, TypeOK, TypeFlags, Expire, Interrupt
  <2>2. TypeWatch' /\ TypeStream' /\ TypeHistory'
    BY <1>1 DEF IInv, TypeOK, TypeWatch, TypeStream, TypeHistory
  <2> QED
    BY <2>1, <2>2 DEF TypeOK
<1>3. Framed' /\ UnderWay' /\ TornApart' /\ Counting' /\ ShownRight'
  <2>1. /\ pc' = pc /\ wire' = wire /\ open' = open /\ event' = event /\ shown' = shown
        /\ published' = published /\ torn' = torn /\ request' = request
        /\ attempt' = attempt /\ received' = received /\ heard' = heard
        /\ fruitless' = fruitless
    BY <1>1
  <2>2. Framed'
    BY <2>1 DEF IInv, Framed
  <2>3. UnderWay'
    BY <2>1 DEF IInv, UnderWay
  <2>4. TornApart'
    BY <2>1 DEF IInv, TornApart
  <2>5. Counting'
    BY <2>1 DEF IInv, Counting
  <2>6. ShownRight'
    BY <2>1, ShownKeeps
  <2> QED
    BY <2>2, <2>3, <2>4, <2>5, <2>6
<1>4. pc \notin {"idle", "ended"} /\ (Expire => request.maxWait > 0)
  BY DEF Expire, Interrupt
<1>5. (Expire => request.once) /\ (Interrupt => expired' = expired)
  BY <1>4 DEF IInv, Asked, Accepts, Interrupt
<1>6. Asked'
  <2>1. expired' => request.once
    BY <1>5 DEF IInv, Asked
  <2> QED
    BY <1>1, <1>4, <2>1 DEF IInv, Asked, Accepts
<1>7. EndRight'
  BY <1>1, <1>4 DEF IInv, EndRight, Asked
<1> QED
  BY <1>2, <1>3, <1>6, <1>7 DEF IInv

-----------------------------------------------------------------------------
(* The stream *)

\* The lines on the wire.
LEMMA WireLines ==
  ASSUME IInv
  PROVE  /\ Len(wire) \in Nat /\ DOMAIN wire = 1 .. Len(wire)
         /\ \A i \in 1 .. Len(wire) :
              /\ wire[i] \in Lines
              /\ wire[i] = Blank <=> wire[i].field = ""
              /\ wire[i].field = "data" => wire[i].value \in Nat \ {0}
         /\ Len(published) \in Nat /\ Len(shown) \in Nat
         /\ \A k \in 1 .. Len(shown) : shown[k] \in 1 .. Len(published)
         /\ wire # <<>> =>
              /\ Len(wire) > 0 /\ Head(wire) = wire[1]
              /\ Tail(wire) \in Seq(Lines) /\ Len(Tail(wire)) = Len(wire) - 1
              /\ \A i \in 1 .. Len(wire) - 1 : Tail(wire)[i] = wire[i + 1]
<1>1. wire \in Seq(Lines) /\ published \in Seq(Types) /\ shown \in Seq(Nat)
  BY DEF IInv, TypeOK, TypeWatch, TypeStream, TypeHistory
<1>2. Len(wire) \in Nat /\ DOMAIN wire = 1 .. Len(wire)
  BY <1>1, LenProperties
<1>3. ASSUME NEW i \in 1 .. Len(wire)
      PROVE  /\ wire[i] \in Lines
             /\ wire[i] = Blank <=> wire[i].field = ""
             /\ wire[i].field = "data" => wire[i].value \in Nat \ {0}
  <2>1. wire[i] \in Lines
    BY <1>1, ElementOfSeq
  <2> QED
    BY <2>1, LineKinds
<1>4. Len(published) \in Nat /\ Len(shown) \in Nat /\ DOMAIN shown = 1 .. Len(shown)
  BY <1>1, LenProperties
<1>5. \A k \in 1 .. Len(shown) : shown[k] \in 1 .. Len(published)
  BY <1>4 DEF IInv, ShownRight
<1>6. ASSUME wire # <<>>
      PROVE  /\ Len(wire) > 0 /\ Head(wire) = wire[1]
             /\ Tail(wire) \in Seq(Lines) /\ Len(Tail(wire)) = Len(wire) - 1
             /\ \A i \in 1 .. Len(wire) - 1 : Tail(wire)[i] = wire[i + 1]
  <2>1. /\ Tail(wire) \in Seq(Lines) /\ Len(Tail(wire)) = Len(wire) - 1
        /\ \A i \in 1 .. Len(Tail(wire)) : Tail(wire)[i] = wire[i + 1]
    BY <1>1, <1>6, HeadTailProperties
  <2>2. Len(wire) \in Nat \ {0}
    BY <1>1, <1>6, EmptySeq
  <2> QED
    BY <2>1, <2>2
<1> QED
  BY <1>2, <1>3, <1>4, <1>5, <1>6

\* A line is read: what follows keeps its order and its frame.
LEMMA LineRead ==
  ASSUME IInv, pc' = "stream", wire # <<>>,
         wire' \in Seq(Lines), Len(wire') = Len(wire) - 1,
         \A i \in 1 .. Len(wire) - 1 : wire'[i] = wire[i + 1],
         wire[1].field = "data" => event' = wire[1].value,
         wire[1].field # "data" => event' = 0,
         open' = open, published' = published, torn' = torn, Len(shown') \in Nat,
         \A k \in 1 .. Len(shown') :
           \/ k \in 1 .. Len(shown) /\ shown'[k] = shown[k]
           \/ event # 0 /\ shown'[k] = event
  PROVE  Framed' /\ UnderWay' /\ TornApart'
<1> DEFINE L == Len(wire)
<1>0. L \in Nat /\ L > 0 /\ Len(wire') = L - 1 /\ Len(published) \in Nat
  BY WireLines
<1>1. \A i \in 1 .. L - 1 : wire'[i] = wire[i + 1]
  OBVIOUS
<1>11. \A i \in 1 .. L :
         /\ wire[i] = Blank <=> wire[i].field = ""
         /\ wire[i].field = "data" => wire[i].value \in Nat \ {0}
  BY WireLines
<1>2. wire' = <<>> <=> L = 1
  <2>1. wire' \in Seq(Lines)
    OBVIOUS
  <2>2. wire' # <<>> => Len(wire') # 0
    BY <2>1, EmptySeq
  <2>3. wire' = <<>> => Len(wire') = 0
    BY EmptySeq
  <2> QED
    BY <1>0, <2>2, <2>3
<1>3. /\ \A i \in 1 .. L :
           wire[i] = Blank <=> IF i = 1 THEN event # 0 ELSE wire[i - 1].field = "data"
      /\ open => wire[L].field # "data"
  BY DEF IInv, Framed
<1> HIDE DEF L
<1>4. Framed'
  <2>1. ASSUME NEW i \in 1 .. L - 1
        PROVE  wire'[i] = Blank <=> IF i = 1 THEN event' # 0 ELSE wire'[i - 1].field = "data"
    <3>1. wire'[i] = wire[i + 1] /\ i + 1 \in 1 .. L /\ i + 1 # 1
      BY <1>0, <1>1
    <3>2. wire[i + 1] = Blank <=> wire[i].field = "data"
      BY <1>0, <1>1, <1>3, <3>1
    <3>3. CASE i = 1
      <4>1. 1 \in 1 .. L
        BY <1>0
      <4>2. event' # 0 <=> wire[1].field = "data"
        BY <1>11, <4>1
      <4> QED
        BY <3>1, <3>2, <3>3, <4>2
    <3>4. CASE i # 1
      <4>1. wire'[i - 1] = wire[i]
        BY <1>0, <1>1, <3>4
      <4> QED
        BY <3>1, <3>2, <3>4, <4>1
    <3> QED
      BY <3>3, <3>4
  <2>2. ASSUME open'
        PROVE  IF wire' = <<>> THEN event' = 0 ELSE wire'[Len(wire')].field # "data"
    <3>1. wire[L].field # "data"
      BY <1>3, <2>2
    <3>2. CASE L = 1
      BY <1>2, <3>1, <3>2
    <3>3. CASE L # 1
      <4>1. L - 1 \in 1 .. L - 1 /\ (L - 1) + 1 = L
        BY <1>0, <1>1, <3>3
      <4>2. wire'[Len(wire')] = wire[L]
        BY <1>0, <1>1, <4>1
      <4> QED
        BY <1>2, <3>1, <3>3, <4>2
    <3> QED
      BY <3>2, <3>3
  <2> QED
    BY <1>0, <1>1, <2>1, <2>2 DEF Framed, L
<1>5. wire[1].field = "data" => event = 0
  <2>1. 1 \in 1 .. L /\ (wire[1] = Blank <=> event # 0)
    BY <1>0, <1>3
  <2>2. wire[1] = Blank <=> wire[1].field = ""
    BY <1>11, <2>1
  <2> QED
    BY <2>1, <2>2
<1>6. /\ \A i \in 1 .. L : wire[i].field = "data" =>
           /\ wire[i].value \in 1 .. Len(published) /\ event < wire[i].value
           /\ \A k \in 1 .. Len(shown) : shown[k] < wire[i].value
           /\ \A j \in 1 .. L : i < j /\ wire[j].field = "data" => wire[i].value < wire[j].value
  BY DEF IInv, UnderWay, L
<1>7. \A i \in 1 .. L : wire[i].field = "data" =>
        \A k \in 1 .. Len(shown') : shown'[k] < wire[i].value
  BY <1>6
<1>8. UnderWay'
  <2>1. ASSUME NEW i \in 1 .. L - 1, wire'[i].field = "data"
        PROVE  /\ wire'[i].value \in 1 .. Len(published') /\ event' < wire'[i].value
               /\ \A k \in 1 .. Len(shown') : shown'[k] < wire'[i].value
               /\ \A j \in 1 .. L - 1 :
                    i < j /\ wire'[j].field = "data" => wire'[i].value < wire'[j].value
    <3>1. wire'[i] = wire[i + 1] /\ i + 1 \in 1 .. L /\ 1 \in 1 .. L /\ 1 < i + 1
      BY <1>0, <1>1
    <3>2. event' < wire[i + 1].value
      BY <1>0, <1>1, <1>6, <2>1, <3>1
    <3>3. \A j \in 1 .. L - 1 :
            i < j /\ wire'[j].field = "data" => wire'[i].value < wire'[j].value
      <4>1. SUFFICES ASSUME NEW j \in 1 .. L - 1, i < j, wire'[j].field = "data"
                     PROVE  wire'[i].value < wire'[j].value
        OBVIOUS
      <4>2. wire'[j] = wire[j + 1] /\ j + 1 \in 1 .. L /\ i + 1 < j + 1
        BY <1>0, <1>1, <4>1
      <4> QED
        BY <1>6, <2>1, <3>1, <4>1, <4>2
    <3> QED
      BY <1>6, <1>7, <2>1, <3>1, <3>2, <3>3
  <2>2. event' # 0 =>
          event' \in 1 .. Len(published') /\ \A k \in 1 .. Len(shown') : shown'[k] < event'
    BY <1>0, <1>1, <1>6, <1>7
  <2> QED
    BY <1>0, <1>1, <2>1, <2>2 DEF UnderWay, L
<1>9. \A i \in 1 .. L : wire[i].field = "data" /\ i < L => wire[i].value \notin torn
  BY DEF IInv, TornApart, L
<1>10. TornApart'
  <2>1. ASSUME NEW i \in 1 .. L - 1, wire'[i].field = "data", i < L - 1
        PROVE  wire'[i].value \notin torn'
    <3>1. wire'[i] = wire[i + 1] /\ i + 1 \in 1 .. L /\ i + 1 < L
      BY <1>0, <1>1, <2>1
    <3> QED
      BY <1>9, <2>1, <3>1
  <2>2. event' # 0 /\ wire' # <<>> => event' \notin torn'
    BY <1>0, <1>1, <1>2, <1>9
  <2> QED
    BY <1>0, <1>1, <2>1, <2>2 DEF TornApart, L
<1> QED
  BY <1>4, <1>8, <1>10

\* A blank line hands a whole event over, later than all that was shown.
LEMMA Complete ==
  ASSUME IInv, pc = "stream", wire # <<>>, Head(wire) = Blank, event # 0
  PROVE  /\ event \in 1 .. Len(published) /\ event \in Nat /\ event \notin torn
         /\ \A k \in 1 .. Len(shown) : shown[k] < event
         /\ wire[1].field = "" /\ outcome = "none"
         /\ request.once => Len(shown) = 0
<1>1. /\ Len(wire) > 0 /\ Len(wire) \in Nat /\ Head(wire) = wire[1]
      /\ \A i \in 1 .. Len(wire) : wire[i] = Blank <=> wire[i].field = ""
  BY WireLines
<1>2. 1 \in 1 .. Len(wire)
  <2>1. Len(wire) > 0 /\ Len(wire) \in Nat
    BY <1>1
  <2> QED
    BY <2>1
<1>3. wire[1].field = ""
  BY <1>1, <1>2
<1>4. event \in 1 .. Len(published) /\ \A k \in 1 .. Len(shown) : shown[k] < event
  BY DEF IInv, UnderWay
<1>5. event \in Nat /\ event \notin torn
  BY DEF IInv, TornApart, TypeOK, TypeStream
<1>6. outcome = "none"
  BY DEF IInv, Asked
<1>7. request.once => Len(shown) = 0
  BY <1>6 DEF IInv, EndRight
<1> QED
  BY <1>3, <1>4, <1>5, <1>6, <1>7

\* The types after an event was handed over.
LEMMA HandledTypes ==
  ASSUME IInv, pc = "stream", wire # <<>>, Handle(event),
         pc' \in {"stream", "ended"}, open' \in BOOLEAN, event' = 0,
         wire' = <<>> \/ wire' = Tail(wire), shown' \in Seq(Nat)
  PROVE  TypeOK'
<1> USE DEF context
<1>1. TypeFlags'
  <2>1. received' = TRUE /\ heard' = TRUE
    BY DEF Handle
  <2>2. expired' = expired /\ canceled' = canceled
    BY DEF Handle
  <2> QED
    BY <2>1, <2>2 DEF IInv, TypeOK, TypeFlags
<1>2. UNCHANGED <<request, attempt, retryDelay, published, torn>> /\ fruitless' = 0
      /\ serverDelay' = IF retryDelay = "none" THEN serverDelay ELSE retryDelay
  BY DEF Handle
<1>3. TypeWatch'
  BY <1>2 DEF IInv, TypeOK, TypeWatch, TypeStream
<1>4. wire' \in Seq(Lines)
  BY WireLines, EmptySeq
<1>5. TypeStream'
  BY <1>2, <1>4 DEF IInv, TypeOK, TypeStream
<1>6. TypeHistory'
  BY <1>2 DEF IInv, TypeOK, TypeHistory
<1> QED
  BY <1>1, <1>3, <1>5, <1>6 DEF TypeOK

\* A handed over event that is shown keeps what is shown right.
LEMMA ShownOnce ==
  ASSUME IInv, event \in 1 .. Len(published), event \notin torn, published[event] # Logout,
         Selected(event), \A k \in 1 .. Len(shown) : shown[k] < event,
         shown' = Append(shown, event), UNCHANGED <<published, torn, request>>
  PROVE  /\ ShownRight' /\ Len(shown') = Len(shown) + 1 /\ Len(shown') \in Nat
         /\ shown' \in Seq(Nat)
         /\ \A k \in 1 .. Len(shown') :
              \/ k \in 1 .. Len(shown) /\ shown'[k] = shown[k]
              \/ k = Len(shown) + 1 /\ shown'[k] = event
<1>1. shown \in Seq(Nat) /\ event \in Nat
  BY DEF IInv, TypeOK, TypeWatch, TypeStream
<1>2. Len(shown) \in Nat /\ DOMAIN shown = 1 .. Len(shown)
  BY <1>1, LenProperties
<1>3. /\ shown' \in Seq(Nat) /\ Len(shown') = Len(shown) + 1
      /\ \A k \in 1 .. Len(shown) : shown'[k] = shown[k]
      /\ shown'[Len(shown) + 1] = event
  BY <1>1, AppendProperties
<1>4. DOMAIN shown' = 1 .. Len(shown) + 1
  BY <1>3, LenProperties
<1>5. \A k \in 1 .. Len(shown') :
        \/ k \in 1 .. Len(shown) /\ shown'[k] = shown[k]
        \/ k = Len(shown) + 1 /\ shown'[k] = event
  <2>1. \A k \in 1 .. Len(shown) + 1 : k \in 1 .. Len(shown) \/ k = Len(shown) + 1
    BY <1>2
  <2> QED
    BY <1>3, <2>1
<1>6. /\ \A i \in 1 .. Len(shown) :
           /\ shown[i] \in 1 .. Len(published)
           /\ Selected(shown[i]) /\ published[shown[i]] # Logout /\ shown[i] \notin torn
      /\ \A i, j \in 1 .. Len(shown) : i < j => shown[i] < shown[j]
  BY <1>2 DEF IInv, ShownRight
<1>7. (\A i \in DOMAIN shown : /\ shown[i] \in 1 .. Len(published)
                                /\ Selected(shown[i]) /\ published[shown[i]] # Logout
                                /\ shown[i] \notin torn)'
  <2>1. SUFFICES ASSUME NEW i \in DOMAIN shown'
                 PROVE  (/\ shown[i] \in 1 .. Len(published)
                         /\ Selected(shown[i]) /\ published[shown[i]] # Logout
                         /\ shown[i] \notin torn)'
    OBVIOUS
  <2>2. shown'[i] = event \/ (i \in 1 .. Len(shown) /\ shown'[i] = shown[i])
    BY <1>3, <1>4, <1>5, <2>1
  <2> QED
    BY <1>6, <2>2 DEF Selected
<1>8. \A i, j \in DOMAIN shown' : i < j => shown'[i] < shown'[j]
  <2>1. SUFFICES ASSUME NEW i \in 1 .. Len(shown) + 1, NEW j \in 1 .. Len(shown) + 1, i < j
                 PROVE  shown'[i] < shown'[j]
    BY <1>4
  <2>2. i \in 1 .. Len(shown)
    BY <1>2, <2>1
  <2>3. shown'[i] = shown[i]
    BY <1>3, <2>2
  <2>4. CASE j \in 1 .. Len(shown)
    <3>1. shown'[j] = shown[j] /\ shown[i] < shown[j]
      BY <1>3, <1>6, <2>1, <2>2, <2>4
    <3> QED
      BY <2>3, <3>1
  <2>5. CASE j = Len(shown) + 1
    BY <1>3, <2>2, <2>3, <2>5
  <2> QED
    BY <1>2, <2>4, <2>5
<1>9. ShownRight'
  BY <1>7, <1>8 DEF ShownRight
<1> QED
  BY <1>2, <1>3, <1>5, <1>9

\* An event handed over: the session ends, the event is left out, cannot be written, or is shown.
LEMMA HandleInvariant ==
  ASSUME IInv, pc = "stream", wire # <<>>, Head(wire) = Blank, event # 0, Handle(event)
  PROVE  IInv'
<1> USE DEF context, history
<1>1. /\ event \in 1 .. Len(published) /\ event \in Nat /\ event \notin torn
      /\ \A k \in 1 .. Len(shown) : shown[k] < event
      /\ wire[1].field = "" /\ outcome = "none"
      /\ request.once => Len(shown) = 0
  BY Complete
<1>2. /\ received' = TRUE /\ heard' = TRUE /\ fruitless' = 0
      /\ UNCHANGED <<request, attempt, retryDelay, context, published, torn>>
  BY DEF Handle
<1>3. /\ Len(wire) \in Nat /\ Tail(wire) \in Seq(Lines) /\ Len(Tail(wire)) = Len(wire) - 1
      /\ \A i \in 1 .. Len(wire) - 1 : Tail(wire)[i] = wire[i + 1]
      /\ Len(shown) \in Nat /\ Len(published) \in Nat
  BY WireLines
<1>4. ASSUME pc' \in {"stream", "ended"} PROVE Counting'
  <2>1. pc' = "stream" => attempt' <= Retries
    BY <1>2 DEF IInv, Counting
  <2>2. received' /\ heard' /\ fruitless' = 0 /\ pc' \notin {"idle", "check", "connect", "wait"}
    BY <1>2, <1>4
  <2> QED
    BY <2>1, <2>2 DEF Counting
<1>5. ASSUME \/ pc' = "ended" /\ outcome' \in {"logout", "not written", "done"}
             \/ pc' = "stream" /\ outcome' = "none"
      PROVE  Asked'
  BY <1>2, <1>5 DEF IInv, Asked, Accepts
<1>6. CASE published[event] = Logout /\ End("logout") /\ UNCHANGED shown
  <2>1. pc' = "ended" /\ outcome' = "logout" /\ open' = FALSE /\ wire' = <<>> /\ event' = 0
    BY <1>6 DEF End
  <2>2. shown' \in Seq(Nat)
    BY <1>6 DEF IInv, TypeOK, TypeWatch
  <2>3. TypeOK'
    BY <2>1, <2>2, HandledTypes
  <2>4. Framed' /\ UnderWay' /\ TornApart'
    BY <1>2, <1>6, EndKeeps
  <2>5. ShownRight'
    BY <1>2, <1>6, ShownKeeps
  <2>6. EndRight'
    <3>1. published' \in Seq(Types)
      BY <1>2 DEF IInv, TypeOK, TypeHistory
    <3>2. \E n \in DOMAIN published' : published'[n] = Logout /\ n \notin torn'
      BY <1>1, <1>2, <1>6, <3>1, LenProperties
    <3>3. request'.once => Len(shown') = 0
      BY <1>1, <1>2, <1>6
    <3> QED
      BY <2>1, <3>2, <3>3 DEF EndRight
  <2>7. Counting'
    BY <1>4, <2>1
  <2>8. Asked'
    BY <1>5, <2>1
  <2> QED
    BY <2>3, <2>4, <2>5, <2>6, <2>7, <2>8 DEF IInv
<1>7. CASE End("not written") /\ UNCHANGED shown
  <2>1. pc' = "ended" /\ outcome' = "not written" /\ open' = FALSE /\ wire' = <<>> /\ event' = 0
    BY <1>7 DEF End
  <2>2. shown' \in Seq(Nat)
    BY <1>7 DEF IInv, TypeOK, TypeWatch
  <2>3. TypeOK'
    BY <2>1, <2>2, HandledTypes
  <2>4. Framed' /\ UnderWay' /\ TornApart'
    BY <1>2, <1>7, EndKeeps
  <2>5. ShownRight'
    BY <1>2, <1>7, ShownKeeps
  <2>6. EndRight'
    <3>1. request'.once => Len(shown') = 0
      BY <1>1, <1>2, <1>7
    <3> QED
      BY <2>1, <3>1 DEF EndRight
  <2>7. Counting'
    BY <1>4, <2>1
  <2>8. Asked'
    BY <1>5, <2>1
  <2> QED
    BY <2>3, <2>4, <2>5, <2>6, <2>7, <2>8 DEF IInv
<1>8. CASE event' = 0 /\ wire' = Tail(wire) /\ UNCHANGED <<pc, outcome, open, shown>>
  <2>1. pc' = "stream" /\ outcome' = "none" /\ open' = open /\ shown' = shown
        /\ event' = 0 /\ wire' = Tail(wire)
    BY <1>1, <1>8
  <2>2. shown' \in Seq(Nat) /\ open' \in BOOLEAN
    BY <2>1 DEF IInv, TypeOK, TypeWatch, TypeFlags
  <2>3. TypeOK'
    BY <2>1, <2>2, HandledTypes
  <2>4. Framed' /\ UnderWay' /\ TornApart'
    BY <1>1, <1>2, <1>3, <2>1, LineRead
  <2>5. ShownRight'
    BY <1>2, <2>1, ShownKeeps
  <2>6. EndRight'
    <3>1. request'.once => Len(shown') = 0
      BY <1>1, <1>2, <2>1
    <3> QED
      BY <2>1, <3>1 DEF EndRight
  <2>7. Counting'
    BY <1>4, <2>1
  <2>8. Asked'
    BY <1>5, <2>1
  <2> QED
    BY <2>3, <2>4, <2>5, <2>6, <2>7, <2>8 DEF IInv
<1>9. CASE /\ published[event] # Logout /\ Selected(event)
           /\ shown' = Append(shown, event)
           /\ IF request.once
                THEN End("done")
                ELSE event' = 0 /\ wire' = Tail(wire) /\ UNCHANGED <<pc, outcome, open>>
  <2>1. /\ ShownRight' /\ Len(shown') = Len(shown) + 1 /\ Len(shown') \in Nat
        /\ shown' \in Seq(Nat)
        /\ \A k \in 1 .. Len(shown') :
             \/ k \in 1 .. Len(shown) /\ shown'[k] = shown[k]
             \/ k = Len(shown) + 1 /\ shown'[k] = event
    BY <1>1, <1>2, <1>9, ShownOnce
  <2>2. CASE request.once
    <3>1. pc' = "ended" /\ outcome' = "done" /\ open' = FALSE /\ wire' = <<>> /\ event' = 0
      BY <1>9, <2>2 DEF End
    <3>2. TypeOK'
      BY <2>1, <3>1, HandledTypes
    <3>3. Framed' /\ UnderWay' /\ TornApart'
      BY <3>1, <1>2 DEF Framed, UnderWay, TornApart
    <3>4. EndRight'
      <4>1. Len(shown') = 1 /\ request'.once
        <5>1. Len(shown) = 0 /\ Len(shown') = Len(shown) + 1 /\ request' = request
          BY <1>1, <1>2, <2>1, <2>2
        <5> QED
          BY <2>2, <5>1
      <4> QED
        BY <3>1, <4>1 DEF EndRight
    <3>5. Counting'
      BY <1>4, <3>1
    <3>6. Asked'
      BY <1>5, <3>1
    <3> QED
      BY <2>1, <3>2, <3>3, <3>4, <3>5, <3>6 DEF IInv
  <2>3. CASE ~request.once
    <3>1. pc' = "stream" /\ outcome' = "none" /\ open' = open
          /\ event' = 0 /\ wire' = Tail(wire)
      BY <1>1, <1>9, <2>3
    <3>2. open' \in BOOLEAN
      BY <3>1 DEF IInv, TypeOK, TypeFlags
    <3>3. TypeOK'
      BY <2>1, <3>1, <3>2, HandledTypes
    <3>4. Framed' /\ UnderWay' /\ TornApart'
      BY <1>1, <1>2, <1>3, <2>1, <3>1, LineRead
    <3>5. EndRight'
      BY <1>2, <2>3, <3>1 DEF EndRight
    <3>6. Counting'
      BY <1>4, <3>1
    <3>7. Asked'
      BY <1>5, <3>1
    <3> QED
      BY <2>1, <3>3, <3>4, <3>5, <3>6, <3>7 DEF IInv
  <2> QED
    BY <2>2, <2>3
<1> QED
  BY <1>6, <1>7, <1>8, <1>9 DEF Handle

\* A line that hands nothing over.
LEMMA ReadInvariant == ASSUME IInv, Read PROVE IInv'
<1> USE DEF watch, context, history
<1>1. pc = "stream" /\ wire # <<>>
  BY DEF Read
<1>2. CASE Head(wire) = Blank /\ event # 0 /\ Handle(event)
  BY <1>1, <1>2, HandleInvariant
<1>3. CASE /\ ~(Head(wire) = Blank /\ event # 0)
           /\ wire' = Tail(wire)
           /\ event' = IF Head(wire).field = "data" THEN Head(wire).value ELSE event
           /\ retryDelay' = IF Head(wire).field = "retry" THEN Head(wire).value ELSE retryDelay
           /\ UNCHANGED <<watch, context, open, published, torn, history>>
  <2>1. /\ Len(wire) \in Nat /\ Len(wire) > 0 /\ Head(wire) = wire[1]
        /\ Tail(wire) \in Seq(Lines) /\ Len(Tail(wire)) = Len(wire) - 1
        /\ \A i \in 1 .. Len(wire) - 1 : Tail(wire)[i] = wire[i + 1]
        /\ Len(shown) \in Nat
    BY <1>1, WireLines
  <2>2. 1 \in 1 .. Len(wire)
    BY <2>1
  <2>3. event = 0
    BY <1>3, <2>1, <2>2 DEF IInv, Framed
  <2>4. wire[1] \in Lines
    BY <2>2, WireLines
  <2>5. /\ wire[1].field = "data" => wire[1].value \in Nat
        /\ wire[1].field = "retry" => wire[1].value \in Delays
    BY <2>4, LineKinds
  <2>6. /\ wire[1].field = "data" => event' = wire[1].value
        /\ wire[1].field # "data" => event' = 0
    BY <1>3, <2>1, <2>3
  <2>7. event' \in Nat
    BY <2>5, <2>6
  <2>8. retryDelay' \in Delays
    BY <1>3, <2>1, <2>5 DEF IInv, TypeOK, TypeStream
  <2>9. UNCHANGED <<pc, request, attempt, received, serverDelay, shown, outcome, expired, canceled,
                    open, published, torn, fruitless, heard>>
    BY <1>3
  <2>10. TypeOK'
    <3>1. TypeFlags'
      BY <2>9 DEF IInv, TypeOK, TypeFlags
    <3>2. TypeWatch' /\ TypeHistory'
      BY <2>9 DEF IInv, TypeOK, TypeWatch, TypeHistory
    <3>3. TypeStream'
      BY <1>3, <2>1, <2>7, <2>8 DEF TypeStream
    <3> QED
      BY <3>1, <3>2, <3>3 DEF TypeOK
  <2>11. Framed' /\ UnderWay' /\ TornApart'
    <3>1. pc' = "stream" /\ wire' = Tail(wire)
      BY <1>1, <1>3
    <3> QED
      BY <1>1, <2>1, <2>6, <2>9, <3>1, LineRead
  <2>12. Counting' /\ Asked' /\ EndRight'
    BY <2>9 DEF IInv, Counting, Asked, EndRight
  <2>13. ShownRight'
    BY <2>9, ShownKeeps
  <2> QED
    BY <2>10, <2>11, <2>12, <2>13 DEF IInv
<1> QED
  BY <1>2, <1>3 DEF Read

\* Lines arrive at an open connection: frame and order go on behind what is under way.
LEMMA LinesArrive ==
  ASSUME IInv, open, pc' = pc, event' = event, shown' = shown, torn' = torn,
         NEW N \in Nat, Len(published') = N, Len(published) <= N,
         NEW M \in Nat, Len(wire') = M, Len(wire) < M,
         \A i \in 1 .. Len(wire) : wire'[i] = wire[i],
         \A i \in Len(wire) + 1 .. M :
           wire'[i] = Blank <=> i # Len(wire) + 1 /\ wire'[i - 1].field = "data",
         wire'[M].field # "data",
         \A i \in Len(wire) + 1 .. M : wire'[i].field = "data" =>
           i = Len(wire) + 1 /\ wire'[i].value = N /\ Len(published) < N
  PROVE  Framed' /\ UnderWay' /\ TornApart'
<1> DEFINE L == Len(wire)
<1>1. L \in Nat /\ Len(published) \in Nat /\ Len(shown) \in Nat
  BY WireLines
<1>2. wire # <<>> <=> L # 0
  <2>1. wire = <<>> => L = 0
    BY EmptySeq
  <2>2. wire # <<>> => L > 0
    BY WireLines
  <2> QED
    BY <1>1, <2>1, <2>2
<1>3. pc = "stream"
  BY DEF IInv, Framed
<1>4. /\ \A i \in 1 .. L :
           wire[i] = Blank <=> IF i = 1 THEN event # 0 ELSE wire[i - 1].field = "data"
      /\ L = 0 => event = 0
      /\ L # 0 => wire[L].field # "data"
  BY <1>2 DEF IInv, Framed
<1>5. /\ \A i \in 1 .. L : wire'[i] = wire[i]
      /\ Len(wire') = M /\ M \in Nat /\ L < M
      /\ \A i \in L + 1 .. M : wire'[i] = Blank <=> i # L + 1 /\ wire'[i - 1].field = "data"
      /\ wire'[M].field # "data"
      /\ \A i \in L + 1 .. M : wire'[i].field = "data" =>
           i = L + 1 /\ wire'[i].value = N /\ Len(published) < N
  OBVIOUS
<1>6. \A k \in 1 .. Len(shown) : shown[k] \in 1 .. Len(published)
  BY WireLines
<1>7. /\ \A i \in 1 .. L : wire[i].field = "data" =>
           /\ wire[i].value \in 1 .. Len(published) /\ event < wire[i].value
           /\ \A k \in 1 .. Len(shown) : shown[k] < wire[i].value
           /\ \A j \in 1 .. L : i < j /\ wire[j].field = "data" => wire[i].value < wire[j].value
      /\ event # 0 =>
           event \in 1 .. Len(published) /\ \A k \in 1 .. Len(shown) : shown[k] < event
  BY DEF IInv, UnderWay
<1>8. /\ \A i \in 1 .. L : wire[i].field = "data" /\ i < L => wire[i].value \notin torn
      /\ event # 0 /\ L # 0 => event \notin torn
  BY <1>2 DEF IInv, TornApart
<1>9. torn \subseteq 1 .. Len(published)
  BY DEF IInv, TypeOK, TypeHistory
<1> HIDE DEF L
<1>10. Framed'
  <2>1. ASSUME NEW i \in 1 .. M
        PROVE  wire'[i] = Blank <=> IF i = 1 THEN event' # 0 ELSE wire'[i - 1].field = "data"
    <3>1. CASE i \in 1 .. L
      <4>1. i # 1 => i - 1 \in 1 .. L
        BY <1>1, <3>1
      <4> QED
        BY <1>4, <1>5, <3>1, <4>1
    <3>2. CASE i = L + 1
      <4>1. wire'[i] # Blank
        BY <1>1, <1>5, <3>2
      <4>2. i = 1 => event' = 0
        BY <1>1, <1>4, <3>2
      <4>3. i # 1 => wire'[i - 1].field # "data"
        <5>1. i # 1 => L \in 1 .. L /\ i - 1 = L /\ L # 0
          BY <1>1, <3>2
        <5> QED
          BY <1>4, <1>5, <5>1
      <4> QED
        BY <4>1, <4>2, <4>3
    <3>3. CASE i \in L + 1 .. M /\ i # L + 1
      <4>1. i # 1
        BY <1>1, <3>3
      <4> QED
        BY <1>5, <3>3, <4>1
    <3> QED
      BY <1>1, <1>5, <3>1, <3>2, <3>3
  <2>2. wire' # <<>>
    BY <1>1, <1>5, EmptySeq
  <2> QED
    BY <1>3, <1>5, <2>1, <2>2 DEF Framed
<1>11. UnderWay'
  <2>1. ASSUME NEW i \in 1 .. M, wire'[i].field = "data"
        PROVE  /\ wire'[i].value \in 1 .. N /\ event < wire'[i].value
               /\ \A k \in 1 .. Len(shown) : shown[k] < wire'[i].value
               /\ \A j \in 1 .. M :
                    i < j /\ wire'[j].field = "data" => wire'[i].value < wire'[j].value
    <3>1. CASE i \in 1 .. L
      <4>1. wire'[i] = wire[i] /\ wire[i].field = "data"
        BY <1>5, <2>1, <3>1
      <4>2. wire[i].value \in 1 .. Len(published)
        BY <1>7, <3>1, <4>1
      <4>3. ASSUME NEW j \in 1 .. M, i < j, wire'[j].field = "data"
            PROVE  wire[i].value < wire'[j].value
        <5>1. CASE j \in 1 .. L
          BY <1>5, <1>7, <3>1, <4>1, <4>3, <5>1
        <5>2. CASE j \in L + 1 .. M
          <6>1. wire'[j].value = N /\ Len(published) < N
            BY <1>5, <4>3, <5>2
          <6> QED
            BY <1>1, <4>2, <6>1
        <5> QED
          BY <1>1, <5>1, <5>2
      <4>4. wire[i].value \in 1 .. N
        BY <1>1, <4>2
      <4> QED
        BY <1>7, <3>1, <4>1, <4>3, <4>4
    <3>2. CASE i \in L + 1 .. M
      <4>1. i = L + 1 /\ wire'[i].value = N /\ Len(published) < N
        BY <1>5, <2>1, <3>2
      <4>2. event < N /\ \A k \in 1 .. Len(shown) : shown[k] < N
        <5>1. \A x \in 1 .. Len(published) : x < N
          BY <1>1, <4>1
        <5>2. 0 < N
          BY <1>1, <4>1
        <5>3. event = 0 \/ event \in 1 .. Len(published)
          BY <1>7
        <5> QED
          BY <1>6, <5>1, <5>2, <5>3
      <4>3. ASSUME NEW j \in 1 .. M, i < j, wire'[j].field = "data"
            PROVE  FALSE
        <5>1. j \in L + 1 .. M
          BY <1>1, <4>1, <4>3
        <5>2. j = L + 1
          BY <1>5, <4>3, <5>1
        <5> QED
          BY <1>1, <4>1, <4>3, <5>2
      <4>4. N \in 1 .. N
        BY <1>1, <4>1
      <4> QED
        BY <4>1, <4>2, <4>3, <4>4
    <3> QED
      BY <1>1, <3>1, <3>2
  <2>2. event # 0 => event \in 1 .. N
    BY <1>1, <1>7
  <2> QED
    BY <1>5, <1>7, <2>1, <2>2 DEF UnderWay
<1>12. TornApart'
  <2>1. ASSUME NEW i \in 1 .. M, wire'[i].field = "data", i < M
        PROVE  wire'[i].value \notin torn
    <3>1. CASE i \in 1 .. L
      <4>1. wire'[i] = wire[i] /\ wire[i].field = "data" /\ i # L
        BY <1>1, <1>4, <1>5, <2>1, <3>1
      <4>2. i < L
        BY <1>1, <3>1, <4>1
      <4> QED
        BY <1>8, <3>1, <4>1, <4>2
    <3>2. CASE i \in L + 1 .. M
      <4>1. wire'[i].value = N /\ Len(published) < N
        BY <1>5, <2>1, <3>2
      <4>2. N \notin 1 .. Len(published)
        BY <1>1, <4>1
      <4> QED
        BY <1>9, <4>1, <4>2
    <3> QED
      BY <1>1, <3>1, <3>2
  <2>2. event # 0 => event \notin torn
    BY <1>4, <1>8
  <2> QED
    BY <1>5, <2>1, <2>2 DEF TornApart
<1> QED
  BY <1>10, <1>11, <1>12

\* The server asks for a delay.
LEMMA AskDelayInvariant ==
  ASSUME IInv, NEW delay \in {"short", "long"}, AskDelay(delay) PROVE IInv'
<1> USE DEF watch, decoder, context, history
<1>1. /\ open /\ wire' = Append(wire, Line("retry", delay))
      /\ UNCHANGED <<watch, decoder, context, open, published, torn, history>>
  BY DEF AskDelay
<1>2. /\ wire \in Seq(Lines) /\ Line("retry", delay) \in Lines
      /\ Len(wire) \in Nat /\ Len(published) \in Nat
  BY LinesSent, WireLines DEF IInv, TypeOK, TypeStream, Delays
<1>3. /\ wire' \in Seq(Lines) /\ Len(wire') = Len(wire) + 1
      /\ \A i \in 1 .. Len(wire) : wire'[i] = wire[i]
      /\ wire'[Len(wire) + 1] = Line("retry", delay)
  BY <1>1, <1>2, AppendProperties
<1>4. Line("retry", delay).field = "retry" /\ Line("retry", delay) # Blank
  BY DEF Line, Blank
<1>5. Framed' /\ UnderWay' /\ TornApart'
  <2>1. \A i \in Len(wire) + 1 .. Len(wire) + 1 : i = Len(wire) + 1
    BY <1>2
  <2>2. Len(wire) + 1 \in Nat /\ Len(wire) < Len(wire) + 1 /\ Len(published) <= Len(published)
    BY <1>2
  <2>3. /\ Len(published') = Len(published) /\ pc' = pc /\ event' = event /\ shown' = shown
        /\ torn' = torn
    BY <1>1
  <2>4. \A i \in Len(wire) + 1 .. Len(wire) + 1 :
          wire'[i] # Blank /\ i = Len(wire) + 1 /\ wire'[i].field = "retry"
    BY <1>3, <1>4, <2>1
  <2>5. wire'[Len(wire) + 1].field # "data"
    BY <1>3, <1>4
  <2> QED
    BY <1>1, <1>2, <1>3, <2>2, <2>3, <2>4, <2>5, LinesArrive
<1>6. UNCHANGED <<pc, request, attempt, received, serverDelay, shown, outcome, event, retryDelay,
                  expired, canceled, open, published, torn, fruitless, heard>>
  BY <1>1
<1>7. TypeOK'
  <2>1. TypeFlags'
    BY <1>6 DEF IInv, TypeOK, TypeFlags
  <2>2. TypeWatch' /\ TypeHistory'
    BY <1>6 DEF IInv, TypeOK, TypeWatch, TypeHistory
  <2>3. TypeStream'
    BY <1>3, <1>6 DEF IInv, TypeOK, TypeStream
  <2> QED
    BY <2>1, <2>2, <2>3 DEF TypeOK
<1>8. Counting' /\ Asked' /\ EndRight'
  BY <1>6 DEF IInv, Counting, Asked, EndRight
<1>9. ShownRight'
  BY <1>6, ShownKeeps
<1> QED
  BY <1>5, <1>7, <1>8, <1>9 DEF IInv

\* An event is published: it follows all the others, for those who are connected.
LEMMA PublishInvariant == ASSUME IInv, NEW type \in Types, Publish(type) PROVE IInv'
<1> USE DEF watch, decoder, context, history
<1>1. /\ pc # "ended" /\ published' = Append(published, type)
      /\ UNCHANGED <<watch, decoder, context, open, torn, history>>
      /\ \/ open /\ wire' = wire \o <<Line("data", Len(published) + 1), Blank>>
         \/ ~open /\ wire' = wire
  BY DEF Publish
<1>2. /\ published \in Seq(Types) /\ wire \in Seq(Lines)
      /\ Len(wire) \in Nat /\ Len(published) \in Nat
  BY WireLines DEF IInv, TypeOK, TypeStream, TypeHistory
<1>3. /\ published' \in Seq(Types) /\ Len(published') = Len(published) + 1
      /\ \A n \in 1 .. Len(published) : published'[n] = published[n]
  BY <1>1, <1>2, AppendProperties
<1>4. UNCHANGED <<pc, request, attempt, received, serverDelay, shown, outcome, event, retryDelay,
                  expired, canceled, open, torn, fruitless, heard>>
  BY <1>1
<1>5. wire' \in Seq(Lines) /\ Framed' /\ UnderWay' /\ TornApart'
  <2>1. CASE open
    <3> DEFINE d == Line("data", Len(published) + 1)
    <3>1. wire' = wire \o <<d, Blank>>
      BY <1>1, <2>1
    <3>2. d \in Lines /\ Blank \in Lines /\ d # Blank
          /\ d.field = "data" /\ d.value = Len(published) + 1 /\ Blank.field = ""
      <4>1. Len(published) + 1 \in Nat \ {0}
        BY <1>2
      <4>2. d.field = "data" /\ d.value = Len(published) + 1 /\ Blank.field = ""
        BY DEF Line, Blank
      <4> QED
        BY <4>1, <4>2, LinesSent
    <3> HIDE DEF d
    <3>3. <<d, Blank>> \in Seq(Lines) /\ Len(<<d, Blank>>) = 2
          /\ <<d, Blank>>[1] = d /\ <<d, Blank>>[2] = Blank
      <4>1. d \in Lines /\ Blank \in Lines
        BY <3>2
      <4>2. ASSUME NEW x \in Lines, NEW y \in Lines
            PROVE  <<x, y>> \in Seq(Lines) /\ Len(<<x, y>>) = 2
                   /\ <<x, y>>[1] = x /\ <<x, y>>[2] = y
        OBVIOUS
      <4> QED
        BY <4>1, <4>2
    <3>4. /\ wire' \in Seq(Lines) /\ Len(wire') = Len(wire) + 2
          /\ \A i \in 1 .. Len(wire) : wire'[i] = wire[i]
          /\ wire'[Len(wire) + 1] = d /\ wire'[Len(wire) + 2] = Blank
      <4>1. /\ wire \o <<d, Blank>> \in Seq(Lines)
            /\ Len(wire \o <<d, Blank>>) = Len(wire) + Len(<<d, Blank>>)
            /\ \A i \in 1 .. Len(wire) + Len(<<d, Blank>>) : (wire \o <<d, Blank>>)[i] =
                 IF i <= Len(wire) THEN wire[i] ELSE <<d, Blank>>[i - Len(wire)]
        BY <1>2, <3>3, ConcatProperties
      <4>2. \A i \in 1 .. Len(wire) + 2 : wire'[i] =
              IF i <= Len(wire) THEN wire[i] ELSE <<d, Blank>>[i - Len(wire)]
        BY <3>1, <3>3, <4>1
      <4>3. \A i \in 1 .. Len(wire) : i \in 1 .. Len(wire) + 2 /\ i <= Len(wire)
        BY <1>2
      <4>4. /\ Len(wire) + 1 \in 1 .. Len(wire) + 2 /\ ~(Len(wire) + 1 <= Len(wire))
            /\ Len(wire) + 2 \in 1 .. Len(wire) + 2 /\ ~(Len(wire) + 2 <= Len(wire))
            /\ (Len(wire) + 1) - Len(wire) = 1 /\ (Len(wire) + 2) - Len(wire) = 2
        BY <1>2
      <4>5. wire' \in Seq(Lines) /\ Len(wire') = Len(wire) + 2
        BY <3>1, <3>3, <4>1
      <4>6. \A i \in 1 .. Len(wire) : wire'[i] = wire[i]
        BY <4>2, <4>3
      <4>7. wire'[Len(wire) + 1] = <<d, Blank>>[1] /\ wire'[Len(wire) + 2] = <<d, Blank>>[2]
        BY <4>2, <4>4
      <4> QED
        BY <3>3, <4>5, <4>6, <4>7
    <3>5. \A i \in Len(wire) + 1 .. Len(wire) + 2 :
            \/ i = Len(wire) + 1
            \/ i = Len(wire) + 2 /\ i # Len(wire) + 1 /\ i - 1 = Len(wire) + 1
      BY <1>2
    <3>6. \A i \in Len(wire) + 1 .. Len(wire) + 2 :
            /\ wire'[i] = Blank <=> i # Len(wire) + 1 /\ wire'[i - 1].field = "data"
            /\ wire'[i].field = "data" => i = Len(wire) + 1 /\ wire'[i].value = Len(published) + 1
      BY <3>2, <3>4, <3>5
    <3>7. /\ Len(wire) + 2 \in Nat /\ Len(wire) < Len(wire) + 2
          /\ Len(published) + 1 \in Nat /\ Len(published) < Len(published) + 1
          /\ Len(published) <= Len(published) + 1
      BY <1>2
    <3>8. wire'[Len(wire) + 2].field # "data"
      BY <3>2, <3>4
    <3> QED
      BY <1>3, <1>4, <2>1, <3>4, <3>6, <3>7, <3>8, LinesArrive
  <2>2. CASE ~open
    <3>1. wire' = wire /\ ~open /\ ~open'
      BY <1>1, <2>2
    <3>2. wire' \in Seq(Lines) /\ Framed'
      BY <1>2, <1>4, <3>1 DEF IInv, Framed
    <3>3. \A x : x \in 1 .. Len(published) => x \in 1 .. Len(published')
      BY <1>2, <1>3
    <3>4. UnderWay' /\ TornApart'
      BY <1>4, <3>1, <3>3 DEF IInv, UnderWay, TornApart
    <3> QED
      BY <3>2, <3>4
  <2> QED
    BY <2>1, <2>2
<1>6. \A x : x \in 1 .. Len(published) => x \in 1 .. Len(published')
  BY <1>2, <1>3
<1>7. TypeOK'
  <2>1. TypeFlags'
    BY <1>4 DEF IInv, TypeOK, TypeFlags
  <2>2. TypeWatch'
    BY <1>4 DEF IInv, TypeOK, TypeWatch
  <2>3. TypeStream'
    BY <1>4, <1>5 DEF IInv, TypeOK, TypeStream
  <2>4. TypeHistory'
    BY <1>3, <1>4, <1>6 DEF IInv, TypeOK, TypeHistory
  <2> QED
    BY <2>1, <2>2, <2>3, <2>4 DEF TypeOK
<1>8. Counting' /\ Asked'
  BY <1>4 DEF IInv, Counting, Asked
<1>9. ShownRight'
  <2>1. \A k \in DOMAIN shown : shown[k] \in 1 .. Len(published)
    BY DEF IInv, ShownRight
  <2> QED
    BY <1>3, <1>4, <1>6, <2>1 DEF IInv, ShownRight, Selected
<1>10. EndRight'
  <2>1. outcome' = "none"
    BY <1>1, <1>4 DEF IInv, Asked
  <2> QED
    BY <1>4, <2>1 DEF IInv, EndRight
<1> QED
  BY <1>5, <1>7, <1>8, <1>9, <1>10 DEF IInv

\* A connection breaks: only what has not been handed over is cut off.
LEMMA BreakInvariant == ASSUME IInv, Break PROVE IInv'
<1> USE DEF watch, decoder, context, history
<1> DEFINE L == Len(wire)
<1>1. PICK n \in 0 .. L :
       /\ wire' = SubSeq(wire, 1, n)
       /\ torn' = torn \cup EventsOf(SubSeq(wire, n + 1, L))
            \cup IF n < L /\ wire[n + 1] = Blank
                   THEN IF n = 0 THEN {event} \ {0} ELSE {wire[n].value} ELSE {}
  BY DEF Break
<1>2. /\ open /\ open' = FALSE
      /\ UNCHANGED <<watch, decoder, context, published, history>>
  BY DEF Break
<1>3. /\ wire \in Seq(Lines) /\ L \in Nat /\ Len(published) \in Nat
      /\ \A k \in 1 .. Len(shown) : shown[k] \in 1 .. Len(published)
  BY WireLines DEF IInv, TypeOK, TypeStream
<1>4. UNCHANGED <<pc, request, attempt, received, serverDelay, shown, outcome, event, retryDelay,
                  expired, canceled, published, fruitless, heard>>
  BY <1>2
<1>5. pc = "stream" /\ pc # "ended" /\ outcome = "none"
  BY <1>2 DEF IInv, Framed, Asked
<1>6. /\ wire' \in Seq(Lines) /\ Len(wire') = n
      /\ \A i \in 1 .. n : wire'[i] = wire[i]
  <2>1. \A i \in 1 .. n : wire[i] \in Lines
    BY <1>3, ElementOfSeq
  <2>2. n = 0 \/ (1 <= n /\ n <= L)
    BY <1>3
  <2> QED
    BY <1>1, <1>3, <2>1, <2>2, SubSeqProperties
<1>7. wire # <<>> <=> L # 0
  <2>1. wire = <<>> => L = 0
    BY EmptySeq
  <2>2. wire # <<>> => L > 0
    BY WireLines
  <2> QED
    BY <1>3, <2>1, <2>2
<1>8. \A i \in 1 .. L :
        wire[i] = Blank <=> IF i = 1 THEN event # 0 ELSE wire[i - 1].field = "data"
  BY DEF IInv, Framed
<1>9. /\ \A i \in 1 .. L : wire[i].field = "data" =>
           /\ wire[i].value \in 1 .. Len(published) /\ event < wire[i].value
           /\ \A k \in 1 .. Len(shown) : shown[k] < wire[i].value
           /\ \A j \in 1 .. L : i < j /\ wire[j].field = "data" => wire[i].value < wire[j].value
      /\ event # 0 =>
           event \in 1 .. Len(published) /\ \A k \in 1 .. Len(shown) : shown[k] < event
  BY DEF IInv, UnderWay
<1>10. /\ \A i \in 1 .. L : wire[i].field = "data" /\ i < L => wire[i].value \notin torn
       /\ event # 0 /\ L # 0 => event \notin torn
  BY <1>7 DEF IInv, TornApart
<1>11. \A x \in torn' :
         \/ x \in torn
         \/ n = 0 /\ x = event /\ event # 0
         \/ \E j \in 1 .. L : n <= j /\ wire[j].field = "data" /\ x = wire[j].value
  <2>1. ASSUME NEW x \in EventsOf(SubSeq(wire, n + 1, L))
        PROVE  \E j \in 1 .. L : n <= j /\ wire[j].field = "data" /\ x = wire[j].value
    <3>1. PICK i \in DOMAIN SubSeq(wire, n + 1, L) :
            /\ SubSeq(wire, n + 1, L)[i].field = "data"
            /\ x = SubSeq(wire, n + 1, L)[i].value
      BY DEF EventsOf
    <3>2. \A j \in n + 1 .. L : wire[j] \in Lines
      BY <1>3, ElementOfSeq
    <3>3. n + 1 \in Int /\ L \in Int /\ (n + 1 <= L => n + 1 \in 1 .. L + 1 /\ L \in n .. L)
      BY <1>3
    <3>4. /\ SubSeq(wire, n + 1, L) \in Seq(Lines)
          /\ Len(SubSeq(wire, n + 1, L)) = IF n + 1 <= L THEN L - (n + 1) + 1 ELSE 0
          /\ \A k \in 1 .. L - (n + 1) + 1 : SubSeq(wire, n + 1, L)[k] = wire[n + 1 + k - 1]
      BY <1>3, <3>2, <3>3, SubSeqProperties
    <3>5. i \in 1 .. Len(SubSeq(wire, n + 1, L))
      BY <3>1, <3>4, LenProperties
    <3>6. i \in 1 .. L - (n + 1) + 1 /\ n + 1 + i - 1 \in 1 .. L /\ n <= n + 1 + i - 1
      BY <1>3, <3>4, <3>5
    <3> QED
      BY <3>1, <3>4, <3>6
  <2>2. ASSUME n < L, wire[n + 1] = Blank, n # 0
        PROVE  n \in 1 .. L /\ wire[n].field = "data"
    <3>1. n \in 1 .. L /\ n + 1 \in 1 .. L /\ n + 1 # 1 /\ (n + 1) - 1 = n
      BY <1>3, <2>2
    <3>2. wire[(n + 1) - 1].field = "data"
      BY <1>8, <2>2, <3>1
    <3> QED
      BY <3>1, <3>2
  <2>3. n <= n
    BY <1>3
  <2> QED
    BY <1>1, <2>1, <2>2, <2>3
<1> HIDE DEF L
<1>12. TypeOK'
  <2>1. torn' \subseteq 1 .. Len(published)
    BY <1>9, <1>11 DEF IInv, TypeOK, TypeHistory
  <2>2. TypeFlags'
    BY <1>2, <1>4 DEF IInv, TypeOK, TypeFlags
  <2>3. TypeWatch'
    BY <1>4 DEF IInv, TypeOK, TypeWatch
  <2>4. TypeStream'
    BY <1>4, <1>6 DEF IInv, TypeOK, TypeStream
  <2>5. TypeHistory'
    BY <1>4, <2>1 DEF IInv, TypeOK, TypeHistory
  <2> QED
    BY <2>2, <2>3, <2>4, <2>5 DEF TypeOK
<1>13. \A i \in 1 .. n : i \in 1 .. L
  BY <1>3
<1>14. Framed'
  <2>1. ASSUME NEW i \in 1 .. n
        PROVE  wire'[i] = Blank <=> IF i = 1 THEN event' # 0 ELSE wire'[i - 1].field = "data"
    <3>1. i # 1 => i - 1 \in 1 .. n
      BY <1>3
    <3> QED
      BY <1>4, <1>6, <1>8, <1>13, <3>1
  <2> QED
    BY <1>2, <1>4, <1>5, <1>6, <2>1 DEF Framed
<1>15. UnderWay'
  BY <1>4, <1>6, <1>9, <1>13 DEF UnderWay
<1>16. TornApart'
  <2>1. ASSUME NEW i \in 1 .. n, wire[i].field = "data", i < n
        PROVE  wire[i].value \notin torn'
    <3>1. i < L /\ i \in 1 .. L /\ n # 0
      BY <1>3, <2>1
    <3>2. wire[i].value \notin torn
      BY <1>10, <2>1, <3>1
    <3>3. ASSUME NEW j \in 1 .. L, n <= j, wire[j].field = "data", wire[i].value = wire[j].value
          PROVE  FALSE
      <4>1. i < j
        BY <1>3, <2>1, <3>3
      <4>2. wire[i].value < wire[j].value /\ wire[i].value \in 1 .. Len(published)
        BY <1>9, <2>1, <3>1, <3>3, <4>1
      <4> QED
        BY <3>3, <4>2
    <3> QED
      BY <1>11, <3>1, <3>2, <3>3
  <2>2. ASSUME event # 0, n # 0
        PROVE  event \notin torn'
    <3>1. L # 0
      BY <1>3, <2>2
    <3>2. event \notin torn
      BY <1>10, <2>2, <3>1
    <3>3. ASSUME NEW j \in 1 .. L, wire[j].field = "data", event = wire[j].value
          PROVE  FALSE
      <4>1. event < wire[j].value /\ wire[j].value \in 1 .. Len(published)
        BY <1>9, <3>3
      <4> QED
        BY <3>3, <4>1
    <3> QED
      BY <1>11, <2>2, <3>2, <3>3
  <2>3. wire' # <<>> => n # 0
    BY <1>6, EmptySeq
  <2> QED
    BY <1>4, <1>6, <2>1, <2>2, <2>3 DEF TornApart
<1>17. ShownRight'
  <2>1. shown \in Seq(Nat)
    BY DEF IInv, TypeOK, TypeWatch
  <2>2. DOMAIN shown = 1 .. Len(shown)
    BY <2>1, LenProperties
  <2>3. ASSUME NEW k \in 1 .. Len(shown) PROVE shown[k] \notin torn'
    <3>1. shown[k] \notin torn /\ shown[k] \in 1 .. Len(published)
      BY <2>2 DEF IInv, ShownRight
    <3>2. event # 0 => shown[k] < event /\ event \in 1 .. Len(published)
      BY <1>9
    <3>3. event # 0 => shown[k] # event
      BY <3>1, <3>2
    <3>4. ASSUME NEW j \in 1 .. L, wire[j].field = "data", shown[k] = wire[j].value
          PROVE  FALSE
      <4>1. shown[k] < wire[j].value /\ wire[j].value \in 1 .. Len(published)
        BY <1>9, <3>4
      <4> QED
        BY <3>4, <4>1
    <3> QED
      BY <1>11, <3>1, <3>3, <3>4
  <2> QED
    BY <1>4, <2>2, <2>3 DEF IInv, ShownRight, Selected
<1>18. Counting' /\ Asked'
  BY <1>4 DEF IInv, Counting, Asked
<1>19. EndRight'
  BY <1>4, <1>5 DEF IInv, EndRight
<1> QED
  BY <1>12, <1>14, <1>15, <1>16, <1>17, <1>18, <1>19 DEF IInv

\* With nothing under way the past may be forgotten.
LEMMA ForgetInvariant == ASSUME IInv, Forget PROVE IInv'
<1>1. /\ pc # "ended" /\ wire = <<>> /\ event = 0
      /\ published' = <<>> /\ shown' = <<>> /\ torn' = {}
      /\ UNCHANGED <<pc, request, attempt, received, serverDelay, outcome, event, retryDelay,
                     expired, canceled, wire, open, fruitless, heard>>
  BY DEF Forget, decoder, context, connection, history
<1>2. TypeFlags'
  BY <1>1 DEF IInv, TypeOK, TypeFlags
<1>3. TypeWatch' /\ TypeStream'
  BY <1>1 DEF IInv, TypeOK, TypeWatch, TypeStream
<1>4. TypeHistory'
  BY <1>1 DEF IInv, TypeOK, TypeHistory
<1>5. Framed'
  BY <1>1 DEF IInv, Framed
<1>6. UnderWay' /\ TornApart'
  BY <1>1 DEF UnderWay, TornApart
<1>7. Counting' /\ Asked'
  BY <1>1 DEF IInv, Counting, Asked
<1>8. ShownRight'
  BY <1>1 DEF ShownRight
<1>9. EndRight'
  <2>1. outcome' = "none" /\ Len(shown') = 0
    BY <1>1 DEF IInv, Asked
  <2> QED
    BY <2>1 DEF EndRight
<1> QED
  BY <1>2, <1>3, <1>4, <1>5, <1>6, <1>7, <1>8, <1>9 DEF IInv, TypeOK

-----------------------------------------------------------------------------

\* What holds of the watch in every state.
LEMMA Invariance == Spec => []IInv
<1>1. ASSUME IInv, [Next]_vars PROVE IInv'
  <2>1. CASE Client
    BY <1>1, <2>1, StartInvariant, CheckInvariant, ConnectInvariant, ReadInvariant,
       StreamEndsInvariant, WaitInvariant DEF Client
  <2>2. CASE Server
    BY <1>1, <2>2, PublishInvariant, AskDelayInvariant, BreakInvariant DEF Server
  <2>3. CASE Expire \/ Interrupt
    BY <1>1, <2>3, ContextEndsInvariant
  <2>5. CASE Forget
    BY <1>1, <2>5, ForgetInvariant
  <2>4. CASE UNCHANGED vars
    <3>1. UNCHANGED <<pc, request, attempt, received, serverDelay, shown, outcome, event, retryDelay,
                      expired, canceled, wire, open, published, torn, fruitless, heard>>
      BY <2>4 DEF vars, watch, decoder, context, connection, history
    <3>2. TypeFlags'
      BY <1>1, <3>1 DEF IInv, TypeOK, TypeFlags
    <3>3. TypeWatch' /\ TypeStream' /\ TypeHistory'
      BY <1>1, <3>1 DEF IInv, TypeOK, TypeWatch, TypeStream, TypeHistory
    <3>4. Framed' /\ UnderWay' /\ TornApart' /\ Counting' /\ Asked'
      BY <1>1, <3>1 DEF IInv, Framed, UnderWay, TornApart, Counting, Asked
    <3>5. EndRight'
      BY <1>1, <3>1 DEF IInv, EndRight
    <3>6. ShownRight'
      BY <1>1, <3>1, ShownKeeps
    <3> QED
      BY <3>2, <3>3, <3>4, <3>5, <3>6 DEF IInv, TypeOK
  <2> QED
    BY <1>1, <2>1, <2>2, <2>3, <2>4, <2>5 DEF Next, Ended
<1> QED
  BY InitInvariant, <1>1, PTL DEF Spec

\* The watch, its decoder and the stream keep their types: in particular no line is handed
\* to the decoder that the server does not send.
THEOREM TypeCorrect == Spec => []TypeOK
<1>1. IInv => TypeOK
  BY DEF IInv
<1> QED
  BY Invariance, <1>1, PTL

\* What `ocis event watch` shows are whole events of the types asked for, each once and in
\* order across all reconnections, and its outcome tells what happened (runEventWatch).
THEOREM HonestWatch == Spec => []WatchIsHonest
<1>1. IInv => WatchIsHonest
  BY DEF IInv, WatchIsHonest
<1> QED
  BY Invariance, <1>1, PTL
=============================================================================

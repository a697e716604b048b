-------------------------- MODULE EventStreamProofs --------------------------
(* Proofs about EventStream, for any number of events and attempts and for  *)
(* connections that end anywhere.                                           *)
EXTENDS EventStream, TLAPS

USE StreamAssumption

(* The loop owns the response it has opened, until it is over.             *)
Owner ==
  /\ open = IF owned THEN 1 ELSE 0
  /\ Ended => ~owned

StreamInv == TypeOK /\ Owner

LEMMA InitStream == Init => StreamInv
<1> SUFFICES ASSUME Init PROVE StreamInv
  OBVIOUS
<1>1. NoFields \in Decoders /\ <<>> \in Seq(Events) /\ {} \in SUBSET Fields
  BY DEF NoFields, Decoders
<1>2. TypeOK
  <2>1. /\ published \in 0..MaxEvents /\ next \in Nat \ {0} /\ last \in Nat
        /\ attempts \in 0..MaxAttempts /\ open \in Nat
    BY DEF Init
  <2>2. resumable \in BOOLEAN /\ owned \in BOOLEAN
    BY DEF Init
  <2> QED BY <1>1, <2>1, <2>2 DEF Init, TypeOK
<1>3. Owner
  BY DEF Init, Owner, Ended
<1> QED BY <1>2, <1>3 DEF StreamInv

\* Closing the response the loop owns leaves none.
LEMMA CloseLeavesNone ==
  ASSUME StreamInv
  PROVE  OthersOpen = 0
<1>1. CASE owned
  BY <1>1 DEF StreamInv, Owner, OthersOpen
<1>2. CASE ~owned
  BY <1>2 DEF StreamInv, Owner, OthersOpen
<1> QED BY <1>1, <1>2

LEMMA CloseStream ==
  ASSUME StreamInv, NEW label \in {"deciding", "over", "failed"}, CloseOwn(label)
  PROVE  Owner' /\ pc' = label /\ owned' \in BOOLEAN /\ open' \in Nat
<1>1. pc' = label /\ owned' = FALSE /\ open' = 0
  BY CloseLeavesNone DEF CloseOwn
<1> QED BY <1>1 DEF Owner, Ended

LEMMA FieldsTyped ==
  ASSUME StreamInv, NEW f, NEW v \in Nat
  PROVE  DecodeField(f, v) \in Decoders /\ ForgetInProgress \in Decoders
<1>1. /\ decoder.id \in Nat /\ decoder.data \in Seq(Nat)
      /\ decoder.retry \in {"unset", "set"}
  BY DEF StreamInv, TypeOK, Decoders
<1>2. Append(decoder.data, v) \in Seq(Nat) /\ <<>> \in Seq(Nat)
  BY <1>1
<1> QED BY <1>1, <1>2 DEF DecodeField, ForgetInProgress, Decoders

\* What the decoder dispatches.
LEMMA EventTyped ==
  ASSUME StreamInv
  PROVE  [id |-> decoder.id, data |-> decoder.data] \in Events
BY DEF StreamInv, TypeOK, Decoders, Events

LEMMA ReadingStream ==
  ASSUME StreamInv, Reading
  PROVE  StreamInv'
<1> USE DEF StreamInv, TypeOK, Owner, Ended, connection, loop
<1>1. CASE \E fields \in Frames : StartFrame(fields)
  BY <1>1 DEF StartFrame
<1>2. CASE \E field \in Fields : ReadField(field)
  BY <1>2, FieldsTyped DEF ReadField
<1>3. CASE ReadBlank
  <2>1. /\ next' \in Nat \ {0} /\ frame' = "none" /\ left' = {}
        /\ UNCHANGED <<published, pc, resumable, owned, open>>
    BY <1>3 DEF ReadBlank, Connected
  <2>2. /\ decoder' \in Decoders
        /\ delivered' \in Seq(Events)
        /\ last' \in Nat /\ attempts' \in 0..MaxAttempts
    <3>1. CASE Silent
      BY <1>3, <3>1 DEF ReadBlank
    <3>2. CASE ~Silent
      <4>1. decoder.id \in Nat
        BY DEF Decoders
      <4> QED BY <1>3, <3>2, <4>1, FieldsTyped, EventTyped DEF ReadBlank
    <3> QED BY <3>1, <3>2
  <2> QED BY <2>1, <2>2
<1>4. CASE Drop
  <2>1. CASE resumable
    BY <1>4, <2>1 DEF Drop
  <2>2. CASE ~resumable
    <3>1. CloseOwn("failed")
      BY <1>4, <2>2 DEF Drop
    <3>2. Owner'
      BY <3>1, CloseStream
    <3> QED BY <1>4, <3>1, <3>2, CloseStream DEF Drop
  <2> QED BY <2>1, <2>2
<1>5. CASE Finish
  <2>1. \A v \in 0..next : v \in Nat
    OBVIOUS
  <2>2. decoder' \in Decoders
    BY <1>5, <2>1, FieldsTyped DEF Finish
  <2> QED BY <1>5, <2>2 DEF Finish
<1>6. CASE Violate
  <2>1. CloseOwn("failed")
    BY <1>6 DEF Violate
  <2>2. Owner'
    BY <2>1, CloseStream
  <2> QED BY <1>6, <2>1, <2>2, CloseStream DEF Violate
<1> QED BY <1>1, <1>2, <1>3, <1>4, <1>5, <1>6 DEF Reading

LEMMA ReconnectingStream ==
  ASSUME StreamInv, Reconnecting \/ Close \/ Publish
  PROVE  StreamInv'
<1> USE DEF StreamInv, Waiting, connection, loop
<1>1. ASSUME NEW label \in {"deciding", "over"}, CloseOwn(label),
             UNCHANGED <<Waiting, attempts>>
      PROVE  StreamInv'
  <2>1. Owner' /\ pc' = label /\ owned' \in BOOLEAN /\ open' \in Nat
    BY <1>1, CloseStream
  <2> QED BY <1>1, <2>1 DEF TypeOK
<1>2. CASE Sleep
  BY <1>2 DEF Sleep, ShouldReconnect, TypeOK, Owner, Ended
<1>3. CASE GiveUp \/ ConnectFails \/ Close
  BY <1>1, <1>3 DEF GiveUp, ConnectFails, Close
<1>4. CASE ConnectUnusable
  <2>1. open' = 1 /\ owned' = TRUE /\ pc' = "deciding"
    BY <1>4, CloseLeavesNone DEF ConnectUnusable
  <2>2. Owner'
    BY <2>1 DEF Owner, Ended
  <2> QED BY <1>4, <2>1, <2>2 DEF ConnectUnusable, TypeOK
<1>5. CASE Connect
  <2>1. open' = 1 /\ owned' = TRUE /\ pc' = "reading"
    BY <1>5, CloseLeavesNone DEF Connect
  <2>2. Owner'
    BY <2>1 DEF Owner, Ended
  <2> QED BY <1>5, <2>1, <2>2, FieldsTyped DEF Connect, Connected, TypeOK
<1>7. CASE Publish
  BY <1>7 DEF Publish, TypeOK, Owner, Ended
<1> QED BY <1>2, <1>3, <1>4, <1>5, <1>7 DEF Reconnecting

LEMMA NextStream == StreamInv /\ [Next]_vars => StreamInv'
<1>1. StreamInv /\ UNCHANGED vars => StreamInv'
  BY DEF StreamInv, TypeOK, Owner, Ended, vars, connection, loop
<1> QED BY <1>1, ReadingStream, ReconnectingStream DEF Next

\* Every variable keeps its type, and the failed attempts in a row stay within
\* the option, whatever the service sends and wherever connections end.
THEOREM StreamTyped == Spec => []TypeOK
<1>1. StreamInv => TypeOK
  BY DEF StreamInv
<1> QED BY InitStream, NextStream, <1>1, PTL DEF Spec

\* The loop never holds more than one response beside the first, and none
\* when it is over, on whatever path it ends.
THEOREM ConnectionsClosed == Spec => []OneConnection
<1>1. StreamInv => OneConnection
  BY DEF StreamInv, Owner, OneConnection
<1> QED BY InitStream, NextStream, <1>1, PTL DEF Spec

-----------------------------------------------------------------------------
(* While the service sends nothing but events, the loop implements          *)
(* OrderedDelivery.                                                         *)

(* The part of the next event that has been parsed.                        *)
Parsed ==
  /\ next = last + 1
  /\ frame = "none" => decoder.data = <<>> /\ left = {}
  /\ frame # "none" =>
       /\ frame = "event" /\ next <= published
       /\ "id" \notin left => decoder.id = next
       /\ decoder.data = IF "data" \in left THEN <<>> ELSE <<next>>

(* What was dispatched is the log up to the ID a reconnect would name.     *)
LogInv ==
  /\ StreamInv
  /\ last <= published
  /\ Len(delivered) = last
  /\ \A i \in 1..last : delivered[i] = Delivery!Event(i)
  /\ pc = "reading" => Parsed

LEMMA InitLog == Init => LogInv
BY InitStream DEF Init, LogInv, Parsed, NoFields

\* A complete event is the next of the log.
LEMMA BlankDelivers ==
  ASSUME LogInv, ReadBlank
  PROVE  /\ last < published
         /\ delivered' = Append(delivered, Delivery!Event(last + 1))
         /\ last' = last + 1
         /\ pc = "reading" /\ pc' = "reading"
         /\ next' = last + 2 /\ frame' = "none" /\ left' = {}
         /\ decoder'.data = <<>>
         /\ published' = published
<1>1. /\ decoder.id = last + 1 /\ decoder.data = <<last + 1>>
      /\ frame = "event" /\ next = last + 1 /\ next <= published
      /\ pc = "reading"
  BY DEF ReadBlank, LogInv, Parsed
<1>2. last \in Nat /\ published \in Nat /\ last + 1 # 0
  BY DEF LogInv, StreamInv, TypeOK
<1>3. ~Silent
  BY <1>1, <1>2 DEF Silent, NoFields
<1>4. /\ delivered' = Append(delivered, [id |-> last + 1, data |-> <<last + 1>>])
      /\ last' = last + 1
      /\ decoder' = ForgetInProgress
      /\ next' = last + 2 /\ frame' = "none" /\ left' = {}
      /\ UNCHANGED <<published, pc>>
  BY <1>1, <1>2, <1>3 DEF ReadBlank, Connected
<1> QED BY <1>1, <1>2, <1>4 DEF ForgetInProgress, Delivery!Event

\* What reading a field leaves of the event.
LEMMA FieldParsed ==
  ASSUME LogInv, NEW field \in Fields, ReadField(field)
  PROVE  Parsed'
<1>1. Parsed /\ field \in left /\ frame # "none" /\ next \in Nat
  BY DEF LogInv, ReadField, Parsed, StreamInv, TypeOK
<1>2. /\ left' = left \ {field} /\ decoder' = DecodeField(field, next)
      /\ next' = next /\ frame' = frame /\ last' = last /\ published' = published
  BY DEF ReadField, loop
<1>3. decoder'.id = IF field = "id" THEN next ELSE decoder.id
  BY <1>2 DEF DecodeField
<1>4. decoder'.data = IF field = "data" THEN <<next>> ELSE decoder.data
  <2>1. decoder'.data = IF field = "data" THEN Append(decoder.data, next)
                                         ELSE decoder.data
    BY <1>2 DEF DecodeField
  <2>2. CASE field = "data"
    <3>1. decoder.data = <<>>
      BY <1>1, <2>2 DEF Parsed
    <3> QED BY <1>1, <2>1, <2>2, <3>1
  <2> QED BY <2>1, <2>2
<1> QED BY <1>1, <1>2, <1>3, <1>4 DEF Parsed

LEMMA NextLog ==
  ASSUME \A f \in Frames : "id" \in f
  PROVE  LogInv /\ [Next]_vars => LogInv'
<1> SUFFICES ASSUME LogInv, [Next]_vars PROVE LogInv'
  OBVIOUS
<1>1. StreamInv' /\ StreamInv
  BY NextStream DEF LogInv
<1>2. last \in Nat /\ published \in Nat /\ delivered \in Seq(Events)
  BY <1>1 DEF StreamInv, TypeOK
<1> USE DEF connection, loop
<1>3. ASSUME UNCHANGED <<delivered, last>>, published' \in {published, published + 1},
             pc' = "reading" => Parsed'
      PROVE  LogInv'
  BY <1>1, <1>2, <1>3 DEF LogInv
<1>4. CASE \E fields \in Frames : StartFrame(fields)
  <2>1. PICK fields \in Frames : StartFrame(fields)
    BY <1>4
  <2>2. /\ frame' = "event" /\ left' = fields /\ next <= published
        /\ "id" \in fields /\ "data" \in fields
        /\ Parsed /\ frame = "none"
    BY <2>1 DEF StartFrame, LogInv
  <2>3. Parsed'
    BY <2>1, <2>2 DEF StartFrame, Parsed
  <2> QED BY <1>3, <2>1, <2>3 DEF StartFrame
<1>5. CASE \E field \in Fields : ReadField(field)
  BY <1>3, <1>5, FieldParsed DEF ReadField
<1>6. CASE ReadBlank
  <2>1. Parsed'
    BY <1>2, <1>6, BlankDelivers DEF Parsed
  <2>2. /\ Len(delivered') = last + 1
        /\ \A i \in 1..last : delivered'[i] = delivered[i]
        /\ delivered'[last + 1] = Delivery!Event(last + 1)
    BY <1>2, <1>6, BlankDelivers DEF LogInv
  <2>3. \A i \in 1..(last + 1) : delivered'[i] = Delivery!Event(i)
    BY <1>2, <2>2 DEF LogInv
  <2>4. \A i \in 1..last' : delivered'[i] = Delivery!Event(i)'
    BY <1>6, <2>3, BlankDelivers DEF Delivery!Event
  <2> QED BY <1>1, <1>2, <1>6, <2>1, <2>2, <2>4, BlankDelivers DEF LogInv
<1>7. CASE Drop \/ Violate
  BY <1>3, <1>7 DEF Drop, Violate, CloseOwn
<1>8. CASE Finish
  BY <1>3, <1>8 DEF Finish
<1>9. CASE GiveUp \/ Sleep \/ ConnectFails \/ ConnectUnusable \/ Close
  BY <1>3, <1>9 DEF GiveUp, Sleep, ConnectFails, ConnectUnusable, Close, CloseOwn,
                    Waiting
<1>10. CASE Connect
  <2>1. Parsed'
    BY <1>10 DEF Connect, Connected, ForgetInProgress, Parsed
  <2> QED BY <1>3, <1>10, <2>1 DEF Connect
<1>11. CASE Publish
  <2>1. pc' = "reading" => Parsed'
    BY <1>2, <1>1, <1>11 DEF Publish, LogInv, Parsed, StreamInv, TypeOK
  <2> QED BY <1>3, <1>11, <2>1 DEF Publish
<1>12. CASE UNCHANGED vars
  BY <1>1, <1>3, <1>12 DEF vars, LogInv, Parsed
<1> QED BY <1>4, <1>5, <1>6, <1>7, <1>8, <1>9, <1>10, <1>11, <1>12
        DEF Next, Reading, Reconnecting

LEMMA InitDelivers == Init => Delivery!Init
BY DEF Init, Delivery!Init, Ended

LEMMA StepDelivers ==
  LogInv /\ [Next]_vars => [Delivery!Next]_(Delivery!vars)
<1> SUFFICES ASSUME LogInv, [Next]_vars
             PROVE  [Delivery!Next]_(Delivery!vars)
  OBVIOUS
<1> USE DEF Delivery!vars, connection, loop, Waiting, CloseOwn, Ended
<1>1. CASE Publish
  BY <1>1 DEF Publish, Delivery!Next, Delivery!Publish
<1>2. CASE ReadBlank
  <2>1. Len(delivered) < published /\ ~Ended /\ ~Ended'
    BY <1>2, BlankDelivers DEF LogInv
  <2>2. delivered' = Append(delivered, Delivery!Event(Len(delivered) + 1))
    BY <1>2, BlankDelivers DEF LogInv
  <2>3. published' = published
    BY <1>2, BlankDelivers
  <2> QED BY <2>1, <2>2, <2>3 DEF Delivery!Next, Delivery!Deliver
<1>3. CASE Drop \/ Violate \/ Finish \/ GiveUp \/ Sleep \/ ConnectFails \/ ConnectUnusable
           \/ Connect \/ Close
  <2>1. UNCHANGED <<published, delivered>> /\ ~Ended
    BY <1>3 DEF Drop, Violate, Finish, GiveUp, Sleep, ConnectFails, ConnectUnusable, Connect,
                Close
  <2>2. CASE Ended'
    BY <2>1, <2>2 DEF Delivery!Next, Delivery!End
  <2>3. CASE ~Ended'
    BY <2>1, <2>3
  <2> QED BY <2>2, <2>3
<1>4. CASE (\E fields \in Frames : StartFrame(fields))
           \/ (\E field \in Fields : ReadField(field))
  BY <1>4 DEF StartFrame, ReadField
<1>5. CASE UNCHANGED vars
  BY <1>5 DEF vars
<1> QED BY <1>1, <1>2, <1>3, <1>4, <1>5 DEF Next, Reading, Reconnecting

\* While the service sends nothing but events, however many and however often
\* a connection ends, is refused or is cut in the middle of a line, a stream
\* delivers the log: each event once, in order and unaltered.
THEOREM StreamDelivers ==
  ASSUME \A f \in Frames : "id" \in f
  PROVE  Spec => ImplementsDelivery
<1>1. Spec => []LogInv
  BY InitLog, NextLog, PTL DEF Spec
<1> QED BY <1>1, InitDelivers, StepDelivers, PTL DEF Spec, ImplementsDelivery,
                                                      Delivery!Spec
=============================================================================

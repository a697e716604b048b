----------------------------- MODULE EventStream -----------------------------
(***************************************************************************)
(* A server-sent event stream of the Python client (core/http_sse): the      *)
(* decoder that turns lines into events, and the loop of iter_sse and        *)
(* aiter_sse that reconnects when the connection ends, asking the service to *)
(* resume after the last event it dispatched.                                *)
(*                                                                         *)
(* The service is external: it numbers its events from 1 and sends, on each  *)
(* connection, those after the Last-Event-ID it was given.  An event is a    *)
(* frame of fields, in any order, that a blank line completes; a frame       *)
(* without "id" and "data" keeps the connection alive or sets the delay.     *)
(* An event stands for its number, no ID (the empty string) for 0.  Lines    *)
(* the decoder ignores, the delays and the text decoding are left out.       *)
(*                                                                         *)
(* MutantX is a plausible slip in X; the specification never uses it.      *)
(***************************************************************************)
EXTENDS Naturals, Sequences

CONSTANTS
  MaxEvents,              \* bound on the events the service publishes
  MaxDelivered,           \* bound on what is dispatched to the consumer
  MaxAttempts,            \* max_stream_reconnection_attempts, 5 by default
  Frames                  \* the frames the service sends: their fields

Fields == {"id", "data", "retry"}

ASSUME StreamAssumption ==
  /\ MaxEvents \in Nat /\ MaxDelivered \in Nat /\ MaxAttempts \in Nat
  /\ Frames \subseteq SUBSET Fields
  /\ \A f \in Frames : "id" \in f <=> "data" \in f

VARIABLES
  published,              \* how many events the service has published
  next, frame, left,      \* the connection: the event that comes next, the
                          \* frame that has begun, its fields still to come
  decoder,                \* the fields of the event that is being parsed
  pc,                     \* where the loop is
  resumable,              \* may the stream be reconnected
  last,                   \* the last event ID dispatched
  attempts,               \* reconnection attempts since then
  owned,                  \* has the loop a response of its own to close
  open,                   \* responses the loop has opened and not closed
  delivered               \* what the consumer has been given

connection == <<next, frame, left>>
loop == <<pc, resumable, last, attempts, owned, open>>
vars == <<published, connection, decoder, loop, delivered>>

-----------------------------------------------------------------------------
(* State.                                                                  *)

NoFields == [id |-> 0, data |-> <<>>, retry |-> "unset"]

Connected(n) == next' = n /\ frame' = "none" /\ left' = {}

Ended == pc \in {"over", "failed"}

(* A stream is resumable if its endpoint is, names a terminator, and        *)
(* neither the client nor the request turns reconnection off.               *)
Init ==
  /\ published = 0
  /\ next = 1 /\ frame = "none" /\ left = {}
  /\ decoder = NoFields
  /\ pc = "reading" /\ resumable \in BOOLEAN
  /\ last = 0 /\ attempts = 0
  /\ owned = FALSE /\ open = 0
  /\ delivered = <<>>

-----------------------------------------------------------------------------
(* Reading.                                                                *)

DecodeField(field, value) ==
  [id |-> IF field = "id" THEN value ELSE decoder.id,
   data |-> IF field = "data" THEN Append(decoder.data, value) ELSE decoder.data,
   retry |-> IF field = "retry" THEN "set" ELSE decoder.retry]

StartFrame(fields) ==
  /\ pc = "reading" /\ frame = "none"
  /\ Len(delivered) < MaxDelivered
  /\ "id" \in fields => next <= published
  /\ frame' = IF "id" \in fields THEN "event" ELSE "other"
  /\ left' = fields
  /\ UNCHANGED <<published, next, decoder, loop, delivered>>

ReadField(field) ==
  /\ pc = "reading" /\ field \in left
  /\ left' = left \ {field}
  /\ decoder' = DecodeField(field, next)
  /\ UNCHANGED <<published, next, frame, loop, delivered>>

(* Nothing is dispatched only while the decoder holds nothing, an ID of an  *)
(* earlier event included.                                                  *)
Silent == decoder = NoFields

(* The decoder forgets what it has parsed of an event, except its ID.      *)
ForgetInProgress == [id |-> decoder.id, data |-> <<>>, retry |-> "unset"]

(* A blank line: the event is dispatched, and the loop notes its ID.       *)
ReadBlank ==
  /\ pc = "reading" /\ frame # "none" /\ left = {}
  /\ Connected(IF frame = "event" THEN next + 1 ELSE next)
  /\ IF Silent
     THEN UNCHANGED <<decoder, last, attempts, delivered>>
     ELSE /\ delivered' = Append(delivered, [id |-> decoder.id, data |-> decoder.data])
          /\ last' = IF decoder.id # 0 THEN decoder.id ELSE last
          /\ attempts' = 0
          /\ decoder' = ForgetInProgress
  /\ UNCHANGED <<published, pc, resumable, owned, open>>

(* Closing the response the loop owns leaves the others open.              *)
OthersOpen == IF owned THEN open - 1 ELSE open

CloseOwn(label) == pc' = label /\ owned' = FALSE /\ open' = OthersOpen

(* The connection is lost: an error to the caller unless the stream can be *)
(* resumed.                                                                 *)
Drop ==
  /\ pc = "reading"
  /\ IF resumable THEN pc' = "deciding" /\ UNCHANGED <<owned, open>>
                  ELSE CloseOwn("failed")
  /\ UNCHANGED <<published, connection, decoder, resumable, last, attempts, delivered>>

(* What is read breaks the protocol: another content type on the first      *)
(* connection, a line that is too long.  Resumable or not, the caller gets  *)
(* the SSEError.                                                            *)
Violate ==
  /\ pc = "reading"
  /\ CloseOwn("failed")
  /\ UNCHANGED <<published, connection, decoder, resumable, last, attempts, delivered>>

(* The body ends between two characters; what there is of a last line is    *)
(* decoded as if it were whole, so an ID may be cut short or empty.          *)
Finish ==
  /\ pc = "reading"
  /\ decoder' \in {decoder} \union {DecodeField(f, v) : f \in left, v \in 0..next}
  /\ pc' = "deciding"
  /\ UNCHANGED <<published, connection, resumable, last, attempts, owned, open, delivered>>

-----------------------------------------------------------------------------
(* Reconnecting.                                                           *)

MutantShouldReconnect == resumable /\ last # 0 /\ attempts <= MaxAttempts

ShouldReconnect == resumable /\ last # 0 /\ attempts < MaxAttempts

Waiting == <<published, connection, decoder, resumable, last, delivered>>

GiveUp ==
  /\ pc = "deciding" /\ ~ShouldReconnect
  /\ CloseOwn("over")
  /\ UNCHANGED <<Waiting, attempts>>

MutantSleep ==
  /\ pc = "deciding" /\ ShouldReconnect
  /\ pc' = "sleeping"
  /\ UNCHANGED <<Waiting, attempts, owned, open>>

Sleep ==
  /\ pc = "deciding" /\ ShouldReconnect
  /\ pc' = "sleeping" /\ attempts' = attempts + 1
  /\ UNCHANGED <<Waiting, owned, open>>

ConnectFails ==
  /\ pc = "sleeping"
  /\ CloseOwn("deciding")
  /\ UNCHANGED <<Waiting, attempts>>

MutantConnectUnusable ==
  /\ pc = "sleeping"
  /\ pc' = "deciding" /\ owned' = FALSE /\ open' = OthersOpen + 1
  /\ UNCHANGED <<Waiting, attempts>>

(* An error page, or anything else that is no event stream: not read, and  *)
(* closed before the next attempt.                                          *)
ConnectUnusable ==
  /\ pc = "sleeping"
  /\ pc' = "deciding" /\ owned' = TRUE /\ open' = OthersOpen + 1
  /\ UNCHANGED <<Waiting, attempts>>

MutantConnect ==
  /\ pc = "sleeping"
  /\ pc' = "reading" /\ owned' = TRUE /\ open' = OthersOpen + 1
  /\ Connected(last + 1)
  /\ UNCHANGED <<published, decoder, resumable, last, attempts, delivered>>

(* The service resumes after the last event dispatched, and what was parsed *)
(* of the next one is forgotten, except its ID.                             *)
Connect ==
  /\ pc = "sleeping"
  /\ pc' = "reading" /\ owned' = TRUE /\ open' = OthersOpen + 1
  /\ Connected(last + 1)
  /\ decoder' = ForgetInProgress
  /\ UNCHANGED <<published, resumable, last, attempts, delivered>>

(* The consumer closes the generator or is cancelled, wherever it is.      *)
Close ==
  /\ ~Ended
  /\ CloseOwn("over")
  /\ UNCHANGED <<Waiting, attempts>>

-----------------------------------------------------------------------------

Publish ==
  /\ published < MaxEvents
  /\ published' = published + 1
  /\ UNCHANGED <<connection, decoder, loop, delivered>>

Reading ==
  \/ \E fields \in Frames : StartFrame(fields)
  \/ \E field \in Fields : ReadField(field)
  \/ ReadBlank
  \/ Drop
  \/ Violate
  \/ Finish

Reconnecting ==
  \/ GiveUp
  \/ Sleep
  \/ ConnectFails
  \/ ConnectUnusable
  \/ Connect

Next == Publish \/ Reading \/ Reconnecting \/ Close

Spec == Init /\ [][Next]_vars

(* A delay ends and so does an attempt to connect; nothing is assumed of   *)
(* the service or of the consumer.                                          *)
FairSpec == Spec /\ WF_vars(Reconnecting)

-----------------------------------------------------------------------------
(* Properties.                                                             *)

Decoders == [id : Nat, data : Seq(Nat), retry : {"unset", "set"}]
Events == [id : Nat, data : Seq(Nat)]

(* Every variable has its type, and a stream makes no more attempts in a   *)
(* row than its option allows.                                              *)
TypeOK ==
  /\ published \in 0..MaxEvents
  /\ next \in Nat \ {0}
  /\ frame \in {"none", "event", "other"}
  /\ left \in SUBSET Fields
  /\ decoder \in Decoders
  /\ pc \in {"reading", "deciding", "sleeping", "over", "failed"}
  /\ resumable \in BOOLEAN
  /\ last \in Nat
  /\ attempts \in 0..MaxAttempts
  /\ owned \in BOOLEAN
  /\ open \in Nat
  /\ delivered \in Seq(Events)

Delivery == INSTANCE OrderedDelivery WITH ended <- Ended

(* As long as the service sends nothing but events, reconnecting loses,    *)
(* repeats, reorders and alters none, wherever a connection ends, in the    *)
(* middle of a line included.                                               *)
ImplementsDelivery == Delivery!Spec

(* The loop never holds more than one response beside the first, and none  *)
(* when it is over.                                                         *)
OneConnection == open <= 1 /\ (Ended => open = 0)

(* A stream that has lost its connection is read again or ends: the        *)
(* attempts that fail one after the other are counted.                      *)
Settles == pc = "deciding" ~> pc = "reading" \/ Ended

(* "the never-dispatched event must be dropped so [it does] not corrupt the *)
(* first event of the reconnected stream", says the decoder: what is        *)
(* delivered with content is the log, without a gap.                        *)
Contents ==
  SelectSeq(delivered, LAMBDA event : event.data # <<>>)

NothingSkipped == \A i \in DOMAIN Contents : Contents[i].data = <<i>>
=============================================================================

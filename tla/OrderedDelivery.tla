--------------------------- MODULE OrderedDelivery ---------------------------
(***************************************************************************)
(* What a resumable event stream promises: its consumer receives the events *)
(* the service has published, each once, in their order and unaltered, up   *)
(* to where the stream ends.  How the events travel, which connections fail *)
(* and where each one resumes is not visible here.                          *)
(***************************************************************************)
EXTENDS Naturals, Sequences

CONSTANT MaxEvents        \* how many events the service may publish

VARIABLES
  published,              \* how many it has published
  delivered,              \* what the consumer has received
  ended                   \* the stream is over

vars == <<published, delivered, ended>>

Event(n) == [id |-> n, data |-> <<n>>]

Init == published = 0 /\ delivered = <<>> /\ ended = FALSE

Publish ==
  /\ published < MaxEvents
  /\ published' = published + 1
  /\ UNCHANGED <<delivered, ended>>

Deliver ==
  /\ ~ended
  /\ Len(delivered) < published
  /\ delivered' = Append(delivered, Event(Len(delivered) + 1))
  /\ UNCHANGED <<published, ended>>

End ==
  /\ ended' = TRUE
  /\ UNCHANGED <<published, delivered>>

Next == Publish \/ Deliver \/ End

Spec == Init /\ [][Next]_vars
=============================================================================

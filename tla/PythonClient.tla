---------------------------- MODULE PythonClient ----------------------------
(***************************************************************************)
(* A call of the Python client, from the generated method down to the       *)
(* transport policy and back: core/http_client.py sends and retries it,     *)
(* core/safety.py checks the request, bounds and buffers the answer and     *)
(* closes the connection's response, and the raw client turns what is left  *)
(* into data or an exception.  The synchronous and the asynchronous client  *)
(* are the same code but for its awaits, where a task may be cancelled.     *)
(*                                                                         *)
(* The access token is asked for again for every attempt; the program may   *)
(* rotate it at any time.  Delays, headers and logging are left out.  The   *)
(* network and the service are external: a request is served at most once,  *)
(* at any time, and a success may carry a body the client cannot use.       *)
(*                                                                         *)
(* MutantX is a plausible slip in X; the specification never uses it.      *)
(***************************************************************************)
EXTENDS Naturals, FiniteSets, PythonOperations

CONSTANTS
  Calls,                  \* the calls a program makes
  Mutations,              \* those of a method that changes something
  Direct,                 \* those the program makes itself
  Statuses,               \* the statuses the service may answer with
  Answers,                \* the data each method can be given
  MaxRetries,             \* bound on max_retries
  MaxTokens,              \* bound on rotations of the access token
  MaxCalls,               \* bound on the calls of one run
  None                    \* no token, no answer, an option that is not set

(* The body of a success: as the method expects it, other JSON, no JSON, no *)
(* text even, or over the limit.                                            *)
Bodies == {"expected", "other", "text", "binary", "large"}

ASSUME PythonAssumption ==
  /\ Mutations \subseteq Calls /\ Direct \subseteq Calls
  /\ Statuses \subseteq 200..599
  /\ MaxRetries \in Nat /\ MaxTokens \in Nat /\ MaxCalls \in Nat
  /\ None \notin Nat \union Bodies \union {"ok", "refused", "busy"}

VARIABLES
  call,                   \* the state of each call
  transit,                \* requests sent and not served yet
  effects,                \* how often the service has carried out each call
  unclosed,               \* calls holding a response of the connection pool
  current                 \* number of the access token in use, if there is one

vars == <<call, transit, effects, unclosed, current>>

-----------------------------------------------------------------------------
(* Operations and options.                                                 *)

MutantLimit(op, own, base) == IF own # None THEN own ELSE base

(* Options of the request come before those of the client.  What is not    *)
(* GET or HEAD is sent once; stream(), which reads files, has no retry loop.*)
Limit(op, own, base) ==
  IF Changes(op) \/ Streams(op) THEN 0 ELSE IF own # None THEN own ELSE base

Success(status) == status \in 200..299
Retryable(status) == status >= 500 \/ status \in {429, 408, 409}

-----------------------------------------------------------------------------
(* State.                                                                  *)

(* What the caller gets: data or an exception.  A "TypedError" is one of    *)
(* the classes in errors/, a "TransportError" one of httpx.                 *)
Outcomes ==
  {"pending", "data", "ApiError", "TypedError", "ParsingError", "ValueError",
   "TransportError", "CancelledError"}

Values == {None} \union UNION {Answers[m] : m \in Methods}

CallStates ==
  [method : Methods \union {None},
   pc : {"idle", "prepare", "send", "sent", "body", "close", "backoff", "over"},
   cancelled : BOOLEAN, limit : 0..MaxRetries, attempt : 0..MaxRetries,
   immutable : BOOLEAN,
   token : (0..MaxTokens) \union {None}, since : (0..MaxTokens) \union {None},
   status : Statuses \union {None}, body : Bodies \union {None},
   value : Values, outcome : Outcomes]

Requests == [call : Calls, attempt : 0..MaxRetries]

RequestOf(c) == [call |-> c, attempt |-> call[c].attempt]

At(c, label) == call[c].pc = label
Running(c) == ~call[c].cancelled
Begun == {c \in Calls : ~At(c, "idle")}

Becomes(c, state) == call' = [call EXCEPT ![c] = state]
Ended(c, o) == [call[c] EXCEPT !.pc = "over", !.outcome = o]

Init ==
  /\ call = [c \in Calls |->
       [method |-> None, pc |-> "idle", cancelled |-> FALSE, limit |-> 0, attempt |-> 0,
        immutable |-> FALSE, token |-> None, since |-> None, status |-> None,
        body |-> None, value |-> None, outcome |-> "pending"]]
  /\ transit = {}
  /\ effects = [c \in Calls |-> 0]
  /\ unclosed = {}
  /\ current \in {0, None}

-----------------------------------------------------------------------------
(* Sending.                                                                *)

Op(c) == OperationOf(call[c].method)

(* A file is asked for by an immutable revision ID or by something else.   *)
Begin(c, m, immutable) ==
  /\ At(c, "idle")
  /\ c \in Mutations <=> Changes(OperationOf(m))
  /\ \E own \in (0..MaxRetries) \union {None}, base \in 0..MaxRetries :
       Becomes(c, [call[c] EXCEPT !.method = m, !.pc = "prepare",
                                  !.since = current, !.immutable = immutable,
                                  !.limit = Limit(OperationOf(m), own, base)])
  /\ UNCHANGED <<transit, effects, unclosed, current>>

(* base_headers(), or the await of async_base_headers().                   *)
FetchToken(c) ==
  /\ At(c, "prepare")
  /\ Running(c)
  /\ Becomes(c, [call[c] EXCEPT !.pc = "send", !.token = current])
  /\ UNCHANGED <<transit, effects, unclosed, current>>

Trusted(c) ==
  /\ Protected(Op(c)) => call[c].token # None
  /\ ReadsFile(Op(c)) => call[c].immutable

Transmit(c) ==
  /\ At(c, "send")
  /\ Running(c)
  /\ Trusted(c)
  /\ Becomes(c, [call[c] EXCEPT !.pc = "sent", !.status = None])
  /\ transit' = transit \union {RequestOf(c)}
  /\ UNCHANGED <<effects, unclosed, current>>

Refuse(c) ==
  /\ At(c, "send")
  /\ Running(c)
  /\ ~Trusted(c)
  /\ Becomes(c, Ended(c, "ValueError"))
  /\ UNCHANGED <<transit, effects, unclosed, current>>

MutantRetryAllowed(c) == call[c].attempt <= call[c].limit

RetryAllowed(c) == call[c].attempt < call[c].limit

(* Without a connection the request never left.  A failed connection and   *)
(* one closed without a whole response are tried again, a timeout and other *)
(* failures are not.  A response that was being read is closed.             *)
Fail(c, cause) ==
  /\ At(c, "sent") \/ (At(c, "body") /\ cause # "connect")
  /\ Running(c)
  /\ IF cause = "connect"
     THEN RequestOf(c) \in transit /\ transit' = transit \ {RequestOf(c)}
     ELSE UNCHANGED transit
  /\ Becomes(c, IF cause # "timeout" /\ RetryAllowed(c)
                THEN [call[c] EXCEPT !.pc = "backoff"]
                ELSE Ended(c, "TransportError"))
  /\ unclosed' = unclosed \ {c}
  /\ UNCHANGED <<effects, current>>

MutantWake(c) ==
  /\ At(c, "backoff")
  /\ Running(c)
  /\ Becomes(c, [call[c] EXCEPT !.pc = "send", !.attempt = @ + 1,
                                !.since = current])
  /\ UNCHANGED <<transit, effects, unclosed, current>>

MutantWakeSame(c) ==
  /\ At(c, "backoff")
  /\ Running(c)
  /\ Becomes(c, [call[c] EXCEPT !.pc = "prepare", !.since = current])
  /\ UNCHANGED <<transit, effects, unclosed, current>>

(* request() calls itself after the delay, headers and all.                *)
Wake(c) ==
  /\ At(c, "backoff")
  /\ Running(c)
  /\ Becomes(c, [call[c] EXCEPT !.pc = "prepare", !.attempt = @ + 1,
                                !.since = current])
  /\ UNCHANGED <<transit, effects, unclosed, current>>

-----------------------------------------------------------------------------
(* Receiving.                                                              *)

MutantAccept(c) ==
  /\ At(c, "sent")
  /\ Running(c)
  /\ call[c].status # None
  /\ Becomes(c, [call[c] EXCEPT !.pc = "body"])
  /\ unclosed' = unclosed \union {c}
  /\ UNCHANGED <<transit, effects, current>>

(* The body of anything but a success is replaced by an empty one.         *)
Accept(c) ==
  /\ At(c, "sent")
  /\ Running(c)
  /\ call[c].status # None
  /\ Becomes(c, IF Success(call[c].status)
                THEN [call[c] EXCEPT !.pc = "body"]
                ELSE [call[c] EXCEPT !.pc = "close", !.body = "text"])
  /\ unclosed' = unclosed \union {c}
  /\ UNCHANGED <<transit, effects, current>>

MutantReadBody(c) ==
  /\ At(c, "body")
  /\ Running(c)
  /\ IF call[c].body = "large"
     THEN Becomes(c, Ended(c, "ValueError"))
     ELSE Becomes(c, [call[c] EXCEPT !.pc = "close"])
  /\ UNCHANGED <<transit, effects, unclosed, current>>

(* A body over the limit is dropped, whatever the request has done.        *)
ReadBody(c) ==
  /\ At(c, "body")
  /\ Running(c)
  /\ IF call[c].body = "large"
     THEN /\ Becomes(c, Ended(c, "ValueError"))
          /\ unclosed' = unclosed \ {c}
     ELSE /\ Becomes(c, [call[c] EXCEPT !.pc = "close"])
          /\ UNCHANGED unclosed
  /\ UNCHANGED <<transit, effects, current>>

(* The raw client: a success is parsed as the method's type, a documented  *)
(* status as its exception's; what is no JSON becomes an ApiError.  Bytes   *)
(* that are no UTF-8 escape it as a UnicodeDecodeError, a ValueError.       *)
Handled(c) ==
  LET status == call[c].status
      body == call[c].body
  IN  IF Success(status) /\ Streams(Op(c)) THEN "data"
      ELSE IF body = "binary" THEN "ValueError"
      ELSE IF body = "text" THEN "ApiError"
      ELSE IF Success(status)
           THEN IF body = "other" THEN "ParsingError" ELSE "data"
      ELSE IF status \in Op(c).errors THEN "TypedError" ELSE "ApiError"

Settle(c) ==
  /\ At(c, "close")
  /\ Running(c)
  /\ Becomes(c, IF Retryable(call[c].status) /\ RetryAllowed(c)
                THEN [call[c] EXCEPT !.pc = "backoff"]
                ELSE Ended(c, Handled(c)))
  /\ unclosed' = unclosed \ {c}
  /\ UNCHANGED <<transit, effects, current>>

(* A cancelled task gets its CancelledError at the await it has reached,   *)
(* past the finally that closes its response.                               *)
Interrupt(c) ==
  /\ call[c].cancelled
  /\ call[c].pc \notin {"idle", "over"}
  /\ Becomes(c, Ended(c, "CancelledError"))
  /\ unclosed' = unclosed \ {c}
  /\ UNCHANGED <<transit, effects, current>>

-----------------------------------------------------------------------------
(* The program, the service.                                               *)

Cancel(c) ==
  /\ call[c].pc \notin {"idle", "over"}
  /\ call[c].method[1] = "async"
  /\ Running(c)
  /\ Becomes(c, [call[c] EXCEPT !.cancelled = TRUE])
  /\ UNCHANGED <<transit, effects, unclosed, current>>

(* The program's token function returns another token from now on; a token*)
(* given as a string is never another.                                      *)
Rotate ==
  /\ current # None /\ current < MaxTokens
  /\ \E c \in Begun : ~At(c, "over")
  /\ current' = current + 1
  /\ UNCHANGED <<call, transit, effects, unclosed>>

(* The service carries a request out or not and answers.  A success says    *)
(* it did, a retryable status (a proxy may send it) says nothing, any other *)
(* that it did not.  An answer to an attempt that was given up is lost.     *)
Given(m, body) ==
  IF body = "expected" THEN Answers[call[m.call].method] ELSE {None}

Serve(m, status, applied, body, value) ==
  /\ m \in transit
  /\ applied => m.call \in Mutations
  /\ m.call \in Mutations /\ Success(status) => applied
  /\ ~Success(status) /\ ~Retryable(status) => ~applied
  /\ ~Success(status) => body \in {"other", "text"}
  /\ transit' = transit \ {m}
  /\ effects' = [effects EXCEPT ![m.call] = IF applied THEN @ + 1 ELSE @]
  /\ call' = IF At(m.call, "sent") /\ call[m.call].attempt = m.attempt
             THEN [call EXCEPT ![m.call].status = status,
                               ![m.call].body = body,
                               ![m.call].value = value]
             ELSE call
  /\ UNCHANGED <<unclosed, current>>

-----------------------------------------------------------------------------

Step(c) ==
  \/ FetchToken(c)
  \/ Transmit(c)
  \/ Refuse(c)
  \/ \E cause \in {"connect", "dropped", "timeout"} : Fail(c, cause)
  \/ Wake(c)
  \/ Accept(c)
  \/ ReadBody(c)
  \/ Settle(c)
  \/ Interrupt(c)

Program ==
  \/ /\ Cardinality(Begun) < MaxCalls
     /\ \E c \in Direct, m \in Methods, immutable \in BOOLEAN :
          (immutable => ReadsFile(OperationOf(m))) /\ Begin(c, m, immutable)
  \/ \E c \in Calls : Cancel(c)
  \/ Rotate

Service ==
  \E m \in transit, status \in Statuses, applied \in BOOLEAN, body \in Bodies :
    \E value \in Given(m, body) : Serve(m, status, applied, body, value)

Next == (\E c \in Calls : Step(c)) \/ Program \/ Service

Spec == Init /\ [][Next]_vars

-----------------------------------------------------------------------------
(* Properties.                                                             *)

(* No call makes more attempts than it may; every variable has its type.   *)
TypeOK ==
  /\ call \in [Calls -> CallStates]
  /\ \A c \in Calls : call[c].attempt <= call[c].limit
  /\ transit \subseteq Requests
  /\ effects \in [Calls -> Nat]
  /\ unclosed \subseteq Calls
  /\ current \in (0..MaxTokens) \union {None}

Class(status) ==
  IF status = None THEN None
  ELSE IF Success(status) THEN "ok"
  ELSE IF Retryable(status) THEN "busy" ELSE "refused"

LoopLabel(pc) ==
  CASE pc \in {"prepare", "send"} -> "ready"
    [] pc \in {"sent", "body", "close"} -> "await"
    [] OTHER -> pc

LoopOutcome(s) ==
  CASE s.outcome = "pending" -> "pending"
    [] s.outcome = "data" -> "done"
    [] s.outcome \in {"ApiError", "TypedError"} /\ ~Success(s.status) ->
         Class(s.status)
    [] OTHER -> "failed"

LoopState(s) ==
  [client |-> "python", pc |-> LoopLabel(s.pc), limit |-> s.limit,
   attempt |-> s.attempt, cancelled |-> s.cancelled,
   reply |-> Class(s.status), outcome |-> LoopOutcome(s)]

LoopCall == [c \in Calls |-> LoopState(call[c])]

Loop == INSTANCE Retries WITH Clients <- {"python"}, call <- LoopCall

(* Every method of the Python client is one of the request loops of         *)
(* Retries: what an exception stands for (a refusal, a retryable status, a  *)
(* failure that says nothing), when a call is sent again and that data means*)
(* the service carried the call out are as that module has them.            *)
ImplementsLoop == Loop!Spec

(* An attempt carries no token older than the one that was current when the*)
(* attempt was begun, so a token rotated during a backoff is used.          *)
TokenIsFresh ==
  \A c \in Calls :
    current # None /\ call[c].pc \in {"send", "sent", "body", "close"}
      => call[c].token >= call[c].since

(* No call that has ended or is about to send holds on to a response, on    *)
(* whatever path it left the one it had.                                    *)
ResponsesClosed ==
  \A c \in unclosed : call[c].pc \in {"body", "close"}

(* The transport policy empties every refusal before the raw client reads  *)
(* it, so none of the exceptions a method has for its documented statuses   *)
(* is ever raised: the caller gets a plain ApiError.                        *)
RefusalsAreOpaque == \A c \in Calls : call[c].outcome # "TypedError"

(* A call ends, whatever the service and the network do.                    *)
CallEnds == \A c \in Calls : At(c, "prepare") ~> At(c, "over")
=============================================================================

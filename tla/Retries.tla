------------------------------- MODULE Retries -------------------------------
(***************************************************************************)
(* The request loop of the generated clients: how often one call is sent,  *)
(* which failures lead to another attempt, how a cancellation ends it, and  *)
(* what the caller is told.  The six SDKs have one loop each, patched by    *)
(* scripts/postprocess-*.mjs.  What they have in common is the state        *)
(* machine, which Go's loop has every step of; where they differ, each has  *)
(* a limit and a table of its own, GoAttempts and GoLoop and so on.         *)
(* "fetcher" is the TypeScript loop below the generated methods,            *)
(* "passthrough" the one below Client.fetch.                                *)
(*                                                                         *)
(* The delays and the headers they are read from are left out: a call in    *)
(* backoff wakes after some time.  The network and the service are          *)
(* external: a request is served at most once, at any time, also after its  *)
(* sender has given up on it.                                               *)
(*                                                                         *)
(* MutantX is a plausible slip in X; the specification never uses it.      *)
(***************************************************************************)
EXTENDS Naturals, FiniteSets

CONSTANTS
  Calls,                  \* the calls a program makes
  Mutations,              \* those whose method is neither GET nor HEAD
  Clients,                \* the request loops the calls may run in
  MaxRetries,             \* bound on a configured number of retries
  None                    \* an option that is not set, a reply not received

Loops == {"fetcher", "passthrough", "python", "go", "rust", "ruby", "swift"}

ASSUME RetriesAssumption ==
  /\ Mutations \subseteq Calls
  /\ Clients \subseteq Loops
  /\ MaxRetries \in Nat
  /\ None \notin Nat \union {"ok", "refused", "busy"}

VARIABLES
  call,                   \* the state of each call in its client
  transit,                \* requests sent and not served yet
  effects                 \* how often the service has carried out each call

vars == <<call, transit, effects>>

-----------------------------------------------------------------------------
(* Options and limits.                                                     *)

(* The options that bear on retries: of the request and of the client the  *)
(* number (retries, for Go attempts), and Go's switch to turn them off.     *)
Settings ==
  [own : (0..MaxRetries) \union {None}, base : 0..MaxRetries,
   ownOff : BOOLEAN, baseOff : BOOLEAN]

Chosen(s) == IF s.own # None THEN s.own ELSE s.base

SetOrDefault(attempts) == IF attempts = 0 THEN 1 ELSE attempts

(* Go counts attempts; 0 means the option is not given.  A number given    *)
(* with the request outranks the client's switch, not the request's.        *)
GoAttempts(s) ==
  IF s.own \notin {None, 0}
  THEN IF s.ownOff THEN 1 ELSE s.own
  ELSE IF s.ownOff \/ s.baseOff THEN 1 ELSE SetOrDefault(s.base)

RustRetries(s) == IF Chosen(s) > 5 THEN 5 ELSE Chosen(s)

RubyRetries(s) == s.base

ReadLimit(k, s) ==
  CASE k = "go"   -> GoAttempts(s) - 1
    [] k = "rust" -> RustRetries(s)
    [] k = "ruby" -> RubyRetries(s)
    [] OTHER      -> Chosen(s)

-----------------------------------------------------------------------------
(* The loops.                                                              *)

(* Why an attempt may not bring an answer: a status of 408, 429 or 5xx, no *)
(* connection, a connection closed without a response, a success whose     *)
(* body cannot be read to its end, the time limit.  (Python counts 409      *)
(* among the statuses, Ruby only some of the 5xx.)                          *)
Causes == {"busy", "connect", "dropped", "broken", "timeout"}

(* Of each loop: whether it allows a mutation no retry; the failures it    *)
(* answers with another attempt, and those that reach it as such; whether  *)
(* a cancelled caller is denied an answer that has come; where in the call, *)
(* other than before an attempt, a cancellation ends it.                    *)
FetcherLoop ==
  [spares |-> TRUE, retries |-> {"busy"}, reaches |-> Causes,
   discards |-> FALSE, interrupted |-> {"await"}]

(* Client.fetch never looks at the method.                                 *)
PassthroughLoop == [FetcherLoop EXCEPT !.spares = FALSE]

(* A cancelled Python task and a dropped Rust future never see an answer;  *)
(* Go looks at its context once more before it hands one out.               *)
PythonLoop ==
  [spares |-> TRUE, retries |-> {"busy", "connect", "dropped", "broken"},
   reaches |-> Causes, discards |-> TRUE, interrupted |-> {"await", "backoff"}]

GoLoop ==
  [spares |-> TRUE, retries |-> {"busy"}, reaches |-> Causes,
   discards |-> TRUE, interrupted |-> {"await", "backoff"}]

(* The body of a success is read after the loop.                           *)
RustLoop ==
  [spares |-> TRUE, retries |-> Causes \ {"broken"}, reaches |-> Causes,
   discards |-> TRUE, interrupted |-> {"await", "backoff"}]

(* What the transport policies around the connection let through to the    *)
(* loop: Ruby's raises an error of its own for every status outside 200 to  *)
(* 299, Swift's delegate raises one for every failure.                      *)
RubyPolicy == Causes \ {"busy"}

SwiftPolicy == {}

(* A call cannot be cancelled.                                             *)
RubyLoop ==
  [spares |-> TRUE, retries |-> {"busy"}, reaches |-> RubyPolicy,
   discards |-> FALSE, interrupted |-> {}]

(* The continuation that waits for the answer has no cancellation handler. *)
SwiftLoop ==
  [spares |-> TRUE, retries |-> {"busy", "connect", "dropped", "broken"},
   reaches |-> SwiftPolicy, discards |-> FALSE, interrupted |-> {"backoff"}]

LoopOf(k) ==
  CASE k = "fetcher"     -> FetcherLoop
    [] k = "passthrough" -> PassthroughLoop
    [] k = "python"      -> PythonLoop
    [] k = "go"          -> GoLoop
    [] k = "rust"        -> RustLoop
    [] k = "ruby"        -> RubyLoop
    [] k = "swift"       -> SwiftLoop

MutantLimit(k, c, s) == ReadLimit(k, s)

(* How many retries the loop allows the call.                              *)
Limit(k, c, s) ==
  IF c \in Mutations /\ LoopOf(k).spares THEN 0 ELSE ReadLimit(k, s)

-----------------------------------------------------------------------------
(* State.                                                                  *)

Replies == {"ok", "refused", "busy"}

(* "refused": a status that says the request was not carried out; "busy":  *)
(* a retryable status handed to the caller; "failed": an error, a timeout   *)
(* or a cancellation.                                                       *)
Outcomes == {"pending", "done", "refused", "busy", "failed"}

CallStates ==
  [client : Clients, pc : {"idle", "ready", "await", "backoff", "over"},
   limit : 0..MaxRetries, attempt : 0..MaxRetries, cancelled : BOOLEAN,
   reply : Replies \union {None}, outcome : Outcomes]

Requests == [call : Calls, attempt : 0..MaxRetries]

At(c, label) == call[c].pc = label
Becomes(c, state) == call' = [call EXCEPT ![c] = state]

Ended(c, o) == [call[c] EXCEPT !.pc = "over", !.outcome = o]

Init ==
  /\ call \in [Calls -> {[client |-> k, pc |-> "idle", limit |-> 0,
                          attempt |-> 0, cancelled |-> FALSE, reply |-> None,
                          outcome |-> "pending"] : k \in Clients}]
  /\ transit = {}
  /\ effects = [c \in Calls |-> 0]

-----------------------------------------------------------------------------
(* The client.                                                             *)

Begin(c) ==
  /\ At(c, "idle")
  /\ \E limit \in {Limit(call[c].client, c, s) : s \in Settings} :
       Becomes(c, [call[c] EXCEPT !.pc = "ready", !.limit = limit])
  /\ UNCHANGED <<transit, effects>>

(* One attempt is sent, unless the caller has cancelled by then.           *)
Transmit(c) ==
  /\ At(c, "ready")
  /\ ~call[c].cancelled
  /\ Becomes(c, [call[c] EXCEPT !.pc = "await", !.reply = None])
  /\ transit' = transit \union {[call |-> c, attempt |-> call[c].attempt]}
  /\ UNCHANGED effects

Withdraw(c) ==
  /\ At(c, "ready")
  /\ call[c].cancelled
  /\ Becomes(c, Ended(c, "failed"))
  /\ UNCHANGED <<transit, effects>>

(* The transport policy has not let the request out: no access token, an   *)
(* origin that is not trusted, a file of a revision that may move.          *)
Reject(c) ==
  /\ At(c, "ready")
  /\ ~call[c].cancelled
  /\ Becomes(c, Ended(c, "failed"))
  /\ UNCHANGED <<transit, effects>>

RetriesOn(c) ==
  LoopOf(call[c].client).retries \intersect LoopOf(call[c].client).reaches

MutantRetryAllowed(c, cause) ==
  cause \in RetriesOn(c) /\ call[c].attempt <= call[c].limit

RetryAllowed(c, cause) ==
  cause \in RetriesOn(c) /\ call[c].attempt < call[c].limit

OutcomeOf(reply) == IF reply = "ok" THEN "done" ELSE reply

DiscardsAnswer(c) == call[c].cancelled /\ LoopOf(call[c].client).discards

Receive(c) ==
  /\ At(c, "await")
  /\ call[c].reply # None
  /\ \/ /\ DiscardsAnswer(c)
        /\ Becomes(c, Ended(c, "failed"))
     \/ /\ ~DiscardsAnswer(c)
        /\ call[c].reply = "busy"
        /\ RetryAllowed(c, "busy")
        /\ Becomes(c, [call[c] EXCEPT !.pc = "backoff"])
     \/ /\ ~DiscardsAnswer(c)
        /\ call[c].reply = "busy" => ~RetryAllowed(c, "busy")
        /\ Becomes(c, Ended(c, OutcomeOf(call[c].reply)))
  /\ UNCHANGED <<transit, effects>>

(* No answer comes, or the body of one fails.  Without a connection the    *)
(* request never left.                                                     *)
Fail(c, cause) ==
  /\ At(c, "await")
  /\ cause # "busy"
  /\ cause = "broken" => call[c].reply = "ok"
  /\ LET request == [call |-> c, attempt |-> call[c].attempt]
     IN  IF cause = "connect"
         THEN request \in transit /\ transit' = transit \ {request}
         ELSE UNCHANGED transit
  /\ Becomes(c, IF RetryAllowed(c, cause)
                THEN [call[c] EXCEPT !.pc = "backoff"]
                ELSE Ended(c, "failed"))
  /\ UNCHANGED effects

MutantWake(c) ==
  /\ At(c, "backoff")
  /\ Becomes(c, [call[c] EXCEPT !.pc = "ready"])
  /\ UNCHANGED <<transit, effects>>

Wake(c) ==
  /\ At(c, "backoff")
  /\ Becomes(c, [call[c] EXCEPT !.pc = "ready", !.attempt = @ + 1])
  /\ UNCHANGED <<transit, effects>>

(* A cancelled call ends while it waits for its answer or backs off, in    *)
(* the clients whose wait or timer can be interrupted.                      *)
Interrupt(c) ==
  /\ call[c].cancelled
  /\ call[c].pc \in LoopOf(call[c].client).interrupted
  /\ Becomes(c, Ended(c, "failed"))
  /\ UNCHANGED <<transit, effects>>

-----------------------------------------------------------------------------
(* The caller, the service.                                                *)

(* Ruby has no way to cancel a call.                                       *)
Cancel(c) ==
  /\ call[c].pc \in {"ready", "await", "backoff"}
  /\ call[c].client # "ruby"
  /\ ~call[c].cancelled
  /\ Becomes(c, [call[c] EXCEPT !.cancelled = TRUE])
  /\ UNCHANGED <<transit, effects>>

(* A request is served: the service carries it out or not and answers; a   *)
(* busy answer may come from a proxy and say nothing about the effect.  The *)
(* answer is lost unless its sender still waits for this attempt.           *)
Serve(m, applied, status) ==
  /\ m \in transit
  /\ applied => m.call \in Mutations
  /\ m.call \in Mutations /\ status = "ok" => applied
  /\ status = "refused" => ~applied
  /\ transit' = transit \ {m}
  /\ effects' = [effects EXCEPT ![m.call] = IF applied THEN @ + 1 ELSE @]
  /\ call' = IF At(m.call, "await") /\ call[m.call].attempt = m.attempt
             THEN [call EXCEPT ![m.call].reply = status]
             ELSE call

-----------------------------------------------------------------------------

Step(c) ==
  \/ Begin(c)
  \/ Transmit(c)
  \/ Withdraw(c)
  \/ Reject(c)
  \/ Receive(c)
  \/ \E cause \in Causes : Fail(c, cause)
  \/ Wake(c)
  \/ Interrupt(c)

Service ==
  \E m \in transit, applied \in BOOLEAN, status \in Replies :
    Serve(m, applied, status)

Next ==
  \/ \E c \in Calls : Step(c) \/ Cancel(c)
  \/ Service

Spec == Init /\ [][Next]_vars

(* Every attempt has a time limit and every delay is finite, so a loop     *)
(* never rests for ever.  Nothing is assumed of the service.                *)
FairSpec == Spec /\ \A c \in Calls : WF_vars(Step(c))

-----------------------------------------------------------------------------
(* Properties.                                                             *)

(* A call never makes more attempts than its options allow for.            *)
TypeOK ==
  /\ call \in [Calls -> CallStates]
  /\ \A c \in Calls : call[c].attempt <= call[c].limit
  /\ transit \subseteq Requests
  /\ effects \in [Calls -> Nat]

Told(c) ==
  IF call[c].outcome \in {"busy", "failed"} THEN "unknown" ELSE call[c].outcome

Once == INSTANCE MutationOnce
          WITH Calls   <- Mutations,
               outcome <- [c \in Mutations |-> Told(c)],
               effects <- [c \in Mutations |-> effects[c]]

(* Through every loop but the passthrough a mutation takes effect at most  *)
(* once, success is only reported after it has, and a refusal is final:     *)
(* no request of the call is left that could still take effect.             *)
ImplementsOnce == Once!Spec

(* What the option says (maxRetries, max_retries, WithMaxAttempts) of the  *)
(* calls of one client: a mutation is sent once, and a read is given up on  *)
(* a retryable status only after every retry its options allow for.         *)
AsDocumented(k) ==
  \A c \in Calls :
    call[c].client = k =>
      IF c \in Mutations
      THEN call[c].attempt = 0
      ELSE call[c].outcome = "busy" => call[c].attempt = call[c].limit

(* Four of the clients do what the option says.                            *)
UsesItsRetries ==
  \A k \in {"fetcher", "python", "go", "rust"} : AsDocumented(k)

(* A call that was begun returns to its caller, however the service        *)
(* behaves and whether or not it is cancelled.                              *)
CallEnds == \A c \in Calls : At(c, "ready") ~> At(c, "over")

(* The documentation says it of every client: "mutations are never         *)
(* retried", "number of retries for failed requests".  Of Client.fetch, the *)
(* Ruby and the Swift client it is true of none: one behaviour breaks it    *)
(* for all three.                                                           *)
SomeClientAsDocumented == \E k \in Clients : AsDocumented(k)
=============================================================================

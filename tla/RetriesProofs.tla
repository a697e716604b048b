---------------------------- MODULE RetriesProofs ----------------------------
(* Proofs about Retries, for any number of calls, any options, and any of   *)
(* the request loops.                                                       *)
EXTENDS Retries, TLAPS

USE RetriesAssumption

\* An attempt beyond the first has been allowed for.
Counted(s) ==
  /\ s.attempt <= s.limit
  /\ s.pc = "idle" => s.attempt = 0
  /\ s.pc = "backoff" => s.attempt < s.limit

CountInv == TypeOK /\ \A c \in Calls : Counted(call[c])

LEMMA LimitType ==
  ASSUME NEW k, NEW c, NEW s \in Settings
  PROVE  Limit(k, c, s) \in 0..MaxRetries
<1>1. Chosen(s) \in 0..MaxRetries
  BY DEF Settings, Chosen
<1>2. GoAttempts(s) - 1 \in 0..MaxRetries
  BY DEF Settings, GoAttempts, SetOrDefault
<1>3. RustRetries(s) \in 0..MaxRetries
  BY <1>1 DEF RustRetries
<1>4. RubyRetries(s) \in 0..MaxRetries
  BY DEF Settings, RubyRetries
<1>5. ReadLimit(k, s) \in 0..MaxRetries
  BY <1>1, <1>2, <1>3, <1>4 DEF ReadLimit
<1> QED BY <1>5 DEF Limit

\* The loops but the passthrough send a mutation once, and a cancellation ends
\* a call only where it has begun and is not over.
LEMMA LoopFacts ==
  ASSUME NEW k \in Loops
  PROVE  /\ k # "passthrough" => LoopOf(k).spares
         /\ LoopOf(k).interrupted \subseteq {"await", "backoff"}
BY DEF Loops, LoopOf, FetcherLoop, PassthroughLoop, PythonLoop, GoLoop, RustLoop,
       RubyLoop, SwiftLoop

LEMMA InitCount == Init => CountInv
<1> SUFFICES ASSUME Init PROVE CountInv
  OBVIOUS
<1> DEFINE Fresh(k) == [client |-> k, pc |-> "idle", limit |-> 0, attempt |-> 0,
                        cancelled |-> FALSE, reply |-> None,
                        outcome |-> "pending"]
<1>1. \A k \in Clients : Fresh(k) \in CallStates /\ Counted(Fresh(k))
  BY DEF CallStates, Counted, Outcomes
<1>2. call \in [Calls -> {Fresh(k) : k \in Clients}]
  BY DEF Init
<1>3. \A c \in Calls : call[c] \in CallStates /\ Counted(call[c])
  BY <1>1, <1>2
<1>4. call \in [Calls -> CallStates]
  BY <1>2, <1>3
<1> QED BY <1>3, <1>4 DEF Init, CountInv, TypeOK, Counted

\* A step that leaves one call in a well-formed state keeps the invariant.
LEMMA CountStep ==
  ASSUME CountInv, NEW c \in Calls, NEW s \in CallStates, Becomes(c, s),
         Counted(s), transit' \subseteq Requests, effects' \in [Calls -> Nat]
  PROVE  CountInv'
<1>1. /\ call' \in [Calls -> CallStates]
      /\ call'[c] = s
      /\ \A d \in Calls \ {c} : call'[d] = call[d]
  BY DEF Becomes, CountInv, TypeOK
<1> QED BY <1>1 DEF CountInv, TypeOK, Counted

LEMMA CallFields ==
  ASSUME CountInv, NEW c \in Calls
  PROVE  /\ call[c] \in CallStates
         /\ call[c].attempt \in 0..MaxRetries /\ call[c].limit \in 0..MaxRetries
         /\ call[c].client \in Clients /\ call[c].cancelled \in BOOLEAN
         /\ call[c].reply \in Replies \union {None}
         /\ Counted(call[c])
         /\ transit \subseteq Requests /\ effects \in [Calls -> Nat]
BY DEF CountInv, TypeOK, CallStates

LEMMA InterruptedAt ==
  ASSUME CountInv, NEW c \in Calls, Interrupt(c)
  PROVE  call[c].pc \in {"await", "backoff"}
<1>1. call[c].client \in Loops
  BY CallFields, RetriesAssumption
<1> QED BY <1>1, LoopFacts DEF Interrupt

LEMMA OutcomeType ==
  ASSUME NEW reply \in Replies
  PROVE  OutcomeOf(reply) \in Outcomes \ {"pending"}
BY DEF OutcomeOf, Replies, Outcomes

\* Each action of a call leaves it in a well-formed state.
LEMMA StepCount ==
  ASSUME CountInv, NEW c \in Calls, Step(c) \/ Cancel(c)
  PROVE  CountInv'
<1> USE CallFields DEF CallStates, Counted, At
<1>1. CASE Begin(c)
  <2>1. PICK s \in Settings :
          Becomes(c, [call[c] EXCEPT !.pc = "ready",
                                     !.limit = Limit(call[c].client, c, s)])
    BY <1>1 DEF Begin
  <2>2. Limit(call[c].client, c, s) \in 0..MaxRetries
    BY LimitType
  <2> DEFINE begun == [call[c] EXCEPT !.pc = "ready",
                                      !.limit = Limit(call[c].client, c, s)]
  <2>3. begun \in CallStates
    BY <2>2
  <2>4. Counted(begun)
    BY <1>1, <2>2 DEF Begin
  <2>5. transit' \subseteq Requests /\ effects' \in [Calls -> Nat]
    BY <1>1 DEF Begin
  <2> HIDE DEF begun
  <2> QED BY <2>1, <2>3, <2>4, <2>5, CountStep DEF begun
<1>2. CASE Transmit(c)
  <2>1. [call |-> c, attempt |-> call[c].attempt] \in Requests
    BY DEF Requests
  <2> QED BY <1>2, <2>1, CountStep DEF Transmit
<1>3. CASE Withdraw(c)
  BY <1>3, CountStep DEF Withdraw, Ended, Outcomes
<1>9. CASE Reject(c)
  BY <1>9, CountStep DEF Reject, Ended, Outcomes
<1>4. CASE Receive(c)
  <2>1. CASE Becomes(c, Ended(c, "failed"))
    BY <1>4, <2>1, CountStep DEF Receive, Ended, Outcomes
  <2>2. CASE RetryAllowed(c, "busy") /\ Becomes(c, [call[c] EXCEPT !.pc = "backoff"])
    BY <1>4, <2>2, CountStep DEF Receive, RetryAllowed
  <2>3. CASE Becomes(c, Ended(c, OutcomeOf(call[c].reply)))
    <3>1. OutcomeOf(call[c].reply) \in Outcomes
      BY <1>4, OutcomeType DEF Receive
    <3> QED BY <1>4, <2>3, <3>1, CountStep DEF Receive, Ended
  <2> QED BY <1>4, <2>1, <2>2, <2>3 DEF Receive
<1>5. CASE \E cause \in Causes : Fail(c, cause)
  <2>1. PICK cause \in Causes : Fail(c, cause)
    BY <1>5
  <2>2. transit' \subseteq Requests
    BY <2>1 DEF Fail
  <2>3. CASE RetryAllowed(c, cause)
    BY <2>1, <2>2, <2>3, CountStep DEF Fail, RetryAllowed
  <2>4. CASE ~RetryAllowed(c, cause)
    BY <2>1, <2>2, <2>4, CountStep DEF Fail, Ended, Outcomes
  <2> QED BY <2>3, <2>4
<1>6. CASE Wake(c)
  <2> DEFINE woken == [call[c] EXCEPT !.pc = "ready",
                                      !.attempt = call[c].attempt + 1]
  <2>1. Becomes(c, woken)
    BY <1>6 DEF Wake
  <2>2. woken \in CallStates /\ Counted(woken)
    <3>1. call[c].attempt < call[c].limit
      BY <1>6 DEF Wake
    <3>2. /\ call[c].attempt + 1 \in 0..MaxRetries
          /\ call[c].attempt + 1 <= call[c].limit
      BY <3>1
    <3>3. woken \in CallStates
      BY <3>2
    <3>4. /\ woken.attempt = call[c].attempt + 1 /\ woken.limit = call[c].limit
          /\ woken.pc = "ready"
      OBVIOUS
    <3> QED BY <3>2, <3>3, <3>4
  <2>3. transit' \subseteq Requests /\ effects' \in [Calls -> Nat]
    BY <1>6 DEF Wake
  <2> HIDE DEF woken
  <2> QED BY <2>1, <2>2, <2>3, CountStep
<1>7. CASE Interrupt(c)
  <2>1. /\ call[c].pc \in {"await", "backoff"}
        /\ Becomes(c, Ended(c, "failed")) /\ UNCHANGED <<transit, effects>>
    BY <1>7, InterruptedAt DEF Interrupt
  <2> QED BY <2>1, CountStep DEF Ended, Outcomes
<1>8. CASE Cancel(c)
  BY <1>8, CountStep DEF Cancel
<1> QED BY <1>1, <1>2, <1>3, <1>4, <1>5, <1>6, <1>7, <1>8, <1>9 DEF Step

LEMMA ServeCount ==
  ASSUME CountInv, NEW m \in transit, NEW applied \in BOOLEAN,
         NEW status \in Replies, Serve(m, applied, status)
  PROVE  CountInv'
<1>1. m.call \in Calls
  BY DEF CountInv, TypeOK, Requests
<1>2. /\ transit' \subseteq Requests
      /\ effects' \in [Calls -> Nat]
  BY <1>1 DEF Serve, CountInv, TypeOK
<1>3. CASE At(m.call, "await") /\ call[m.call].attempt = m.attempt
  <2>1. Becomes(m.call, [call[m.call] EXCEPT !.reply = status])
    BY <1>1, <1>3 DEF Serve, Becomes, CountInv, TypeOK
  <2>2. [call[m.call] EXCEPT !.reply = status] \in CallStates
    BY <1>1, CallFields DEF CallStates
  <2>3. Counted([call[m.call] EXCEPT !.reply = status])
    BY <1>1, CallFields DEF CallStates, Counted
  <2> QED BY <1>1, <1>2, <2>1, <2>2, <2>3, CountStep
<1>4. CASE ~(At(m.call, "await") /\ call[m.call].attempt = m.attempt)
  BY <1>2, <1>4 DEF Serve, CountInv, TypeOK, Counted
<1> QED BY <1>3, <1>4

LEMMA NextCount == CountInv /\ [Next]_vars => CountInv'
<1> SUFFICES ASSUME CountInv, [Next]_vars
             PROVE  CountInv'
  OBVIOUS
<1>1. CASE \E c \in Calls : Step(c) \/ Cancel(c)
  BY <1>1, StepCount
<1>2. CASE Service
  BY <1>2, ServeCount DEF Service
<1>3. CASE UNCHANGED vars
  BY <1>3 DEF vars, CountInv, TypeOK, Counted
<1> QED BY <1>1, <1>2, <1>3 DEF Next

\* A call never makes more attempts than the options it was begun with allow
\* for, in any of the loops, and every variable keeps its type.
THEOREM RetriesTyped == Spec => []TypeOK
<1>1. CountInv => TypeOK
  BY DEF CountInv
<1> QED BY InitCount, NextCount, <1>1, PTL DEF Spec

-----------------------------------------------------------------------------
(* Four of the loops do what the option says.                               *)

Obedient == {"fetcher", "python", "go", "rust"}

\* In these loops a mutation is allowed no retry, and a call that was told
\* "busy" is over and has used its retries up.
Patient(c, s) ==
  s.client \in Obedient =>
    /\ c \in Mutations => s.limit = 0
    /\ s.outcome = "busy" => s.pc = "over" /\ s.attempt = s.limit

PatientInv == CountInv /\ \A c \in Calls : Patient(c, call[c])

LEMMA InitPatient == Init => PatientInv
<1> SUFFICES ASSUME Init PROVE PatientInv
  OBVIOUS
<1>1. \A c \in Calls :
        call[c].limit = 0 /\ call[c].outcome = "pending" /\ call[c].attempt = 0
  BY DEF Init
<1> QED BY <1>1, InitCount DEF PatientInv, Patient

\* A step of one call keeps the invariant when it keeps it for that call.
LEMMA PatientStep ==
  ASSUME PatientInv, CountInv', NEW c \in Calls, NEW s, Becomes(c, s),
         Patient(c, s)
  PROVE  PatientInv'
<1>1. /\ call'[c] = s
      /\ \A d \in Calls \ {c} : call'[d] = call[d]
  BY DEF Becomes, PatientInv, CountInv, TypeOK
<1> QED BY <1>1 DEF PatientInv, Patient

\* A state with the same client and limit, and no "busy" outcome.
LEMMA PatientOther ==
  ASSUME PatientInv, NEW c \in Calls, NEW s, s.client = call[c].client,
         s.limit = call[c].limit, s.outcome # "busy"
  PROVE  Patient(c, s)
BY DEF PatientInv, Patient

\* A loop hands a retryable status out only when no retry is left.
LEMMA GivesUpAtLimit ==
  ASSUME PatientInv, NEW c \in Calls, call[c].client \in Obedient,
         ~RetryAllowed(c, "busy")
  PROVE  call[c].attempt = call[c].limit
<1>1. "busy" \in RetriesOn(c)
  BY DEF Obedient, RetriesOn, LoopOf, FetcherLoop, PythonLoop, GoLoop, RustLoop, Causes
<1>2. ~(call[c].attempt < call[c].limit)
  BY <1>1 DEF RetryAllowed
<1> QED BY <1>2, CallFields DEF PatientInv, Counted

LEMMA StepPatient ==
  ASSUME PatientInv, NEW c \in Calls, Step(c) \/ Cancel(c)
  PROVE  PatientInv'
<1>1. CountInv'
  BY StepCount DEF PatientInv
<1>2. call[c] \in CallStates /\ Patient(c, call[c])
  BY CallFields DEF PatientInv
<1>3. At(c, "over") \/ call[c].outcome # "busy" \/ call[c].client \notin Obedient
  BY <1>2 DEF Patient, At
<1>4. CASE Begin(c)
  <2>1. PICK s \in Settings :
          Becomes(c, [call[c] EXCEPT !.pc = "ready",
                                     !.limit = Limit(call[c].client, c, s)])
    BY <1>4 DEF Begin
  <2> DEFINE begun == [call[c] EXCEPT !.pc = "ready",
                                      !.limit = Limit(call[c].client, c, s)]
  <2>2. /\ begun.client = call[c].client /\ begun.outcome = call[c].outcome
        /\ begun.limit = Limit(call[c].client, c, s)
    BY <1>2 DEF CallStates
  <2>3. c \in Mutations /\ begun.client \in Obedient => begun.limit = 0
    <3>1. Obedient \subseteq Loops \ {"passthrough"}
      BY DEF Obedient, Loops
    <3> QED BY <2>2, <3>1, LoopFacts DEF Limit
  <2>4. begun.client \in Obedient => begun.outcome # "busy"
    BY <1>3, <1>4, <2>2 DEF Begin, At
  <2>5. Patient(c, begun)
    BY <2>3, <2>4 DEF Patient
  <2> HIDE DEF begun
  <2> QED BY <1>1, <2>1, <2>5, PatientStep DEF begun
<1>5. CASE Transmit(c)
  <2>1. Patient(c, [call[c] EXCEPT !.pc = "await", !.reply = None])
    BY <1>2, <1>3, <1>5 DEF Transmit, At, Patient, CallStates
  <2> QED BY <1>1, <1>5, <2>1, PatientStep DEF Transmit
<1>6. Patient(c, Ended(c, "failed"))
  <2>1. /\ Ended(c, "failed").client = call[c].client
        /\ Ended(c, "failed").limit = call[c].limit
        /\ Ended(c, "failed").outcome = "failed"
    BY <1>2 DEF Ended, CallStates
  <2> QED BY <2>1, PatientOther
<1>7. CASE Withdraw(c) \/ Reject(c) \/ Interrupt(c)
  BY <1>1, <1>6, <1>7, PatientStep DEF Withdraw, Reject, Interrupt
<1>8. CASE Receive(c)
  <2>1. Patient(c, [call[c] EXCEPT !.pc = "backoff"])
    BY <1>2, <1>3, <1>8 DEF Receive, At, Patient, CallStates
  <2>2. CASE Becomes(c, Ended(c, "failed"))
    BY <1>1, <1>6, <2>2, PatientStep
  <2>3. CASE Becomes(c, [call[c] EXCEPT !.pc = "backoff"])
    BY <1>1, <2>1, <2>3, PatientStep
  <2>4. CASE /\ call[c].reply = "busy" => ~RetryAllowed(c, "busy")
             /\ Becomes(c, Ended(c, OutcomeOf(call[c].reply)))
    <3>1. OutcomeOf(call[c].reply) = "busy" => call[c].reply = "busy"
      BY DEF OutcomeOf
    <3>2. OutcomeOf(call[c].reply) = "busy" /\ call[c].client \in Obedient
            => call[c].attempt = call[c].limit
      BY <2>4, <3>1, GivesUpAtLimit
    <3>3. Patient(c, Ended(c, OutcomeOf(call[c].reply)))
      BY <1>2, <3>2 DEF Ended, Patient, CallStates
    <3> QED BY <1>1, <2>4, <3>3, PatientStep
  <2> QED BY <1>8, <2>2, <2>3, <2>4 DEF Receive
<1>9. CASE \E cause \in Causes : Fail(c, cause)
  <2>1. Patient(c, [call[c] EXCEPT !.pc = "backoff"])
    BY <1>2, <1>3, <1>9 DEF Fail, At, Patient, CallStates
  <2> QED BY <1>1, <1>6, <1>9, <2>1, PatientStep DEF Fail
<1>10. CASE Wake(c)
  <2> DEFINE woken == [call[c] EXCEPT !.pc = "ready", !.attempt = @ + 1]
  <2>1. Patient(c, woken)
    BY <1>2, <1>3, <1>10 DEF Wake, At, Patient, CallStates
  <2> HIDE DEF woken
  <2> QED BY <1>1, <1>10, <2>1, PatientStep DEF Wake, woken
<1>11. CASE Cancel(c)
  <2>1. Patient(c, [call[c] EXCEPT !.cancelled = TRUE])
    BY <1>2, <1>3, <1>11 DEF Cancel, At, Patient, CallStates
  <2> QED BY <1>1, <1>11, <2>1, PatientStep DEF Cancel
<1> QED BY <1>4, <1>5, <1>7, <1>8, <1>9, <1>10, <1>11 DEF Step

LEMMA ServePatient ==
  ASSUME PatientInv, NEW m \in transit, NEW applied \in BOOLEAN,
         NEW status \in Replies, Serve(m, applied, status)
  PROVE  PatientInv'
<1>1. CountInv'
  BY ServeCount DEF PatientInv
<1>2. m.call \in Calls /\ call \in [Calls -> CallStates]
  BY DEF PatientInv, CountInv, TypeOK, Requests
<1>3. CASE At(m.call, "await") /\ call[m.call].attempt = m.attempt
  <2>1. Becomes(m.call, [call[m.call] EXCEPT !.reply = status])
    BY <1>2, <1>3 DEF Serve, Becomes
  <2>2. Patient(m.call, [call[m.call] EXCEPT !.reply = status])
    BY <1>2 DEF PatientInv, Patient, CallStates
  <2> QED BY <1>1, <1>2, <2>1, <2>2, PatientStep
<1>4. CASE ~(At(m.call, "await") /\ call[m.call].attempt = m.attempt)
  BY <1>1, <1>4 DEF Serve, PatientInv, Patient
<1> QED BY <1>3, <1>4

LEMMA NextPatient == PatientInv /\ [Next]_vars => PatientInv'
<1> SUFFICES ASSUME PatientInv, [Next]_vars
             PROVE  PatientInv'
  OBVIOUS
<1>1. CASE \E c \in Calls : Step(c) \/ Cancel(c)
  BY <1>1, StepPatient
<1>2. CASE Service
  BY <1>2, ServePatient DEF Service
<1>3. CASE UNCHANGED vars
  BY <1>3, NextCount DEF vars, PatientInv, Patient
<1> QED BY <1>1, <1>2, <1>3 DEF Next

\* In the loops of the generated TypeScript, Python, Go and Rust methods a
\* mutation is sent once and a read is given up on a retryable status only
\* after every retry its options allow for, for any options and any schedule.
THEOREM RetriesUsed == Spec => []UsesItsRetries
<1>1. PatientInv => UsesItsRetries
  <2> SUFFICES ASSUME PatientInv, NEW k \in Obedient, NEW c \in Calls,
                      call[c].client = k
               PROVE  IF c \in Mutations
                      THEN call[c].attempt = 0
                      ELSE call[c].outcome = "busy" => call[c].attempt = call[c].limit
    BY DEF UsesItsRetries, AsDocumented, Obedient
  <2> QED BY CallFields DEF PatientInv, Patient, Counted
<1> QED BY InitPatient, NextPatient, <1>1, PTL DEF Spec

-----------------------------------------------------------------------------
(* A mutation is sent once, so its only request and its only answer decide *)
(* what became of it.                                                       *)

Request(c) == [call |-> c, attempt |-> 0]

\* What a mutation in state s, whose request waits to be served or not and
\* which took effect e times, may look like.
Honest(s, waiting, e) ==
  /\ s.limit = 0
  /\ s.outcome = "pending" <=> s.pc # "over"
  /\ s.pc \in {"idle", "ready"} => ~waiting /\ e = 0 /\ s.reply = None
  /\ waiting => e = 0 /\ s.reply = None /\ s.outcome \in {"pending", "failed"}
  /\ e \in {0, 1}
  /\ s.reply = "ok" => e = 1
  /\ s.reply = "refused" => e = 0
  /\ s.outcome = "done" => e = 1
  /\ s.outcome = "refused" => e = 0 /\ ~waiting

OnceInv ==
  /\ CountInv
  /\ \A m \in transit : m.call \in Mutations => m = Request(m.call)
  /\ \A c \in Mutations : Honest(call[c], Request(c) \in transit, effects[c])

\* The service serves the requests of other calls only.
Elsewhere(c) ==
  \A d \in Mutations \ {c} :
    /\ call'[d] = call[d]
    /\ effects'[d] = effects[d]
    /\ Request(d) \in transit' <=> Request(d) \in transit

LEMMA InitOnce == Init => OnceInv
<1> SUFFICES ASSUME Init PROVE OnceInv
  OBVIOUS
<1>1. CountInv
  BY InitCount
<1>2. \A c \in Calls :
        /\ call[c].limit = 0 /\ call[c].outcome = "pending"
        /\ call[c].pc = "idle" /\ call[c].reply = None
  BY DEF Init
<1>3. \A c \in Mutations : Honest(call[c], Request(c) \in transit, effects[c])
  BY <1>2 DEF Init, Honest
<1> QED BY <1>1, <1>3 DEF Init, OnceInv

LEMMA OnceStep ==
  ASSUME OnceInv, CountInv', NEW c \in Calls, Elsewhere(c),
         \A m \in transit' : m.call \in Mutations => m = Request(m.call),
         c \in Mutations =>
           Honest(call'[c], Request(c) \in transit', effects'[c])
  PROVE  OnceInv'
<1>1. ASSUME NEW d \in Mutations
      PROVE  Honest(call'[d], Request(d) \in transit', effects'[d])
  <2>1. CASE d = c
    BY <2>1
  <2>2. CASE d # c
    BY <2>2 DEF OnceInv, Elsewhere, Honest
  <2> QED BY <2>1, <2>2
<1> QED BY <1>1 DEF OnceInv, Honest, Request

\* What the invariant says of one mutation.
LEMMA MutationFields ==
  ASSUME OnceInv, NEW c \in Mutations
  PROVE  /\ Honest(call[c], Request(c) \in transit, effects[c])
         /\ call[c].attempt = 0 /\ call[c].limit = 0 /\ ~At(c, "backoff")
         /\ call[c] \in CallStates
         /\ \A cause : ~RetryAllowed(c, cause)
<1>1. c \in Calls /\ Counted(call[c]) /\ call[c] \in CallStates
  BY DEF OnceInv, CountInv, TypeOK
<1>2. Honest(call[c], Request(c) \in transit, effects[c])
  BY DEF OnceInv
<1>3. call[c].attempt = 0 /\ ~At(c, "backoff")
  BY <1>1, <1>2 DEF Honest, Counted, CallStates, At
<1> QED BY <1>1, <1>2, <1>3 DEF Honest, RetryAllowed

\* A step of a client moves one call and leaves the effects to the service.
LEMMA ClientFrame ==
  ASSUME OnceInv, NEW c \in Calls, Step(c) \/ Cancel(c)
  PROVE  /\ \A d \in Calls \ {c} : call'[d] = call[d]
         /\ UNCHANGED effects
<1>1. call \in [Calls -> CallStates]
  BY DEF OnceInv, CountInv, TypeOK
<1>2. ASSUME NEW s, Becomes(c, s)
      PROVE  \A d \in Calls \ {c} : call'[d] = call[d]
  BY <1>1, <1>2 DEF Becomes
<1>3. (\E s : Becomes(c, s)) /\ UNCHANGED effects
  BY DEF Step, Begin, Transmit, Withdraw, Reject, Receive, Fail, Wake, Interrupt,
         Cancel
<1> QED BY <1>2, <1>3

LEMMA TransitFrame ==
  ASSUME OnceInv, NEW c \in Calls, Step(c) \/ Cancel(c)
  PROVE  /\ Elsewhere(c)
         /\ \A m \in transit' : m.call \in Mutations => m = Request(m.call)
<1> DEFINE r == [call |-> c, attempt |-> call[c].attempt]
<1>1. transit' \subseteq transit \union {r} /\ transit \subseteq transit' \union {r}
  BY DEF Step, Begin, Transmit, Withdraw, Reject, Receive, Fail, Wake, Interrupt,
         Cancel
<1>2. r.call = c /\ (c \in Mutations => r = Request(c))
  BY MutationFields DEF Request
<1>3. \A d \in Mutations \ {c} : Request(d) # r
  BY <1>2 DEF Request
<1> HIDE DEF r
<1>4. \A m \in transit' : m.call \in Mutations => m = Request(m.call)
  BY <1>1, <1>2 DEF OnceInv
<1>5. \A d \in Mutations \ {c} :
        /\ d \in Calls
        /\ Request(d) \in transit' <=> Request(d) \in transit
  BY <1>1, <1>3
<1> QED BY <1>4, <1>5, ClientFrame DEF Elsewhere

\* A client tells the caller of a mutation nothing that is not so, and only
\* once; unlike the passthrough it sends the mutation a single time.
LEMMA ClientHonest ==
  ASSUME OnceInv, NEW c \in Mutations, Step(c) \/ Cancel(c),
         "passthrough" \notin Clients
  PROVE  /\ Honest(call'[c], Request(c) \in transit', effects'[c])
         /\ call'[c].outcome = call[c].outcome \/ call[c].outcome = "pending"
<1> USE MutationFields DEF Honest, CallStates, At
<1>1. c \in Calls /\ call \in [Calls -> CallStates]
  BY DEF OnceInv, CountInv, TypeOK
<1>2. ASSUME NEW s, Becomes(c, s)
      PROVE  call'[c] = s
  BY <1>1, <1>2 DEF Becomes
<1>3. effects'[c] = effects[c]
  BY <1>1, ClientFrame
<1>4. CASE Begin(c)
  <2>1. PICK s \in Settings :
          Becomes(c, [call[c] EXCEPT !.pc = "ready",
                                     !.limit = Limit(call[c].client, c, s)])
    BY <1>4 DEF Begin
  <2>2. call[c].client \in Loops \ {"passthrough"}
    BY <1>1, RetriesAssumption DEF CallStates
  <2>3. Limit(call[c].client, c, s) = 0
    BY <2>2, LoopFacts DEF Limit
  <2>4. call'[c] = [call[c] EXCEPT !.pc = "ready", !.limit = 0]
    BY <1>2, <2>1, <2>3
  <2> QED BY <1>3, <1>4, <2>4 DEF Begin
<1>5. CASE Transmit(c)
  <2>1. call'[c] = [call[c] EXCEPT !.pc = "await", !.reply = None]
    BY <1>2, <1>5 DEF Transmit
  <2> QED BY <1>3, <1>5, <2>1 DEF Transmit
<1>6. CASE Withdraw(c)
  <2>1. call'[c] = Ended(c, "failed") /\ transit' = transit
    BY <1>2, <1>6 DEF Withdraw
  <2> QED BY <1>3, <1>6, <2>1 DEF Withdraw, Ended
<1>12. CASE Reject(c)
  <2>1. call'[c] = Ended(c, "failed") /\ transit' = transit
    BY <1>2, <1>12 DEF Reject
  <2> QED BY <1>3, <1>12, <2>1 DEF Reject, Ended
<1>7. CASE Receive(c)
  <2>1. transit' = transit /\ call[c].reply \in Replies
    BY <1>7 DEF Receive
  <2>2. \/ call'[c] = Ended(c, "failed")
        \/ call'[c] = Ended(c, OutcomeOf(call[c].reply))
    BY <1>2, <1>7 DEF Receive
  <2> QED BY <1>3, <1>7, <2>1, <2>2 DEF Receive, Ended, OutcomeOf, Replies
<1>8. CASE \E cause \in Causes : Fail(c, cause)
  <2>1. PICK cause \in Causes : Fail(c, cause)
    BY <1>8
  <2>2. call'[c] = Ended(c, "failed") /\ transit' \subseteq transit
    BY <1>2, <2>1 DEF Fail
  <2> QED BY <1>3, <2>1, <2>2 DEF Fail, Ended
<1>9. CASE Wake(c)
  BY <1>9 DEF Wake
<1>10. CASE Interrupt(c)
  <2>1. call'[c] = Ended(c, "failed") /\ transit' = transit
    BY <1>2, <1>10 DEF Interrupt
  <2>2. call[c].pc \in {"await", "backoff"}
    BY <1>1, <1>10, InterruptedAt DEF OnceInv
  <2> QED BY <1>3, <1>10, <2>1, <2>2 DEF Interrupt, Ended
<1>11. CASE Cancel(c)
  <2>1. call'[c] = [call[c] EXCEPT !.cancelled = TRUE] /\ transit' = transit
    BY <1>2, <1>11 DEF Cancel
  <2> QED BY <1>3, <2>1
<1> QED BY <1>4, <1>5, <1>6, <1>7, <1>8, <1>9, <1>10, <1>11,
          <1>12 DEF Step

\* A request of a mutation is served while it has had no effect, and its
\* caller has not been told that it was carried out or refused.
LEMMA ServeHonest ==
  ASSUME OnceInv, NEW m \in transit, NEW applied \in BOOLEAN,
         NEW status \in Replies, Serve(m, applied, status)
  PROVE  /\ m.call \in Calls
         /\ Elsewhere(m.call)
         /\ \A d \in Calls \ {m.call} : call'[d] = call[d] /\ effects'[d] = effects[d]
         /\ \A n \in transit' : n.call \in Mutations => n = Request(n.call)
         /\ m.call \in Mutations =>
              /\ Honest(call'[m.call], Request(m.call) \in transit', effects'[m.call])
              /\ call'[m.call].outcome = call[m.call].outcome
              /\ effects[m.call] = 0
              /\ call[m.call].outcome \in {"pending", "failed"}
         /\ m.call \notin Mutations => effects'[m.call] = effects[m.call]
<1> DEFINE c == m.call
<1>1. /\ c \in Calls /\ call \in [Calls -> CallStates] /\ effects \in [Calls -> Nat]
      /\ transit' = transit \ {m}
  BY DEF Serve, OnceInv, CountInv, TypeOK, Requests
<1>2. /\ effects'[c] = IF applied THEN effects[c] + 1 ELSE effects[c]
      /\ \A d \in Calls \ {c} : call'[d] = call[d] /\ effects'[d] = effects[d]
  BY <1>1 DEF Serve
<1>3. \/ call'[c] = call[c]
      \/ At(c, "await") /\ call'[c] = [call[c] EXCEPT !.reply = status]
  BY <1>1 DEF Serve
<1>4. \A n \in transit' : n.call \in Mutations => n = Request(n.call)
  BY <1>1 DEF OnceInv
<1>5. \A d \in Mutations \ {c} :
        d \in Calls /\ (Request(d) \in transit' <=> Request(d) \in transit)
  BY <1>1 DEF Request
<1>6. ASSUME c \in Mutations
      PROVE  /\ Honest(call'[c], Request(c) \in transit', effects'[c])
             /\ call'[c].outcome = call[c].outcome
             /\ effects[c] = 0
             /\ call[c].outcome \in {"pending", "failed"}
  <2>1. m = Request(c)
    BY <1>6 DEF OnceInv
  <2>2. /\ Honest(call[c], TRUE, effects[c])
        /\ call[c] \in CallStates
    BY <1>6, <2>1, MutationFields
  <2>3. Request(c) \notin transit' /\ effects[c] = 0
    BY <1>1, <2>1, <2>2 DEF Honest
  <2>4. (status = "ok" => applied) /\ (status = "refused" => ~applied)
    BY <1>6 DEF Serve
  <2>5. effects'[c] = IF applied THEN 1 ELSE 0
    BY <1>2, <2>3
  <2>6. CASE call'[c] = call[c]
    BY <2>2, <2>3, <2>5, <2>6 DEF Honest
  <2>7. CASE At(c, "await") /\ call'[c] = [call[c] EXCEPT !.reply = status]
    BY <2>2, <2>3, <2>4, <2>5, <2>7 DEF Honest, At, CallStates
  <2> QED BY <1>3, <2>2, <2>3, <2>6, <2>7 DEF Honest
<1>7. c \notin Mutations => effects'[c] = effects[c]
  BY <1>2 DEF Serve
<1> HIDE DEF c
<1> QED BY <1>1, <1>2, <1>4, <1>5, <1>6, <1>7 DEF Elsewhere, c

LEMMA NextOnce ==
  ASSUME "passthrough" \notin Clients
  PROVE  OnceInv /\ [Next]_vars => OnceInv'
<1> SUFFICES ASSUME OnceInv, [Next]_vars
             PROVE  OnceInv'
  OBVIOUS
<1>1. CountInv'
  BY NextCount DEF OnceInv
<1>2. CASE \E c \in Calls : Step(c) \/ Cancel(c)
  <2>1. PICK c \in Calls : Step(c) \/ Cancel(c)
    BY <1>2
  <2> QED BY <1>1, <2>1, TransitFrame, ClientHonest, OnceStep
<1>3. CASE Service
  <2>1. PICK m \in transit, applied \in BOOLEAN, status \in Replies :
          Serve(m, applied, status)
    BY <1>3 DEF Service
  <2> QED BY <1>1, <2>1, ServeHonest, OnceStep
<1>4. CASE UNCHANGED vars
  BY <1>1, <1>4 DEF vars, OnceInv, Honest, Request
<1> QED BY <1>2, <1>3, <1>4 DEF Next

-----------------------------------------------------------------------------
(* The loops implement MutationOnce.                                       *)

LEMMA InitRefines == Init => Once!Init
<1> SUFFICES ASSUME Init PROVE Once!Init
  OBVIOUS
<1>1. \A c \in Mutations : c \in Calls /\ Told(c) = "pending" /\ effects[c] = 0
  BY DEF Init, Told
<1> QED BY <1>1 DEF Once!Init

\* A step in which one mutation takes its effect, or its caller is told.
LEMMA OneMoves ==
  ASSUME OnceInv, OnceInv', NEW c \in Calls,
         \A d \in Calls \ {c} : call'[d] = call[d] /\ effects'[d] = effects[d],
         c \in Mutations =>
           \/ /\ effects'[c] = effects[c]
              /\ call'[c].outcome = call[c].outcome \/ call[c].outcome = "pending"
           \/ /\ effects[c] = 0
              /\ call'[c].outcome = call[c].outcome
              /\ call[c].outcome \in {"pending", "failed"}
  PROVE  [Once!Next]_(Once!vars)
<1> DEFINE told == [d \in Mutations |-> Told(d)]
           done == [d \in Mutations |-> effects[d]]
<1>1. \A d \in Mutations \ {c} : Told(d)' = Told(d) /\ effects'[d] = effects[d]
  BY DEF Told
<1>2. CASE c \notin Mutations \/ (Told(c)' = Told(c) /\ effects'[c] = effects[c])
  <2>1. told' = told /\ done' = done
    BY <1>1, <1>2
  <2> QED BY <2>1 DEF Once!vars
<1>3. CASE c \in Mutations /\ effects'[c] # effects[c]
  <2>1. /\ effects[c] = 0 /\ effects'[c] = 1
        /\ Told(c)' = Told(c) /\ Told(c) \in {"pending", "unknown"}
    BY <1>3 DEF OnceInv, Honest, Told
  <2>2. told' = told
    BY <1>1, <2>1
  <2>3. done' = [done EXCEPT ![c] = 1]
    BY <1>1, <1>3, <2>1
  <2>4. Once!TakeEffect(c)
    BY <1>3, <2>1, <2>2, <2>3 DEF Once!TakeEffect
  <2> QED BY <1>3, <2>4 DEF Once!Next
<1>4. CASE c \in Mutations /\ effects'[c] = effects[c] /\ Told(c)' # Told(c)
  <2>1. Told(c) = "pending" /\ call'[c].outcome \in Outcomes
    BY <1>4 DEF Told, OnceInv, CountInv, TypeOK, CallStates
  <2>2. /\ Told(c)' \in Once!Outcomes \ {"pending"}
        /\ Told(c)' = "done" => effects[c] = 1
        /\ Told(c)' = "refused" => effects[c] = 0
    BY <1>4, <2>1 DEF Told, Outcomes, Once!Outcomes, OnceInv, Honest
  <2>3. told' = [told EXCEPT ![c] = Told(c)']
    BY <1>1, <1>4
  <2>4. done' = done
    BY <1>1, <1>4
  <2>5. Once!Report(c, Told(c)')
    BY <1>4, <2>1, <2>2, <2>3, <2>4 DEF Once!Report
  <2> QED BY <1>4, <2>2, <2>5 DEF Once!Next
<1> QED BY <1>2, <1>3, <1>4

LEMMA StepRefines ==
  ASSUME "passthrough" \notin Clients
  PROVE  OnceInv /\ OnceInv' /\ [Next]_vars => [Once!Next]_(Once!vars)
<1> SUFFICES ASSUME OnceInv, OnceInv', [Next]_vars
             PROVE  [Once!Next]_(Once!vars)
  OBVIOUS
<1>1. CASE \E c \in Calls : Step(c) \/ Cancel(c)
  <2>1. PICK c \in Calls : Step(c) \/ Cancel(c)
    BY <1>1
  <2>2. /\ \A d \in Calls \ {c} : call'[d] = call[d] /\ effects'[d] = effects[d]
        /\ effects'[c] = effects[c]
    BY <2>1, ClientFrame
  <2> QED BY <2>1, <2>2, ClientHonest, OneMoves
<1>2. CASE Service
  <2>1. PICK m \in transit, applied \in BOOLEAN, status \in Replies :
          Serve(m, applied, status)
    BY <1>2 DEF Service
  <2> QED BY <2>1, ServeHonest, OneMoves
<1>3. CASE UNCHANGED vars
  <2>1. \A c \in Mutations : Told(c)' = Told(c) /\ effects'[c] = effects[c]
    BY <1>3 DEF vars, Told
  <2> QED BY <2>1 DEF Once!vars
<1> QED BY <1>1, <1>2, <1>3 DEF Next

\* Through the loops of the generated methods, in all six languages, a
\* mutation takes effect at most once, however often reads are retried,
\* whatever fails and whenever the caller cancels; success and refusal are
\* reported truly.
THEOREM LoopsImplementOnce ==
  ASSUME "passthrough" \notin Clients
  PROVE  Spec => ImplementsOnce
<1>1. Spec => []OnceInv
  BY InitOnce, NextOnce, PTL DEF Spec
<1> QED BY <1>1, InitRefines, StepRefines, PTL DEF Spec, ImplementsOnce, Once!Spec

-----------------------------------------------------------------------------
(* Progress.  The part of CallEnds that is a safety property: a loop has    *)
(* only so many steps to take, and each of them is one less.                *)

LastPlace == 3 * MaxRetries + 4

Place(s) ==
  CASE s.pc = "idle"    -> 0
    [] s.pc = "ready"   -> 3 * s.attempt + 1
    [] s.pc = "await"   -> 3 * s.attempt + 2
    [] s.pc = "backoff" -> 3 * s.attempt + 3
    [] s.pc = "over"    -> LastPlace

MovesOn(c) ==
  /\ Place(call'[c]) \in 0..LastPlace
  /\ Place(call[c]) <= Place(call'[c])
  /\ Step(c) => Place(call[c]) < Place(call'[c])

\* Where a state of a call lies, from its phase and its attempt.
LEMMA Places ==
  ASSUME NEW s \in CallStates
  PROVE  /\ s.attempt \in 0..MaxRetries /\ s.limit \in 0..MaxRetries
         /\ s.pc \in {"idle", "ready", "await", "backoff", "over"}
         /\ s.pc = "idle" => Place(s) = 0
         /\ s.pc = "ready" => Place(s) = 3 * s.attempt + 1
         /\ s.pc = "await" => Place(s) = 3 * s.attempt + 2
         /\ s.pc = "backoff" => Place(s) = 3 * s.attempt + 3
         /\ s.pc = "over" => Place(s) = LastPlace
BY DEF Place, CallStates

LEMMA PlaceBound ==
  ASSUME NEW s \in CallStates
  PROVE  /\ Place(s) \in 0..LastPlace
         /\ s.pc # "over" => Place(s) < LastPlace
<1>1. CASE s.pc = "over"
  BY <1>1, Places DEF LastPlace
<1>2. CASE s.pc # "over"
  BY <1>2, Places DEF LastPlace
<1> QED BY <1>1, <1>2

LEMMA Nearer ==
  ASSUME NEW s \in CallStates, NEW t \in CallStates, s.pc # "over",
         \/ t.pc = "over"
         \/ s.pc = "idle" /\ t.pc = "ready"
         \/ t.attempt = s.attempt /\ s.pc = "ready" /\ t.pc = "await"
         \/ t.attempt = s.attempt /\ s.pc = "await" /\ t.pc = "backoff"
         \/ t.attempt = s.attempt + 1 /\ s.pc = "backoff" /\ t.pc = "ready"
  PROVE  Place(s) < Place(t)
<1>1. CASE t.pc = "over"
  BY <1>1, Places, PlaceBound
<1>2. CASE t.pc # "over"
  BY <1>2, Places
<1> QED BY <1>1, <1>2

LEMMA StepMovesOn ==
  ASSUME CountInv, NEW c \in Calls, Step(c), call'[c] \in CallStates
  PROVE  Place(call[c]) < Place(call'[c])
<1> DEFINE s == call[c]
           t == call'[c]
<1>1. s \in CallStates /\ t \in CallStates /\ \A r : Becomes(c, r) => t = r
  BY CallFields DEF CountInv, TypeOK, Becomes
<1>2. ASSUME NEW o, Becomes(c, Ended(c, o)) PROVE t.pc = "over"
  BY <1>1, <1>2 DEF Ended, CallStates
<1>3. ASSUME Becomes(c, [s EXCEPT !.pc = "backoff"])
      PROVE  t.pc = "backoff" /\ t.attempt = s.attempt
  BY <1>1, <1>3 DEF CallStates
<1>4. CASE Begin(c)
  <2>1. t.pc = "ready" /\ s.pc = "idle"
    BY <1>1, <1>4 DEF Begin, At, CallStates
  <2> QED BY <1>1, <2>1, Nearer
<1>5. CASE Transmit(c)
  <2>1. t.pc = "await" /\ t.attempt = s.attempt /\ s.pc = "ready"
    BY <1>1, <1>5 DEF Transmit, At, CallStates
  <2> QED BY <1>1, <2>1, Nearer
<1>6. CASE Withdraw(c) \/ Reject(c) \/ Interrupt(c)
  <2>1. t.pc = "over" /\ s.pc # "over"
    BY <1>2, <1>6, InterruptedAt DEF Withdraw, Reject, Interrupt, At
  <2> QED BY <1>1, <2>1, Nearer
<1>7. CASE Receive(c) \/ \E cause \in Causes : Fail(c, cause)
  <2>1. s.pc = "await" /\ (t.pc = "over" \/ (t.pc = "backoff" /\ t.attempt = s.attempt))
    BY <1>2, <1>3, <1>7 DEF Receive, Fail, At
  <2> QED BY <1>1, <2>1, Nearer
<1>8. CASE Wake(c)
  <2>1. t.pc = "ready" /\ t.attempt = s.attempt + 1 /\ s.pc = "backoff"
    BY <1>1, <1>8 DEF Wake, At, CallStates
  <2> QED BY <1>1, <2>1, Nearer
<1> QED BY <1>4, <1>5, <1>6, <1>7, <1>8 DEF Step

\* Whatever the service answers and whenever the caller cancels, every step of
\* a request loop brings its call nearer to its end, and nothing brings it
\* back: in any of the six loops, under any options, a call takes at most
\* three steps for each retry that may be set and four more.
THEOREM LoopsMoveOn == Spec => [][\A c \in Calls : MovesOn(c)]_vars
<1>1. CountInv /\ CountInv' /\ [Next]_vars => [\A c \in Calls : MovesOn(c)]_vars
  <2> SUFFICES ASSUME CountInv, CountInv', Next, NEW c \in Calls PROVE MovesOn(c)
    OBVIOUS
  <2>1. Place(call'[c]) \in 0..LastPlace
    <3>1. call'[c] \in CallStates
      BY DEF CountInv, TypeOK
    <3> QED BY <3>1, PlaceBound
  <2>2. call[c] \in CallStates /\ call'[c] \in CallStates /\ Place(call[c]) \in 0..LastPlace
    BY PlaceBound DEF CountInv, TypeOK
  <2>3. CASE Step(c)
    BY <2>1, <2>2, <2>3, StepMovesOn DEF MovesOn, LastPlace
  <2>4. ASSUME ~Step(c), call'[c].pc = call[c].pc, call'[c].attempt = call[c].attempt
        PROVE  MovesOn(c)
    <3>1. Place(call'[c]) = Place(call[c])
      BY <2>2, <2>4, Places
    <3> QED BY <2>1, <2>4, <3>1 DEF MovesOn, LastPlace
  <2>5. ASSUME NEW d \in Calls, Step(d) \/ Cancel(d), d # c PROVE call'[c] = call[c]
    BY <2>5 DEF Step, Begin, Transmit, Withdraw, Reject, Receive, Fail, Wake, Interrupt,
       Cancel, Becomes, CountInv, TypeOK
  <2>6. CASE Cancel(c)
    <3>1. call'[c] = [call[c] EXCEPT !.cancelled = TRUE] /\ call[c] \in CallStates
      BY <2>6 DEF Cancel, Becomes, CountInv, TypeOK
    <3>2. call'[c].pc = call[c].pc /\ call'[c].attempt = call[c].attempt
      BY <3>1 DEF CallStates
    <3> QED BY <2>3, <2>4, <3>2
  <2>7. ASSUME NEW m \in transit, NEW applied \in BOOLEAN, NEW status \in Replies,
               Serve(m, applied, status)
        PROVE  MovesOn(c)
    <3>1. call[c] \in CallStates /\ m.call \in Calls
      BY DEF CountInv, TypeOK, Requests
    <3>2. call' = call \/ call' = [call EXCEPT ![m.call].reply = status]
      BY <2>7 DEF Serve
    <3>3. call'[c].pc = call[c].pc /\ call'[c].attempt = call[c].attempt
      BY <3>1, <3>2 DEF CallStates, CountInv, TypeOK
    <3> QED BY <2>3, <2>4, <3>3
  <2>8. CASE \E d \in Calls : Step(d) \/ Cancel(d)
    BY <2>3, <2>4, <2>5, <2>6, <2>8
  <2> QED BY <2>7, <2>8 DEF Next, Service
<1> QED BY <1>1, InitCount, NextCount, PTL DEF Spec
=============================================================================

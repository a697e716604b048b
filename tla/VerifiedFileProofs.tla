-------------------------- MODULE VerifiedFileProofs --------------------------
(* Proofs about PythonClient and VerifiedFile, for any calls, any service,  *)
(* any options and any rotation of tokens.                                  *)
EXTENDS VerifiedFile, TLAPS

LEMMA Bounds ==
  /\ MaxRetries \in Nat /\ MaxTokens \in Nat /\ MaxCalls \in Nat
  /\ None \notin Nat /\ None \notin Bodies /\ None \notin {"ok", "refused", "busy"}
BY PythonAssumption

Waiting == {"sent", "body", "close"}

\* An attempt beyond the first has been allowed for.
Counted(s) ==
  /\ s.attempt <= s.limit
  /\ s.pc = "idle" => s.attempt = 0
  /\ s.pc = "backoff" => s.attempt < s.limit

\* What a call knows of its answer.
Informed(s) ==
  /\ s.pc = "idle" => s.body = None
  /\ s.pc # "over" => s.outcome = "pending"
  /\ s.pc = "sent" /\ s.status # None => s.body # None
  /\ s.pc = "body" => s.status # None /\ Success(s.status) /\ s.body # None
  /\ s.pc = "close" => /\ s.status # None /\ s.body \in Bodies \ {"large"}
                       /\ ~Success(s.status) => s.body = "text"
  /\ s.outcome # "TypedError"

\* What the service sent is kept, and is the data of a call that parses it.
Valued(s) ==
  /\ s.pc # "idle" => s.method \in Methods
  /\ s.body = "expected" => s.value \in Answers[s.method]
  /\ s.outcome = "data" /\ ~Streams(OperationOf(s.method)) =>
       s.value \in Answers[s.method]

\* A request that has been answered is not in transit.
Unserved(c, s, sent) ==
  s.pc \in Waiting /\ s.status # None =>
    [call |-> c, attempt |-> s.attempt] \notin sent

Holding(c, s, holders) == c \in holders => s.pc \in {"body", "close"}

Fresh(s, now) ==
  now # None =>
    /\ s.pc # "idle" => s.since \in Nat /\ s.since <= now
    /\ s.pc \in {"send"} \union Waiting => s.token \in Nat /\ s.since <= s.token

Good(c, s, sent, holders, now) ==
  /\ Counted(s) /\ Informed(s) /\ Valued(s)
  /\ Unserved(c, s, sent) /\ Holding(c, s, holders) /\ Fresh(s, now)

CallInv ==
  /\ TypeOK
  /\ \A c \in Calls : Good(c, call[c], transit, unclosed, current)

\* No step undoes that a call was begun, or with which method.
Kept == \A c \in Calls : ~At(c, "idle") =>
          call'[c].pc # "idle" /\ call'[c].method = call[c].method

LEMMA CallFields ==
  ASSUME CallInv, NEW c \in Calls
  PROVE  /\ call[c] \in CallStates
         /\ call[c].attempt \in 0..MaxRetries /\ call[c].limit \in 0..MaxRetries
         /\ call[c].cancelled \in BOOLEAN /\ call[c].immutable \in BOOLEAN
         /\ call[c].method \in Methods \union {None}
         /\ call[c].token \in (0..MaxTokens) \union {None}
         /\ call[c].since \in (0..MaxTokens) \union {None}
         /\ call[c].status \in Statuses \union {None}
         /\ call[c].body \in Bodies \union {None}
         /\ call[c].value \in Values /\ call[c].outcome \in Outcomes
         /\ Good(c, call[c], transit, unclosed, current)
         /\ transit \subseteq Requests /\ effects \in [Calls -> Nat]
         /\ unclosed \subseteq Calls /\ current \in (0..MaxTokens) \union {None}
BY DEF CallInv, TypeOK, CallStates

LEMMA InitCalls == Init => CallInv
<1> SUFFICES ASSUME Init PROVE CallInv
  OBVIOUS
<1> DEFINE s == [method |-> None, pc |-> "idle", cancelled |-> FALSE, limit |-> 0,
                 attempt |-> 0, immutable |-> FALSE, token |-> None,
                 since |-> None, status |-> None, body |-> None, value |-> None,
                 outcome |-> "pending"]
<1>1. s \in CallStates
  <2>1. None \in Values
    BY DEF Values
  <2>2. 0 \in 0..MaxRetries
    BY Bounds
  <2> QED BY <2>1, <2>2 DEF CallStates, Outcomes
<1>2. /\ s.pc = "idle" /\ s.attempt = 0 /\ s.limit = 0 /\ s.outcome = "pending"
      /\ s.body = None /\ s.status = None
  OBVIOUS
<1>3. call = [c \in Calls |-> s]
  BY DEF Init
<1> HIDE DEF s
<1>4. ASSUME NEW c \in Calls PROVE Good(c, s, {}, {}, current)
  BY <1>2, Bounds
  DEF Good, Counted, Informed, Valued, Unserved, Holding, Fresh, Waiting, Bodies
<1>5. TypeOK
  <2>1. call \in [Calls -> CallStates]
    BY <1>1, <1>3
  <2>2. \A c \in Calls : call[c].attempt <= call[c].limit
    BY <1>2, <1>3
  <2>3. transit \subseteq Requests /\ effects \in [Calls -> Nat] /\ unclosed \subseteq Calls
    BY DEF Init
  <2>4. current \in (0..MaxTokens) \union {None}
    BY Bounds DEF Init
  <2> QED BY <2>1, <2>2, <2>3, <2>4 DEF TypeOK
<1>6. \A c \in Calls : Good(c, call[c], transit, unclosed, current)
  BY <1>3, <1>4 DEF Init
<1> QED BY <1>5, <1>6 DEF CallInv

\* A step of one call that leaves it in a good state leaves every call in one.
LEMMA CallStep ==
  ASSUME CallInv, NEW c \in Calls, NEW s \in CallStates, Becomes(c, s),
         Good(c, s, transit', unclosed', current),
         transit' \subseteq Requests, effects' \in [Calls -> Nat],
         \A m \in transit' : m.call # c => m \in transit,
         unclosed' \subseteq unclosed \union {c}, current' = current,
         ~At(c, "idle") => s.pc # "idle" /\ s.method = call[c].method
  PROVE  CallInv' /\ Kept
<1>1. /\ call' \in [Calls -> CallStates]
      /\ call'[c] = s
      /\ \A d \in Calls \ {c} : call'[d] = call[d]
  BY DEF Becomes, CallInv, TypeOK
<1>2. ASSUME NEW d \in Calls PROVE Good(d, call'[d], transit', unclosed', current')
  <2>1. CASE d = c
    BY <1>1, <2>1
  <2>2. CASE d # c
    <3>1. Good(d, call[d], transit, unclosed, current) /\ call'[d] = call[d]
      BY <1>1, <2>2 DEF CallInv
    <3>2. Unserved(d, call[d], transit')
      <4>1. [call |-> d, attempt |-> call[d].attempt] \in transit' =>
              [call |-> d, attempt |-> call[d].attempt] \in transit
        BY <2>2
      <4> QED BY <3>1, <4>1 DEF Good, Unserved
    <3>3. Holding(d, call[d], unclosed')
      BY <2>2, <3>1 DEF Good, Holding
    <3> QED BY <3>1, <3>2, <3>3 DEF Good
  <2> QED BY <2>1, <2>2
<1>3. \A d \in Calls : call'[d].attempt <= call'[d].limit
  BY <1>2 DEF Good, Counted
<1>4. TypeOK'
  BY <1>1, <1>3 DEF CallInv, TypeOK
<1>5. Kept
  BY <1>1 DEF Kept, At
<1> QED BY <1>2, <1>4, <1>5 DEF CallInv

-----------------------------------------------------------------------------
(* Sending.                                                                *)

LEMMA LimitType ==
  ASSUME NEW op, NEW own \in (0..MaxRetries) \union {None}, NEW base \in 0..MaxRetries
  PROVE  Limit(op, own, base) \in 0..MaxRetries
BY Bounds DEF Limit

LEMMA BeginGood ==
  ASSUME CallInv, NEW c \in Calls, NEW m \in Methods, NEW immutable \in BOOLEAN,
         Begin(c, m, immutable)
  PROVE  CallInv' /\ Kept
<1>1. PICK own \in (0..MaxRetries) \union {None}, base \in 0..MaxRetries :
        Becomes(c, [call[c] EXCEPT !.method = m, !.pc = "prepare",
                                   !.since = current, !.immutable = immutable,
                                   !.limit = Limit(OperationOf(m), own, base)])
  BY DEF Begin
<1> DEFINE l == Limit(OperationOf(m), own, base)
           s == [call[c] EXCEPT !.method = m, !.pc = "prepare", !.since = current,
                                !.immutable = immutable, !.limit = l]
<1>2. l \in 0..MaxRetries
  BY LimitType
<1> HIDE DEF l
<1>3. At(c, "idle") /\ UNCHANGED <<transit, effects, unclosed, current>>
  BY DEF Begin
<1>4. s \in CallStates
  <2>1. call[c] \in CallStates /\ current \in (0..MaxTokens) \union {None}
    BY CallFields
  <2> QED BY <1>2, <2>1 DEF CallStates
<1>5. /\ s.pc = "prepare" /\ s.method = m /\ s.since = current /\ s.limit = l
      /\ s.attempt = call[c].attempt /\ s.outcome = call[c].outcome
      /\ s.body = call[c].body /\ s.status = call[c].status
  BY CallFields DEF CallStates
<1>6. call[c].attempt = 0 /\ call[c].outcome = "pending" /\ call[c].body = None
  BY <1>3, CallFields DEF At, Good, Counted, Informed
<1> HIDE DEF s
<1>7. Counted(s) /\ Informed(s) /\ Valued(s)
  BY <1>2, <1>5, <1>6, Bounds DEF Counted, Informed, Valued, Bodies
<1>8. Unserved(c, s, transit) /\ Holding(c, s, unclosed) /\ Fresh(s, current)
  <2>1. Holding(c, call[c], unclosed) /\ current \in (0..MaxTokens) \union {None}
    BY CallFields DEF Good
  <2>2. c \notin unclosed
    BY <1>3, <2>1 DEF Holding, At
  <2>3. current # None => current \in Nat /\ current <= current
    BY <2>1
  <2> QED BY <1>5, <2>2, <2>3 DEF Unserved, Holding, Fresh, Waiting
<1>9. Becomes(c, s)
  BY <1>1 DEF s, l
<1> QED BY <1>3, <1>4, <1>7, <1>8, <1>9, CallFields, CallStep DEF Good, At

\* What a step finds in the call it is a step of.
LEMMA CallIsGood ==
  ASSUME CallInv, NEW c \in Calls
  PROVE  /\ Counted(call[c]) /\ Informed(call[c]) /\ Valued(call[c])
         /\ Unserved(c, call[c], transit) /\ Holding(c, call[c], unclosed)
         /\ Fresh(call[c], current)
BY CallFields DEF Good

\* A call that ends with an outcome that is no data and no typed exception.
LEMMA EndedGood ==
  ASSUME CallInv, NEW c \in Calls, ~At(c, "idle"),
         NEW o \in Outcomes \ {"pending", "data", "TypedError"}
  PROVE  /\ Ended(c, o) \in CallStates
         /\ Ended(c, o).pc = "over" /\ Ended(c, o).method = call[c].method
         /\ Ended(c, o).attempt = call[c].attempt
         /\ \A sent, holders : c \notin holders => Good(c, Ended(c, o), sent, holders, current)
<1> DEFINE s == Ended(c, o)
<1>1. call[c] \in CallStates
  BY CallFields
<1>2. s \in CallStates
  BY <1>1 DEF Ended, CallStates
<1>3. /\ s.pc = "over" /\ s.outcome = o /\ s.method = call[c].method
      /\ s.attempt = call[c].attempt /\ s.limit = call[c].limit
      /\ s.body = call[c].body /\ s.value = call[c].value /\ s.since = call[c].since
  BY <1>1 DEF Ended, CallStates
<1> HIDE DEF s
<1>4. Counted(s) /\ Informed(s)
  BY <1>3, CallIsGood DEF Counted, Informed
<1>5. Valued(s)
  BY <1>3, CallIsGood DEF Valued, At
<1>6. Fresh(s, current)
  BY <1>3, CallIsGood DEF Fresh, At, Waiting
<1>7. \A sent, holders : c \notin holders => Unserved(c, s, sent) /\ Holding(c, s, holders)
  BY <1>3 DEF Unserved, Holding, Waiting
<1> QED BY <1>2, <1>3, <1>4, <1>5, <1>6, <1>7 DEF Good, s

LEMMA FetchGood ==
  ASSUME CallInv, NEW c \in Calls, FetchToken(c) PROVE CallInv' /\ Kept
<1> DEFINE s == [call[c] EXCEPT !.pc = "send", !.token = current]
<1>1. /\ At(c, "prepare") /\ Becomes(c, s)
      /\ UNCHANGED <<transit, effects, unclosed, current>>
  BY DEF FetchToken
<1>2. call[c] \in CallStates /\ current \in (0..MaxTokens) \union {None}
  BY CallFields
<1>3. s \in CallStates
  BY <1>2 DEF CallStates
<1>4. /\ s.pc = "send" /\ s.token = current /\ s.since = call[c].since
      /\ s.attempt = call[c].attempt /\ s.limit = call[c].limit
      /\ s.method = call[c].method /\ s.outcome = call[c].outcome
      /\ s.body = call[c].body /\ s.value = call[c].value
  BY <1>2 DEF CallStates
<1> HIDE DEF s
<1>5. Counted(s) /\ Informed(s) /\ Valued(s)
  BY <1>1, <1>4, CallIsGood DEF At, Counted, Informed, Valued
<1>6. Unserved(c, s, transit) /\ Holding(c, s, unclosed)
  BY <1>1, <1>4, CallIsGood DEF At, Unserved, Holding, Waiting
<1>7. Fresh(s, current)
  BY <1>1, <1>2, <1>4, CallIsGood DEF At, Fresh, Waiting
<1> QED BY <1>1, <1>3, <1>4, <1>5, <1>6, <1>7, CallFields, CallStep DEF Good, At

LEMMA TransmitGood ==
  ASSUME CallInv, NEW c \in Calls, Transmit(c) PROVE CallInv' /\ Kept
<1> DEFINE s == [call[c] EXCEPT !.pc = "sent", !.status = None]
<1>1. /\ At(c, "send") /\ Becomes(c, s) /\ transit' = transit \union {RequestOf(c)}
      /\ UNCHANGED <<effects, unclosed, current>>
  BY DEF Transmit
<1>2. call[c] \in CallStates
  BY CallFields
<1>3. s \in CallStates
  BY <1>2 DEF CallStates
<1>4. /\ s.pc = "sent" /\ s.status = None /\ s.token = call[c].token
      /\ s.since = call[c].since
      /\ s.attempt = call[c].attempt /\ s.limit = call[c].limit
      /\ s.method = call[c].method /\ s.outcome = call[c].outcome
      /\ s.body = call[c].body /\ s.value = call[c].value
  BY <1>2 DEF CallStates
<1> HIDE DEF s
<1>5. Counted(s) /\ Informed(s) /\ Valued(s)
  BY <1>1, <1>4, CallIsGood DEF At, Counted, Informed, Valued
<1>6. Unserved(c, s, transit') /\ Holding(c, s, unclosed)
  BY <1>1, <1>4, CallIsGood DEF At, Unserved, Holding, Waiting
<1>7. Fresh(s, current)
  BY <1>1, <1>4, CallIsGood DEF At, Fresh, Waiting
<1>8. RequestOf(c) \in Requests /\ RequestOf(c).call = c
  BY CallFields DEF RequestOf, Requests
<1>9. transit' \subseteq Requests /\ \A m \in transit' : m.call # c => m \in transit
  BY <1>1, <1>8, CallFields
<1> QED BY <1>1, <1>3, <1>4, <1>5, <1>6, <1>7, <1>9, CallFields, CallStep DEF Good, At

LEMMA RefuseGood ==
  ASSUME CallInv, NEW c \in Calls, Refuse(c) PROVE CallInv' /\ Kept
<1>1. /\ At(c, "send") /\ Becomes(c, Ended(c, "ValueError")) /\ c \notin unclosed
      /\ UNCHANGED <<transit, effects, unclosed, current>>
  BY CallIsGood DEF Refuse, Holding, At
<1>2. /\ Ended(c, "ValueError") \in CallStates
      /\ Ended(c, "ValueError").pc = "over"
      /\ Ended(c, "ValueError").method = call[c].method
      /\ Good(c, Ended(c, "ValueError"), transit, unclosed, current)
  BY <1>1, EndedGood DEF At, Outcomes
<1> QED BY <1>1, <1>2, CallFields, CallStep

\* A call that waits for its next attempt.
LEMMA BackoffGood ==
  ASSUME CallInv, NEW c \in Calls, call[c].pc \in Waiting, RetryAllowed(c)
  PROVE  LET s == [call[c] EXCEPT !.pc = "backoff"]
         IN  /\ s \in CallStates /\ s.pc = "backoff" /\ s.method = call[c].method
             /\ \A sent, holders : c \notin holders => Good(c, s, sent, holders, current)
<1> DEFINE s == [call[c] EXCEPT !.pc = "backoff"]
<1>1. call[c] \in CallStates
  BY CallFields
<1>2. s \in CallStates
  BY <1>1 DEF CallStates
<1>3. /\ s.pc = "backoff" /\ s.outcome = call[c].outcome /\ s.method = call[c].method
      /\ s.attempt = call[c].attempt /\ s.limit = call[c].limit
      /\ s.body = call[c].body /\ s.value = call[c].value /\ s.since = call[c].since
  BY <1>1 DEF CallStates
<1> HIDE DEF s
<1>4. Counted(s) /\ Informed(s) /\ Valued(s)
  BY <1>3, CallIsGood DEF Counted, Informed, Valued, Waiting, RetryAllowed
<1>5. Fresh(s, current)
  BY <1>3, CallIsGood DEF Fresh, Waiting
<1>6. \A sent, holders : c \notin holders => Unserved(c, s, sent) /\ Holding(c, s, holders)
  BY <1>3 DEF Unserved, Holding, Waiting
<1> QED BY <1>2, <1>3, <1>4, <1>5, <1>6 DEF Good, s

LEMMA FailGood ==
  ASSUME CallInv, NEW c \in Calls, NEW cause \in {"connect", "dropped", "timeout"},
         Fail(c, cause)
  PROVE  CallInv' /\ Kept
<1> DEFINE b == [call[c] EXCEPT !.pc = "backoff"]
           e == Ended(c, "TransportError")
<1>1. /\ call[c].pc \in {"sent", "body"} /\ ~At(c, "idle")
      /\ transit' \subseteq transit /\ unclosed' = unclosed \ {c}
      /\ UNCHANGED <<effects, current>>
  BY DEF Fail, At
<1>2. \/ RetryAllowed(c) /\ Becomes(c, b)
      \/ Becomes(c, e)
  BY DEF Fail
<1>3. transit' \subseteq Requests /\ effects' \in [Calls -> Nat]
  BY <1>1, CallFields
<1>4. CASE RetryAllowed(c) /\ Becomes(c, b)
  <2>1. /\ b \in CallStates /\ b.pc = "backoff" /\ b.method = call[c].method
        /\ Good(c, b, transit', unclosed', current)
    BY <1>1, <1>4, BackoffGood DEF Waiting
  <2> HIDE DEF b
  <2> QED BY <1>1, <1>3, <1>4, <2>1, CallStep
<1>5. CASE Becomes(c, e)
  <2>1. /\ e \in CallStates /\ e.pc = "over" /\ e.method = call[c].method
        /\ Good(c, e, transit', unclosed', current)
    BY <1>1, EndedGood DEF Outcomes
  <2> HIDE DEF e
  <2> QED BY <1>1, <1>3, <1>5, <2>1, CallStep
<1> QED BY <1>2, <1>4, <1>5

LEMMA WakeGood ==
  ASSUME CallInv, NEW c \in Calls, Wake(c) PROVE CallInv' /\ Kept
<1> DEFINE n == call[c].attempt + 1
           s == [call[c] EXCEPT !.pc = "prepare", !.attempt = n, !.since = current]
<1>1. /\ At(c, "backoff") /\ Becomes(c, s)
      /\ UNCHANGED <<transit, effects, unclosed, current>>
  BY DEF Wake
<1>2. call[c] \in CallStates /\ current \in (0..MaxTokens) \union {None}
  BY CallFields
<1>3. n \in 0..MaxRetries /\ n <= call[c].limit
  <2>1. call[c].attempt < call[c].limit
    BY <1>1, CallIsGood DEF Counted, At
  <2> QED BY <2>1, CallFields, Bounds
<1> HIDE DEF n
<1>4. s \in CallStates
  BY <1>2, <1>3 DEF CallStates
<1>5. /\ s.pc = "prepare" /\ s.since = current /\ s.attempt = n
      /\ s.limit = call[c].limit
      /\ s.method = call[c].method /\ s.outcome = call[c].outcome
      /\ s.body = call[c].body /\ s.value = call[c].value
  BY <1>2 DEF CallStates
<1> HIDE DEF s
<1>6. Counted(s) /\ Informed(s) /\ Valued(s)
  BY <1>1, <1>3, <1>5, CallIsGood DEF At, Counted, Informed, Valued
<1>7. Unserved(c, s, transit) /\ Holding(c, s, unclosed)
  BY <1>1, <1>5, CallIsGood DEF At, Unserved, Holding, Waiting
<1>8. Fresh(s, current)
  <2>1. current # None => current \in Nat /\ current <= current
    BY <1>2
  <2> QED BY <1>5, <2>1 DEF Fresh, Waiting
<1> QED BY <1>1, <1>4, <1>5, <1>6, <1>7, <1>8, CallFields, CallStep DEF Good, At

-----------------------------------------------------------------------------
(* Receiving.                                                              *)

\* A body is about to be read, or has been.
LEMMA AcceptGood ==
  ASSUME CallInv, NEW c \in Calls, Accept(c) PROVE CallInv' /\ Kept
<1> DEFINE b == [call[c] EXCEPT !.pc = "body"]
           e == [call[c] EXCEPT !.pc = "close", !.body = "text"]
<1>1. /\ At(c, "sent") /\ call[c].status # None
      /\ \/ Success(call[c].status) /\ Becomes(c, b)
         \/ ~Success(call[c].status) /\ Becomes(c, e)
      /\ unclosed' = unclosed \union {c}
      /\ UNCHANGED <<transit, effects, current>>
  BY DEF Accept
<1>2. call[c] \in CallStates
  BY CallFields
<1>3. b \in CallStates /\ e \in CallStates
  BY <1>2 DEF CallStates, Bodies
<1>4. /\ b.pc = "body" /\ e.pc = "close" /\ b.body = call[c].body /\ e.body = "text"
      /\ \A s \in {b, e} :
           /\ s.since = call[c].since /\ s.token = call[c].token
           /\ s.attempt = call[c].attempt /\ s.limit = call[c].limit
           /\ s.method = call[c].method /\ s.outcome = call[c].outcome
           /\ s.status = call[c].status /\ s.value = call[c].value
  BY <1>2 DEF CallStates
<1> HIDE DEF b, e
<1>5. ASSUME NEW s \in {b, e}, Informed(s), Valued(s), Becomes(c, s)
      PROVE  CallInv' /\ Kept
  <2>1. Counted(s) /\ Holding(c, s, unclosed')
    BY <1>1, <1>4, CallIsGood DEF At, Counted, Holding
  <2>2. Unserved(c, s, transit)
    BY <1>1, <1>4, CallIsGood DEF At, Unserved, Waiting
  <2>3. Fresh(s, current)
    BY <1>1, <1>4, CallIsGood DEF At, Fresh, Waiting
  <2>4. s.pc # "idle" /\ s.method = call[c].method /\ s \in CallStates
    BY <1>3, <1>4
  <2> QED BY <1>1, <1>5, <2>1, <2>2, <2>3, <2>4, CallFields, CallStep DEF Good
<1>6. Success(call[c].status) => Informed(b) /\ Valued(b)
  BY <1>1, <1>4, CallIsGood DEF At, Informed, Valued
<1>7. ~Success(call[c].status) => Informed(e) /\ Valued(e)
  BY <1>1, <1>4, CallIsGood DEF At, Informed, Valued, Bodies
<1> QED BY <1>1, <1>5, <1>6, <1>7

LEMMA ReadBodyGood ==
  ASSUME CallInv, NEW c \in Calls, ReadBody(c) PROVE CallInv' /\ Kept
<1> DEFINE s == [call[c] EXCEPT !.pc = "close"]
           e == Ended(c, "ValueError")
<1>1. /\ At(c, "body") /\ unclosed' \subseteq unclosed
      /\ \/ Becomes(c, e) /\ unclosed' = unclosed \ {c}
         \/ call[c].body # "large" /\ Becomes(c, s) /\ unclosed' = unclosed
      /\ UNCHANGED <<transit, effects, current>>
  BY DEF ReadBody
<1>2. CASE Becomes(c, e) /\ unclosed' = unclosed \ {c}
  <2>1. /\ e \in CallStates /\ e.pc = "over" /\ e.method = call[c].method
        /\ Good(c, e, transit', unclosed', current)
    BY <1>1, <1>2, EndedGood DEF Outcomes, At
  <2> HIDE DEF e
  <2> QED BY <1>1, <1>2, <2>1, CallFields, CallStep
<1>3. CASE call[c].body # "large" /\ Becomes(c, s) /\ unclosed' = unclosed
  <2>1. call[c] \in CallStates /\ call[c].body \in Bodies \union {None}
    BY CallFields
  <2>2. s \in CallStates
    BY <2>1 DEF CallStates
  <2>3. /\ s.pc = "close" /\ s.body = call[c].body
        /\ s.since = call[c].since /\ s.token = call[c].token
        /\ s.attempt = call[c].attempt /\ s.limit = call[c].limit
        /\ s.method = call[c].method /\ s.outcome = call[c].outcome
        /\ s.status = call[c].status /\ s.value = call[c].value
    BY <2>1 DEF CallStates
  <2> HIDE DEF s
  <2>4. Counted(s) /\ Informed(s) /\ Valued(s)
    BY <1>1, <1>3, <2>1, <2>3, CallIsGood DEF At, Counted, Informed, Valued
  <2>5. Unserved(c, s, transit) /\ Holding(c, s, unclosed)
    BY <1>1, <2>3, CallIsGood DEF At, Unserved, Holding, Waiting
  <2>6. Fresh(s, current)
    BY <1>1, <2>3, CallIsGood DEF At, Fresh, Waiting
  <2> QED BY <1>1, <1>3, <2>2, <2>3, <2>4, <2>5, <2>6, CallFields, CallStep DEF Good
<1> QED BY <1>1, <1>2, <1>3

\* The raw client never finds a status it has a class for, and what it parses
\* is what the service sent.
LEMMA HandledIs ==
  ASSUME CallInv, NEW c \in Calls, At(c, "close")
  PROVE  /\ Handled(c) \in {"data", "ApiError", "ParsingError", "ValueError"}
         /\ Handled(c) = "data" => Success(call[c].status)
         /\ Handled(c) = "data" /\ ~Streams(Op(c)) => call[c].body = "expected"
         /\ Handled(c) \in {"ParsingError", "ValueError"} => Success(call[c].status)
<1>1. /\ call[c].body \in {"expected", "other", "text", "binary"}
      /\ ~Success(call[c].status) => call[c].body = "text"
  BY CallIsGood DEF At, Informed, Bodies
<1>2. CASE Success(call[c].status)
  BY <1>1, <1>2 DEF Handled
<1>3. CASE ~Success(call[c].status)
  BY <1>1, <1>3 DEF Handled
<1> QED BY <1>2, <1>3

LEMMA DataGood ==
  ASSUME CallInv, NEW c \in Calls, At(c, "close"), Handled(c) = "data"
  PROVE  /\ Ended(c, "data") \in CallStates /\ Ended(c, "data").pc = "over"
         /\ Ended(c, "data").method = call[c].method
         /\ \A sent, holders : c \notin holders =>
              Good(c, Ended(c, "data"), sent, holders, current)
<1> DEFINE s == Ended(c, "data")
<1>1. call[c] \in CallStates
  BY CallFields
<1>2. s \in CallStates
  BY <1>1 DEF Ended, CallStates, Outcomes
<1>3. /\ s.pc = "over" /\ s.outcome = "data" /\ s.method = call[c].method
      /\ s.attempt = call[c].attempt /\ s.limit = call[c].limit
      /\ s.body = call[c].body /\ s.value = call[c].value /\ s.since = call[c].since
  BY <1>1 DEF Ended, CallStates
<1> HIDE DEF s
<1>4. Counted(s) /\ Informed(s)
  BY <1>3, CallIsGood DEF Counted, Informed
<1>5. Valued(s)
  BY <1>3, CallIsGood, HandledIs DEF Valued, At, Op
<1>6. Fresh(s, current)
  BY <1>3, CallIsGood DEF Fresh, At, Waiting
<1>7. \A sent, holders : c \notin holders => Unserved(c, s, sent) /\ Holding(c, s, holders)
  BY <1>3 DEF Unserved, Holding, Waiting
<1> QED BY <1>2, <1>3, <1>4, <1>5, <1>6, <1>7 DEF Good, s

LEMMA SettleGood ==
  ASSUME CallInv, NEW c \in Calls, Settle(c) PROVE CallInv' /\ Kept
<1> DEFINE b == [call[c] EXCEPT !.pc = "backoff"]
           e == Ended(c, Handled(c))
<1>1. /\ At(c, "close") /\ unclosed' = unclosed \ {c}
      /\ \/ RetryAllowed(c) /\ Becomes(c, b)
         \/ Becomes(c, e)
      /\ UNCHANGED <<transit, effects, current>>
  BY DEF Settle
<1>2. CASE RetryAllowed(c) /\ Becomes(c, b)
  <2>1. /\ b \in CallStates /\ b.pc = "backoff" /\ b.method = call[c].method
        /\ Good(c, b, transit', unclosed', current)
    BY <1>1, <1>2, BackoffGood DEF Waiting, At
  <2> HIDE DEF b
  <2> QED BY <1>1, <1>2, <2>1, CallFields, CallStep
<1>3. CASE Becomes(c, e)
  <2>1. CASE Handled(c) = "data"
    <3>1. /\ e \in CallStates /\ e.pc = "over" /\ e.method = call[c].method
          /\ Good(c, e, transit', unclosed', current)
      BY <1>1, <2>1, DataGood
    <3> HIDE DEF e
    <3> QED BY <1>1, <1>3, <3>1, CallFields, CallStep
  <2>2. CASE Handled(c) # "data"
    <3>1. Handled(c) \in Outcomes \ {"pending", "data", "TypedError"}
      BY <1>1, <2>2, HandledIs DEF Outcomes
    <3>2. /\ e \in CallStates /\ e.pc = "over" /\ e.method = call[c].method
          /\ Good(c, e, transit', unclosed', current)
      BY <1>1, <3>1, EndedGood DEF At
    <3> HIDE DEF e
    <3> QED BY <1>1, <1>3, <3>2, CallFields, CallStep
  <2> QED BY <2>1, <2>2
<1> QED BY <1>1, <1>2, <1>3

LEMMA InterruptGood ==
  ASSUME CallInv, NEW c \in Calls, Interrupt(c) PROVE CallInv' /\ Kept
<1> DEFINE e == Ended(c, "CancelledError")
<1>1. /\ ~At(c, "idle") /\ Becomes(c, e) /\ unclosed' = unclosed \ {c}
      /\ UNCHANGED <<transit, effects, current>>
  BY DEF Interrupt, At
<1>2. /\ e \in CallStates /\ e.pc = "over" /\ e.method = call[c].method
      /\ Good(c, e, transit', unclosed', current)
  BY <1>1, EndedGood DEF Outcomes
<1> HIDE DEF e
<1> QED BY <1>1, <1>2, CallFields, CallStep

-----------------------------------------------------------------------------
(* The program and the service.                                            *)

LEMMA CancelGood ==
  ASSUME CallInv, NEW c \in Calls, Cancel(c) PROVE CallInv' /\ Kept
<1> DEFINE s == [call[c] EXCEPT !.cancelled = TRUE]
<1>1. /\ ~At(c, "idle") /\ Becomes(c, s)
      /\ UNCHANGED <<transit, effects, unclosed, current>>
  BY DEF Cancel, At
<1>2. call[c] \in CallStates
  BY CallFields
<1>3. s \in CallStates
  BY <1>2 DEF CallStates
<1>4. /\ s.pc = call[c].pc /\ s.status = call[c].status /\ s.body = call[c].body
      /\ s.since = call[c].since /\ s.token = call[c].token
      /\ s.attempt = call[c].attempt /\ s.limit = call[c].limit
      /\ s.method = call[c].method /\ s.outcome = call[c].outcome
      /\ s.value = call[c].value
  BY <1>2 DEF CallStates
<1> HIDE DEF s
<1>5. Counted(s) /\ Informed(s) /\ Valued(s)
  BY <1>4, CallIsGood DEF Counted, Informed, Valued
<1>6. Unserved(c, s, transit) /\ Holding(c, s, unclosed) /\ Fresh(s, current)
  BY <1>4, CallIsGood DEF Unserved, Holding, Fresh
<1> QED BY <1>1, <1>3, <1>4, <1>5, <1>6, CallFields, CallStep DEF Good, At

LEMMA RotateGood ==
  ASSUME CallInv, Rotate PROVE CallInv' /\ Kept
<1>1. /\ current # None /\ current \in 0..MaxTokens /\ current < MaxTokens
      /\ current' = current + 1
      /\ UNCHANGED <<call, transit, effects, unclosed>>
  BY DEF Rotate, CallInv, TypeOK
<1>2. current' \in 0..MaxTokens /\ current \in Nat /\ current' \in Nat
  BY <1>1, Bounds
<1>3. TypeOK'
  BY <1>1, <1>2 DEF CallInv, TypeOK
<1>4. ASSUME NEW c \in Calls PROVE Good(c, call[c], transit, unclosed, current')
  <2>1. Fresh(call[c], current')
    <3>1. Fresh(call[c], current)
      BY CallIsGood
    <3> QED BY <1>1, <1>2, <3>1 DEF Fresh
  <2> QED BY <2>1, CallIsGood DEF Good
<1>5. Kept
  BY <1>1 DEF Kept, At
<1> QED BY <1>1, <1>3, <1>4, <1>5 DEF CallInv

LEMMA ServeGood ==
  ASSUME CallInv, NEW m \in transit, NEW status \in Statuses, NEW applied \in BOOLEAN,
         NEW body \in Bodies, NEW value \in Given(m, body),
         Serve(m, status, applied, body, value)
  PROVE  CallInv' /\ Kept
<1> DEFINE c == m.call
           s == [call[c] EXCEPT !.status = status, !.body = body, !.value = value]
<1>1. /\ m \in Requests /\ c \in Calls /\ m = [call |-> c, attempt |-> m.attempt]
  BY DEF CallInv, TypeOK, Requests
<1>2. /\ transit' = transit \ {m} /\ transit' \subseteq Requests
      /\ unclosed' = unclosed /\ current' = current
      /\ effects' = [effects EXCEPT ![c] = IF applied THEN @ + 1 ELSE @]
  BY DEF Serve, CallInv, TypeOK
<1>3. effects' \in [Calls -> Nat]
  <2>1. effects \in [Calls -> Nat] /\ effects[c] \in Nat
    BY <1>1 DEF CallInv, TypeOK
  <2>2. (IF applied THEN effects[c] + 1 ELSE effects[c]) \in Nat
    BY <2>1
  <2> QED BY <1>1, <1>2, <2>1, <2>2
<1>4. CASE At(c, "sent") /\ call[c].attempt = m.attempt
  <2>1. call[c] \in CallStates /\ call[c].method \in Methods
    BY <1>1, <1>4, CallIsGood, CallFields DEF At, Valued
  <2>2. call' = [call EXCEPT ![c] = s]
    <3>1. call' = [call EXCEPT ![c].status = status, ![c].body = body, ![c].value = value]
      BY <1>4 DEF Serve
    <3> QED BY <1>1, <3>1 DEF CallInv, TypeOK
  <2>3. value \in Values /\ (body = "expected" => value \in Answers[call[c].method])
    BY <2>1 DEF Given, Values
  <2>4. s \in CallStates
    BY <2>1, <2>3 DEF CallStates
  <2>5. /\ s.pc = call[c].pc /\ s.status = status /\ s.body = body
        /\ s.since = call[c].since /\ s.token = call[c].token
        /\ s.attempt = call[c].attempt /\ s.limit = call[c].limit
        /\ s.method = call[c].method /\ s.outcome = call[c].outcome
        /\ s.value = value
    BY <2>1 DEF CallStates
  <2> HIDE DEF s
  <2>6. Counted(s)
    BY <1>1, <2>5, CallIsGood DEF Counted
  <2>7. Informed(s)
    BY <1>1, <1>4, <2>5, CallIsGood, Bounds DEF Informed, At
  <2>8. Valued(s)
    BY <1>1, <1>4, <2>1, <2>3, <2>5, CallIsGood DEF Valued, Informed, At
  <2>9. Unserved(c, s, transit')
    BY <1>1, <1>2, <1>4, <2>5 DEF Unserved
  <2>10. Holding(c, s, unclosed) /\ Fresh(s, current)
    BY <1>1, <2>5, CallIsGood DEF Holding, Fresh
  <2>11. Good(c, s, transit', unclosed', current)
    BY <1>2, <2>6, <2>7, <2>8, <2>9, <2>10 DEF Good
  <2>12. Becomes(c, s) /\ s.pc = call[c].pc /\ s.method = call[c].method
    BY <2>2, <2>5 DEF Becomes
  <2> HIDE DEF c
  <2> QED BY <1>1, <1>2, <1>3, <2>4, <2>11, <2>12, CallStep DEF At
<1>5. CASE ~(At(c, "sent") /\ call[c].attempt = m.attempt)
  <2>1. call' = call
    BY <1>5 DEF Serve
  <2>2. TypeOK'
    BY <1>2, <1>3, <2>1 DEF CallInv, TypeOK
  <2>3. ASSUME NEW d \in Calls PROVE Good(d, call[d], transit', unclosed, current)
    <3>1. Unserved(d, call[d], transit')
      BY <1>2, CallIsGood DEF Unserved
    <3> QED BY <3>1, CallIsGood DEF Good
  <2>4. Kept
    BY <2>1 DEF Kept, At
  <2> QED BY <1>2, <2>1, <2>2, <2>3, <2>4 DEF CallInv
<1> QED BY <1>4, <1>5

LEMMA NextGood == CallInv /\ Next => CallInv' /\ Kept
<1> SUFFICES ASSUME CallInv, Next PROVE CallInv' /\ Kept
  OBVIOUS
<1>1. ASSUME NEW c \in Calls, Step(c) PROVE CallInv' /\ Kept
  BY <1>1, FetchGood, TransmitGood, RefuseGood, FailGood, WakeGood, AcceptGood,
     ReadBodyGood, SettleGood, InterruptGood DEF Step
<1>2. ASSUME Program PROVE CallInv' /\ Kept
  <2>1. ASSUME NEW c \in Direct, NEW m \in Methods, NEW immutable \in BOOLEAN,
               Begin(c, m, immutable)
        PROVE  CallInv' /\ Kept
    BY <2>1, BeginGood, PythonAssumption
  <2>2. ASSUME NEW c \in Calls, Cancel(c) PROVE CallInv' /\ Kept
    BY <2>2, CancelGood
  <2>3. CASE Rotate
    BY <2>3, RotateGood
  <2> QED BY <1>2, <2>1, <2>2, <2>3 DEF Program
<1>3. ASSUME Service PROVE CallInv' /\ Kept
  BY <1>3, ServeGood DEF Service
<1> QED BY <1>1, <1>2, <1>3 DEF Next

LEMMA StutterGood == CallInv /\ UNCHANGED vars => CallInv' /\ Kept
BY DEF vars, CallInv, TypeOK, Kept, At

-----------------------------------------------------------------------------
(* The reader.                                                             *)

Contents == {FileOf[r] : r \in Revisions} \union {None}

ReaderInv ==
  /\ reader \in [mode : {"sync", "async"}, pc : {"idle", "inspect", "read", "over"},
                 file : Contents, bytes : Contents]
  /\ ReaderAt("inspect") =>
       ~At(first, "idle") /\ call[first].method = <<reader.mode, "contexts", "inspect">>
  /\ ReaderAt("read") => reader.file = FileOf[Asked]
  /\ reader.bytes # None => reader.bytes = FileOf[Asked]

AllInv == CallInv /\ ReaderInv

LEMMA ReaderMethods ==
  \A mode \in {"sync", "async"} :
    /\ <<mode, "contexts", "inspect">> \in Methods
    /\ <<mode, "contexts", "read_file">> \in Methods
    /\ ~Streams(OperationOf(<<mode, "contexts", "inspect">>))
<1>1. /\ "contexts" \in DOMAIN AgentTrunk /\ AgentTrunk["contexts"] = ContextsClient
      /\ "contexts" \in DOMAIN AsyncAgentTrunk
      /\ AsyncAgentTrunk["contexts"] = AsyncContextsClient
  BY DEF AgentTrunk, AsyncAgentTrunk
<1>2. /\ {"inspect", "read_file"} \subseteq DOMAIN ContextsClient
      /\ {"inspect", "read_file"} \subseteq DOMAIN AsyncContextsClient
      /\ ContextsClient["inspect"] = ContextsInspect
      /\ AsyncContextsClient["inspect"] = AsyncContextsInspect
  BY DEF ContextsClient, AsyncContextsClient
<1>3. ContextsInspect.result = "model" /\ AsyncContextsInspect.result = "model"
  BY DEF ContextsInspect, AsyncContextsInspect, Get
<1>4. \A m \in {"inspect", "read_file"} :
        <<"sync", "contexts", m>> \in Methods /\ <<"async", "contexts", m>> \in Methods
  <2> SUFFICES ASSUME NEW m \in {"inspect", "read_file"}
               PROVE  /\ <<"sync", "contexts", m>> \in Methods
                      /\ <<"async", "contexts", m>> \in Methods
    OBVIOUS
  <2>1. /\ m \in DOMAIN AgentTrunk["contexts"]
        /\ m \in DOMAIN AsyncAgentTrunk["contexts"]
    BY <1>1, <1>2
  <2> DEFINE Sync(g) == {<<"sync", g, n>> : n \in DOMAIN AgentTrunk[g]}
             Async(g) == {<<"async", g, n>> : n \in DOMAIN AsyncAgentTrunk[g]}
  <2>2. /\ <<"sync", "contexts", m>> \in Sync("contexts")
        /\ <<"async", "contexts", m>> \in Async("contexts")
    BY <2>1
  <2>3. Methods = (UNION {Sync(g) : g \in DOMAIN AgentTrunk})
                  \union (UNION {Async(g) : g \in DOMAIN AsyncAgentTrunk})
    BY Zenon DEF Methods
  <2> HIDE DEF Sync, Async
  <2> QED BY <1>1, <2>2, <2>3
<1>5. /\ OperationOf(<<"sync", "contexts", "inspect">>) = ContextsInspect
      /\ OperationOf(<<"async", "contexts", "inspect">>) = AsyncContextsInspect
  BY <1>1, <1>2 DEF OperationOf
<1> QED BY <1>3, <1>4, <1>5 DEF Streams

LEMMA ReaderKept ==
  ASSUME ReaderInv, Kept, UNCHANGED reader PROVE ReaderInv'
<1>1. first \in Calls
  BY VerifiedAssumption
<1> QED BY <1>1 DEF ReaderInv, Kept, ReaderAt, At

LEMMA InitAll == ReaderInit => AllInv
<1> SUFFICES ASSUME ReaderInit PROVE AllInv
  OBVIOUS
<1>1. CallInv
  BY InitCalls DEF ReaderInit
<1>2. ReaderInv
  BY DEF ReaderInit, ReaderInv, ReaderAt, Contents
<1> QED BY <1>1, <1>2 DEF AllInv

LEMMA StartReadGood ==
  ASSUME AllInv, StartRead PROVE AllInv'
<1>1. /\ first \in Calls /\ reader.mode \in {"sync", "async"} /\ ReaderInv /\ CallInv
      /\ ReaderAt("idle") /\ Begin(first, <<reader.mode, "contexts", "inspect">>, FALSE)
      /\ reader' = [reader EXCEPT !.pc = "inspect"]
  BY VerifiedAssumption DEF StartRead, AllInv, ReaderInv
<1>2. CallInv'
  BY <1>1, ReaderMethods, BeginGood
<1>3. call'[first].pc = "prepare"
      /\ call'[first].method = <<reader.mode, "contexts", "inspect">>
  BY <1>1, CallFields DEF Begin, Becomes, CallInv, TypeOK, CallStates
<1>4. reader' \in [mode : {"sync", "async"}, pc : {"idle", "inspect", "read", "over"},
                   file : Contents, bytes : Contents]
      /\ reader'.pc = "inspect" /\ reader'.mode = reader.mode
      /\ reader'.bytes = reader.bytes
  BY <1>1 DEF ReaderInv
<1>5. ReaderInv'
  BY <1>1, <1>3, <1>4 DEF ReaderInv, ReaderAt, At
<1> QED BY <1>2, <1>5 DEF AllInv

LEMMA InspectedGood ==
  ASSUME AllInv, Inspected PROVE AllInv'
<1>1. /\ first \in Calls /\ second \in Calls /\ reader.mode \in {"sync", "async"}
      /\ ReaderInv /\ CallInv /\ ReaderAt("inspect")
  BY VerifiedAssumption DEF Inspected, AllInv, ReaderInv
<1>2. CASE /\ call[first].outcome = "data" /\ Manifest(call[first].value)
           /\ Begin(second, <<reader.mode, "contexts", "read_file">>, TRUE)
           /\ reader' = [reader EXCEPT !.pc = "read", !.file = call[first].value.file]
  <2>1. CallInv'
    BY <1>1, <1>2, ReaderMethods, BeginGood
  <2>2. call[first].value \in Answers[<<reader.mode, "contexts", "inspect">>]
    BY <1>1, <1>2, ReaderMethods, CallIsGood DEF ReaderInv, Valued
  <2>3. call[first].value \in Manifests
    BY <1>1, <2>2, VerifiedAssumption
  <2>4. PICK r \in Revisions : call[first].value = [id |-> r, file |-> FileOf[r]]
    BY <2>3 DEF Manifests
  <2>5. call[first].value.file = FileOf[Asked]
    BY <1>2, <2>4 DEF Manifest
  <2>6. FileOf[Asked] \in Contents
    BY VerifiedAssumption DEF Contents
  <2>7. /\ reader' \in [mode : {"sync", "async"}, pc : {"idle", "inspect", "read", "over"},
                        file : Contents, bytes : Contents]
        /\ reader'.pc = "read" /\ reader'.file = FileOf[Asked]
        /\ reader'.bytes = reader.bytes
    BY <1>1, <1>2, <2>5, <2>6 DEF ReaderInv
  <2>8. ReaderInv'
    BY <1>1, <2>7 DEF ReaderInv, ReaderAt
  <2> QED BY <2>1, <2>8 DEF AllInv
<1>3. CASE reader' = [reader EXCEPT !.pc = "over"] /\ UNCHANGED vars
  <2>1. CallInv'
    BY <1>1, <1>3, StutterGood
  <2>2. /\ reader' \in [mode : {"sync", "async"}, pc : {"idle", "inspect", "read", "over"},
                        file : Contents, bytes : Contents]
        /\ reader'.pc = "over" /\ reader'.bytes = reader.bytes
    BY <1>1, <1>3 DEF ReaderInv
  <2>3. ReaderInv'
    BY <1>1, <2>2 DEF ReaderInv, ReaderAt
  <2> QED BY <2>1, <2>3 DEF AllInv
<1> QED BY <1>2, <1>3 DEF Inspected

LEMMA VerifiedGood ==
  ASSUME AllInv, Verified PROVE AllInv'
<1>1. ReaderInv /\ CallInv /\ ReaderAt("read") /\ UNCHANGED vars
  BY DEF Verified, AllInv
<1>2. CallInv'
  BY <1>1, StutterGood
<1>3. \/ /\ call[second].value = reader.file
         /\ reader' = [reader EXCEPT !.pc = "over", !.bytes = call[second].value]
      \/ reader' = [reader EXCEPT !.pc = "over"]
  BY DEF Verified
<1>4. /\ reader' \in [mode : {"sync", "async"}, pc : {"idle", "inspect", "read", "over"},
                      file : Contents, bytes : Contents]
      /\ reader'.pc = "over" /\ reader'.bytes \in {reader.bytes, reader.file}
  BY <1>1, <1>3 DEF ReaderInv
<1>5. ReaderInv'
  BY <1>1, <1>4 DEF ReaderInv, ReaderAt
<1> QED BY <1>2, <1>5 DEF AllInv

LEMMA NextAll == AllInv /\ [ReaderNext]_readerVars => AllInv'
<1> SUFFICES ASSUME AllInv, [ReaderNext]_readerVars PROVE AllInv'
  OBVIOUS
<1>1. CASE Next /\ UNCHANGED reader
  BY <1>1, NextGood, ReaderKept DEF AllInv
<1>2. CASE StartRead
  BY <1>2, StartReadGood
<1>3. CASE ReaderStep
  BY <1>3, InspectedGood, VerifiedGood DEF ReaderStep
<1>4. CASE UNCHANGED readerVars
  BY <1>4, StutterGood, ReaderKept DEF AllInv, readerVars
<1> QED BY <1>1, <1>2, <1>3, <1>4 DEF ReaderNext

LEMMA AlwaysAll == ReaderSpec => []AllInv
BY InitAll, NextAll, PTL DEF ReaderSpec

-----------------------------------------------------------------------------
(* Theorems: of the Python client with the verified reader on top of it.    *)

(* Every variable of the client keeps its type, and no call makes more      *)
(* attempts than its options allow (core/http_client.py, request).           *)
THEOREM PythonTyped == ReaderSpec => []TypeOK
<1>1. AllInv => TypeOK
  BY DEF AllInv, CallInv
<1> QED BY <1>1, AlwaysAll, PTL

(* A response of the connection pool is held by a call that reads or closes *)
(* it, and by no other, on every path out of the transport policy.           *)
THEOREM PythonCloses == ReaderSpec => []ResponsesClosed
<1>1. AllInv => ResponsesClosed
  BY DEF AllInv, CallInv, TypeOK, ResponsesClosed, Good, Holding
<1> QED BY <1>1, AlwaysAll, PTL

(* The exceptions in errors/ are never raised: the transport policy empties *)
(* the body they would be read from.                                        *)
THEOREM PythonOpaque == ReaderSpec => []RefusalsAreOpaque
<1>1. AllInv => RefusalsAreOpaque
  BY DEF AllInv, CallInv, RefusalsAreOpaque, Good, Informed
<1> QED BY <1>1, AlwaysAll, PTL

(* No attempt carries a token older than the one current when it was begun. *)
THEOREM PythonTokens == ReaderSpec => []TokenIsFresh
<1>1. AllInv => TokenIsFresh
  <2> SUFFICES ASSUME AllInv, NEW c \in Calls, current # None,
                      call[c].pc \in {"send", "sent", "body", "close"}
               PROVE  call[c].token >= call[c].since
    BY DEF TokenIsFresh
  <2>1. Fresh(call[c], current)
    BY CallIsGood DEF AllInv
  <2>2. /\ call[c].token \in Nat /\ call[c].since \in Nat
        /\ call[c].since <= call[c].token
    BY <2>1 DEF Fresh, Waiting
  <2> QED BY <2>2
<1> QED BY <1>1, AlwaysAll, PTL

(* A verified read returns the file of the revision it was asked for, or    *)
(* nothing (verified.py).                                                   *)
THEOREM PythonPinned == ReaderSpec => []ReadIsPinned
<1>1. AllInv => ReadIsPinned
  BY DEF AllInv, ReaderInv, ReadIsPinned
<1> QED BY <1>1, AlwaysAll, PTL

-----------------------------------------------------------------------------
(* The refinement of Retries.                                              *)

LEMMA LoopLabels ==
  /\ LoopLabel("idle") = "idle" /\ LoopLabel("backoff") = "backoff"
  /\ LoopLabel("over") = "over"
  /\ \A pc \in {"prepare", "send"} : LoopLabel(pc) = "ready"
  /\ \A pc \in Waiting : LoopLabel(pc) = "await"
BY DEF LoopLabel, Waiting

\* An update of two fields is two updates.
LEMMA TwoFields ==
  ASSUME NEW r, NEW pc, NEW v
  PROVE  /\ [r EXCEPT !.pc = pc, !.limit = v] = [[r EXCEPT !.pc = pc] EXCEPT !.limit = v]
         /\ [r EXCEPT !.pc = pc, !.attempt = v] = [[r EXCEPT !.pc = pc] EXCEPT !.attempt = v]
         /\ [r EXCEPT !.pc = pc, !.reply = v] = [[r EXCEPT !.pc = pc] EXCEPT !.reply = v]
         /\ [r EXCEPT !.pc = pc, !.outcome = v] = [[r EXCEPT !.pc = pc] EXCEPT !.outcome = v]
OBVIOUS

\* The request loop sees a call move, ...
LEMMA LoopMoves ==
  ASSUME NEW s, NEW t, NEW pc, LoopLabel(s.pc) = pc, s.limit = t.limit,
         s.attempt = t.attempt, s.cancelled = t.cancelled, s.status = t.status,
         s.outcome = t.outcome
  PROVE  LoopState(s) = [LoopState(t) EXCEPT !.pc = pc]
<1>1. LoopOutcome(s) = LoopOutcome(t)
  BY DEF LoopOutcome
<1> QED BY <1>1 DEF LoopState

\* ... rest, ...
LEMMA LoopRests ==
  ASSUME NEW s, NEW t, LoopLabel(s.pc) = LoopLabel(t.pc), s.limit = t.limit,
         s.attempt = t.attempt, s.cancelled = t.cancelled, s.status = t.status,
         s.outcome = t.outcome
  PROVE  LoopState(s) = LoopState(t)
<1>1. LoopOutcome(s) = LoopOutcome(t)
  BY DEF LoopOutcome
<1> QED BY <1>1 DEF LoopState

\* ... be cancelled, ...
LEMMA LoopTurns ==
  ASSUME NEW s, NEW t, NEW v, s.pc = t.pc, s.limit = t.limit, s.attempt = t.attempt,
         s.cancelled = v, s.status = t.status, s.outcome = t.outcome
  PROVE  LoopState(s) = [LoopState(t) EXCEPT !.cancelled = v]
<1>1. LoopOutcome(s) = LoopOutcome(t)
  BY DEF LoopOutcome
<1> QED BY <1>1 DEF LoopState

\* ... or end.
LEMMA LoopEnds ==
  ASSUME CallInv, NEW c \in Calls, NEW o
  PROVE  LoopState(Ended(c, o)) =
           [LoopState(call[c]) EXCEPT !.pc = "over", !.outcome = LoopOutcome(Ended(c, o))]
<1> DEFINE s == Ended(c, o)
<1>1. /\ s.pc = "over" /\ s.limit = call[c].limit /\ s.attempt = call[c].attempt
      /\ s.cancelled = call[c].cancelled /\ s.status = call[c].status
  BY CallFields DEF Ended, CallStates
<1> HIDE DEF s
<1>2. LoopLabel(s.pc) = "over"
  BY <1>1, LoopLabels
<1>3. LoopState(s) = [LoopState(call[c]) EXCEPT !.pc = "over", !.outcome = LoopOutcome(s)]
  <2> DEFINE u == [LoopState(call[c]) EXCEPT !.pc = "over"]
  <2>3. u = [client |-> "python", pc |-> "over", limit |-> call[c].limit,
            attempt |-> call[c].attempt, cancelled |-> call[c].cancelled,
            reply |-> Class(call[c].status), outcome |-> LoopOutcome(call[c])]
    BY DEF LoopState
  <2> HIDE DEF u
  <2>4. LoopState(s) = [u EXCEPT !.outcome = LoopOutcome(s)]
    BY <1>1, <1>2, <2>3 DEF LoopState
  <2> QED BY <2>4, TwoFields DEF u
<1> QED BY <1>3 DEF s

LEMMA LoopOutcomeOf ==
  ASSUME CallInv, NEW c \in Calls, NEW o \in Outcomes
  PROVE  /\ Ended(c, o).status = call[c].status
         /\ o \in {"ParsingError", "ValueError", "TransportError", "CancelledError"} =>
              LoopOutcome(Ended(c, o)) = "failed"
         /\ o = "data" => LoopOutcome(Ended(c, o)) = "done"
         /\ o = "ApiError" =>
              LoopOutcome(Ended(c, o)) = IF Success(call[c].status) THEN "failed"
                                         ELSE Class(call[c].status)
<1> DEFINE s == Ended(c, o)
<1>1. s.outcome = o /\ s.status = call[c].status
  BY CallFields DEF Ended, CallStates
<1> HIDE DEF s
<1>2. /\ o \in {"ParsingError", "ValueError", "TransportError", "CancelledError"} =>
           LoopOutcome(s) = "failed"
      /\ o = "data" => LoopOutcome(s) = "done"
      /\ o = "ApiError" =>
           LoopOutcome(s) = IF Success(call[c].status) THEN "failed"
                            ELSE Class(call[c].status)
  BY <1>1 DEF LoopOutcome
<1> QED BY <1>1, <1>2 DEF s

LEMMA LoopBecomes ==
  ASSUME CallInv, NEW c \in Calls, NEW s, Becomes(c, s)
  PROVE  /\ LoopCall[c] = LoopState(call[c])
         /\ LoopCall' = [LoopCall EXCEPT ![c] = LoopState(s)]
<1>1. call' = [call EXCEPT ![c] = s] /\ DOMAIN call = Calls
  BY DEF Becomes, CallInv, TypeOK
<1> QED BY <1>1 DEF LoopCall

LEMMA InitLoop == Init => Loop!Init
<1> SUFFICES ASSUME Init PROVE Loop!Init
  OBVIOUS
<1> DEFINE s == [method |-> None, pc |-> "idle", cancelled |-> FALSE, limit |-> 0,
                 attempt |-> 0, immutable |-> FALSE, token |-> None,
                 since |-> None, status |-> None, body |-> None, value |-> None,
                 outcome |-> "pending"]
           r == [client |-> "python", pc |-> "idle", limit |-> 0, attempt |-> 0,
                 cancelled |-> FALSE, reply |-> None, outcome |-> "pending"]
<1>1. LoopState(s) = r
  BY LoopLabels DEF LoopState, LoopOutcome, Class
<1>2. call = [c \in Calls |-> s]
  BY DEF Init
<1> HIDE DEF s
<1>3. LoopCall = [c \in Calls |-> r]
  BY <1>1, <1>2 DEF LoopCall
<1>4. LoopCall \in [Calls -> {[client |-> k, pc |-> "idle", limit |-> 0, attempt |-> 0,
                               cancelled |-> FALSE, reply |-> None,
                               outcome |-> "pending"] : k \in {"python"}}]
  BY <1>3
<1> QED BY <1>4 DEF Init, Loop!Init

\* What the request loop sees of a call.
LEMMA LoopFields ==
  ASSUME CallInv, NEW c \in Calls
  PROVE  /\ LoopCall[c] = LoopState(call[c])
         /\ LoopCall[c].client = "python"
         /\ LoopCall[c].pc = LoopLabel(call[c].pc)
         /\ LoopCall[c].limit = call[c].limit
         /\ LoopCall[c].attempt = call[c].attempt
         /\ LoopCall[c].cancelled = call[c].cancelled
         /\ LoopCall[c].reply = Class(call[c].status)
<1>1. LoopCall[c] = LoopState(call[c])
  BY DEF LoopCall
<1> QED BY <1>1 DEF LoopState

LEMMA LoopBegin ==
  ASSUME CallInv, NEW c \in Calls, NEW m \in Methods, NEW immutable \in BOOLEAN,
         Begin(c, m, immutable)
  PROVE  Loop!Begin(c)
<1>1. PICK own \in (0..MaxRetries) \union {None}, base \in 0..MaxRetries :
        Becomes(c, [call[c] EXCEPT !.method = m, !.pc = "prepare",
                                   !.since = current, !.immutable = immutable,
                                   !.limit = Limit(OperationOf(m), own, base)])
  BY DEF Begin
<1> DEFINE l == Limit(OperationOf(m), own, base)
           s == [call[c] EXCEPT !.method = m, !.pc = "prepare", !.since = current,
                                !.immutable = immutable, !.limit = l]
<1>2. /\ At(c, "idle") /\ UNCHANGED <<transit, effects>>
      /\ c \in Mutations <=> Changes(OperationOf(m))
  BY DEF Begin
<1>3. l \in {Loop!Limit("python", c, o) : o \in Loop!Settings}
  <2> DEFINE chosen == IF Streams(OperationOf(m)) THEN 0 ELSE own
             o == [own |-> chosen, base |-> base, ownOff |-> FALSE, baseOff |-> FALSE]
  <2>1. chosen \in (0..MaxRetries) \union {None} /\ 0 # None
    BY Bounds
  <2>2. l = IF c \in Mutations THEN 0 ELSE IF chosen # None THEN chosen ELSE base
    BY <1>2, <2>1 DEF Limit
  <2> HIDE DEF l, chosen
  <2>3. o \in Loop!Settings
    BY <2>1 DEF Loop!Settings
  <2>4. /\ o.own = chosen /\ o.base = base
    OBVIOUS
  <2> HIDE DEF o
  <2>5. Loop!ReadLimit("python", o) = IF chosen # None THEN chosen ELSE base
    BY <2>4 DEF Loop!ReadLimit, Loop!Chosen
  <2>6. Loop!Limit("python", c, o) = l
    BY <2>2, <2>5 DEF Loop!Limit, Loop!LoopOf, Loop!PythonLoop
  <2> QED BY <2>3, <2>6
<1> HIDE DEF l
<1>4. /\ s.pc = "prepare" /\ s.limit = l /\ s.attempt = call[c].attempt
      /\ s.cancelled = call[c].cancelled /\ s.status = call[c].status
      /\ s.outcome = call[c].outcome
  BY CallFields DEF CallStates
<1>5. Becomes(c, s)
  BY <1>1 DEF s, l
<1> HIDE DEF s
<1>6. LoopState(s) = [LoopState(call[c]) EXCEPT !.pc = "ready", !.limit = l]
  <2>1. LoopOutcome(s) = LoopOutcome(call[c]) /\ LoopLabel(s.pc) = "ready"
    BY <1>4, LoopLabels DEF LoopOutcome
  <2> DEFINE u == [LoopState(call[c]) EXCEPT !.pc = "ready"]
  <2>3. u = [client |-> "python", pc |-> "ready", limit |-> call[c].limit,
            attempt |-> call[c].attempt, cancelled |-> call[c].cancelled,
            reply |-> Class(call[c].status), outcome |-> LoopOutcome(call[c])]
    BY DEF LoopState
  <2> HIDE DEF u
  <2>4. LoopState(s) = [u EXCEPT !.limit = l]
    BY <1>4, <2>1, <2>3 DEF LoopState
  <2> QED BY <2>4, TwoFields DEF u
<1>7. LoopCall' = [LoopCall EXCEPT ![c] = [LoopCall[c] EXCEPT !.pc = "ready", !.limit = l]]
  BY <1>5, <1>6, LoopBecomes
<1>8. LoopCall[c].pc = "idle" /\ LoopCall[c].client = "python"
  BY <1>2, LoopFields, LoopLabels DEF At
<1> QED BY <1>2, <1>3, <1>7, <1>8 DEF Loop!Begin, Loop!At, Loop!Becomes

LEMMA LoopTransmit ==
  ASSUME CallInv, NEW c \in Calls, Transmit(c) PROVE Loop!Transmit(c)
<1> DEFINE s == [call[c] EXCEPT !.pc = "sent", !.status = None]
<1>1. /\ At(c, "send") /\ ~call[c].cancelled /\ Becomes(c, s)
      /\ transit' = transit \union {[call |-> c, attempt |-> call[c].attempt]}
      /\ UNCHANGED effects
  BY DEF Transmit, Running, RequestOf
<1>2. /\ s.pc = "sent" /\ s.status = None /\ s.limit = call[c].limit
      /\ s.attempt = call[c].attempt /\ s.cancelled = call[c].cancelled
      /\ s.outcome = "pending" /\ call[c].outcome = "pending"
  <2>1. call[c].outcome = "pending"
    BY <1>1, CallIsGood DEF At, Informed
  <2> QED BY <2>1, CallFields DEF CallStates
<1> HIDE DEF s
<1>3. LoopState(s) = [LoopState(call[c]) EXCEPT !.pc = "await", !.reply = None]
  <2>1. /\ LoopOutcome(s) = "pending" /\ LoopOutcome(call[c]) = "pending"
        /\ Class(s.status) = None
    BY <1>2 DEF LoopOutcome, Class
  <2>2. LoopLabel(s.pc) = "await"
    BY <1>2, LoopLabels DEF Waiting
  <2> DEFINE u == [LoopState(call[c]) EXCEPT !.pc = "await"]
  <2>3. u = [client |-> "python", pc |-> "await", limit |-> call[c].limit,
            attempt |-> call[c].attempt, cancelled |-> call[c].cancelled,
            reply |-> Class(call[c].status), outcome |-> LoopOutcome(call[c])]
    BY DEF LoopState
  <2> HIDE DEF u
  <2>4. LoopState(s) = [u EXCEPT !.reply = None]
    BY <1>2, <2>1, <2>2, <2>3 DEF LoopState
  <2> QED BY <2>4, TwoFields DEF u
<1>4. LoopCall' = [LoopCall EXCEPT ![c] = [LoopCall[c] EXCEPT !.pc = "await", !.reply = None]]
  BY <1>1, <1>3, LoopBecomes
<1>5. /\ LoopCall[c].pc = "ready" /\ LoopCall[c].cancelled = call[c].cancelled
      /\ LoopCall[c].attempt = call[c].attempt
  BY <1>1, LoopFields, LoopLabels DEF At
<1> QED BY <1>1, <1>4, <1>5 DEF Loop!Transmit, Loop!At, Loop!Becomes

\* A call that ends with an outcome the loop takes for a failure.
LEMMA LoopFailed ==
  ASSUME CallInv, NEW c \in Calls,
         NEW o \in {"ParsingError", "ValueError", "TransportError", "CancelledError"},
         Becomes(c, Ended(c, o))
  PROVE  Loop!Becomes(c, Loop!Ended(c, "failed"))
<1>1. LoopOutcome(Ended(c, o)) = "failed"
  BY LoopOutcomeOf DEF Outcomes
<1>2. LoopState(Ended(c, o)) = [LoopState(call[c]) EXCEPT !.pc = "over", !.outcome = "failed"]
  BY <1>1, LoopEnds
<1> DEFINE s == Ended(c, o)
<1> HIDE DEF s
<1>3. LoopCall' = [LoopCall EXCEPT ![c] = LoopState(s)] /\ LoopCall[c] = LoopState(call[c])
  BY LoopBecomes DEF s
<1> QED BY <1>2, <1>3 DEF s, Loop!Becomes, Loop!Ended

LEMMA LoopRefuse ==
  ASSUME CallInv, NEW c \in Calls, Refuse(c) PROVE Loop!Reject(c)
<1>1. At(c, "send") /\ ~call[c].cancelled /\ UNCHANGED <<transit, effects>>
  BY DEF Refuse, Running
<1>2. Loop!Becomes(c, Loop!Ended(c, "failed"))
  BY LoopFailed DEF Refuse
<1>3. LoopCall[c].pc = "ready" /\ LoopCall[c].cancelled = call[c].cancelled
  BY <1>1, LoopFields, LoopLabels DEF At
<1> QED BY <1>1, <1>2, <1>3 DEF Loop!Reject, Loop!At

LEMMA LoopRetryAllowed ==
  ASSUME CallInv, NEW c \in Calls
  PROVE  /\ \A cause \in {"busy", "connect", "dropped"} :
              Loop!RetryAllowed(c, cause) <=> RetryAllowed(c)
         /\ ~Loop!RetryAllowed(c, "timeout")
<1>1. /\ LoopCall[c].client = "python" /\ LoopCall[c].limit = call[c].limit
      /\ LoopCall[c].attempt = call[c].attempt
  BY LoopFields
<1>2. /\ {"busy", "connect", "dropped"} \subseteq
           Loop!LoopOf("python").retries \intersect Loop!LoopOf("python").reaches
      /\ "timeout" \notin Loop!LoopOf("python").retries
  BY DEF Loop!LoopOf, Loop!PythonLoop, Loop!Causes
<1> QED BY <1>1, <1>2 DEF Loop!RetryAllowed, Loop!RetriesOn, RetryAllowed

LEMMA LoopBacksOff ==
  ASSUME CallInv, NEW c \in Calls, Becomes(c, [call[c] EXCEPT !.pc = "backoff"])
  PROVE  Loop!Becomes(c, [LoopCall[c] EXCEPT !.pc = "backoff"])
<1> DEFINE s == [call[c] EXCEPT !.pc = "backoff"]
<1>1. /\ s.pc = "backoff" /\ s.limit = call[c].limit /\ s.attempt = call[c].attempt
      /\ s.cancelled = call[c].cancelled /\ s.status = call[c].status
      /\ s.outcome = call[c].outcome
  BY CallFields DEF CallStates
<1> HIDE DEF s
<1>2. LoopState(s) = [LoopState(call[c]) EXCEPT !.pc = "backoff"]
  BY <1>1, LoopLabels, LoopMoves
<1>3. LoopCall' = [LoopCall EXCEPT ![c] = LoopState(s)] /\ LoopCall[c] = LoopState(call[c])
  BY LoopBecomes DEF s
<1> QED BY <1>2, <1>3 DEF Loop!Becomes

LEMMA LoopFail ==
  ASSUME CallInv, NEW c \in Calls, NEW cause \in {"connect", "dropped", "timeout"},
         Fail(c, cause)
  PROVE  Loop!Fail(c, cause)
<1>1. /\ call[c].pc \in Waiting /\ cause # "busy" /\ UNCHANGED effects
      /\ IF cause = "connect"
         THEN /\ [call |-> c, attempt |-> call[c].attempt] \in transit
              /\ transit' = transit \ {[call |-> c, attempt |-> call[c].attempt]}
         ELSE UNCHANGED transit
  BY DEF Fail, At, RequestOf, Waiting
<1>2. Loop!Becomes(c, IF Loop!RetryAllowed(c, cause)
                      THEN [LoopCall[c] EXCEPT !.pc = "backoff"]
                      ELSE Loop!Ended(c, "failed"))
  <2>1. CASE cause # "timeout" /\ RetryAllowed(c)
    <3>1. Becomes(c, [call[c] EXCEPT !.pc = "backoff"])
      BY <2>1 DEF Fail
    <3>2. Loop!Becomes(c, [LoopCall[c] EXCEPT !.pc = "backoff"])
      BY <3>1, LoopBacksOff
    <3>3. Loop!RetryAllowed(c, cause)
      BY <2>1, LoopRetryAllowed
    <3> QED BY <3>2, <3>3
  <2>2. CASE ~(cause # "timeout" /\ RetryAllowed(c))
    <3>1. Becomes(c, Ended(c, "TransportError"))
      BY <2>2 DEF Fail
    <3>2. Loop!Becomes(c, Loop!Ended(c, "failed"))
      BY <3>1, LoopFailed
    <3>3. ~Loop!RetryAllowed(c, cause)
      BY <2>2, LoopRetryAllowed
    <3> QED BY <3>2, <3>3
  <2> QED BY <2>1, <2>2
<1>3. LoopCall[c].pc = "await" /\ LoopCall[c].attempt = call[c].attempt
  BY <1>1, LoopFields, LoopLabels
<1>4. cause # "broken"
  OBVIOUS
<1> QED BY <1>1, <1>2, <1>3, <1>4 DEF Loop!Fail, Loop!At

\* An answer the client cannot use is a failure that no retry follows.
LEMMA LoopUseless ==
  ASSUME CallInv, NEW c \in Calls, call[c].pc \in Waiting, UNCHANGED <<transit, effects>>,
         Loop!Becomes(c, Loop!Ended(c, "failed"))
  PROVE  Loop!Fail(c, "timeout")
<1>1. LoopCall[c].pc = "await" /\ ~Loop!RetryAllowed(c, "timeout")
  BY LoopFields, LoopLabels, LoopRetryAllowed
<1> QED BY <1>1 DEF Loop!Fail, Loop!At

LEMMA LoopWake ==
  ASSUME CallInv, NEW c \in Calls, Wake(c) PROVE Loop!Wake(c)
<1> DEFINE n == call[c].attempt + 1
           s == [call[c] EXCEPT !.pc = "prepare", !.attempt = n, !.since = current]
<1>1. At(c, "backoff") /\ Becomes(c, s) /\ UNCHANGED <<transit, effects>>
  BY DEF Wake
<1> HIDE DEF n
<1>2. /\ s.pc = "prepare" /\ s.limit = call[c].limit /\ s.attempt = n
      /\ s.cancelled = call[c].cancelled /\ s.status = call[c].status
      /\ s.outcome = call[c].outcome
  BY CallFields DEF CallStates
<1> HIDE DEF s
<1>3. LoopState(s) = [LoopState(call[c]) EXCEPT !.pc = "ready", !.attempt = n]
  <2>1. LoopOutcome(s) = LoopOutcome(call[c]) /\ LoopLabel(s.pc) = "ready"
    BY <1>2, LoopLabels DEF LoopOutcome
  <2> DEFINE u == [LoopState(call[c]) EXCEPT !.pc = "ready"]
  <2>3. u = [client |-> "python", pc |-> "ready", limit |-> call[c].limit,
            attempt |-> call[c].attempt, cancelled |-> call[c].cancelled,
            reply |-> Class(call[c].status), outcome |-> LoopOutcome(call[c])]
    BY DEF LoopState
  <2> HIDE DEF u
  <2>4. LoopState(s) = [u EXCEPT !.attempt = n]
    BY <1>2, <2>1, <2>3 DEF LoopState
  <2> QED BY <2>4, TwoFields DEF u
<1>4. /\ LoopCall[c].pc = "backoff" /\ LoopCall[c].attempt + 1 = n
  BY <1>1, LoopFields, LoopLabels DEF At, n
<1>5. LoopCall' = [LoopCall EXCEPT ![c] = [LoopCall[c] EXCEPT !.pc = "ready", !.attempt = n]]
  BY <1>1, <1>3, LoopBecomes
<1>6. LoopCall' = [LoopCall EXCEPT ![c] = [LoopCall[c] EXCEPT !.pc = "ready", !.attempt = @ + 1]]
  BY <1>4, <1>5
<1> QED BY <1>1, <1>4, <1>6 DEF Loop!Wake, Loop!At, Loop!Becomes

LEMMA LoopSettle ==
  ASSUME CallInv, NEW c \in Calls, Settle(c)
  PROVE  Loop!Receive(c) \/ Loop!Fail(c, "timeout")
<1>1. /\ At(c, "close") /\ call[c].pc \in Waiting /\ ~call[c].cancelled
      /\ UNCHANGED <<transit, effects>>
  BY DEF Settle, Running, At, Waiting
<1>2. /\ call[c].status \in 200..599 /\ call[c].status # None
  <2>1. call[c].status \in Statuses
    BY <1>1, CallFields, CallIsGood DEF At, Informed
  <2>2. Statuses \subseteq 200..599
    BY PythonAssumption
  <2>3. call[c].status \in 200..599
    BY <2>1, <2>2
  <2> QED BY <2>3, Bounds
<1> DEFINE status == call[c].status
<1> HIDE DEF status
<1>3. /\ LoopCall[c].pc = "await" /\ LoopCall[c].reply = Class(status)
      /\ LoopCall[c].cancelled = FALSE /\ Class(status) # None
      /\ ~Loop!DiscardsAnswer(c)
  <2>1. /\ LoopCall[c].pc = "await" /\ LoopCall[c].reply = Class(status)
        /\ LoopCall[c].cancelled = call[c].cancelled
    BY <1>1, LoopFields, LoopLabels DEF status
  <2>2. Class(status) \in {"ok", "busy", "refused"}
    BY <1>2 DEF Class, status
  <2>3. ~Loop!DiscardsAnswer(c)
    BY <1>1, <2>1 DEF Loop!DiscardsAnswer
  <2>4. call[c].cancelled = FALSE
    BY <1>1, CallFields
  <2> QED BY <2>1, <2>2, <2>3, <2>4, Bounds
<1>4. Class(status) = IF Success(status) THEN "ok"
                      ELSE IF Retryable(status) THEN "busy" ELSE "refused"
  BY <1>2 DEF Class, status
<1>5. ~(Success(status) /\ Retryable(status))
  BY <1>2 DEF Success, Retryable, status
<1>6. CASE Retryable(status) /\ RetryAllowed(c)
  <2>1. Loop!Becomes(c, [LoopCall[c] EXCEPT !.pc = "backoff"])
    BY <1>6, LoopBacksOff DEF Settle, status
  <2>2. LoopCall[c].reply = "busy" /\ Loop!RetryAllowed(c, "busy")
    BY <1>3, <1>4, <1>5, <1>6, LoopRetryAllowed
  <2> QED BY <1>1, <1>3, <2>1, <2>2, Bounds DEF Loop!Receive, Loop!At
<1>7. CASE ~(Retryable(status) /\ RetryAllowed(c))
  <2>1. Becomes(c, Ended(c, Handled(c)))
    BY <1>7 DEF Settle, status
  <2>2. LoopCall[c].reply = "busy" => ~Loop!RetryAllowed(c, "busy")
    BY <1>3, <1>4, <1>7, LoopRetryAllowed
  <2>3. CASE LoopOutcome(Ended(c, Handled(c))) = Loop!OutcomeOf(LoopCall[c].reply)
    <3> DEFINE o == Loop!OutcomeOf(LoopCall[c].reply)
               s == Ended(c, Handled(c))
    <3>1. LoopState(s) = [LoopState(call[c]) EXCEPT !.pc = "over", !.outcome = o]
      BY <2>3, LoopEnds
    <3> HIDE DEF s, o
    <3>2. LoopCall' = [LoopCall EXCEPT ![c] = LoopState(s)] /\ LoopCall[c] = LoopState(call[c])
      BY <2>1, LoopBecomes DEF s
    <3>3. Loop!Becomes(c, Loop!Ended(c, o))
      BY <3>1, <3>2 DEF Loop!Becomes, Loop!Ended
    <3> QED BY <1>1, <1>3, <2>2, <3>3 DEF o, Loop!Receive, Loop!At
  <2>4. CASE Success(status) /\ Handled(c) # "data"
    <3>1. Handled(c) \in {"ApiError", "ParsingError", "ValueError"}
      BY <1>1, <2>4, HandledIs
    <3>2. LoopOutcome(Ended(c, Handled(c))) = "failed"
      BY <2>4, <3>1, LoopOutcomeOf DEF Outcomes, status
    <3> DEFINE s == Ended(c, Handled(c))
    <3>3. LoopState(s) = [LoopState(call[c]) EXCEPT !.pc = "over", !.outcome = "failed"]
      BY <3>2, LoopEnds
    <3> HIDE DEF s
    <3>4. LoopCall' = [LoopCall EXCEPT ![c] = LoopState(s)] /\ LoopCall[c] = LoopState(call[c])
      BY <2>1, LoopBecomes DEF s
    <3>5. Loop!Becomes(c, Loop!Ended(c, "failed"))
      BY <3>3, <3>4 DEF Loop!Becomes, Loop!Ended
    <3> QED BY <1>1, <3>5, LoopUseless
  <2>5. CASE Success(status) /\ Handled(c) = "data"
    <3>1. LoopOutcome(Ended(c, Handled(c))) = "done"
      BY <2>5, LoopOutcomeOf DEF Outcomes
    <3>2. Loop!OutcomeOf(LoopCall[c].reply) = "done"
      BY <1>3, <1>4, <2>5 DEF Loop!OutcomeOf
    <3> QED BY <2>3, <3>1, <3>2
  <2>6. CASE ~Success(status)
    <3>1. Handled(c) = "ApiError"
      BY <1>1, <2>6, HandledIs DEF status
    <3>2. LoopOutcome(Ended(c, Handled(c))) = Class(status)
      BY <2>6, <3>1, LoopOutcomeOf DEF Outcomes, status
    <3>3. Loop!OutcomeOf(LoopCall[c].reply) = Class(status)
      BY <1>3, <1>4, <2>6 DEF Loop!OutcomeOf
    <3> QED BY <2>3, <3>2, <3>3
  <2> QED BY <2>4, <2>5, <2>6
<1> QED BY <1>6, <1>7

LEMMA LoopInterrupt ==
  ASSUME CallInv, NEW c \in Calls, Interrupt(c)
  PROVE  Loop!Withdraw(c) \/ Loop!Interrupt(c)
<1>1. /\ call[c].cancelled /\ call[c].pc \notin {"idle", "over"}
      /\ UNCHANGED <<transit, effects>>
  BY DEF Interrupt
<1>2. Loop!Becomes(c, Loop!Ended(c, "failed"))
  BY LoopFailed DEF Interrupt
<1>3. /\ LoopCall[c].cancelled = call[c].cancelled /\ LoopCall[c].client = "python"
      /\ LoopCall[c].pc \in {"ready", "await", "backoff"}
  <2>1. call[c].pc \in {"prepare", "send", "backoff"} \union Waiting
    BY <1>1, CallFields DEF CallStates, Waiting
  <2>2. LoopLabel(call[c].pc) \in {"ready", "await", "backoff"}
    BY <2>1, LoopLabels
  <2> QED BY <2>2, LoopFields
<1>4. Loop!LoopOf("python").interrupted = {"await", "backoff"}
  BY DEF Loop!LoopOf, Loop!PythonLoop
<1> QED BY <1>1, <1>2, <1>3, <1>4 DEF Loop!Withdraw, Loop!Interrupt, Loop!At

LEMMA LoopCancel ==
  ASSUME CallInv, NEW c \in Calls, Cancel(c) PROVE Loop!Cancel(c)
<1> DEFINE s == [call[c] EXCEPT !.cancelled = TRUE]
<1>1. /\ call[c].pc \notin {"idle", "over"} /\ ~call[c].cancelled /\ Becomes(c, s)
      /\ UNCHANGED <<transit, effects>>
  BY DEF Cancel, Running
<1>2. /\ s.pc = call[c].pc /\ s.limit = call[c].limit /\ s.attempt = call[c].attempt
      /\ s.cancelled = TRUE /\ s.status = call[c].status /\ s.outcome = call[c].outcome
  BY CallFields DEF CallStates
<1> HIDE DEF s
<1>3. LoopState(s) = [LoopState(call[c]) EXCEPT !.cancelled = TRUE]
  <2> DEFINE v == TRUE
  <2>1. s.cancelled = v
    BY <1>2
  <2> HIDE DEF v
  <2>2. LoopState(s) = [LoopState(call[c]) EXCEPT !.cancelled = v]
    BY <1>2, <2>1, LoopTurns
  <2> QED BY <2>2 DEF v
<1>4. LoopCall' = [LoopCall EXCEPT ![c] = [LoopCall[c] EXCEPT !.cancelled = TRUE]]
  BY <1>1, <1>3, LoopBecomes
<1>5. /\ LoopCall[c].cancelled = call[c].cancelled /\ LoopCall[c].client = "python"
      /\ LoopCall[c].pc \in {"ready", "await", "backoff"}
  <2>1. call[c].pc \in {"prepare", "send", "backoff"} \union Waiting
    BY <1>1, CallFields DEF CallStates, Waiting
  <2>2. LoopLabel(call[c].pc) \in {"ready", "await", "backoff"}
    BY <2>1, LoopLabels
  <2> QED BY <2>2, LoopFields
<1> QED BY <1>1, <1>4, <1>5 DEF Loop!Cancel, Loop!Becomes

\* Steps the request loop does not see.
LEMMA LoopUnseen ==
  ASSUME CallInv, NEW c \in Calls, NEW s, Becomes(c, s), UNCHANGED <<transit, effects>>,
         LoopState(s) = LoopState(call[c])
  PROVE  UNCHANGED Loop!vars
<1>1. LoopCall' = [LoopCall EXCEPT ![c] = LoopCall[c]]
  BY LoopBecomes
<1>2. LoopCall' = LoopCall
  BY <1>1 DEF LoopCall
<1> QED BY <1>2 DEF Loop!vars

LEMMA LoopFetch ==
  ASSUME CallInv, NEW c \in Calls, FetchToken(c) PROVE UNCHANGED Loop!vars
<1> DEFINE s == [call[c] EXCEPT !.pc = "send", !.token = current]
<1>1. At(c, "prepare") /\ Becomes(c, s) /\ UNCHANGED <<transit, effects>>
  BY DEF FetchToken
<1>2. /\ s.pc = "send" /\ s.limit = call[c].limit /\ s.attempt = call[c].attempt
      /\ s.cancelled = call[c].cancelled /\ s.status = call[c].status
      /\ s.outcome = call[c].outcome
  BY CallFields DEF CallStates
<1> HIDE DEF s
<1>3. LoopState(s) = LoopState(call[c])
  BY <1>1, <1>2, LoopLabels, LoopRests DEF At
<1> QED BY <1>1, <1>3, LoopUnseen

LEMMA LoopAccept ==
  ASSUME CallInv, NEW c \in Calls, Accept(c) PROVE UNCHANGED Loop!vars
<1> DEFINE b == [call[c] EXCEPT !.pc = "body"]
           e == [call[c] EXCEPT !.pc = "close", !.body = "text"]
<1>1. /\ call[c].pc \in Waiting /\ UNCHANGED <<transit, effects>>
      /\ Becomes(c, b) \/ Becomes(c, e)
  BY DEF Accept, At, Waiting
<1>2. \A s \in {b, e} :
        /\ s.pc \in Waiting /\ s.limit = call[c].limit /\ s.attempt = call[c].attempt
        /\ s.cancelled = call[c].cancelled /\ s.status = call[c].status
        /\ s.outcome = call[c].outcome
  BY CallFields DEF CallStates, Waiting
<1> HIDE DEF b, e
<1>3. \A s \in {b, e} : LoopState(s) = LoopState(call[c])
  BY <1>1, <1>2, LoopLabels, LoopRests
<1> QED BY <1>1, <1>3, LoopUnseen

LEMMA LoopReadBody ==
  ASSUME CallInv, NEW c \in Calls, ReadBody(c)
  PROVE  Loop!Fail(c, "timeout") \/ UNCHANGED Loop!vars
<1> DEFINE s == [call[c] EXCEPT !.pc = "close"]
<1>1. /\ call[c].pc \in Waiting /\ UNCHANGED <<transit, effects>>
      /\ Becomes(c, Ended(c, "ValueError")) \/ Becomes(c, s)
  BY DEF ReadBody, At, Waiting
<1>2. CASE Becomes(c, Ended(c, "ValueError"))
  <2>1. Loop!Becomes(c, Loop!Ended(c, "failed"))
    BY <1>2, LoopFailed
  <2> QED BY <1>1, <2>1, LoopUseless
<1>3. CASE Becomes(c, s)
  <2>1. /\ s.pc \in Waiting /\ s.limit = call[c].limit /\ s.attempt = call[c].attempt
        /\ s.cancelled = call[c].cancelled /\ s.status = call[c].status
        /\ s.outcome = call[c].outcome
    BY CallFields DEF CallStates, Waiting
  <2> HIDE DEF s
  <2>2. LoopState(s) = LoopState(call[c])
    BY <1>1, <2>1, LoopLabels, LoopRests
  <2> QED BY <1>1, <1>3, <2>2, LoopUnseen
<1> QED BY <1>1, <1>2, <1>3

LEMMA LoopServe ==
  ASSUME CallInv, NEW m \in transit, NEW status \in Statuses, NEW applied \in BOOLEAN,
         NEW body \in Bodies, NEW value \in Given(m, body),
         Serve(m, status, applied, body, value)
  PROVE  Loop!Serve(m, applied, Class(status)) /\ Class(status) \in Loop!Replies
<1> DEFINE c == m.call
           s == [call[c] EXCEPT !.status = status, !.body = body, !.value = value]
<1>1. m \in Requests /\ c \in Calls /\ m = [call |-> c, attempt |-> m.attempt]
  BY DEF CallInv, TypeOK, Requests
<1>2. /\ applied => m.call \in Mutations
      /\ m.call \in Mutations /\ Success(status) => applied
      /\ ~Success(status) /\ ~Retryable(status) => ~applied
  BY DEF Serve
<1>3. /\ transit' = transit \ {m}
      /\ effects' = [effects EXCEPT ![m.call] = IF applied THEN @ + 1 ELSE @]
  BY DEF Serve
<1>4. /\ Class(status) = IF Success(status) THEN "ok"
                         ELSE IF Retryable(status) THEN "busy" ELSE "refused"
  <2>1. status # None
    BY PythonAssumption
  <2> QED BY <2>1 DEF Class
<1>5. /\ applied => m.call \in Mutations
      /\ m.call \in Mutations /\ Class(status) = "ok" => applied
      /\ Class(status) = "refused" => ~applied
  BY <1>2, <1>4
<1>6. LoopCall' = IF LoopCall[c].pc = "await" /\ LoopCall[c].attempt = m.attempt
                  THEN [LoopCall EXCEPT ![c].reply = Class(status)] ELSE LoopCall
  <2>1. LoopCall[c].attempt = call[c].attempt /\ LoopCall[c].pc = LoopLabel(call[c].pc)
        /\ LoopCall[c] = LoopState(call[c])
    BY <1>1, LoopFields
  <2>2. CASE At(c, "sent") /\ call[c].attempt = m.attempt
    <3>1. Becomes(c, s)
      <4>1. call' = [call EXCEPT ![c].status = status, ![c].body = body, ![c].value = value]
        BY <2>2 DEF Serve
      <4> QED BY <1>1, <4>1 DEF CallInv, TypeOK, Becomes
    <3>2. /\ s.pc = call[c].pc /\ s.limit = call[c].limit /\ s.attempt = call[c].attempt
          /\ s.cancelled = call[c].cancelled /\ s.status = status
          /\ s.outcome = "pending" /\ call[c].outcome = "pending"
      <4>1. call[c].outcome = "pending"
        BY <1>1, <2>2, CallIsGood DEF At, Informed
      <4> QED BY <1>1, <4>1, CallFields DEF CallStates
    <3> HIDE DEF s, c
    <3>3. LoopState(s) = [LoopState(call[c]) EXCEPT !.reply = Class(status)]
      <4>1. LoopOutcome(s) = LoopOutcome(call[c])
        BY <3>2 DEF LoopOutcome
      <4> QED BY <3>2, <4>1 DEF LoopState
    <3>4. LoopCall' = [LoopCall EXCEPT ![c] = LoopState(s)]
      BY <1>1, <3>1, LoopBecomes
    <3>5. LoopCall' = [LoopCall EXCEPT ![c].reply = Class(status)]
      BY <2>1, <3>3, <3>4
    <3>6. LoopCall[c].pc = "await"
      BY <2>1, <2>2, LoopLabels DEF At, Waiting
    <3> QED BY <2>1, <2>2, <3>5, <3>6
  <2>3. CASE ~(At(c, "sent") /\ call[c].attempt = m.attempt)
    <3>1. call' = call
      BY <2>3 DEF Serve
    <3>2. LoopCall' = LoopCall
      BY <3>1 DEF LoopCall
    <3>3. ~(LoopCall[c].pc = "await" /\ LoopCall[c].attempt = m.attempt)
      <4> SUFFICES ASSUME LoopCall[c].pc = "await", call[c].attempt = m.attempt
                   PROVE  FALSE
        BY <2>1
      <4>1. call[c].pc \in {"idle", "prepare", "send", "backoff", "over"} \union Waiting
        BY <1>1, CallFields DEF CallStates, Waiting
      <4>2. call[c].pc \in Waiting
        BY <2>1, <4>1, LoopLabels
      <4>3. call[c].pc \in {"body", "close"}
        BY <2>3, <4>2 DEF Waiting, At
      <4>4. call[c].status # None
        BY <1>1, <4>3, CallIsGood DEF Informed
      <4> QED BY <1>1, <4>2, <4>4, CallIsGood DEF Unserved
    <3> QED BY <3>2, <3>3
  <2> QED BY <2>2, <2>3
<1>7. Class(status) \in Loop!Replies
  BY <1>4 DEF Loop!Replies
<1> QED BY <1>3, <1>5, <1>6, <1>7 DEF Loop!Serve, Loop!At

LEMMA LoopNext ==
  ASSUME CallInv, Next PROVE Loop!Next \/ UNCHANGED Loop!vars
<1>1. ASSUME NEW c \in Calls, Step(c) PROVE Loop!Next \/ UNCHANGED Loop!vars
  <2>1. \/ Loop!Step(c) \/ UNCHANGED Loop!vars
    BY <1>1, LoopFetch, LoopTransmit, LoopRefuse, LoopFail, LoopWake, LoopAccept,
       LoopReadBody, LoopSettle, LoopInterrupt
    DEF Step, Loop!Step, Loop!Causes
  <2> QED BY <2>1 DEF Loop!Next
<1>2. ASSUME Program PROVE Loop!Next \/ UNCHANGED Loop!vars
  <2>1. ASSUME NEW c \in Direct, NEW m \in Methods, NEW immutable \in BOOLEAN,
               Begin(c, m, immutable)
        PROVE  Loop!Next
    <3>1. c \in Calls
      BY PythonAssumption
    <3>2. Loop!Begin(c)
      BY <2>1, <3>1, LoopBegin
    <3> QED BY <3>1, <3>2 DEF Loop!Next, Loop!Step
  <2>2. ASSUME NEW c \in Calls, Cancel(c) PROVE Loop!Next
    BY <2>2, LoopCancel DEF Loop!Next
  <2>3. ASSUME Rotate PROVE UNCHANGED Loop!vars
    BY <2>3 DEF Rotate, Loop!vars, LoopCall
  <2> QED BY <1>2, <2>1, <2>2, <2>3 DEF Program
<1>3. ASSUME Service PROVE Loop!Next
  <2>1. PICK m \in transit, status \in Statuses, applied \in BOOLEAN, body \in Bodies :
          \E value \in Given(m, body) : Serve(m, status, applied, body, value)
    BY <1>3 DEF Service
  <2>2. Loop!Serve(m, applied, Class(status)) /\ Class(status) \in Loop!Replies
    BY <2>1, LoopServe
  <2> QED BY <2>2 DEF Loop!Next, Loop!Service
<1> QED BY <1>1, <1>2, <1>3 DEF Next

LEMMA LoopStutter ==
  ASSUME UNCHANGED vars PROVE UNCHANGED Loop!vars
BY DEF vars, Loop!vars, LoopCall

LEMMA LoopReader ==
  ASSUME AllInv, [ReaderNext]_readerVars PROVE [Loop!Next]_(Loop!vars)
<1>1. CallInv /\ reader.mode \in {"sync", "async"} /\ first \in Calls /\ second \in Calls
  BY VerifiedAssumption DEF AllInv, ReaderInv
<1>2. CASE Next
  BY <1>1, <1>2, LoopNext
<1>3. CASE StartRead
  <2>1. Loop!Begin(first)
    BY <1>1, <1>3, ReaderMethods, LoopBegin DEF StartRead
  <2> QED BY <1>1, <2>1 DEF Loop!Next, Loop!Step
<1>4. CASE ReaderStep
  <2>1. \/ Begin(second, <<reader.mode, "contexts", "read_file">>, TRUE)
        \/ UNCHANGED vars
    BY <1>4 DEF ReaderStep, Inspected, Verified
  <2>2. CASE Begin(second, <<reader.mode, "contexts", "read_file">>, TRUE)
    <3>1. Loop!Begin(second)
      BY <1>1, <2>2, ReaderMethods, LoopBegin
    <3> QED BY <1>1, <3>1 DEF Loop!Next, Loop!Step
  <2>3. CASE UNCHANGED vars
    BY <2>3, LoopStutter
  <2> QED BY <2>1, <2>2, <2>3
<1>5. CASE UNCHANGED readerVars
  <2>1. UNCHANGED vars
    BY <1>5 DEF readerVars
  <2> QED BY <2>1, LoopStutter
<1> QED BY <1>2, <1>3, <1>4, <1>5 DEF ReaderNext

(* Every method of the Python client is one of the request loops of Retries *)
(* (core/http_client.py, core/safety.py): every step of a call, of a reader *)
(* and of the service is a step of Retries or leaves its variables alone.   *)
THEOREM PythonIsLoop == ReaderSpec => ImplementsLoop
<1>1. ReaderInit => Loop!Init
  BY InitLoop DEF ReaderInit
<1>2. AllInv /\ [ReaderNext]_readerVars => [Loop!Next]_(Loop!vars)
  BY LoopReader
<1> QED BY <1>1, <1>2, AlwaysAll, PTL DEF ReaderSpec, ImplementsLoop, Loop!Spec
=============================================================================

------------------------- MODULE TokenProviderProofs -------------------------
(* Proofs about TokenProvider, for any callers, lifetimes, buffer and bounds. *)
EXTENDS TokenProvider, TLAPS

USE TokenAssumption

(* A lock is held by the caller it covers, and by no other.                *)
LockInv == \A c \in Callers : pc[c] \in Busy <=> holder[Kind(c)] = c

(* While a caller fetches, none of its kind can have stored a token.       *)
FetchInv ==
  \A c \in Callers :
    pc[c] \in {"fetching", "fetched"} => ~(Cached /\ stored = Kind(c))

(* An answer has not travelled for longer than MaxDelay.                   *)
DelayInv == \A c \in Callers : pc[c] = "fetched" => now <= issued[c] + MaxDelay

(* The cache gives a token up a good time before the service does, or has  *)
(* done so already: HandsOutLive holds at this instant and at every later.  *)
MarginInv ==
  stored \in {"thread", "task", "user"} =>
    expires <= now \/ expires + (Buffer - MaxDelay) <= deadline

TokenInv == TypeOK /\ LockInv /\ FetchInv /\ DelayInv /\ MarginInv

LEMMA KindOf == \A c \in Callers : Kind(c) \in Kinds /\ c # Nobody
BY DEF Kind, Kinds, Callers

LEMMA InitToken == Init => TokenInv
<1> SUFFICES ASSUME Init PROVE TokenInv
  OBVIOUS
<1>1. TypeOK
  BY DEF Init, TypeOK, Busy
<1>2. LockInv
  BY KindOf DEF Init, LockInv, Busy
<1>3. FetchInv /\ DelayInv /\ MarginInv
  BY DEF Init, FetchInv, DelayInv, MarginInv, Cached
<1> QED BY <1>1, <1>2, <1>3 DEF TokenInv

-----------------------------------------------------------------------------
(* Types.                                                                  *)

LEMMA NumbersTyped ==
  \A lifetime \in Lifetimes :
    SaturatingSub(lifetime) \in Nat /\ Effective(lifetime) \in Nat
    /\ SaturatingSub(Effective(lifetime)) \in Nat
BY DEF SaturatingSub, Effective

LEMMA SubTyped ==
  ASSUME NEW n \in Nat
  PROVE  SaturatingSub(n) \in Nat /\ Effective(n) \in Nat
BY DEF SaturatingSub, Effective

LEMMA CallTyped ==
  ASSUME TypeOK, NEW c \in Callers, Call(c)
  PROVE  TypeOK'
<1> USE DEF TypeOK, At, Becomes, Frees, Forgets, Poisons, cache, panics, answers, Busy
<1>1. CASE Begin(c)
  BY <1>1 DEF Begin
<1>2. CASE Acquire(c)
  BY <1>2 DEF Acquire
<1>3. CASE AcquirePoisoned(c)
  BY <1>3 DEF AcquirePoisoned
<1>4. CASE Recheck(c)
  BY <1>4 DEF Recheck
<1>5. CASE Issue(c)
  BY <1>5 DEF Issue
<1>6. CASE Fails(c)
  BY <1>6 DEF Fails
<1>7. CASE Panics(c)
  BY <1>7 DEF Panics
<1>8. CASE Dropped(c)
  BY <1>8 DEF Dropped
<1>9. CASE Store(c)
  <2>1. /\ SaturatingSub(Effective(answered[c])) \in Nat
        /\ Effective(answered[c]) \in Nat
    BY SubTyped
  <2>2. Kind(c) \in {"thread", "task"}
    BY DEF Kind
  <2>3. /\ stored' \in {"nothing", "thread", "task", "user", "forever"}
        /\ expires' \in Nat /\ deadline' \in Nat
        /\ wrecked' \in BOOLEAN /\ poisoned' \in BOOLEAN
    <3>1. CASE wrecked' = TRUE /\ Poisons(c) /\ UNCHANGED cache
      BY <3>1
    <3>2. CASE /\ stored' = Kind(c)
               /\ expires' = now + SaturatingSub(Effective(answered[c]))
               /\ deadline' = issued[c] + Effective(answered[c])
               /\ UNCHANGED panics
      BY <2>1, <2>2, <3>2
    <3> QED BY <1>9, <3>1, <3>2 DEF Store
  <2> QED BY <1>9, <2>3 DEF Store
<1> QED BY <1>1, <1>2, <1>3, <1>4, <1>5, <1>6, <1>7, <1>8, <1>9
        DEF Call, Own, Fetch

LEMMA NextTyped == TypeOK /\ [Next]_vars => TypeOK'
<1> SUFFICES ASSUME TypeOK, [Next]_vars PROVE TypeOK'
  OBVIOUS
<1>1. CASE \E c \in Callers : Call(c)
  BY <1>1, CallTyped
<1>2. CASE \E lifetime \in Lifetimes : SetToken(lifetime)
  <2>1. PICK lifetime \in Lifetimes : SetToken(lifetime)
    BY <1>2
  <2>2. lifetime \in Nat /\ SaturatingSub(lifetime) \in Nat
    BY NumbersTyped
  <2>3. /\ stored' \in {"nothing", "thread", "task", "user", "forever"}
        /\ expires' \in Nat /\ deadline' \in Nat /\ wrecked' \in BOOLEAN
    <3>1. CASE wrecked' = TRUE /\ UNCHANGED cache
      BY <3>1 DEF TypeOK, cache
    <3>2. CASE /\ lifetime > 0 /\ stored' = "user" /\ deadline' = now + lifetime
               /\ expires' = now + SaturatingSub(lifetime) /\ UNCHANGED wrecked
      BY <2>2, <3>2 DEF TypeOK
    <3>3. CASE /\ stored' = "forever" /\ expires' = 0 /\ deadline' = 0
               /\ UNCHANGED wrecked
      BY <3>3 DEF TypeOK
    <3> QED BY <2>1, <3>1, <3>2, <3>3 DEF SetToken
  <2> QED BY <2>1, <2>3 DEF SetToken, TypeOK, answers
<1>3. CASE Reset
  BY <1>3 DEF Reset, TypeOK, panics, answers
<1>4. CASE Tick
  BY <1>4 DEF Tick, TypeOK, cache, panics, answers
<1>5. CASE UNCHANGED vars
  BY <1>5 DEF vars, cache, panics, answers, TypeOK
<1> QED BY <1>1, <1>2, <1>3, <1>4, <1>5 DEF Next

-----------------------------------------------------------------------------
(* The locks.                                                              *)

\* What a step of one caller leaves of the others.
LEMMA OthersStay ==
  ASSUME TokenInv, NEW c \in Callers, Call(c), NEW d \in Callers, d # c
  PROVE  pc'[d] = pc[d] /\ issued'[d] = issued[d]
BY DEF TokenInv, TypeOK, Call, Own, Fetch, Begin, Acquire, AcquirePoisoned, Recheck,
       Issue, Fails, Panics, Dropped, Store, At, Becomes, Forgets, answers

LEMMA CallLocks ==
  ASSUME TokenInv, NEW c \in Callers, Call(c)
  PROVE  LockInv'
<1> USE KindOf DEF TokenInv, TypeOK, LockInv, At, Becomes, Busy
<1>1. ASSUME ~(pc[c] \in Busy), ~(pc'[c] \in Busy), UNCHANGED holder
      PROVE  LockInv'
  BY <1>1, OthersStay
<1>2. ASSUME pc[c] \in Busy, pc'[c] \in Busy, UNCHANGED holder
      PROVE  LockInv'
  BY <1>2, OthersStay
<1>3. ASSUME pc[c] \in Busy, ~(pc'[c] \in Busy), Frees(c)
      PROVE  LockInv'
  <2>1. holder'[Kind(c)] = Nobody /\ holder[Kind(c)] = c
    BY <1>3 DEF Frees
  <2>2. \A k \in Kinds \ {Kind(c)} : holder'[k] = holder[k]
    BY <1>3 DEF Frees
  <2>3. ASSUME NEW d \in Callers PROVE (pc[d] \in Busy <=> holder[Kind(d)] = d)'
    <3>1. CASE d = c
      BY <1>3, <2>1, <3>1
    <3>2. CASE d # c /\ Kind(d) = Kind(c)
      BY <2>1, <3>2, OthersStay
    <3>3. CASE d # c /\ Kind(d) # Kind(c)
      BY <2>2, <3>3, OthersStay
    <3> QED BY <3>1, <3>2, <3>3
  <2> QED BY <2>3
<1>4. CASE Begin(c)
  BY <1>1, <1>4 DEF Begin
<1>5. CASE Acquire(c)
  <2>1. holder'[Kind(c)] = c /\ holder[Kind(c)] = Nobody /\ pc'[c] = "checking"
    BY <1>5 DEF Acquire, Free
  <2>2. \A k \in Kinds \ {Kind(c)} : holder'[k] = holder[k]
    BY <1>5 DEF Acquire
  <2>3. ASSUME NEW d \in Callers PROVE (pc[d] \in Busy <=> holder[Kind(d)] = d)'
    <3>1. CASE d = c
      BY <2>1, <3>1
    <3>2. CASE d # c /\ Kind(d) = Kind(c)
      BY <2>1, <3>2, OthersStay
    <3>3. CASE d # c /\ Kind(d) # Kind(c)
      BY <2>2, <3>3, OthersStay
    <3> QED BY <3>1, <3>2, <3>3
  <2> QED BY <2>3
<1>6. CASE AcquirePoisoned(c)
  BY <1>1, <1>6 DEF AcquirePoisoned
<1>7. CASE Recheck(c)
  BY <1>2, <1>3, <1>7 DEF Recheck
<1>8. CASE Issue(c)
  BY <1>2, <1>8 DEF Issue
<1>9. CASE Fails(c) \/ Panics(c) \/ Store(c)
  BY <1>3, <1>9 DEF Fails, Panics, Store
<1>10. CASE Dropped(c)
  BY <1>1, <1>3, <1>10 DEF Dropped
<1> QED BY <1>4, <1>5, <1>6, <1>7, <1>8, <1>9, <1>10 DEF Call, Own, Fetch

\* Two callers of one kind do not hold their lock at the same time.
LEMMA OneHolder ==
  ASSUME LockInv, NEW c \in Callers, NEW d \in Callers,
         pc[c] \in Busy, pc[d] \in Busy, Kind(c) = Kind(d)
  PROVE  c = d
BY DEF LockInv

-----------------------------------------------------------------------------
(* What a fetch finds in the cache, and how long its answer travels.       *)

LEMMA CallFetches ==
  ASSUME TokenInv, NEW c \in Callers, Call(c)
  PROVE  FetchInv' /\ DelayInv'
<1> USE DEF TokenInv, TypeOK, At, Becomes
<1>1. now' = now
  BY DEF Call, Own, Fetch, Begin, Acquire, AcquirePoisoned, Recheck, Issue, Fails,
         Panics, Dropped, Store
<1>2. pc'[c] = "fetched" => pc[c] = "fetching" /\ issued'[c] = now
  BY DEF Call, Own, Fetch, Begin, Acquire, AcquirePoisoned, Recheck, Issue, Fails,
         Panics, Dropped, Store, Cached
<1>3. DelayInv'
  BY <1>1, <1>2, OthersStay DEF DelayInv
<1>4. CASE Store(c) /\ wrecked'
  BY <1>3, <1>4 DEF FetchInv, Cached
<1>5. CASE Store(c) /\ ~wrecked'
  <2>1. stored' = Kind(c) /\ pc'[c] = "idle" /\ pc[c] \in Busy
    BY <1>5 DEF Store, Busy
  <2>2. ASSUME NEW d \in Callers, pc'[d] \in {"fetching", "fetched"}
        PROVE  stored' # Kind(d)
    <3>1. d # c /\ pc[d] \in Busy
      BY <2>1, <2>2, OthersStay DEF Busy
    <3> QED BY <2>1, <3>1, OneHolder
  <2> QED BY <1>3, <2>2 DEF FetchInv
<1>6. CASE ~Store(c)
  <2>1. UNCHANGED <<cache, wrecked>>
    BY <1>6 DEF panics, Call, Own, Fetch, Begin, Acquire, AcquirePoisoned, Recheck, Issue,
                Fails, Panics, Dropped
  <2>2. Cached' = Cached /\ stored' = stored
    BY <1>1, <2>1 DEF Cached, cache
  <2>3. pc'[c] = "fetching" => ~Cached
    BY <1>6 DEF Call, Own, Fetch, Begin, Acquire, AcquirePoisoned, Recheck, Issue,
                Fails, Panics, Dropped
  <2> QED BY <1>2, <1>3, <2>2, <2>3, OthersStay DEF FetchInv
<1> QED BY <1>4, <1>5, <1>6

LEMMA CallMargin ==
  ASSUME TokenInv, NEW c \in Callers, Call(c)
  PROVE  MarginInv'
<1> USE DEF TokenInv, TypeOK
<1>1. CASE Store(c) /\ ~SetPanics(Effective(answered[c]))
  <2> DEFINE life == Effective(answered[c])
  <2>1. life \in Nat
    BY SubTyped
  <2>2. /\ expires' = now + SaturatingSub(life)
        /\ deadline' = issued[c] + life /\ now' = now
        /\ now <= issued[c] + MaxDelay
    BY <1>1 DEF Store, DelayInv, At
  <2>3. issued[c] \in Nat
    OBVIOUS
  <2> HIDE DEF life
  <2>4. CASE life < Buffer
    BY <2>1, <2>2, <2>4 DEF MarginInv, SaturatingSub
  <2>5. CASE ~(life < Buffer)
    BY <2>1, <2>2, <2>3, <2>5 DEF MarginInv, SaturatingSub
  <2> QED BY <2>4, <2>5
<1>2. CASE ~Store(c) \/ SetPanics(Effective(answered[c]))
  <2>1. UNCHANGED <<cache, now>>
    BY <1>2 DEF Call, Own, Fetch, Begin, Acquire, AcquirePoisoned, Recheck, Issue,
                Fails, Panics, Dropped, Store
  <2> QED BY <2>1 DEF MarginInv, cache
<1> QED BY <1>1, <1>2

-----------------------------------------------------------------------------

LEMMA NextToken == TokenInv /\ [Next]_vars => TokenInv'
<1> SUFFICES ASSUME TokenInv, [Next]_vars PROVE TokenInv'
  OBVIOUS
<1>1. TypeOK /\ TypeOK'
  BY NextTyped DEF TokenInv
<1>2. CASE \E c \in Callers : Call(c)
  BY <1>1, <1>2, CallLocks, CallFetches, CallMargin DEF TokenInv
<1>3. CASE \E lifetime \in Lifetimes : SetToken(lifetime)
  <2>1. PICK lifetime \in Lifetimes : SetToken(lifetime)
    BY <1>3
  <2>2. /\ UNCHANGED <<now, holder, pc, answers>>
        /\ stored' \in {"user", "forever"} \/ (wrecked' /\ UNCHANGED cache)
    BY <2>1 DEF SetToken
  <2>3. FetchInv'
    BY <2>2 DEF FetchInv, Kind, Cached
  <2>4. MarginInv'
    <3>1. lifetime \in Nat /\ now \in Nat
      BY <1>1 DEF TypeOK
    <3>2. CASE lifetime = 0 \/ SetPanics(lifetime)
      BY <2>1, <2>2, <3>2 DEF SetToken, MarginInv, TokenInv, cache
    <3>3. CASE lifetime > 0 /\ ~SetPanics(lifetime)
      <4>1. /\ expires' = now + SaturatingSub(lifetime)
            /\ deadline' = now + lifetime /\ now' = now
        BY <2>1, <3>3 DEF SetToken
      <4>2. CASE lifetime < Buffer
        BY <3>1, <4>1, <4>2 DEF MarginInv, SaturatingSub
      <4>3. CASE ~(lifetime < Buffer)
        BY <3>1, <4>1, <4>3 DEF MarginInv, SaturatingSub
      <4> QED BY <4>2, <4>3
    <3> QED BY <3>1, <3>2, <3>3
  <2> QED BY <1>1, <2>2, <2>3, <2>4 DEF TokenInv, LockInv, DelayInv, answers
<1>4. CASE Reset
  BY <1>1, <1>4 DEF Reset, TokenInv, LockInv, FetchInv, DelayInv, MarginInv, Cached,
                    answers
<1>5. CASE Tick
  <2>1. UNCHANGED <<cache, wrecked, holder, pc, answers>> /\ now' = now + 1
    BY <1>5 DEF Tick, panics
  <2>2. DelayInv'
    BY <1>1, <1>5, <2>1 DEF Tick, DelayInv, At, TypeOK, answers
  <2>3. FetchInv'
    <3>1. \A c \in Callers : Kind(c) # "forever"
      BY DEF Kind
    <3>2. Cached' /\ stored # "forever" => Cached
      BY <1>1, <2>1 DEF Cached, cache, TypeOK
    <3> QED BY <2>1, <3>1, <3>2 DEF FetchInv, TokenInv, cache
  <2>4. MarginInv'
    BY <1>1, <2>1 DEF MarginInv, TokenInv, TypeOK, cache
  <2> QED BY <1>1, <2>1, <2>2, <2>3, <2>4 DEF TokenInv, LockInv
<1>6. CASE UNCHANGED vars
  BY <1>1, <1>6 DEF vars, cache, panics, answers, TokenInv, LockInv, FetchInv, DelayInv,
                    MarginInv, Cached
<1> QED BY <1>2, <1>3, <1>4, <1>5, <1>6 DEF Next

LEMMA TokenInvariant == Spec => []TokenInv
BY InitToken, NextToken, PTL DEF Spec

\* Every variable keeps its type: no lifetime takes the expiry below zero.
THEOREM TokenTyped == Spec => []TypeOK
<1>1. TokenInv => TypeOK
  BY DEF TokenInv
<1> QED BY TokenInvariant, <1>1, PTL

\* One caller of a kind fetches at a time, and never while a token its kind has
\* stored is handed out, whatever fails, is dropped, panics or is reset.
THEOREM TokenFetchedOnce == Spec => []FetchedOnce
<1>1. TokenInv => FetchedOnce
  BY OneHolder DEF TokenInv, FetchInv, FetchedOnce, Busy
<1> QED BY TokenInvariant, <1>1, PTL

\* The service accepts what the cache hands out for longer than the buffer less
\* the delay of an answer.
THEOREM TokenHandsOutLive == Spec => []HandsOutLive
<1>1. TokenInv => HandsOutLive
  BY DEF TokenInv, TypeOK, MarginInv, HandsOutLive, Cached
<1> QED BY TokenInvariant, <1>1, PTL
=============================================================================

---------------------------- MODULE TokenProvider ----------------------------
(***************************************************************************)
(* The OAuth token cache of the Rust client (core/oauth_token_provider.rs),  *)
(* shared by the requests of one client: threads call get_or_fetch, tasks    *)
(* get_or_fetch_async, and the application may set, read or clear the token. *)
(*                                                                         *)
(* The mutex around the cached token is held only within a step.  The locks  *)
(* that cover a fetch are two: one of the threads and one of the tasks.  A   *)
(* fetch may fail; the one of a task may be dropped with its future, and the *)
(* one of a thread may panic, which poisons the lock of the threads.         *)
(*                                                                         *)
(* A lifetime may reach past the last instant the clock can represent (the   *)
(* client casts a negative expires_in to an unsigned one, http_client.rs 564 *)
(* to 567): adding it then panics inside the mutex of the cache, and from    *)
(* there on whoever reads or writes the cache panics too.                    *)
(*                                                                         *)
(* The token endpoint is external.  A token is known by its expiry at the    *)
(* service and by the time from which the cache no longer hands it out.  One *)
(* whose answer names no lifetime is assumed to live for DefaultLifetime.    *)
(*                                                                         *)
(* MutantX is a plausible slip in X; the specification never uses it.      *)
(***************************************************************************)
EXTENDS Naturals

CONSTANTS
  Threads, Tasks,         \* the callers
  Buffer,                 \* EXPIRATION_BUFFER_SECONDS
  DefaultLifetime,        \* DEFAULT_EXPIRY_SECONDS
  Lifetimes,              \* values of expires_in, 0 when there is none
  Horizon,                \* the last instant of the clock
  MaxDelay,               \* longest time from a token's issue to its storage
  MaxTime,                \* bound on the clock
  MaxCalls,               \* bound on the calls of one caller
  Nobody                  \* holds no lock

Callers == Threads \union Tasks
Kinds == {"thread", "task"}
Kind(c) == IF c \in Threads THEN "thread" ELSE "task"

ASSUME TokenAssumption ==
  /\ Threads \intersect Tasks = {} /\ Nobody \notin Callers
  /\ Buffer \in Nat /\ DefaultLifetime \in Nat \ {0}
  /\ Lifetimes \subseteq Nat /\ Horizon \in Nat
  /\ MaxDelay \in 0..Buffer
  /\ MaxTime \in Nat /\ MaxCalls \in Nat

VARIABLES
  now,                    \* the clock
  stored,                 \* access_token: nothing, a token and who stored it,
                          \* or a token without expiry
  expires,                \* expires_at
  deadline,               \* when the service ceases to accept the token
  wrecked,                \* inner is poisoned
  holder,                 \* fetch_lock and async_fetch_lock
  poisoned,               \* a thread has panicked under fetch_lock
  pc,                     \* where each caller is
  answered,               \* what each caller was answered: expires_in,
  issued,                 \* and when
  calls                   \* how many calls each caller has made

cache == <<stored, expires, deadline>>
panics == <<wrecked, poisoned>>
answers == <<answered, issued>>
vars == <<now, cache, panics, holder, pc, answers, calls>>

(* get_token: what the cache holds is handed out.                          *)
Cached ==
  /\ ~wrecked
  /\ stored = "forever" \/ (stored # "nothing" /\ now < expires)

Init ==
  /\ now = 0
  /\ stored = "nothing" /\ expires = 0 /\ deadline = 0
  /\ wrecked = FALSE /\ poisoned = FALSE
  /\ holder = [k \in Kinds |-> Nobody]
  /\ pc = [c \in Callers |-> "idle"]
  /\ answered = [c \in Callers |-> 0] /\ issued = [c \in Callers |-> 0]
  /\ calls = [c \in Callers |-> 0]

At(c, label) == pc[c] = label
Becomes(c, label) == pc' = [pc EXCEPT ![c] = label]
Frees(c) == holder' = [holder EXCEPT ![Kind(c)] = Nobody]
(* A thread that panics under fetch_lock poisons it; tokio's is not.       *)
Poisons(c) == poisoned' = IF c \in Threads THEN TRUE ELSE poisoned
Forgets(c) ==
  answered' = [answered EXCEPT ![c] = 0] /\ issued' = [issued EXCEPT ![c] = 0]

-----------------------------------------------------------------------------
(* get_or_fetch and get_or_fetch_async.                                    *)

(* The fast path returns at once, or panics if the cache is poisoned.      *)
Begin(c) ==
  /\ At(c, "idle") /\ calls[c] < MaxCalls
  /\ calls' = [calls EXCEPT ![c] = @ + 1]
  /\ Becomes(c, IF Cached \/ wrecked THEN "idle" ELSE "waiting")
  /\ UNCHANGED <<now, cache, panics, holder, answers>>

Free(c) == holder[Kind(c)] = Nobody

Acquire(c) ==
  /\ At(c, "waiting") /\ Free(c)
  /\ ~(c \in Threads /\ poisoned)
  /\ holder' = [holder EXCEPT ![Kind(c)] = c]
  /\ Becomes(c, "checking")
  /\ UNCHANGED <<now, cache, panics, answers, calls>>

(* lock().unwrap() panics in every thread after the first panic.           *)
AcquirePoisoned(c) ==
  /\ At(c, "waiting") /\ Free(c)
  /\ c \in Threads /\ poisoned
  /\ Becomes(c, "idle")
  /\ UNCHANGED <<now, cache, panics, holder, answers, calls>>

MutantRecheck(c) ==
  /\ At(c, "checking")
  /\ Becomes(c, "fetching")
  /\ UNCHANGED <<now, cache, panics, holder, answers, calls>>

(* "Double-check after acquiring lock (another thread may have fetched)"   *)
Recheck(c) ==
  /\ At(c, "checking")
  /\ \/ Cached /\ Becomes(c, "idle") /\ Frees(c) /\ UNCHANGED poisoned
     \/ wrecked /\ Becomes(c, "idle") /\ Frees(c) /\ Poisons(c)
     \/ /\ ~Cached /\ ~wrecked
        /\ Becomes(c, "fetching") /\ UNCHANGED <<holder, poisoned>>
  /\ UNCHANGED <<now, cache, wrecked, answers, calls>>

(* External: the endpoint issues a token.                                  *)
Issue(c) ==
  /\ At(c, "fetching")
  /\ \E lifetime \in Lifetimes : answered' = [answered EXCEPT ![c] = lifetime]
  /\ issued' = [issued EXCEPT ![c] = now]
  /\ Becomes(c, "fetched")
  /\ UNCHANGED <<now, cache, panics, holder, calls>>

MutantFails(c) ==
  /\ At(c, "fetching")
  /\ Becomes(c, "idle")
  /\ UNCHANGED <<now, cache, panics, holder, answers, calls>>

(* An error of the endpoint, or a time-out, is returned.                   *)
Fails(c) ==
  /\ At(c, "fetching")
  /\ Becomes(c, "idle") /\ Frees(c)
  /\ UNCHANGED <<now, cache, panics, answers, calls>>

Panics(c) ==
  /\ c \in Threads /\ At(c, "fetching")
  /\ Becomes(c, "idle") /\ Frees(c) /\ Poisons(c)
  /\ UNCHANGED <<now, cache, wrecked, answers, calls>>

(* A task is dropped where it awaits: the lock, or the fetch.              *)
Dropped(c) ==
  /\ c \in Tasks
  /\ \/ At(c, "waiting") /\ UNCHANGED holder
     \/ (At(c, "fetching") \/ At(c, "fetched")) /\ Frees(c)
  /\ Becomes(c, "idle") /\ Forgets(c)
  /\ UNCHANGED <<now, cache, panics, calls>>

MutantSubtracts(lifetime) == lifetime - Buffer

MutantSaturatingSub(lifetime) == IF lifetime < Buffer THEN lifetime ELSE lifetime - Buffer

SaturatingSub(lifetime) == IF lifetime < Buffer THEN 0 ELSE lifetime - Buffer

(* How long a fetched token lives if its answer does not say.              *)
Effective(lifetime) == IF lifetime > 0 THEN lifetime ELSE DefaultLifetime

(* Instant::now() + Duration::from_secs(..) panics past the last instant.  *)
Overflows(lifetime) == lifetime > 0 /\ now + SaturatingSub(lifetime) > Horizon

(* set_token panics on a poisoned cache, or on the expiry while it holds   *)
(* the cache, which nobody reads after that.                               *)
SetPanics(lifetime) == wrecked \/ Overflows(lifetime)

(* The fetched token is stored, and returned whatever it is.               *)
Store(c) ==
  /\ At(c, "fetched")
  /\ LET lifetime == Effective(answered[c])
     IN  \/ /\ SetPanics(lifetime)
            /\ wrecked' = TRUE /\ Poisons(c)
            /\ UNCHANGED cache
         \/ /\ ~SetPanics(lifetime)
            /\ stored' = Kind(c)
            /\ expires' = now + SaturatingSub(lifetime)
            /\ deadline' = issued[c] + lifetime
            /\ UNCHANGED panics
  /\ Becomes(c, "idle") /\ Frees(c) /\ Forgets(c)
  /\ UNCHANGED <<now, calls>>

-----------------------------------------------------------------------------
(* The application, and time.                                              *)

(* set_token: 0 stands for a token that does not expire.                   *)
SetToken(lifetime) ==
  /\ \/ /\ SetPanics(lifetime)
        /\ wrecked' = TRUE /\ UNCHANGED cache
     \/ /\ ~SetPanics(lifetime) /\ lifetime > 0
        /\ stored' = "user"
        /\ expires' = now + SaturatingSub(lifetime)
        /\ deadline' = now + lifetime
        /\ UNCHANGED wrecked
     \/ /\ ~SetPanics(lifetime) /\ lifetime = 0
        /\ stored' = "forever" /\ expires' = 0 /\ deadline' = 0
        /\ UNCHANGED wrecked
  /\ UNCHANGED <<now, poisoned, holder, pc, answers, calls>>

(* reset, which panics too on a poisoned cache.                            *)
Reset ==
  /\ ~wrecked
  /\ stored' = "nothing" /\ expires' = 0 /\ deadline' = 0
  /\ UNCHANGED <<now, panics, holder, pc, answers, calls>>

(* An answer travels, and is stored, within MaxDelay.                      *)
Tick ==
  /\ now < MaxTime
  /\ \A c \in Callers : At(c, "fetched") => now < issued[c] + MaxDelay
  /\ now' = now + 1
  /\ UNCHANGED <<cache, panics, holder, pc, answers, calls>>

Fetch(c) == Issue(c) \/ Fails(c) \/ Panics(c)
Own(c) == Acquire(c) \/ AcquirePoisoned(c) \/ Recheck(c) \/ Store(c)
Call(c) == Begin(c) \/ Own(c) \/ Fetch(c) \/ Dropped(c)

Next ==
  \/ \E c \in Callers : Call(c)
  \/ \E lifetime \in Lifetimes : SetToken(lifetime)
  \/ Reset
  \/ Tick

Spec == Init /\ [][Next]_vars

(* A fetch ends, by its time-out at the latest, and a caller that can take *)
(* its next step does: nothing is assumed of who gets a contended lock.     *)
FairSpec == Spec /\ \A c \in Callers : WF_vars(Own(c)) /\ WF_vars(Fetch(c))

-----------------------------------------------------------------------------
(* Properties.                                                             *)

Busy == {"checking", "fetching", "fetched"}

(* Every variable has its type.                                            *)
TypeOK ==
  /\ now \in Nat
  /\ stored \in {"nothing", "thread", "task", "user", "forever"}
  /\ expires \in Nat /\ deadline \in Nat
  /\ wrecked \in BOOLEAN /\ poisoned \in BOOLEAN
  /\ holder \in [Kinds -> Callers \union {Nobody}]
  /\ pc \in [Callers -> {"idle", "waiting"} \union Busy]
  /\ answered \in [Callers -> Nat] /\ issued \in [Callers -> Nat]
  /\ calls \in [Callers -> Nat]

(* "It uses a double-checked locking pattern to [ensure] only one thread    *)
(* fetches a new token at a time": of one kind of callers one at most       *)
(* fetches, and not while a token one of its kind has stored is handed out. *)
(* A thread and a task may fetch at the same time.                          *)
FetchedOnce ==
  \A c, d \in Callers :
    pc[c] \in Busy /\ pc[d] \in Busy /\ Kind(c) = Kind(d) =>
      /\ c = d
      /\ pc[c] # "checking" => ~(Cached /\ stored = Kind(c))

(* "A buffer is applied to refresh before actual expiration": the service  *)
(* still accepts what the cache hands out, for longer than the buffer less  *)
(* the time the answer may have travelled.                                  *)
HandsOutLive ==
  Cached /\ stored # "forever" => now + (Buffer - MaxDelay) < deadline

(* Every call ends: no fetch that fails, is dropped or panics, and no       *)
(* expiry that cannot be represented, keeps the lock from the next caller.  *)
CallEnds == \A c \in Callers : pc[c] # "idle" ~> pc[c] = "idle"
=============================================================================

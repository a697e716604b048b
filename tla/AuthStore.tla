------------------------------ MODULE AuthStore ------------------------------
(***************************************************************************)
(* agenttrunk auth start | complete | refresh | cancel | logout, and the   *)
(* token exchange that precedes every API command (cli/auth.ts, and the    *)
(* registration client of sdk/agent-auth.ts).  Invocations share one       *)
(* credential store guarded by credentials.lock; the authorization server  *)
(* mints claims and identities and rotates an identity when it refreshes.  *)
(*                                                                         *)
(* A credential is a claim token or an identity (an assertion with its     *)
(* refresh token), tagged with the resource and the issuer it is good for. *)
(*                                                                         *)
(* MutantX is a plausible slip in X; the specification never uses it.      *)
(***************************************************************************)
EXTENDS Naturals, FiniteSets

CONSTANTS
  Procs,          \* CLI invocations that may run at the same time
  Resources,      \* API origins (AGENTTRUNK_API_URL)
  Issuers,        \* authorization servers
  FirstIssuer,    \* FirstIssuer[r]: the issuer r names at the start
  MaxRequests,    \* bound on the requests in flight
  MaxMinted,      \* bound on the credentials the issuers mint
  MaxFaults,      \* bound on crashes, failed renames and changes of issuer
  None,           \* no issuer, credential, resource, answer or sender
  NoFile          \* credentials.json does not exist

ASSUME AuthAssumption ==
  /\ Procs \intersect {"free", "stale"} = {}
  /\ FirstIssuer \in [Resources -> Issuers]
  /\ MaxRequests \in Nat /\ MaxMinted \in Nat /\ MaxFaults \in Nat
  /\ None \notin Procs \union Resources \union Issuers

Credentials == [kind : {"claim", "identity"}, resource : Resources,
                issuer : Issuers, n : 1 .. MaxMinted]
\* What credentials.json holds: a stored credential comes with its issuer.
States == {state \in [resource : Resources, issuer : Issuers \union {None},
                       cred : Credentials \union {None}] :
             state.cred # None => state.issuer # None}

ASSUME NothingAssumption == None \notin Credentials /\ NoFile \notin States

VARIABLES
  file,      \* credentials.json
  temps,     \* credentials-<uuid>.tmp files that dead runs left behind
  lock,      \* credentials.lock: "free", its owner, or "stale"
  cli,       \* the state of each CLI invocation
  issuerOf,  \* the issuer a resource names in its discovery document
  requests,  \* requests to the issuers that have not been answered
  minted,    \* credentials minted so far
  open,      \* claims that can still be completed
  live,      \* identities whose refresh token is still good
  faults,    \* crashes, failed renames and changes of issuer so far
  doubtful   \* history: identities whose rotation a run has given up

vars == <<file, temps, lock, cli, issuerOf, requests, minted, open, live,
          faults, doubtful>>

Commands == {"start", "complete", "refresh", "cancel", "logout", "exchange"}
Unlocked == {"idle", "discover", "lock"}
Locked == {"read", "rediscover", "decide", "code", "await", "attempt", "write",
           "rename", "done", "release"}

\* issuer: what the run discovered.  read: the state it read under the lock.
\* out: the state it is about to save.
Run == [pc : Unlocked \union Locked, cmd : Commands \union {"none"},
        resource : Resources \union {None}, issuer : Issuers \union {None},
        read : States \union {NoFile}, out : States \union {NoFile}]

Idle == [pc |-> "idle", cmd |-> "none", resource |-> None, issuer |-> None,
         read |-> NoFile, out |-> NoFile]

\* cred: what is presented.  answer: the credential of the reply.
Requests == [by : Procs \union {None}, op : {"claim", "attempt", "complete",
             "refresh", "exchange"}, to : Issuers, resource : Resources,
             cred : Credentials \union {None},
             answer : Credentials \union {None}, served : BOOLEAN]

HoldsAny(state) == state # NoFile /\ state.cred # None
Holds(state, kind) == HoldsAny(state) /\ state.cred.kind = kind

At(p, pc) == cli[p].pc = pc
Becomes(p, run) == cli' = [cli EXCEPT ![p] = run]

\* Nothing changes but the run itself.
Unmoved == UNCHANGED <<file, temps, lock, issuerOf, requests, minted, open,
                       live, faults, doubtful>>

Init ==
  /\ file = NoFile
  /\ temps = {}
  /\ lock = "free"
  /\ cli = [p \in Procs |-> Idle]
  /\ issuerOf = FirstIssuer
  /\ requests = {}
  /\ minted = 0
  /\ open = {}
  /\ live = {}
  /\ faults = 0
  /\ doubtful = {}

----------------------------------------------------------------------------
(* Before the lock.                                                        *)

\* logout, cancel and the exchange go straight to the store.
Begin(p, cmd, resource) ==
  /\ At(p, "idle")
  /\ LET first == IF cmd \in {"logout", "cancel", "exchange"}
                  THEN "lock" ELSE "discover"
     IN  Becomes(p, [Idle EXCEPT !.pc = first, !.cmd = cmd,
                                 !.resource = resource])
  /\ Unmoved

\* AgentRegistration.discover: before the lock for an auth command, under it
\* for the exchange.
Discover(p) ==
  /\ cli[p].pc \in {"discover", "rediscover"}
  /\ LET next == IF At(p, "discover") THEN "lock" ELSE "decide"
     IN  Becomes(p, [cli[p] EXCEPT !.pc = next,
                                   !.issuer = issuerOf[cli[p].resource]])
  /\ Unmoved

----------------------------------------------------------------------------
(* Under the lock: withState.                                              *)

MutantLockAvailable(p) == lock # p

LockAvailable(p) == lock = "free"

\* open(lockPath, "wx")
AcquireLock(p) ==
  /\ At(p, "lock")
  /\ LockAvailable(p)
  /\ lock' = p
  /\ Becomes(p, [cli[p] EXCEPT !.pc = "read"])
  /\ UNCHANGED <<file, temps, issuerOf, requests, minted, open, live, faults,
                 doubtful>>

SameResource(p, state) == state # NoFile => state.resource = cli[p].resource

\* readState.  The exchange returns at once when there is no identity, and
\* refuses another origin before it discovers anything.
Read(p) ==
  /\ At(p, "read")
  /\ IF cli[p].cmd # "exchange"
     THEN Becomes(p, [cli[p] EXCEPT !.pc = "decide", !.read = file])
     ELSE IF ~Holds(file, "identity")
     THEN Becomes(p, [cli[p] EXCEPT !.pc = "release"])
     ELSE /\ SameResource(p, file)
          /\ Becomes(p, [cli[p] EXCEPT !.pc = "rediscover", !.read = file])
  /\ Unmoved

MutantSameIssuer(p) == TRUE

\* "stored credentials will not be sent to a new issuer"
SameIssuer(p) ==
  HoldsAny(cli[p].read) => cli[p].read.issuer = cli[p].issuer

Decides(p, cmd) == /\ At(p, "decide") /\ cli[p].cmd = cmd
                   /\ SameResource(p, cli[p].read)
DecidesOnline(p, cmd) == Decides(p, cmd) /\ SameIssuer(p)

\* What save({resource}) and save({resource, issuer, ...}) write.
Cleared(p) == [resource |-> cli[p].resource, issuer |-> None, cred |-> None]

MutantStored(p, cred) ==
  [resource |-> cli[p].resource, issuer |-> None, cred |-> cred]

Stored(p, cred) ==
  [resource |-> cli[p].resource, issuer |-> cli[p].issuer, cred |-> cred]

Logout(p) ==
  /\ Decides(p, "logout")
  /\ Becomes(p, [cli[p] EXCEPT !.pc = "write", !.out = Cleared(p)])
  /\ Unmoved

MutantCancellable(p) == TRUE

\* "Cannot cancel a completed registration"
Cancellable(p) == ~Holds(cli[p].read, "identity")

Cancel(p) ==
  /\ Decides(p, "cancel")
  /\ Cancellable(p)
  /\ Becomes(p, [cli[p] EXCEPT !.pc = "write", !.out = Cleared(p)])
  /\ Unmoved

Sends(p, op, cred) ==
  /\ Cardinality(requests) < MaxRequests
  /\ requests' = requests \union
       {[by |-> p, op |-> op, to |-> cli[p].issuer,
         resource |-> cli[p].resource, cred |-> cred, answer |-> None,
         served |-> FALSE]}
  /\ Becomes(p, [cli[p] EXCEPT !.pc = "await"])
  /\ UNCHANGED <<file, temps, lock, issuerOf, minted, open, live, faults,
                 doubtful>>

\* start with an identity or a pending claim only reports it.
Reports(p) ==
  /\ DecidesOnline(p, "start")
  /\ HoldsAny(cli[p].read)
  /\ Becomes(p, [cli[p] EXCEPT !.pc = "release"])
  /\ Unmoved

Start(p) ==
  /\ DecidesOnline(p, "start")
  /\ ~HoldsAny(cli[p].read)
  /\ Sends(p, "claim", None)

\* "Use the initial attempt when supplied": otherwise ask for one.
Attempt(p) ==
  /\ At(p, "attempt")
  /\ Sends(p, "attempt", cli[p].out.cred)

\* complete waits for the code on stdin and keeps the lock meanwhile.
AskCode(p) ==
  /\ DecidesOnline(p, "complete")
  /\ Holds(cli[p].read, "claim")
  /\ Becomes(p, [cli[p] EXCEPT !.pc = "code"])
  /\ Unmoved

Refresh(p) ==
  /\ DecidesOnline(p, "refresh")
  /\ Holds(cli[p].read, "identity")
  /\ Sends(p, "refresh", cli[p].read.cred)

Exchange(p) ==
  /\ DecidesOnline(p, "exchange")
  /\ Sends(p, "exchange", cli[p].read.cred)

\* save: a temporary file, then a rename over credentials.json.
WriteTemporary(p) ==
  /\ At(p, "write")
  /\ Becomes(p, [cli[p] EXCEPT !.pc = "rename"])
  /\ Unmoved

RenameTemporary(p) ==
  /\ At(p, "rename")
  /\ file' = cli[p].out
  /\ Becomes(p, [cli[p] EXCEPT !.pc = "done"])
  /\ UNCHANGED <<temps, lock, issuerOf, requests, minted, open, live, faults,
                 doubtful>>

\* finally: close and unlink the lock.
Release(p) ==
  /\ cli[p].pc \in {"done", "release"}
  /\ lock' = "free"
  /\ Becomes(p, Idle)
  /\ UNCHANGED <<file, temps, issuerOf, requests, minted, open, live, faults,
                 doubtful>>

----------------------------------------------------------------------------
(* How a run fails.                                                        *)

\* The issuer may still act on a request whose sender has given up; an answer
\* that nobody waits for is gone.
Orphaned(p) == {q \in requests : q.by # p} \union
  {[q EXCEPT !.by = None] : q \in {r \in requests : r.by = p /\ ~r.served}}

\* The run has sent a refresh and not saved what comes of it.
Rotates(p) ==
  cli[p].cmd = "refresh" /\ cli[p].pc \in {"await", "write", "rename"}

\* The run ends with a request unanswered, or an answer unsaved.
Abandons(p) ==
  /\ requests' = Orphaned(p)
  /\ temps' = IF At(p, "rename") THEN temps \union {cli[p].out} ELSE temps
  /\ doubtful' = IF Rotates(p)
                 THEN doubtful \union {cli[p].read.cred} ELSE doubtful

MutantNextAfterFailure(pc) ==
  IF pc \in Locked \ {"await"} THEN "release" ELSE "idle"

NextAfterFailure(pc) == IF pc \in Locked THEN "release" ELSE "idle"

\* A refusal, a timeout or a failed call.  There is none at the prompt.
Abort(p) ==
  /\ cli[p].pc \notin {"idle", "code", "done", "release"}
  /\ IF At(p, "rename") THEN faults < MaxFaults /\ faults' = faults + 1
                        ELSE UNCHANGED faults
  /\ Abandons(p)
  /\ Becomes(p, [Idle EXCEPT !.pc = NextAfterFailure(cli[p].pc)])
  /\ UNCHANGED <<file, lock, issuerOf, minted, open, live>>

\* The process dies between two steps: the lock file stays behind.
Crash(p) ==
  /\ ~At(p, "idle")
  /\ faults < MaxFaults
  /\ faults' = faults + 1
  /\ lock' = IF lock = p THEN "stale" ELSE lock
  /\ Abandons(p)
  /\ Becomes(p, Idle)
  /\ UNCHANGED <<file, issuerOf, minted, open, live>>

----------------------------------------------------------------------------
(* The human and the operator (external).                                  *)

GiveCode(p) ==
  /\ At(p, "code")
  /\ Sends(p, "complete", cli[p].read.cred)

\* The code is malformed: complete throws before it sends anything.
GiveBadCode(p) ==
  /\ At(p, "code")
  /\ Becomes(p, [Idle EXCEPT !.pc = "release"])
  /\ Unmoved

\* "confirm no auth process is running before removing that exact lock"
RemoveStaleLock ==
  /\ lock = "stale"
  /\ lock' = "free"
  /\ UNCHANGED <<file, temps, cli, issuerOf, requests, minted, open, live,
                 faults, doubtful>>

----------------------------------------------------------------------------
(* The issuers (external).                                                 *)

Mint(q, kind) == [kind |-> kind, resource |-> q.resource, issuer |-> q.to,
                  n |-> minted + 1]

Served(q, answer) ==
  requests' = (requests \ {q}) \union
                {r \in {[q EXCEPT !.served = TRUE, !.answer = answer]} : r.by # None}

\* A claim is opened, completed once, and an identity is refreshed once: the
\* refresh token rotates.
ServeClaim(q) ==
  /\ q.op = "claim" /\ minted < MaxMinted
  /\ open' = open \union {Mint(q, "claim")}
  /\ minted' = minted + 1
  /\ Served(q, Mint(q, "claim"))
  /\ UNCHANGED live

ServeComplete(q) ==
  /\ q.op = "complete" /\ minted < MaxMinted
  /\ q.cred \in open
  /\ open' = open \ {q.cred}
  /\ live' = live \union {Mint(q, "identity")}
  /\ minted' = minted + 1
  /\ Served(q, Mint(q, "identity"))

ServeRefresh(q) ==
  /\ q.op = "refresh" /\ minted < MaxMinted
  /\ q.cred \in live
  /\ live' = (live \ {q.cred}) \union {Mint(q, "identity")}
  /\ minted' = minted + 1
  /\ Served(q, Mint(q, "identity"))
  /\ UNCHANGED open

ServeOther(q) ==
  /\ q.op \in {"attempt", "exchange"}
  /\ Served(q, None)
  /\ UNCHANGED <<open, live, minted>>

Serve(q) ==
  /\ ~q.served
  /\ ServeClaim(q) \/ ServeComplete(q) \/ ServeRefresh(q) \/ ServeOther(q)
  /\ UNCHANGED <<file, temps, lock, cli, issuerOf, faults, doubtful>>

MutantToSave(q, p) ==
  IF q.op = "refresh" THEN cli[p].read ELSE Stored(p, q.answer)

\* What the client makes of an answer: the state to save, if any.
ToSave(q, p) ==
  IF q.op \in {"attempt", "exchange"} THEN cli[p].out ELSE Stored(p, q.answer)

\* A claim may come with its first attempt or without.
AfterAnswer(op) == IF op = "exchange" THEN {"release"}
                   ELSE IF op = "claim" THEN {"attempt", "write"} ELSE {"write"}

Answer(q) ==
  /\ q.served
  /\ requests' = requests \ {q}
  /\ \E next \in AfterAnswer(q.op) :
       Becomes(q.by, [cli[q.by] EXCEPT !.pc = next, !.out = ToSave(q, q.by)])
  /\ UNCHANGED <<file, temps, lock, issuerOf, minted, open, live, faults,
                 doubtful>>

\* The request is refused, and changes nothing.
Reject(q) ==
  /\ ~q.served
  /\ requests' = requests \ {q}
  /\ IF q.by = None THEN UNCHANGED cli
     ELSE Becomes(q.by, [Idle EXCEPT !.pc = "release"])
  /\ UNCHANGED <<file, temps, lock, issuerOf, minted, open, live, faults,
                 doubtful>>

\* A resource names another issuer from now on.
ChangeIssuer(r, i) ==
  /\ issuerOf[r] # i
  /\ faults < MaxFaults
  /\ faults' = faults + 1
  /\ issuerOf' = [issuerOf EXCEPT ![r] = i]
  /\ UNCHANGED <<file, temps, lock, cli, requests, minted, open, live, doubtful>>

----------------------------------------------------------------------------
Step(p) ==
  \/ \E cmd \in Commands, r \in Resources : Begin(p, cmd, r)
  \/ Discover(p) \/ AcquireLock(p) \/ Read(p)
  \/ Logout(p) \/ Cancel(p) \/ Reports(p) \/ Start(p) \/ Attempt(p)
  \/ AskCode(p) \/ Refresh(p) \/ Exchange(p)
  \/ WriteTemporary(p) \/ RenameTemporary(p) \/ Release(p) \/ Abort(p)

Human ==
  \/ \E p \in Procs : GiveCode(p) \/ GiveBadCode(p)
  \/ RemoveStaleLock

Provider ==
  \/ \E q \in requests : Serve(q) \/ Answer(q) \/ Reject(q)
  \/ \E r \in Resources, i \in Issuers : ChangeIssuer(r, i)

Next ==
  \/ \E p \in Procs : Step(p) \/ Crash(p)
  \/ Human
  \/ Provider

Spec == Init /\ [][Next]_vars

\* Each request is aborted after 15 s, so a running command moves on by
\* itself, except at the prompt.
Fairness == \A p \in Procs : WF_vars(~At(p, "idle") /\ Step(p))

FairSpec == Spec /\ Fairness

----------------------------------------------------------------------------
(* Properties.                                                             *)

TypeOK ==
  /\ file \in States \union {NoFile}
  /\ temps \subseteq States
  /\ lock \in Procs \union {"free", "stale"}
  /\ cli \in [Procs -> Run]
  /\ issuerOf \in [Resources -> Issuers]
  /\ requests \subseteq Requests
  /\ minted \in 0 .. MaxMinted
  /\ open \subseteq Credentials
  /\ live \subseteq Credentials
  /\ faults \in Nat
  /\ doubtful \subseteq Credentials

\* What a run decides to replace is still what is in the store when it
\* replaces it: no command overwrites an identity or a claim it has not seen,
\* although it waits for the issuer, or for a human, in between.
Deciding == {"rediscover", "decide", "code", "await", "attempt", "write", "rename"}
ReadIsCurrent == \A p \in Procs : cli[p].pc \in Deciding => cli[p].read = file

\* A credential is presented only to the issuer that minted it and only for
\* the origin it was minted for, although discovery runs before the lock is
\* taken and may name another issuer on every call.
SentHome ==
  \A q \in requests : q.cred # None =>
    q.cred.issuer = q.to /\ q.cred.resource = q.resource

\* The stored identity is one the issuer still honours, unless its rotation
\* is under way or a run died or gave up between sending it and saving the
\* answer ("do not retry a pending credential rotation").
Rotating == {cli[p].read.cred : p \in {q \in Procs : Rotates(q)}}
StoredIsLive ==
  Holds(file, "identity") => file.cred \in live \union doubtful \union Rotating

\* A completed registration leaves the store by logout only: start and cancel
\* never drop it, and refresh replaces it by its successor.
RegistrationKept ==
  [][Holds(file, "identity") /\ ~Holds(file', "identity") =>
       \E p \in Procs : lock = p /\ cli[p].cmd = "logout"]_vars

\* Every command gives the store up again, unless it waits for its human.
StoreReleased == \A p \in Procs : lock = p ~> lock # p \/ At(p, "code")

\* docs/setup.md: "--yes clears this CLI's stored identity and pending claim".
LogoutClears ==
  \A p \in Procs : At(p, "done") /\ cli[p].cmd = "logout" =>
    \A state \in temps \union {file} : state.cred = None
==============================================================================

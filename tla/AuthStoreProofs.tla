--------------------------- MODULE AuthStoreProofs ---------------------------
(* Proofs about AuthStore, for any number of commands, origins, issuers,    *)
(* credentials and faults.                                                  *)
EXTENDS AuthStore, TLAPS

USE AuthAssumption, NothingAssumption

\* A stored credential is good for the issuer and the origin stored with it.
StateHome(state) ==
  HoldsAny(state) =>
    state.cred.issuer = state.issuer /\ state.cred.resource = state.resource

\* A run may present the credential of this state.
Presentable(r, state) ==
  /\ HoldsAny(state)
  /\ state.cred.issuer = r.issuer /\ state.cred.resource = r.resource

\* The run has discovered the issuer it talks to.
Online(r) ==
  \/ r.pc \in {"code", "await", "attempt"}
  \/ r.pc = "decide" /\ r.cmd \notin {"logout", "cancel"}
  \/ r.pc \in {"lock", "read"} /\ r.cmd \in {"start", "complete", "refresh"}

RunHome(r) ==
  /\ StateHome(r.read) /\ StateHome(r.out)
  /\ r.pc \notin {"idle", "release"} => r.resource # None /\ r.cmd # "none"
  /\ Online(r) => r.issuer # None
  /\ r.pc = "rediscover" => r.cmd = "exchange"
  /\ r.cmd = "exchange" /\ r.pc \in {"rediscover", "decide"} => HoldsAny(r.read)
  /\ r.cmd = "refresh" /\ r.pc \in {"code", "attempt", "await", "write", "rename"} =>
       HoldsAny(r.read)
  /\ r.pc = "code" => Presentable(r, r.read)
  /\ r.pc = "attempt" => Presentable(r, r.out)
  /\ r.pc \in {"write", "rename"} => r.out # NoFile

Owned == \A p \in Procs : cli[p].pc \in Locked <=> lock = p

\* The requests that are answered with a new credential.
Minting == {"claim", "complete", "refresh"}

RequestHome ==
  /\ SentHome
  /\ \A q \in requests :
       /\ q.answer # None =>
            q.answer.issuer = q.to /\ q.answer.resource = q.resource
       /\ q.served /\ q.op \in Minting => q.answer # None
       /\ q.by # None =>
            /\ At(q.by, "await")
            /\ cli[q.by].issuer = q.to /\ cli[q.by].resource = q.resource
            /\ q.op = "attempt" => cli[q.by].out # NoFile
  /\ \A q, r \in requests : q.by # None /\ q.by = r.by => q = r

AuthInv ==
  /\ TypeOK
  /\ Owned
  /\ ReadIsCurrent
  /\ StateHome(file)
  /\ \A p \in Procs : RunHome(cli[p])
  /\ RequestHome

LEMMA InitAuth == Init => AuthInv
BY DEF Init, AuthInv, TypeOK, Owned, ReadIsCurrent, StateHome, HoldsAny,
     RunHome, Online, RequestHome, SentHome, Run, Idle, Unlocked, Locked, Deciding

\* A step of one run that sends nothing keeps the invariant if the run stays
\* well-formed, the lock follows it, and only its owner changes the store.
LEMMA AuthRunStep ==
  ASSUME AuthInv, NEW p \in Procs, NEW r \in Run, Becomes(p, r), RunHome(r),
         ~At(p, "await"), UNCHANGED <<requests, minted, open, live>>,
         r.pc \in Locked <=> lock' = p,
         \A q \in Procs \ {p} : lock' = q <=> lock = q,
         lock' \in Procs \union {"free", "stale"},
         r.pc \in Deciding => r.read = file',
         \/ file' = file
         \/ lock = p /\ StateHome(file') /\ file' \in States \union {NoFile},
         temps' \subseteq States, issuerOf' \in [Resources -> Issuers],
         faults' \in Nat, doubtful' \subseteq Credentials
  PROVE  AuthInv'
<1>1. /\ cli' \in [Procs -> Run]
      /\ cli'[p] = r
      /\ \A q \in Procs \ {p} : cli'[q] = cli[q]
  BY DEF Becomes, AuthInv, TypeOK
<1>2. TypeOK'
  BY <1>1 DEF AuthInv, TypeOK
<1>3. Owned'
  BY <1>1 DEF AuthInv, Owned
<1>4. ReadIsCurrent'
  <2> SUFFICES ASSUME NEW q \in Procs, cli'[q].pc \in Deciding
               PROVE  cli'[q].read = file'
    BY DEF ReadIsCurrent
  <2>1. CASE q = p
    BY <1>1, <2>1
  <2>2. CASE q # p
    <3>1. lock = q
      BY <1>1, <2>2 DEF AuthInv, Owned, Deciding, Locked
    <3> QED BY <1>1, <2>2, <3>1 DEF AuthInv, ReadIsCurrent
  <2> QED BY <2>1, <2>2
<1>5. StateHome(file') /\ \A q \in Procs : RunHome(cli'[q])
  BY <1>1 DEF AuthInv
<1>6. RequestHome'
  BY <1>1 DEF AuthInv, RequestHome, SentHome, TypeOK, Requests, At
<1>7. StateHome(file)' /\ \A q \in Procs : RunHome(cli[q])'
  BY <1>5 DEF StateHome, HoldsAny, RunHome, Online, Presentable
<1> QED BY <1>2, <1>3, <1>4, <1>6, <1>7 DEF AuthInv

\* The case of a step that changes nothing but the run.
LEMMA AuthQuietStep ==
  ASSUME AuthInv, NEW p \in Procs, NEW r \in Run, Becomes(p, r), RunHome(r),
         ~At(p, "await"), Unmoved,
         r.pc \in Locked <=> cli[p].pc \in Locked,
         r.pc \in Deciding => r.read = file
  PROVE  AuthInv'
BY AuthRunStep DEF Unmoved, AuthInv, TypeOK, Owned

LEMMA BeginStep ==
  ASSUME AuthInv, NEW p \in Procs, NEW cmd \in Commands, NEW o \in Resources,
         Begin(p, cmd, o)
  PROVE  AuthInv'
<1> DEFINE first == IF cmd \in {"logout", "cancel", "exchange"}
                    THEN "lock" ELSE "discover"
           r == [Idle EXCEPT !.pc = first, !.cmd = cmd, !.resource = o]
<1>1. first \in {"lock", "discover"}
      /\ (first = "lock" => cmd \notin {"start", "complete", "refresh"})
  OBVIOUS
<1>2. Becomes(p, r) /\ Unmoved /\ At(p, "idle")
  BY DEF Begin
<1> HIDE DEF first
<1>3. /\ r \in Run
      /\ r.pc = first /\ r.cmd = cmd /\ r.resource = o
      /\ r.read = NoFile /\ r.out = NoFile
  BY <1>1 DEF Idle, Run, Unlocked
<1> HIDE DEF r
<1>4. RunHome(r)
  BY <1>1, <1>3 DEF RunHome, StateHome, HoldsAny, Online, Commands
<1> QED BY <1>1, <1>2, <1>3, <1>4, AuthQuietStep DEF At, Locked, Deciding

LEMMA DiscoverStep ==
  ASSUME AuthInv, NEW p \in Procs, Discover(p) PROVE AuthInv'
<1> DEFINE c == cli[p]
           next == IF At(p, "discover") THEN "lock" ELSE "decide"
           r == [c EXCEPT !.pc = next, !.issuer = issuerOf[c.resource]]
<1>1. /\ c \in Run /\ RunHome(c) /\ c.pc \in {"discover", "rediscover"}
      /\ c.pc \in Deciding => c.read = file
  BY DEF AuthInv, TypeOK, Discover, ReadIsCurrent
<1>2. issuerOf[c.resource] \in Issuers
  BY <1>1 DEF AuthInv, TypeOK, RunHome, Run
<1>3. next = IF c.pc = "discover" THEN "lock" ELSE "decide"
  BY DEF At
<1>4. Becomes(p, r) /\ Unmoved
  BY DEF Discover
<1> HIDE DEF c, next
<1>5. /\ r \in Run
      /\ r.pc = next /\ r.cmd = c.cmd /\ r.resource = c.resource
      /\ r.issuer \in Issuers /\ r.read = c.read /\ r.out = c.out
  BY <1>1, <1>2, <1>3 DEF Run, Unlocked, Locked
<1> HIDE DEF r
<1>6. RunHome(r)
  BY <1>1, <1>3, <1>5 DEF RunHome
<1> QED BY <1>1, <1>3, <1>4, <1>5, <1>6, AuthQuietStep DEF At, Locked, Deciding, c

LEMMA AcquireStep ==
  ASSUME AuthInv, NEW p \in Procs, AcquireLock(p) PROVE AuthInv'
<1> DEFINE c == cli[p]
           r == [c EXCEPT !.pc = "read"]
<1>1. c \in Run /\ RunHome(c) /\ c.pc = "lock"
  BY DEF AuthInv, TypeOK, AcquireLock, At
<1>2. /\ lock = "free" /\ lock' = p /\ Becomes(p, r) /\ ~At(p, "await")
      /\ UNCHANGED <<file, temps, issuerOf, requests, minted, open, live,
                     faults, doubtful>>
  BY DEF AcquireLock, LockAvailable, At
<1> HIDE DEF c
<1>3. /\ r \in Run
      /\ r.pc = "read" /\ r.cmd = c.cmd /\ r.resource = c.resource
      /\ r.issuer = c.issuer /\ r.read = c.read /\ r.out = c.out
  BY <1>1 DEF Run, Locked
<1> HIDE DEF r
<1>4. RunHome(r)
  BY <1>1, <1>3 DEF RunHome, Online
<1>5. \A q \in Procs \ {p} : lock' = q <=> lock = q
  BY <1>2
<1> QED BY <1>2, <1>3, <1>4, <1>5, AuthRunStep
        DEF AuthInv, TypeOK, Locked, Deciding

LEMMA ReadStep ==
  ASSUME AuthInv, NEW p \in Procs, Read(p) PROVE AuthInv'
<1> DEFINE c == cli[p]
           r1 == [c EXCEPT !.pc = "decide", !.read = file]
           r2 == [c EXCEPT !.pc = "release"]
           r3 == [c EXCEPT !.pc = "rediscover", !.read = file]
<1>1. /\ c \in Run /\ RunHome(c) /\ c.pc = "read"
      /\ file \in States \union {NoFile} /\ StateHome(file)
  BY DEF AuthInv, TypeOK, Read, At
<1>2. /\ \/ c.cmd # "exchange" /\ Becomes(p, r1)
         \/ Becomes(p, r2)
         \/ c.cmd = "exchange" /\ HoldsAny(file) /\ Becomes(p, r3)
      /\ Unmoved /\ ~At(p, "await")
  BY DEF Read, At, Holds
<1> HIDE DEF c
<1>3. r1 \in Run /\ r2 \in Run /\ r3 \in Run
  BY <1>1 DEF Run, Locked
<1>4. RunHome(r2) /\ (c.cmd = "exchange" /\ HoldsAny(file) => RunHome(r3))
  BY <1>1 DEF RunHome, Online, Run
<1>5. c.cmd # "exchange" => RunHome(r1)
  BY <1>1 DEF RunHome, Online, Run, Commands
<1>6. /\ r1.pc = "decide" /\ r2.pc = "release" /\ r3.pc = "rediscover"
      /\ r1.read = file /\ r3.read = file
  BY <1>1 DEF Run
<1> HIDE DEF r1, r2, r3
<1>7. ASSUME NEW r \in {r1, r2, r3}, Becomes(p, r), RunHome(r) PROVE AuthInv'
  BY <1>1, <1>2, <1>3, <1>6, <1>7, AuthQuietStep DEF Locked, Deciding, c
<1> QED BY <1>2, <1>4, <1>5, <1>7

\* logout and cancel: the state to save holds nothing.
LEMMA ClearStep ==
  ASSUME AuthInv, NEW p \in Procs, Logout(p) \/ Cancel(p) PROVE AuthInv'
<1> DEFINE c == cli[p]
           r == [c EXCEPT !.pc = "write", !.out = Cleared(p)]
<1>1. /\ c \in Run /\ RunHome(c) /\ c.pc = "decide" /\ c.read = file
      /\ Becomes(p, r) /\ Unmoved /\ c.cmd \in {"logout", "cancel"}
  BY DEF AuthInv, TypeOK, ReadIsCurrent, Deciding, Logout, Cancel, Decides, At
<1>2. Cleared(p) \in States /\ ~HoldsAny(Cleared(p))
  BY <1>1 DEF Cleared, States, HoldsAny, RunHome, Run
<1>3. /\ r \in Run
      /\ r.pc = "write" /\ r.out = Cleared(p) /\ r.read = c.read
      /\ r.resource = c.resource /\ r.cmd = c.cmd
  BY <1>1, <1>2 DEF Run, Locked
<1> HIDE DEF r
<1>4. RunHome(r)
  BY <1>1, <1>2, <1>3 DEF RunHome, StateHome, Online
<1> QED BY <1>1, <1>3, <1>4, AuthQuietStep DEF At, Locked

\* start that only reports, and complete that asks for the code.
LEMMA ReportStep ==
  ASSUME AuthInv, NEW p \in Procs, Reports(p) \/ GiveBadCode(p) PROVE AuthInv'
<1> DEFINE r == [cli[p] EXCEPT !.pc = "release"]
           s == [Idle EXCEPT !.pc = "release"]
<1>1. /\ cli[p] \in Run /\ RunHome(cli[p]) /\ cli[p].pc \in {"decide", "code"}
      /\ Becomes(p, r) \/ Becomes(p, s)
      /\ Unmoved
  BY DEF AuthInv, TypeOK, Reports, GiveBadCode, DecidesOnline, Decides, At
<1>2. r \in Run /\ r.pc = "release" /\ RunHome(r)
  BY <1>1 DEF Run, Locked, RunHome, Online
<1>3. s \in Run /\ s.pc = "release" /\ RunHome(s)
  BY DEF Run, Locked, RunHome, Online, Idle, StateHome, HoldsAny
<1> HIDE DEF r, s
<1> QED BY <1>1, <1>2, <1>3, AuthQuietStep DEF At, Locked, Deciding

LEMMA AskStep ==
  ASSUME AuthInv, NEW p \in Procs, AskCode(p) PROVE AuthInv'
<1> DEFINE c == cli[p]
           r == [c EXCEPT !.pc = "code"]
<1>1. /\ c \in Run /\ RunHome(c) /\ c.pc = "decide" /\ c.read = file
      /\ c.cmd = "complete"
      /\ HoldsAny(c.read) /\ c.read.issuer = c.issuer /\ c.read.resource = c.resource
      /\ Becomes(p, r) /\ Unmoved
  BY DEF AuthInv, TypeOK, ReadIsCurrent, Deciding, AskCode, DecidesOnline,
         Decides, At, SameResource, SameIssuer, Holds, HoldsAny
<1>2. /\ r \in Run
      /\ r.pc = "code" /\ r.out = c.out /\ r.read = c.read
      /\ r.resource = c.resource /\ r.cmd = c.cmd /\ r.issuer = c.issuer
  BY <1>1 DEF Run, Locked
<1> HIDE DEF r
<1>3. RunHome(r)
  BY <1>1, <1>2 DEF RunHome, StateHome, Online, Presentable
<1> QED BY <1>1, <1>2, <1>3, AuthQuietStep DEF At, Locked

LEMMA WriteStep ==
  ASSUME AuthInv, NEW p \in Procs, WriteTemporary(p) PROVE AuthInv'
<1> DEFINE c == cli[p]
           r == [c EXCEPT !.pc = "rename"]
<1>1. /\ c \in Run /\ RunHome(c) /\ c.pc = "write" /\ c.read = file
      /\ Becomes(p, r) /\ Unmoved
  BY DEF AuthInv, TypeOK, ReadIsCurrent, Deciding, WriteTemporary, At
<1>2. r \in Run /\ r.pc = "rename" /\ r.read = c.read /\ RunHome(r)
  BY <1>1 DEF Run, Locked, RunHome, Online
<1> HIDE DEF r
<1> QED BY <1>1, <1>2, AuthQuietStep DEF At, Locked

\* The rename replaces the store under the lock.
LEMMA SaveStep ==
  ASSUME AuthInv, NEW p \in Procs, RenameTemporary(p) PROVE AuthInv'
<1> DEFINE c == cli[p]
           r == [c EXCEPT !.pc = "done"]
<1>1. /\ c \in Run /\ RunHome(c) /\ c.pc = "rename" /\ lock = p
      /\ Becomes(p, r) /\ file' = c.out
      /\ UNCHANGED <<temps, lock, issuerOf, requests, minted, open, live,
                     faults, doubtful>>
  BY DEF AuthInv, TypeOK, Owned, Locked, RenameTemporary, At
<1>2. r \in Run /\ r.pc = "done" /\ RunHome(r)
  BY <1>1 DEF Run, Locked, RunHome, Online
<1>3. StateHome(file') /\ file' \in States \union {NoFile}
  BY <1>1 DEF RunHome, Run
<1> HIDE DEF r
<1> QED BY <1>1, <1>2, <1>3, AuthRunStep
        DEF At, Locked, Deciding, AuthInv, TypeOK

LEMMA ReleaseStep ==
  ASSUME AuthInv, NEW p \in Procs, Release(p) PROVE AuthInv'
<1>1. /\ lock = p /\ lock' = "free" /\ Becomes(p, Idle) /\ ~At(p, "await")
      /\ UNCHANGED <<file, temps, issuerOf, requests, minted, open, live,
                     faults, doubtful>>
  BY DEF AuthInv, Owned, Release, Locked, At
<1>2. Idle \in Run /\ Idle.pc = "idle" /\ RunHome(Idle)
  BY DEF Idle, Run, Unlocked, RunHome, Online, StateHome, HoldsAny
<1>3. \A q \in Procs \ {p} : lock' = q <=> lock = q
  BY <1>1
<1> QED BY <1>1, <1>2, <1>3, AuthRunStep
        DEF AuthInv, TypeOK, Locked, Deciding

\* A run presents the credential of the state it holds, or none.
LEMMA SendStep ==
  ASSUME AuthInv, NEW p \in Procs,
         NEW op \in {"claim", "attempt", "complete", "refresh", "exchange"},
         NEW cred \in Credentials \union {None},
         cli[p].pc \in {"decide", "code", "attempt"},
         cli[p].issuer # None, op = "attempt" => cli[p].out # NoFile,
         cred # None => cred.issuer = cli[p].issuer /\ cred.resource = cli[p].resource,
         cli[p].cmd = "refresh" => HoldsAny(cli[p].read),
         Sends(p, op, cred)
  PROVE  AuthInv'
<1> DEFINE c == cli[p]
           r == [c EXCEPT !.pc = "await"]
           q == [by |-> p, op |-> op, to |-> c.issuer, resource |-> c.resource,
                 cred |-> cred, answer |-> None, served |-> FALSE]
<1>1. /\ c \in Run /\ RunHome(c) /\ c.read = file /\ lock = p
  BY DEF AuthInv, TypeOK, ReadIsCurrent, Deciding, Owned, Locked
<1>2. /\ requests' = requests \union {q} /\ Becomes(p, r)
      /\ UNCHANGED <<file, temps, lock, issuerOf, minted, open, live, faults,
                     doubtful>>
  BY DEF Sends
<1>3. /\ r \in Run
      /\ r.pc = "await" /\ r.read = c.read /\ r.issuer = c.issuer
      /\ r.resource = c.resource /\ r.out = c.out /\ r.cmd = c.cmd
  BY <1>1 DEF Run, Locked
<1>4. /\ q \in Requests
      /\ q.by = p /\ q.to = c.issuer /\ q.resource = c.resource
      /\ q.cred = cred /\ q.answer = None /\ q.op = op /\ ~q.served
  BY <1>1 DEF Requests, Run, RunHome
<1> HIDE DEF q, r
<1>5. RunHome(r)
  BY <1>1, <1>3 DEF RunHome, Online
<1>6. /\ cli' \in [Procs -> Run]
      /\ cli'[p] = r
      /\ \A o \in Procs \ {p} : cli'[o] = cli[o]
  BY <1>2, <1>3 DEF Becomes, AuthInv, TypeOK
<1>7. TypeOK'
  BY <1>2, <1>4, <1>6 DEF AuthInv, TypeOK
<1>8. Owned'
  BY <1>1, <1>2, <1>3, <1>6 DEF AuthInv, Owned, Locked
<1>9. ReadIsCurrent'
  BY <1>1, <1>2, <1>3, <1>6 DEF AuthInv, ReadIsCurrent
<1>10. \A o \in requests : o.by # p
  BY DEF AuthInv, RequestHome, At
<1>11. RequestHome'
  <2>1. SentHome'
    BY <1>2, <1>4 DEF AuthInv, RequestHome, SentHome
  <2>2. ASSUME NEW o \in requests'
        PROVE  /\ o.answer # None =>
                    o.answer.issuer = o.to /\ o.answer.resource = o.resource
               /\ o.served /\ o.op \in Minting => o.answer # None
    BY <1>2, <1>4, <2>2 DEF AuthInv, RequestHome
  <2>3. ASSUME NEW o \in requests', o.by # None
        PROVE  /\ cli'[o.by].pc = "await"
               /\ cli'[o.by].issuer = o.to /\ cli'[o.by].resource = o.resource
               /\ o.op = "attempt" => cli'[o.by].out # NoFile
    <3>1. CASE o = q
      BY <1>3, <1>4, <1>6, <3>1
    <3>2. CASE o \in requests
      BY <1>6, <1>10, <2>3, <3>2 DEF AuthInv, TypeOK, Requests, RequestHome, At
    <3> QED BY <1>2, <3>1, <3>2
  <2>4. \A o, u \in requests' : o.by # None /\ o.by = u.by => o = u
    BY <1>2, <1>4, <1>10 DEF AuthInv, RequestHome
  <2> QED BY <2>1, <2>2, <2>3, <2>4 DEF RequestHome, At
<1>12. StateHome(file)' /\ \A o \in Procs : RunHome(cli[o])'
  <2>1. StateHome(file') /\ \A o \in Procs : RunHome(cli'[o])
    BY <1>2, <1>5, <1>6 DEF AuthInv
  <2> QED BY <2>1 DEF StateHome, HoldsAny, RunHome, Online, Presentable
<1> QED BY <1>7, <1>8, <1>9, <1>11, <1>12 DEF AuthInv

LEMMA SendersStep ==
  ASSUME AuthInv, NEW p \in Procs,
         Start(p) \/ Attempt(p) \/ Refresh(p) \/ Exchange(p) \/ GiveCode(p)
  PROVE  AuthInv'
<1> DEFINE c == cli[p]
<1>1. c \in Run /\ RunHome(c)
  BY DEF AuthInv, TypeOK
<1>2. ASSUME Start(p) PROVE AuthInv'
  <2>1. c.pc = "decide" /\ c.issuer # None /\ Sends(p, "claim", None) /\ c.cmd = "start"
    BY <1>1, <1>2 DEF Start, DecidesOnline, Decides, At, RunHome, Online
  <2> QED BY <2>1, SendStep
<1>3. ASSUME Attempt(p) PROVE AuthInv'
  <2>1. /\ c.pc = "attempt" /\ c.issuer # None /\ Presentable(c, c.out)
        /\ Sends(p, "attempt", c.out.cred) /\ (c.cmd = "refresh" => HoldsAny(c.read))
    BY <1>1, <1>3 DEF Attempt, At, RunHome, Online
  <2>2. c.out.cred \in Credentials
    BY <1>1, <2>1 DEF Presentable, HoldsAny, Run, States
  <2> QED BY <2>1, <2>2, SendStep DEF Presentable, HoldsAny
<1>4. ASSUME NEW op \in {"refresh", "exchange"}, DecidesOnline(p, op),
             HoldsAny(c.read), Sends(p, op, c.read.cred)
      PROVE  AuthInv'
  <2>1. /\ c.pc = "decide" /\ c.issuer # None
        /\ c.read.issuer = c.issuer /\ c.read.resource = c.resource
    BY <1>1, <1>4 DEF DecidesOnline, Decides, At, RunHome, Online, SameIssuer,
         SameResource, HoldsAny
  <2>2. c.read.cred \in Credentials
    BY <1>1, <1>4 DEF HoldsAny, Run, States
  <2>3. c.read.cred.issuer = c.issuer /\ c.read.cred.resource = c.resource
    BY <1>1, <1>4, <2>1 DEF RunHome, StateHome
  <2> QED BY <1>4, <2>1, <2>2, <2>3, SendStep
<1>5. ASSUME GiveCode(p) PROVE AuthInv'
  <2>1. /\ c.pc = "code" /\ c.issuer # None /\ Presentable(c, c.read)
        /\ Sends(p, "complete", c.read.cred) /\ (c.cmd = "refresh" => HoldsAny(c.read))
    BY <1>1, <1>5 DEF GiveCode, At, RunHome, Online
  <2>2. c.read.cred \in Credentials
    BY <1>1, <2>1 DEF Presentable, HoldsAny, Run, States
  <2> QED BY <2>1, <2>2, SendStep DEF Presentable
<1>6. Exchange(p) => HoldsAny(c.read)
  BY <1>1 DEF Exchange, DecidesOnline, Decides, At, RunHome
<1> QED BY <1>2, <1>3, <1>4, <1>5, <1>6 DEF Refresh, Exchange, Holds

LEMMA EndHome ==
  ASSUME NEW pc \in {"idle", "release"}
  PROVE  /\ [Idle EXCEPT !.pc = pc] \in Run
         /\ [Idle EXCEPT !.pc = pc].pc = pc
         /\ RunHome([Idle EXCEPT !.pc = pc])
BY DEF Idle, Run, Unlocked, Locked, RunHome, Online, StateHome, HoldsAny

\* What an ending run leaves to the issuers.
LEMMA OrphanedFacts ==
  ASSUME AuthInv, NEW p \in Procs
  PROVE  /\ Orphaned(p) \subseteq Requests
         /\ \A q \in Orphaned(p) : q.by # None => q \in requests /\ q.by # p
         /\ \A q \in Orphaned(p) : \E o \in requests :
              /\ q.cred = o.cred /\ q.to = o.to /\ q.resource = o.resource
              /\ q.answer = o.answer /\ q.op = o.op /\ q.served = o.served
<1>1. SUFFICES ASSUME NEW q \in Orphaned(p)
      PROVE  /\ q \in Requests
             /\ q.by # None => q \in requests /\ q.by # p
             /\ \E o \in requests :
                  /\ q.cred = o.cred /\ q.to = o.to /\ q.resource = o.resource
                  /\ q.answer = o.answer /\ q.op = o.op /\ q.served = o.served
  OBVIOUS
<1>2. CASE q \in requests /\ q.by # p
  BY <1>2 DEF AuthInv, TypeOK
<1>3. CASE \E o \in requests : q = [o EXCEPT !.by = None]
  <2>1. PICK o \in requests : q = [o EXCEPT !.by = None]
    BY <1>3
  <2>2. o \in Requests
    BY DEF AuthInv, TypeOK
  <2>3. /\ q \in Requests /\ q.by = None
        /\ q.cred = o.cred /\ q.to = o.to /\ q.resource = o.resource
        /\ q.answer = o.answer /\ q.op = o.op /\ q.served = o.served
    BY <2>1, <2>2 DEF Requests
  <2> QED BY <2>3
<1> QED BY <1>1, <1>2, <1>3 DEF Orphaned

LEMMA EndStep ==
  ASSUME AuthInv, NEW p \in Procs, NEW pc \in {"idle", "release"},
         Becomes(p, [Idle EXCEPT !.pc = pc]), Abandons(p),
         pc = "release" <=> lock' = p,
         \A q \in Procs \ {p} : lock' = q <=> lock = q,
         lock' \in Procs \union {"free", "stale"}, faults' \in Nat,
         UNCHANGED <<file, issuerOf, minted, open, live>>
  PROVE  AuthInv'
<1> DEFINE r == [Idle EXCEPT !.pc = pc]
<1>1. r \in Run /\ r.pc = pc /\ RunHome(r)
  BY EndHome
<1> HIDE DEF r
<1>2. /\ cli' \in [Procs -> Run]
      /\ cli'[p] = r
      /\ \A q \in Procs \ {p} : cli'[q] = cli[q]
  BY <1>1 DEF Becomes, AuthInv, TypeOK, r
<1>3. requests' = Orphaned(p)
  BY DEF Abandons
<1>4. temps' \subseteq States
  <2>1. At(p, "rename") => cli[p].out \in States
    BY DEF AuthInv, TypeOK, RunHome, At, Run
  <2> QED BY <2>1 DEF Abandons, AuthInv, TypeOK
<1>5. doubtful' \subseteq Credentials
  BY DEF Abandons, Rotates, AuthInv, TypeOK, RunHome, HoldsAny, Run, States
<1>6. TypeOK'
  BY <1>2, <1>3, <1>4, <1>5, OrphanedFacts DEF AuthInv, TypeOK
<1>7. Owned'
  BY <1>1, <1>2 DEF AuthInv, Owned, Locked
<1>8. ReadIsCurrent'
  BY <1>1, <1>2 DEF AuthInv, ReadIsCurrent, Deciding
<1>9. RequestHome'
  <2>1. SentHome'
    BY <1>3, OrphanedFacts DEF AuthInv, RequestHome, SentHome
  <2>2. ASSUME NEW q \in requests'
        PROVE  /\ q.answer # None =>
                    q.answer.issuer = q.to /\ q.answer.resource = q.resource
               /\ q.served /\ q.op \in Minting => q.answer # None
    BY <1>3, <2>2, OrphanedFacts DEF AuthInv, RequestHome
  <2>3. ASSUME NEW q \in requests', q.by # None
        PROVE  /\ cli'[q.by].pc = "await"
               /\ cli'[q.by].issuer = q.to /\ cli'[q.by].resource = q.resource
               /\ q.op = "attempt" => cli'[q.by].out # NoFile
    BY <1>2, <1>3, <2>3, OrphanedFacts
       DEF AuthInv, TypeOK, Requests, RequestHome, At
  <2>4. \A q, o \in requests' : q.by # None /\ q.by = o.by => q = o
    BY <1>3, OrphanedFacts DEF AuthInv, RequestHome
  <2> QED BY <2>1, <2>2, <2>3, <2>4 DEF RequestHome, At
<1>10. StateHome(file)' /\ \A q \in Procs : RunHome(cli[q])'
  <2>1. StateHome(file') /\ \A q \in Procs : RunHome(cli'[q])
    BY <1>1, <1>2 DEF AuthInv
  <2> QED BY <2>1 DEF StateHome, HoldsAny, RunHome, Online, Presentable
<1> QED BY <1>6, <1>7, <1>8, <1>9, <1>10 DEF AuthInv

LEMMA FailureStep ==
  ASSUME AuthInv, NEW p \in Procs, Abort(p) \/ Crash(p) PROVE AuthInv'
<1>1. ASSUME Abort(p) PROVE AuthInv'
  <2> DEFINE pc == NextAfterFailure(cli[p].pc)
  <2>1. pc \in {"idle", "release"} /\ (pc = "release" <=> cli[p].pc \in Locked)
    BY DEF NextAfterFailure
  <2>2. /\ Becomes(p, [Idle EXCEPT !.pc = pc]) /\ Abandons(p)
        /\ UNCHANGED <<file, lock, issuerOf, minted, open, live>>
        /\ faults' \in Nat
    BY <1>1 DEF Abort, AuthInv, TypeOK
  <2> HIDE DEF pc
  <2> QED BY <2>1, <2>2, EndStep DEF AuthInv, TypeOK, Owned
<1>2. ASSUME Crash(p) PROVE AuthInv'
  <2>1. Becomes(p, [Idle EXCEPT !.pc = "idle"])
    BY <1>2 DEF Crash, Idle
  <2>2. /\ lock' # p
        /\ \A q \in Procs \ {p} : lock' = q <=> lock = q
        /\ lock' \in Procs \union {"free", "stale"}
    BY <1>2 DEF Crash, AuthInv, TypeOK
  <2>3. /\ Abandons(p) /\ faults' \in Nat
        /\ UNCHANGED <<file, issuerOf, minted, open, live>>
    BY <1>2 DEF Crash, AuthInv, TypeOK
  <2> QED BY <2>1, <2>2, <2>3, EndStep
<1> QED BY <1>1, <1>2

\* An issuer mints for the origin and the issuer of the request.
LEMMA ServeStep ==
  ASSUME AuthInv, NEW q \in requests, Serve(q) PROVE AuthInv'
<1>1. q \in Requests /\ minted \in 0 .. MaxMinted
  BY DEF AuthInv, TypeOK
<1> DEFINE Effect(answer) ==
             /\ Served(q, answer)
             /\ answer # None =>
                  answer.issuer = q.to /\ answer.resource = q.resource
             /\ q.op \in Minting => answer # None
             /\ minted' \in 0 .. MaxMinted
             /\ open' \subseteq Credentials /\ live' \subseteq Credentials
<1>2. PICK answer \in Credentials \union {None} : Effect(answer)
  <2>1. minted < MaxMinted =>
          /\ minted + 1 \in 1 .. MaxMinted
          /\ \A kind \in {"claim", "identity"} :
               /\ Mint(q, kind) \in Credentials /\ Mint(q, kind) # None
               /\ Mint(q, kind).issuer = q.to /\ Mint(q, kind).resource = q.resource
    BY <1>1 DEF Mint, Credentials, Requests
  <2>2. ServeClaim(q) => Effect(Mint(q, "claim")) /\ minted < MaxMinted
    BY <1>1, <2>1 DEF ServeClaim, AuthInv, TypeOK
  <2>3. ServeComplete(q) => Effect(Mint(q, "identity")) /\ minted < MaxMinted
    BY <1>1, <2>1 DEF ServeComplete, AuthInv, TypeOK
  <2>4. ServeRefresh(q) => Effect(Mint(q, "identity")) /\ minted < MaxMinted
    BY <1>1, <2>1 DEF ServeRefresh, AuthInv, TypeOK
  <2>5. ServeOther(q) => Effect(None)
    BY <1>1 DEF ServeOther, Minting, AuthInv, TypeOK
  <2> HIDE DEF Effect
  <2> QED BY <2>1, <2>2, <2>3, <2>4, <2>5 DEF Serve
<1> DEFINE u == [q EXCEPT !.served = TRUE, !.answer = answer]
<1>3. /\ u \in Requests
      /\ u.by = q.by /\ u.to = q.to /\ u.resource = q.resource
      /\ u.cred = q.cred /\ u.answer = answer /\ u.op = q.op
  BY <1>1 DEF Requests
<1>4. \A o \in requests' : o = u \/ (o \in requests /\ o # q)
  <2>1. Served(q, answer)
    BY <1>2
  <2>2. requests' \subseteq (requests \ {q}) \union {u}
    BY <2>1 DEF Served
  <2> HIDE DEF u
  <2> QED BY <2>2
<1> HIDE DEF u, Effect
<1>5. UNCHANGED <<file, temps, lock, cli, issuerOf, faults, doubtful>>
  BY DEF Serve
<1>6. TypeOK'
  BY <1>2, <1>3, <1>4, <1>5 DEF AuthInv, TypeOK, Effect
<1>7. RequestHome'
  <2>1. SentHome'
    BY <1>3, <1>4 DEF AuthInv, RequestHome, SentHome
  <2>2. ASSUME NEW o \in requests'
        PROVE  /\ o.answer # None =>
                    o.answer.issuer = o.to /\ o.answer.resource = o.resource
               /\ o.served /\ o.op \in Minting => o.answer # None
    BY <1>2, <1>3, <1>4, <2>2 DEF AuthInv, RequestHome, Effect
  <2>3. ASSUME NEW o \in requests', o.by # None
        PROVE  /\ At(o.by, "await")
               /\ cli[o.by].issuer = o.to /\ cli[o.by].resource = o.resource
               /\ o.op = "attempt" => cli[o.by].out # NoFile
    BY <1>3, <1>4, <2>3 DEF AuthInv, RequestHome
  <2>4. \A o, v \in requests' : o.by # None /\ o.by = v.by => o = v
    BY <1>3, <1>4 DEF AuthInv, RequestHome
  <2> QED BY <1>5, <2>1, <2>2, <2>3, <2>4 DEF RequestHome, At
<1> QED BY <1>5, <1>6, <1>7 DEF AuthInv, Owned, ReadIsCurrent, StateHome,
        HoldsAny, RunHome, Online, Presentable

\* A request goes; its sender, if it still waits, moves on.
LEMMA ReplyStep ==
  ASSUME AuthInv, NEW q \in requests, requests' = requests \ {q},
         UNCHANGED <<file, temps, lock, issuerOf, minted, open, live, faults,
                     doubtful>>,
         \/ q.by = None /\ UNCHANGED cli
         \/ \E r \in Run : /\ q.by # None /\ RunHome(r) /\ Becomes(q.by, r)
                           /\ \/ r.pc = "release"
                              \/ /\ r.pc \in {"attempt", "write"}
                                 /\ r.read = cli[q.by].read
  PROVE  AuthInv'
<1>1. CASE q.by = None /\ UNCHANGED cli
  BY <1>1 DEF AuthInv, TypeOK, Owned, ReadIsCurrent, RequestHome, SentHome, At,
     StateHome, HoldsAny, RunHome, Online, Presentable
<1>2. ASSUME NEW r \in Run, q.by # None, RunHome(r), Becomes(q.by, r),
             \/ r.pc = "release"
             \/ r.pc \in {"attempt", "write"} /\ r.read = cli[q.by].read
      PROVE  AuthInv'
  <2> DEFINE p == q.by
  <2>1. p \in Procs /\ cli[p].pc = "await" /\ lock = p /\ cli[p].read = file
    BY <1>2 DEF AuthInv, TypeOK, Requests, RequestHome, Owned, At, Locked,
       ReadIsCurrent, Deciding
  <2>2. /\ cli' \in [Procs -> Run]
        /\ cli'[p] = r
        /\ \A o \in Procs \ {p} : cli'[o] = cli[o]
    BY <1>2, <2>1 DEF Becomes, AuthInv, TypeOK
  <2>3. TypeOK'
    BY <2>2 DEF AuthInv, TypeOK
  <2>4. Owned'
    BY <1>2, <2>1, <2>2 DEF AuthInv, Owned, Locked
  <2>5. ReadIsCurrent'
    BY <1>2, <2>1, <2>2 DEF AuthInv, ReadIsCurrent, Deciding
  <2>6. \A o \in requests' : o \in requests /\ o.by # p
    BY <1>2 DEF AuthInv, RequestHome
  <2>7. RequestHome'
    BY <2>2, <2>6 DEF AuthInv, RequestHome, SentHome, TypeOK, Requests, At
  <2>8. StateHome(file)' /\ \A o \in Procs : RunHome(cli[o])'
    <3>1. StateHome(file') /\ \A o \in Procs : RunHome(cli'[o])
      BY <1>2, <2>2 DEF AuthInv
    <3> QED BY <3>1 DEF StateHome, HoldsAny, RunHome, Online, Presentable
  <2> QED BY <2>3, <2>4, <2>5, <2>7, <2>8 DEF AuthInv
<1> QED BY <1>1, <1>2

LEMMA RejectStep ==
  ASSUME AuthInv, NEW q \in requests, Reject(q) PROVE AuthInv'
<1> DEFINE r == [Idle EXCEPT !.pc = "release"]
<1>1. r \in Run /\ r.pc = "release" /\ RunHome(r)
  BY EndHome
<1> HIDE DEF r
<1>2. \/ q.by = None /\ UNCHANGED cli
      \/ q.by # None /\ Becomes(q.by, r)
  BY DEF Reject, r
<1> QED BY <1>1, <1>2, ReplyStep DEF Reject

\* An answer is stored with the issuer the run discovered, which is the one
\* that minted it.
LEMMA AnswerStep ==
  ASSUME AuthInv, NEW q \in requests, Answer(q), q.by # None PROVE AuthInv'
<1> DEFINE p == q.by
           c == cli[p]
<1>1. /\ q \in Requests /\ p \in Procs /\ c \in Run /\ RunHome(c)
      /\ c.pc = "await" /\ c.issuer = q.to /\ c.resource = q.resource
      /\ q.op = "attempt" => c.out # NoFile
  BY DEF AuthInv, TypeOK, Requests, RequestHome, At
<1>2. PICK next \in AfterAnswer(q.op) :
        Becomes(p, [c EXCEPT !.pc = next, !.out = ToSave(q, p)])
  BY DEF Answer
<1> DEFINE out == ToSave(q, p)
           r == [c EXCEPT !.pc = next, !.out = out]
<1>3. next \in {"release", "attempt", "write"}
      /\ (next = "attempt" => q.op = "claim")
      /\ (next # "release" => q.op # "exchange")
  BY DEF AfterAnswer
<1>4. q.op \notin {"attempt", "exchange"} => out = Stored(p, q.answer)
  BY DEF ToSave
<1>5. q.op \in {"attempt", "exchange"} => out = c.out
  BY DEF ToSave
<1>6. /\ Stored(p, q.answer) \in States /\ StateHome(Stored(p, q.answer))
      /\ q.answer # None => Presentable(c, Stored(p, q.answer))
  <2>1. c.issuer \in Issuers /\ c.resource \in Resources
    BY <1>1 DEF Requests
  <2>2. q.answer # None =>
          q.answer.issuer = c.issuer /\ q.answer.resource = c.resource
    BY <1>1 DEF AuthInv, RequestHome
  <2>3. q.answer \in Credentials \union {None}
    BY <1>1 DEF Requests
  <2> QED BY <2>1, <2>2, <2>3
          DEF Stored, States, StateHome, HoldsAny, Presentable
<1>7. q.op \in Minting => q.answer # None
  BY DEF Answer, AuthInv, RequestHome
<1>8. out \in States \union {NoFile} /\ StateHome(out)
  BY <1>1, <1>4, <1>5, <1>6 DEF RunHome, Run
<1>9. /\ next = "attempt" => Presentable(c, out)
      /\ next = "write" => out # NoFile
  BY <1>1, <1>3, <1>4, <1>5, <1>6, <1>7 DEF Minting, Requests
<1> HIDE DEF out, c
<1>10. /\ r \in Run
       /\ r.pc = next /\ r.cmd = c.cmd /\ r.resource = c.resource
       /\ r.issuer = c.issuer /\ r.read = c.read /\ r.out = out
  BY <1>1, <1>3, <1>8 DEF Run, Locked
<1>11. Becomes(p, r)
  BY <1>2 DEF out
<1> HIDE DEF r
<1>12. RunHome(r)
  BY <1>1, <1>3, <1>8, <1>9, <1>10 DEF RunHome, Online, Presentable
<1> QED BY <1>3, <1>10, <1>11, <1>12, ReplyStep DEF Answer, c

LEMMA HumanStep == AuthInv /\ RemoveStaleLock => AuthInv'
BY DEF RemoveStaleLock, AuthInv, TypeOK, Owned, ReadIsCurrent, RequestHome,
   SentHome, At, StateHome, HoldsAny, RunHome, Online, Presentable

LEMMA ChangeStep ==
  ASSUME AuthInv, NEW o \in Resources, NEW i \in Issuers, ChangeIssuer(o, i)
  PROVE  AuthInv'
BY DEF ChangeIssuer, AuthInv, TypeOK, Owned, ReadIsCurrent, RequestHome,
   SentHome, At, StateHome, HoldsAny, RunHome, Online, Presentable

LEMMA AuthStep == AuthInv /\ [Next]_vars => AuthInv'
<1> SUFFICES ASSUME AuthInv, [Next]_vars PROVE AuthInv'
  OBVIOUS
<1>1. ASSUME NEW p \in Procs, Step(p) PROVE AuthInv'
  BY <1>1, BeginStep, DiscoverStep, AcquireStep, ReadStep, ClearStep,
     ReportStep, AskStep, SendersStep, WriteStep, SaveStep, ReleaseStep,
     FailureStep DEF Step
<1>2. ASSUME NEW p \in Procs, Crash(p) PROVE AuthInv'
  BY <1>2, FailureStep
<1>3. ASSUME Human PROVE AuthInv'
  BY <1>3, SendersStep, ReportStep, HumanStep DEF Human
<1>4. ASSUME Provider PROVE AuthInv'
  <2>1. ASSUME NEW q \in requests, Answer(q) PROVE AuthInv'
    <3>1. CASE q.by # None
      BY <2>1, <3>1, AnswerStep
    <3>2. CASE q.by = None
      <4>1. PICK r : cli' = [cli EXCEPT ![None] = r]
        BY <2>1, <3>2 DEF Answer, Becomes
      <4>2. cli' = cli
        BY <4>1 DEF AuthInv, TypeOK
      <4> QED BY <2>1, <3>2, <4>2, ReplyStep DEF Answer
    <3> QED BY <3>1, <3>2
  <2> QED BY <1>4, <2>1, ServeStep, RejectStep, ChangeStep DEF Provider
<1>5. ASSUME UNCHANGED vars PROVE AuthInv'
  BY <1>5 DEF vars, AuthInv, TypeOK, Owned, ReadIsCurrent, RequestHome,
     SentHome, At, StateHome, HoldsAny, RunHome, Online, Presentable
<1> QED BY <1>1, <1>2, <1>3, <1>4, <1>5 DEF Next

THEOREM AuthInvariant == Spec => []AuthInv
BY InitAuth, AuthStep, PTL DEF Spec


\* Every reachable state of any number of commands and origins is well-formed;
\* a stored credential always comes with the issuer it was obtained from.
THEOREM StoreTyping == Spec => []TypeOK
BY AuthInvariant, PTL DEF AuthInv

\* No lost update: from its read under credentials.lock to its rename, a
\* command's view of the store is the store, although it waits for issuers
\* and humans in between.
THEOREM CurrentDecision == Spec => []ReadIsCurrent
BY AuthInvariant, PTL DEF AuthInv

\* Claims and identities are presented only to the issuer that minted them
\* and for the origin they were minted for, whatever discovery returns.
THEOREM PresentedAtHome == Spec => []SentHome
BY AuthInvariant, PTL DEF AuthInv, RequestHome

==============================================================================

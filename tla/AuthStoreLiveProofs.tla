------------------------- MODULE AuthStoreLiveProofs -------------------------
(* Proofs about AuthStore, for any number of commands, origins, issuers,    *)
(* credentials and faults: the stored identity is one its issuer honours,   *)
(* only logout drops a registration, and a command never goes back.         *)
EXTENDS AuthStoreProofs

USE AuthAssumption, NothingAssumption

Saving == {"write", "rename"}
Early == {"idle", "discover", "lock", "read", "rediscover", "decide", "code"}
Working == {"code", "await", "attempt"} \union Saving

\* What a run of each command may hold and save; an identity it saves is one
\* of those in alive.
RunKept(r, alive) ==
  /\ r.pc \in Early => r.out = NoFile
  /\ r.pc = "code" => r.cmd = "complete"
  /\ r.pc = "attempt" => r.cmd = "start"
  /\ r.pc \in Working =>
       /\ r.cmd = "start" => ~HoldsAny(r.read) /\ ~Holds(r.out, "identity")
       /\ r.cmd = "complete" => Holds(r.read, "claim")
       /\ r.cmd = "refresh" => Holds(r.read, "identity")
       /\ r.cmd = "cancel" => ~Holds(r.read, "identity")
  /\ r.pc \in Saving =>
       /\ r.cmd # "exchange"
       /\ r.cmd = "refresh" => Holds(r.out, "identity")
       /\ Holds(r.out, "identity") => r.out.cred \in alive

CommandOf(op) ==
  IF op \in {"claim", "attempt"} THEN "start" ELSE op

\* A request that may still rotate an identity presents the one its sender
\* has read, or one that its sender has given up.
RequestKept(q, runs, alive, given) ==
  /\ q.by # None => runs[q.by].cmd = CommandOf(q.op)
  /\ q.served => q.by # None
  /\ q.served /\ q.op = "claim" => q.answer.kind = "claim"
  /\ q.served /\ q.op \in {"complete", "refresh"} =>
       q.answer.kind = "identity" /\ q.answer \in alive
  /\ q.op = "refresh" /\ ~q.served =>
       IF q.by = None THEN q.cred \in given ELSE q.cred = runs[q.by].read.cred

\* The run's refresh has rotated the identity the store still holds.
Spent(p, r, sent) ==
  /\ r.cmd = "refresh"
  /\ \/ r.pc \in Saving
     \/ r.pc = "await" /\ \E q \in sent : q.by = p /\ q.served

FileKept(state, runs, sent, alive) ==
  Holds(state, "identity") =>
    state.cred \in alive \/ \E p \in Procs : Spent(p, runs[p], sent)

Alive == live \union doubtful

KeepInv ==
  /\ \A p \in Procs : RunKept(cli[p], Alive)
  /\ \A q \in requests : RequestKept(q, cli, Alive, doubtful)
  /\ FileKept(file, cli, requests, Alive)

LEMMA InitKept == Init => KeepInv
BY DEF Init, KeepInv, RunKept, FileKept, Idle, Holds, HoldsAny, Early, Working, Saving

\* A request whose sender has not given up has it waiting.
LEMMA FoundRequest ==
  ASSUME AuthInv, NEW q \in requests
  PROVE  /\ q \in Requests
         /\ q.by # None => q.by \in Procs /\ cli[q.by].pc = "await"
BY DEF AuthInv, TypeOK, RequestHome, At, Requests

\* What a step finds.
LEMMA Found ==
  ASSUME AuthInv, NEW p \in Procs
  PROVE  /\ cli[p] \in Run /\ RunHome(cli[p])
         /\ cli[p].pc \in Locked <=> lock = p
         /\ cli[p].pc \in Deciding => cli[p].read = file
         /\ \A q \in requests : /\ q \in Requests
                                /\ q.by = p => cli[p].pc = "await"
                                /\ q.by # None => q.by \in Procs /\ cli[q.by].pc = "await"
<1>1. /\ cli[p] \in Run /\ RunHome(cli[p])
      /\ cli[p].pc \in Locked <=> lock = p
      /\ cli[p].pc \in Deciding => cli[p].read = file
  BY DEF AuthInv, TypeOK, Owned, ReadIsCurrent
<1>2. ASSUME NEW q \in requests
      PROVE  /\ q \in Requests
             /\ q.by # None => q.by \in Procs /\ cli[q.by].pc = "await"
             /\ q.by = p => cli[p].pc = "await"
  BY FoundRequest
<1> QED BY <1>1, <1>2

\* A step of one run that sends and saves nothing.
LEMMA QuietKept ==
  ASSUME AuthInv, KeepInv, NEW p \in Procs, NEW r, Becomes(p, r),
         ~At(p, "await"), UNCHANGED <<file, requests, live, doubtful>>,
         RunKept(r, Alive), Spent(p, cli[p], requests) => Spent(p, r, requests)
  PROVE  KeepInv'
<1>1. /\ cli'[p] = r
      /\ \A q \in Procs \ {p} : cli'[q] = cli[q]
  BY DEF Becomes, AuthInv, TypeOK
<1>2. Alive' = Alive
  BY DEF Alive
<1>3. \A o \in Procs : RunKept(cli'[o], Alive)
  BY <1>1 DEF KeepInv
<1>4. ASSUME NEW q \in requests PROVE RequestKept(q, cli', Alive, doubtful)
  <2>1. q.by # None => cli'[q.by] = cli[q.by]
    BY <1>1, Found DEF At
  <2> QED BY <2>1 DEF KeepInv, RequestKept
<1>5. FileKept(file, cli', requests, Alive)
  BY <1>1 DEF KeepInv, FileKept
<1>6. \A o \in Procs : RunKept(cli'[o], Alive')
  BY <1>2, <1>3
<1>7. \A q \in requests' : RequestKept(q, cli', Alive', doubtful')
  BY <1>2, <1>4
<1>8. FileKept(file', cli', requests', Alive')
  BY <1>2, <1>5
<1> QED BY <1>6, <1>7, <1>8 DEF KeepInv

\* A run that starts or ends is in no need of an identity.
LEMMA RestKept ==
  ASSUME NEW alive, NEW pc \in {"idle", "release"}
  PROVE  RunKept([Idle EXCEPT !.pc = pc], alive)
<1>1. /\ [Idle EXCEPT !.pc = pc].pc = pc
      /\ [Idle EXCEPT !.pc = pc].out = NoFile
  BY DEF Idle
<1> QED BY <1>1 DEF RunKept, Working, Saving

LEMMA BeginKept ==
  ASSUME AuthInv, KeepInv, NEW p \in Procs, NEW cmd \in Commands, NEW o \in Resources,
         Begin(p, cmd, o)
  PROVE  KeepInv'
<1> DEFINE first == IF cmd \in {"logout", "cancel", "exchange"}
                    THEN "lock" ELSE "discover"
           r == [Idle EXCEPT !.pc = first, !.cmd = cmd, !.resource = o]
<1>1. At(p, "idle") /\ Becomes(p, r) /\ Unmoved
  BY DEF Begin
<1>2. r.pc \in {"lock", "discover"} /\ r.out = NoFile
  BY DEF Idle
<1> HIDE DEF r
<1>3. RunKept(r, Alive)
  BY <1>2 DEF RunKept, Working, Saving
<1>4. ~Spent(p, cli[p], requests)
  BY <1>1 DEF At, Spent, Saving
<1> QED BY <1>1, <1>3, <1>4, QuietKept DEF Unmoved, At

\* Discover, AcquireLock, Read, Reports, AskCode: a run moves before it has
\* sent or saved anything.
LEMMA EarlyKept ==
  ASSUME AuthInv, KeepInv, NEW p \in Procs, NEW r, Becomes(p, r),
         cli[p].pc \in Early,
         UNCHANGED <<file, requests, live, doubtful>>,
         r.out = cli[p].out, r.cmd = cli[p].cmd,
         \/ r.pc = "release"
         \/ r.pc \in Early \ {"code"}
         \/ r.pc = "code" /\ r.cmd = "complete" /\ Holds(r.read, "claim")
  PROVE  KeepInv'
<1>1. cli[p].out = NoFile /\ ~At(p, "await") /\ ~Spent(p, cli[p], requests)
  BY DEF KeepInv, RunKept, Early, At, Spent, Saving
<1>2. RunKept(r, Alive)
  BY <1>1 DEF RunKept, Early, Working, Saving
<1> QED BY <1>1, <1>2, QuietKept

LEMMA FirstStepsKept ==
  ASSUME AuthInv, KeepInv, NEW p \in Procs,
         Discover(p) \/ AcquireLock(p) \/ Read(p) \/ Reports(p) \/ AskCode(p)
  PROVE  KeepInv'
<1> DEFINE c == cli[p]
<1>1. c \in Run
  BY Found
<1>2. ASSUME Discover(p) PROVE KeepInv'
  <2> DEFINE next == IF At(p, "discover") THEN "lock" ELSE "decide"
             r == [c EXCEPT !.pc = next, !.issuer = issuerOf[c.resource]]
  <2>1. Becomes(p, r) /\ Unmoved /\ c.pc \in {"discover", "rediscover"}
    BY <1>2 DEF Discover
  <2>2. r.pc \in {"lock", "decide"} /\ r.out = c.out /\ r.cmd = c.cmd
    BY <1>1 DEF Run
  <2> HIDE DEF r
  <2> QED BY <2>1, <2>2, EarlyKept DEF Unmoved, Early
<1>3. ASSUME AcquireLock(p) PROVE KeepInv'
  <2> DEFINE r == [c EXCEPT !.pc = "read"]
  <2>1. Becomes(p, r) /\ c.pc = "lock" /\ UNCHANGED <<file, requests, live, doubtful>>
    BY <1>3 DEF AcquireLock, At
  <2>2. r.pc = "read" /\ r.out = c.out /\ r.cmd = c.cmd
    BY <1>1 DEF Run
  <2> HIDE DEF r
  <2> QED BY <2>1, <2>2, EarlyKept DEF Early
<1>4. ASSUME Read(p) PROVE KeepInv'
  <2> DEFINE R == {[c EXCEPT !.pc = "decide", !.read = file], [c EXCEPT !.pc = "release"],
                   [c EXCEPT !.pc = "rediscover", !.read = file]}
  <2>1. PICK r \in R : Becomes(p, r)
    BY <1>4 DEF Read
  <2>2. Unmoved /\ c.pc = "read"
    BY <1>4 DEF Read, At
  <2>3. r.pc \in {"decide", "release", "rediscover"} /\ r.out = c.out /\ r.cmd = c.cmd
    BY <1>1 DEF Run
  <2> QED BY <2>1, <2>2, <2>3, EarlyKept DEF Unmoved, Early
<1>5. ASSUME Reports(p) PROVE KeepInv'
  <2> DEFINE r == [c EXCEPT !.pc = "release"]
  <2>1. Becomes(p, r) /\ Unmoved /\ c.pc = "decide"
    BY <1>5 DEF Reports, DecidesOnline, Decides, At
  <2>2. r.pc = "release" /\ r.out = c.out /\ r.cmd = c.cmd
    BY <1>1 DEF Run
  <2> HIDE DEF r
  <2> QED BY <2>1, <2>2, EarlyKept DEF Unmoved, Early
<1>6. ASSUME AskCode(p) PROVE KeepInv'
  <2> DEFINE r == [c EXCEPT !.pc = "code"]
  <2>1. /\ Becomes(p, r) /\ Unmoved /\ c.pc = "decide" /\ c.cmd = "complete"
        /\ Holds(c.read, "claim")
    BY <1>6 DEF AskCode, DecidesOnline, Decides, At
  <2>2. r.pc = "code" /\ r.out = c.out /\ r.cmd = c.cmd /\ r.read = c.read
    BY <1>1 DEF Run
  <2> HIDE DEF r
  <2> QED BY <2>1, <2>2, EarlyKept DEF Unmoved, Early
<1> QED BY <1>2, <1>3, <1>4, <1>5, <1>6

LEMMA ClearKept ==
  ASSUME AuthInv, KeepInv, NEW p \in Procs, Logout(p) \/ Cancel(p) PROVE KeepInv'
<1> DEFINE c == cli[p]
           r == [c EXCEPT !.pc = "write", !.out = Cleared(p)]
<1>1. /\ c \in Run /\ c.pc = "decide" /\ Becomes(p, r) /\ Unmoved
      /\ c.cmd = "logout" \/ (c.cmd = "cancel" /\ ~Holds(c.read, "identity"))
  BY Found DEF Logout, Cancel, Decides, At, Cancellable
<1>2. ~HoldsAny(Cleared(p))
  BY DEF Cleared, HoldsAny
<1>3. r.pc = "write" /\ r.out = Cleared(p) /\ r.read = c.read /\ r.cmd = c.cmd
  BY <1>1 DEF Run
<1> HIDE DEF r
<1>4. RunKept(r, Alive)
  BY <1>1, <1>2, <1>3 DEF RunKept, Early, Working, Saving, Holds
<1>5. ~Spent(p, c, requests)
  BY <1>1 DEF Spent, Saving
<1> QED BY <1>1, <1>4, <1>5, QuietKept DEF Unmoved, At

LEMMA BadCodeKept ==
  ASSUME AuthInv, KeepInv, NEW p \in Procs, GiveBadCode(p) PROVE KeepInv'
<1> DEFINE r == [Idle EXCEPT !.pc = "release"]
<1>1. At(p, "code") /\ Becomes(p, r) /\ Unmoved
  BY DEF GiveBadCode
<1>2. RunKept(r, Alive)
  BY RestKept
<1> HIDE DEF r
<1>3. ~Spent(p, cli[p], requests)
  BY <1>1 DEF At, Spent, Saving
<1> QED BY <1>1, <1>2, <1>3, QuietKept DEF Unmoved, At

LEMMA WriteKept ==
  ASSUME AuthInv, KeepInv, NEW p \in Procs, WriteTemporary(p) PROVE KeepInv'
<1> DEFINE c == cli[p]
           r == [c EXCEPT !.pc = "rename"]
<1>1. c \in Run /\ RunKept(c, Alive) /\ c.pc = "write" /\ Becomes(p, r) /\ Unmoved
  BY Found DEF KeepInv, WriteTemporary, At
<1>2. r.pc = "rename" /\ r.out = c.out /\ r.read = c.read /\ r.cmd = c.cmd
  BY <1>1 DEF Run
<1> HIDE DEF r
<1>3. RunKept(r, Alive)
  BY <1>1, <1>2 DEF RunKept, Early, Working, Saving
<1>4. Spent(p, c, requests) => Spent(p, r, requests)
  BY <1>2 DEF Spent, Saving
<1> QED BY <1>1, <1>3, <1>4, QuietKept DEF Unmoved, At

LEMMA ReleaseKept ==
  ASSUME AuthInv, KeepInv, NEW p \in Procs, Release(p) PROVE KeepInv'
<1>1. /\ cli[p].pc \in {"done", "release"} /\ Becomes(p, Idle)
      /\ UNCHANGED <<file, requests, live, doubtful>>
  BY DEF Release
<1>2. RunKept(Idle, Alive)
  BY DEF Idle, RunKept, Working, Saving
<1>3. ~Spent(p, cli[p], requests)
  BY <1>1 DEF Spent, Saving
<1> QED BY <1>1, <1>2, <1>3, QuietKept DEF At

\* The rename: what is saved is alive.
LEMMA SaveKept ==
  ASSUME AuthInv, KeepInv, NEW p \in Procs, RenameTemporary(p) PROVE KeepInv'
<1> DEFINE c == cli[p]
           r == [c EXCEPT !.pc = "done"]
<1>1. /\ c \in Run /\ RunKept(c, Alive) /\ c.pc = "rename" /\ Becomes(p, r)
      /\ file' = c.out /\ UNCHANGED <<requests, live, doubtful>>
  BY Found DEF KeepInv, RenameTemporary, At
<1>2. r.pc = "done"
  BY <1>1 DEF Run
<1> HIDE DEF r
<1>3. RunKept(r, Alive)
  BY <1>2 DEF RunKept, Early, Working, Saving
<1>4. /\ cli'[p] = r
      /\ \A q \in Procs \ {p} : cli'[q] = cli[q]
  BY <1>1 DEF Becomes, AuthInv, TypeOK
<1>5. Alive' = Alive /\ requests' = requests /\ doubtful' = doubtful
  BY <1>1 DEF Alive
<1>6. \A o \in Procs : RunKept(cli'[o], Alive)
  BY <1>3, <1>4 DEF KeepInv
<1>7. ASSUME NEW q \in requests PROVE RequestKept(q, cli', Alive, doubtful)
  <2>1. q.by # None => cli'[q.by] = cli[q.by]
    BY <1>1, <1>4, Found
  <2> QED BY <2>1 DEF KeepInv, RequestKept
<1>8. FileKept(c.out, cli', requests, Alive)
  BY <1>1 DEF RunKept, Saving, FileKept
<1>9. /\ \A o \in Procs : RunKept(cli'[o], Alive')
      /\ \A q \in requests' : RequestKept(q, cli', Alive', doubtful')
      /\ FileKept(file', cli', requests', Alive')
  BY <1>1, <1>5, <1>6, <1>7, <1>8
<1> QED BY <1>9 DEF KeepInv

\* A run presents a credential it has read, or its own claim.
LEMMA SendKept ==
  ASSUME AuthInv, KeepInv, NEW p \in Procs,
         NEW op \in {"claim", "attempt", "complete", "refresh", "exchange"}, NEW cred,
         cli[p].pc \in {"decide", "code", "attempt"}, cli[p].cmd = CommandOf(op),
         op = "refresh" => cred = cli[p].read.cred,
         cli[p].cmd = "start" => ~HoldsAny(cli[p].read),
         cli[p].cmd = "complete" => Holds(cli[p].read, "claim"),
         cli[p].cmd = "refresh" => Holds(cli[p].read, "identity"),
         Sends(p, op, cred)
  PROVE  KeepInv'
<1> DEFINE c == cli[p]
           r == [c EXCEPT !.pc = "await"]
           q == [by |-> p, op |-> op, to |-> c.issuer, resource |-> c.resource,
                 cred |-> cred, answer |-> None, served |-> FALSE]
<1>1. /\ requests' = requests \union {q} /\ Becomes(p, r)
      /\ UNCHANGED <<file, live, doubtful>>
  BY DEF Sends
<1>2. q.by = p /\ q.op = op /\ ~q.served /\ q.cred = cred
  OBVIOUS
<1>3. r.pc = "await" /\ r.out = c.out /\ r.read = c.read /\ r.cmd = c.cmd
  BY Found DEF Run
<1>4. /\ cli'[p] = r
      /\ \A o \in Procs \ {p} : cli'[o] = cli[o]
  BY <1>1 DEF Becomes, AuthInv, TypeOK
<1> HIDE DEF q, r
<1>5. RunKept(r, Alive)
  <2>1. RunKept(c, Alive)
    BY DEF KeepInv
  <2>2. c.pc \in {"decide", "code"} => ~Holds(c.out, "identity")
    BY <2>1 DEF RunKept, Early, Holds, HoldsAny
  <2>3. c.pc = "attempt" => c.cmd = "start" /\ ~Holds(c.out, "identity")
    BY <2>1 DEF RunKept, Working
  <2>4. c.cmd # "cancel"
    BY DEF CommandOf
  <2> QED BY <1>3, <2>2, <2>3, <2>4 DEF RunKept, Early, Working, Saving
<1>6. Alive' = Alive /\ file' = file /\ doubtful' = doubtful
  BY <1>1 DEF Alive
<1>7. \A o \in Procs : RunKept(cli'[o], Alive)
  BY <1>4, <1>5 DEF KeepInv
<1>8. ASSUME NEW o \in requests' PROVE RequestKept(o, cli', Alive, doubtful)
  <2>1. CASE o = q
    <3>1. p # None
      OBVIOUS
    <3> QED BY <1>2, <1>3, <1>4, <2>1, <3>1 DEF RequestKept
  <2>2. CASE o \in requests
    <3>1. o.by # None => cli'[o.by] = cli[o.by]
      BY <1>4, <2>2, Found
    <3> QED BY <2>2, <3>1 DEF KeepInv, RequestKept
  <2> QED BY <1>1, <2>1, <2>2
<1>9. FileKept(file, cli', requests', Alive)
  <2>1. ASSUME NEW o \in Procs, Spent(o, cli[o], requests)
        PROVE  Spent(o, cli'[o], requests')
    <3>1. o # p
      BY <2>1 DEF Spent, Saving
    <3> QED BY <1>1, <1>4, <2>1, <3>1 DEF Spent
  <2> QED BY <2>1 DEF KeepInv, FileKept
<1>10. /\ \A o \in Procs : RunKept(cli'[o], Alive')
       /\ \A o \in requests' : RequestKept(o, cli', Alive', doubtful')
       /\ FileKept(file', cli', requests', Alive')
  BY <1>6, <1>7, <1>8, <1>9
<1> QED BY <1>10 DEF KeepInv

LEMMA SendersKept ==
  ASSUME AuthInv, KeepInv, NEW p \in Procs,
         Start(p) \/ Attempt(p) \/ Refresh(p) \/ Exchange(p) \/ GiveCode(p)
  PROVE  KeepInv'
<1> DEFINE c == cli[p]
<1>1. RunKept(c, Alive)
  BY DEF KeepInv
<1>2. ASSUME Start(p) PROVE KeepInv'
  <2>1. c.pc = "decide" /\ c.cmd = "start" /\ ~HoldsAny(c.read) /\ Sends(p, "claim", None)
    BY <1>2 DEF Start, DecidesOnline, Decides, At
  <2> QED BY <2>1, SendKept DEF CommandOf
<1>3. ASSUME Attempt(p) PROVE KeepInv'
  <2>1. c.pc = "attempt" /\ Sends(p, "attempt", c.out.cred)
    BY <1>3 DEF Attempt, At
  <2>2. c.cmd = "start" /\ ~HoldsAny(c.read)
    BY <1>1, <2>1 DEF RunKept, Working
  <2> QED BY <2>1, <2>2, SendKept DEF CommandOf
<1>4. ASSUME Refresh(p) PROVE KeepInv'
  <2>1. /\ c.pc = "decide" /\ c.cmd = "refresh" /\ Holds(c.read, "identity")
        /\ Sends(p, "refresh", c.read.cred)
    BY <1>4 DEF Refresh, DecidesOnline, Decides, At
  <2> QED BY <2>1, SendKept DEF CommandOf
<1>5. ASSUME Exchange(p) PROVE KeepInv'
  <2>1. c.pc = "decide" /\ c.cmd = "exchange" /\ Sends(p, "exchange", c.read.cred)
    BY <1>5 DEF Exchange, DecidesOnline, Decides, At
  <2> QED BY <2>1, SendKept DEF CommandOf
<1>6. ASSUME GiveCode(p) PROVE KeepInv'
  <2>1. c.pc = "code" /\ Sends(p, "complete", c.read.cred)
    BY <1>6 DEF GiveCode, At
  <2>2. c.cmd = "complete" /\ Holds(c.read, "claim")
    BY <1>1, <2>1 DEF RunKept, Working
  <2> QED BY <2>1, <2>2, SendKept DEF CommandOf
<1> QED BY <1>2, <1>3, <1>4, <1>5, <1>6

-----------------------------------------------------------------------------
(* How a run ends.                                                         *)

\* A refresh that is given up leaves its identity in doubt.
LEMMA EndKept ==
  ASSUME AuthInv, KeepInv, NEW p \in Procs, NEW pc \in {"idle", "release"},
         Becomes(p, [Idle EXCEPT !.pc = pc]), Abandons(p), UNCHANGED <<file, live>>
  PROVE  KeepInv'
<1> DEFINE c == cli[p]
           r == [Idle EXCEPT !.pc = pc]
<1>1. \A alive : RunKept(r, alive)
  BY RestKept
<1> HIDE DEF r
<1>2. /\ cli'[p] = r
      /\ \A o \in Procs \ {p} : cli'[o] = cli[o]
  BY DEF Becomes, AuthInv, TypeOK, r
<1>3. requests' = Orphaned(p) /\ file' = file
  BY DEF Abandons
<1>4. /\ doubtful \subseteq doubtful'
      /\ c.cmd = "refresh" /\ c.pc \in {"await", "write", "rename"} =>
           c.read.cred \in doubtful'
  BY DEF Abandons, Rotates
<1>5. Alive \subseteq Alive' /\ doubtful' \subseteq Alive'
  BY <1>4 DEF Alive
<1>6. ASSUME NEW o \in Procs PROVE RunKept(cli'[o], Alive')
  <2>1. CASE o = p
    BY <1>1, <1>2, <2>1
  <2>2. CASE o # p
    <3>1. RunKept(cli[o], Alive)
      BY DEF KeepInv
    <3> QED BY <1>2, <1>5, <2>2, <3>1 DEF RunKept
  <2> QED BY <2>1, <2>2
<1>7. ASSUME NEW q \in requests' PROVE RequestKept(q, cli', Alive', doubtful')
  <2>1. CASE q \in requests /\ q.by # p
    <3>1. q.by # None => cli'[q.by] = cli[q.by]
      BY <1>2, <2>1, Found
    <3>2. RequestKept(q, cli, Alive, doubtful)
      BY <2>1 DEF KeepInv
    <3> QED BY <1>4, <1>5, <3>1, <3>2 DEF RequestKept
  <2>2. CASE \E o \in requests : o.by = p /\ ~o.served /\ q = [o EXCEPT !.by = None]
    <3>1. PICK o \in requests : o.by = p /\ ~o.served /\ q = [o EXCEPT !.by = None]
      BY <2>2
    <3>2. o \in Requests /\ c.pc = "await" /\ p # None
      BY <3>1, Found
    <3>3. q.by = None /\ ~q.served /\ q.op = o.op /\ q.cred = o.cred
      BY <3>1, <3>2 DEF Requests
    <3>4. o.op = "refresh" => c.cmd = "refresh" /\ o.cred = c.read.cred
      BY <3>1, <3>2 DEF KeepInv, RequestKept, CommandOf
    <3>5. o.op = "refresh" => Holds(c.read, "identity")
      <4>1. RunKept(c, Alive)
        BY DEF KeepInv
      <4> QED BY <3>2, <3>4, <4>1 DEF RunKept, Working
    <3>6. o.op = "refresh" => q.cred \in doubtful'
      BY <1>4, <3>2, <3>3, <3>4, <3>5 DEF Holds
    <3> QED BY <3>3, <3>6 DEF RequestKept
  <2> QED BY <1>3, <2>1, <2>2 DEF Orphaned
<1>8. FileKept(file, cli', requests', Alive')
  <2> SUFFICES ASSUME Holds(file, "identity"), file.cred \notin Alive'
               PROVE  \E o \in Procs : Spent(o, cli'[o], requests')
    BY DEF FileKept
  <2>1. PICK o \in Procs : Spent(o, cli[o], requests)
    BY <1>5 DEF KeepInv, FileKept
  <2>2. o # p
    <3> SUFFICES ASSUME o = p PROVE FALSE
      OBVIOUS
    <3>1. c.cmd = "refresh" /\ c.pc \in {"await", "write", "rename"}
      BY <2>1 DEF Spent, Saving
    <3>2. c.read = file
      BY <3>1, Found DEF Deciding
    <3> QED BY <1>4, <1>5, <3>1, <3>2 DEF Holds
  <2>3. \A q \in requests : q.by = o => q \in requests'
    BY <1>3, <2>2 DEF Orphaned
  <2>4. Spent(o, cli'[o], requests')
    BY <1>2, <2>1, <2>2, <2>3 DEF Spent
  <2> QED BY <2>4
<1> QED BY <1>3, <1>6, <1>7, <1>8 DEF KeepInv

LEMMA FailureKept ==
  ASSUME AuthInv, KeepInv, NEW p \in Procs, Abort(p) \/ Crash(p) PROVE KeepInv'
<1>1. ASSUME Abort(p) PROVE KeepInv'
  <2> DEFINE pc == NextAfterFailure(cli[p].pc)
  <2>1. pc \in {"idle", "release"}
    BY DEF NextAfterFailure
  <2>2. /\ Becomes(p, [Idle EXCEPT !.pc = pc]) /\ Abandons(p) /\ UNCHANGED <<file, live>>
    BY <1>1 DEF Abort
  <2> HIDE DEF pc
  <2> QED BY <2>1, <2>2, EndKept
<1>2. ASSUME Crash(p) PROVE KeepInv'
  <2>1. /\ Becomes(p, [Idle EXCEPT !.pc = "idle"])
        /\ Abandons(p) /\ UNCHANGED <<file, live>>
    BY <1>2 DEF Crash, Idle
  <2> QED BY <2>1, EndKept
<1> QED BY <1>1, <1>2

-----------------------------------------------------------------------------
(* The issuers.                                                            *)

\* A request is answered or refused, and its sender moves on.
LEMMA ReplyKept ==
  ASSUME AuthInv, KeepInv, NEW q \in requests, requests' = requests \ {q},
         UNCHANGED <<file, live, doubtful>>,
         \/ q.by = None /\ UNCHANGED cli
         \/ /\ q.by # None
            /\ \E r : /\ Becomes(q.by, r) /\ RunKept(r, Alive)
                      /\ q.served /\ cli[q.by].cmd = "refresh" =>
                           r.cmd = "refresh" /\ r.pc = "write"
  PROVE  KeepInv'
<1>1. Alive' = Alive /\ file' = file /\ doubtful' = doubtful
  BY DEF Alive
<1>2. CASE q.by = None /\ UNCHANGED cli
  <2>1. /\ \A o \in Procs : RunKept(cli[o], Alive)
        /\ \A o \in requests' : RequestKept(o, cli, Alive, doubtful)
    BY DEF KeepInv
  <2>2. \A o \in Procs : Spent(o, cli[o], requests) => Spent(o, cli[o], requests')
    BY <1>2 DEF Spent
  <2>3. FileKept(file, cli, requests', Alive)
    BY <2>2 DEF KeepInv, FileKept
  <2> QED BY <1>1, <1>2, <2>1, <2>3 DEF KeepInv
<1>3. ASSUME NEW r, q.by # None, Becomes(q.by, r), RunKept(r, Alive),
             q.served /\ cli[q.by].cmd = "refresh" => r.cmd = "refresh" /\ r.pc = "write"
      PROVE  KeepInv'
  <2> DEFINE p == q.by
  <2>1. p \in Procs /\ cli[p].pc = "await"
    BY <1>3, Found, FoundRequest
  <2>2. /\ cli'[p] = r
        /\ \A o \in Procs \ {p} : cli'[o] = cli[o]
    BY <1>3, <2>1 DEF Becomes, AuthInv, TypeOK
  <2>3. \A o \in requests' : o \in requests /\ o.by # p
    BY <1>3 DEF AuthInv, RequestHome
  <2>4. \A o \in requests : o.by = p => o = q
    BY <1>3 DEF AuthInv, RequestHome
  <2>5. \A o \in Procs : RunKept(cli'[o], Alive)
    BY <1>3, <2>2 DEF KeepInv
  <2>6. ASSUME NEW o \in requests' PROVE RequestKept(o, cli', Alive, doubtful)
    <3>1. o.by # None => cli'[o.by] = cli[o.by]
      BY <2>2, <2>3, Found, FoundRequest
    <3> QED BY <2>3, <3>1 DEF KeepInv, RequestKept
  <2>7. ASSUME NEW o \in Procs, Spent(o, cli[o], requests)
        PROVE  Spent(o, cli'[o], requests')
    <3>1. CASE o = p
      <4>1. q.served /\ cli[p].cmd = "refresh"
        BY <2>1, <2>4, <2>7, <3>1 DEF Spent, Saving
      <4> QED BY <1>3, <2>2, <3>1, <4>1 DEF Spent, Saving
    <3>2. CASE o # p
      BY <2>2, <2>7, <3>2 DEF Spent
    <3> QED BY <3>1, <3>2
  <2>8. FileKept(file, cli', requests', Alive)
    BY <2>7 DEF KeepInv, FileKept
  <2>9. /\ \A o \in Procs : RunKept(cli'[o], Alive')
        /\ \A o \in requests' : RequestKept(o, cli', Alive', doubtful')
        /\ FileKept(file', cli', requests', Alive')
    BY <1>1, <2>5, <2>6, <2>8
  <2> QED BY <2>9 DEF KeepInv
<1> QED BY <1>2, <1>3

LEMMA RejectKept ==
  ASSUME AuthInv, KeepInv, NEW q \in requests, Reject(q) PROVE KeepInv'
<1> DEFINE r == [Idle EXCEPT !.pc = "release"]
<1>1. RunKept(r, Alive)
  BY RestKept
<1> HIDE DEF r
<1>2. /\ ~q.served /\ requests' = requests \ {q} /\ UNCHANGED <<file, live, doubtful>>
      /\ \/ q.by = None /\ UNCHANGED cli
         \/ q.by # None /\ Becomes(q.by, r)
  BY DEF Reject, r
<1> QED BY <1>1, <1>2, ReplyKept

LEMMA AnswerKept ==
  ASSUME AuthInv, KeepInv, NEW q \in requests, Answer(q) PROVE KeepInv'
<1> DEFINE p == q.by
           c == cli[p]
<1>1. q.served /\ RequestKept(q, cli, Alive, doubtful) /\ p # None
  BY DEF Answer, KeepInv, RequestKept
<1>2. /\ q \in Requests /\ p \in Procs /\ c \in Run /\ c.pc = "await"
      /\ RunKept(c, Alive) /\ c.cmd = CommandOf(q.op)
  BY <1>1, Found, FoundRequest DEF KeepInv, RequestKept
<1>3. PICK next \in AfterAnswer(q.op) :
        Becomes(p, [c EXCEPT !.pc = next, !.out = ToSave(q, p)])
  BY DEF Answer
<1> DEFINE out == ToSave(q, p)
           r == [c EXCEPT !.pc = next, !.out = out]
<1>4. /\ q.op \in {"claim", "attempt", "complete", "refresh", "exchange"}
      /\ next \in {"release", "attempt", "write"}
      /\ next = "attempt" => q.op = "claim"
      /\ next = "release" <=> q.op = "exchange"
  BY <1>2 DEF AfterAnswer, Requests
<1>5. /\ q.op \in {"attempt", "exchange"} => out = c.out
      /\ q.op \notin {"attempt", "exchange"} => out = Stored(p, q.answer)
  BY DEF ToSave
<1>6. q.op \notin {"attempt", "exchange"} =>
        /\ out.cred = q.answer /\ out # NoFile
        /\ HoldsAny(out) /\ q.op = "claim" => ~Holds(out, "identity")
        /\ q.op = "refresh" => Holds(out, "identity")
        /\ q.op \in {"complete", "refresh"} => out.cred \in Alive
  <2> SUFFICES ASSUME q.op \in {"claim", "complete", "refresh"}
               PROVE  /\ out.cred = q.answer /\ out # NoFile
                      /\ HoldsAny(out) /\ q.op = "claim" => ~Holds(out, "identity")
                      /\ q.op = "refresh" => Holds(out, "identity")
                      /\ q.op \in {"complete", "refresh"} => out.cred \in Alive
    BY <1>4
  <2>1. q.answer \in Credentials /\ q.answer # None
    BY <1>1, <1>2 DEF AuthInv, RequestHome, Minting, Requests
  <2>2. c.issuer = q.to /\ c.resource = q.resource
    BY <1>1 DEF AuthInv, RequestHome
  <2>3. Stored(p, q.answer) \in States /\ Stored(p, q.answer).cred = q.answer
    BY <1>2, <2>1, <2>2 DEF Stored, States, Requests
  <2>4. out \in States /\ out.cred = q.answer
    BY <1>5, <2>3
  <2>5. out # NoFile
    BY <2>4
  <2> HIDE DEF out
  <2> QED BY <1>1, <2>1, <2>4, <2>5 DEF Holds, HoldsAny, RequestKept
<1> HIDE DEF out
<1>7. r.pc = next /\ r.out = out /\ r.read = c.read /\ r.cmd = c.cmd
  BY <1>2 DEF Run
<1>8. Becomes(p, r)
  BY <1>3 DEF out
<1> HIDE DEF r
<1>9. RunKept(r, Alive)
  <2>1. CASE q.op = "exchange"
    BY <1>4, <1>7, <2>1 DEF RunKept, Early, Working, Saving
  <2>2. CASE q.op = "attempt"
    BY <1>2, <1>4, <1>5, <1>7, <2>2 DEF RunKept, Early, Working, Saving, CommandOf
  <2>3. CASE q.op = "claim"
    <3>1. ~Holds(out, "identity")
      BY <1>6, <2>3 DEF Holds
    <3> QED BY <1>2, <1>4, <1>7, <2>3, <3>1 DEF RunKept, Early, Working, Saving, CommandOf
  <2>4. CASE q.op \in {"complete", "refresh"}
    BY <1>2, <1>4, <1>6, <1>7, <2>4 DEF RunKept, Early, Working, Saving, CommandOf
  <2> QED BY <1>4, <2>1, <2>2, <2>3, <2>4
<1>10. c.cmd = "refresh" => r.cmd = "refresh" /\ r.pc = "write"
  BY <1>2, <1>4, <1>7 DEF CommandOf
<1> QED BY <1>1, <1>8, <1>9, <1>10, ReplyKept DEF Answer

\* Only the identity a run's refresh presents, or one in doubt, is rotated.
LEMMA ServeKept ==
  ASSUME AuthInv, KeepInv, NEW q \in requests, Serve(q) PROVE KeepInv'
<1>1. /\ q \in Requests /\ ~q.served /\ RequestKept(q, cli, Alive, doubtful)
      /\ UNCHANGED <<file, cli, doubtful>>
  BY Found DEF Serve, KeepInv, AuthInv, TypeOK
<1> DEFINE Effect(answer) ==
             /\ Served(q, answer)
             /\ q.op = "claim" => answer.kind = "claim"
             /\ q.op \in {"complete", "refresh"} =>
                  answer.kind = "identity" /\ answer \in Alive'
             /\ \/ Alive \subseteq Alive'
                \/ q.op = "refresh" /\ Alive \ {q.cred} \subseteq Alive'
<1>2. PICK answer : Effect(answer)
  <2>1. Mint(q, "claim").kind = "claim" /\ Mint(q, "identity").kind = "identity"
    BY DEF Mint
  <2>2. ServeClaim(q) => Effect(Mint(q, "claim"))
    BY <1>1, <2>1 DEF ServeClaim, Alive
  <2>3. ServeComplete(q) => Effect(Mint(q, "identity"))
    BY <1>1, <2>1 DEF ServeComplete, Alive
  <2>4. ServeRefresh(q) => Effect(Mint(q, "identity"))
    BY <1>1, <2>1 DEF ServeRefresh, Alive
  <2>5. ServeOther(q) => Effect(None)
    BY <1>1 DEF ServeOther, Alive
  <2> HIDE DEF Effect
  <2> QED BY <2>2, <2>3, <2>4, <2>5 DEF Serve
<1> DEFINE u == [q EXCEPT !.served = TRUE, !.answer = answer]
<1>3. /\ u.by = q.by /\ u.op = q.op /\ u.answer = answer /\ u.served
  BY <1>1 DEF Requests
<1>4. /\ \A o \in requests' : (o = u /\ u.by # None) \/ (o \in requests /\ o # q)
      /\ \A o \in requests : o = q \/ o \in requests'
      /\ q.by # None => u \in requests'
  <2>1. requests' = (requests \ {q}) \union {o \in {u} : o.by # None}
    BY <1>2 DEF Served
  <2> HIDE DEF u
  <2> QED BY <1>3, <2>1
<1> HIDE DEF u
\* If an identity that is not in doubt goes, its owner waits.
<1>5. \/ Alive \subseteq Alive'
      \/ /\ q.by # None /\ q.op = "refresh" /\ q.cred = cli[q.by].read.cred
         /\ Alive \ {q.cred} \subseteq Alive'
  <2>1. q.op = "refresh" /\ q.by = None => q.cred \in doubtful
    BY <1>1 DEF RequestKept
  <2>2. q.op = "refresh" /\ q.by # None => q.cred = cli[q.by].read.cred
    BY <1>1 DEF RequestKept
  <2>3. doubtful \subseteq Alive'
    BY <1>1 DEF Alive
  <2> QED BY <1>2, <2>1, <2>2, <2>3
<1>6. ASSUME NEW o \in Procs PROVE RunKept(cli[o], Alive')
  <2>1. RunKept(cli[o], Alive)
    BY DEF KeepInv
  <2>2. CASE Alive \subseteq Alive'
    BY <2>1, <2>2 DEF RunKept
  <2>3. CASE q.by # None
    <3>1. q.by \in Procs /\ cli[q.by].pc = "await"
      BY <2>3, Found
    <3>2. cli[o].pc \notin Saving
      BY <3>1, Found DEF Locked, Saving
    <3> QED BY <2>1, <3>2 DEF RunKept
  <2> QED BY <1>5, <2>2, <2>3
<1>7. ASSUME NEW o \in requests' PROVE RequestKept(o, cli, Alive', doubtful)
  <2>1. CASE o = u /\ u.by # None
    BY <1>1, <1>2, <1>3, <2>1 DEF RequestKept
  <2>2. CASE o \in requests /\ o # q
    <3>1. RequestKept(o, cli, Alive, doubtful)
      BY <2>2 DEF KeepInv
    <3>2. CASE Alive \subseteq Alive'
      BY <3>1, <3>2 DEF RequestKept
    <3>3. CASE q.by # None
      <4>1. ~o.served
        <5> SUFFICES ASSUME o.served PROVE FALSE
          OBVIOUS
        <5>1. o.by # None
          BY <3>1 DEF RequestKept
        <5>2. /\ q.by \in Procs /\ cli[q.by].pc = "await"
              /\ o.by \in Procs /\ cli[o.by].pc = "await"
          BY <2>2, <3>3, <5>1, Found, FoundRequest
        <5>3. o.by = q.by
          BY <5>2, Found DEF Locked
        <5> QED BY <2>2, <5>1, <5>3 DEF AuthInv, RequestHome
      <4> QED BY <3>1, <4>1 DEF RequestKept
    <3> QED BY <1>5, <3>2, <3>3
  <2> QED BY <1>4, <2>1, <2>2
<1>8. FileKept(file, cli, requests', Alive')
  <2> SUFFICES ASSUME Holds(file, "identity"), file.cred \notin Alive'
               PROVE  \E o \in Procs : Spent(o, cli[o], requests')
    BY DEF FileKept
  <2>1. CASE \E o \in Procs : Spent(o, cli[o], requests)
    <3>1. PICK o \in Procs : Spent(o, cli[o], requests)
      BY <2>1
    <3>2. \A v \in requests : v.served => v \in requests'
      BY <1>1, <1>4
    <3> QED BY <3>1, <3>2 DEF Spent
  <2>2. CASE file.cred \in Alive
    <3>1. q.by # None /\ q.op = "refresh"
      BY <1>5, <2>2
    <3>2. /\ q.by \in Procs /\ cli[q.by].pc = "await" /\ cli[q.by].cmd = "refresh"
      BY <1>1, <3>1, Found, FoundRequest DEF RequestKept, CommandOf
    <3>3. u \in requests' /\ u.by = q.by /\ u.served
      BY <1>3, <1>4, <3>1
    <3> QED BY <3>2, <3>3 DEF Spent
  <2> QED BY <2>1, <2>2 DEF KeepInv, FileKept
<1>9. /\ \A o \in Procs : RunKept(cli'[o], Alive')
      /\ \A o \in requests' : RequestKept(o, cli', Alive', doubtful')
      /\ FileKept(file', cli', requests', Alive')
  BY <1>1, <1>6, <1>7, <1>8
<1> QED BY <1>9 DEF KeepInv

LEMMA OtherKept ==
  ASSUME KeepInv, UNCHANGED <<file, cli, requests, live, doubtful>> PROVE KeepInv'
<1>1. Alive' = Alive
  BY DEF Alive
<1>2. /\ \A o \in Procs : RunKept(cli'[o], Alive')
      /\ \A o \in requests' : RequestKept(o, cli', Alive', doubtful')
      /\ FileKept(file', cli', requests', Alive')
  BY <1>1 DEF KeepInv
<1> QED BY <1>2 DEF KeepInv

LEMMA NextKept == AuthInv /\ KeepInv /\ [Next]_vars => KeepInv'
<1> SUFFICES ASSUME AuthInv, KeepInv, [Next]_vars PROVE KeepInv'
  OBVIOUS
<1>1. ASSUME NEW p \in Procs, Step(p) PROVE KeepInv'
  BY <1>1, BeginKept, FirstStepsKept, ClearKept, SendersKept, WriteKept, SaveKept,
     ReleaseKept, FailureKept DEF Step
<1>2. ASSUME NEW p \in Procs, Crash(p) PROVE KeepInv'
  BY <1>2, FailureKept
<1>3. ASSUME Human PROVE KeepInv'
  <2>1. RemoveStaleLock => KeepInv'
    BY OtherKept DEF RemoveStaleLock
  <2> QED BY <1>3, <2>1, SendersKept, BadCodeKept DEF Human
<1>4. ASSUME Provider PROVE KeepInv'
  <2>1. ASSUME NEW o \in Resources, NEW i \in Issuers, ChangeIssuer(o, i) PROVE KeepInv'
    BY <2>1, OtherKept DEF ChangeIssuer
  <2> QED BY <1>4, <2>1, ServeKept, AnswerKept, RejectKept DEF Provider
<1>5. ASSUME UNCHANGED vars PROVE KeepInv'
  BY <1>5, OtherKept DEF vars
<1> QED BY <1>1, <1>2, <1>3, <1>4, <1>5 DEF Next

LEMMA AlwaysKept == Spec => [](AuthInv /\ KeepInv)
BY InitAuth, AuthStep, InitKept, NextKept, PTL DEF Spec

-----------------------------------------------------------------------------
(* Theorems.                                                               *)

\* The stored identity is one its issuer honours, unless its rotation is under
\* way or was given up half-way (cli/auth.ts, refresh and save).
THEOREM IdentityLive == Spec => []StoredIsLive
<1>1. AuthInv /\ KeepInv => StoredIsLive
  <2> SUFFICES ASSUME AuthInv, KeepInv, Holds(file, "identity")
               PROVE  file.cred \in live \union doubtful \union Rotating
    BY DEF StoredIsLive
  <2>1. CASE file.cred \in Alive
    BY <2>1 DEF Alive
  <2>2. CASE \E p \in Procs : Spent(p, cli[p], requests)
    <3>1. PICK p \in Procs : Spent(p, cli[p], requests)
      BY <2>2
    <3>2. cli[p].cmd = "refresh" /\ cli[p].pc \in {"await", "write", "rename"}
      BY <3>1 DEF Spent, Saving
    <3>3. cli[p].read = file
      BY <3>2, Found DEF Deciding
    <3>4. file.cred \in Rotating
      BY <3>2, <3>3 DEF Rotating, Rotates
    <3> QED BY <3>4
  <2> QED BY <2>1, <2>2 DEF KeepInv, FileKept
<1> QED BY <1>1, AlwaysKept, PTL

\* Only logout drops a registration: start and cancel look for one before they
\* save, and refresh saves its successor (cli/auth.ts).
THEOREM RegistrationIsKept == Spec => RegistrationKept
<1> DEFINE Drops == Holds(file, "identity") /\ ~Holds(file', "identity")
           ByLogout == \E p \in Procs : lock = p /\ cli[p].cmd = "logout"
<1>1. AuthInv /\ KeepInv /\ [Next]_vars => (Drops => ByLogout)
  <2> SUFFICES ASSUME AuthInv, KeepInv, [Next]_vars, Drops PROVE ByLogout
    OBVIOUS
  <2>1. file' # file
    OBVIOUS
  <2>2. PICK p \in Procs : RenameTemporary(p)
    BY <2>1 DEF Next, Step, Human, Provider, vars, Begin, Discover, AcquireLock, Read,
       Logout, Cancel, Reports, Start, Attempt, AskCode, Refresh, Exchange,
       WriteTemporary, Release, Abort, Crash, GiveCode, GiveBadCode, RemoveStaleLock,
       Serve, Answer, Reject, ChangeIssuer, Sends, Unmoved
  <2>3. /\ cli[p].pc = "rename" /\ file' = cli[p].out /\ lock = p /\ cli[p].read = file
        /\ cli[p] \in Run /\ RunHome(cli[p]) /\ RunKept(cli[p], Alive)
    BY <2>2, Found DEF RenameTemporary, At, Locked, Deciding, KeepInv
  <2>4. cli[p].cmd \in Commands
    BY <2>3 DEF Run, RunHome
  <2>5. cli[p].cmd \notin {"start", "complete", "refresh", "cancel", "exchange"}
    BY <2>3 DEF RunKept, Working, Saving, Holds
  <2> QED BY <2>3, <2>4, <2>5 DEF Commands
<1> QED BY <1>1, AlwaysKept, PTL DEF Spec, RegistrationKept

-----------------------------------------------------------------------------
(* Progress.  The part of StoreReleased that is a safety property: a        *)
(* command never goes back, so it takes a bounded number of steps.          *)

Line == [discover |-> 1, lock |-> 2, read |-> 3, rediscover |-> 4, decide |-> 5,
         code |-> 6, await |-> 7, attempt |-> 8, write |-> 10, rename |-> 11,
         done |-> 12, release |-> 12]

\* start waits a second time, for the attempt, with its claim in hand.
Place(r) == IF r.pc = "await" /\ r.out # NoFile THEN 9 ELSE Line[r.pc]

Advances(c, d) ==
  c.pc # "idle" => d = c \/ d.pc = "idle" \/ Place(c) < Place(d)

\* Only the request for an attempt is sent with a state to save in hand.
FirstReplies ==
  \A q \in requests : q.by # None /\ q.op # "attempt" => cli[q.by].out = NoFile

LEMMA Fields ==
  ASSUME NEW c \in Run, NEW pc, NEW x
  PROVE  /\ [c EXCEPT !.pc = pc].pc = pc /\ [c EXCEPT !.pc = pc].out = c.out
         /\ [c EXCEPT !.pc = pc, !.issuer = x].pc = pc
         /\ [c EXCEPT !.pc = pc, !.read = x].pc = pc
         /\ [c EXCEPT !.pc = pc, !.out = x].pc = pc
         /\ [c EXCEPT !.pc = pc, !.out = x].out = x
         /\ [Idle EXCEPT !.pc = pc].pc = pc
BY DEF Run, Idle

LEMMA Changed ==
  ASSUME AuthInv, NEW p \in Procs, NEW r, Becomes(p, r)
  PROVE  cli'[p] = r /\ \A q \in Procs \ {p} : cli'[q] = cli[q]
BY DEF AuthInv, TypeOK, Becomes

\* A step of a command, or of the human at its prompt.
Moves(p) == Step(p) \/ Crash(p) \/ GiveCode(p) \/ GiveBadCode(p)

\* The step of the command that sends a request.
LEMMA SendAdvances ==
  ASSUME AuthInv, KeepInv, NEW p \in Procs,
         Start(p) \/ Attempt(p) \/ Refresh(p) \/ Exchange(p) \/ GiveCode(p)
  PROVE  /\ Becomes(p, [cli[p] EXCEPT !.pc = "await"])
         /\ Advances(cli[p], [cli[p] EXCEPT !.pc = "await"])
         /\ \E q : /\ requests' = requests \union {q} /\ q.by = p
                   /\ q.op # "attempt" => cli[p].out = NoFile
<1> DEFINE c == cli[p]
           d == [c EXCEPT !.pc = "await"]
<1>1. c \in Run /\ RunHome(c) /\ RunKept(c, Alive)
  BY DEF AuthInv, TypeOK, KeepInv
<1>2. PICK op, cred :
        /\ Sends(p, op, cred)
        /\ IF op = "attempt" THEN c.pc = "attempt" ELSE c.pc \in {"decide", "code"}
  BY DEF Start, Attempt, Refresh, Exchange, GiveCode, DecidesOnline, Decides, At
<1>3. /\ op = "attempt" => c.out # NoFile
      /\ op # "attempt" => c.out = NoFile
  BY <1>1, <1>2 DEF RunHome, Presentable, HoldsAny, RunKept, Early
<1>4. Becomes(p, d)
  BY <1>2 DEF Sends
<1>5. d.pc = "await" /\ d.out = c.out
  BY <1>1, Fields
<1> DEFINE q == [by |-> p, op |-> op, to |-> c.issuer, resource |-> c.resource,
                 cred |-> cred, answer |-> None, served |-> FALSE]
<1>6. requests' = requests \union {q} /\ q.by = p /\ q.op = op
  BY <1>2 DEF Sends
<1> HIDE DEF q, d
<1>7. Advances(c, d)
  BY <1>2, <1>3, <1>5 DEF Advances, Place, Line
<1> QED BY <1>3, <1>4, <1>6, <1>7 DEF d

LEMMA MoveAdvances ==
  ASSUME AuthInv, KeepInv, NEW p \in Procs, Moves(p)
  PROVE  \E r : Becomes(p, r) /\ Advances(cli[p], r)
<1> DEFINE c == cli[p]
<1>1. c \in Run
  BY DEF AuthInv, TypeOK
<1>2. CASE \E cmd \in Commands, o \in Resources : Begin(p, cmd, o)
  BY <1>2 DEF Begin, At, Advances
<1>3. CASE Discover(p)
  <2> DEFINE d == [c EXCEPT !.pc = IF At(p, "discover") THEN "lock" ELSE "decide",
                            !.issuer = issuerOf[c.resource]]
  <2>1. Becomes(p, d) /\ c.pc \in {"discover", "rediscover"}
    BY <1>3 DEF Discover
  <2>2. d.pc = IF c.pc = "discover" THEN "lock" ELSE "decide"
    BY <1>1, Fields DEF At
  <2> HIDE DEF d
  <2>3. Advances(c, d)
    BY <2>1, <2>2 DEF Advances, Place, Line
  <2> QED BY <2>1, <2>3
<1>4. ASSUME NEW pc, Becomes(p, [c EXCEPT !.pc = pc]),
             <<c.pc, pc>> \in {<<"lock", "read">>, <<"read", "release">>, <<"decide", "release">>,
                               <<"decide", "code">>, <<"write", "rename">>, <<"rename", "done">>}
      PROVE  \E r : Becomes(p, r) /\ Advances(c, r)
  <2> DEFINE d == [c EXCEPT !.pc = pc]
  <2>1. d.pc = pc
    BY <1>1, Fields
  <2> HIDE DEF d
  <2>2. Advances(c, d)
    BY <1>4, <2>1 DEF Advances, Place, Line
  <2> QED BY <1>4, <2>2 DEF d
<1>5. CASE AcquireLock(p) \/ Reports(p) \/ AskCode(p) \/ WriteTemporary(p) \/ RenameTemporary(p)
  BY <1>4, <1>5 DEF AcquireLock, Reports, AskCode, WriteTemporary, RenameTemporary,
     DecidesOnline, Decides, At
<1>6. CASE Read(p)
  <2>1. ASSUME NEW pc \in {"decide", "rediscover"}, Becomes(p, [c EXCEPT !.pc = pc, !.read = file])
        PROVE  \E r : Becomes(p, r) /\ Advances(c, r)
    <3> DEFINE d == [c EXCEPT !.pc = pc, !.read = file]
    <3>1. d.pc = pc /\ c.pc = "read"
      BY <1>1, <1>6, Fields DEF Read, At
    <3> HIDE DEF d
    <3>2. Advances(c, d)
      BY <3>1 DEF Advances, Place, Line
    <3> QED BY <2>1, <3>2 DEF d
  <2> QED BY <1>4, <1>6, <2>1 DEF Read, At
<1>7. CASE Logout(p) \/ Cancel(p)
  <2> DEFINE d == [c EXCEPT !.pc = "write", !.out = Cleared(p)]
  <2>1. Becomes(p, d) /\ c.pc = "decide"
    BY <1>7 DEF Logout, Cancel, Decides, At
  <2>2. d.pc = "write"
    BY <1>1, Fields
  <2> HIDE DEF d
  <2>3. Advances(c, d)
    BY <2>1, <2>2 DEF Advances, Place, Line
  <2> QED BY <2>1, <2>3
<1>8. CASE Start(p) \/ Attempt(p) \/ Refresh(p) \/ Exchange(p) \/ GiveCode(p)
  BY <1>8, SendAdvances
<1>9. CASE Release(p) \/ Crash(p)
  BY <1>9 DEF Release, Crash, Advances, Idle
<1>10. CASE Abort(p) \/ GiveBadCode(p)
  <2>1. PICK pc \in {"idle", "release"} : Becomes(p, [Idle EXCEPT !.pc = pc])
    BY <1>10 DEF Abort, GiveBadCode, NextAfterFailure
  <2> DEFINE d == [Idle EXCEPT !.pc = pc]
  <2>2. d.pc = pc /\ c.pc \notin {"idle", "done", "release"}
    BY <1>10 DEF Abort, GiveBadCode, At, Idle
  <2> HIDE DEF d
  <2>3. Advances(c, d)
    BY <1>1, <2>1, <2>2 DEF Advances, Place, Line, Run, Unlocked, Locked
  <2> QED BY <2>1, <2>3 DEF d
<1> QED BY <1>2, <1>3, <1>5, <1>6, <1>7, <1>8, <1>9, <1>10 DEF Moves, Step

\* The answer ends the wait: the claim's leads to the attempt or the save.
LEMMA AnswerAdvances ==
  ASSUME AuthInv, FirstReplies, NEW q \in requests, q.by # None, Answer(q) \/ Reject(q)
  PROVE  q.by \in Procs /\ \E r : Becomes(q.by, r) /\ Advances(cli[q.by], r)
<1> DEFINE c == cli[q.by]
<1>1. /\ q \in Requests /\ q.by \in Procs /\ c \in Run /\ c.pc = "await"
      /\ q.op # "attempt" => c.out = NoFile
  BY DEF AuthInv, TypeOK, Requests, RequestHome, At, FirstReplies
<1>2. CASE Answer(q)
  <2>1. PICK next \in AfterAnswer(q.op) :
          Becomes(q.by, [c EXCEPT !.pc = next, !.out = ToSave(q, q.by)])
    BY <1>2 DEF Answer
  <2> DEFINE d == [c EXCEPT !.pc = next, !.out = ToSave(q, q.by)]
  <2>2. d.pc = next
    BY <1>1, Fields
  <2> HIDE DEF d
  <2>3. next \in {"attempt", "write", "release"} /\ (next = "attempt" => q.op = "claim")
    BY <1>1, <2>1 DEF AfterAnswer, Requests
  <2>4. Advances(c, d)
    BY <1>1, <2>2, <2>3 DEF Advances, Place, Line
  <2> QED BY <1>1, <2>1, <2>4 DEF d
<1>3. CASE Reject(q)
  <2> DEFINE d == [Idle EXCEPT !.pc = "release"]
  <2>1. Becomes(q.by, d) /\ d.pc = "release"
    BY <1>3, <1>1, Fields DEF Reject
  <2> HIDE DEF d
  <2>2. Advances(c, d)
    BY <1>1, <2>1 DEF Advances, Place, Line
  <2> QED BY <1>1, <2>1, <2>2
<1> QED BY <1>2, <1>3

LEMMA RepliesStay ==
  ASSUME AuthInv, KeepInv, FirstReplies, [Next]_vars
  PROVE  FirstReplies'
<1>0. \A q \in requests : q \in Requests /\ (q.by # None => q.by \in Procs /\ At(q.by, "await"))
  BY DEF AuthInv, TypeOK, Requests, RequestHome
<1>1. ASSUME NEW p \in Procs, Start(p) \/ Attempt(p) \/ Refresh(p) \/ Exchange(p) \/ GiveCode(p)
      PROVE  FirstReplies'
  <2>1. cli'[p] = [cli[p] EXCEPT !.pc = "await"] /\ \A o \in Procs \ {p} : cli'[o] = cli[o]
    BY <1>1, SendAdvances, Changed
  <2>2. cli'[p].out = cli[p].out
    BY <2>1, Fields DEF AuthInv, TypeOK
  <2>3. PICK q : /\ requests' = requests \union {q} /\ q.by = p
                 /\ q.op # "attempt" => cli[p].out = NoFile
    BY <1>1, SendAdvances
  <2>4. ASSUME NEW o \in requests, o.by # None, o.op # "attempt" PROVE cli'[o.by].out = NoFile
    BY <1>0, <2>1, <2>2, <2>4 DEF FirstReplies
  <2> QED BY <2>2, <2>3, <2>4 DEF FirstReplies
<1>2. ASSUME NEW p \in Procs, Moves(p),
             ~(Start(p) \/ Attempt(p) \/ Refresh(p) \/ Exchange(p) \/ GiveCode(p))
      PROVE  FirstReplies'
  <2>1. \A o \in Procs \ {p} : cli'[o] = cli[o]
    BY <1>2, MoveAdvances, Changed
  <2>2. (requests' = requests /\ ~At(p, "await")) \/ requests' = Orphaned(p)
    BY <1>2 DEF Moves, Step, Begin, Discover, AcquireLock, Read, Logout, Cancel, Reports,
       AskCode, WriteTemporary, RenameTemporary, Release, Abort, Crash, Abandons, GiveBadCode,
       DecidesOnline, Decides, Unmoved, At
  <2>3. ASSUME NEW q \in requests', q.by # None PROVE q \in requests /\ q.by # p
    <3>1. ASSUME NEW o \in requests PROVE [o EXCEPT !.by = None].by = None
      BY <1>0 DEF Requests
    <3>2. CASE requests' = Orphaned(p)
      <4>1. ASSUME NEW o \in requests, q = [o EXCEPT !.by = None] PROVE FALSE
        BY <2>3, <3>1, <4>1
      <4> QED BY <2>3, <3>2, <4>1 DEF Orphaned
    <3> QED BY <1>0, <2>2, <2>3, <3>2
  <2> QED BY <1>0, <2>1, <2>3 DEF FirstReplies
<1>3. ASSUME NEW q \in requests, Answer(q) \/ Reject(q) PROVE FirstReplies'
  <2>1. requests' = requests \ {q}
    BY <1>3 DEF Answer, Reject
  <2>2. ASSUME NEW o \in Procs, o # q.by PROVE cli'[o] = cli[o]
    BY <1>3, <2>2 DEF Answer, Reject, Becomes, AuthInv, TypeOK
  <2>3. ASSUME NEW o \in requests', o.by # None PROVE o.by # q.by
    BY <2>1, <2>3 DEF AuthInv, RequestHome
  <2> QED BY <1>0, <2>1, <2>2, <2>3 DEF FirstReplies
<1>4. ASSUME NEW q \in requests, Serve(q) PROVE FirstReplies'
  <2>1. PICK a : Served(q, a) /\ cli' = cli
    BY <1>4 DEF Serve, ServeClaim, ServeComplete, ServeRefresh, ServeOther
  <2> DEFINE r == [q EXCEPT !.served = TRUE, !.answer = a]
  <2>2. r.by = q.by /\ r.op = q.op
    BY <1>0 DEF Requests
  <2>3. requests' \subseteq requests \union {r}
    BY <2>1 DEF Served
  <2> HIDE DEF r
  <2> QED BY <2>1, <2>2, <2>3 DEF FirstReplies
<1>5. CASE UNCHANGED <<requests, cli>>
  BY <1>5 DEF FirstReplies
<1>6. RemoveStaleLock \/ UNCHANGED vars \/ (\E r \in Resources, i \in Issuers : ChangeIssuer(r, i))
        => UNCHANGED <<requests, cli>>
  BY DEF RemoveStaleLock, ChangeIssuer, vars
<1> QED BY <1>1, <1>2, <1>3, <1>4, <1>5, <1>6 DEF Next, Human, Provider, Moves

\* However commands, humans and issuers interleave, each step leaves a command
\* that has begun where it is, ends it, or brings it to a later one of the
\* twelve places of cli/auth.ts: no command works on the store for ever, and
\* what can keep it is only the wait for a lock, a human or an answer.
THEOREM CommandsAdvance ==
  Spec => [][\A p \in Procs : Advances(cli[p], cli'[p])]_vars
<1>1. AuthInv /\ KeepInv /\ FirstReplies /\ [Next]_vars
        => [\A p \in Procs : Advances(cli[p], cli'[p])]_vars
  <2> SUFFICES ASSUME AuthInv, KeepInv, FirstReplies, [Next]_vars, NEW p \in Procs
               PROVE  Advances(cli[p], cli'[p])
    OBVIOUS
  <2>1. ASSUME NEW o \in Procs, NEW r, Becomes(o, r), Advances(cli[o], r)
        PROVE  Advances(cli[p], cli'[p])
    <3>1. cli'[o] = r /\ (p # o => cli'[p] = cli[p])
      BY <2>1, Changed
    <3> QED BY <2>1, <3>1 DEF Advances
  <2>2. CASE \E o \in Procs : Moves(o)
    BY <2>1, <2>2, MoveAdvances
  <2>3. ASSUME NEW q \in requests, Answer(q) \/ Reject(q) PROVE Advances(cli[p], cli'[p])
    <3>1. CASE q.by # None
      BY <2>1, <2>3, <3>1, AnswerAdvances
    <3>2. CASE q.by = None
      <4>1. cli'[p] = cli[p]
        BY <2>3, <3>2 DEF Answer, Reject, Becomes, AuthInv, TypeOK
      <4> QED BY <4>1 DEF Advances
    <3> QED BY <3>1, <3>2
  <2>4. CASE cli' = cli
    BY <2>4 DEF Advances
  <2>5. RemoveStaleLock \/ UNCHANGED vars \/ (\E q \in requests : Serve(q))
        \/ (\E r \in Resources, i \in Issuers : ChangeIssuer(r, i)) => cli' = cli
    BY DEF RemoveStaleLock, Serve, ChangeIssuer, vars
  <2> QED BY <2>2, <2>3, <2>4, <2>5 DEF Next, Human, Provider, Moves
<1>2. Init => FirstReplies
  BY DEF Init, FirstReplies
<1> QED BY <1>1, <1>2, RepliesStay, AlwaysKept, PTL DEF Spec
==============================================================================

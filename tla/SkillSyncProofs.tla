--------------------------- MODULE SkillSyncProofs ---------------------------
(* Proofs about SkillSync, for any number of commands, paths, revisions,    *)
(* drafts and faults.                                                       *)
EXTENDS SkillSync, TLAPS

USE SyncAssumption

\* A request whose sender still waits is that sender's only one.
RequestInv ==
  /\ \A e \in edits : e.by # None => At(e.by, "await")
  /\ \A e, f \in edits : e.by # None /\ e.by = f.by => e = f

\* A run that edits or rescans has a base, and sends at least one change.
RunInv ==
  \A p \in Procs :
    /\ cli[p].pc \in {"rescan", "edit"} => cli[p].base # None
    /\ cli[p].pc = "edit" => cli[p].local # Files[cli[p].base]

LockInv == TypeOK /\ LockDiscipline /\ RequestInv /\ RunInv

LEMMA TreeFacts ==
  /\ EmptyTree \in Trees
  /\ Idle \in Run
  /\ \A r \in Revisions : Files[r] \in Trees
BY DEF EmptyTree, Trees, Contents, Idle, Run, Unlocked, Locked

LEMMA ChangesType ==
  ASSUME NEW t \in Trees, NEW u \in Trees, t # u
  PROVE  SyncChanges(t, u) \in ChangeSets
<1> DEFINE S == {m \in Names : t[m] # u[m]}
<1>1. PICK n \in Names : t[n] # u[n]
  BY DEF Trees
<1>2. S \in (SUBSET Names) \ {{}}
  BY <1>1
<1>3. SyncChanges(t, u) \in [S -> Contents]
  BY DEF SyncChanges, Trees
<1> QED BY <1>2, <1>3 DEF ChangeSets

LEMMA ApplyType ==
  ASSUME NEW t \in Trees, NEW c \in ChangeSets
  PROVE  ApplyChanges(t, c) \in Trees
BY DEF ApplyChanges, Trees, ChangeSets

LEMMA WatchType ==
  ASSUME TypeOK, Watch, installed' \in Folders \union {NoFolder}
  PROVE  moments' \subseteq Trees
BY DEF TypeOK, Watch, FilesOf, Folders

LEMMA InitInv == Init => LockInv
BY TreeFacts DEF Init, LockInv, TypeOK, LockDiscipline, RequestInv, RunInv,
     FilesOf, Folders, At, Idle, Locked

\* A step of one run keeps the invariant if the run stays well-formed and the
\* lock file follows it.
LEMMA RunStep ==
  ASSUME LockInv, NEW p \in Procs, NEW r \in Run, Becomes(p, r),
         ~At(p, "await"),
         r.pc \in Locked <=> lock' = p,
         \A q \in Procs \ {p} : lock' = q <=> lock = q,
         lock' \in Procs \union {"free", "stale"},
         installed' \in Folders \union {NoFolder},
         moments' \subseteq Trees, had' \subseteq Trees,
         unused' \subseteq Drafts, faults' \in Nat,
         UNCHANGED <<staging, history, edits>>,
         r.pc \in {"rescan", "edit"} => r.base # None,
         r.pc = "edit" => r.local # Files[r.base]
  PROVE  LockInv'
<1>1. /\ cli' \in [Procs -> Run]
      /\ cli'[p] = r
      /\ \A q \in Procs \ {p} : cli'[q] = cli[q]
  BY DEF Becomes, LockInv, TypeOK
<1>2. TypeOK'
  BY <1>1 DEF LockInv, TypeOK
<1>3. LockDiscipline'
  BY <1>1 DEF LockInv, LockDiscipline
<1>4. RequestInv'
  BY <1>1 DEF LockInv, RequestInv, TypeOK, EditRequests, At
<1>5. RunInv'
  BY <1>1 DEF LockInv, RunInv
<1> QED BY <1>2, <1>3, <1>4, <1>5 DEF LockInv

\* The case of a step that changes nothing but the run.
LEMMA QuietStep ==
  ASSUME LockInv, NEW p \in Procs, NEW r \in Run, Becomes(p, r), Unmoved,
         ~At(p, "await"),
         r.pc \in Locked <=> cli[p].pc \in Locked,
         r.pc \in {"rescan", "edit"} => r.base # None,
         r.pc = "edit" => r.local # Files[r.base]
  PROVE  LockInv'
BY RunStep DEF Unmoved, LockInv, TypeOK, LockDiscipline

LEMMA StartStep ==
  ASSUME LockInv, NEW p \in Procs,
         (\E cmd \in {"pull", "push"} : StartManaged(p, cmd)) \/ StartFresh(p)
  PROVE  LockInv'
<1>1. ASSUME NEW cmd \in {"pull", "push"}, StartManaged(p, cmd) PROVE LockInv'
  <2> DEFINE r == [Idle EXCEPT !.pc = "scan", !.cmd = cmd,
                               !.base = installed.marker, !.left = Names]
  <2>1. r \in Run
    BY <1>1, TreeFacts DEF StartManaged, Managed, LockInv, TypeOK, Folders,
         Run, Unlocked
  <2>2. r.pc = "scan"
    BY DEF Idle
  <2> QED BY <1>1, <2>1, <2>2, QuietStep DEF StartManaged, At, Locked
<1>2. ASSUME StartFresh(p) PROVE LockInv'
  <2> DEFINE r == [Idle EXCEPT !.pc = "inspect", !.cmd = "pull"]
  <2>1. r \in Run
    BY TreeFacts DEF Run, Unlocked
  <2>2. r.pc = "inspect"
    BY DEF Idle
  <2> QED BY <1>2, <2>1, <2>2, QuietStep DEF StartFresh, At, Locked
<1> QED BY <1>1, <1>2

LEMMA ScanStep ==
  ASSUME LockInv, NEW p \in Procs, ScanFile(p) PROVE LockInv'
<1>1. cli[p] \in Run /\ installed \in Folders
  BY DEF LockInv, TypeOK, ScanFile
<1>2. PICK n \in cli[p].left :
        Becomes(p, [cli[p] EXCEPT !.scanned[n] = installed.files[n],
                                  !.left = @ \ {n}])
  BY DEF ScanFile
<1> DEFINE r == [cli[p] EXCEPT !.scanned[n] = installed.files[n],
                               !.left = @ \ {n}]
<1>3. [cli[p].scanned EXCEPT ![n] = installed.files[n]] \in Trees
  BY <1>1 DEF Run, Folders, Trees
<1>4. /\ r \in Run
      /\ r.pc = cli[p].pc /\ r.base = cli[p].base /\ r.local = cli[p].local
  BY <1>1, <1>3 DEF Run
<1> HIDE DEF r
<1> QED BY <1>2, <1>4, QuietStep DEF ScanFile, At, LockInv, RunInv, r

LEMMA CheckLocalStep ==
  ASSUME LockInv, NEW p \in Procs, CheckLocal(p) PROVE LockInv'
<1> DEFINE r == [cli[p] EXCEPT !.pc = "inspect", !.local = cli[p].scanned,
                               !.scanned = EmptyTree]
<1>1. cli[p] \in Run
  BY DEF LockInv, TypeOK
<1>2. r \in Run /\ r.pc = "inspect"
  BY <1>1, TreeFacts DEF Run, Unlocked
<1> QED BY <1>2, QuietStep DEF CheckLocal, At, Locked

LEMMA InspectStep ==
  ASSUME LockInv, NEW p \in Procs, Inspect(p) PROVE LockInv'
<1>1. cli[p] \in Run /\ history \subseteq Revisions
  BY DEF LockInv, TypeOK
<1>2. PICK v \in history : Becomes(p, [cli[p] EXCEPT !.pc = "lock", !.rev = v])
  BY DEF Inspect
<1> DEFINE r == [cli[p] EXCEPT !.pc = "lock", !.rev = v]
<1>3. r \in Run /\ r.pc = "lock"
  BY <1>1 DEF Run, Unlocked
<1> QED BY <1>2, <1>3, QuietStep DEF Inspect, At, Locked

\* open("wx") succeeds only when there is no lock file.
LEMMA AcquireStep ==
  ASSUME LockInv, NEW p \in Procs, AcquireLock(p) PROVE LockInv'
<1> DEFINE r == [cli[p] EXCEPT !.pc = "recheck"]
<1>1. cli[p] \in Run
  BY DEF LockInv, TypeOK
<1>2. r \in Run /\ r.pc = "recheck"
  BY <1>1 DEF Run, Locked
<1>3. /\ Becomes(p, r) /\ ~At(p, "await")
      /\ lock = "free" /\ lock' = p
      /\ UNCHANGED <<installed, had, staging, history, edits, unused, faults>>
      /\ Watch
  BY DEF AcquireLock, LockAvailable, At
<1>4. moments' \subseteq Trees
  BY <1>3, WatchType DEF LockInv, TypeOK
<1>5. \A q \in Procs \ {p} : lock' = q <=> lock = q
  BY <1>3
<1> HIDE DEF r
<1> QED BY <1>2, <1>3, <1>4, <1>5, RunStep DEF LockInv, TypeOK, Locked

LEMMA RecheckStep ==
  ASSUME LockInv, NEW p \in Procs, Recheck(p) PROVE LockInv'
<1>1. cli[p] \in Run
  BY DEF LockInv, TypeOK
<1>2. CASE cli[p].base # None
  <2> DEFINE r == [cli[p] EXCEPT !.pc = "rescan", !.left = Names]
  <2>1. r \in Run /\ r.pc = "rescan" /\ r.base # None
    BY <1>1, <1>2 DEF Run, Locked
  <2> QED BY <1>2, <2>1, QuietStep DEF Recheck, At, Locked
<1>3. CASE cli[p].base = None
  <2> DEFINE r == [cli[p] EXCEPT !.pc = "download"]
  <2>1. r \in Run /\ r.pc = "download"
    BY <1>1 DEF Run, Locked
  <2> QED BY <1>3, <2>1, QuietStep DEF Recheck, At, Locked
<1> QED BY <1>2, <1>3

LEMMA CompareStep ==
  ASSUME LockInv, NEW p \in Procs, Compare(p) PROVE LockInv'
<1> DEFINE next == IF cli[p].cmd = "pull" THEN "download"
                   ELSE IF HasChanges(p) THEN "edit" ELSE "release"
           r == [cli[p] EXCEPT !.pc = next, !.scanned = EmptyTree]
<1>1. cli[p] \in Run /\ cli[p].base # None
  BY DEF LockInv, TypeOK, RunInv, Compare, At
<1>2. next \in {"download", "edit", "release"}
  OBVIOUS
<1>3. next = "edit" => cli[p].local # Files[cli[p].base]
  BY DEF HasChanges
<1> HIDE DEF next
<1>4. /\ r \in Run
      /\ r.pc = next /\ r.base = cli[p].base /\ r.local = cli[p].local
  BY <1>1, <1>2, TreeFacts DEF Run, Locked
<1>5. Becomes(p, r) /\ Unmoved /\ At(p, "rescan")
  BY DEF Compare, next
<1> HIDE DEF r
<1> QED BY <1>1, <1>2, <1>3, <1>4, <1>5, QuietStep DEF At, Locked

LEMMA ReceiptStep ==
  ASSUME LockInv, NEW p \in Procs, CheckReceipt(p) PROVE LockInv'
<1> DEFINE r == [cli[p] EXCEPT !.pc = "temp"]
<1>1. cli[p] \in Run
  BY DEF LockInv, TypeOK
<1>2. r \in Run /\ r.pc = "temp"
  BY <1>1 DEF Run, Locked
<1> QED BY <1>2, QuietStep DEF CheckReceipt, At, Locked

LEMMA DownloadStep ==
  ASSUME LockInv, NEW p \in Procs, Download(p) PROVE LockInv'
<1>1. cli[p] \in Run
  BY DEF LockInv, TypeOK
<1>2. PICK got \in Trees :
        Becomes(p, IF cli[p].base = None
                   THEN [cli[p] EXCEPT !.pc = "install", !.local = got]
                   ELSE [cli[p] EXCEPT !.pc = "lastscan", !.local = got,
                                       !.left = Names])
  BY DEF Download
<1>3. CASE cli[p].base = None
  <2> DEFINE r == [cli[p] EXCEPT !.pc = "install", !.local = got]
  <2>1. r \in Run /\ r.pc = "install"
    BY <1>1 DEF Run, Locked
  <2> QED BY <1>2, <1>3, <2>1, QuietStep DEF Download, At, Locked
<1>4. CASE cli[p].base # None
  <2> DEFINE r == [cli[p] EXCEPT !.pc = "lastscan", !.local = got, !.left = Names]
  <2>1. r \in Run /\ r.pc = "lastscan"
    BY <1>1 DEF Run, Locked
  <2> QED BY <1>2, <1>4, <2>1, QuietStep DEF Download, At, Locked
<1> QED BY <1>3, <1>4

LEMMA LastCheckStep ==
  ASSUME LockInv, NEW p \in Procs, LastCheck(p) PROVE LockInv'
<1> DEFINE r == [cli[p] EXCEPT !.pc = "aside", !.scanned = EmptyTree]
<1>1. cli[p] \in Run
  BY DEF LockInv, TypeOK
<1>2. r \in Run /\ r.pc = "aside"
  BY <1>1, TreeFacts DEF Run, Locked
<1> QED BY <1>2, QuietStep DEF LastCheck, At, Locked

\* The lock's owner changes the folder and keeps the lock.
LEMMA FolderStep ==
  ASSUME LockInv, NEW p \in Procs, NEW r \in Run, Becomes(p, r),
         cli[p].pc \in Locked, ~At(p, "await"),
         r.pc \in Locked \ {"rescan", "edit"},
         installed' \in Folders \union {NoFolder},
         had' \subseteq Trees, UNCHANGED <<lock, staging, history, edits, unused, faults>>,
         Watch
  PROVE  LockInv'
<1>1. moments' \subseteq Trees
  BY WatchType DEF LockInv
<1>2. lock = p
  BY DEF LockInv, LockDiscipline
<1> QED BY <1>1, <1>2, RunStep DEF LockInv, TypeOK

LEMMA WriteTemporaryStep ==
  ASSUME LockInv, NEW p \in Procs, WriteTemporary(p) PROVE LockInv'
<1>1. cli[p] \in Run /\ installed \in Folders /\ had \subseteq Trees
  BY DEF LockInv, TypeOK, WriteTemporary
<1>2. PICK t \in TempNames :
        /\ installed' = [installed EXCEPT !.files[t] = BindingBytes]
        /\ Becomes(p, [cli[p] EXCEPT !.pc = "rename", !.temp = t])
  BY DEF WriteTemporary
<1> DEFINE r == [cli[p] EXCEPT !.pc = "rename", !.temp = t]
<1>3. r \in Run /\ r.pc = "rename"
  BY <1>1 DEF Run, Locked
<1>4. [installed.files EXCEPT ![t] = BindingBytes] \in Trees
  BY <1>1 DEF Folders, Trees, Contents
<1>5. installed' \in Folders
  BY <1>1, <1>2, <1>4 DEF Folders
<1> QED BY <1>1, <1>2, <1>3, <1>5, FolderStep DEF WriteTemporary, At, Locked

LEMMA RenameMarkerStep ==
  ASSUME LockInv, NEW p \in Procs, RenameMarker(p) PROVE LockInv'
<1> DEFINE r == [cli[p] EXCEPT !.pc = "release"]
<1>1. cli[p] \in Run /\ installed \in Folders /\ had \subseteq Trees
  BY DEF LockInv, TypeOK, RenameMarker
<1>2. r \in Run /\ r.pc = "release"
  BY <1>1 DEF Run, Locked
<1>3. WithoutTemporary(installed.files, cli[p].temp) \in Trees
  BY <1>1 DEF WithoutTemporary, Folders, Trees, Contents
<1>4. installed' \in Folders
  BY <1>1, <1>3 DEF RenameMarker, Folders, Run
<1> QED BY <1>1, <1>2, <1>4, FolderStep DEF RenameMarker, At, Locked

LEMMA MoveAsideStep ==
  ASSUME LockInv, NEW p \in Procs, MoveAside(p) PROVE LockInv'
<1> DEFINE r == [cli[p] EXCEPT !.pc = "install", !.kept = SetAsideFolder]
<1>1. cli[p] \in Run /\ installed \in Folders /\ had \subseteq Trees
  BY DEF LockInv, TypeOK, MoveAside
<1>2. r \in Run /\ r.pc = "install"
  BY <1>1 DEF Run, Locked, SetAsideFolder
<1> QED BY <1>1, <1>2, FolderStep DEF MoveAside, At, Locked

LEMMA InstallStep ==
  ASSUME LockInv, NEW p \in Procs, Install(p) \/ InstallFails(p) PROVE LockInv'
<1>1. /\ cli[p] \in Run /\ installed \in Folders \union {NoFolder}
      /\ had \subseteq Trees
  BY DEF LockInv, TypeOK
<1> DEFINE r == [cli[p] EXCEPT !.pc = "release"]
           s == [cli[p] EXCEPT !.pc = "release", !.kept = NoFolder]
<1>2. r \in Run /\ r.pc = "release" /\ s \in Run /\ s.pc = "release"
  BY <1>1 DEF Run, Locked
<1>3. ASSUME Install(p) PROVE LockInv'
  <2>1. installed' \in Folders /\ had' \subseteq Trees
    BY <1>1, <1>3 DEF Install, Run, Folders
  <2> QED BY <1>2, <1>3, <2>1, FolderStep DEF Install, At, Locked
<1>4. ASSUME InstallFails(p), Becomes(p, r), UNCHANGED installed PROVE LockInv'
  BY <1>1, <1>2, <1>4, FolderStep DEF InstallFails, At, Locked
<1>5. ASSUME InstallFails(p), Becomes(p, s), installed' = cli[p].kept PROVE LockInv'
  <2>1. installed' \in Folders \union {NoFolder}
    BY <1>1, <1>5 DEF Run
  <2> QED BY <1>1, <1>2, <1>5, <2>1, FolderStep DEF InstallFails, At, Locked
<1> QED BY <1>3, <1>4, <1>5 DEF InstallFails

\* The owner unlinks the lock: nobody holds it afterwards.
LEMMA ReleaseStep ==
  ASSUME LockInv, NEW p \in Procs, Release(p) PROVE LockInv'
<1>1. lock = p /\ lock' = "free" /\ Becomes(p, Idle) /\ ~At(p, "await")
  BY DEF LockInv, LockDiscipline, Release, At, Locked
<1>2. moments' \subseteq Trees
  BY WatchType DEF LockInv, TypeOK, Release
<1>3. Idle.pc = "idle"
  BY DEF Idle
<1> QED BY <1>1, <1>2, <1>3, TreeFacts, RunStep DEF Release, LockInv, TypeOK, Locked

\* A run ends without answering its request, which stays behind without a
\* sender; the lock file follows the run.
LEMMA EndStep ==
  ASSUME LockInv, NEW p \in Procs,
         NEW pc \in (Unlocked \union Locked) \ {"rescan", "edit"},
         Becomes(p, [Idle EXCEPT !.pc = pc]), edits' = Orphaned(p),
         pc \in Locked <=> lock' = p,
         \A q \in Procs \ {p} : lock' = q <=> lock = q,
         lock' \in Procs \union {"free", "stale"},
         faults' \in Nat, moments' \subseteq Trees,
         UNCHANGED <<installed, had, staging, history, unused>>
  PROVE  LockInv'
<1> DEFINE r == [Idle EXCEPT !.pc = pc]
<1>1. r \in Run /\ r.pc = pc
  BY TreeFacts DEF Run
<1> HIDE DEF r
<1>2. /\ cli' \in [Procs -> Run]
      /\ cli'[p] = r
      /\ \A q \in Procs \ {p} : cli'[q] = cli[q]
  BY <1>1 DEF Becomes, LockInv, TypeOK, r
<1>3. ASSUME NEW f \in edits'
      PROVE  f \in EditRequests /\ (f.by # None => f \in edits /\ f.by # p)
  <2>1. PICK e \in edits : f = IF e.by = p THEN [e EXCEPT !.by = None] ELSE e
    BY DEF Orphaned
  <2>2. e \in EditRequests
    BY DEF LockInv, TypeOK
  <2>3. f \in EditRequests
    BY <2>1, <2>2 DEF EditRequests
  <2>4. f.by # None => f \in edits /\ f.by # p
    BY <2>1, <2>2 DEF EditRequests
  <2> QED BY <2>3, <2>4
<1>4. TypeOK'
  BY <1>2, <1>3 DEF LockInv, TypeOK
<1>5. LockDiscipline'
  BY <1>1, <1>2 DEF LockInv, LockDiscipline
<1>6. RequestInv'
  BY <1>2, <1>3 DEF LockInv, RequestInv, EditRequests, At
<1>7. RunInv'
  BY <1>1, <1>2 DEF LockInv, RunInv, Unlocked
<1> QED BY <1>4, <1>5, <1>6, <1>7 DEF LockInv

LEMMA AbortStep ==
  ASSUME LockInv, NEW p \in Procs, Abort(p) PROVE LockInv'
<1> DEFINE pc == NextAfterFailure(cli[p].pc)
<1>1. /\ pc \in (Unlocked \union Locked) \ {"rescan", "edit"}
      /\ pc \in Locked <=> cli[p].pc \in Locked
  BY DEF NextAfterFailure, Unlocked, Locked
<1>2. /\ Becomes(p, [Idle EXCEPT !.pc = pc]) /\ edits' = Orphaned(p)
      /\ UNCHANGED <<installed, lock, moments, had, staging, history, unused>>
  BY DEF Abort
<1>3. faults' \in Nat
  BY DEF Abort, LockInv, TypeOK
<1> HIDE DEF pc
<1> QED BY <1>1, <1>2, <1>3, EndStep DEF LockInv, TypeOK, LockDiscipline

LEMMA CrashStep ==
  ASSUME LockInv, NEW p \in Procs, Crash(p) PROVE LockInv'
<1>1. Becomes(p, [Idle EXCEPT !.pc = "idle"])
  BY DEF Crash, Idle
<1>2. "idle" \in (Unlocked \union Locked) \ {"rescan", "edit"} /\ "idle" \notin Locked
  BY DEF Unlocked, Locked
<1>3. /\ lock' # p
      /\ \A q \in Procs \ {p} : lock' = q <=> lock = q
      /\ lock' \in Procs \union {"free", "stale"}
  BY DEF Crash, LockInv, TypeOK
<1>4. moments' \subseteq Trees
  BY WatchType DEF LockInv, TypeOK, Crash
<1>5. /\ edits' = Orphaned(p) /\ faults' \in Nat
      /\ UNCHANGED <<installed, had, staging, history, unused>>
  BY DEF Crash, LockInv, TypeOK
<1> QED BY <1>1, <1>2, <1>3, <1>4, <1>5, EndStep

LEMMA SendStep ==
  ASSUME LockInv, NEW p \in Procs, SendEdit(p) PROVE LockInv'
<1> DEFINE r == [cli[p] EXCEPT !.pc = "await"]
           e == [by |-> p, expected |-> ExpectedRevision(p), made |-> None,
                 changes |-> SyncChanges(Files[cli[p].base], cli[p].local)]
<1>1. /\ cli[p] \in Run /\ cli[p].base \in Revisions
      /\ cli[p].local # Files[cli[p].base]
  BY DEF LockInv, TypeOK, RunInv, SendEdit, At, Run
<1>2. r \in Run /\ r.pc = "await"
  BY <1>1 DEF Run, Locked
<1>3. e \in EditRequests /\ e.by = p
  <2>1. Files[cli[p].base] \in Trees /\ cli[p].local \in Trees
    BY <1>1, TreeFacts DEF Run
  <2>2. SyncChanges(Files[cli[p].base], cli[p].local) \in ChangeSets
    BY <1>1, <2>1, ChangesType
  <2> QED BY <1>1, <2>2 DEF EditRequests, ExpectedRevision
<1>4. /\ At(p, "edit") /\ edits' = edits \union {e} /\ Becomes(p, r)
      /\ had' = had \union {cli[p].local}
      /\ UNCHANGED <<installed, lock, moments, staging, history, unused, faults>>
  BY DEF SendEdit
<1> HIDE DEF r, e
<1>5. /\ cli' \in [Procs -> Run]
      /\ cli'[p] = r
      /\ \A q \in Procs \ {p} : cli'[q] = cli[q]
  BY <1>2, <1>4 DEF Becomes, LockInv, TypeOK
<1>6. TypeOK'
  BY <1>1, <1>3, <1>4, <1>5 DEF LockInv, TypeOK, Run
<1>7. LockDiscipline'
  BY <1>2, <1>4, <1>5 DEF LockInv, LockDiscipline, At, Locked
<1>8. \A f \in edits : f.by # p
  BY <1>4 DEF LockInv, RequestInv, At
<1>9. RequestInv'
  BY <1>2, <1>3, <1>4, <1>5, <1>8 DEF LockInv, RequestInv, TypeOK, EditRequests, At
<1>10. RunInv'
  BY <1>2, <1>5 DEF LockInv, RunInv
<1> QED BY <1>6, <1>7, <1>9, <1>10 DEF LockInv

LEMMA AcceptStep ==
  ASSUME LockInv, NEW e \in edits, Accept(e) PROVE LockInv'
<1>1. PICK r \in Revisions :
        Point(r) /\ edits' = (edits \ {e}) \union {[e EXCEPT !.made = r]}
  BY DEF Accept
<1> DEFINE f == [e EXCEPT !.made = r]
<1>2. e \in EditRequests
  BY DEF LockInv, TypeOK
<1>3. f \in EditRequests /\ f.by = e.by
  BY <1>2 DEF EditRequests
<1>4. UNCHANGED <<installed, lock, cli, moments, had, unused, faults>>
  BY DEF Accept
<1> HIDE DEF f
<1>5. TypeOK'
  BY <1>1, <1>3, <1>4 DEF LockInv, TypeOK, Point, f
<1>6. edits' = (edits \ {e}) \union {f}
  BY <1>1 DEF f
<1>7. RequestInv'
  BY <1>3, <1>4, <1>6 DEF LockInv, RequestInv, At
<1> QED BY <1>4, <1>5, <1>7 DEF LockInv, LockDiscipline, RunInv

\* Answer and Conflict: the request goes, and a sender that waits moves on.
LEMMA ReplyStep ==
  ASSUME LockInv, NEW e \in edits,
         edits' = edits \ {e},
         \/ e.by = None /\ UNCHANGED cli
         \/ \E r \in Run : /\ e.by # None
                           /\ r.pc \in {"receipt", "release"}
                           /\ Becomes(e.by, r),
         UNCHANGED <<installed, lock, moments, had, staging, history, unused, faults>>
  PROVE  LockInv'
<1>1. e \in EditRequests
  BY DEF LockInv, TypeOK
<1>2. CASE e.by = None /\ UNCHANGED cli
  BY <1>2 DEF LockInv, TypeOK, LockDiscipline, RequestInv, RunInv, At
<1>3. ASSUME NEW r \in Run, e.by # None, r.pc \in {"receipt", "release"},
             Becomes(e.by, r)
      PROVE  LockInv'
  <2>1. e.by \in Procs /\ At(e.by, "await")
    BY <1>1, <1>3 DEF EditRequests, LockInv, RequestInv
  <2>2. /\ cli' \in [Procs -> Run]
        /\ cli'[e.by] = r
        /\ \A q \in Procs \ {e.by} : cli'[q] = cli[q]
    BY <1>3, <2>1 DEF Becomes, LockInv, TypeOK
  <2>3. TypeOK'
    BY <2>2 DEF LockInv, TypeOK
  <2>4. LockDiscipline'
    BY <1>3, <2>1, <2>2 DEF LockInv, LockDiscipline, At, Locked
  <2>5. \A f \in edits' : f \in edits /\ f.by # e.by
    BY <1>3 DEF LockInv, RequestInv
  <2>6. RequestInv'
    BY <2>2, <2>5 DEF LockInv, RequestInv, TypeOK, EditRequests, At
  <2>7. RunInv'
    BY <1>3, <2>2 DEF LockInv, RunInv
  <2> QED BY <2>3, <2>4, <2>6, <2>7 DEF LockInv
<1> QED BY <1>2, <1>3

LEMMA AnswerStep ==
  ASSUME LockInv, NEW e \in edits, Answer(e) PROVE LockInv'
<1>1. e \in EditRequests /\ staging \in Revisions /\ cli \in [Procs -> Run]
  BY DEF LockInv, TypeOK
<1>2. CASE e.by = None
  BY <1>2, ReplyStep DEF Answer
<1>3. CASE e.by # None
  <2>1. PICK v \in {e.made, staging} :
          Becomes(e.by, [cli[e.by] EXCEPT !.pc = "receipt", !.rev = v])
    BY <1>3 DEF Answer
  <2> DEFINE r == [cli[e.by] EXCEPT !.pc = "receipt", !.rev = v]
  <2>2. cli[e.by] \in Run /\ v \in Revisions
    BY <1>1, <1>3 DEF Answer, EditRequests
  <2>3. r \in Run /\ r.pc = "receipt"
    BY <2>2 DEF Run, Locked
  <2> QED BY <1>3, <2>1, <2>3, ReplyStep DEF Answer
<1> QED BY <1>2, <1>3

LEMMA ConflictStep ==
  ASSUME LockInv, NEW e \in edits, Conflict(e) PROVE LockInv'
<1> DEFINE r == [Idle EXCEPT !.pc = "release"]
<1>1. r \in Run /\ r.pc = "release"
  BY TreeFacts DEF Run, Locked
<1> QED BY <1>1, ReplyStep DEF Conflict

LEMMA LoseStep ==
  ASSUME LockInv, NEW e \in edits, Lose(e) PROVE LockInv'
BY ReplyStep DEF Lose

LEMMA PointStep ==
  ASSUME LockInv, NEW r \in Revisions, Point(r),
         UNCHANGED <<installed, lock, cli, moments, had, edits, unused, faults>>
  PROVE  LockInv'
BY DEF Point, LockInv, TypeOK, LockDiscipline, RequestInv, RunInv, At

\* The editor and the operator never take a lock from a running command.
LEMMA UserStep ==
  ASSUME LockInv,
         installed' \in Folders \union {NoFolder},
         lock' \in Procs \union {"free", "stale"},
         \A q \in Procs : lock' = q <=> lock = q,
         unused' \subseteq Drafts, moments' \subseteq Trees,
         UNCHANGED <<cli, had, staging, history, edits, faults>>
  PROVE  LockInv'
BY DEF LockInv, TypeOK, LockDiscipline, RequestInv, RunInv, At

LEMMA SaveStep ==
  ASSUME LockInv, NEW n \in Paths, Save(n) PROVE LockInv'
<1> DEFINE draft == CHOOSE d \in unused : TRUE
           before == IF installed = NoFolder
                     THEN [files |-> EmptyTree, marker |-> None] ELSE installed
<1>1. before \in Folders /\ draft \in Drafts /\ unused' \subseteq Drafts
  BY TreeFacts DEF Save, LockInv, TypeOK, Folders
<1>2. installed' = [before EXCEPT !.files[n] = draft]
  BY DEF Save
<1> HIDE DEF before, draft
<1>3. [before.files EXCEPT ![n] = draft] \in Trees
  BY <1>1 DEF Folders, Trees, Names, Contents
<1>4. installed' \in Folders
  BY <1>1, <1>2, <1>3 DEF Folders
<1>5. moments' \subseteq Trees
  BY <1>4, WatchType DEF Save, LockInv
<1>6. UNCHANGED <<lock, cli, had, staging, history, edits, faults>>
  BY DEF Save
<1> QED BY <1>1, <1>4, <1>5, <1>6, UserStep DEF LockInv, TypeOK

LEMMA DeleteStep ==
  ASSUME LockInv, NEW n \in Paths, Delete(n) PROVE LockInv'
<1>1. installed \in Folders /\ unused' \subseteq Drafts
  BY DEF Delete, LockInv, TypeOK
<1>2. [installed.files EXCEPT ![n] = Absent] \in Trees
  BY <1>1 DEF Folders, Trees, Names, Contents
<1>3. installed' \in Folders
  BY <1>1, <1>2 DEF Delete, Folders
<1>4. moments' \subseteq Trees
  BY <1>3, WatchType DEF Delete, LockInv
<1>5. UNCHANGED <<lock, cli, had, staging, history, edits, faults>>
  BY DEF Delete
<1> QED BY <1>1, <1>3, <1>4, <1>5, UserStep DEF LockInv, TypeOK

LEMMA HandStep ==
  ASSUME LockInv, PreserveByHand \/ RemoveStaleLock PROVE LockInv'
<1>1. ASSUME PreserveByHand PROVE LockInv'
  BY <1>1, UserStep DEF PreserveByHand, LockInv, TypeOK
<1>2. ASSUME RemoveStaleLock PROVE LockInv'
  <2>1. \A q \in Procs : lock' # q /\ lock # q
    BY <1>2 DEF RemoveStaleLock
  <2> QED BY <1>2, <2>1, UserStep DEF RemoveStaleLock, LockInv, TypeOK
<1> QED BY <1>1, <1>2

LEMMA LockInvStep == LockInv /\ [Next]_vars => LockInv'
<1> SUFFICES ASSUME LockInv, [Next]_vars PROVE LockInv'
  OBVIOUS
<1>1. ASSUME NEW p \in Procs, Step(p) PROVE LockInv'
  BY <1>1, StartStep, ScanStep, CheckLocalStep, InspectStep, AcquireStep,
     RecheckStep, CompareStep, SendStep, ReceiptStep, WriteTemporaryStep,
     RenameMarkerStep, DownloadStep, LastCheckStep, MoveAsideStep, InstallStep,
     ReleaseStep, AbortStep DEF Step
<1>2. ASSUME NEW p \in Procs, Crash(p) PROVE LockInv'
  BY <1>2, CrashStep
<1>3. ASSUME Service PROVE LockInv'
  <2>1. ASSUME NEW e \in edits, Accept(e) \/ Answer(e) \/ Conflict(e) \/ Lose(e)
        PROVE  LockInv'
    BY <2>1, AcceptStep, AnswerStep, ConflictStep, LoseStep
  <2>2. ASSUME NEW r \in Revisions, Publish(r) \/ Rollback(r) PROVE LockInv'
    BY <2>2, PointStep DEF Publish, Rollback
  <2> QED BY <1>3, <2>1, <2>2 DEF Service, LockInv, TypeOK
<1>4. ASSUME User PROVE LockInv'
  BY <1>4, SaveStep, DeleteStep, HandStep DEF User
<1>5. ASSUME UNCHANGED vars PROVE LockInv'
  BY <1>5 DEF vars, LockInv, TypeOK, LockDiscipline, RequestInv, RunInv, At
<1> QED BY <1>1, <1>2, <1>3, <1>4, <1>5 DEF Next

THEOREM LockInvariant == Spec => []LockInv
BY InitInv, LockInvStep, PTL DEF Spec

\* Every reachable state of any number of commands, paths and revisions is
\* well-formed: in particular a push never sends an empty set of changes.
THEOREM Typing == Spec => []TypeOK
BY LockInvariant, PTL DEF LockInv

\* The lock file belongs to exactly the run that is between its open("wx")
\* and its unlink, however runs fail, die or are cleaned up by hand.
THEOREM Exclusion == Spec => []LockDiscipline
BY LockInvariant, PTL DEF LockInv

----------------------------------------------------------------------------
(* A push replaces only what the folder held: wherever a revision is kept   *)
(* that a later push may send as expected, its package is in had.           *)

FolderKnown(f, packages) ==
  f # NoFolder /\ f.marker # None => Files[f.marker] \in packages

RunKnown(r, packages) ==
  /\ r.base # None => Files[r.base] \in packages
  /\ FolderKnown(r.kept, packages)
  /\ r.pc \in {"await", "receipt", "temp", "rename"} => r.local \in packages
  /\ r.pc \in {"temp", "rename", "lastscan", "aside", "install"} =>
       Files[r.rev] = r.local

KnownInv ==
  /\ FolderKnown(installed, had)
  /\ \A p \in Procs : RunKnown(cli[p], had)
  /\ OnlyReplacesKnown

LEMMA InitKnown == Init => KnownInv
BY DEF Init, KnownInv, FolderKnown, RunKnown, OnlyReplacesKnown, FilesOf, Idle

LEMMA IdleKnown ==
  ASSUME NEW h, NEW pc \in {"idle", "inspect", "release"}
  PROVE  RunKnown([Idle EXCEPT !.pc = pc], h)
BY DEF RunKnown, FolderKnown, Idle

\* What has to be shown of a step of one run.
LEMMA KnownRunStep ==
  ASSUME LockInv, KnownInv, NEW p \in Procs, NEW r, Becomes(p, r),
         had \subseteq had',
         FolderKnown(installed', had'), RunKnown(r, had'),
         \A e \in edits' : Files[e.expected] \in had'
  PROVE  KnownInv'
<1>1. \A q \in Procs : cli'[q] = IF q = p THEN r ELSE cli[q]
  BY DEF LockInv, TypeOK, Becomes
<1>2. \A q \in Procs : RunKnown(cli[q], had')
  BY DEF KnownInv, RunKnown, FolderKnown
<1>3. \A q \in Procs : RunKnown(cli'[q], had')
  BY <1>1, <1>2
<1>4. OnlyReplacesKnown'
  BY DEF OnlyReplacesKnown
<1> QED BY <1>3, <1>4 DEF KnownInv

LEMMA KnownQuietStep ==
  ASSUME LockInv, KnownInv, NEW p \in Procs, NEW r, Becomes(p, r), Unmoved,
         RunKnown(r, had)
  PROVE  KnownInv'
BY KnownRunStep DEF Unmoved, KnownInv, OnlyReplacesKnown

\* The steps that change only the run.
LEMMA KnownPreparations ==
  ASSUME LockInv, KnownInv, NEW p \in Procs,
         \/ \E cmd \in {"pull", "push"} : StartManaged(p, cmd)
         \/ StartFresh(p) \/ ScanFile(p) \/ CheckLocal(p) \/ Inspect(p)
         \/ Recheck(p) \/ Compare(p) \/ CheckReceipt(p) \/ Download(p)
         \/ LastCheck(p)
  PROVE  KnownInv'
<1> DEFINE c == cli[p]
<1>1. c \in Run /\ RunKnown(c, had) /\ FolderKnown(installed, had)
  BY DEF LockInv, TypeOK, KnownInv
<1> HIDE DEF c
<1>2. ASSUME NEW cmd \in {"pull", "push"}, StartManaged(p, cmd) PROVE KnownInv'
  <2> DEFINE r == [Idle EXCEPT !.pc = "scan", !.cmd = cmd,
                               !.base = installed.marker, !.left = Names]
  <2>1. RunKnown(r, had)
    BY <1>1, <1>2 DEF StartManaged, Managed, RunKnown, FolderKnown, Idle
  <2> QED BY <1>2, <2>1, KnownQuietStep DEF StartManaged
<1>3. ASSUME StartFresh(p) PROVE KnownInv'
  <2> DEFINE r == [Idle EXCEPT !.pc = "inspect", !.cmd = "pull"]
  <2>1. RunKnown(r, had)
    BY DEF RunKnown, FolderKnown, Idle
  <2> QED BY <1>3, <2>1, KnownQuietStep DEF StartFresh
<1>4. ASSUME ScanFile(p) PROVE KnownInv'
  <2>1. PICK n \in c.left :
          Becomes(p, [c EXCEPT !.scanned[n] = installed.files[n],
                               !.left = @ \ {n}])
    BY <1>4 DEF ScanFile, c
  <2> DEFINE r == [c EXCEPT !.scanned[n] = installed.files[n],
                            !.left = @ \ {n}]
  <2>2. RunKnown(r, had)
    BY <1>1 DEF RunKnown, Run
  <2> HIDE DEF r
  <2> QED BY <1>4, <2>1, <2>2, KnownQuietStep DEF ScanFile, r
<1>5. ASSUME CheckLocal(p) PROVE KnownInv'
  <2> DEFINE r == [c EXCEPT !.pc = "inspect", !.local = c.scanned,
                            !.scanned = EmptyTree]
  <2>1. RunKnown(r, had)
    BY <1>1 DEF RunKnown, Run
  <2> QED BY <1>5, <2>1, KnownQuietStep DEF CheckLocal, c
<1>6. ASSUME Inspect(p) PROVE KnownInv'
  <2>1. PICK v \in history : Becomes(p, [c EXCEPT !.pc = "lock", !.rev = v])
    BY <1>6 DEF Inspect, c
  <2> DEFINE r == [c EXCEPT !.pc = "lock", !.rev = v]
  <2>2. RunKnown(r, had)
    BY <1>1 DEF RunKnown, Run
  <2> QED BY <1>6, <2>1, <2>2, KnownQuietStep DEF Inspect
<1>7. ASSUME Recheck(p) PROVE KnownInv'
  <2> DEFINE r == [c EXCEPT !.pc = "rescan", !.left = Names]
             s == [c EXCEPT !.pc = "download"]
  <2>1. RunKnown(r, had) /\ RunKnown(s, had)
    BY <1>1 DEF RunKnown, Run
  <2>2. Becomes(p, r) \/ Becomes(p, s)
    BY <1>7 DEF Recheck, c
  <2> QED BY <1>7, <2>1, <2>2, KnownQuietStep DEF Recheck
<1>8. ASSUME Compare(p) PROVE KnownInv'
  <2> DEFINE next == IF c.cmd = "pull" THEN "download"
                     ELSE IF HasChanges(p) THEN "edit" ELSE "release"
             r == [c EXCEPT !.pc = next, !.scanned = EmptyTree]
  <2>1. next \in {"download", "edit", "release"}
    OBVIOUS
  <2>2. Becomes(p, r)
    BY <1>8 DEF Compare, c
  <2> HIDE DEF next
  <2>3. RunKnown(r, had)
    BY <1>1, <2>1 DEF RunKnown, Run
  <2> QED BY <1>8, <2>2, <2>3, KnownQuietStep DEF Compare
<1>9. ASSUME CheckReceipt(p) PROVE KnownInv'
  <2> DEFINE r == [c EXCEPT !.pc = "temp"]
  <2>1. RunKnown(r, had)
    BY <1>1, <1>9 DEF RunKnown, Run, CheckReceipt, ReceiptMatches, At, c
  <2> QED BY <1>9, <2>1, KnownQuietStep DEF CheckReceipt, c
<1>10. ASSUME Download(p) PROVE KnownInv'
  <2>1. PICK got \in Trees :
          /\ Verified(got, c.rev)
          /\ Becomes(p, IF c.base = None
                        THEN [c EXCEPT !.pc = "install", !.local = got]
                        ELSE [c EXCEPT !.pc = "lastscan", !.local = got,
                                       !.left = Names])
    BY <1>10 DEF Download, c
  <2> DEFINE r == [c EXCEPT !.pc = "install", !.local = got]
             s == [c EXCEPT !.pc = "lastscan", !.local = got, !.left = Names]
  <2>2. RunKnown(r, had) /\ RunKnown(s, had)
    BY <1>1, <2>1 DEF RunKnown, Run, Verified
  <2>3. Becomes(p, r) \/ Becomes(p, s)
    BY <2>1
  <2> QED BY <1>10, <2>2, <2>3, KnownQuietStep DEF Download
<1>11. ASSUME LastCheck(p) PROVE KnownInv'
  <2> DEFINE r == [c EXCEPT !.pc = "aside", !.scanned = EmptyTree]
  <2>1. RunKnown(r, had)
    BY <1>1, <1>11 DEF RunKnown, Run, LastCheck, At, c
  <2> QED BY <1>11, <2>1, KnownQuietStep DEF LastCheck, c
<1> QED BY <1>2, <1>3, <1>4, <1>5, <1>6, <1>7, <1>8, <1>9, <1>10, <1>11

\* The steps under the lock that change the lock, the folder or the edits.
LEMMA KnownChanges ==
  ASSUME LockInv, KnownInv, NEW p \in Procs,
         \/ AcquireLock(p) \/ SendEdit(p) \/ WriteTemporary(p) \/ RenameMarker(p)
         \/ MoveAside(p) \/ Install(p) \/ InstallFails(p)
  PROVE  KnownInv'
<1> DEFINE c == cli[p]
<1>1. /\ c \in Run /\ RunKnown(c, had) /\ FolderKnown(installed, had)
      /\ installed \in Folders \union {NoFolder}
      /\ \A e \in edits : Files[e.expected] \in had
  BY DEF LockInv, TypeOK, KnownInv, OnlyReplacesKnown
<1> HIDE DEF c
<1>2. ASSUME AcquireLock(p) PROVE KnownInv'
  <2> DEFINE r == [c EXCEPT !.pc = "recheck"]
  <2>1. RunKnown(r, had)
    BY <1>1 DEF RunKnown, Run
  <2>2. Becomes(p, r) /\ UNCHANGED <<installed, had, edits>>
    BY <1>2 DEF AcquireLock, c
  <2> HIDE DEF r
  <2> QED BY <1>1, <2>1, <2>2, KnownRunStep
<1>3. ASSUME SendEdit(p) PROVE KnownInv'
  <2> DEFINE r == [c EXCEPT !.pc = "await"]
             e == [by |-> p, expected |-> ExpectedRevision(p), made |-> None,
                   changes |-> SyncChanges(Files[c.base], c.local)]
  <2>1. /\ Becomes(p, r) /\ edits' = edits \union {e}
        /\ had' = had \union {c.local} /\ installed' = installed
    BY <1>3 DEF SendEdit, c
  <2>2. RunKnown(r, had')
    BY <1>1, <2>1 DEF RunKnown, Run, FolderKnown
  <2>3. Files[e.expected] \in had'
    BY <1>1, <1>3, <2>1 DEF ExpectedRevision, RunKnown, LockInv, RunInv, SendEdit, At, c
  <2>4. FolderKnown(installed', had')
    BY <1>1, <2>1 DEF FolderKnown
  <2> HIDE DEF r, e
  <2> QED BY <1>1, <2>1, <2>2, <2>3, <2>4, KnownRunStep
<1>4. ASSUME WriteTemporary(p) PROVE KnownInv'
  <2>1. PICK t \in TempNames :
          /\ installed' = [installed EXCEPT !.files[t] = BindingBytes]
          /\ Becomes(p, [c EXCEPT !.pc = "rename", !.temp = t])
    BY <1>4 DEF WriteTemporary, c
  <2> DEFINE r == [c EXCEPT !.pc = "rename", !.temp = t]
  <2>2. At(p, "temp") /\ installed # NoFolder /\ UNCHANGED <<had, edits>>
    BY <1>4 DEF WriteTemporary
  <2>3. RunKnown(r, had)
    BY <1>1, <2>2 DEF RunKnown, Run, At, c
  <2>4. FolderKnown(installed', had)
    BY <1>1, <2>1, <2>2 DEF FolderKnown, Folders
  <2> HIDE DEF r
  <2> QED BY <1>1, <2>1, <2>2, <2>3, <2>4, KnownRunStep DEF r
<1>5. ASSUME RenameMarker(p) PROVE KnownInv'
  <2> DEFINE r == [c EXCEPT !.pc = "release"]
  <2>1. /\ At(p, "rename") /\ Becomes(p, r) /\ installed'.marker = c.rev
        /\ UNCHANGED <<had, edits>>
    BY <1>5 DEF RenameMarker, c
  <2>2. RunKnown(r, had)
    BY <1>1 DEF RunKnown, Run
  <2>3. FolderKnown(installed', had)
    BY <1>1, <2>1 DEF FolderKnown, RunKnown, At, c
  <2> HIDE DEF r
  <2> QED BY <1>1, <2>1, <2>2, <2>3, KnownRunStep
<1>6. ASSUME MoveAside(p) PROVE KnownInv'
  <2> DEFINE r == [c EXCEPT !.pc = "install", !.kept = SetAsideFolder]
  <2>1. /\ At(p, "aside") /\ Becomes(p, r) /\ installed' = NoFolder
        /\ UNCHANGED <<had, edits>>
    BY <1>6 DEF MoveAside, c
  <2>2. RunKnown(r, had)
    BY <1>1, <2>1 DEF RunKnown, Run, SetAsideFolder, At, c
  <2>3. FolderKnown(installed', had)
    BY <2>1 DEF FolderKnown
  <2> HIDE DEF r
  <2> QED BY <1>1, <2>1, <2>2, <2>3, KnownRunStep
<1>7. ASSUME Install(p) PROVE KnownInv'
  <2> DEFINE r == [c EXCEPT !.pc = "release"]
  <2>1. /\ At(p, "install") /\ Becomes(p, r) /\ had' = had \union {c.local}
        /\ installed'.marker = c.rev /\ edits' = edits
    BY <1>7 DEF Install, c
  <2>2. RunKnown(r, had')
    BY <1>1, <2>1 DEF RunKnown, FolderKnown, Run
  <2>3. FolderKnown(installed', had')
    BY <1>1, <2>1 DEF FolderKnown, RunKnown, At, c
  <2> HIDE DEF r
  <2> QED BY <1>1, <2>1, <2>2, <2>3, KnownRunStep
<1>8. ASSUME InstallFails(p) PROVE KnownInv'
  <2> DEFINE r == [c EXCEPT !.pc = "release"]
             s == [c EXCEPT !.pc = "release", !.kept = NoFolder]
  <2>1. /\ Becomes(p, r) \/ Becomes(p, s)
        /\ installed' \in {installed, c.kept}
        /\ UNCHANGED <<had, edits>>
    BY <1>8 DEF InstallFails, c
  <2>2. RunKnown(r, had) /\ RunKnown(s, had)
    BY <1>1 DEF RunKnown, Run, FolderKnown
  <2>3. FolderKnown(installed', had)
    BY <1>1, <2>1 DEF RunKnown
  <2> HIDE DEF r, s
  <2> QED BY <1>1, <2>1, <2>2, <2>3, KnownRunStep
<1> QED BY <1>2, <1>3, <1>4, <1>5, <1>6, <1>7, <1>8

\* A run that ends forgets what it knew.
LEMMA KnownEnds ==
  ASSUME LockInv, KnownInv, NEW p \in Procs, Release(p) \/ Abort(p) \/ Crash(p)
  PROVE  KnownInv'
<1>1. PICK pc \in {"idle", "release"} : Becomes(p, [Idle EXCEPT !.pc = pc])
  <2>1. Idle = [Idle EXCEPT !.pc = "idle"]
    BY DEF Idle
  <2>2. CASE Abort(p)
    <3>1. NextAfterFailure(cli[p].pc) \in {"idle", "release"}
      BY DEF NextAfterFailure
    <3> QED BY <2>2, <3>1 DEF Abort
  <2>3. CASE Release(p) \/ Crash(p)
    <3>1. Becomes(p, [Idle EXCEPT !.pc = "idle"])
      BY <2>1, <2>3 DEF Release, Crash
    <3> QED BY <3>1
  <2> QED BY <2>2, <2>3
<1>2. UNCHANGED <<installed, had>> /\ edits' \in {edits, Orphaned(p)}
  BY DEF Release, Abort, Crash
<1>3. ASSUME NEW f \in Orphaned(p) PROVE Files[f.expected] \in had
  <2>1. PICK e \in edits : f = IF e.by = p THEN [e EXCEPT !.by = None] ELSE e
    BY DEF Orphaned
  <2>2. f.expected = e.expected
    BY <2>1 DEF LockInv, TypeOK, EditRequests
  <2> QED BY <2>2 DEF KnownInv, OnlyReplacesKnown
<1> QED BY <1>1, <1>2, <1>3, IdleKnown, KnownRunStep
        DEF KnownInv, OnlyReplacesKnown

LEMMA KnownService ==
  ASSUME LockInv, KnownInv, Service PROVE KnownInv'
<1>1. ASSUME NEW e \in edits, Accept(e) PROVE KnownInv'
  <2>1. e \in EditRequests
    BY DEF LockInv, TypeOK
  <2>2. \A f \in edits' : \E g \in edits : f.expected = g.expected
    BY <1>1, <2>1 DEF Accept, EditRequests
  <2> QED BY <1>1, <2>2 DEF Accept, KnownInv, OnlyReplacesKnown
<1>2. ASSUME NEW e \in edits, NEW r, e.by # None, Becomes(e.by, r),
             RunKnown(r, had), edits' = edits \ {e}, UNCHANGED <<installed, had>>
      PROVE  KnownInv'
  <2>1. e.by \in Procs
    BY <1>2 DEF LockInv, TypeOK, EditRequests
  <2> QED BY <1>2, <2>1, KnownRunStep DEF KnownInv, OnlyReplacesKnown
<1>3. ASSUME NEW e \in edits, e.by = None, edits' = edits \ {e},
             UNCHANGED <<installed, cli, had>>
      PROVE  KnownInv'
  BY <1>3 DEF KnownInv, OnlyReplacesKnown
<1>4. ASSUME NEW e \in edits, Answer(e), e.by # None PROVE KnownInv'
  <2> DEFINE c == cli[e.by]
  <2>1. /\ e.by \in Procs /\ c \in Run /\ RunKnown(c, had) /\ c.pc = "await"
    BY <1>4 DEF LockInv, TypeOK, EditRequests, KnownInv, RequestInv, At
  <2>2. PICK v \in {e.made, staging} :
          Becomes(e.by, [c EXCEPT !.pc = "receipt", !.rev = v])
    BY <1>4 DEF Answer
  <2> DEFINE r == [c EXCEPT !.pc = "receipt", !.rev = v]
  <2>3. RunKnown(r, had)
    BY <2>1 DEF RunKnown, Run
  <2>4. edits' = edits \ {e} /\ UNCHANGED <<installed, had>>
    BY <1>4 DEF Answer
  <2> HIDE DEF r
  <2> QED BY <1>2, <1>4, <2>2, <2>3, <2>4 DEF r
<1>5. ASSUME NEW e \in edits, Conflict(e), e.by # None PROVE KnownInv'
  BY <1>2, <1>5, IdleKnown DEF Conflict
<1>6. ASSUME NEW r, Publish(r) \/ Rollback(r) PROVE KnownInv'
  BY <1>6 DEF Publish, Rollback, KnownInv, OnlyReplacesKnown
<1> QED BY <1>1, <1>3, <1>4, <1>5, <1>6 DEF Service, Answer, Conflict, Lose

LEMMA KnownUser ==
  ASSUME LockInv, KnownInv, User PROVE KnownInv'
<1>1. UNCHANGED <<cli, had, edits>>
  BY DEF User, Save, Delete, PreserveByHand, RemoveStaleLock
<1>2. FolderKnown(installed', had)
  <2>1. ASSUME NEW n \in Paths, Save(n) PROVE FolderKnown(installed', had)
    BY <2>1 DEF Save, KnownInv, FolderKnown, LockInv, TypeOK, Folders
  <2>2. ASSUME NEW n \in Paths, Delete(n) PROVE FolderKnown(installed', had)
    BY <2>2 DEF Delete, KnownInv, FolderKnown, LockInv, TypeOK, Folders
  <2>3. ASSUME PreserveByHand \/ RemoveStaleLock PROVE FolderKnown(installed', had)
    BY <2>3 DEF PreserveByHand, RemoveStaleLock, KnownInv, FolderKnown
  <2> QED BY <2>1, <2>2, <2>3 DEF User
<1> QED BY <1>1, <1>2 DEF KnownInv, OnlyReplacesKnown

LEMMA KnownStep == LockInv /\ KnownInv /\ [Next]_vars => KnownInv'
<1> SUFFICES ASSUME LockInv, KnownInv, [Next]_vars PROVE KnownInv'
  OBVIOUS
<1>1. ASSUME NEW p \in Procs, Step(p) \/ Crash(p) PROVE KnownInv'
  BY <1>1, KnownPreparations, KnownChanges, KnownEnds DEF Step
<1>2. ASSUME UNCHANGED vars PROVE KnownInv'
  BY <1>2 DEF vars, KnownInv, OnlyReplacesKnown
<1> QED BY <1>1, <1>2, KnownService, KnownUser DEF Next

\* No push, delayed or retried, ever asks the service to replace a revision
\* whose package was not in the user's folder: expectedRevisionId is the
\* marker's revision, and every way a marker comes to be (pull, the rename
\* after a push, the return of a backup) installs a package with it.
THEOREM KnownReplacement == Spec => []OnlyReplacesKnown
<1>1. Init => KnownInv
  BY InitKnown
<1>2. LockInv /\ KnownInv /\ [Next]_vars => KnownInv'
  BY KnownStep
<1>3. KnownInv => OnlyReplacesKnown
  BY DEF KnownInv
<1> QED BY <1>1, <1>2, <1>3, LockInvariant, PTL DEF Spec

----------------------------------------------------------------------------
(* Work survives: a backup is held only by a run that installs or releases. *)

RunHeld(r) ==
  /\ r.kept # NoFolder => r.pc \in {"install", "release"}
  /\ r.pc = "rename" => r.temp \in TempNames

HeldInv == \A p \in Procs : RunHeld(cli[p])

LEMMA InitHeld == Init => HeldInv
BY DEF Init, HeldInv, RunHeld, Idle

\* A step of a run is a step of that run alone.
LEMMA Alone ==
  ASSUME LockInv, NEW p \in Procs, Step(p) \/ Crash(p)
  PROVE  /\ DOMAIN cli' = Procs
         /\ \A q \in Procs \ {p} : cli'[q] = cli[q]
<1>1. ASSUME NEW r, Becomes(p, r)
      PROVE  DOMAIN cli' = Procs /\ \A q \in Procs \ {p} : cli'[q] = cli[q]
  BY <1>1 DEF Becomes, LockInv, TypeOK
<1>2. CASE (\E cmd \in {"pull", "push"} : StartManaged(p, cmd)) \/ StartFresh(p)
           \/ ScanFile(p) \/ CheckLocal(p) \/ Inspect(p) \/ AcquireLock(p)
  BY <1>1, <1>2 DEF StartManaged, StartFresh, ScanFile, CheckLocal, Inspect, AcquireLock
<1>3. CASE Recheck(p) \/ Compare(p) \/ SendEdit(p) \/ CheckReceipt(p)
           \/ WriteTemporary(p) \/ RenameMarker(p)
  BY <1>1, <1>3 DEF Recheck, Compare, SendEdit, CheckReceipt, WriteTemporary, RenameMarker
<1>4. CASE Download(p) \/ LastCheck(p) \/ MoveAside(p) \/ Install(p) \/ InstallFails(p)
           \/ Release(p) \/ Abort(p) \/ Crash(p)
  BY <1>1, <1>4 DEF Download, LastCheck, MoveAside, Install, InstallFails,
       Release, Abort, Crash
<1> QED BY <1>2, <1>3, <1>4 DEF Step

\* What a step does with the backup: only MoveAside makes one, and only the
\* end of a run or of an install gives it up.
LEMMA HeldStep ==
  ASSUME LockInv, HeldInv, NEW p \in Procs, Step(p) \/ Crash(p)
  PROVE  HeldInv'
<1> DEFINE c == cli[p]
<1>1. c \in Run /\ RunHeld(c) /\ cli \in [Procs -> Run]
  BY DEF LockInv, TypeOK, HeldInv
<1>2. ASSUME NEW r, Becomes(p, r) PROVE cli'[p] = r
  BY <1>1, <1>2 DEF Becomes
<1> HIDE DEF c
<1> SUFFICES RunHeld(cli'[p])
  BY Alone DEF HeldInv
<1>3. CASE (\E cmd \in {"pull", "push"} : StartManaged(p, cmd)) \/ StartFresh(p)
  <2>1. ASSUME NEW cmd \in {"pull", "push"}, StartManaged(p, cmd)
        PROVE  cli'[p].kept = NoFolder /\ cli'[p].pc # "rename"
    BY <1>1, <2>1 DEF StartManaged, Becomes, Idle
  <2>2. ASSUME StartFresh(p) PROVE cli'[p].kept = NoFolder /\ cli'[p].pc # "rename"
    BY <1>1, <2>2 DEF StartFresh, Becomes, Idle
  <2> QED BY <1>3, <2>1, <2>2 DEF RunHeld
<1>4. CASE ScanFile(p)
  <2>1. PICK n \in c.left : cli'[p] = [c EXCEPT !.scanned[n] = installed.files[n],
                                              !.left = @ \ {n}]
    BY <1>2, <1>4 DEF ScanFile, c
  <2> QED BY <1>1, <2>1 DEF RunHeld, Run
<1>5. CASE CheckLocal(p) \/ Inspect(p) \/ AcquireLock(p) \/ SendEdit(p)
           \/ CheckReceipt(p) \/ WriteTemporary(p) \/ RenameMarker(p) \/ LastCheck(p)
  <2>1. c.pc \notin {"install", "release"}
    BY <1>5 DEF CheckLocal, Inspect, AcquireLock, SendEdit, CheckReceipt,
         WriteTemporary, RenameMarker, LastCheck, At, c
  <2>2. /\ cli'[p].kept = c.kept
        /\ cli'[p].pc = "rename" => cli'[p].temp \in TempNames
    <3>1. CASE CheckLocal(p)
      <4>1. cli'[p] = [c EXCEPT !.pc = "inspect", !.local = c.scanned,
                                !.scanned = EmptyTree]
        BY <1>2, <3>1 DEF CheckLocal, c
      <4> QED BY <1>1, <4>1 DEF Run
    <3>2. CASE LastCheck(p)
      <4>1. cli'[p] = [c EXCEPT !.pc = "aside", !.scanned = EmptyTree]
        BY <1>2, <3>2 DEF LastCheck, c
      <4> QED BY <1>1, <4>1 DEF Run
    <3>3. CASE Inspect(p)
      <4>1. PICK r \in history : cli'[p] = [c EXCEPT !.pc = "lock", !.rev = r]
        BY <1>2, <3>3 DEF Inspect, c
      <4> QED BY <1>1, <4>1 DEF Run
    <3>4. CASE AcquireLock(p) \/ SendEdit(p) \/ CheckReceipt(p) \/ RenameMarker(p)
      <4>1. PICK pc \in {"recheck", "await", "temp", "release"} :
              cli'[p] = [c EXCEPT !.pc = pc]
        BY <1>2, <3>4 DEF AcquireLock, SendEdit, CheckReceipt, RenameMarker, c
      <4> QED BY <1>1, <4>1 DEF Run
    <3>5. CASE WriteTemporary(p)
      <4>1. PICK t \in TempNames : cli'[p] = [c EXCEPT !.pc = "rename", !.temp = t]
        BY <1>2, <3>5 DEF WriteTemporary, c
      <4> QED BY <1>1, <4>1 DEF Run
    <3> QED BY <1>5, <3>1, <3>2, <3>3, <3>4, <3>5
  <2> QED BY <1>1, <2>1, <2>2 DEF RunHeld
<1>6. CASE Recheck(p)
  <2>1. c.pc = "recheck" /\ cli'[p].kept = c.kept /\ cli'[p].pc # "rename"
    <3>1. \/ cli'[p] = [c EXCEPT !.pc = "rescan", !.left = Names]
          \/ cli'[p] = [c EXCEPT !.pc = "download"]
      BY <1>2, <1>6 DEF Recheck, c
    <3> QED BY <1>1, <1>6, <3>1 DEF Recheck, At, Run, c
  <2> QED BY <1>1, <2>1 DEF RunHeld
<1>7. CASE Compare(p)
  <2>1. c.pc = "rescan" /\ cli'[p].kept = c.kept /\ cli'[p].pc # "rename"
    <3>1. PICK pc \in {"download", "edit", "release"} :
            cli'[p] = [c EXCEPT !.pc = pc, !.scanned = EmptyTree]
      BY <1>2, <1>7 DEF Compare, c
    <3> QED BY <1>1, <1>7, <3>1 DEF Compare, At, Run, c
  <2> QED BY <1>1, <2>1 DEF RunHeld
<1>8. CASE Download(p)
  <2>1. c.pc = "download" /\ cli'[p].kept = c.kept /\ cli'[p].pc # "rename"
    <3>1. PICK got \in Trees :
            \/ cli'[p] = [c EXCEPT !.pc = "install", !.local = got]
            \/ cli'[p] = [c EXCEPT !.pc = "lastscan", !.local = got, !.left = Names]
      BY <1>2, <1>8 DEF Download, c
    <3> QED BY <1>1, <1>8, <3>1 DEF Download, At, Run, c
  <2> QED BY <1>1, <2>1 DEF RunHeld
<1>9. CASE MoveAside(p) \/ Install(p) \/ InstallFails(p)
  <2>1. \/ cli'[p] = [c EXCEPT !.pc = "install", !.kept = SetAsideFolder]
        \/ cli'[p] = [c EXCEPT !.pc = "release"]
        \/ cli'[p] = [c EXCEPT !.pc = "release", !.kept = NoFolder]
    BY <1>2, <1>9 DEF MoveAside, Install, InstallFails, c
  <2> QED BY <1>1, <2>1 DEF RunHeld, Run
<1>10. CASE Release(p) \/ Abort(p) \/ Crash(p)
  <2>1. PICK pc \in {"idle", "release"} : cli'[p] = [Idle EXCEPT !.pc = pc]
    <3>1. NextAfterFailure(cli[p].pc) \in {"idle", "release"} /\ Idle = [Idle EXCEPT !.pc = "idle"]
      BY DEF NextAfterFailure, Idle
    <3> QED BY <1>1, <1>10, <3>1 DEF Release, Abort, Crash, Becomes
  <2> QED BY <2>1 DEF RunHeld, Idle
<1> QED BY <1>3, <1>4, <1>5, <1>6, <1>7, <1>8, <1>9, <1>10 DEF Step

LEMMA HeldNext == LockInv /\ HeldInv /\ [Next]_vars => HeldInv'
<1> SUFFICES ASSUME LockInv, HeldInv, [Next]_vars PROVE HeldInv'
  OBVIOUS
<1>1. ASSUME NEW e \in edits, Accept(e) \/ Answer(e) \/ Conflict(e) \/ Lose(e)
      PROVE  HeldInv'
  <2>1. CASE UNCHANGED cli
    BY <2>1 DEF HeldInv
  <2>2. CASE e.by # None /\ (Answer(e) \/ Conflict(e))
    <3>1. e.by \in Procs /\ cli[e.by] \in Run /\ cli[e.by].pc = "await"
      BY <2>2 DEF LockInv, TypeOK, RequestInv, EditRequests, At
    <3>2. cli[e.by].kept = NoFolder
      BY <3>1 DEF HeldInv, RunHeld
    <3>3. cli'[e.by].kept = NoFolder /\ cli'[e.by].pc # "rename" /\ \A q \in Procs \ {e.by} : cli'[q] = cli[q]
      <4>1. CASE Answer(e)
        <5> DEFINE c == cli[e.by]
        <5>1. PICK r \in {e.made, staging} :
                Becomes(e.by, [c EXCEPT !.pc = "receipt", !.rev = r])
          BY <2>2, <4>1 DEF Answer
        <5>2. /\ [c EXCEPT !.pc = "receipt", !.rev = r].kept = c.kept
              /\ [c EXCEPT !.pc = "receipt", !.rev = r].pc = "receipt"
          BY <3>1 DEF Run
        <5> QED BY <3>1, <3>2, <5>1, <5>2 DEF Becomes, LockInv, TypeOK
      <4>2. CASE Conflict(e)
        BY <2>2, <3>1, <4>2 DEF Conflict, Idle, Becomes, LockInv, TypeOK
      <4> QED BY <2>2, <4>1, <4>2
    <3> QED BY <3>1, <3>3 DEF HeldInv, RunHeld
  <2> QED BY <1>1, <2>1, <2>2 DEF Accept, Answer, Conflict, Lose
<1>2. CASE UNCHANGED cli
  BY <1>2 DEF HeldInv
<1>3. CASE User \/ (\E r \in Publishable : Publish(r)) \/ (\E r \in history : Rollback(r))
  BY <1>2, <1>3 DEF User, Publish, Rollback, Save, Delete, PreserveByHand, RemoveStaleLock
<1>4. CASE UNCHANGED vars
  BY <1>2, <1>4 DEF vars
<1> QED BY <1>1, <1>3, <1>4, HeldStep DEF Next, Service

\* What is still there is retained.
LEMMA Retains ==
  ASSUME NEW f, f = installed' \/ \E q \in Procs : f = cli'[q].kept
  PROVE  Survives(f)
BY DEF Survives, Retained, UserFiles

\* A run in a backup's need of being kept is about to install or to end.
LEMMA BackupStays ==
  ASSUME LockInv, HeldInv, lock \in Procs, NEW p \in Procs, Step(p) \/ Crash(p),
         cli[p].pc # "install"
  PROVE  Survives(cli[lock].kept) \/ cli'[lock].pc = "idle"
<1>1. CASE p # lock
  BY <1>1, Alone, Retains
<1>2. CASE p = lock /\ cli[p].pc = "release"
  <2>1. Release(p) \/ Crash(p)
    BY <1>2 DEF Step, StartManaged, StartFresh, ScanFile, CheckLocal, Inspect,
         AcquireLock, Recheck, Compare, SendEdit, CheckReceipt, WriteTemporary,
         RenameMarker, Download, LastCheck, MoveAside, Install, InstallFails, Abort, At
  <2> QED BY <1>2, <2>1 DEF Release, Crash, Becomes, Idle, LockInv, TypeOK
<1>3. CASE p = lock /\ cli[p].pc # "release"
  BY <1>3 DEF HeldInv, RunHeld, Survives
<1> QED BY <1>1, <1>2, <1>3

LEMMA StepKeepsWork ==
  ASSUME LockInv, HeldInv, lock \in Procs, NEW p \in Procs, Step(p) \/ Crash(p)
  PROVE  KeepsWork
<1> DEFINE c == cli[p]
<1>1. c \in Run /\ cli \in [Procs -> Run] /\ installed \in Folders \union {NoFolder}
  BY DEF LockInv, TypeOK
<1>2. ASSUME c.pc # "install", Survives(installed) PROVE KeepsWork
  BY <1>2, BackupStays DEF KeepsWork
<1>3. CASE installed' = installed /\ c.pc # "install"
  BY <1>2, <1>3, Retains
<1>4. ASSUME NEW t \in TempNames, NEW b, installed # NoFolder,
             installed'.files = [installed.files EXCEPT ![t] = b],
             installed' # NoFolder
      PROVE  Survives(installed)
  <2>1. \A n \in Paths : [installed.files EXCEPT ![t] = b][n] = installed.files[n]
    BY <1>1, <1>4, NamesAssumption DEF Folders, Trees, Names
  <2>2. UserFiles(installed') = UserFiles(installed)
    BY <1>4, <2>1 DEF UserFiles
  <2> QED BY <1>4, <2>2 DEF Survives, Retained
<1>5. CASE WriteTemporary(p)
  <2>1. PICK t \in TempNames : installed' = [installed EXCEPT !.files[t] = BindingBytes]
    BY <1>5 DEF WriteTemporary
  <2>2. c.pc = "temp" /\ installed # NoFolder
    BY <1>5 DEF WriteTemporary, At
  <2>3. installed'.files = [installed.files EXCEPT ![t] = BindingBytes] /\ installed' \in Folders
    <3>1. [installed.files EXCEPT ![t] = BindingBytes] \in Trees
      BY <1>1, <2>2 DEF Folders, Trees, Names, Contents
    <3> QED BY <1>1, <2>1, <2>2, <3>1 DEF Folders
  <2> QED BY <1>2, <1>4, <2>2, <2>3
<1>6. CASE RenameMarker(p)
  <2>1. /\ c.pc = "rename" /\ installed # NoFolder
        /\ installed' = [files |-> WithoutTemporary(installed.files, c.temp), marker |-> c.rev]
    BY <1>6 DEF RenameMarker, At
  <2>2. CASE c.temp \in TempNames
    <3>1. installed'.files = [installed.files EXCEPT ![c.temp] = Absent]
      BY <2>1 DEF WithoutTemporary
    <3>2. installed' # NoFolder
      <4>1. [installed.files EXCEPT ![c.temp] = Absent] \in Trees
        BY <1>1, <2>1 DEF Folders, Trees, Contents
      <4>2. installed' \in Folders
        BY <1>1, <2>1, <4>1 DEF WithoutTemporary, Run, Folders
      <4> QED BY <4>2
    <3>3. Survives(installed)
      BY <1>4, <2>1, <2>2, <3>1, <3>2
    <3> QED BY <1>2, <2>1, <3>3
  <2> QED BY <2>1, <2>2 DEF HeldInv, RunHeld
<1>7. CASE MoveAside(p)
  <2>1. c.pc = "aside" /\ cli'[p].kept = installed
    BY <1>1, <1>7 DEF MoveAside, Becomes, SetAsideFolder, Run, At
  <2> QED BY <1>2, <2>1, Retains
<1>8. CASE Install(p)
  <2>1. installed = NoFolder /\ c.pc = "install" /\ cli' = [cli EXCEPT ![p] = [c EXCEPT !.pc = "release"]]
    BY <1>8 DEF Install, At, Becomes
  <2>2. \A q \in Procs : cli'[q].kept = cli[q].kept
    BY <1>1, <2>1 DEF Run
  <2> QED BY <2>1, <2>2, Retains DEF KeepsWork, Survives
<1>9. CASE InstallFails(p)
  <2>1. c.pc = "install" /\ lock = p
    BY <1>9 DEF InstallFails, At, LockInv, LockDiscipline, Locked
  <2>2. CASE installed = NoFolder /\ installed' = c.kept
    BY <2>1, <2>2, Retains DEF KeepsWork, Survives
  <2>3. CASE installed' = installed /\ Becomes(p, [c EXCEPT !.pc = "release"])
    <3>1. cli'[p].kept = c.kept
      BY <1>1, <2>3 DEF Becomes, Run
    <3> QED BY <2>1, <2>3, <3>1, Retains DEF KeepsWork
  <2> QED BY <1>9, <2>2, <2>3 DEF InstallFails
<1>10. CASE Crash(p)
  <2>1. installed' = installed /\ cli'[p] = Idle
    BY <1>1, <1>10 DEF Crash, Becomes
  <2>2. p = lock => cli'[lock].pc = "idle"
    BY <2>1 DEF Idle
  <2>3. p # lock => cli'[lock] = cli[lock]
    BY <1>10, Alone
  <2> QED BY <2>1, <2>2, <2>3, Retains DEF KeepsWork
<1>11. CASE \/ \E cmd \in {"pull", "push"} : StartManaged(p, cmd)
            \/ StartFresh(p) \/ ScanFile(p) \/ CheckLocal(p) \/ Inspect(p)
            \/ AcquireLock(p) \/ Recheck(p) \/ Compare(p)
            \/ SendEdit(p) \/ CheckReceipt(p) \/ Download(p) \/ LastCheck(p)
            \/ Release(p) \/ Abort(p)
  BY <1>3, <1>11 DEF StartManaged, StartFresh, ScanFile, CheckLocal, Inspect,
       AcquireLock, Recheck, Compare, SendEdit, CheckReceipt, Download, LastCheck,
       Release, Abort, Unmoved, At
<1> QED BY <1>5, <1>6, <1>7, <1>8, <1>9, <1>10, <1>11 DEF Step

\* While a run holds the lock, a step that is not the editor's own leaves the
\* user's files in the folder or in a backup that a run still holds; a
\* backup is given up only by a run that ends (cli/skills.ts 137-143).
THEOREM KeepingWork == Spec => WorkSurvives
<1>1. LockInv /\ HeldInv /\ [Next]_vars => (unused' = unused /\ lock \in Procs => KeepsWork)
  <2> SUFFICES ASSUME LockInv, HeldInv, [Next]_vars, unused' = unused, lock \in Procs
               PROVE  KeepsWork
    OBVIOUS
  <2>1. CASE \E p \in Procs : Step(p) \/ Crash(p)
    BY <2>1, StepKeepsWork
  <2>2. ASSUME installed' = installed, cli' = cli PROVE KeepsWork
    BY <2>2, Retains DEF KeepsWork
  <2>3. CASE Service
    <3>1. ASSUME NEW e \in edits, e.by # None, Answer(e) \/ Conflict(e) PROVE KeepsWork
      <4>1. e.by \in Procs /\ cli[e.by].pc = "await" /\ installed' = installed
        BY <3>1 DEF LockInv, TypeOK, RequestInv, EditRequests, At, Answer, Conflict
      <4>2. e.by = lock /\ cli[e.by].kept = NoFolder
        BY <4>1 DEF LockInv, LockDiscipline, Locked, HeldInv, RunHeld
      <4> QED BY <4>1, <4>2, Retains DEF KeepsWork, Survives
    <3> QED BY <2>2, <2>3, <3>1 DEF Service, Accept, Answer, Conflict, Lose, Publish, Rollback
  <2>4. CASE User
    <3>1. ASSUME NEW n \in Paths, Save(n) \/ Delete(n) PROVE FALSE
      BY <3>1 DEF Save, Delete
    <3> QED BY <2>4, <3>1 DEF User, PreserveByHand, RemoveStaleLock
  <2>5. CASE UNCHANGED vars
    BY <2>2, <2>5 DEF vars
  <2> QED BY <2>1, <2>3, <2>4, <2>5 DEF Next
<1>2. LockInv /\ HeldInv /\ [Next]_vars => HeldInv'
  BY HeldNext
<1> QED BY <1>1, <1>2, InitHeld, LockInvariant, PTL DEF Spec, WorkSurvives

----------------------------------------------------------------------------
(* What each step of a run does to the run, field by field.                 *)

\* A step that neither starts nor ends a run keeps what it works on.
Continues(c, d) == d.cmd = c.cmd /\ d.base = c.base

KeepsScan(c, d) == d.scanned = c.scanned /\ d.left = c.left

LEMMA Run1 ==
  ASSUME LockInv, NEW p \in Procs
  PROVE  /\ cli[p] \in Run
         /\ \A r : Becomes(p, r) => cli'[p] = r /\ \A q \in Procs \ {p} : cli'[q] = cli[q]
BY DEF LockInv, TypeOK, Becomes

LEMMA StartFields ==
  ASSUME LockInv, NEW p \in Procs, NEW cmd \in {"pull", "push"}, StartManaged(p, cmd)
  PROVE  /\ Managed /\ Unmoved
         /\ cli'[p].pc = "scan" /\ cli'[p].base = installed.marker
         /\ cli'[p].local = EmptyTree /\ cli'[p].scanned = EmptyTree /\ cli'[p].left = Names
         /\ cli'[p].rev = None /\ cli'[p].kept = NoFolder
<1>1. cli'[p] = [Idle EXCEPT !.pc = "scan", !.cmd = cmd,
                            !.base = installed.marker, !.left = Names]
  BY Run1 DEF StartManaged
<1> QED BY <1>1 DEF StartManaged, Idle

LEMMA FreshFields ==
  ASSUME LockInv, NEW p \in Procs, StartFresh(p)
  PROVE  /\ Unmoved
         /\ cli'[p].pc = "inspect" /\ cli'[p].base = None
         /\ cli'[p].local = EmptyTree /\ cli'[p].scanned = EmptyTree
         /\ cli'[p].rev = None /\ cli'[p].kept = NoFolder
<1>1. cli'[p] = [Idle EXCEPT !.pc = "inspect", !.cmd = "pull"]
  BY Run1 DEF StartFresh
<1> QED BY <1>1 DEF StartFresh, Idle

LEMMA ScanFields ==
  ASSUME LockInv, NEW p \in Procs, ScanFile(p)
  PROVE  /\ cli[p].pc \in {"scan", "rescan", "lastscan"} /\ installed # NoFolder /\ Unmoved
         /\ cli'[p].pc = cli[p].pc /\ Continues(cli[p], cli'[p])
         /\ cli'[p].local = cli[p].local /\ cli'[p].rev = cli[p].rev
         /\ cli'[p].kept = cli[p].kept
         /\ \E n \in cli[p].left :
              /\ cli'[p].left = cli[p].left \ {n}
              /\ \A m \in Names : cli'[p].scanned[m] =
                   IF m = n THEN installed.files[n] ELSE cli[p].scanned[m]
<1> DEFINE c == cli[p]
<1>1. c \in Run
  BY Run1
<1>2. PICK n \in c.left : cli'[p] = [c EXCEPT !.scanned[n] = installed.files[n],
                                            !.left = @ \ {n}]
  BY Run1 DEF ScanFile
<1> HIDE DEF c
<1>3. /\ cli'[p].pc = c.pc /\ Continues(c, cli'[p])
      /\ cli'[p].local = c.local /\ cli'[p].rev = c.rev /\ cli'[p].kept = c.kept
      /\ cli'[p].left = c.left \ {n}
      /\ cli'[p].scanned = [c.scanned EXCEPT ![n] = installed.files[n]]
  BY <1>1, <1>2 DEF Run, Continues
<1>4. \A m \in Names : cli'[p].scanned[m] = IF m = n THEN installed.files[n] ELSE c.scanned[m]
  BY <1>1, <1>3 DEF Run, Trees
<1> QED BY <1>3, <1>4 DEF ScanFile, c

LEMMA CheckFields ==
  ASSUME LockInv, NEW p \in Procs, CheckLocal(p)
  PROVE  /\ cli[p].pc = "scan" /\ cli[p].left = {} /\ LocalAcceptable(p) /\ Unmoved
         /\ cli'[p].pc = "inspect" /\ Continues(cli[p], cli'[p])
         /\ cli'[p].local = cli[p].scanned /\ cli'[p].scanned = EmptyTree
         /\ cli'[p].rev = cli[p].rev /\ cli'[p].kept = cli[p].kept
<1> DEFINE c == cli[p]
<1>1. c \in Run
  BY Run1
<1>2. cli'[p] = [c EXCEPT !.pc = "inspect", !.local = c.scanned, !.scanned = EmptyTree]
  BY Run1 DEF CheckLocal
<1> HIDE DEF c
<1>3. /\ cli'[p].pc = "inspect" /\ Continues(c, cli'[p])
      /\ cli'[p].local = c.scanned /\ cli'[p].scanned = EmptyTree
      /\ cli'[p].rev = c.rev /\ cli'[p].kept = c.kept
  BY <1>1, <1>2 DEF Run, Continues
<1> QED BY <1>3 DEF CheckLocal, At, c

LEMMA InspectFields ==
  ASSUME LockInv, NEW p \in Procs, Inspect(p)
  PROVE  /\ cli[p].pc = "inspect" /\ Unmoved
         /\ cli'[p].pc = "lock" /\ Continues(cli[p], cli'[p]) /\ KeepsScan(cli[p], cli'[p])
         /\ cli'[p].local = cli[p].local /\ cli'[p].rev \in history
         /\ cli'[p].kept = cli[p].kept
<1> DEFINE c == cli[p]
<1>1. c \in Run
  BY Run1
<1>2. PICK r \in history : cli'[p] = [c EXCEPT !.pc = "lock", !.rev = r]
  BY Run1 DEF Inspect
<1> HIDE DEF c
<1>3. /\ cli'[p].pc = "lock" /\ Continues(c, cli'[p]) /\ KeepsScan(c, cli'[p])
      /\ cli'[p].local = c.local /\ cli'[p].rev = r /\ cli'[p].kept = c.kept
  BY <1>1, <1>2 DEF Run, Continues, KeepsScan
<1> QED BY <1>3 DEF Inspect, At, c

\* Steps that only move the run on.
LEMMA MoveFields ==
  ASSUME LockInv, NEW p \in Procs, NEW pc, Becomes(p, [cli[p] EXCEPT !.pc = pc])
  PROVE  /\ cli'[p].pc = pc /\ Continues(cli[p], cli'[p]) /\ KeepsScan(cli[p], cli'[p])
         /\ cli'[p].local = cli[p].local /\ cli'[p].rev = cli[p].rev
         /\ cli'[p].kept = cli[p].kept /\ cli'[p].temp = cli[p].temp
<1> DEFINE c == cli[p]
<1>1. c \in Run /\ cli'[p] = [c EXCEPT !.pc = pc]
  BY Run1
<1> HIDE DEF c
<1>2. /\ cli'[p].pc = pc /\ Continues(c, cli'[p]) /\ KeepsScan(c, cli'[p])
      /\ cli'[p].local = c.local /\ cli'[p].rev = c.rev
      /\ cli'[p].kept = c.kept /\ cli'[p].temp = c.temp
  BY <1>1 DEF Run, Continues, KeepsScan
<1> QED BY <1>2 DEF c

LEMMA RecheckFields ==
  ASSUME LockInv, NEW p \in Procs, Recheck(p)
  PROVE  /\ cli[p].pc = "recheck" /\ Unmoved
         /\ Continues(cli[p], cli'[p])
         /\ cli'[p].scanned = cli[p].scanned
         /\ cli'[p].local = cli[p].local /\ cli'[p].rev = cli[p].rev
         /\ cli'[p].kept = cli[p].kept
         /\ \/ /\ cli[p].base # None /\ Managed /\ installed.marker = cli[p].base
               /\ cli'[p].pc = "rescan" /\ cli'[p].left = Names
            \/ cli[p].base = None /\ installed = NoFolder /\ cli'[p].pc = "download"
<1> DEFINE c == cli[p]
<1>1. c \in Run
  BY Run1
<1>2. CASE c.base # None
  <2>1. cli'[p] = [c EXCEPT !.pc = "rescan", !.left = Names]
    BY <1>2, Run1 DEF Recheck
  <2> HIDE DEF c
  <2>2. /\ Continues(c, cli'[p]) /\ cli'[p].scanned = c.scanned
        /\ cli'[p].local = c.local /\ cli'[p].rev = c.rev /\ cli'[p].kept = c.kept
        /\ cli'[p].pc = "rescan" /\ cli'[p].left = Names
    BY <1>1, <2>1 DEF Run, Continues
  <2> QED BY <1>2, <2>2 DEF Recheck, At, c
<1>3. CASE c.base = None
  <2>1. Becomes(p, [cli[p] EXCEPT !.pc = "download"])
    BY <1>3 DEF Recheck
  <2> QED BY <1>3, <2>1, MoveFields DEF Recheck, At, KeepsScan
<1> QED BY <1>2, <1>3

LEMMA CompareFields ==
  ASSUME LockInv, NEW p \in Procs, Compare(p)
  PROVE  /\ cli[p].pc = "rescan" /\ cli[p].left = {} /\ SameChanges(p) /\ Unmoved
         /\ Continues(cli[p], cli'[p])
         /\ cli'[p].pc = IF cli[p].cmd = "pull" THEN "download"
                         ELSE IF HasChanges(p) THEN "edit" ELSE "release"
         /\ cli'[p].scanned = EmptyTree
         /\ cli'[p].local = cli[p].local /\ cli'[p].rev = cli[p].rev
         /\ cli'[p].kept = cli[p].kept
<1> DEFINE c == cli[p]
           next == IF cli[p].cmd = "pull" THEN "download"
                   ELSE IF HasChanges(p) THEN "edit" ELSE "release"
<1>1. c \in Run
  BY Run1
<1>2. cli'[p] = [c EXCEPT !.pc = next, !.scanned = EmptyTree]
  BY Run1 DEF Compare
<1> HIDE DEF c, next
<1>3. /\ Continues(c, cli'[p]) /\ cli'[p].pc = next /\ cli'[p].scanned = EmptyTree
      /\ cli'[p].local = c.local /\ cli'[p].rev = c.rev /\ cli'[p].kept = c.kept
  BY <1>1, <1>2 DEF Run, Continues
<1> QED BY <1>3 DEF Compare, At, c, next

LEMMA WriteFields ==
  ASSUME LockInv, NEW p \in Procs, WriteTemporary(p)
  PROVE  /\ cli[p].pc = "temp" /\ installed # NoFolder /\ Watch
         /\ UNCHANGED <<lock, had, staging, history, edits, unused, faults>>
         /\ cli'[p].pc = "rename" /\ Continues(cli[p], cli'[p]) /\ KeepsScan(cli[p], cli'[p])
         /\ cli'[p].local = cli[p].local /\ cli'[p].rev = cli[p].rev
         /\ cli'[p].kept = cli[p].kept /\ cli'[p].temp \in TempNames
         /\ installed' # NoFolder /\ installed' \in Folders
         /\ installed'.marker = installed.marker
         /\ \A n \in Names : installed'.files[n] =
              IF n = cli'[p].temp THEN BindingBytes ELSE installed.files[n]
<1> DEFINE c == cli[p]
<1>1. c \in Run /\ installed \in Folders
  BY Run1 DEF WriteTemporary, LockInv, TypeOK
<1>2. PICK t \in TempNames : /\ installed' = [installed EXCEPT !.files[t] = BindingBytes]
                             /\ cli'[p] = [c EXCEPT !.pc = "rename", !.temp = t]
  BY Run1 DEF WriteTemporary
<1> HIDE DEF c
<1>3. /\ cli'[p].pc = "rename" /\ Continues(c, cli'[p]) /\ KeepsScan(c, cli'[p])
      /\ cli'[p].local = c.local /\ cli'[p].rev = c.rev
      /\ cli'[p].kept = c.kept /\ cli'[p].temp = t
  BY <1>1, <1>2 DEF Run, Continues, KeepsScan
<1>4. /\ installed'.marker = installed.marker
      /\ installed'.files = [installed.files EXCEPT ![t] = BindingBytes]
      /\ installed' = [files |-> installed'.files, marker |-> installed.marker]
  BY <1>1, <1>2 DEF Folders
<1>5. /\ \A n \in Names : installed'.files[n] = IF n = t THEN BindingBytes ELSE installed.files[n]
      /\ installed'.files \in Trees
  BY <1>1, <1>4 DEF Folders, Trees, Names, Contents
<1>6. installed' \in Folders
  BY <1>1, <1>4, <1>5 DEF Folders
<1> QED BY <1>3, <1>4, <1>5, <1>6 DEF WriteTemporary, At, c

LEMMA RenameFields ==
  ASSUME LockInv, HeldInv, NEW p \in Procs, RenameMarker(p)
  PROVE  /\ cli[p].pc = "rename" /\ installed # NoFolder /\ Watch
         /\ UNCHANGED <<lock, had, staging, history, edits, unused, faults>>
         /\ cli'[p].pc = "release" /\ Continues(cli[p], cli'[p]) /\ KeepsScan(cli[p], cli'[p])
         /\ cli'[p].local = cli[p].local /\ cli'[p].rev = cli[p].rev
         /\ cli'[p].kept = cli[p].kept /\ cli[p].temp \in TempNames
         /\ installed'.marker = cli[p].rev
         /\ \A n \in Names : installed'.files[n] =
              IF n = cli[p].temp THEN Absent ELSE installed.files[n]
<1>1. cli[p].pc = "rename" /\ cli[p].temp \in TempNames /\ installed \in Folders
  BY DEF RenameMarker, At, HeldInv, RunHeld, LockInv, TypeOK
<1>2. /\ installed'.marker = cli[p].rev
      /\ installed'.files = [installed.files EXCEPT ![cli[p].temp] = Absent]
  BY DEF RenameMarker, WithoutTemporary
<1>3. \A n \in Names : installed'.files[n] =
        IF n = cli[p].temp THEN Absent ELSE installed.files[n]
  BY <1>1, <1>2 DEF Folders, Trees
<1>4. Becomes(p, [cli[p] EXCEPT !.pc = "release"])
  BY DEF RenameMarker
<1> QED BY <1>1, <1>2, <1>3, <1>4, MoveFields DEF RenameMarker

LEMMA DownloadFields ==
  ASSUME LockInv, NEW p \in Procs, Download(p)
  PROVE  /\ cli[p].pc = "download" /\ Unmoved
         /\ Continues(cli[p], cli'[p]) /\ cli'[p].scanned = cli[p].scanned
         /\ cli'[p].local = Files[cli[p].rev] /\ cli'[p].rev = cli[p].rev
         /\ cli'[p].kept = cli[p].kept
         /\ \/ cli[p].base = None /\ cli'[p].pc = "install"
            \/ cli[p].base # None /\ cli'[p].pc = "lastscan" /\ cli'[p].left = Names
<1> DEFINE c == cli[p]
<1>1. c \in Run
  BY Run1
<1>2. PICK got \in Trees :
        /\ got = Files[c.rev]
        /\ cli'[p] = IF c.base = None THEN [c EXCEPT !.pc = "install", !.local = got]
                     ELSE [c EXCEPT !.pc = "lastscan", !.local = got, !.left = Names]
  BY Run1 DEF Download, Verified
<1> HIDE DEF c
<1>3. /\ Continues(c, cli'[p]) /\ cli'[p].scanned = c.scanned
      /\ cli'[p].local = Files[c.rev] /\ cli'[p].rev = c.rev
      /\ cli'[p].kept = c.kept
      /\ \/ c.base = None /\ cli'[p].pc = "install"
         \/ c.base # None /\ cli'[p].pc = "lastscan" /\ cli'[p].left = Names
  BY <1>1, <1>2 DEF Run, Continues
<1> QED BY <1>3 DEF Download, At, c

LEMMA LastCheckFields ==
  ASSUME LockInv, NEW p \in Procs, LastCheck(p)
  PROVE  /\ cli[p].pc = "lastscan" /\ cli[p].left = {} /\ Unmoved
         /\ cli[p].scanned = Files[cli[p].base]
         /\ cli'[p].pc = "aside" /\ Continues(cli[p], cli'[p])
         /\ cli'[p].scanned = EmptyTree
         /\ cli'[p].local = cli[p].local /\ cli'[p].rev = cli[p].rev
         /\ cli'[p].kept = cli[p].kept
<1> DEFINE c == cli[p]
<1>1. c \in Run
  BY Run1
<1>2. cli'[p] = [c EXCEPT !.pc = "aside", !.scanned = EmptyTree]
  BY Run1 DEF LastCheck
<1> HIDE DEF c
<1>3. /\ cli'[p].pc = "aside" /\ Continues(c, cli'[p]) /\ cli'[p].scanned = EmptyTree
      /\ cli'[p].local = c.local /\ cli'[p].rev = c.rev /\ cli'[p].kept = c.kept
  BY <1>1, <1>2 DEF Run, Continues
<1> QED BY <1>3 DEF LastCheck, At, c

LEMMA AsideFields ==
  ASSUME LockInv, NEW p \in Procs, MoveAside(p)
  PROVE  /\ cli[p].pc = "aside" /\ installed # NoFolder /\ installed' = NoFolder /\ Watch
         /\ UNCHANGED <<lock, had, staging, history, edits, unused, faults>>
         /\ cli'[p].pc = "install" /\ Continues(cli[p], cli'[p]) /\ KeepsScan(cli[p], cli'[p])
         /\ cli'[p].local = cli[p].local /\ cli'[p].rev = cli[p].rev
         /\ cli'[p].kept = installed
<1> DEFINE c == cli[p]
<1>1. c \in Run
  BY Run1
<1>2. cli'[p] = [c EXCEPT !.pc = "install", !.kept = installed]
  BY Run1 DEF MoveAside, SetAsideFolder
<1> HIDE DEF c
<1>3. /\ cli'[p].pc = "install" /\ Continues(c, cli'[p]) /\ KeepsScan(c, cli'[p])
      /\ cli'[p].local = c.local /\ cli'[p].rev = c.rev /\ cli'[p].kept = installed
  BY <1>1, <1>2 DEF Run, Continues, KeepsScan
<1> QED BY <1>3 DEF MoveAside, At, c

LEMMA FailFields ==
  ASSUME LockInv, NEW p \in Procs, InstallFails(p)
  PROVE  /\ cli[p].pc = "install" /\ Watch
         /\ UNCHANGED <<lock, had, staging, history, edits, unused, faults>>
         /\ cli'[p].pc = "release" /\ Continues(cli[p], cli'[p]) /\ KeepsScan(cli[p], cli'[p])
         /\ cli'[p].local = cli[p].local /\ cli'[p].rev = cli[p].rev
         /\ cli'[p].kept \in {cli[p].kept, NoFolder}
         /\ \/ installed' = installed
            \/ installed = NoFolder /\ cli[p].kept # NoFolder /\ installed' = cli[p].kept
<1> DEFINE c == cli[p]
<1>1. c \in Run
  BY Run1
<1>2. CASE installed = NoFolder /\ c.kept # NoFolder /\ installed' = c.kept
           /\ Becomes(p, [c EXCEPT !.pc = "release", !.kept = NoFolder])
  <2>1. cli'[p] = [c EXCEPT !.pc = "release", !.kept = NoFolder]
    BY <1>2, Run1
  <2> HIDE DEF c
  <2>2. /\ cli'[p].pc = "release" /\ Continues(c, cli'[p]) /\ KeepsScan(c, cli'[p])
        /\ cli'[p].local = c.local /\ cli'[p].rev = c.rev /\ cli'[p].kept = NoFolder
    BY <1>1, <2>1 DEF Run, Continues, KeepsScan
  <2> QED BY <1>2, <2>2 DEF InstallFails, At, c
<1>3. CASE installed' = installed /\ Becomes(p, [cli[p] EXCEPT !.pc = "release"])
  BY <1>3, MoveFields DEF InstallFails, At
<1> QED BY <1>2, <1>3 DEF InstallFails

LEMMA EndFields ==
  ASSUME LockInv, NEW p \in Procs, Release(p) \/ Abort(p) \/ Crash(p)
  PROVE  /\ UNCHANGED <<installed, had, staging, history, unused>>
         /\ cli'[p].pc \in {"idle", "release"} /\ cli'[p].base = None
         /\ cli'[p].local = EmptyTree /\ cli'[p].scanned = EmptyTree
         /\ cli'[p].rev = None /\ cli'[p].kept = NoFolder
         /\ edits' = edits \/ edits' = Orphaned(p)
<1>1. NextAfterFailure(cli[p].pc) \in {"idle", "release"} /\ Idle = [Idle EXCEPT !.pc = "idle"]
  BY DEF NextAfterFailure, Idle
<1>2. PICK pc \in {"idle", "release"} : cli'[p] = [Idle EXCEPT !.pc = pc]
  BY <1>1, Run1 DEF Release, Abort, Crash
<1> QED BY <1>2 DEF Idle, Release, Abort, Crash

\* What a step of one run leaves alone: the other runs, and the folder while
\* another run holds the lock.
LEMMA Others ==
  ASSUME LockInv, NEW p \in Procs, Step(p) \/ Crash(p), NEW q \in Procs \ {p}
  PROVE  /\ cli'[q] = cli[q]
         /\ cli[q].pc \in Locked => installed' = installed /\ lock' = lock /\ lock = q
<1>1. cli'[q] = cli[q]
  BY Alone
<1>2. cli[q].pc \in Locked => lock = q /\ cli[p].pc \notin Locked
  BY DEF LockInv, LockDiscipline
<1>3. cli[q].pc \in Locked => ~(AcquireLock(p) \/ SendEdit(p) \/ WriteTemporary(p) \/ RenameMarker(p)
        \/ MoveAside(p) \/ Install(p) \/ InstallFails(p) \/ Release(p))
  BY <1>2 DEF AcquireLock, LockAvailable, SendEdit, WriteTemporary, RenameMarker, MoveAside,
       Install, InstallFails, Release, At, Locked
<1>4. CASE (\E cmd \in {"pull", "push"} : StartManaged(p, cmd)) \/ StartFresh(p)
           \/ ScanFile(p) \/ CheckLocal(p) \/ Inspect(p)
  BY <1>1, <1>2, <1>4 DEF StartManaged, StartFresh, ScanFile, CheckLocal, Inspect, Unmoved
<1>5. CASE Recheck(p) \/ Compare(p) \/ CheckReceipt(p) \/ Download(p) \/ LastCheck(p)
           \/ Abort(p) \/ Crash(p)
  BY <1>1, <1>2, <1>5 DEF Recheck, Compare, CheckReceipt, Download, LastCheck, Abort, Crash, Unmoved
<1> QED BY <1>1, <1>3, <1>4, <1>5 DEF Step

\* The instants of a lock tenure only grow, and hold what the folder becomes.
LEMMA MomentsGrow ==
  ASSUME [Next]_vars, lock \in Procs, lock' = lock
  PROVE  /\ moments \subseteq moments'
         /\ installed' = installed \/ FilesOf(installed') \subseteq moments'
<1>1. Watch => /\ moments \subseteq moments'
               /\ installed' = installed \/ FilesOf(installed') \subseteq moments'
  BY DEF Watch
<1>2. ASSUME NEW p \in Procs, Step(p) \/ Crash(p)
      PROVE  Watch \/ (moments' = moments /\ installed' = installed)
  <2>1. CASE (\E cmd \in {"pull", "push"} : StartManaged(p, cmd)) \/ StartFresh(p)
             \/ ScanFile(p) \/ CheckLocal(p) \/ Inspect(p) \/ AcquireLock(p)
    BY <2>1 DEF StartManaged, StartFresh, ScanFile, CheckLocal, Inspect, AcquireLock, Unmoved
  <2>2. CASE Recheck(p) \/ Compare(p) \/ SendEdit(p) \/ CheckReceipt(p)
             \/ WriteTemporary(p) \/ RenameMarker(p)
    BY <2>2 DEF Recheck, Compare, SendEdit, CheckReceipt, WriteTemporary, RenameMarker, Unmoved
  <2>3. CASE Download(p) \/ LastCheck(p) \/ MoveAside(p) \/ Install(p) \/ InstallFails(p)
             \/ Release(p) \/ Abort(p) \/ Crash(p)
    BY <2>3 DEF Download, LastCheck, MoveAside, Install, InstallFails, Release, Abort, Crash, Unmoved
  <2> QED BY <1>2, <2>1, <2>2, <2>3 DEF Step
<1>3. CASE Service \/ UNCHANGED vars
  BY <1>3 DEF Service, Accept, Answer, Conflict, Lose, Publish, Rollback, vars
<1>4. CASE User
  BY <1>1, <1>4 DEF User, Save, Delete, PreserveByHand, RemoveStaleLock
<1> QED BY <1>1, <1>2, <1>3, <1>4 DEF Next

----------------------------------------------------------------------------
(* Where pins come from, and what holds still under the lock.               *)

Edited == {"edit", "await", "receipt", "temp", "rename"}

\* The folder has the binding the run started from.
Bound(r, f) == f # NoFolder /\ f.marker = r.base

\* Every revision a run keeps is one staging has held; from the recheck to
\* the moment the run touches the folder, the binding is the run's base.
RunPinned(r, f, past) ==
  /\ r.base \in past \union {None} /\ r.rev \in past \union {None}
  /\ r.kept # NoFolder => r.kept.marker \in past \union {None}
  /\ r.pc \in {"scan", "rescan", "lastscan", "aside"} \union Edited => r.base # None
  /\ r.pc \in {"lock", "recheck", "rescan", "download", "lastscan", "aside", "install"} =>
       r.rev # None
  /\ r.pc \in {"rescan", "lastscan", "aside"} \union Edited => Bound(r, f)
  /\ r.pc = "download" /\ r.base # None => Bound(r, f)

RequestPinned(e, past) ==
  /\ e.expected \in past /\ e.made \in past \union {None}
  /\ e.by # None => e.expected = cli[e.by].base

PinInv ==
  /\ staging \in history
  /\ installed # NoFolder => installed.marker \in history \union {None}
  /\ \A p \in Procs : RunPinned(cli[p], installed, history)
  /\ \A e \in edits : RequestPinned(e, history)

LEMMA InitPinned == Init => PinInv
BY DEF Init, PinInv, RunPinned, Idle, Edited

\* A pinned run stays pinned while its folder keeps the binding.
LEMMA StaysPinned ==
  ASSUME NEW r, NEW f, NEW g, NEW past, NEW later, past \subseteq later,
         RunPinned(r, f, past), r.pc \in Locked /\ Bound(r, f) => Bound(r, g)
  PROVE  RunPinned(r, g, later)
BY DEF RunPinned, Locked, Edited

LEMMA PinnedRun ==
  ASSUME LockInv, HeldInv, PinInv, NEW p \in Procs, Step(p) \/ Crash(p)
  PROVE  /\ RunPinned(cli'[p], installed', history)
         /\ installed' # NoFolder => installed'.marker \in history \union {None}
<1> DEFINE c == cli[p]
           d == cli'[p]
           Goal == /\ RunPinned(d, installed', history)
                   /\ installed' # NoFolder => installed'.marker \in history \union {None}
<1>1. /\ RunPinned(c, installed, history) /\ c.base \in Revisions \union {None}
      /\ installed # NoFolder => installed.marker \in history \union {None}
  BY Run1 DEF PinInv, Run
<1>2. ASSUME NEW cmd \in {"pull", "push"}, StartManaged(p, cmd) PROVE Goal
  BY <1>1, <1>2, StartFields DEF RunPinned, Managed, Unmoved, Edited
<1>3. ASSUME StartFresh(p) PROVE Goal
  BY <1>1, <1>3, FreshFields DEF RunPinned, Unmoved, Edited
<1>4. ASSUME ScanFile(p) PROVE Goal
  BY <1>1, <1>4, ScanFields DEF RunPinned, Unmoved, Edited, Continues, Bound
<1>5. ASSUME CheckLocal(p) PROVE Goal
  BY <1>1, <1>5, CheckFields DEF RunPinned, Unmoved, Edited, Continues
<1>6. ASSUME Inspect(p) PROVE Goal
  <2>1. None \notin history
    BY DEF LockInv, TypeOK
  <2> QED BY <1>1, <1>6, <2>1, InspectFields DEF RunPinned, Unmoved, Edited, Continues
<1>7. ASSUME AcquireLock(p) \/ SendEdit(p) \/ CheckReceipt(p) PROVE Goal
  <2>1. PICK pc \in {"recheck", "await", "temp"} :
          /\ Becomes(p, [cli[p] EXCEPT !.pc = pc])
          /\ c.pc \in {"lock", "edit", "receipt"} /\ installed' = installed
          /\ (c.pc = "lock" <=> pc = "recheck")
    BY <1>7 DEF AcquireLock, SendEdit, CheckReceipt, At, Unmoved
  <2> QED BY <1>1, <2>1, MoveFields DEF RunPinned, Edited, Continues, Bound
<1>8. ASSUME Recheck(p) PROVE Goal
  BY <1>1, <1>8, RecheckFields DEF RunPinned, Unmoved, Edited, Continues, Managed, Bound
<1>9. ASSUME Compare(p) PROVE Goal
  BY <1>1, <1>9, CompareFields DEF RunPinned, Unmoved, Edited, Continues, Bound
<1>10. ASSUME WriteTemporary(p) PROVE Goal
  BY <1>1, <1>10, WriteFields DEF RunPinned, Edited, Continues, Bound
<1>11. ASSUME RenameMarker(p) PROVE Goal
  BY <1>1, <1>11, RenameFields DEF RunPinned, Edited, Continues, Bound
<1>12. ASSUME Download(p) PROVE Goal
  BY <1>1, <1>12, DownloadFields DEF RunPinned, Unmoved, Edited, Continues, Bound
<1>13. ASSUME LastCheck(p) PROVE Goal
  BY <1>1, <1>13, LastCheckFields DEF RunPinned, Unmoved, Edited, Continues, Bound
<1>14. ASSUME MoveAside(p) PROVE Goal
  BY <1>1, <1>14, AsideFields DEF RunPinned, Edited, Continues, Bound
<1>15. ASSUME Install(p) PROVE Goal
  <2>1. Becomes(p, [cli[p] EXCEPT !.pc = "release"]) /\ installed'.marker = c.rev /\ c.pc = "install"
    BY <1>15 DEF Install, At
  <2> QED BY <1>1, <2>1, MoveFields DEF RunPinned, Edited, Continues, Bound
<1>16. ASSUME InstallFails(p) PROVE Goal
  BY <1>1, <1>16, FailFields DEF RunPinned, Edited, Continues, Bound
<1>17. ASSUME Release(p) \/ Abort(p) \/ Crash(p) PROVE Goal
  BY <1>1, <1>17, EndFields DEF RunPinned, Edited, Bound
<1> QED BY <1>2, <1>3, <1>4, <1>5, <1>6, <1>7, <1>8, <1>9, <1>10, <1>11, <1>12, <1>13,
           <1>14, <1>15, <1>16, <1>17 DEF Step

\* The requests after a step of a run.
LEMMA PinnedRequests ==
  ASSUME LockInv, PinInv, NEW p \in Procs, Step(p) \/ Crash(p)
  PROVE  /\ \A e \in edits' : RequestPinned(e, history)'
         /\ staging' = staging /\ history' = history
<1>1. CASE SendEdit(p)
  <2>1. Becomes(p, [cli[p] EXCEPT !.pc = "await"]) /\ cli[p].pc = "edit"
        /\ staging' = staging /\ history' = history
    BY <1>1 DEF SendEdit, At
  <2>2. cli'[p].base = cli[p].base /\ \A q \in Procs \ {p} : cli'[q] = cli[q]
    BY <2>1, MoveFields, Run1 DEF Continues
  <2>3. cli[p].base # None /\ cli[p].base \in history
    BY <2>1 DEF PinInv, RunPinned, Edited
  <2>4. \A e \in edits : e.by # None => e.by \in Procs
    BY DEF LockInv, TypeOK, EditRequests
  <2>5. \A e \in edits : RequestPinned(e, history)'
    BY <2>1, <2>2, <2>4 DEF PinInv, RequestPinned
  <2>6. PICK e : /\ edits' = edits \union {e}
                 /\ e.by = p /\ e.expected = cli[p].base /\ e.made = None
    <3> DEFINE f == [by |-> p, expected |-> ExpectedRevision(p), made |-> None,
                     changes |-> SyncChanges(Files[cli[p].base], cli[p].local)]
    <3>1. /\ edits' = edits \union {f}
          /\ f.by = p /\ f.expected = cli[p].base /\ f.made = None
      BY <1>1 DEF SendEdit, ExpectedRevision
    <3> HIDE DEF f
    <3> QED BY <3>1
  <2>7. RequestPinned(e, history)'
    BY <2>1, <2>2, <2>3, <2>6 DEF RequestPinned
  <2> QED BY <2>1, <2>5, <2>6, <2>7
<1>2. CASE Release(p) \/ Abort(p) \/ Crash(p)
  <2>1. (edits' = edits /\ ~At(p, "await")) \/ edits' = Orphaned(p)
    BY <1>2 DEF Release, Abort, Crash, At
  <2>2. \A e \in edits : e.by # None => e.by \in Procs /\ At(e.by, "await")
    BY DEF LockInv, TypeOK, EditRequests, RequestInv
  <2>3. staging' = staging /\ history' = history
    BY <1>2, EndFields
  <2>4. \A q \in Procs \ {p} : cli'[q] = cli[q]
    BY Alone, <1>2 DEF Step
  <2>5. CASE edits' = edits /\ ~At(p, "await")
    BY <2>2, <2>3, <2>4, <2>5 DEF PinInv, RequestPinned
  <2>6. CASE edits' = Orphaned(p)
    <3>1. ASSUME NEW e \in edits PROVE RequestPinned(IF e.by = p THEN [e EXCEPT !.by = None] ELSE e, history)'
      <4>1. e \in EditRequests
        BY DEF LockInv, TypeOK
      <4>2. CASE e.by = p
        <5>1. [e EXCEPT !.by = None].by = None /\ [e EXCEPT !.by = None].expected = e.expected
              /\ [e EXCEPT !.by = None].made = e.made
          BY <4>1 DEF EditRequests
        <5> QED BY <2>3, <4>2, <5>1 DEF PinInv, RequestPinned
      <4>3. CASE e.by # p
        BY <2>2, <2>3, <2>4, <4>3 DEF PinInv, RequestPinned
      <4> QED BY <4>2, <4>3
    <3> QED BY <2>3, <2>6, <3>1 DEF Orphaned
  <2> QED BY <2>1, <2>3, <2>5, <2>6
<1>3. ASSUME ~SendEdit(p), ~(Release(p) \/ Abort(p) \/ Crash(p))
      PROVE  /\ edits' = edits /\ staging' = staging /\ history' = history
             /\ ~At(p, "await")
  <2>1. CASE (\E cmd \in {"pull", "push"} : StartManaged(p, cmd)) \/ StartFresh(p)
             \/ ScanFile(p) \/ CheckLocal(p) \/ Inspect(p) \/ AcquireLock(p)
    BY <2>1 DEF StartManaged, StartFresh, ScanFile, CheckLocal, Inspect, AcquireLock, Unmoved, At
  <2>2. CASE Recheck(p) \/ Compare(p) \/ CheckReceipt(p) \/ WriteTemporary(p) \/ RenameMarker(p)
    BY <2>2 DEF Recheck, Compare, CheckReceipt, WriteTemporary, RenameMarker, Unmoved, At
  <2>3. CASE Download(p) \/ LastCheck(p) \/ MoveAside(p) \/ Install(p) \/ InstallFails(p)
    BY <2>3 DEF Download, LastCheck, MoveAside, Install, InstallFails, Unmoved, At
  <2> QED BY <1>3, <2>1, <2>2, <2>3 DEF Step
<1>4. CASE ~SendEdit(p) /\ ~(Release(p) \/ Abort(p) \/ Crash(p))
  <2>1. \A e \in edits : e.by # None => e.by \in Procs /\ e.by # p
    BY <1>3, <1>4 DEF LockInv, TypeOK, EditRequests, RequestInv
  <2>2. \A q \in Procs \ {p} : cli'[q] = cli[q]
    BY Alone
  <2> QED BY <1>3, <1>4, <2>1, <2>2 DEF PinInv, RequestPinned
<1> QED BY <1>1, <1>2, <1>4

LEMMA PinnedStep ==
  ASSUME LockInv, HeldInv, PinInv, NEW p \in Procs, Step(p) \/ Crash(p)
  PROVE  PinInv'
<1>1. ASSUME NEW q \in Procs \ {p} PROVE RunPinned(cli[q], installed', history)
  BY Others, StaysPinned DEF PinInv
<1>2. \A q \in Procs : RunPinned(cli'[q], installed', history)
  BY <1>1, Others, PinnedRun
<1> QED BY <1>2, PinnedRun, PinnedRequests DEF PinInv

\* The service: a point it moves to is one of history; an answer carries one.
LEMMA PinnedService == ASSUME LockInv, PinInv, Service PROVE PinInv'
<1>0. \A e \in edits : e.by # None => e.by \in Procs /\ cli[e.by] \in Run /\ cli[e.by].pc = "await"
  BY DEF LockInv, TypeOK, EditRequests, RequestInv, At
<1>1. ASSUME NEW r, Point(r), UNCHANGED <<installed, cli>>,
             \A e \in edits' : RequestPinned(e, history')
      PROVE  PinInv'
  <2>1. \A p \in Procs : RunPinned(cli[p], installed, history')
    BY <1>1, StaysPinned DEF PinInv, Point
  <2> QED BY <1>1, <2>1 DEF PinInv, Point, RequestPinned
<1>2. ASSUME NEW e \in edits, Accept(e) PROVE PinInv'
  <2>1. PICK r \in Revisions : Point(r) /\ edits' = (edits \ {e}) \union {[e EXCEPT !.made = r]}
    BY <1>2 DEF Accept
  <2>2. e \in EditRequests
    BY DEF LockInv, TypeOK
  <2>3. /\ [e EXCEPT !.made = r].made = r /\ [e EXCEPT !.made = r].by = e.by
        /\ [e EXCEPT !.made = r].expected = e.expected
    BY <2>2 DEF EditRequests
  <2>4. \A f \in edits' : RequestPinned(f, history')
    BY <2>1, <2>3 DEF PinInv, RequestPinned, Point
  <2> QED BY <1>1, <1>2, <2>1, <2>4 DEF Accept
<1>3. ASSUME NEW r, Publish(r) \/ Rollback(r) PROVE PinInv'
  <2>1. \A f \in edits' : RequestPinned(f, history')
    BY <1>3 DEF Publish, Rollback, PinInv, RequestPinned, Point
  <2> QED BY <1>1, <1>3, <2>1 DEF Publish, Rollback
<1>4. ASSUME NEW e \in edits, edits' = edits \ {e}, UNCHANGED <<installed, staging, history>>,
             \A q \in Procs : RunPinned(cli'[q], installed, history) /\ (q # e.by => cli'[q] = cli[q])
      PROVE  PinInv'
  <2>1. \A f \in edits' : f.by # None => f.by # e.by
    BY <1>4 DEF LockInv, RequestInv
  <2>2. \A f \in edits' : RequestPinned(f, history)'
    BY <1>0, <1>4, <2>1 DEF PinInv, RequestPinned
  <2> QED BY <1>4, <2>2 DEF PinInv
<1>8. ASSUME NEW e \in edits, NEW r, Becomes(e.by, r), e.by # None,
             RunPinned(r, installed, history)
      PROVE  \A q \in Procs : RunPinned(cli'[q], installed, history) /\ (q # e.by => cli'[q] = cli[q])
  BY <1>0, <1>8, Run1 DEF PinInv
<1>5. ASSUME NEW e \in edits, Answer(e) PROVE PinInv'
  <2>1. CASE e.by = None
    BY <1>4, <1>5, <2>1 DEF Answer, PinInv
  <2>2. CASE e.by # None
    <3> DEFINE c == cli[e.by]
    <3>1. PICK r \in {e.made, staging} : Becomes(e.by, [c EXCEPT !.pc = "receipt", !.rev = r])
      BY <1>5, <2>2 DEF Answer
    <3>2. RunPinned(c, installed, history) /\ c \in Run /\ c.pc = "await" /\ r \in history
      BY <1>0, <1>5, <2>2, <3>1 DEF PinInv, RequestPinned, Answer
    <3> HIDE DEF c
    <3> DEFINE d == [c EXCEPT !.pc = "receipt", !.rev = r]
    <3>3. d.pc = "receipt" /\ d.rev = r /\ d.base = c.base /\ d.kept = c.kept
      BY <3>2 DEF Run
    <3> HIDE DEF d
    <3>4. RunPinned(d, installed, history)
      BY <3>2, <3>3 DEF RunPinned, Edited, Bound
    <3>5. Becomes(e.by, d)
      BY <3>1 DEF d
    <3> QED BY <1>4, <1>5, <1>8, <2>2, <3>4, <3>5 DEF Answer
  <2> QED BY <2>1, <2>2
<1>6. ASSUME NEW e \in edits, Conflict(e) PROVE PinInv'
  <2>1. RunPinned([Idle EXCEPT !.pc = "release"], installed, history)
    BY DEF RunPinned, Idle, Edited
  <2>2. CASE e.by = None
    BY <1>4, <1>6, <2>2 DEF Conflict, PinInv
  <2>3. CASE e.by # None
    BY <1>4, <1>6, <1>8, <2>1, <2>3 DEF Conflict
  <2> QED BY <2>2, <2>3
<1>7. ASSUME NEW e \in edits, Lose(e) PROVE PinInv'
  BY <1>4, <1>7 DEF Lose, PinInv
<1> QED BY <1>2, <1>3, <1>5, <1>6, <1>7 DEF Service

\* The editor replaces one file, in a folder without a binding if there was
\* none: by a draft nobody has saved, or by nothing if it was published.
LEMMA EditorFields ==
  ASSUME LockInv, NEW n \in Paths, Save(n) \/ Delete(n)
  PROVE  /\ UNCHANGED <<lock, cli, had, staging, history, edits, faults>> /\ Watch
         /\ installed' # NoFolder /\ unused' \subseteq unused
         /\ installed'.marker = IF installed = NoFolder THEN None ELSE installed.marker
         /\ \E v : /\ \/ v \in unused /\ v \notin unused'
                      \/ v = Absent /\ installed # NoFolder /\ installed.files[n] \in Published
                   /\ \A m \in Names : installed'.files[m] =
                        IF m = n THEN v ELSE IF installed = NoFolder THEN Absent
                                             ELSE installed.files[m]
<1>1. ASSUME Save(n)
      PROVE  \E v \in unused \ unused' :
               /\ installed' # NoFolder
               /\ installed'.marker = IF installed = NoFolder THEN None ELSE installed.marker
               /\ \A m \in Names : installed'.files[m] =
                    IF m = n THEN v ELSE IF installed = NoFolder THEN Absent
                                         ELSE installed.files[m]
  <2> DEFINE draft == CHOOSE d \in unused : TRUE
             before == IF installed = NoFolder
                       THEN [files |-> EmptyTree, marker |-> None] ELSE installed
  <2>1. draft \in unused /\ before \in Folders
    BY <1>1, TreeFacts DEF Save, LockInv, TypeOK, Folders
  <2>2. installed' = [before EXCEPT !.files[n] = draft] /\ unused' = unused \ {draft}
    BY <1>1 DEF Save
  <2>3. \A m \in Names : before.files[m] = IF installed = NoFolder THEN Absent ELSE installed.files[m]
    BY DEF EmptyTree
  <2>4. before.marker = IF installed = NoFolder THEN None ELSE installed.marker
    OBVIOUS
  <2> HIDE DEF draft, before
  <2>5. installed' = [files |-> [before.files EXCEPT ![n] = draft], marker |-> before.marker]
    BY <2>1, <2>2 DEF Folders
  <2>6. /\ [before.files EXCEPT ![n] = draft] \in Trees
        /\ \A m \in Names : [before.files EXCEPT ![n] = draft][m] = IF m = n THEN draft ELSE before.files[m]
    BY <2>1 DEF Folders, Trees, Names, Contents, LockInv, TypeOK
  <2>7. installed' \in Folders
    BY <2>1, <2>5, <2>6 DEF Folders
  <2> QED BY <2>1, <2>2, <2>3, <2>4, <2>5, <2>6, <2>7
<1>2. ASSUME Delete(n)
      PROVE  /\ installed' # NoFolder /\ installed'.marker = installed.marker
             /\ \A m \in Names : installed'.files[m] = IF m = n THEN Absent ELSE installed.files[m]
  <2>1. installed \in Folders
    BY <1>2 DEF Delete, LockInv, TypeOK
  <2>2. installed' = [files |-> [installed.files EXCEPT ![n] = Absent], marker |-> installed.marker]
    BY <1>2, <2>1 DEF Delete, Folders
  <2>3. /\ [installed.files EXCEPT ![n] = Absent] \in Trees
        /\ \A m \in Names : [installed.files EXCEPT ![n] = Absent][m] = IF m = n THEN Absent ELSE installed.files[m]
    BY <2>1 DEF Folders, Trees, Names, Contents
  <2>4. installed' \in Folders
    BY <2>1, <2>2, <2>3 DEF Folders
  <2> QED BY <2>2, <2>3, <2>4
<1> QED BY <1>1, <1>2 DEF Save, Delete

\* By hand a folder is moved only while no run holds the lock.
LEMMA PinnedUser == ASSUME LockInv, PinInv, User PROVE PinInv'
<1>1. /\ UNCHANGED <<cli, staging, history, edits>>
      /\ \/ installed' # NoFolder /\ installed # NoFolder /\ installed'.marker = installed.marker
         \/ installed' # NoFolder /\ installed = NoFolder /\ installed'.marker = None
         \/ installed' = NoFolder /\ lock \notin Procs
         \/ installed' = installed
  BY EditorFields DEF User, PreserveByHand, RemoveStaleLock
<1>2. ASSUME NEW p \in Procs PROVE RunPinned(cli[p], installed', history)
  <2>1. cli[p].pc \in Locked => lock = p
    BY DEF LockInv, LockDiscipline
  <2>2. cli[p].pc \in Locked /\ Bound(cli[p], installed) => Bound(cli[p], installed')
    BY <1>1, <2>1 DEF Bound
  <2> QED BY <2>2, StaysPinned DEF PinInv
<1> QED BY <1>1, <1>2 DEF PinInv, RequestPinned

LEMMA PinnedNext == LockInv /\ HeldInv /\ PinInv /\ [Next]_vars => PinInv'
<1> SUFFICES ASSUME LockInv, HeldInv, PinInv, [Next]_vars PROVE PinInv'
  OBVIOUS
<1>1. CASE UNCHANGED vars
  BY <1>1 DEF vars, PinInv, RequestPinned
<1> QED BY <1>1, PinnedStep, PinnedService, PinnedUser DEF Next

----------------------------------------------------------------------------
(* Drafts the editor has not saved are nowhere.                             *)

NoneOf(tree, new) == \A n \in Names : tree[n] \notin new

FolderFresh(f, new) == f # NoFolder => NoneOf(f.files, new)

RunFresh(r, new) ==
  NoneOf(r.local, new) /\ NoneOf(r.scanned, new) /\ FolderFresh(r.kept, new)

RequestFresh(e, new) == \A n \in DOMAIN e.changes : e.changes[n] \notin new

FreshInv ==
  /\ FolderFresh(installed, unused)
  /\ \A r \in history : NoneOf(Files[r], unused)
  /\ \A p \in Procs : RunFresh(cli[p], unused)
  /\ \A e \in edits : RequestFresh(e, unused)

LEMMA EmptyFresh == ASSUME LockInv PROVE NoneOf(EmptyTree, unused)
BY ContentAssumption DEF NoneOf, EmptyTree, LockInv, TypeOK

LEMMA InitFresh == Init => FreshInv
<1> SUFFICES ASSUME Init PROVE FreshInv
  OBVIOUS
<1>1. NoneOf(Files[FirstRevision], unused) /\ NoneOf(EmptyTree, unused)
  BY ContentAssumption DEF Init, NoneOf, EmptyTree
<1>2. FolderFresh(installed, unused) /\ \A r \in history : NoneOf(Files[r], unused)
  BY <1>1 DEF Init, FolderFresh
<1>3. \A p \in Procs : RunFresh(cli[p], unused)
  BY <1>1 DEF Init, Idle, RunFresh, FolderFresh
<1> QED BY <1>2, <1>3 DEF FreshInv, Init

LEMMA FreshRun ==
  ASSUME LockInv, HeldInv, PinInv, FreshInv, NEW p \in Procs, Step(p) \/ Crash(p)
  PROVE  /\ RunFresh(cli'[p], unused)
         /\ FolderFresh(installed', unused) /\ unused' = unused
<1> DEFINE c == cli[p]
           d == cli'[p]
           Goal == /\ RunFresh(d, unused)
                   /\ FolderFresh(installed', unused) /\ unused' = unused
<1>1. /\ RunFresh(c, unused) /\ FolderFresh(installed, unused) /\ NoneOf(EmptyTree, unused)
      /\ \A r \in history : NoneOf(Files[r], unused)
      /\ BindingBytes \notin unused /\ Absent \notin unused
      /\ RunPinned(c, installed, history)
  BY EmptyFresh, ContentAssumption DEF FreshInv, LockInv, TypeOK, PinInv
<1>2. ASSUME NEW cmd \in {"pull", "push"}, StartManaged(p, cmd) PROVE Goal
  BY <1>1, <1>2, StartFields DEF RunFresh, FolderFresh, Unmoved
<1>3. ASSUME StartFresh(p) PROVE Goal
  BY <1>1, <1>3, FreshFields DEF RunFresh, FolderFresh, Unmoved
<1>4. ASSUME ScanFile(p) PROVE Goal
  <2>1. cli[p].left \subseteq Names
    BY Run1 DEF Run
  <2>2. NoneOf(d.scanned, unused)
    BY <1>1, <1>4, <2>1, ScanFields DEF RunFresh, FolderFresh, NoneOf
  <2> QED BY <1>1, <1>4, <2>2, ScanFields DEF RunFresh, Unmoved
<1>5. ASSUME CheckLocal(p) PROVE Goal
  BY <1>1, <1>5, CheckFields DEF RunFresh, Unmoved
<1>6. ASSUME Inspect(p) PROVE Goal
  BY <1>1, <1>6, InspectFields DEF RunFresh, Unmoved, KeepsScan
<1>7. ASSUME AcquireLock(p) \/ SendEdit(p) \/ CheckReceipt(p) PROVE Goal
  <2>1. PICK pc : /\ Becomes(p, [cli[p] EXCEPT !.pc = pc])
                  /\ UNCHANGED <<installed, unused>>
    BY <1>7 DEF AcquireLock, SendEdit, CheckReceipt, Unmoved
  <2> QED BY <1>1, <2>1, MoveFields DEF RunFresh, KeepsScan
<1>8. ASSUME Recheck(p) PROVE Goal
  BY <1>1, <1>8, RecheckFields DEF RunFresh, Unmoved
<1>9. ASSUME Compare(p) PROVE Goal
  BY <1>1, <1>9, CompareFields DEF RunFresh, Unmoved
<1>10. ASSUME WriteTemporary(p) PROVE Goal
  <2>1. FolderFresh(installed', unused)
    BY <1>1, <1>10, WriteFields DEF FolderFresh, NoneOf
  <2> QED BY <1>1, <1>10, <2>1, WriteFields DEF RunFresh, KeepsScan
<1>11. ASSUME RenameMarker(p) PROVE Goal
  <2>1. FolderFresh(installed', unused)
    BY <1>1, <1>11, RenameFields DEF FolderFresh, NoneOf
  <2> QED BY <1>1, <1>11, <2>1, RenameFields DEF RunFresh, KeepsScan
<1>12. ASSUME Download(p) PROVE Goal
  <2>1. NoneOf(Files[c.rev], unused)
    BY <1>1, <1>12, DownloadFields DEF RunPinned
  <2> QED BY <1>1, <1>12, <2>1, DownloadFields DEF RunFresh, Unmoved
<1>13. ASSUME LastCheck(p) PROVE Goal
  BY <1>1, <1>13, LastCheckFields DEF RunFresh, Unmoved
<1>14. ASSUME MoveAside(p) PROVE Goal
  BY <1>1, <1>14, AsideFields DEF RunFresh, FolderFresh, KeepsScan
<1>15. ASSUME Install(p) PROVE Goal
  <2>1. /\ Becomes(p, [cli[p] EXCEPT !.pc = "release"]) /\ installed'.files = c.local
        /\ unused' = unused
    BY <1>15 DEF Install
  <2> QED BY <1>1, <2>1, MoveFields DEF RunFresh, FolderFresh, KeepsScan
<1>16. ASSUME InstallFails(p) PROVE Goal
  BY <1>1, <1>16, FailFields DEF RunFresh, FolderFresh, KeepsScan
<1>17. ASSUME Release(p) \/ Abort(p) \/ Crash(p) PROVE Goal
  BY <1>1, <1>17, EndFields DEF RunFresh, FolderFresh
<1> QED BY <1>2, <1>3, <1>4, <1>5, <1>6, <1>7, <1>8, <1>9, <1>10, <1>11, <1>12, <1>13,
           <1>14, <1>15, <1>16, <1>17 DEF Step

\* The changes a run sends are files of its scan.
LEMMA FreshRequests ==
  ASSUME LockInv, FreshInv, NEW p \in Procs, Step(p) \/ Crash(p)
  PROVE  \A e \in edits' : RequestFresh(e, unused)
<1>1. CASE SendEdit(p)
  <2> DEFINE f == [by |-> p, expected |-> ExpectedRevision(p), made |-> None,
                   changes |-> SyncChanges(Files[cli[p].base], cli[p].local)]
  <2>1. edits' = edits \union {f} /\ f.changes = SyncChanges(Files[cli[p].base], cli[p].local)
    BY <1>1 DEF SendEdit
  <2> HIDE DEF f
  <2>2. RequestFresh(f, unused)
    BY <2>1 DEF FreshInv, RequestFresh, SyncChanges, RunFresh, NoneOf
  <2> QED BY <2>1, <2>2 DEF FreshInv
<1>2. ASSUME NEW e \in edits PROVE [e EXCEPT !.by = None].changes = e.changes
  BY DEF LockInv, TypeOK, EditRequests
<1>3. CASE edits' = Orphaned(p)
  BY <1>2, <1>3 DEF Orphaned, FreshInv, RequestFresh
<1>4. CASE edits' = edits
  BY <1>4 DEF FreshInv
<1>5. SendEdit(p) \/ edits' = Orphaned(p) \/ edits' = edits
  <2>1. CASE (\E cmd \in {"pull", "push"} : StartManaged(p, cmd)) \/ StartFresh(p)
             \/ ScanFile(p) \/ CheckLocal(p) \/ Inspect(p) \/ AcquireLock(p)
    BY <2>1 DEF StartManaged, StartFresh, ScanFile, CheckLocal, Inspect, AcquireLock, Unmoved
  <2>2. CASE Recheck(p) \/ Compare(p) \/ CheckReceipt(p) \/ WriteTemporary(p) \/ RenameMarker(p)
    BY <2>2 DEF Recheck, Compare, CheckReceipt, WriteTemporary, RenameMarker, Unmoved
  <2>3. CASE Download(p) \/ LastCheck(p) \/ MoveAside(p) \/ Install(p) \/ InstallFails(p)
    BY <2>3 DEF Download, LastCheck, MoveAside, Install, InstallFails, Unmoved
  <2> QED BY EndFields, <2>1, <2>2, <2>3 DEF Step
<1> QED BY <1>1, <1>3, <1>4, <1>5

LEMMA FreshService == ASSUME LockInv, PinInv, FreshInv, Service PROVE FreshInv'
<1>0. installed' = installed /\ unused' = unused
  BY DEF Service, Accept, Answer, Conflict, Lose, Publish, Rollback
<1>1. ASSUME NEW e \in edits, Accept(e) PROVE FreshInv'
  <2>1. PICK r \in Revisions : /\ Files[r] = ApplyChanges(Files[e.expected], e.changes)
                               /\ Point(r) /\ edits' = (edits \ {e}) \union {[e EXCEPT !.made = r]}
    BY <1>1 DEF Accept
  <2>2. [e EXCEPT !.made = r].changes = e.changes
    BY DEF LockInv, TypeOK, EditRequests
  <2>3. NoneOf(Files[r], unused)
    BY <2>1 DEF FreshInv, PinInv, RequestPinned, RequestFresh, NoneOf, ApplyChanges
  <2>4. \A f \in edits' : RequestFresh(f, unused)
    BY <2>1, <2>2 DEF FreshInv, RequestFresh
  <2>5. \A q \in history' : NoneOf(Files[q], unused)
    BY <2>1, <2>3 DEF FreshInv, Point
  <2> QED BY <1>0, <1>1, <2>4, <2>5 DEF FreshInv, Accept
<1>2. ASSUME NEW r \in Publishable, Publish(r) PROVE FreshInv'
  <2>1. NoneOf(Files[r], unused)
    BY ContentAssumption DEF NoneOf, LockInv, TypeOK
  <2> QED BY <1>0, <1>2, <2>1 DEF FreshInv, Publish, Point
<1>3. ASSUME NEW r \in history, Rollback(r) PROVE FreshInv'
  BY <1>0, <1>3 DEF FreshInv, Rollback, Point
<1>4. ASSUME NEW e \in edits, Answer(e) \/ Conflict(e) \/ Lose(e) PROVE FreshInv'
  <2>1. \A q \in Procs : RunFresh(cli'[q], unused)
    <3>1. CASE cli' = cli
      BY <3>1 DEF FreshInv
    <3>2. CASE e.by # None /\ (Answer(e) \/ Conflict(e))
      <4>1. e.by \in Procs
        BY <3>2 DEF LockInv, TypeOK, EditRequests
      <4>2. ASSUME Answer(e) PROVE RunFresh(cli'[e.by], unused) /\ \A q \in Procs \ {e.by} : cli'[q] = cli[q]
        <5> DEFINE c == cli[e.by]
        <5>1. PICK r : Becomes(e.by, [c EXCEPT !.pc = "receipt", !.rev = r])
          BY <3>2, <4>2 DEF Answer
        <5>2. c \in Run /\ RunFresh(c, unused)
          BY <4>1, Run1 DEF FreshInv
        <5> HIDE DEF c
        <5> DEFINE d == [c EXCEPT !.pc = "receipt", !.rev = r]
        <5>3. d.local = c.local /\ d.scanned = c.scanned /\ d.kept = c.kept
          BY <5>2 DEF Run
        <5>4. cli'[e.by] = d /\ \A q \in Procs \ {e.by} : cli'[q] = cli[q]
          BY <4>1, <5>1, Run1 DEF c
        <5> HIDE DEF d
        <5> QED BY <5>2, <5>3, <5>4 DEF RunFresh
      <4>3. ASSUME Conflict(e) PROVE RunFresh(cli'[e.by], unused) /\ \A q \in Procs \ {e.by} : cli'[q] = cli[q]
        <5>1. /\ cli'[e.by] = [Idle EXCEPT !.pc = "release"]
              /\ \A q \in Procs \ {e.by} : cli'[q] = cli[q]
          BY <3>2, <4>1, <4>3, Run1 DEF Conflict
        <5> QED BY <5>1, EmptyFresh DEF RunFresh, FolderFresh, Idle
      <4> QED BY <3>2, <4>2, <4>3 DEF FreshInv
    <3> QED BY <1>4, <3>1, <3>2 DEF Answer, Conflict, Lose
  <2>2. edits' \subseteq edits /\ history' = history
    BY <1>4 DEF Answer, Conflict, Lose
  <2> QED BY <1>0, <2>1, <2>2 DEF FreshInv
<1> QED BY <1>1, <1>2, <1>3, <1>4 DEF Service

LEMMA FreshUser == ASSUME LockInv, FreshInv, User PROVE FreshInv'
<1>1. ASSUME NEW n \in Paths, Save(n) \/ Delete(n) PROVE FreshInv'
  <2>1. Absent \notin unused
    BY ContentAssumption DEF LockInv, TypeOK
  <2>2. FolderFresh(installed', unused')
    BY <1>1, <2>1, EditorFields DEF FreshInv, FolderFresh, NoneOf
  <2>3. \A p \in Procs : RunFresh(cli[p], unused')
    BY <1>1, EditorFields DEF FreshInv, RunFresh, FolderFresh, NoneOf
  <2>4. \A r \in history : NoneOf(Files[r], unused')
    BY <1>1, EditorFields DEF FreshInv, NoneOf
  <2>5. \A e \in edits : RequestFresh(e, unused')
    BY <1>1, EditorFields DEF FreshInv, RequestFresh
  <2> QED BY <1>1, <2>2, <2>3, <2>4, <2>5, EditorFields DEF FreshInv
<1>2. CASE PreserveByHand \/ RemoveStaleLock
  BY <1>2 DEF PreserveByHand, RemoveStaleLock, FreshInv, FolderFresh
<1> QED BY <1>1, <1>2 DEF User

LEMMA FreshNext == LockInv /\ HeldInv /\ PinInv /\ FreshInv /\ [Next]_vars => FreshInv'
<1> SUFFICES ASSUME LockInv, HeldInv, PinInv, FreshInv, [Next]_vars PROVE FreshInv'
  OBVIOUS
<1>1. ASSUME NEW p \in Procs, Step(p) \/ Crash(p) PROVE FreshInv'
  <2>1. \A q \in Procs : RunFresh(cli'[q], unused)
    BY <1>1, Others, FreshRun DEF FreshInv
  <2> QED BY <1>1, <2>1, FreshRun, FreshRequests, PinnedRequests DEF FreshInv
<1>2. CASE UNCHANGED vars
  BY <1>2 DEF vars, FreshInv
<1> QED BY <1>1, <1>2, FreshService, FreshUser DEF Next

----------------------------------------------------------------------------
(* Snapshots.  A path that two scans read with the same content had it all  *)
(* the time between: a draft is saved once, what was published is not saved *)
(* again, and a path that was empty holds nothing but drafts afterwards.    *)

Seen(content, now) == content = Absent => now \in Drafts \union {Absent}

\* What the folder f still shows of the run's first scan it showed at s.
Since(r, f, s) ==
  \A n \in Names : /\ r.local[n] = f.files[n] => r.local[n] = s[n]
                   /\ n \in Paths => Seen(r.local[n], f.files[n])

HasBinding(f) == f # NoFolder /\ f.marker # None

RunSnap(r, f, instants) ==
  /\ r.pc = "scan" /\ HasBinding(f) =>
       \A n \in Paths \ r.left : Seen(r.scanned[n], f.files[n])
  /\ r.pc \in {"inspect", "lock"} /\ r.base # None /\ HasBinding(f) =>
       \A n \in Paths : Seen(r.local[n], f.files[n])
  /\ r.pc = "recheck" /\ r.base # None /\ HasBinding(f) =>
       \E s \in instants : Since(r, f, s)
  /\ r.pc = "rescan" =>
       \E s \in instants :
         /\ Since(r, f, s)
         /\ \A n \in Names \ r.left : r.scanned[n] = r.local[n] => r.local[n] = s[n]
  /\ r.pc \in {"inspect", "lock", "recheck", "rescan"} /\ r.cmd = "pull" /\ r.base # None =>
       r.local = Files[r.base]
  /\ r.pc \in Edited => r.local \in instants
  /\ r.pc \in {"download", "lastscan", "aside", "install"} /\ r.base # None =>
       Files[r.base] \in instants
  /\ r.pc = "install" /\ r.kept # NoFolder => r.base # None /\ r.kept.marker = r.base

SnapInv == \A p \in Procs : RunSnap(cli[p], installed, moments)

\* A run that began on a folder and has not taken the lock yet.
Waiting(r) == r.pc \in {"scan", "inspect", "lock"} /\ r.base # None

\* While such a run waits, nobody installs the folder anew once it is gone.
NoReinstall ==
  (\E p \in Procs : Waiting(cli[p])) /\ installed = NoFolder => ~Managed'

LEMMA InitSnap == Init => SnapInv
BY DEF Init, SnapInv, RunSnap, Idle, Edited

LEMMA RestSnap ==
  ASSUME NEW r, NEW f, NEW m, r.pc \in {"idle", "release"}
  PROVE  RunSnap(r, f, m)
BY DEF RunSnap, Edited

\* Two scans with the same changes against one package agree.
LEMMA SameTree ==
  ASSUME NEW b \in Trees, NEW t \in Trees, NEW u \in Trees,
         SyncChanges(b, t) = SyncChanges(b, u)
  PROVE  t = u
<1>1. ASSUME NEW n \in Names PROVE t[n] = u[n]
  <2>1. DOMAIN SyncChanges(b, t) = {m \in Names : b[m] # t[m]}
    BY DEF SyncChanges
  <2>2. DOMAIN SyncChanges(b, u) = {m \in Names : b[m] # u[m]}
    BY DEF SyncChanges
  <2>3. b[n] # t[n] <=> b[n] # u[n]
    BY <2>1, <2>2
  <2>4. CASE b[n] # t[n]
    BY <2>3, <2>4 DEF SyncChanges
  <2>5. CASE b[n] = t[n]
    BY <2>3, <2>5
  <2> QED BY <2>4, <2>5
<1> QED BY <1>1 DEF Trees

\* A run whose scans agree has read the folder as it was at one instant.
LEMMA ScansAgree ==
  ASSUME LockInv, PinInv, SnapInv, NEW p \in Procs, Compare(p)
  PROVE  cli[p].local \in moments
<1> DEFINE c == cli[p]
<1>1. c \in Run /\ c.pc = "rescan" /\ c.left = {} /\ moments \subseteq Trees /\ c.base # None
  BY Run1, CompareFields DEF LockInv, TypeOK, RunInv
<1>2. Files[c.base] \in Trees /\ c.local \in Trees /\ c.scanned \in Trees
  BY <1>1, TreeFacts DEF Run
<1>3. SyncChanges(Files[c.base], c.scanned) = SyncChanges(Files[c.base], c.local)
  BY CompareFields DEF SameChanges
<1>4. c.scanned = c.local
  BY <1>2, <1>3, SameTree
<1>5. PICK s \in moments : \A n \in Names \ c.left : c.scanned[n] = c.local[n] => c.local[n] = s[n]
  BY <1>1 DEF SnapInv, RunSnap
<1>6. s \in Trees /\ \A n \in Names : c.local[n] = s[n]
  BY <1>1, <1>4, <1>5
<1>7. c.local = s
  BY <1>2, <1>6 DEF Trees
<1> QED BY <1>7

LEMMA SnapRun ==
  ASSUME LockInv, HeldInv, PinInv, SnapInv, NEW p \in Procs, Step(p) \/ Crash(p)
  PROVE  RunSnap(cli'[p], installed', moments')
<1> DEFINE c == cli[p]
           d == cli'[p]
           Goal == RunSnap(d, installed', moments')
<1>1. /\ c \in Run /\ RunSnap(c, installed, moments) /\ RunPinned(c, installed, history)
      /\ c.pc \in Locked <=> lock = p
  BY Run1 DEF SnapInv, PinInv, LockInv, LockDiscipline
<1>0. Next
  BY DEF Next
<1>a. lock = p /\ lock' = lock => moments \subseteq moments'
  BY <1>0, MomentsGrow
<1>2. ASSUME NEW cmd \in {"pull", "push"}, StartManaged(p, cmd) PROVE Goal
  BY <1>1, <1>2, StartFields, NamesAssumption DEF RunSnap, Edited, Names
<1>3. ASSUME StartFresh(p) PROVE Goal
  BY <1>1, <1>3, FreshFields DEF RunSnap, Edited
<1>4. ASSUME ScanFile(p) PROVE Goal
  <2>0. installed' = installed /\ moments' = moments /\ d.pc = c.pc /\ d.local = c.local
        /\ d.base = c.base /\ d.cmd = c.cmd /\ d.kept = c.kept
    BY <1>4, ScanFields DEF Unmoved, Continues
  <2>1. PICK n \in c.left :
          /\ d.left = c.left \ {n}
          /\ \A m \in Names : d.scanned[m] = IF m = n THEN installed.files[n] ELSE c.scanned[m]
    BY <1>4, ScanFields
  <2>2. n \in Names /\ Seen(installed.files[n], installed.files[n])
    BY <1>1 DEF Run, Seen
  <2>3. CASE c.pc = "scan"
    BY <1>1, <2>0, <2>1, <2>2, <2>3 DEF RunSnap, Edited, Names
  <2>4. CASE c.pc = "rescan"
    <3>1. PICK s \in moments :
            /\ Since(c, installed, s)
            /\ \A m \in Names \ c.left : c.scanned[m] = c.local[m] => c.local[m] = s[m]
      BY <1>1, <2>4 DEF RunSnap
    <3>2. /\ Since(d, installed, s)
          /\ \A m \in Names \ d.left : d.scanned[m] = d.local[m] => d.local[m] = s[m]
      BY <2>0, <2>1, <2>2, <3>1 DEF Since
    <3> QED BY <1>1, <2>0, <2>4, <3>2 DEF RunSnap, Edited
  <2>5. CASE c.pc = "lastscan"
    BY <1>1, <2>0, <2>5 DEF RunSnap, Edited
  <2> QED BY <1>4, <2>3, <2>4, <2>5, ScanFields
<1>5. ASSUME CheckLocal(p) PROVE Goal
  <2>1. d.cmd = "pull" => d.local = Files[d.base]
    BY <1>5, CheckFields DEF LocalAcceptable, Continues
  <2> QED BY <1>1, <1>5, <2>1, CheckFields DEF RunSnap, Edited, Unmoved, Continues
<1>6. ASSUME Inspect(p) PROVE Goal
  BY <1>1, <1>6, InspectFields DEF RunSnap, Edited, Unmoved, Continues
<1>7. ASSUME AcquireLock(p) PROVE Goal
  <2>1. d.pc = "recheck" /\ Continues(c, d) /\ d.local = c.local /\ c.pc = "lock"
        /\ installed' = installed
    BY <1>7, MoveFields DEF AcquireLock, At
  <2>2. installed # NoFolder => installed.files \in moments'
    BY <1>7 DEF AcquireLock, Watch, FilesOf
  <2>3. d.base # None /\ HasBinding(installed) => Since(d, installed, installed.files)
    BY <1>1, <2>1 DEF RunSnap, Since, Continues
  <2>4. d.base # None /\ HasBinding(installed) => \E s \in moments' : Since(d, installed, s)
    BY <2>2, <2>3 DEF HasBinding
  <2> QED BY <1>1, <2>1, <2>4 DEF RunSnap, Edited, Continues
<1>8. ASSUME Recheck(p) PROVE Goal
  <2>0. /\ installed' = installed /\ moments' = moments /\ Continues(c, d) /\ d.local = c.local
        /\ c.pc = "recheck"
    BY <1>8, RecheckFields DEF Unmoved
  <2>1. CASE d.pc = "rescan" /\ d.left = Names /\ c.base # None /\ Managed
    <3>1. PICK s \in moments : Since(c, installed, s)
      BY <1>1, <2>0, <2>1 DEF RunSnap, HasBinding, Managed
    <3>2. Since(d, installed, s)
      BY <2>0, <3>1 DEF Since
    <3> QED BY <1>1, <2>0, <2>1, <3>2 DEF RunSnap, Edited, Continues
  <2>2. CASE d.pc = "download" /\ d.base = None
    BY <2>2 DEF RunSnap, Edited
  <2> QED BY <1>8, <2>0, <2>1, <2>2, RecheckFields DEF Continues
<1>9. ASSUME Compare(p) PROVE Goal
  <2>1. c.local \in moments /\ moments' = moments /\ Continues(c, d) /\ d.local = c.local
        /\ d.pc \in {"download", "edit", "release"}
        /\ (d.pc = "download" <=> c.cmd = "pull") /\ c.pc = "rescan"
    BY <1>9, ScansAgree, CompareFields DEF Unmoved
  <2>2. d.pc = "download" /\ d.base # None => Files[d.base] \in moments
    BY <1>1, <2>1 DEF RunSnap, Continues
  <2> QED BY <2>1, <2>2 DEF RunSnap, Edited
<1>10. ASSUME SendEdit(p) \/ CheckReceipt(p) PROVE Goal
  <2>1. PICK pc \in {"await", "temp"} :
          /\ Becomes(p, [cli[p] EXCEPT !.pc = pc]) /\ c.pc \in Edited /\ moments' = moments
    BY <1>10 DEF SendEdit, CheckReceipt, At, Unmoved, Edited
  <2> QED BY <1>1, <2>1, MoveFields DEF RunSnap, Edited
<1>11. ASSUME WriteTemporary(p) PROVE Goal
  BY <1>1, <1>a, <1>11, WriteFields DEF RunSnap, Edited, Locked
<1>12. ASSUME RenameMarker(p) PROVE Goal
  BY <1>12, RenameFields, RestSnap
<1>13. ASSUME Download(p) PROVE Goal
  <2>1. c.kept = NoFolder
    BY <1>13, DownloadFields DEF HeldInv, RunHeld
  <2> QED BY <1>1, <1>13, <2>1, DownloadFields DEF RunSnap, Edited, Unmoved, Continues
<1>14. ASSUME LastCheck(p) PROVE Goal
  BY <1>1, <1>14, LastCheckFields DEF RunSnap, Edited, Unmoved, Continues
<1>15. ASSUME MoveAside(p) PROVE Goal
  BY <1>1, <1>a, <1>15, AsideFields DEF RunSnap, Edited, Continues, RunPinned, Bound, Locked
<1>16. ASSUME Install(p) PROVE Goal
  BY <1>16, MoveFields, RestSnap DEF Install
<1>17. ASSUME InstallFails(p) PROVE Goal
  BY <1>17, FailFields, RestSnap
<1>18. ASSUME Release(p) \/ Abort(p) \/ Crash(p) PROVE Goal
  BY <1>18, EndFields, RestSnap
<1> QED BY <1>2, <1>3, <1>4, <1>5, <1>6, <1>7, <1>8, <1>9, <1>10, <1>11, <1>12, <1>13,
           <1>14, <1>15, <1>16, <1>17, <1>18 DEF Step

\* The steps of another run under which a folder with a binding stays.
LEMMA PathsStay ==
  ASSUME LockInv, HeldInv, PinInv, NEW p \in Procs, Step(p) \/ Crash(p),
         NoReinstall, \E q \in Procs : Waiting(cli[q]), HasBinding(installed')
  PROVE  /\ HasBinding(installed)
         /\ \A n \in Paths : installed'.files[n] = installed.files[n]
<1>1. installed # NoFolder
  BY DEF NoReinstall, Managed, HasBinding
<1>2. CASE installed' = installed
  BY <1>2
<1>3. CASE WriteTemporary(p)
  BY <1>1, <1>3, WriteFields, NamesAssumption DEF HasBinding, Names
<1>4. CASE RenameMarker(p)
  <2>1. installed.marker # None
    BY <1>4, RenameFields DEF PinInv, RunPinned, Edited, Bound
  <2> QED BY <1>1, <1>4, <2>1, RenameFields, NamesAssumption DEF HasBinding, Names
<1>5. installed' = installed \/ WriteTemporary(p) \/ RenameMarker(p)
  <2>1. CASE (\E cmd \in {"pull", "push"} : StartManaged(p, cmd)) \/ StartFresh(p)
             \/ ScanFile(p) \/ CheckLocal(p) \/ Inspect(p) \/ AcquireLock(p)
    BY <2>1 DEF StartManaged, StartFresh, ScanFile, CheckLocal, Inspect, AcquireLock, Unmoved
  <2>2. CASE Recheck(p) \/ Compare(p) \/ SendEdit(p) \/ CheckReceipt(p) \/ Download(p) \/ LastCheck(p)
    BY <2>2 DEF Recheck, Compare, SendEdit, CheckReceipt, Download, LastCheck, Unmoved
  <2>3. CASE MoveAside(p) \/ Install(p) \/ InstallFails(p)
    BY <1>1, <2>3, AsideFields, FailFields DEF Install, HasBinding
  <2> QED BY <2>1, <2>2, <2>3, EndFields DEF Step
<1> QED BY <1>2, <1>3, <1>4, <1>5

\* A file of f either stays in g or gets a content not seen there before.
Ages(f, g, new) ==
  \A n \in Paths : \A x : x \notin new /\ Seen(x, f.files[n]) =>
    Seen(x, g.files[n]) /\ (x = g.files[n] => x = f.files[n])

LEMMA SameAges == ASSUME NEW f, NEW g, NEW new, \A n \in Paths : g.files[n] = f.files[n]
                  PROVE Ages(f, g, new)
BY DEF Ages

LEMMA SinceAges ==
  ASSUME NEW r, NEW f, NEW g, NEW s, NEW new, Since(r, f, s), Ages(f, g, new),
         NoneOf(r.local, new), \A t \in TempNames : g.files[t] = f.files[t]
  PROVE  Since(r, g, s)
BY DEF Since, Ages, NoneOf, Names

\* What the other actors may do to the folder and the instants under a run.
LEMMA SnapOther ==
  ASSUME NEW r, NEW f, NEW g, NEW m, NEW k, NEW new, NEW past,
         RunSnap(r, f, m), RunPinned(r, f, past), RunFresh(r, new),
         r.pc \in Locked => m \subseteq k,
         \/ r.pc \in {"scan", "inspect", "lock", "recheck"} /\ r.base # None /\ HasBinding(g)
         \/ r.pc = "rescan"
         => /\ r.pc = "rescan" \/ HasBinding(f)
            /\ Ages(f, g, new)
            /\ r.pc \in {"recheck", "rescan"} => \A t \in TempNames : g.files[t] = f.files[t]
  PROVE  RunSnap(r, g, k)
<1>1. CASE r.pc = "scan"
  BY <1>1 DEF RunSnap, Edited, RunPinned, RunFresh, NoneOf, Ages, Names
<1>2. CASE r.pc \in {"inspect", "lock"}
  BY <1>2 DEF RunSnap, Edited, RunFresh, NoneOf, Ages, Names
<1>3. CASE r.pc = "recheck"
  <2>1. ASSUME r.base # None, HasBinding(g) PROVE \E s \in k : Since(r, g, s)
    <3>1. PICK s \in m : Since(r, f, s)
      BY <1>3, <2>1 DEF RunSnap
    <3>2. Since(r, g, s)
      BY <1>3, <2>1, <3>1, SinceAges DEF RunFresh
    <3> QED BY <1>3, <3>2 DEF Locked
  <2> QED BY <1>3, <2>1 DEF RunSnap, Edited
<1>4. CASE r.pc = "rescan"
  <2>1. PICK s \in m : /\ Since(r, f, s)
                       /\ \A n \in Names \ r.left : r.scanned[n] = r.local[n] => r.local[n] = s[n]
    BY <1>4 DEF RunSnap
  <2>2. Since(r, g, s) /\ s \in k
    BY <1>4, <2>1, SinceAges DEF RunFresh, Locked
  <2> QED BY <1>4, <2>1, <2>2 DEF RunSnap, Edited
<1>5. CASE r.pc \notin {"scan", "inspect", "lock", "recheck", "rescan"}
  BY <1>5 DEF RunSnap, Edited, Locked
<1> QED BY <1>1, <1>2, <1>3, <1>4, <1>5

LEMMA SnapStep ==
  ASSUME LockInv, HeldInv, PinInv, FreshInv, SnapInv, NEW p \in Procs, Step(p) \/ Crash(p),
         NoReinstall
  PROVE  SnapInv'
<1>1. Next
  BY DEF Next
<1>2. ASSUME NEW q \in Procs \ {p} PROVE RunSnap(cli[q], installed', moments')
  <2>1. /\ RunSnap(cli[q], installed, moments) /\ RunPinned(cli[q], installed, history)
        /\ RunFresh(cli[q], unused)
    BY DEF SnapInv, PinInv, FreshInv
  <2>2. cli[q].pc \in Locked => moments \subseteq moments' /\ installed' = installed
    BY <1>1, Others, MomentsGrow
  <2>3. cli[q].pc \in {"scan", "inspect", "lock"} /\ cli[q].base # None /\ HasBinding(installed')
          => HasBinding(installed) /\ Ages(installed, installed', unused)
    BY PathsStay, SameAges DEF Waiting
  <2>4. installed' = installed => Ages(installed, installed', unused)
    BY SameAges
  <2> QED BY <2>1, <2>2, <2>3, <2>4, SnapOther DEF Locked
<1> QED BY <1>2, Others, SnapRun DEF SnapInv

LEMMA SnapService == ASSUME LockInv, SnapInv, Service PROVE SnapInv'
<1>0. installed' = installed /\ moments' = moments
  BY DEF Service, Accept, Answer, Conflict, Lose, Publish, Rollback
<1>1. CASE cli' = cli
  BY <1>0, <1>1 DEF SnapInv
<1>2. ASSUME NEW e \in edits, e.by # None, Answer(e) \/ Conflict(e) PROVE SnapInv'
  <2>1. /\ e.by \in Procs /\ cli[e.by] \in Run /\ cli[e.by].pc = "await"
        /\ RunSnap(cli[e.by], installed, moments)
    BY <1>2 DEF LockInv, TypeOK, EditRequests, RequestInv, At, SnapInv
  <2>2. CASE Conflict(e)
    <3>1. cli'[e.by] = [Idle EXCEPT !.pc = "release"] /\ \A q \in Procs \ {e.by} : cli'[q] = cli[q]
      BY <1>2, <2>1, <2>2, Run1 DEF Conflict
    <3>2. cli'[e.by].pc = "release"
      BY <3>1 DEF Idle
    <3>3. RunSnap(cli'[e.by], installed, moments)
      BY <3>2, RestSnap
    <3> QED BY <1>0, <3>1, <3>3 DEF SnapInv
  <2>3. CASE Answer(e)
    <3> DEFINE c == cli[e.by]
    <3>1. PICK r : Becomes(e.by, [c EXCEPT !.pc = "receipt", !.rev = r])
      BY <1>2, <2>3 DEF Answer
    <3>2. c \in Run /\ c.pc = "await" /\ RunSnap(c, installed, moments)
      BY <2>1
    <3> HIDE DEF c
    <3> DEFINE d == [c EXCEPT !.pc = "receipt", !.rev = r]
    <3>3. d.local = c.local /\ d.pc = "receipt"
      BY <3>2 DEF Run
    <3>4. cli'[e.by] = d /\ \A q \in Procs \ {e.by} : cli'[q] = cli[q]
      BY <2>1, <3>1, Run1 DEF c
    <3> HIDE DEF d
    <3>5. RunSnap(d, installed, moments)
      BY <3>2, <3>3 DEF RunSnap, Edited
    <3> QED BY <1>0, <3>4, <3>5 DEF SnapInv
  <2> QED BY <1>2, <2>2, <2>3
<1> QED BY <1>1, <1>2 DEF Service, Accept, Answer, Conflict, Lose, Publish, Rollback

LEMMA EditorAges ==
  ASSUME LockInv, FreshInv, NEW n \in Paths, Save(n) \/ Delete(n), installed # NoFolder
  PROVE  Ages(installed, installed', unused)
<1>1. PICK v : /\ \/ v \in unused /\ v \notin unused'
                  \/ v = Absent /\ installed.files[n] \in Published
               /\ \A m \in Names : installed'.files[m] = IF m = n THEN v ELSE installed.files[m]
  BY EditorFields
<1>2. ASSUME NEW x, x \notin unused, Seen(x, installed.files[n])
      PROVE  Seen(x, v) /\ (x = v => x = installed.files[n])
  BY <1>1, <1>2, ContentAssumption DEF Seen, LockInv, TypeOK
<1> QED BY <1>1, <1>2 DEF Ages, Names

LEMMA SnapUser == ASSUME LockInv, PinInv, FreshInv, SnapInv, User PROVE SnapInv'
<1>1. ASSUME NEW p \in Procs
      PROVE  /\ RunSnap(cli[p], installed, moments) /\ RunPinned(cli[p], installed, history)
             /\ RunFresh(cli[p], unused)
             /\ cli[p].pc \in Locked => lock = p
  BY DEF SnapInv, PinInv, FreshInv, LockInv, LockDiscipline
<1>2. ASSUME NEW n \in Paths, Save(n) \/ Delete(n) PROVE SnapInv'
  <2>1. ASSUME NEW p \in Procs PROVE RunSnap(cli[p], installed', moments')
    <3>1. cli[p].pc \in Locked => moments \subseteq moments'
      BY <1>1, <1>2, MomentsGrow, EditorFields DEF Next, User
    <3>2. HasBinding(installed') => HasBinding(installed)
      BY <1>2, EditorFields DEF HasBinding
    <3>3. cli[p].pc = "rescan" => installed # NoFolder
      BY <1>1 DEF RunPinned, Bound
    <3>4. installed # NoFolder => \A t \in TempNames : installed'.files[t] = installed.files[t]
      BY <1>2, EditorFields, NamesAssumption DEF Names
    <3>5. installed # NoFolder => Ages(installed, installed', unused)
      BY <1>2, EditorAges
    <3> QED BY <1>1, <3>1, <3>2, <3>3, <3>4, <3>5, SnapOther DEF HasBinding
  <2> QED BY <1>2, <2>1, EditorFields DEF SnapInv
<1>3. CASE PreserveByHand
  <2>1. ASSUME NEW p \in Procs PROVE RunSnap(cli[p], NoFolder, moments)
    <3>1. cli[p].pc \notin Locked
      BY <1>1, <1>3 DEF PreserveByHand
    <3> QED BY <1>1, <3>1, SnapOther DEF HasBinding, Locked
  <2> QED BY <1>3, <2>1 DEF PreserveByHand, SnapInv
<1>4. CASE RemoveStaleLock
  BY <1>4 DEF RemoveStaleLock, SnapInv
<1> QED BY <1>2, <1>3, <1>4 DEF User

LEMMA SnapNext ==
  LockInv /\ HeldInv /\ PinInv /\ FreshInv /\ SnapInv /\ [Next]_vars /\ [NoReinstall]_vars
    => SnapInv'
<1> SUFFICES ASSUME LockInv, HeldInv, PinInv, FreshInv, SnapInv, [Next]_vars, [NoReinstall]_vars
             PROVE  SnapInv'
  OBVIOUS
<1>1. CASE UNCHANGED vars
  BY <1>1 DEF vars, SnapInv
<1> QED BY <1>1, SnapStep, SnapService, SnapUser DEF Next

\* Whatever runs, the service and the users do, a run under the lock works on
\* the folder whose binding it started from (the recheck, cli/skills.ts
\* 110-115), every pin is a revision staging has held, a request expects its
\* sender's base, and a draft is nowhere before the editor saves it.
THEOREM FolderInvariant == Spec => [](LockInv /\ HeldInv /\ PinInv /\ FreshInv)
<1>1. LockInv /\ HeldInv /\ PinInv /\ FreshInv /\ [Next]_vars => (HeldInv /\ PinInv /\ FreshInv)'
  BY HeldNext, PinnedNext, FreshNext
<1>2. Init => HeldInv /\ PinInv /\ FreshInv
  BY InitHeld, InitPinned, InitFresh
<1> QED BY <1>1, <1>2, LockInvariant, PTL DEF Spec

\* With it, the two scans of a run see one instant of the folder.
LEMMA SnapInvariant == Spec /\ [][NoReinstall]_vars => []SnapInv
BY InitSnap, SnapNext, FolderInvariant, PTL DEF Spec

\* A push of any number of files, beside any number of other runs and an
\* editor that saves all the while, uploads a package the folder held at one
\* instant under the lock (cli/skills.ts 92-97 and 113-114: two scans that
\* agree), unless the folder was taken away and installed anew while the run
\* was between its first scan and the lock.
THEOREM Snapshots == Spec /\ [][NoReinstall]_vars => []PushIsSnapshot
<1>1. SnapInv => PushIsSnapshot
  BY DEF SnapInv, RunSnap, PushIsSnapshot, Edited
<1> QED BY <1>1, SnapInvariant, PTL

\* A binding that a step of a run writes pins a package of the lock's tenure.
LEMMA StepPins ==
  ASSUME LockInv, HeldInv, PinInv, KnownInv, SnapInv, NEW p \in Procs, Step(p) \/ Crash(p),
         HasBinding(installed'), ~(HasBinding(installed) /\ installed.marker = installed'.marker)
  PROVE  Files[installed'.marker] \in moments'
<1> DEFINE c == cli[p]
<1>1. /\ RunSnap(c, installed, moments) /\ RunKnown(c, had) /\ RunPinned(c, installed, history)
      /\ c.pc \in Locked => lock = p
  BY DEF SnapInv, KnownInv, PinInv, LockInv, LockDiscipline
<1>2. Next
  BY DEF Next
<1>3. CASE RenameMarker(p)
  <2>1. installed'.marker = c.rev /\ c.pc = "rename" /\ lock' = lock
    BY <1>3, RenameFields
  <2>2. Files[c.rev] = c.local /\ c.local \in moments /\ lock = p
    BY <1>1, <2>1 DEF RunKnown, RunSnap, Edited, Locked
  <2> QED BY <1>2, <2>1, <2>2, MomentsGrow
<1>4. CASE Install(p)
  <2>1. /\ installed' = [files |-> c.local, marker |-> c.rev] /\ c.pc = "install" /\ lock' = lock
        /\ Watch
    BY <1>4 DEF Install, At
  <2>2. Files[c.rev] = c.local /\ lock = p
    BY <1>1, <2>1 DEF RunKnown, Locked
  <2> QED BY <2>1, <2>2 DEF Watch, FilesOf, HasBinding
<1>5. CASE InstallFails(p)
  <2>1. installed' = c.kept /\ c.kept # NoFolder /\ c.pc = "install" /\ lock' = lock
    BY <1>5, FailFields DEF HasBinding
  <2>2. c.kept.marker = c.base /\ Files[c.base] \in moments /\ lock = p
    BY <1>1, <2>1 DEF RunSnap, Locked
  <2> QED BY <1>2, <2>1, <2>2, MomentsGrow
<1>6. CASE WriteTemporary(p)
  BY <1>6, WriteFields DEF HasBinding
<1>7. installed' = installed \/ WriteTemporary(p) \/ RenameMarker(p) \/ Install(p) \/ InstallFails(p)
  <2>1. CASE (\E cmd \in {"pull", "push"} : StartManaged(p, cmd)) \/ StartFresh(p)
             \/ ScanFile(p) \/ CheckLocal(p) \/ Inspect(p) \/ AcquireLock(p)
    BY <2>1 DEF StartManaged, StartFresh, ScanFile, CheckLocal, Inspect, AcquireLock, Unmoved
  <2>2. CASE Recheck(p) \/ Compare(p) \/ SendEdit(p) \/ CheckReceipt(p) \/ Download(p) \/ LastCheck(p)
    BY <2>2 DEF Recheck, Compare, SendEdit, CheckReceipt, Download, LastCheck, Unmoved
  <2>3. ~MoveAside(p)
    BY AsideFields DEF HasBinding
  <2> QED BY <2>1, <2>2, <2>3, EndFields DEF Step
<1> QED BY <1>3, <1>4, <1>5, <1>6, <1>7

\* Under the same condition a binding that appears in the folder, by pull, by
\* push or by the return of a backup (cli/skills.ts 120-125, 138-141), pins a
\* package the folder held under that lock.
THEOREM PinsWhatWasThere == Spec /\ [][NoReinstall]_vars => BindingPinsFolder
<1>1. ASSUME LockInv, HeldInv, PinInv, KnownInv, SnapInv, [Next]_vars
      PROVE  [LET pins(f) == f # NoFolder /\ f.marker # None
              IN  pins(installed') /\ ~(pins(installed) /\ installed.marker = installed'.marker)
                    => Files[installed'.marker] \in moments']_vars
  <2> SUFFICES ASSUME HasBinding(installed'),
                      ~(HasBinding(installed) /\ installed.marker = installed'.marker)
               PROVE  Files[installed'.marker] \in moments'
    BY DEF HasBinding
  <2>1. CASE \E p \in Procs : Step(p) \/ Crash(p)
    BY <1>1, <2>1, StepPins
  <2>2. CASE Service \/ UNCHANGED vars
    BY <2>2 DEF Service, Accept, Answer, Conflict, Lose, Publish, Rollback, vars
  <2>3. CASE User
    BY <1>1, <2>3, EditorFields DEF User, PreserveByHand, RemoveStaleLock, HasBinding
  <2> QED BY <1>1, <2>1, <2>2, <2>3 DEF Next
<1>2. Spec => []KnownInv
  BY InitKnown, KnownStep, LockInvariant, PTL DEF Spec
<1> QED BY <1>1, <1>2, FolderInvariant, SnapInvariant, PTL DEF BindingPinsFolder, Spec

\* One run at a time never finds the folder installed anew while it waits.
LEMMA OneRunAlone ==
  ASSUME \A p, q \in Procs : p = q, LockInv, HeldInv, PinInv, [Next]_vars
  PROVE  [NoReinstall]_vars
<1> SUFFICES ASSUME NEW w \in Procs, Waiting(cli[w]), installed = NoFolder
             PROVE  ~HasBinding(installed')
  BY DEF NoReinstall, Managed, HasBinding
<1>1. ASSUME Step(w) \/ Crash(w) PROVE installed' = installed
  <2>1. cli[w].pc \in {"scan", "inspect", "lock"}
    BY DEF Waiting
  <2>2. ~(WriteTemporary(w) \/ RenameMarker(w) \/ MoveAside(w) \/ Install(w) \/ InstallFails(w))
    BY <2>1 DEF WriteTemporary, RenameMarker, MoveAside, Install, InstallFails, At
  <2>3. CASE (\E cmd \in {"pull", "push"} : StartManaged(w, cmd)) \/ StartFresh(w)
             \/ ScanFile(w) \/ CheckLocal(w) \/ Inspect(w) \/ AcquireLock(w)
    BY <2>3 DEF StartManaged, StartFresh, ScanFile, CheckLocal, Inspect, AcquireLock, Unmoved
  <2>4. CASE Recheck(w) \/ Compare(w) \/ SendEdit(w) \/ CheckReceipt(w) \/ Download(w) \/ LastCheck(w)
    BY <2>4 DEF Recheck, Compare, SendEdit, CheckReceipt, Download, LastCheck, Unmoved
  <2> QED BY <1>1, <2>2, <2>3, <2>4, EndFields DEF Step
<1>2. CASE \E p \in Procs : Step(p) \/ Crash(p)
  BY <1>1, <1>2 DEF HasBinding
<1>3. CASE Service \/ UNCHANGED vars
  BY <1>3 DEF Service, Accept, Answer, Conflict, Lose, Publish, Rollback, vars, HasBinding
<1>4. CASE User
  BY <1>4, EditorFields DEF User, PreserveByHand, RemoveStaleLock, HasBinding
<1> QED BY <1>2, <1>3, <1>4 DEF Next

\* A single run at a time meets that condition by itself: nobody but a run
\* installs a folder with a binding.
THEOREM OneRunSnapshots ==
  ASSUME \A p, q \in Procs : p = q
  PROVE  Spec => []PushIsSnapshot /\ BindingPinsFolder
<1>1. LockInv /\ HeldInv /\ PinInv /\ [Next]_vars => [NoReinstall]_vars
  BY OneRunAlone
<1>2. Spec => [][NoReinstall]_vars
  BY <1>1, FolderInvariant, PTL DEF Spec
<1> QED BY <1>2, Snapshots, PinsWhatWasThere, PTL

----------------------------------------------------------------------------
(* Leftovers.  A temporary binding that a failed run leaves in the folder   *)
(* pins the user's files to a base that staging has left for good: the push *)
(* that wrote it was accepted.  So no later run gets past its inspection.   *)

\* The files of a package that are temporary bindings.
Clean(tree) == \A t \in TempNames : tree[t] = Absent

Leftover(f) == f # NoFolder /\ ~Clean(f.files)

\* Staging has left the base of every run.
BasesPassed == \A p \in Procs : cli[p].base # staging

\* The service has carried out the edit of this run.
Accepted(p) ==
  \/ cli[p].pc \in {"receipt", "temp", "rename"}
  \/ cli[p].pc = "await" /\ \E e \in edits : e.by = p /\ e.made # None

RunLeft(r, f, stage) ==
  /\ r.pc = "scan" =>
       \A t \in TempNames \ r.left : r.scanned[t] # Absent => r.base # stage
  /\ r.pc \in {"inspect", "lock", "recheck", "rescan", "edit", "await"} =>
       (~Clean(r.local) => r.base # stage)
  /\ r.pc \in {"receipt", "temp"} => ~Leftover(f)
  /\ r.pc = "rename" => \A t \in TempNames \ {r.temp} : f.files[t] = Absent
  /\ r.pc = "lastscan" => \A t \in TempNames \ r.left : r.scanned[t] = f.files[t]
  /\ r.pc = "aside" => ~Leftover(f)
  /\ ~Leftover(r.kept)

\* What is sent holds a temporary only against a revision staging has left,
\* and every change of a request is one.
RequestLeft(e, stage) ==
  /\ \/ e.expected # stage
     \/ \A t \in TempNames \intersect DOMAIN e.changes : e.changes[t] = Absent
  /\ \A n \in DOMAIN e.changes : e.changes[n] # Files[e.expected][n]

AcceptedInv ==
  \A p \in Procs : Accepted(p) =>
    BasesPassed /\ (cli[p].pc = "await" => ~Leftover(installed))

LeftInv ==
  /\ \A r \in history : Clean(Files[r])
  /\ Leftover(installed) => installed.marker # staging /\ BasesPassed
  /\ \A p \in Procs : RunLeft(cli[p], installed, staging)
  /\ \A e \in edits : RequestLeft(e, staging)
  /\ AcceptedInv

\* Staging never returns to a revision it has held.
NoReturn == staging' # staging => staging' \notin history

LEMMA EmptyClean == Clean(EmptyTree)
BY DEF Clean, EmptyTree, Names

LEMMA InitLeft == Init => LeftInv
<1> SUFFICES ASSUME Init PROVE LeftInv
  OBVIOUS
<1>1. Clean(Files[FirstRevision])
  BY ContentAssumption DEF Clean
<1>2. \A p \in Procs : RunLeft(cli[p], installed, staging) /\ ~Accepted(p)
  BY DEF Init, Idle, RunLeft, Leftover, Accepted
<1> QED BY <1>1, <1>2 DEF Init, LeftInv, AcceptedInv, Leftover

\* Restarting and ending hold nothing.
LEMMA RestLeft ==
  ASSUME NEW r, NEW f, NEW stage, r.pc \in {"idle", "release"}, ~Leftover(r.kept)
  PROVE  RunLeft(r, f, stage)
BY DEF RunLeft

LEMMA NoLeftover == ~Leftover(NoFolder)
BY DEF Leftover

\* What a step of a run does to the run, the folder and the requests.
LEMMA LeftRun ==
  ASSUME LockInv, HeldInv, PinInv, KnownInv, LeftInv, NEW p \in Procs, Step(p) \/ Crash(p)
  PROVE  RunLeft(cli'[p], installed', staging)
<1> DEFINE c == cli[p]
           d == cli'[p]
           Goal == RunLeft(d, installed', staging)
<1>1. /\ c \in Run /\ RunLeft(c, installed, staging) /\ RunPinned(c, installed, history)
      /\ \A r \in history : Clean(Files[r])
      /\ Leftover(installed) => installed.marker # staging /\ c.base # staging
      /\ ~Leftover(NoFolder)
  BY Run1, NoLeftover DEF PinInv, LeftInv, BasesPassed
<1>2. ASSUME NEW cmd \in {"pull", "push"}, StartManaged(p, cmd) PROVE Goal
  BY <1>1, <1>2, StartFields DEF RunLeft, Names
<1>3. ASSUME StartFresh(p) PROVE Goal
  BY <1>1, <1>3, FreshFields, EmptyClean DEF RunLeft
<1>4. ASSUME ScanFile(p) PROVE Goal
  <2>0. installed' = installed /\ d.pc = c.pc /\ d.local = c.local
        /\ d.base = c.base /\ d.kept = c.kept /\ installed # NoFolder
    BY <1>4, ScanFields DEF Unmoved, Continues
  <2>1. PICK n \in c.left :
          /\ d.left = c.left \ {n}
          /\ \A m \in Names : d.scanned[m] = IF m = n THEN installed.files[n] ELSE c.scanned[m]
    BY <1>4, ScanFields
  <2>2. CASE c.pc = "scan"
    <3>1. \A t \in TempNames \ d.left : d.scanned[t] # Absent => d.base # staging
      BY <1>1, <2>0, <2>1, <2>2 DEF RunLeft, Leftover, Clean, Names
    <3> QED BY <1>1, <2>0, <2>2, <3>1 DEF RunLeft
  <2>3. CASE c.pc = "rescan"
    BY <1>1, <2>0, <2>3 DEF RunLeft
  <2>4. CASE c.pc = "lastscan"
    <3>1. \A t \in TempNames \ d.left : d.scanned[t] = installed.files[t]
      BY <1>1, <2>0, <2>1, <2>4 DEF RunLeft, Names
    <3> QED BY <1>1, <2>0, <2>4, <3>1 DEF RunLeft
  <2> QED BY <1>4, <2>2, <2>3, <2>4, ScanFields
<1>5. ASSUME CheckLocal(p) PROVE Goal
  <2>1. ~Clean(d.local) => d.base # staging
    BY <1>1, <1>5, CheckFields DEF RunLeft, Clean, Continues
  <2> QED BY <1>1, <1>5, <2>1, CheckFields DEF RunLeft
<1>6. ASSUME Inspect(p) PROVE Goal
  BY <1>1, <1>6, InspectFields DEF RunLeft, Continues
<1>7. ASSUME AcquireLock(p) \/ SendEdit(p) PROVE Goal
  <2>1. PICK pc \in {"recheck", "await"} :
          /\ Becomes(p, [cli[p] EXCEPT !.pc = pc]) /\ c.pc \in {"lock", "edit"}
    BY <1>7 DEF AcquireLock, SendEdit, At
  <2> QED BY <1>1, <2>1, MoveFields DEF RunLeft, Continues
<1>8. ASSUME CheckReceipt(p) PROVE Goal
  <2>1. Becomes(p, [cli[p] EXCEPT !.pc = "temp"]) /\ c.pc = "receipt" /\ installed' = installed
    BY <1>8 DEF CheckReceipt, At, Unmoved
  <2> QED BY <1>1, <2>1, MoveFields DEF RunLeft
<1>9. ASSUME Recheck(p) PROVE Goal
  BY <1>1, <1>9, RecheckFields DEF RunLeft, Continues
<1>10. ASSUME Compare(p) PROVE Goal
  BY <1>1, <1>10, CompareFields DEF RunLeft, Continues
<1>11. ASSUME WriteTemporary(p) PROVE Goal
  BY <1>1, <1>11, WriteFields DEF RunLeft, Leftover, Clean, Names
<1>12. ASSUME RenameMarker(p) PROVE Goal
  BY <1>1, <1>12, RenameFields, RestLeft DEF RunLeft
<1>13. ASSUME Download(p) PROVE Goal
  <2>1. d.kept = c.kept /\ (d.pc = "install" \/ (d.pc = "lastscan" /\ d.left = Names))
    BY <1>13, DownloadFields
  <2> QED BY <1>1, <2>1 DEF RunLeft, Names
<1>14. ASSUME LastCheck(p) PROVE Goal
  <2>1. /\ d.kept = c.kept /\ d.pc = "aside" /\ c.pc = "lastscan" /\ c.left = {}
        /\ installed' = installed /\ c.scanned = Files[c.base]
    BY <1>14, LastCheckFields DEF Unmoved
  <2>2. c.base \in history
    BY <1>1, <2>1 DEF RunPinned
  <2>3. ~Leftover(installed)
    BY <1>1, <2>1, <2>2 DEF RunLeft, Leftover, Clean
  <2> QED BY <1>1, <2>1, <2>3 DEF RunLeft
<1>15. ASSUME MoveAside(p) PROVE Goal
  BY <1>1, <1>15, AsideFields DEF RunLeft
<1>16. ASSUME Install(p) PROVE Goal
  <2>1. d.pc = "release" /\ d.kept = c.kept
    BY <1>16, MoveFields DEF Install
  <2> QED BY <1>1, <2>1, RestLeft DEF RunLeft
<1>17. ASSUME InstallFails(p) PROVE Goal
  <2>1. d.pc = "release" /\ d.kept \in {c.kept, NoFolder}
    BY <1>17, FailFields
  <2> QED BY <1>1, <2>1, RestLeft DEF RunLeft
<1>18. ASSUME Release(p) \/ Abort(p) \/ Crash(p) PROVE Goal
  BY <1>1, <1>18, EndFields, RestLeft
<1> QED BY <1>2, <1>3, <1>4, <1>5, <1>6, <1>7, <1>8, <1>9, <1>10, <1>11, <1>12, <1>13,
           <1>14, <1>15, <1>16, <1>17, <1>18 DEF Step

LEMMA LeftFolder ==
  ASSUME LockInv, HeldInv, PinInv, KnownInv, LeftInv, NEW p \in Procs, Step(p) \/ Crash(p)
  PROVE  Leftover(installed') => installed'.marker # staging /\ BasesPassed'
<1> DEFINE c == cli[p]
           d == cli'[p]
<1>1. /\ RunLeft(c, installed, staging) /\ RunPinned(c, installed, history)
      /\ \A r \in history : Clean(Files[r])
      /\ ~Leftover(NoFolder) /\ staging # None
      /\ staging' = staging
  BY NoLeftover, PinnedRequests DEF PinInv, LeftInv, LockInv, TypeOK
<1>2. ASSUME installed' = installed PROVE Leftover(installed') => installed'.marker # staging /\ BasesPassed'
  <2>1. d.base \in {c.base, None} \/ (installed # NoFolder /\ d.base = installed.marker)
    <3>1. CASE (\E cmd \in {"pull", "push"} : StartManaged(p, cmd)) \/ StartFresh(p)
      BY <3>1, StartFields, FreshFields DEF Managed
    <3>2. CASE ScanFile(p) \/ CheckLocal(p) \/ Inspect(p) \/ Recheck(p) \/ Compare(p)
      BY <3>2, ScanFields, CheckFields, InspectFields, RecheckFields, CompareFields DEF Continues
    <3>3. CASE AcquireLock(p) \/ SendEdit(p) \/ CheckReceipt(p) \/ Install(p)
      BY <3>3, MoveFields DEF AcquireLock, SendEdit, CheckReceipt, Install, Continues
    <3>4. CASE WriteTemporary(p) \/ RenameMarker(p) \/ Download(p) \/ LastCheck(p)
               \/ MoveAside(p) \/ InstallFails(p)
      BY <3>4, WriteFields, RenameFields, DownloadFields, LastCheckFields, AsideFields, FailFields
         DEF Continues
    <3> QED BY <3>1, <3>2, <3>3, <3>4, EndFields DEF Step
  <2>2. \A q \in Procs \ {p} : cli'[q] = cli[q]
    BY Others
  <2> QED BY <1>1, <1>2, <2>1, <2>2 DEF LeftInv, BasesPassed
<1>3. CASE WriteTemporary(p)
  <2>1. BasesPassed
    BY <1>3, WriteFields DEF LeftInv, AcceptedInv, Accepted
  <2>2. BasesPassed'
    BY <1>1, <1>3, <2>1, WriteFields, Others DEF BasesPassed, Continues
  <2>3. installed'.marker = c.base
    BY <1>1, <1>3, WriteFields DEF RunPinned, Edited, Bound
  <2> QED BY <2>1, <2>2, <2>3 DEF BasesPassed
<1>4. CASE RenameMarker(p)
  BY <1>1, <1>4, RenameFields DEF RunLeft, Leftover, Clean, Names
<1>5. CASE Install(p)
  <2>1. installed'.files = c.local /\ c.pc = "install"
    BY <1>5 DEF Install, At
  <2>2. c.local = Files[c.rev] /\ c.rev \in history
    BY <1>1, <2>1 DEF KnownInv, RunKnown, RunPinned
  <2> QED BY <1>1, <2>1, <2>2 DEF Leftover
<1>6. CASE MoveAside(p) \/ InstallFails(p)
  BY <1>1, <1>2, <1>6, AsideFields, FailFields DEF RunLeft
<1>7. installed' = installed \/ WriteTemporary(p) \/ RenameMarker(p) \/ Install(p)
      \/ MoveAside(p) \/ InstallFails(p)
  <2>1. CASE (\E cmd \in {"pull", "push"} : StartManaged(p, cmd)) \/ StartFresh(p)
             \/ ScanFile(p) \/ CheckLocal(p) \/ Inspect(p) \/ AcquireLock(p)
    BY <2>1 DEF StartManaged, StartFresh, ScanFile, CheckLocal, Inspect, AcquireLock, Unmoved
  <2>2. CASE Recheck(p) \/ Compare(p) \/ SendEdit(p) \/ CheckReceipt(p) \/ Download(p) \/ LastCheck(p)
    BY <2>2 DEF Recheck, Compare, SendEdit, CheckReceipt, Download, LastCheck, Unmoved
  <2> QED BY <2>1, <2>2, EndFields DEF Step
<1> QED BY <1>2, <1>3, <1>4, <1>5, <1>6, <1>7

\* What the requests are after a step of a run.
LEMMA RequestsAfter ==
  ASSUME LockInv, NEW p \in Procs, Step(p) \/ Crash(p), ~SendEdit(p)
  PROVE  \/ edits' = edits /\ cli'[p].pc # "await"
         \/ edits' = Orphaned(p) /\ cli'[p].pc \in {"idle", "release"}
<1>1. CASE (\E cmd \in {"pull", "push"} : StartManaged(p, cmd)) \/ StartFresh(p)
           \/ ScanFile(p) \/ CheckLocal(p) \/ Inspect(p)
  BY <1>1, StartFields, FreshFields, ScanFields, CheckFields, InspectFields DEF Unmoved
<1>2. CASE AcquireLock(p) \/ CheckReceipt(p) \/ Install(p)
  BY <1>2, MoveFields DEF AcquireLock, CheckReceipt, Install, Unmoved
<1>3. CASE Recheck(p) \/ Compare(p) \/ Download(p) \/ LastCheck(p)
  BY <1>3, RecheckFields, CompareFields, DownloadFields, LastCheckFields DEF Unmoved
<1>4. CASE WriteTemporary(p) \/ MoveAside(p) \/ InstallFails(p)
  BY <1>4, WriteFields, AsideFields, FailFields
<1>5. CASE RenameMarker(p)
  BY <1>5, MoveFields DEF RenameMarker
<1> QED BY <1>1, <1>2, <1>3, <1>4, <1>5, EndFields DEF Step

LEMMA LeftRequests ==
  ASSUME LockInv, PinInv, LeftInv, NEW p \in Procs, Step(p) \/ Crash(p)
  PROVE  \A e \in edits' : RequestLeft(e, staging)
<1>1. CASE SendEdit(p)
  <2> DEFINE f == [by |-> p, expected |-> ExpectedRevision(p), made |-> None,
                   changes |-> SyncChanges(Files[cli[p].base], cli[p].local)]
  <2>1. /\ edits' = edits \union {f} /\ f.expected = cli[p].base
        /\ f.changes = SyncChanges(Files[cli[p].base], cli[p].local)
        /\ cli[p].pc = "edit"
    BY <1>1 DEF SendEdit, ExpectedRevision, At
  <2> HIDE DEF f
  <2>2. cli[p].base # staging \/ Clean(cli[p].local)
    BY <2>1 DEF LeftInv, RunLeft
  <2>3. RequestLeft(f, staging)
    BY <2>1, <2>2 DEF RequestLeft, SyncChanges, Clean
  <2> QED BY <2>1, <2>3 DEF LeftInv
<1>2. ASSUME NEW e \in edits PROVE RequestLeft([e EXCEPT !.by = None], staging)
  <2> DEFINE f == [e EXCEPT !.by = None]
  <2>1. f.changes = e.changes /\ f.expected = e.expected
    BY DEF LockInv, TypeOK, EditRequests
  <2> HIDE DEF f
  <2>2. RequestLeft(f, staging)
    BY <2>1 DEF LeftInv, RequestLeft
  <2> QED BY <2>2 DEF f
<1>3. CASE edits' = Orphaned(p)
  <2>1. ASSUME NEW f \in edits' PROVE RequestLeft(f, staging)
    <3>1. PICK e \in edits : f = IF e.by = p THEN [e EXCEPT !.by = None] ELSE e
      BY <1>3 DEF Orphaned
    <3>2. f = e \/ f = [e EXCEPT !.by = None]
      BY <3>1
    <3> QED BY <1>2, <3>2 DEF LeftInv
  <2> QED BY <2>1
<1>4. CASE edits' = edits
  BY <1>4 DEF LeftInv
<1> QED BY <1>1, <1>3, <1>4, RequestsAfter

\* Who is accepted after a step of p was so before.
LEMMA AcceptedBefore ==
  ASSUME LockInv, NEW p \in Procs, Step(p) \/ Crash(p), NEW q \in Procs, Accepted(q)'
  PROVE  Accepted(q)
<1>1. CASE SendEdit(p)
  <2> DEFINE f == [by |-> p, expected |-> ExpectedRevision(p), made |-> None,
                   changes |-> SyncChanges(Files[cli[p].base], cli[p].local)]
  <2>1. edits' = edits \union {f} /\ f.made = None /\ cli[p].pc = "edit"
    BY <1>1 DEF SendEdit, At
  <2>2. cli'[p].pc = "await"
    BY <1>1, MoveFields DEF SendEdit
  <2> HIDE DEF f
  <2>3. \A e \in edits : e.by # p
    BY <2>1 DEF LockInv, RequestInv, At
  <2> QED BY <2>1, <2>2, <2>3, Others DEF Accepted
<1>2. CASE q # p /\ ~SendEdit(p)
  <2>1. cli'[q] = cli[q]
    BY <1>2, Others
  <2>2. ASSUME NEW e \in edits', e.by = q, e.made # None
        PROVE  \E f \in edits : f.by = q /\ f.made # None
    <3>1. CASE edits' = Orphaned(p)
      <4>1. PICK f \in edits : e = IF f.by = p THEN [f EXCEPT !.by = None] ELSE f
        BY <3>1 DEF Orphaned
      <4>2. [f EXCEPT !.by = None].by = None
        BY DEF LockInv, TypeOK, EditRequests
      <4> QED BY <2>2, <4>1, <4>2
    <3> QED BY <1>2, <2>2, <3>1, RequestsAfter
  <2> QED BY <2>1, <2>2 DEF Accepted
<1>3. CASE q = p /\ ~SendEdit(p)
  <2>1. cli'[p].pc \in {"receipt", "temp", "rename"}
    BY <1>3, RequestsAfter DEF Accepted
  <2>2. CASE CheckReceipt(p) \/ WriteTemporary(p)
    BY <1>3, <2>2, WriteFields DEF Accepted, CheckReceipt, At
  <2>3. CASE (\E cmd \in {"pull", "push"} : StartManaged(p, cmd)) \/ StartFresh(p)
             \/ ScanFile(p) \/ CheckLocal(p) \/ Inspect(p)
    BY <2>1, <2>3, StartFields, FreshFields, ScanFields, CheckFields, InspectFields
  <2>4. CASE Recheck(p) \/ Compare(p) \/ Download(p) \/ LastCheck(p)
    BY <2>1, <2>4, RecheckFields, CompareFields, DownloadFields, LastCheckFields
  <2>5. CASE AcquireLock(p) \/ Install(p) \/ RenameMarker(p)
    BY <2>1, <2>5, MoveFields DEF AcquireLock, Install, RenameMarker
  <2>6. CASE MoveAside(p) \/ InstallFails(p)
    BY <2>1, <2>6, AsideFields, FailFields
  <2> QED BY <1>3, <2>1, <2>2, <2>3, <2>4, <2>5, <2>6, EndFields DEF Step
<1> QED BY <1>1, <1>2, <1>3

\* While an accepted edit is on its way, a run that starts reads a base that
\* has passed as well: the binding is still the one the edit was made from.
LEMMA LeftAccepted ==
  ASSUME LockInv, PinInv, LeftInv, NEW p \in Procs, Step(p) \/ Crash(p)
  PROVE  AcceptedInv'
<1> SUFFICES ASSUME NEW q \in Procs, Accepted(q)'
             PROVE  BasesPassed' /\ (cli'[q].pc = "await" => ~Leftover(installed'))
  BY DEF AcceptedInv
<1>1. Accepted(q) /\ BasesPassed /\ (cli[q].pc = "await" => ~Leftover(installed))
  BY AcceptedBefore DEF LeftInv, AcceptedInv
<1>2. installed # NoFolder /\ installed.marker = cli[q].base /\ cli[q].pc \in Locked
  BY <1>1 DEF Accepted, PinInv, RunPinned, Edited, Bound, Locked
<1>3. staging' = staging /\ staging # None
  BY PinnedRequests DEF LockInv, TypeOK
<1>4. cli'[p].base # staging
  <2>1. cli[p].base # staging
    BY <1>1 DEF BasesPassed
  <2>2. CASE (\E cmd \in {"pull", "push"} : StartManaged(p, cmd)) \/ StartFresh(p)
    BY <1>1, <1>2, <1>3, <2>2, StartFields, FreshFields DEF BasesPassed
  <2>3. CASE ScanFile(p) \/ CheckLocal(p) \/ Inspect(p) \/ Recheck(p) \/ Compare(p)
    BY <2>1, <2>3, ScanFields, CheckFields, InspectFields, RecheckFields, CompareFields DEF Continues
  <2>4. CASE AcquireLock(p) \/ SendEdit(p) \/ CheckReceipt(p) \/ Install(p) \/ RenameMarker(p)
    BY <2>1, <2>4, MoveFields DEF AcquireLock, SendEdit, CheckReceipt, Install, RenameMarker, Continues
  <2>5. CASE WriteTemporary(p) \/ Download(p) \/ LastCheck(p) \/ MoveAside(p) \/ InstallFails(p)
    BY <2>1, <2>5, WriteFields, DownloadFields, LastCheckFields, AsideFields, FailFields
       DEF Continues
  <2> QED BY <1>3, <2>2, <2>3, <2>4, <2>5, EndFields DEF Step
<1>5. BasesPassed'
  BY <1>1, <1>3, <1>4, Others DEF BasesPassed
<1>6. cli'[q].pc = "await" => ~Leftover(installed')
  <2>1. CASE q # p
    BY <1>1, <1>2, <2>1, Others
  <2>2. CASE q = p
    <3>1. ~SendEdit(p)
      BY <1>1, <2>2 DEF SendEdit, At, Accepted
    <3> QED BY <2>2, <3>1, RequestsAfter
  <2> QED BY <2>1, <2>2
<1> QED BY <1>5, <1>6

LEMMA LeftStep ==
  ASSUME LockInv, HeldInv, PinInv, KnownInv, LeftInv, NEW p \in Procs, Step(p) \/ Crash(p)
  PROVE  LeftInv'
<1>1. ASSUME NEW q \in Procs \ {p} PROVE RunLeft(cli[q], installed', staging)
  <2>1. RunLeft(cli[q], installed, staging)
    BY DEF LeftInv
  <2>2. cli[q].pc \in Locked => installed' = installed
    BY Others
  <2> QED BY <2>1, <2>2 DEF RunLeft, Locked
<1>2. staging' = staging /\ history' = history
  BY PinnedRequests
<1>3. \A q \in Procs : RunLeft(cli'[q], installed', staging)
  BY <1>1, Others, LeftRun
<1> QED BY <1>2, <1>3, LeftFolder, LeftRequests, LeftAccepted DEF LeftInv

\* Staging moves on to a revision it never held: every pin is behind it.
LEMMA LeftPoint ==
  ASSUME LockInv, PinInv, LeftInv, NEW r \in Revisions, Point(r), r \notin history,
         Clean(Files[r]), UNCHANGED <<installed, cli>>,
         \A q \in Procs : Accepted(q)' /\ cli[q].pc = "await" => ~Leftover(installed),
         \A e \in edits' : e.expected \in history /\
           \A n \in DOMAIN e.changes : e.changes[n] # Files[e.expected][n]
  PROVE  LeftInv'
<1>1. \A q \in history' : Clean(Files[q])
  BY DEF LeftInv, Point
<1>2. staging' = r /\ r # None
  BY DEF Point
<1>3. BasesPassed'
  BY <1>2 DEF BasesPassed, PinInv, RunPinned
<1>4. Leftover(installed) => installed.marker # staging'
  BY <1>2 DEF PinInv, Leftover
<1>5. ASSUME NEW p \in Procs PROVE RunLeft(cli[p], installed, staging')
  BY <1>2, <1>3 DEF LeftInv, RunLeft, BasesPassed
<1>6. \A e \in edits' : RequestLeft(e, staging')
  BY <1>2 DEF RequestLeft
<1>7. AcceptedInv'
  BY <1>3 DEF AcceptedInv
<1> QED BY <1>1, <1>3, <1>4, <1>5, <1>6, <1>7 DEF LeftInv

\* An accepted edit changes the package, so staging leaves the base for good;
\* and its sender's folder has no leftover, or its base had been left before.
LEMMA LeftAccept ==
  ASSUME LockInv, PinInv, LeftInv, NEW e \in edits, Accept(e), NoReturn
  PROVE  LeftInv'
<1>1. e \in EditRequests /\ RequestLeft(e, staging) /\ RequestPinned(e, history)
      /\ staging = e.expected /\ UNCHANGED <<installed, cli>>
  BY DEF LockInv, TypeOK, LeftInv, PinInv, Accept
<1>2. PICK r \in Revisions :
        /\ Files[r] = ApplyChanges(Files[e.expected], e.changes)
        /\ Point(r) /\ edits' = (edits \ {e}) \union {[e EXCEPT !.made = r]}
  BY DEF Accept
<1>3. DOMAIN e.changes \subseteq Names /\ DOMAIN e.changes # {}
  BY <1>1 DEF EditRequests, ChangeSets
<1>4. PICK n \in DOMAIN e.changes : Files[r][n] # Files[e.expected][n]
  BY <1>1, <1>2, <1>3 DEF ApplyChanges, RequestLeft
<1>5. r # staging
  BY <1>1, <1>4
<1>6. r \notin history
  BY <1>2, <1>5 DEF NoReturn, Point
<1>7. Clean(Files[e.expected])
  BY <1>1 DEF LeftInv, RequestPinned
<1>8. Clean(Files[r])
  BY <1>1, <1>2, <1>7 DEF Clean, ApplyChanges, RequestLeft, Names
<1> DEFINE f == [e EXCEPT !.made = r]
<1>9. f.expected = e.expected /\ f.changes = e.changes /\ f.by = e.by
  BY <1>1 DEF EditRequests
<1>10. edits' = (edits \ {e}) \union {f}
  BY <1>2
<1> HIDE DEF f
<1>11. \A g \in edits' : g.expected \in history /\
         \A m \in DOMAIN g.changes : g.changes[m] # Files[g.expected][m]
  BY <1>9, <1>10 DEF PinInv, RequestPinned, LeftInv, RequestLeft
<1>12. ASSUME NEW q \in Procs, Accepted(q)', cli[q].pc = "await" PROVE ~Leftover(installed)
  <2>1. CASE e.by = q
    <3>1. cli[q].base = staging
      BY <1>1, <2>1 DEF RequestPinned
    <3> QED BY <3>1 DEF LeftInv, BasesPassed
  <2>2. CASE e.by # q
    <3>1. Accepted(q)
      BY <1>1, <1>9, <1>10, <1>12, <2>2 DEF Accepted
    <3> QED BY <1>12, <3>1 DEF LeftInv, AcceptedInv
  <2> QED BY <2>1, <2>2
<1> QED BY <1>1, <1>2, <1>6, <1>8, <1>11, <1>12, LeftPoint

\* A request that is answered, refused or lost leaves at most its sender changed.
LEMMA LeftReply ==
  ASSUME LockInv, PinInv, LeftInv, NEW e \in edits, Answer(e) \/ Conflict(e) \/ Lose(e)
  PROVE  LeftInv'
<1>1. edits' \subseteq edits /\ UNCHANGED <<installed, staging, history>>
  BY DEF Answer, Conflict, Lose
<1>2. CASE cli' = cli
  <2>1. \A q \in Procs : Accepted(q)' => Accepted(q)
    BY <1>1, <1>2 DEF Accepted
  <2> QED BY <1>1, <1>2, <2>1 DEF LeftInv, AcceptedInv, BasesPassed
<1>3. CASE cli' # cli
  <2> DEFINE p == e.by
             c == cli[p]
             d == cli'[p]
  <2>1. /\ p \in Procs /\ c \in Run /\ c.pc = "await" /\ RunLeft(c, installed, staging)
        /\ staging # None
    <3>1. e.by # None
      BY <1>3 DEF Answer, Conflict, Lose
    <3> QED BY <3>1 DEF LockInv, TypeOK, EditRequests, RequestInv, At, LeftInv
  <2>2. \A q \in Procs \ {p} : cli'[q] = cli[q]
    BY <1>3, <2>1, Run1 DEF Answer, Conflict, Lose
  <2>3. CASE Answer(e)
    <3>1. PICK r : Becomes(p, [c EXCEPT !.pc = "receipt", !.rev = r])
      BY <1>3, <2>3 DEF Answer
    <3>2. d = [c EXCEPT !.pc = "receipt", !.rev = r]
      BY <2>1, <3>1, Run1
    <3> HIDE DEF c
    <3>3. d.pc = "receipt" /\ d.base = c.base /\ d.kept = c.kept
      BY <2>1, <3>2 DEF Run
    <3>4. Accepted(p)
      BY <2>1, <2>3 DEF Accepted, Answer, c
    <3>5. BasesPassed /\ ~Leftover(installed)
      BY <2>1, <3>4 DEF LeftInv, AcceptedInv, c
    <3>6. BasesPassed'
      BY <1>1, <2>1, <2>2, <3>3, <3>5 DEF BasesPassed, c
    <3>7. RunLeft(d, installed, staging)
      BY <2>1, <3>3, <3>5 DEF RunLeft
    <3>8. \A q \in Procs : RunLeft(cli'[q], installed, staging)
      BY <2>2, <3>7 DEF LeftInv
    <3>9. AcceptedInv'
      BY <1>1, <3>5, <3>6 DEF AcceptedInv
    <3> QED BY <1>1, <3>5, <3>6, <3>8, <3>9 DEF LeftInv
  <2>4. CASE Conflict(e)
    <3>1. d = [Idle EXCEPT !.pc = "release"]
      BY <1>3, <2>1, <2>4, Run1 DEF Conflict
    <3> HIDE DEF d
    <3>2. d.pc = "release" /\ d.base = None /\ d.kept = NoFolder
      BY <3>1 DEF Idle
    <3>3. RunLeft(d, installed, staging)
      BY <3>2, RestLeft, NoLeftover
    <3>4. \A q \in Procs : RunLeft(cli'[q], installed, staging)
      BY <2>2, <3>3 DEF LeftInv, d
    <3>5. BasesPassed => BasesPassed'
      BY <1>1, <2>1, <2>2, <3>2 DEF BasesPassed, d
    <3>6. ASSUME NEW q \in Procs, Accepted(q)'
          PROVE  Accepted(q) /\ cli'[q] = cli[q]
      BY <1>1, <2>2, <3>2, <3>6 DEF Accepted, d
    <3> QED BY <1>1, <3>4, <3>5, <3>6 DEF LeftInv, AcceptedInv
  <2> QED BY <1>3, <2>3, <2>4 DEF Lose
<1> QED BY <1>2, <1>3

LEMMA LeftService ==
  ASSUME LockInv, PinInv, LeftInv, Service, NoReturn
  PROVE  LeftInv'
<1>1. ASSUME NEW r \in Publishable, Publish(r) PROVE LeftInv'
  <2>1. Clean(Files[r])
    BY ContentAssumption DEF Clean
  <2>2. \A q \in Procs : Accepted(q)' /\ cli[q].pc = "await" => ~Leftover(installed)
    BY <1>1 DEF Publish, LeftInv, AcceptedInv, Accepted
  <2>3. \A e \in edits' : e.expected \in history /\
           \A n \in DOMAIN e.changes : e.changes[n] # Files[e.expected][n]
    BY <1>1 DEF Publish, LeftInv, RequestLeft, PinInv, RequestPinned
  <2> QED BY <1>1, <2>1, <2>2, <2>3, LeftPoint DEF Publish
<1>2. ASSUME NEW r \in history PROVE ~Rollback(r)
  BY DEF Rollback, NoReturn, Point
<1> QED BY <1>1, <1>2, LeftAccept, LeftReply DEF Service

\* The editor touches no temporary, and a folder moved away takes its own along.
LEMMA LeftUser == ASSUME LockInv, PinInv, LeftInv, User PROVE LeftInv'
<1>1. ASSUME NEW n \in Paths, Save(n) \/ Delete(n) PROVE LeftInv'
  <2>1. /\ UNCHANGED <<cli, staging, history, edits>> /\ installed' # NoFolder
        /\ installed # NoFolder => installed'.marker = installed.marker
        /\ \A t \in TempNames :
             installed'.files[t] = IF installed = NoFolder THEN Absent ELSE installed.files[t]
    BY <1>1, EditorFields, NamesAssumption DEF Names
  <2>2. Leftover(installed') => Leftover(installed) /\ installed # NoFolder
    BY <2>1 DEF Leftover, Clean
  <2>3. ASSUME NEW p \in Procs PROVE RunLeft(cli[p], installed', staging)
    <3>1. cli[p].pc \in {"rename", "lastscan"} => installed # NoFolder
      BY DEF PinInv, RunPinned, Bound, Edited
    <3> QED BY <2>1, <2>2, <3>1 DEF LeftInv, RunLeft, Names
  <2>4. AcceptedInv'
    BY <2>1, <2>2 DEF LeftInv, AcceptedInv, Accepted, BasesPassed
  <2> QED BY <2>1, <2>2, <2>3, <2>4 DEF LeftInv, BasesPassed
<1>2. CASE PreserveByHand
  <2>1. \A p \in Procs : cli[p].pc \notin Locked
    BY <1>2 DEF PreserveByHand, LockInv, LockDiscipline
  <2>2. ASSUME NEW p \in Procs PROVE RunLeft(cli[p], NoFolder, staging)
    BY <2>1 DEF LeftInv, RunLeft, Locked
  <2>3. AcceptedInv'
    BY <1>2, NoLeftover DEF PreserveByHand, LeftInv, AcceptedInv, Accepted, BasesPassed
  <2> QED BY <1>2, <2>2, <2>3, NoLeftover DEF PreserveByHand, LeftInv
<1>3. CASE RemoveStaleLock
  BY <1>3 DEF RemoveStaleLock, LeftInv, AcceptedInv, Accepted, BasesPassed
<1> QED BY <1>1, <1>2, <1>3 DEF User

\* While staging only moves to revisions it never held, leftovers stay put.
LEMMA LeftNext ==
  LockInv /\ HeldInv /\ PinInv /\ KnownInv /\ LeftInv /\ [Next]_vars /\ [NoReturn]_vars
    => LeftInv'
<1> SUFFICES ASSUME LockInv, HeldInv, PinInv, KnownInv, LeftInv, [Next]_vars, [NoReturn]_vars
             PROVE  LeftInv'
  OBVIOUS
<1>1. CASE UNCHANGED vars
  BY <1>1 DEF vars, LeftInv, AcceptedInv, Accepted, BasesPassed
<1> QED BY <1>1, LeftStep, LeftService, LeftUser DEF Next

\* A failed rename of the binding leaves its temporary in the folder
\* (cli/skills.ts 122-124), where the next scan counts it as a user's file; yet
\* no push publishes it, as long as staging never returns to a revision it has
\* held, because the folder's pin has been passed and the push is refused.
THEOREM LeftoversStay == Spec /\ [][NoReturn]_vars => []LeftoverStaysLocal
<1>1. PinInv /\ LeftInv => LeftoverStaysLocal
  BY DEF PinInv, LeftInv, Clean, LeftoverStaysLocal
<1>2. Spec => []KnownInv
  BY InitKnown, KnownStep, LockInvariant, PTL DEF Spec
<1> QED BY <1>1, <1>2, InitLeft, LeftNext, FolderInvariant, PTL DEF Spec

----------------------------------------------------------------------------
(* Progress.  The part of LockReleased that is a safety property: a command *)
(* never goes back, so it takes finitely many steps between start and end.  *)

Stage == [scan |-> 1, inspect |-> 2, lock |-> 3, recheck |-> 4, rescan |-> 5,
          edit |-> 6, await |-> 7, receipt |-> 8, temp |-> 9, rename |-> 10,
          download |-> 6, lastscan |-> 7, aside |-> 8, install |-> 9, release |-> 11]

Advances(c, d) ==
  \/ d.pc = "idle"
  \/ Stage[c.pc] < Stage[d.pc]
  \/ d.pc = c.pc /\ d.left \subseteq c.left /\ d.left # c.left

RunAdvances(c, d) == c.pc # "idle" => d = c \/ Advances(c, d)

LEMMA StepAdvances ==
  ASSUME LockInv, NEW p \in Procs, Step(p) \/ Crash(p)
  PROVE  RunAdvances(cli[p], cli'[p])
<1> DEFINE c == cli[p]
           d == cli'[p]
<1>1. CASE (\E cmd \in {"pull", "push"} : StartManaged(p, cmd)) \/ StartFresh(p)
  BY <1>1 DEF StartManaged, StartFresh, At, RunAdvances
<1>2. CASE ScanFile(p)
  BY <1>2, ScanFields DEF RunAdvances, Advances
<1>3. CASE CheckLocal(p) \/ Inspect(p) \/ Recheck(p) \/ Compare(p)
  BY <1>3, CheckFields, InspectFields, RecheckFields, CompareFields
     DEF RunAdvances, Advances, Stage
<1>4. CASE AcquireLock(p) \/ SendEdit(p) \/ CheckReceipt(p) \/ Install(p) \/ RenameMarker(p)
  <2>1. PICK pc \in {"recheck", "await", "temp", "release"} :
          /\ d.pc = pc
          /\ <<c.pc, pc>> \in {<<"lock", "recheck">>, <<"edit", "await">>, <<"receipt", "temp">>,
                               <<"install", "release">>, <<"rename", "release">>}
    BY <1>4, MoveFields DEF AcquireLock, SendEdit, CheckReceipt, Install, RenameMarker, At
  <2> QED BY <2>1 DEF RunAdvances, Advances, Stage
<1>5. CASE WriteTemporary(p) \/ Download(p) \/ LastCheck(p) \/ MoveAside(p) \/ InstallFails(p)
  BY <1>5, WriteFields, DownloadFields, LastCheckFields, AsideFields, FailFields
     DEF RunAdvances, Advances, Stage
<1>6. CASE Release(p) \/ Crash(p)
  BY <1>6, EndFields, Run1 DEF RunAdvances, Advances, Release, Crash, Idle
<1>7. CASE Abort(p)
  <2>1. d.pc = NextAfterFailure(c.pc) /\ c.pc \notin {"idle", "install", "release"} /\ c \in Run
    BY <1>7, Run1 DEF Abort, Idle
  <2> QED BY <2>1 DEF RunAdvances, Advances, Stage, NextAfterFailure, Locked, Unlocked, Run
<1> QED BY <1>1, <1>2, <1>3, <1>4, <1>5, <1>6, <1>7 DEF Step

\* However commands, the editor and the service interleave, each step leaves a
\* command that has begun where it is, ends it, brings it to a later line of
\* runSkills, or reads one more of the files its scan has left (cli/skills.ts
\* 27-56, 77-144): there is no loop but the scan's, so with finitely many
\* paths a command, and its hold of the lock, is a bounded number of steps.
THEOREM CommandsAdvance ==
  Spec => [][\A p \in Procs : RunAdvances(cli[p], cli'[p])]_vars
<1>1. LockInv /\ [Next]_vars => [\A p \in Procs : RunAdvances(cli[p], cli'[p])]_vars
  <2> SUFFICES ASSUME LockInv, [Next]_vars, NEW p \in Procs PROVE RunAdvances(cli[p], cli'[p])
    OBVIOUS
  <2>1. ASSUME NEW q \in Procs, Step(q) \/ Crash(q) PROVE RunAdvances(cli[p], cli'[p])
    BY <2>1, Others, StepAdvances DEF RunAdvances
  <2>2. ASSUME cli' = cli PROVE RunAdvances(cli[p], cli'[p])
    BY <2>2 DEF RunAdvances
  <2>3. CASE Service
    <3>1. ASSUME NEW e \in edits, e.by # None, Answer(e) \/ Conflict(e)
          PROVE  RunAdvances(cli[p], cli'[p])
      <4>1. e.by \in Procs /\ cli[e.by] \in Run /\ cli[e.by].pc = "await"
        BY <3>1 DEF LockInv, TypeOK, EditRequests, RequestInv, At
      <4>2. PICK r : Becomes(e.by, r) /\ r.pc \in {"receipt", "release"}
        <5>1. ASSUME NEW v PROVE [cli[e.by] EXCEPT !.pc = "receipt", !.rev = v].pc = "receipt"
          BY <4>1 DEF Run
        <5>2. [Idle EXCEPT !.pc = "release"].pc = "release"
          BY DEF Idle
        <5> QED BY <3>1, <5>1, <5>2 DEF Answer, Conflict
      <4>3. cli'[e.by] = r /\ \A q \in Procs \ {e.by} : cli'[q] = cli[q]
        BY <4>1, <4>2, Run1
      <4>4. CASE p = e.by
        BY <4>1, <4>2, <4>3, <4>4 DEF RunAdvances, Advances, Stage
      <4>5. CASE p # e.by
        BY <4>3, <4>5 DEF RunAdvances
      <4> QED BY <4>4, <4>5
    <3> QED BY <2>2, <2>3, <3>1 DEF Service, Accept, Answer, Conflict, Lose, Publish, Rollback
  <2>4. CASE User \/ UNCHANGED vars
    BY <2>2, <2>4 DEF User, Save, Delete, PreserveByHand, RemoveStaleLock, vars
  <2> QED BY <2>1, <2>3, <2>4 DEF Next
<1> QED BY <1>1, LockInvariant, PTL DEF Spec
==============================================================================

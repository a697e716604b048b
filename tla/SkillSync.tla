------------------------------ MODULE SkillSync ------------------------------
(***************************************************************************)
(* agenttrunk skills pull | push (cli/skills.ts): several CLI invocations  *)
(* keep one managed folder in step with the staging channel of a context,  *)
(* while an editor saves files in the folder and other writers move        *)
(* staging.  One action per file-system or network step of runSkills.      *)
(*                                                                         *)
(* A revision is immutable, so the binding file (the marker) is            *)
(* represented by the revision it pins; its file records are Files[rev].   *)
(* Sizes and hashes identify the bytes, so a file is its content.          *)
(* status and the previews only read: they are prefixes of the runs below  *)
(* that end in Abort before the lock.                                      *)
(*                                                                         *)
(* MutantX is a plausible slip in X; the specification never uses it.      *)
(***************************************************************************)
EXTENDS Naturals, FiniteSets

CONSTANTS
  Procs,          \* CLI invocations that may run at the same time
  Paths,          \* file paths the user works with
  TempNames,      \* names `.agenttrunk-sync.json.<uuid>` may take
  Published,      \* file contents other writers publish
  Drafts,         \* file contents the editor saves, each at most once
  BindingBytes,   \* the content of a temporary binding file
  Absent,         \* the content of a path with no file
  Revisions,      \* immutable revision identifiers
  Files,          \* Files[r]: the complete package of revision r
  FirstRevision,  \* what staging holds at the start
  Publishable,    \* revisions other writers may publish
  AllowRollback,  \* may an earlier revision be restored to staging
  MaxEdits,       \* bound on the requests in flight
  MaxFaults,      \* bound on crashes and failed renames of a temporary
  None,           \* no revision, no temporary name, no request owner
  NoFolder        \* the folder does not exist

Names == Paths \union TempNames
Contents == Published \union Drafts \union {BindingBytes, Absent}
Trees == [Names -> Contents]
EmptyTree == [n \in Names |-> Absent]
Folders == [files : Trees, marker : Revisions \union {None}]

ASSUME SyncAssumption ==
  /\ Procs \intersect {"free", "stale"} = {}
  /\ Files \in [Revisions -> Trees]
  /\ FirstRevision \in Revisions
  /\ Publishable \subseteq Revisions
  /\ MaxEdits \in Nat /\ MaxFaults \in Nat
  /\ None \notin Revisions \union TempNames \union Procs
  /\ NoFolder \notin Folders
  /\ AllowRollback \in BOOLEAN

\* No file the user works with has the name of a temporary binding.
ASSUME NamesAssumption == Paths \intersect TempNames = {}

\* Drafts are new: neither the binding nor a package that is published holds
\* one, and no published package holds a temporary binding.
ASSUME ContentAssumption ==
  /\ Drafts \intersect (Published \union {BindingBytes, Absent}) = {}
  /\ Absent \notin Published
  /\ \A r \in {FirstRevision} \union Publishable :
       /\ \A n \in Names : Files[r][n] \notin Drafts
       /\ \A t \in TempNames : Files[r][t] = Absent

VARIABLES
  installed,  \* the managed folder, or NoFolder
  lock,       \* `<folder>.agenttrunk-lock`: "free", its owner, or "stale"
  cli,        \* the state of each CLI invocation
  staging,    \* the revision the staging channel points at
  history,    \* revisions staging has pointed at
  edits,      \* edit requests the service has not answered
  unused,     \* drafts the editor has not saved yet
  faults,     \* crashes and failed renames so far
  moments,    \* history: trees the folder had since the lock was taken
  had         \* history: packages installed in, or pushed from, the folder

vars == <<installed, lock, cli, staging, history, edits, unused,
          faults, moments, had>>

Unlocked == {"idle", "scan", "inspect", "lock"}
Locked == {"recheck", "rescan", "edit", "await", "receipt", "temp", "rename",
           "download", "lastscan", "aside", "install", "release"}

\* base: the revision pinned when the run started (None: no folder then).
\* local: the first scan.  scanned, left: the scan in progress.
\* rev: the revision inspect selected, later the one of the receipt.
Run == [pc : Unlocked \union Locked, cmd : {"none", "pull", "push"},
        base : Revisions \union {None}, local : Trees, scanned : Trees,
        left : SUBSET Names, rev : Revisions \union {None},
        temp : TempNames \union {None}, kept : Folders \union {NoFolder}]

Idle == [pc |-> "idle", cmd |-> "none", base |-> None, local |-> EmptyTree,
         scanned |-> EmptyTree, left |-> {}, rev |-> None, temp |-> None,
         kept |-> NoFolder]

\* syncChanges: a put for each new or different file, a delete for each
\* file of the base that is gone.
SyncChanges(base, local) ==
  [n \in {m \in Names : base[m] # local[m]} |-> local[n]]

\* The service's edit: put and delete the named files, keep the others.
ApplyChanges(tree, changes) ==
  [n \in Names |-> IF n \in DOMAIN changes THEN changes[n] ELSE tree[n]]

ChangeSets == UNION {[S -> Contents] : S \in (SUBSET Names) \ {{}}}
EditRequests == [by : Procs \union {None}, expected : Revisions,
                 changes : ChangeSets, made : Revisions \union {None}]

FilesOf(folder) == IF folder = NoFolder THEN {} ELSE {folder.files}

\* The trees the folder shows while one run holds the lock.
Watch ==
  moments' = IF lock' \in Procs
             THEN (IF lock = lock' THEN moments ELSE {})
                    \union FilesOf(installed) \union FilesOf(installed')
             ELSE {}

At(p, pc) == cli[p].pc = pc
Becomes(p, run) == cli' = [cli EXCEPT ![p] = run]

\* Nothing changes but the run itself.
Unmoved == UNCHANGED <<installed, lock, moments, had, staging, history, edits,
                       unused, faults>>

Managed == installed # NoFolder /\ installed.marker # None

Init ==
  /\ installed \in {NoFolder,
                    [files |-> Files[FirstRevision], marker |-> FirstRevision]}
  /\ lock = "free"
  /\ cli = [p \in Procs |-> Idle]
  /\ staging = FirstRevision
  /\ history = {FirstRevision}
  /\ edits = {}
  /\ unused = Drafts
  /\ faults = 0
  /\ moments = {}
  /\ had = FilesOf(installed)

----------------------------------------------------------------------------
(* Before the lock: resolve the folder, read its binding, scan, inspect.   *)

\* A run on a managed folder reads the binding first.
StartManaged(p, cmd) ==
  /\ At(p, "idle")
  /\ Managed
  /\ Becomes(p, [Idle EXCEPT !.pc = "scan", !.cmd = cmd,
                             !.base = installed.marker, !.left = Names])
  /\ Unmoved

\* Only pull accepts a destination that does not exist.
StartFresh(p) ==
  /\ At(p, "idle")
  /\ installed = NoFolder
  /\ Becomes(p, [Idle EXCEPT !.pc = "inspect", !.cmd = "pull"])
  /\ Unmoved

\* scan walks the folder file by file; the editor may save in between.
ScanFile(p) ==
  /\ cli[p].pc \in {"scan", "rescan", "lastscan"}
  /\ installed # NoFolder
  /\ \E n \in cli[p].left :
       Becomes(p, [cli[p] EXCEPT !.scanned[n] = installed.files[n],
                                 !.left = @ \ {n}])
  /\ Unmoved

\* pull refuses local changes; push must retain files.
LocalAcceptable(p) ==
  IF cli[p].cmd = "pull" THEN cli[p].scanned = Files[cli[p].base]
                         ELSE cli[p].scanned # EmptyTree

CheckLocal(p) ==
  /\ At(p, "scan")
  /\ cli[p].left = {}
  /\ LocalAcceptable(p)
  /\ Becomes(p, [cli[p] EXCEPT !.pc = "inspect", !.local = cli[p].scanned,
                               !.scanned = EmptyTree])
  /\ Unmoved

\* push inspects staging and refuses drift; pull resolves a channel or names
\* an immutable revision, so it may select any revision staging has held.
Inspect(p) ==
  /\ At(p, "inspect")
  /\ \E r \in history :
       /\ cli[p].cmd = "push" => r = staging /\ r = cli[p].base
       /\ Becomes(p, [cli[p] EXCEPT !.pc = "lock", !.rev = r])
  /\ Unmoved

----------------------------------------------------------------------------
(* Under the lock.                                                         *)

MutantLockAvailable(p) == lock # p

LockAvailable(p) == lock = "free"

\* open(lockPath, "wx")
AcquireLock(p) ==
  /\ At(p, "lock")
  /\ LockAvailable(p)
  /\ lock' = p
  /\ Becomes(p, [cli[p] EXCEPT !.pc = "recheck"])
  /\ UNCHANGED <<installed, had, staging, history, edits, unused, faults>>
  /\ Watch

\* "Recheck local state after locking, before any mutation."
Recheck(p) ==
  /\ At(p, "recheck")
  /\ IF cli[p].base # None
     THEN /\ Managed /\ installed.marker = cli[p].base
          /\ Becomes(p, [cli[p] EXCEPT !.pc = "rescan", !.left = Names])
     ELSE /\ installed = NoFolder
          /\ Becomes(p, [cli[p] EXCEPT !.pc = "download"])
  /\ Unmoved

MutantSameChanges(p) == TRUE

\* The second scan must give the same changes as the first.
SameChanges(p) ==
  SyncChanges(Files[cli[p].base], cli[p].scanned) =
    SyncChanges(Files[cli[p].base], cli[p].local)

MutantHasChanges(p) == TRUE

HasChanges(p) == cli[p].local # Files[cli[p].base]

Compare(p) ==
  /\ At(p, "rescan")
  /\ cli[p].left = {}
  /\ SameChanges(p)
  /\ LET next == IF cli[p].cmd = "pull" THEN "download"
                 ELSE IF HasChanges(p) THEN "edit" ELSE "release"
     IN  Becomes(p, [cli[p] EXCEPT !.pc = next, !.scanned = EmptyTree])
  /\ Unmoved

MutantExpectedRevision(p) == staging

\* contexts.edit sends the pinned revision as expectedRevisionId.
ExpectedRevision(p) == cli[p].base

SendEdit(p) ==
  /\ At(p, "edit")
  /\ Cardinality(edits) < MaxEdits
  /\ edits' = edits \union
       {[by |-> p, expected |-> ExpectedRevision(p), made |-> None,
         changes |-> SyncChanges(Files[cli[p].base], cli[p].local)]}
  /\ had' = had \union {cli[p].local}
  /\ Becomes(p, [cli[p] EXCEPT !.pc = "await"])
  /\ UNCHANGED <<installed, lock, moments, staging, history, unused, faults>>

MutantReceiptMatches(p) == TRUE

\* The receipt must describe exactly the folder that was sent.
ReceiptMatches(p) == Files[cli[p].rev] = cli[p].local

CheckReceipt(p) ==
  /\ At(p, "receipt")
  /\ ReceiptMatches(p)
  /\ Becomes(p, [cli[p] EXCEPT !.pc = "temp"])
  /\ Unmoved

\* writeNew(temporary): inside the folder, under a fresh name.
WriteTemporary(p) ==
  /\ At(p, "temp")
  /\ installed # NoFolder
  /\ \E t \in TempNames :
       /\ installed.files[t] = Absent
       /\ installed' = [installed EXCEPT !.files[t] = BindingBytes]
       /\ Becomes(p, [cli[p] EXCEPT !.pc = "rename", !.temp = t])
  /\ UNCHANGED <<lock, had, staging, history, edits, unused, faults>>
  /\ Watch

MutantWithoutTemporary(files, t) == files

\* rename(temporary, marker) takes the temporary away.
WithoutTemporary(files, t) == [files EXCEPT ![t] = Absent]

RenameMarker(p) ==
  /\ At(p, "rename")
  /\ installed # NoFolder
  /\ installed' = [files |-> WithoutTemporary(installed.files, cli[p].temp),
                   marker |-> cli[p].rev]
  /\ Becomes(p, [cli[p] EXCEPT !.pc = "release"])
  /\ UNCHANGED <<lock, had, staging, history, edits, unused, faults>>
  /\ Watch

\* Every file is downloaded to a private sibling and its size and hash are
\* checked against the manifest; what fails the check is never installed.
Verified(got, r) == got = Files[r]

Download(p) ==
  /\ At(p, "download")
  /\ \E got \in Trees :
       /\ Verified(got, cli[p].rev)
       /\ Becomes(p, IF cli[p].base = None
                     THEN [cli[p] EXCEPT !.pc = "install", !.local = got]
                     ELSE [cli[p] EXCEPT !.pc = "lastscan", !.local = got,
                                         !.left = Names])
  /\ Unmoved

\* "Local files changed during download"
LastCheck(p) ==
  /\ At(p, "lastscan")
  /\ cli[p].left = {}
  /\ cli[p].scanned = Files[cli[p].base]
  /\ Becomes(p, [cli[p] EXCEPT !.pc = "aside", !.scanned = EmptyTree])
  /\ Unmoved

MutantSetAsideFolder == NoFolder

\* What rename(directory, backup) preserves.
SetAsideFolder == installed

\* rename(directory, backup)
MoveAside(p) ==
  /\ At(p, "aside")
  /\ installed # NoFolder
  /\ installed' = NoFolder
  /\ Becomes(p, [cli[p] EXCEPT !.pc = "install", !.kept = SetAsideFolder])
  /\ UNCHANGED <<lock, had, staging, history, edits, unused, faults>>
  /\ Watch

\* rename(temporary, directory): fails on a folder that has appeared.
Install(p) ==
  /\ At(p, "install")
  /\ installed = NoFolder
  /\ installed' = [files |-> cli[p].local, marker |-> cli[p].rev]
  /\ had' = had \union {cli[p].local}
  /\ Becomes(p, [cli[p] EXCEPT !.pc = "release"])
  /\ UNCHANGED <<lock, staging, history, edits, unused, faults>>
  /\ Watch

\* A failed install renames the backup back, and that may fail as well: it
\* does when the editor has recreated the folder.
InstallFails(p) ==
  /\ At(p, "install")
  /\ \/ /\ installed = NoFolder
        /\ cli[p].kept # NoFolder
        /\ installed' = cli[p].kept
        /\ Becomes(p, [cli[p] EXCEPT !.pc = "release", !.kept = NoFolder])
     \/ /\ UNCHANGED installed
        /\ Becomes(p, [cli[p] EXCEPT !.pc = "release"])
  /\ UNCHANGED <<lock, had, staging, history, edits, unused, faults>>
  /\ Watch

----------------------------------------------------------------------------
(* How a run ends.                                                         *)

\* finally: close and unlink the lock.
Release(p) ==
  /\ At(p, "release")
  /\ lock' = "free"
  /\ Becomes(p, Idle)
  /\ UNCHANGED <<installed, had, staging, history, edits, unused, faults>>
  /\ Watch

\* The service may still act on a request whose sender has given up.
Orphaned(p) == {IF e.by = p THEN [e EXCEPT !.by = None] ELSE e : e \in edits}

MutantNextAfterFailure(pc) == IF pc \in {"await", "receipt"} THEN "idle"
                              ELSE IF pc \in Locked THEN "release" ELSE "idle"

\* A failure after the lock was taken still runs the finally block.
NextAfterFailure(pc) == IF pc \in Locked THEN "release" ELSE "idle"

\* A refusal, a timeout, a failed request or a failed read, at any step but
\* the install, whose failure has a handler of its own.  A temporary binding
\* that cannot be renamed stays in the folder.
Abort(p) ==
  /\ cli[p].pc \notin {"idle", "install", "release"}
  /\ IF At(p, "rename") THEN faults < MaxFaults /\ faults' = faults + 1
                        ELSE UNCHANGED faults
  /\ Becomes(p, [Idle EXCEPT !.pc = NextAfterFailure(cli[p].pc)])
  /\ edits' = Orphaned(p)
  /\ UNCHANGED <<installed, lock, moments, had, staging, history, unused>>

\* The process dies between two steps: the lock file stays behind.
Crash(p) ==
  /\ ~At(p, "idle")
  /\ faults < MaxFaults
  /\ faults' = faults + 1
  /\ lock' = IF lock = p THEN "stale" ELSE lock
  /\ Becomes(p, Idle)
  /\ edits' = Orphaned(p)
  /\ UNCHANGED <<installed, had, staging, history, unused>>
  /\ Watch

----------------------------------------------------------------------------
(* The service, other writers, the editor and the operator (external).     *)

Point(r) == staging' = r /\ history' = history \union {r}

\* The service applies an edit only while staging is the expected revision.
Accept(e) ==
  /\ e.made = None
  /\ staging = e.expected
  /\ \E r \in Revisions :
       /\ Files[r] = ApplyChanges(Files[e.expected], e.changes)
       /\ Point(r)
       /\ edits' = (edits \ {e}) \union {[e EXCEPT !.made = r]}
  /\ UNCHANGED <<installed, lock, cli, moments, had, unused, faults>>

\* The answer may describe staging as it is when the answer is made.
Answer(e) ==
  /\ e.made # None
  /\ edits' = edits \ {e}
  /\ IF e.by = None THEN UNCHANGED cli
     ELSE \E r \in {e.made, staging} :
            Becomes(e.by, [cli[e.by] EXCEPT !.pc = "receipt", !.rev = r])
  /\ UNCHANGED <<installed, lock, moments, had, staging, history, unused, faults>>

\* 409: the sender fails.
Conflict(e) ==
  /\ e.made = None
  /\ staging # e.expected
  /\ edits' = edits \ {e}
  /\ IF e.by = None THEN UNCHANGED cli
     ELSE Becomes(e.by, [Idle EXCEPT !.pc = "release"])
  /\ UNCHANGED <<installed, lock, moments, had, staging, history, unused, faults>>

\* A request, or the answer to it, is lost.
Lose(e) ==
  /\ e.by = None
  /\ edits' = edits \ {e}
  /\ UNCHANGED <<installed, lock, cli, moments, had, staging, history, unused, faults>>

Publish(r) ==
  /\ r \notin history
  /\ Point(r)
  /\ UNCHANGED <<installed, lock, cli, moments, had, edits, unused, faults>>

Rollback(r) ==
  /\ AllowRollback
  /\ r # staging
  /\ Point(r)
  /\ UNCHANGED <<installed, lock, cli, moments, had, edits, unused, faults>>

\* The editor saves a path; it recreates the folder if it is gone.
Save(n) ==
  /\ unused # {}
  /\ LET draft == CHOOSE d \in unused : TRUE
         before == IF installed = NoFolder
                   THEN [files |-> EmptyTree, marker |-> None] ELSE installed
     IN  /\ installed' = [before EXCEPT !.files[n] = draft]
         /\ unused' = unused \ {draft}
  /\ UNCHANGED <<lock, cli, had, staging, history, edits, faults>>
  /\ Watch

\* Only a published file is deleted, and it costs a draft, so that no path
\* returns to a content it had before.
Delete(n) ==
  /\ unused # {}
  /\ installed # NoFolder
  /\ installed.files[n] \in Published
  /\ installed' = [installed EXCEPT !.files[n] = Absent]
  /\ unused' = unused \ {CHOOSE d \in unused : TRUE}
  /\ UNCHANGED <<lock, cli, had, staging, history, edits, faults>>
  /\ Watch

\* "push or preserve them before pulling": the user moves the folder away.
PreserveByHand ==
  /\ lock \notin Procs
  /\ installed # NoFolder
  /\ installed' = NoFolder
  /\ UNCHANGED <<lock, cli, moments, had, staging, history, edits, unused, faults>>

\* "investigate stale locks manually"
RemoveStaleLock ==
  /\ lock = "stale"
  /\ lock' = "free"
  /\ UNCHANGED <<installed, cli, moments, had, staging, history, edits, unused, faults>>

----------------------------------------------------------------------------
Step(p) ==
  \/ \E cmd \in {"pull", "push"} : StartManaged(p, cmd)
  \/ StartFresh(p) \/ ScanFile(p) \/ CheckLocal(p) \/ Inspect(p)
  \/ AcquireLock(p) \/ Recheck(p) \/ Compare(p)
  \/ SendEdit(p) \/ CheckReceipt(p) \/ WriteTemporary(p) \/ RenameMarker(p)
  \/ Download(p) \/ LastCheck(p) \/ MoveAside(p) \/ Install(p) \/ InstallFails(p)
  \/ Release(p) \/ Abort(p)

Service ==
  \/ \E e \in edits : Accept(e) \/ Answer(e) \/ Conflict(e) \/ Lose(e)
  \/ \E r \in Publishable : Publish(r)
  \/ \E r \in history : Rollback(r)

User ==
  \/ \E n \in Paths : Save(n) \/ Delete(n)
  \/ PreserveByHand
  \/ RemoveStaleLock

Next ==
  \/ \E p \in Procs : Step(p) \/ Crash(p)
  \/ Service
  \/ User

Spec == Init /\ [][Next]_vars

\* Each request has a timeout, so a running command always takes its next step.
Fairness == \A p \in Procs : WF_vars(~At(p, "idle") /\ Step(p))

FairSpec == Spec /\ Fairness

----------------------------------------------------------------------------
(* Properties.                                                             *)

TypeOK ==
  /\ installed \in Folders \union {NoFolder}
  /\ lock \in Procs \union {"free", "stale"}
  /\ cli \in [Procs -> Run]
  /\ staging \in Revisions
  /\ history \subseteq Revisions
  /\ edits \subseteq EditRequests
  /\ unused \subseteq Drafts
  /\ faults \in Nat
  /\ moments \subseteq Trees
  /\ had \subseteq Trees

\* The lock file belongs to the one run between its open("wx") and its
\* unlink: what a run rechecked under the lock no other run can change.
LockDiscipline == \A p \in Procs : cli[p].pc \in Locked <=> lock = p

\* A push uploads a package the folder really held at one instant of the
\* run's lock tenure, although the files were read one by one while an
\* editor was saving: the second scan turns the first into a snapshot, as
\* long as no other run installs the folder anew between the two.
PushIsSnapshot ==
  \A p \in Procs :
    cli[p].pc \in {"edit", "await", "receipt", "temp", "rename"} =>
      cli[p].local \in moments

\* No request asks the service to replace a package that was never in the
\* folder, so a push cannot overwrite another writer's revision unseen:
\* the binding pins what the user's files were derived from.
OnlyReplacesKnown == \A e \in edits : Files[e.expected] \in had

\* Whenever the folder gets a binding, the pinned package is one the folder
\* held under that lock: a receipt for somebody else's revision or a
\* corrupted download never becomes the base of the next push.
BindingPinsFolder ==
  [][LET pins(f) == f # NoFolder /\ f.marker # None
     IN  pins(installed') /\ ~(pins(installed) /\ installed.marker = installed'.marker)
           => Files[installed'.marker] \in moments']_vars

\* Under the lock, the user's files outlive each step except the editor's
\* own: a pull may rename the folder to a backup, where it stays when the run
\* is over, but it never destroys work, whatever fails between the renames.
UserFiles(f) == [n \in Paths |-> f.files[n]]
Retained == ({installed} \union {cli[p].kept : p \in Procs}) \ {NoFolder}
Survives(f) == f # NoFolder => UserFiles(f) \in {UserFiles(g) : g \in Retained'}
KeepsWork ==
  /\ Survives(installed)
  /\ Survives(cli[lock].kept) \/ cli'[lock].pc = "idle"
WorkSurvives == [][unused' = unused /\ lock \in Procs => KeepsWork]_vars

\* A temporary binding left in the folder by a failed run is never published
\* (as long as staging is not rolled back to the revision it was made from).
LeftoverStaysLocal == \A t \in TempNames : Files[staging][t] = Absent

\* Every run that takes the lock gives it up, whatever fails.
LockReleased == \A p \in Procs : lock = p ~> lock # p
==============================================================================

\* One command, two paths, so that a scan can be torn by the editor, and a
\* service that may restore an earlier revision to staging.
CONSTANTS
  a = a
  b = b
  old = old
  new = new
  Procs = {p1}
  Paths = {a, b}
  TempNames = {t1}
  Published = {old, new}
  Drafts = {d1, d2}
  BindingBytes = bytes
  Absent = Absent
  None = None
  NoFolder = NoFolder
  Revisions <- MCRevisions
  Files <- MCFiles
  FirstRevision <- MCFirst
  Publishable = {}
  AllowRollback = TRUE
  MaxEdits = 1
  MaxFaults = 0
SPECIFICATION FairSpec
INVARIANT PushIsSnapshot
PROPERTY BindingPinsFolder LockReleased

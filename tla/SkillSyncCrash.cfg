\* Two commands on one folder, one of which may die between two steps.
CONSTANTS
  a = a
  b = b
  old = old
  new = new
  Procs = {p1, p2}
  Paths = {a}
  TempNames = {t1}
  Published = {old, new}
  Drafts = {d1}
  BindingBytes = bytes
  Absent = Absent
  None = None
  NoFolder = NoFolder
  Revisions <- MCRevisions
  Files <- MCFiles
  FirstRevision <- MCFirst
  Publishable <- MCPublishable
  AllowRollback = FALSE
  MaxEdits = 1
  MaxFaults = 1
SPECIFICATION Spec
INVARIANT TypeOK LockDiscipline LeftoverStaysLocal OnlyReplacesKnown
PROPERTY WorkSurvives
SYMMETRY Interchangeable

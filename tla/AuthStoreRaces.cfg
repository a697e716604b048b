\* Two commands on one store; one of them may die or fail to save.
CONSTANTS
  i1 = i1
  Procs = {p1, p2}
  Resources = {r1}
  Issuers = {i1}
  FirstIssuer <- MCFirstIssuer
  MaxRequests = 2
  MaxMinted = 3
  MaxFaults = 1
  None = None
  NoFile = NoFile
SPECIFICATION Spec
INVARIANT TypeOK ReadIsCurrent StoredIsLive
PROPERTY RegistrationKept
SYMMETRY Interchangeable

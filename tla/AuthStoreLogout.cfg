\* What a logout leaves on the disk after an earlier run died.
CONSTANTS
  i1 = i1
  Procs = {p1}
  Resources = {r1}
  Issuers = {i1}
  FirstIssuer <- MCFirstIssuer
  MaxRequests = 1
  MaxMinted = 2
  MaxFaults = 1
  None = None
  NoFile = NoFile
SPECIFICATION Spec
INVARIANT LogoutClears

\* One command at a time, two origins whose issuer may change.
CONSTANTS
  i1 = i1
  Procs = {p1}
  Resources = {r1, r2}
  Issuers = {i1, i2}
  FirstIssuer <- MCFirstIssuer
  MaxRequests = 1
  MaxMinted = 2
  MaxFaults = 2
  None = None
  NoFile = NoFile
SPECIFICATION FairSpec
INVARIANT SentHome
PROPERTY StoreReleased

SPECIFICATION FairSpec
CONSTANTS
  read = read
  write = write
  another = another
  Calls = {write, read}
  Mutations = {write}
  Clients = {"fetcher", "python", "go", "rust", "ruby", "swift"}
  MaxRetries = 2
  None = None
INVARIANT TypeOK UsesItsRetries
PROPERTY ImplementsOnce CallEnds
CHECK_DEADLOCK FALSE

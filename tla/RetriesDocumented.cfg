SPECIFICATION Spec
CONSTANTS
  read = read
  write = write
  another = another
  Calls = {write, read, another}
  Mutations = {write}
  Clients = {"passthrough", "ruby", "swift"}
  MaxRetries = 1
  None = None
INVARIANT SomeClientAsDocumented
CHECK_DEADLOCK FALSE

CONSTANTS
  write = write
  first = first
  second = second
  r1 = r1
  r2 = r2
  r3 = r3
  blue = blue
  red = red
  Calls = {write, first, second}
  Mutations = {write}
  Direct = {write, first}
  Statuses <- MCStatuses
  Answers <- MCAnswers
  MaxRetries = 1
  MaxTokens = 1
  MaxCalls = 1
  None = None
  Revisions = {r1, r2, r3}
  FileOf <- MCFileOf
  Asked = r1
SPECIFICATION FairReaderSpec
INVARIANT TypeOK ResponsesClosed RefusalsAreOpaque TokenIsFresh ReadIsPinned
CHECK_DEADLOCK FALSE
PROPERTY ImplementsLoop CallEnds ReadEnds

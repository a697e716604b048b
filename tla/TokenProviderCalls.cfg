\* Two threads and one task; tokens that outlive the buffer, do not, do not
\* say, or outlive the clock.
CONSTANTS
  Threads = {s1, s2}
  Tasks = {a1}
  Nobody = Nobody
  Buffer = 2
  DefaultLifetime = 4
  Lifetimes = {0, 1, 3, 20}
  Horizon = 10
  MaxDelay = 2
  MaxTime = 4
  MaxCalls = 1
SPECIFICATION FairSpec
INVARIANT TypeOK FetchedOnce HandsOutLive
PROPERTY CallEnds

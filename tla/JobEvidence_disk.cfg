\* Two jobs over two threads, one of which persists its evidence, and a request
\* that does; no symmetry, since liveness is checked.
CONSTANTS
  Jobs = {j1, j2}
  Workers = {w1, w2}
  MaxJobs = 1
  NoJob = NoJob
  Persisting = {j1}
  Requests = {r1}
  LastSecond = 0
  Nobody = Nobody
SPECIFICATION ServiceFairSpec
INVARIANT ToldIsStored
PROPERTY JobsSettle
CHECK_DEADLOCK FALSE

\* Four submissions over two threads, retention of two records.
CONSTANTS
  Jobs = {j1, j2, j3, j4}
  Workers = {w1, w2}
  MaxJobs = 2
  NoJob = NoJob
SPECIFICATION Spec
SYMMETRY Symmetry
INVARIANTS
  UnfinishedJobsListed
  OneExecution
  RecordsRight
PROPERTIES
  EvictsOldestDone
  TrimsToCap
  FollowsLifecycle
CHECK_DEADLOCK FALSE

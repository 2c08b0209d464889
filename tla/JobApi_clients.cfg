\* Two submissions over two threads, one of them polled, retention of one
\* record; no symmetry, since liveness is checked.
CONSTANTS
  Jobs = {j1, j2}
  Workers = {w1, w2}
  Watchers = {j1}
  MaxJobs = 1
  NoJob = NoJob
SPECIFICATION ApiFairSpec
INVARIANTS
  AnswersCohere
PROPERTIES
  ClientsLearnOutcome
  ImplementsLifecycle
CHECK_DEADLOCK FALSE

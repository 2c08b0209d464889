\* Three threads; a window of one tick.
CONSTANTS
  Threads = {t1, t2, t3}
  Limit = 2
  Period = 1
  LastTime = 2
  MaxRequests = 5
SPECIFICATION LimiterSpec
INVARIANTS
  OvershootBounded
PROPERTIES
  ExactWhenSequential
CHECK_DEADLOCK FALSE

\* Three processes save one run, one of them a second run as well.
CONSTANTS
  a1 = a1
  a2 = a2
  b1 = b1
  c1 = c1
  Saves = {a1, a2, b1, c1}
  Runs = {"run", "other"}
  RunOf <- SameRun
  Processes = {"a", "b", "c"}
  ProcessOf <- Deployment
SPECIFICATION MlSpec
INVARIANT SavedLoads
CHECK_DEADLOCK FALSE

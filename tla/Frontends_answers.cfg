\* The steps the results and the answer depend on may raise, and so may
\* printing the progress.
CONSTANTS
  Steps <- Agents
  Requests <- MCRequests
  Calls <- MCCalls
  MayRaise = {"classical_baseline", "hardware_planner", "execution", "verification", "auditor"}
  Sinks = {"none", "console"}
  Sizes = {0, 3, 5}
  Costs = {0, 1}
  Prices = {3}
  MaxEffective = 4
  StatevectorLimit = 3
  BruteforceLimit = 2
SPECIFICATION FrontFairSpec
INVARIANTS
  PaidRunsGated
  ExecutesThePlan
  FavourRestsOnResult
  CauseOnRecord
  CleanBundleComplete
  AnswerMatchesEvidence
PROPERTY CallersServed
CHECK_DEADLOCK FALSE

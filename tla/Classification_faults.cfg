\* Three requests; every agent but the first may raise, and so may the progress callback.
CONSTANTS
  Steps <- Agents
  Requests <- ThreeRequests
  MayRaise = {"formulation", "classical_baseline", "quantum_planner", "execution", "verification", "auditor", "governance"}
  Sinks = {"none", "console"}
  Times <- TiedTimes
  TestSizes = {1}
  TrainingErrors = {0, 1}
SPECIFICATION ClassSpec
INVARIANTS
  RunOnRecord
  HoldoutIsLatest
  FavourIsTested
  RecommendationStands
CHECK_DEADLOCK FALSE

\* All three domains; a QUBO of up to 7 variables, of which brute force takes 6.
CONSTANTS
  None = None
  Specs <- MCSpecs
  BruteforceLimit = 6
SPECIFICATION Spec
INVARIANTS
  FitsBudget
  EncodingExact
  IsingAgrees
  ClassicalIsFair
  RoutingGroundIsCheapest
  AnnealingTracks

\* Every solver on every QUBO; the optimum of the largest is not known.  A bit is
\* misread once in five times; a fifth of a histogram stands for the millionth of the
\* code, so that entries are dropped.
CONSTANTS
  None = None
  BackendError = BackendError
  Qubos <- MCQubos
  Noisy <- MCNoisy
  Backends = {"qaoa_sim", "qaoa_ibm", "dwave_hybrid", "qaoa_pennylane"}
  Shots = 2
  BruteforceLimit = 2
  Misread = 1
  Reads = 5
  Parts = 5
SPECIFICATION Spec
INVARIANTS
  VerifierAgrees
  ContributionEarned
  MitigationInverts

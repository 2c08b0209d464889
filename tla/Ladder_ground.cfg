\* Two securities of the same cost, and 4 slack bits.
CONSTANTS
  None = None
  Specs <- GroundSpecs
  BruteforceLimit = 20
SPECIFICATION Spec
INVARIANT GroundStateCovers

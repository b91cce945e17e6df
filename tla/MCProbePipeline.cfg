SPECIFICATION Spec
CONSTANTS
  Threads = {t1, t2}
  Needs <- MCNeeds
  PrimeLimit = 2
INVARIANTS
  ProbesServeAll
  CountersExact
  AlwaysSomethingToFeed
PROPERTIES
  ReconstructionEnds

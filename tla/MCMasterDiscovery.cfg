SPECIFICATION Spec
CONSTANTS
  Threads = 2
  HeavySize = 2
  Labelled <- MCLabelled
  Worlds <- MCWorlds
  Jobs <- MCJobs
  Searches <- MCSearches
INVARIANTS
  SymmetricIntegralsMeet
  LocalBasesExact
  CountsJustified
  BasisJustified
  GlobalBasisClosed
  KernelReducesExactly
  SelectionJustified
  SearchSound
CHECK_DEADLOCK FALSE

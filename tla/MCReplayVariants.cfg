SPECIFICATION Spec
CONSTANTS
  Evaluators = {e1, e2}
  AllOutputs <- MCOutputs
  TargetOf <- MCTargetOf
  BasisOf <- MCBasisOf
  Requests <- MCRequests
  Points <- MCPoints
  Bytes <- MCBytes
  CacheEntries = 2
  CacheBudget = 3
  MaxPrime = 2
INVARIANTS
  RunsCurrentProgram
  AnswersExact
  CacheExact
  StructuresFormChain

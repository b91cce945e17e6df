\* Two pool threads beside the caller (the constructor may spawn fewer),
\* batches of up to three indices, two batches and then the destructor.
SPECIFICATION Spec
CONSTANTS
  Caller = caller
  Workers = {w1, w2}
  MaxCount = 3
  MaxBatches = 2
PROPERTIES
  NoRaceOnBatch
  ImplementsParallelFor
  CallsReturn

SPECIFICATION Spec
CONSTANTS
  Prime = 3
  Dim = 3
  Requests <- MCRequests
  Systems <- MCSystems
  OutputSets <- MCOutputSets
  Changes = 2
  RhsValues = {1}
  Leftover = 2
INVARIANTS
  RecordingJustified
  OutputsSolve
  MatchesReference

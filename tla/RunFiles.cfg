\* Three runs in a row, so that a run meets what a crashed or failed run
\* has left and leaves its own to the next.
SPECIFICATION Spec
CONSTANTS
  MaxRuns = 3
INVARIANTS
  PreRunLogKept
  OwnLogKept
  DestinationsWhole
  SuccessComplete

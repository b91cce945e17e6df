\* Three runs of the same second with two suffixes, so that a run may
\* also run out of them after crashes.
SPECIFICATION LogSpec
CONSTANTS
  Runs = {r1, r2, r3}
  MaxIndex = 1
INVARIANTS
  ReservationsExclusive
PROPERTIES
  EveryRunEnds

\* Two runs of the same second.
SPECIFICATION LogSpec
CONSTANTS
  Runs = {r1, r2}
  MaxIndex = 1
INVARIANTS
  LogsUnique

\* One group of three columns and one of two; a queue is compacted beyond two
\* entries (1024 in the program) or one for each active column (four).
SPECIFICATION Spec

CONSTANTS
  Prime = 3
  Interval = 8
  ShortInterval = 8
  QueueLimit = 2
  QueueFactor = 1
  Sources <- StaleSources
  LaterTargets <- MCLaterTargets
  LaterBases <- MCLaterBases

INVARIANTS
  RowsPivotOnce

SPECIFICATION Spec

CONSTANTS
  Prime = 3
  Interval = 2
  ShortInterval = 1
  QueueLimit = 2
  QueueFactor = 1
  Sources <- MCSources
  LaterTargets <- MCLaterTargets
  LaterBases <- MCLaterBases

INVARIANTS
  NoPivotOverlooked
  PlansExact
  ReuseExact
  ClosedAnswersHold

PROPERTIES
  ThreadsAgree

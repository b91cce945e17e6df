\* Two structures over three anchors, so that a structure is met again
\* after it was rejected; each prime has a spare point.
SPECIFICATION Spec
CONSTANTS
  Structures = {s1, s2}
  Outputs = {o1, o2}
  AnchorAttempts = 3
  PointAttempts = 2
  PointsPerPrime = 1
INVARIANTS
  NoSecondChance
  SupportIsWhatWasSeen
  LoadersFollowPrime
PROPERTIES
  CallEnds

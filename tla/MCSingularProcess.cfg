SPECIFICATION ProcessSpec
CONSTANTS
  c1 = c1
  c2 = c2
  Calls <- MCCalls
  Scripts <- MCScripts
  Replies <- MCReplies
  Capacity = 1
INVARIANTS
  OutputComplete
  NothingLeftBehind
PROPERTY
  CallEnds
CHECK_DEADLOCK FALSE

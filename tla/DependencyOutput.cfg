SPECIFICATION FairSpec
CONSTANTS
  a = a
  b = b
  c = c
  d = d
  unknown = unknown
  TaskOrder <- MCTaskOrder
  DepLists <- MCDepLists
  Retries <- MCRetries
  HasTimeout <- MCHasTimeout
INVARIANT OutputBeforeDependents
CHECK_DEADLOCK FALSE

SPECIFICATION FairSpec
CONSTANTS
  a = a
  b = b
  c = c
  d = d
  unknown = unknown
  TaskOrder <- MCTaskOrder
  DepLists <- MCDepLists
  Retries <- MCRetries
  HasTimeout <- MCHasTimeout
INVARIANTS
  TypeOK
  SortIsTopological
  DependentsWait
  FailurePropagates
PROPERTY EveryRunEnds
CHECK_DEADLOCK FALSE

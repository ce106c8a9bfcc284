\* Every handler registered before the first job, a listener of
\* "job:completed" that may throw.
SPECIFICATION FairSpec
CONSTANTS
  a = a
  b = b
  c = c
  d = d
  mail = mail
  report = report
  Jobs <- MCJobs
  Types <- MCTypes
  JobType <- MCJobType
  Priority <- MCPriority
  MaxAttempts <- MCMaxAttempts
  Concurrency = 2
  InitialHandlers <- MCTypes
  ListenerFaults = {"job:completed"}
INVARIANT WorkConserving
PROPERTY ImplementsFairJobPool
CHECK_DEADLOCK FALSE

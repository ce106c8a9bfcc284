\* Handlers registered late, listeners that throw, two workers.
SPECIFICATION Spec
CONSTANTS
  a = a
  b = b
  c = c
  d = d
  mail = mail
  report = report
  Jobs <- MCJobs
  Types <- MCTypes
  JobType <- MCJobType
  Priority <- MCPriority
  MaxAttempts <- MCMaxAttempts
  Concurrency = 2
  InitialHandlers <- MCHandlerOfMail
  ListenerFaults <- MCFaults
INVARIANTS
  TypeOK
  QueueIsPending
  SlotAccounting
  AttemptBudget
  FreshJobsByPriority
PROPERTY ImplementsJobPool
CHECK_DEADLOCK FALSE

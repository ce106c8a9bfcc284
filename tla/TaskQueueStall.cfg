\* One worker, and a job whose type has no handler among those that have one.
SPECIFICATION FairSpec
CONSTANTS
  a = a
  b = b
  c = c
  d = d
  mail = mail
  report = report
  Jobs <- MCJobs
  Types <- MCTypes
  JobType <- MCJobType
  Priority <- MCPriority
  MaxAttempts <- MCMaxAttempts
  Concurrency = 1
  InitialHandlers <- MCHandlerOfMail
  ListenerFaults = {}
PROPERTY HandledJobsAreDispatched
CHECK_DEADLOCK FALSE

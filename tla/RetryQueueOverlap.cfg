SPECIFICATION FairSpec
CONSTANTS
  a = a
  b = b
  c = c
  post = post
  sync = sync
  p1 = p1
  p2 = p2
  Items <- MCItems
  Operations <- MCOperations
  Operation <- MCOperation
  MaxAttempts <- MCMaxAttempts
  InitialHandlers <- MCHandlers
  Passes <- MCPasses
INVARIANT OneAttemptAtATime
CHECK_DEADLOCK FALSE

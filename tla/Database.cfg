SPECIFICATION Spec
CONSTANTS
  c1 = c1
  c2 = c2
  r1 = r1
  r2 = r2
  r3 = r3
  b1 = b1
  b2 = b2
  b3 = b3
  x = x
  y = y
  z = z
  Versions <- MCVersions
  Callers = {c1, c2}
  MaxRollbacks = 1
  MaxFaults = 1
  Requests = {r1, r2, r3}
  MaxPools = 2
  MaxConnections = 1
  Ids = {x, y, z}
  Batches = {b1, b2, b3}
  Records <- MCRecords
  MaxDeletes = 2
INVARIANTS
  DatabaseTypeOK
  RecordMatchesSchema
  PoolsAccounted
  BatchAllOrNothing
PROPERTIES
  StartedCallsEnd
CHECK_DEADLOCK FALSE

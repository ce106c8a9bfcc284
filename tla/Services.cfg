SPECIFICATION Spec
CONSTANTS
  j1 = j1
  j2 = j2
  t1 = t1
  t2 = t2
  m1 = m1
  m2 = m2
  i1 = i1
  i2 = i2
  v1 = v1
  v2 = v2
  c1 = c1
  c2 = c2
  c3 = c3
  ann = ann
  bob = bob
  cyd = cyd
  p1 = p1
  p2 = p2
  w1 = w1
  k1 = k1
  k2 = k2
  CronJobs = {j1, j2}
  PurgeTask = j1
  OnceTasks = {t1, t2}
  FarTasks = {t2}
  MaxOverlap = 2
  Messages = {m1, m2}
  RecTasks = {i1, i2}
  MaxIntervals = 3
  MaxRuns = 2
  Tokens = {v1, v2}
  Addresses = {ann, bob}
  Kinds = {"email_verification", "password_reset"}
  Purposes = {"data"}
  MaxVersions = 4
  MaxEvents = 4
  MaxHistory = 2
  MaxAudits = 2
  Customers = {c1, c2, c3}
  Emails = {ann, bob, cyd}
  Contacts <- MCContacts
  InteractionTypes = {"call", "note"}
  MaxInteractions = 2
  LineItems <- MCLineItems
  TaxRates = {0, 7}
  Discounts <- MCDiscounts
  Payers = {c1, c2}
  Amounts = {0, 600}
  MaxTop = 1
  MaxInvoices = 2
  MaxPayments = 1
  Pruners = {p1, p2}
  MaxBackups = 2
  Secrets = {"change-in-production", "s"}
  Claims = {"", "a", "b"}
  SignOptions <- MCSignOptions
  VerifyOptions <- MCVerifyOptions
  MaxSigned = 1
  Names = {w1}
  Keys = {k1, k2}
  Sources <- MCSources
  Assignments <- MCAssignments
  MaxEdits = 1
INVARIANTS
  ServicesTypeOK
  SchedulersConsistent
  CredentialsStayDead
  LogsFaithful
  StoresConsistent
  OutputsSound
PROPERTIES
  AcknowledgedArePurged
CHECK_DEADLOCK FALSE

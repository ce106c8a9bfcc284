SPECIFICATION FairSpec
CONSTANTS
  e1 = e1
  e2 = e2
  e3 = e3
  NoEmail = NoEmail
  Emails <- MCEmails
  MaxAttempts <- MCMaxAttempts
  Scheduled <- MCScheduled
PROPERTY AllPendingProcessed
CHECK_DEADLOCK FALSE

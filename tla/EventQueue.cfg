SPECIFICATION FairSpec
CONSTANTS
  m1 = m1
  m2 = m2
  m3 = m3
  n1 = n1
  s1 = s1
  s2 = s2
  u1 = u1
  orders = orders
  users = users
  NoMessage = NoMessage
  FaultyListener = TRUE
  Messages <- MCMessages
  Topics <- MCTopics
  Topic <- MCTopic
  MaxAttempts <- MCMaxAttempts
  Scheduled <- MCScheduled
  Subs <- MCSubs
  SubTopic <- MCSubTopic
INVARIANTS
  TypeOK
  UndeliveredStayQueued
  RedeliveryBound
PROPERTY ImplementsTopicLog
PROPERTY FlagReleased
CHECK_DEADLOCK FALSE

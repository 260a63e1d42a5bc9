SPECIFICATION FairSpec
CONSTANTS
  a = a
  b = b
  None = None
  Account <- Accounts
  MaxSession = 2
  MaxRun = 1
  MaxDelta = 1
  MaxFault = 1
  MaxQueue = 1
INVARIANTS
  ConversationsStayApart
  AskedBeforeAnswered
  NothingSaidIsLost
PROPERTIES
  EveryWaitEnds
CHECK_DEADLOCK FALSE

SPECIFICATION FairSpec
CONSTANTS
  Capacity = 2
  QueueLimit = 1
  MaxBackOff = 5
  MaxLogs = 5
  MaxReorgs = 2
INVARIANTS TypeOK HandledInOrder GivesUpLate
PROPERTIES ImplementsFeed LiveLogsHandled Resubscribes
CHECK_DEADLOCK FALSE

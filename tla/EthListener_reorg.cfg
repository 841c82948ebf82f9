SPECIFICATION Spec
CONSTANTS
  Capacity = 1
  QueueLimit = 1
  MaxBackOff = 5
  MaxLogs = 1
  MaxReorgs = 1
INVARIANTS HandledOnce
CHECK_DEADLOCK FALSE

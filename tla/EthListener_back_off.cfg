SPECIFICATION Spec
CONSTANTS
  Capacity = 1
  QueueLimit = 1
  MaxBackOff = 5
  MaxLogs = 1
  MaxReorgs = 0
INVARIANTS BackOffGrows
CHECK_DEADLOCK FALSE

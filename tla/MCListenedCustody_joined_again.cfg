SPECIFICATION SystemSpec
CONSTANTS
  Capacity = 1
  QueueLimit = 1
  MaxBackOff = 0
  MaxLogs = 4
  MaxReorgs = 1
  Channels = {"a", "x"}
  Owners = {"alice"}
  Owner <- MCOwner
  BrokerChannels <- MCBroker
  Workers = {w1}
  Deposits = {1}
  Resizes <- MCResizes
  Bets = {1}
  MaxVersion = 1
  MaxSigned = 1
  MaxFaults = 0
  None = None
  Watched = "polygon"
INVARIANT StaysBacked
CHECK_DEADLOCK FALSE

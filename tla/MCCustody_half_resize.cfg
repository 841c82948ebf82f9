SPECIFICATION Spec
CONSTANTS
  Channels = {"a"}
  Owners = {"alice"}
  Chains = {"polygon"}
  Owner <- MCOwner
  Chain <- MCChain
  BrokerChannels <- MCBroker
  Workers = {w1}
  Deposits = {1}
  Resizes <- PlainResizes
  Bets = {}
  MaxVersion = 2
  MaxSigned = 1
  MaxFaults = 1
  None = None
PROPERTY ResizeIsRecorded
CHECK_DEADLOCK FALSE

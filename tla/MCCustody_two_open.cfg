SPECIFICATION Spec
CONSTANTS
  Channels = {"a", "a2"}
  Owners = {"alice"}
  Chains = {"polygon"}
  Owner <- MCOwner
  Chain <- MCChain
  BrokerChannels <- MCBroker
  Workers = {w1}
  Deposits = {1}
  Resizes <- NoResizes
  Bets = {}
  MaxVersion = 1
  MaxSigned = 1
  MaxFaults = 0
  None = None
INVARIANT OneOpenChannel
CHECK_DEADLOCK FALSE

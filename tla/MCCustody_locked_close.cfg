SPECIFICATION Spec
CONSTANTS
  Channels = {"a"}
  Owners = {"alice"}
  Chains = {"polygon"}
  Owner <- MCOwner
  Chain <- MCChain
  BrokerChannels <- MCBroker
  Workers = {w1}
  Deposits = {1}
  Resizes <- NoResizes
  Bets = {1}
  MaxVersion = 2
  MaxSigned = 1
  MaxFaults = 0
  None = None
INVARIANT UnifiedNonNegative
CHECK_DEADLOCK FALSE

SPECIFICATION Spec
CONSTANTS
  Channels = {"a", "b"}
  Owners = {"alice"}
  Chains = {"polygon", "celo"}
  Owner <- MCOwner
  Chain <- MCChain
  BrokerChannels <- MCBroker
  Workers = {w1}
  Deposits = {1}
  Resizes <- Allocations
  Bets = {}
  MaxVersion = 2
  MaxSigned = 1
  MaxFaults = 0
  None = None
INVARIANT UnifiedNonNegative
CHECK_DEADLOCK FALSE

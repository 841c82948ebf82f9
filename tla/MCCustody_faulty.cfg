SPECIFICATION Spec
CONSTANTS
  Channels = {"a", "b"}
  Owners = {"alice"}
  Chains = {"polygon", "celo"}
  Owner <- MCOwner
  Chain <- MCChain
  BrokerChannels <- MCBroker
  Workers = {w1}
  Deposits = {1}
  Resizes <- MixedResizes
  Bets = {}
  MaxVersion = 2
  MaxSigned = 2
  MaxFaults = 1
  None = None
INVARIANTS TypeOK RowsBehindContract AcceptableStatesFit
CHECK_DEADLOCK FALSE

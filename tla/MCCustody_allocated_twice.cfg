SPECIFICATION Spec
CONSTANTS
  Channels = {"a", "b"}
  Owners = {"alice"}
  Chains = {"polygon", "celo"}
  Owner <- MCOwner
  Chain <- MCChain
  BrokerChannels <- MCBroker
  Workers = {w1}
  Deposits = {1}
  Resizes <- AllocateAndWithdraw
  Bets = {}
  MaxVersion = 2
  MaxSigned = 2
  MaxFaults = 0
  None = None
INVARIANT Solvent
CHECK_DEADLOCK FALSE

SPECIFICATION FairSpec
CONSTANTS
  Channels = {"a"}
  Owners = {"alice"}
  Chains = {"polygon"}
  Owner <- MCOwner
  Chain <- MCChain
  BrokerChannels <- MCBroker
  Workers = {w1}
  Deposits = {1}
  Resizes <- NoResizes
  Bets = {}
  MaxVersion = 1
  MaxSigned = 2
  MaxFaults = 1
  None = None
PROPERTIES BrokerJoins
CHECK_DEADLOCK FALSE

SPECIFICATION FairSpec
CONSTANTS
  Channels = {"a"}
  Owners = {"alice"}
  Chains = {"polygon"}
  Owner <- MCOwner
  Chain <- MCChain
  BrokerChannels <- MCBroker
  Workers = {w1}
  Deposits = {1}
  Resizes <- NoResizes
  Bets = {}
  MaxVersion = 1
  MaxSigned = 1
  MaxFaults = 1
  None = None
PROPERTY JoinedIsCredited
CHECK_DEADLOCK FALSE

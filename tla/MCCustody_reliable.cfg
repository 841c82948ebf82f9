SPECIFICATION FairSpec
CONSTANTS
  Channels = {"a", "a2", "x"}
  Owners = {"alice", "carol"}
  Chains = {"polygon"}
  Owner <- MCOwner
  Chain <- MCChain
  BrokerChannels <- MCBroker
  Workers = {w1}
  Deposits = {1}
  Resizes <- Withdrawals
  Bets = {1}
  MaxVersion = 2
  MaxSigned = 2
  MaxFaults = 0
  None = None
INVARIANTS LedgerBacked RowsMirrorContract
PROPERTIES BrokerJoins JoinedIsCredited CloseIsRecorded
CHECK_DEADLOCK FALSE

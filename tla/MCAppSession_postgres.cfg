SPECIFICATION Spec
CONSTANTS
  Addresses = {"Alice", "Bob"}
  SessionIds = {"s1", "s2"}
  Assets = {"usd"}
  Workers = {w1, w2}
  Driver = "postgres"
  Lower <- MCLower
  Definition <- MCDefinition
  DefaultQuorum = 100
  CreateRequests <- OverlapCreates
  CloseRequests <- OverlapCloses
  CustodyAmounts = {1}
  MaxFunds = 1
  NoRequest = NoRequest
PROPERTIES DebitAuthorised EscrowReleaseAuthorised StatusMonotone OpenFundsFrozen
SYMMETRY WorkerSymmetry

SPECIFICATION Spec
CONSTANTS
  Addresses = {"Alice", "Bob", "Carol"}
  SessionIds = {"s1"}
  Assets = {"usd"}
  Workers = {w1}
  Driver = "sqlite"
  Lower <- MCLower
  Definition <- MCDefinition
  DefaultQuorum = 100
  CreateRequests <- StrangerCreates
  CloseRequests <- PlainCloses
  CustodyAmounts = {1}
  MaxFunds = 1
  NoRequest = NoRequest
INVARIANT ClosedSessionsEmpty

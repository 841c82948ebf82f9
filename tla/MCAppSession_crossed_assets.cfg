SPECIFICATION Spec
CONSTANTS
  Addresses = {"Alice", "Bob"}
  SessionIds = {"s1"}
  Assets = {"usd", "eth"}
  Workers = {w1}
  Driver = "sqlite"
  Lower <- MCLower
  Definition <- MCDefinition
  DefaultQuorum = 100
  CreateRequests <- AnyCreates
  CloseRequests <- AnyCloses
  CustodyAmounts = {1}
  MaxFunds = 1
  NoRequest = NoRequest
PROPERTY Conservation

SPECIFICATION Spec
CONSTANTS
  Addresses = {"Alice", "Bob"}
  SessionIds = {"s1", "twice", "light"}
  Assets = {"usd"}
  Workers = {w1}
  Driver = "sqlite"
  Lower <- MCLower
  Definition <- MCDefinition
  DefaultQuorum = 100
  CreateRequests <- PlainCreates
  CloseRequests <- PlainCloses
  CustodyAmounts = {1}
  MaxFunds = 2
  NoRequest = NoRequest
INVARIANTS TypeOK NoOverdraft EscrowNonNegative OnlyRedeemableClose
PROPERTIES FundsMoveWithStatus Promise

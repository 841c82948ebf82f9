SPECIFICATION FairSpec
CONSTANTS
  Conns = {"c1", "c2"}
  Addresses = {"alice", "bob"}
  KeyOf <- MCKeyOf
  Tokens = {t1, t2, t3}
  None = None
  MaxChallenges = 2
  ChallengeTTL = 1
  UsedTTL = 0
  SessionTTL = 1
  MaxLag = 1
INVARIANTS TypeOK ChallengeAuthenticatesOnce PendingBounded
PROPERTIES KeptUntilExpiry ExpiredNeedsAnswer RoomReturns

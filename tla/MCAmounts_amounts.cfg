SPECIFICATION Spec
CONSTANTS
  Channels = {"fine", "coarse"}
  Unit <- MCUnit
  Half = 4
  Deposits = {2, 5, 9}
  Resizes <- MCResizes
  Bets = {1}
  Others = 2
  MaxVersion = 2
  MaxSigned = 2
  None = None
INVARIANTS TypeOK RowsAreLowBits Backed GainsOnlyByDrops
PROPERTIES AstrayIsFrozen
CHECK_DEADLOCK FALSE

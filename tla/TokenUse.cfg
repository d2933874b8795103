SPECIFICATION MCSpec
CHECK_DEADLOCK FALSE
CONSTANTS
  Creds = {c1}
  Workers = {w1}
  Admins = {a1}
  Pair = {w1, w2}
  Names = {n1}
  MaxFailures = 1
  MaxMint = 1
  NoToken = NoToken
  None = None
PROPERTY DeletedStaysDeleted
PROPERTY PairReleased

SPECIFICATION MCSpec
CHECK_DEADLOCK FALSE
CONSTANTS
  Creds = {c1}
  Workers = {w1, w2}
  Admins = {}
  Names = {n1, n2}
  MaxFailures = 1
  MaxMint = 2
  NoToken = NoToken
  None = None
SYMMETRY WorkerSymmetry
INVARIANT TypeOK
INVARIANT SingleFlight
INVARIANT RefreshTokenFresh
PROPERTY KeepsLedger
PROPERTY NoCleanRevival

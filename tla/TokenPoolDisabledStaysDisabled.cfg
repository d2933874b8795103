SPECIFICATION Spec
CONSTANTS
  Creds = {c1}
  Workers = {w1}
  Admins = {a1}
  Names = {n1, n2}
  MaxFailures = 1
  MaxMint = 1
  NoToken = NoToken
  None = None
CHECK_DEADLOCK FALSE
PROPERTY DisabledStaysDisabled

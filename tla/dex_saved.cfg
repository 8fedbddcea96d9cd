SPECIFICATION DexFairSpec
CONSTANTS
  Scopes = {q1}
  Fast = {}
  NoScope = none
  MaxNonce = 2
PROPERTY
  SavedAcceptIsVerified
CHECK_DEADLOCK FALSE

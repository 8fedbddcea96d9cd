SPECIFICATION DexSpec
CONSTANTS
  Scopes = {q1, q2}
  Fast = {q2}
  NoScope = none
  MaxNonce = 6
INVARIANTS
  DexTypeOK
  SentIsTraceable
  FundedIsRemembered
PROPERTY
  ImplementsJournal
CHECK_DEADLOCK FALSE

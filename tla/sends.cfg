SPECIFICATION WriteSpec
CONSTANTS
  Tabs = {t1, t2}
  Nonces = {n1, n2}
  NoNonce = nonce0
  MaxSends = 2
  MaxBreaks = 1
INVARIANTS
  WriteTypeOK
  NonceUsedOnce
  DraftSaysTheOutcome
  ReceiptFindsItsRow
PROPERTIES
  FinalityIsKept

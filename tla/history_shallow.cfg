SPECIFICATION Spec
CONSTANTS
  Callers = {c1}
  Nobody = nobody
  MaxBlocks = 5
  MaxMessages = 3
  MaxPerBlock = 1
  ConfirmationDepth = 1
  Span = 2
  ReorgDepth = 1
  MaxReorgs = 1
  MaxDisruptions = 1
  MaxLosses = 1
  EmptyAnswers = TRUE
  MaxReceipts = 1
  Lag = 0
  PromptApply = TRUE
INVARIANTS
  TypeOK
  FinalizedCanonical
PROPERTIES
  LoadedStays

SPECIFICATION Spec
CONSTANTS
  Callers = {c1, c2}
  Nobody = nobody
  MaxBlocks = 4
  MaxMessages = 2
  MaxPerBlock = 1
  ConfirmationDepth = 1
  Span = 2
  ReorgDepth = 3
  MaxReorgs = 1
  MaxDisruptions = 0
  MaxLosses = 0
  EmptyAnswers = FALSE
  MaxReceipts = 0
  Lag = 1
  PromptApply = FALSE
SYMMETRY CallerSymmetry
INVARIANTS
  CheckpointVouches
  Inv

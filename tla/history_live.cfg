SPECIFICATION PatientSpec
CONSTANTS
  Callers = {c1}
  Nobody = nobody
  MaxBlocks = 5
  MaxMessages = 2
  MaxPerBlock = 2
  ConfirmationDepth = 1
  Span = 2
  ReorgDepth = 3
  MaxReorgs = 1
  MaxDisruptions = 0
  MaxLosses = 1
  EmptyAnswers = FALSE
  MaxReceipts = 0
  Lag = 0
  PromptApply = TRUE
INVARIANTS
  OlderCursorReaches
  ResetIsEarned
PROPERTIES
  RecentIsShown
  HistoryIsShown

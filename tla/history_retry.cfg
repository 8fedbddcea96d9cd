SPECIFICATION PatientSpec
CONSTANTS
  Callers = {c1}
  Nobody = nobody
  MaxBlocks = 5
  MaxMessages = 2
  MaxPerBlock = 1
  ConfirmationDepth = 1
  Span = 2
  ReorgDepth = 1
  MaxReorgs = 1
  MaxDisruptions = 1
  MaxLosses = 0
  EmptyAnswers = FALSE
  MaxReceipts = 0
  Lag = 0
  PromptApply = TRUE
PROPERTIES
  RecentIsShown
  HistoryIsShown

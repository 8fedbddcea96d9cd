SPECIFICATION PacingSpec
CONSTANTS
  MaxCalls = 6
  RequestLimit = 4
  Modes = {"normal", "trial", "spaced"}
INVARIANTS
  PacingTypeOK
  OneRequest
  CountsExact
  BypassBounded
PROPERTIES
  StopIsFinal
  EveryCallEnds
CHECK_DEADLOCK FALSE

SPECIFICATION CursorSpec
CONSTANTS
  Tabs = {t1, t2}
  MaxMessages = 1
  MaxReorgs = 1
  MaxTroubles = 1
SYMMETRY TabSymmetry
INVARIANTS
  CursorTypeOK
  PositionWasSeen
PROPERTIES
  PositionIsKept

SPECIFICATION FairCursorSpec
CONSTANTS
  Tabs = {t1, t2}
  MaxMessages = 1
  MaxReorgs = 0
  MaxTroubles = 1
PROPERTIES
  DevicesAgree

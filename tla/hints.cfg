SPECIFICATION FairSpec
CONSTANTS
  Listeners = {l1, l2}
  Keys = {k1, k2}
  MaxFailures = 3
CHECK_DEADLOCK FALSE
INVARIANTS
  TypeOK
  ConnectedIsServed
  IdleIsQuiet
PROPERTIES
  SubscribedIsConnected
  SilenceIsNoticed

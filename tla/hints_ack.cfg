SPECIFICATION Spec
CONSTANTS
  Listeners = {l1, l2}
  Keys = {k1, k2}
  MaxFailures = 0
CHECK_DEADLOCK FALSE
INVARIANTS
  ConnectedIsAccepted

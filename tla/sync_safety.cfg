SPECIFICATION SyncSpec
CONSTANTS
  Wallets = {w}
  Chains = {a}
  NoWallet = nowallet
  NoChain = nochain
  Flows = {f1,f2}
  NotRunning = notrunning
  Ttl = 1
  MaxSwitches = 1
  MaxReloads = 1
  TradeRoute = FALSE
  DirectFlows = {f2}
  MaxDrops = 0
  MaxRestarts = 0
  Owing = FALSE
INVARIANTS
  SyncTypeOK
  RunningIsCounted
  QueueIsKept
  WalletActionIsKept
PROPERTIES
  OnlyTraces

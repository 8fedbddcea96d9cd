SPECIFICATION FairSync
CONSTANTS
  Wallets = {}
  Chains = {a}
  NoWallet = nowallet
  NoChain = nochain
  Flows = {}
  NotRunning = notrunning
  Ttl = 2
  MaxSwitches = 0
  MaxReloads = 0
  TradeRoute = FALSE
  DirectFlows = {}
  MaxDrops = 1
  MaxRestarts = 0
  Owing = TRUE
PROPERTIES
  GapIsReconciled

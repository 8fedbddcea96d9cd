SPECIFICATION FairSync
CONSTANTS
  Wallets = {}
  Chains = {a}
  NoWallet = nowallet
  NoChain = nochain
  Flows = {f1}
  NotRunning = notrunning
  Ttl = 2
  MaxSwitches = 0
  MaxReloads = 0
  TradeRoute = TRUE
  DirectFlows = {}
  MaxDrops = 1
  MaxRestarts = 1
  Owing = TRUE
PROPERTIES
  HintIsServed

SPECIFICATION FairSync
CONSTANTS
  Wallets = {}
  Chains = {a}
  NoWallet = nowallet
  NoChain = nochain
  Flows = {f1}
  NotRunning = notrunning
  Ttl = 2
  MaxSwitches = 0
  MaxReloads = 1
  TradeRoute = TRUE
  DirectFlows = {}
  MaxDrops = 0
  MaxRestarts = 0
  Owing = TRUE
PROPERTIES
  StaleExpires

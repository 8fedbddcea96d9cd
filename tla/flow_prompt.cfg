SPECIFICATION FlowSpec
CONSTANTS
  Wallets = {w}
  Chains = {a,b}
  NoWallet = nowallet
  NoChain = nochain
  Flows = {f1}
  NotRunning = notrunning
  Ttl = 2
  MaxSwitches = 1
  MaxReloads = 0
PROPERTIES
  ChainHeldUnderPrompt

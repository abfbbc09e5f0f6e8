SPECIFICATION CliSpec
CHECK_DEADLOCK FALSE
CONSTANTS
  Arbitrum = Arbitrum
  Avalanche = Avalanche
  Binance = Binance
  owner = owner
  other = other
  Chain = {Arbitrum, Avalanche, Binance}
  Home = Arbitrum
  XChain = XChain
  nowhere = nowhere
  Recipient = {owner, other, XChain, nowhere}
  Account <- Wallets
  Balance <- MCBalance
  Unit = 2
  Percentage = {1, 3}
  Precision = {2}
  Deployed <- Deployments
  MaxSent = 1
  Supported <- Chains
  FeePercentage = 1
  FeePrecision = 2
INVARIANT RegistersEachChain

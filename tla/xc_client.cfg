SPECIFICATION ClientFairSpec
CHECK_DEADLOCK FALSE
CONSTANTS
  A = A
  B = B
  owner = owner
  other = other
  Chain = {A, B}
  Home = A
  XChain = XChain
  nowhere = nowhere
  Recipient = {owner, XChain, nowhere}
  Account <- Wallets
  Balance <- MCBalance
  Unit = 2
  Percentage = {1, 3}
  Precision = {2}
  Deployed <- Deployments
  MaxSent = 2
  User = owner
  Relayer = other
  Call = {k1, k2}
  MaxTry = 2
  FeeChain = {B}
  RelayChain = {A, B}
  MinTransfer <- Thresholds
  MaxLost = 1
INVARIANTS
  ClientTypeOK
  ResidueStays
  OneReceipt
PROPERTIES
  ImplementsTransfers
  CallsEnd
  SignedIsDelivered

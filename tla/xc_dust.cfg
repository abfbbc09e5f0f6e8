SPECIFICATION Spec
CHECK_DEADLOCK FALSE
CONSTANTS
  Chain = {A, B}
  Home = A
  XChain = XChain
  nowhere = nowhere
  Recipient = {owner, other, XChain, nowhere}
  owner = owner
  other = other
  Account <- Wallets
  Balance <- MCBalance
  Unit = 2
  Percentage = {1, 3}
  Precision = {2}
  Deployed <- Deployments
  MaxSent = 3
INVARIANT SendNeverBlocked

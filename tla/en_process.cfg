SPECIFICATION FairSpec
CHECK_DEADLOCK FALSE
CONSTANTS
  e1 = e1
  e2 = e2
  e3 = e3
  pl = pl
  fuji = fuji
  polygon = polygon
  terra = terra
  wa = wa
  wb = wb
  Plugin <- Plugins
  Event <- Events
  NumGuardians = 2
  CacheSize = 1
  MaxCopies = 4
  MaxLosses = 1
  MaxUnwritten = 1
  Self = p1
  Process = {p1}
  Nowhere = nowhere
  Chain <- Chains
  Kind <- Kinds
  Wallet = {wa, wb}
  Workflow <- Workflows
  Plan <- DummyPlan
  MaxRequeues = 0
  MaxActive = 2
  MaxHung = 1
  Disk <- Configurations
  PluginDisk <- PluginConfigurations
  MaxStarts = 2
  MaxBoth = 2
  Arriving = {e1, e2}
INVARIANTS
  EngineTypeOK
  SignsWithConfiguredKeys
  QuorumIsConsumed
  ConsumedOnce
  ActionsAccounted
  ExclusiveInProcess
PROPERTIES
  SpyReconnects
  WorkflowSettles
  FollowsLifecycle

SPECIFICATION FairSpec
CONSTANTS
  w1 = w1
  w2 = w2
  w3 = w3
  p1 = p1
  p2 = p2
  None = None
  Workflow <- MCWorkflow
  Listener <- Only1
  Executor <- Only1
  MaxActive = 1
  MaxRequeues = 0
  MaxBacklog = 1
  MaxFaults = 0
  MaxCrashes = 1
PROPERTY ProcessRecovers

SPECIFICATION Spec
CONSTANTS
  w1 = w1
  w2 = w2
  w3 = w3
  p1 = p1
  p2 = p2
  None = None
  Workflow <- MCWorkflow
  Listener <- Only1
  Executor <- Both
  MaxActive = 1
  MaxRequeues = 0
  MaxBacklog = 1
  MaxFaults = 1
  MaxCrashes = 1
SYMMETRY WorkflowSymmetry
INVARIANTS
  TypeOK
  OneEntry
  NoLostWorkflow
  ExclusiveUnlessAmbiguous
  RequeueFindsKey
PROPERTY ImplementsLifecycle

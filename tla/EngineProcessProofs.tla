-------------------------- MODULE EngineProcessProofs --------------------------
(***************************************************************************)
(* Theorems about an engine process, for any configurations, plugins,      *)
(* VAAs, chains, keys and plans: what the spy's listeners and the wallet   *)
(* workers promise outlives the start of the process, its end and its      *)
(* restart, and the keys of the workers are those of the files.            *)
(***************************************************************************)
EXTENDS EngineProcess, SpyListenerProofs, WalletWorkersProofs

\* The environment of a process that has started is what its files say, it was
\* validated, and its workers have the keys of this environment.
EnvInv ==
  /\ disk \in Disk
  /\ phase # "down" => env = ValidatedEnv(disk, mode) /\ ValidEnvs(disk, mode)
  /\ phase = "checking" => Executes(mode)
  /\ spawned # {} =>
       /\ phase = "running" /\ Executes(mode)
       /\ workers[Self] = env.privateKeys
       /\ AllWorkersSpawn(env.privateKeys)

EngineInv == EnvInv /\ SpyInv /\ WorkersInv

-----------------------------------------------------------------------------
(* The configuration.                                                      *)

\* Object.assign of loadConfig.ts: each chain's keys are those of its environment
\* variable, when it has one and is supported, and those of executor.json otherwise.
LEMMA KeysAssigned ==
  ASSUME NEW raw
  PROVE  /\ DOMAIN AssignedKeys(raw) = (DOMAIN raw.env \cap DOMAIN raw.chains) \cup DOMAIN raw.keys
         /\ \A c \in DOMAIN AssignedKeys(raw) :
              AssignedKeys(raw)[c] = IF c \in DOMAIN raw.env \cap DOMAIN raw.chains
                                     THEN raw.env[c] ELSE raw.keys[c]
BY DEF AssignedKeys, PrivateKeyEnvVarLoader, Assigned

\* The keys of a validated environment are keys of chains (validatePrivateKeys).
LEMMA KeysOfChains ==
  ASSUME EnvInv, phase # "down"
  PROVE  DOMAIN env.privateKeys \subseteq Chain
<1>1. IsRawConfig(disk) /\ env = ValidatedEnv(disk, mode) /\ ValidEnvs(disk, mode)
  BY EngineAssumption DEF EnvInv
<1>2. DOMAIN disk.chains \subseteq Chain
  BY <1>1 DEF IsRawConfig
<1>3. CASE Executes(mode)
  <2>1. env.privateKeys = AssignedKeys(disk) /\ ValidPrivateKeys(disk)
    BY <1>1, <1>3 DEF ValidatedEnv, ValidEnvs
  <2> QED BY <1>2, <2>1 DEF ValidPrivateKeys
<1>4. CASE ~Executes(mode)
  <2>1. env.privateKeys = <<>>
    BY <1>1, <1>4 DEF ValidatedEnv
  <2> QED BY <2>1
<1> QED BY <1>3, <1>4

-----------------------------------------------------------------------------
(* The steps.                                                              *)

\* Nothing is listened to and nothing executes before the first start.
LEMMA InitEstablishes ==
  ASSUME Init PROVE EngineInv
<1>1. SpyInv
  BY EmptyListeners DEF Init, SpyInit
<1>2. status \in [Workflow -> Status]
  BY DEF Init, Status
<1>3. WorkersInv
  BY <1>2, WorkersStart DEF Init
<1>4. EnvInv
  BY DEF Init, EnvInv, WorkersInit
<1> QED BY <1>1, <1>3, <1>4 DEF EngineInv

\* The end of the process: an exception, a rejection nobody handles, a kill.
LEMMA ExitPreserves ==
  ASSUME EngineInv, Exit PROVE EngineInv'
<1>1. SpyInv'
  <2>1. /\ cache' = [q \in Plugin |-> <<>>] /\ consuming' = [q \in Plugin |-> NoCalls]
        /\ passed' = {} /\ settled' = {}
    BY DEF Exit, ForgetListeners
  <2>2. \A q \in Plugin, x \in Event : ~Cached(q, x)' /\ consuming'[q][x] = 0
    BY <2>1 DEF Cached, NoCalls
  <2>3. cache' \in [Plugin -> Seq(Event)] /\ consuming' \in [Plugin -> [Event -> Nat]]
    BY <2>1 DEF NoCalls
  <2> QED
    BY <2>1, <2>2, <2>3 DEF SpyInv, QuorumIsConsumed, ConsumedOnce,
                            CachedIsConsumed, SettledIsCached
<1>2. Self \in Process /\ ForgetWorkers(Self) /\ status \in [Workflow -> Status]
  BY EngineAssumption DEF EngineInv, WorkersInv, WorkersTypes, Exit
<1>3. \A w \in Workflow : at[w] = Self \/ at[w] = Nowhere
  BY EngineAssumption DEF EngineInv, WorkersInv, WorkersTypes
<1>4. status' \in [Workflow -> Status]
  BY <1>2 DEF Exit, Status
<1>5. WorkersInv'
  BY <1>2, <1>3, <1>4, ForgetWorkersPreserves DEF EngineInv
<1>6. spawned' = {}
  BY EngineAssumption DEF EngineInv, WorkersInv, WorkersTypes, Exit, ForgetWorkers
<1>7. EnvInv'
  BY <1>6 DEF EngineInv, EnvInv, Exit, startVars
<1> QED BY <1>1, <1>5, <1>7 DEF EngineInv

\* The executor and the environment do not see what a listener does.
LEMMA ListenerFramePreserves ==
  ASSUME EngineInv, ListenerFrame
  PROVE  EnvInv' /\ WorkersInv'
<1>1. UNCHANGED <<disk, mode, phase, env, workers, spawned, actionQueue, running, at, step,
                  status>>
  BY DEF ListenerFrame, startVars, workerVars
<1>2. EnvInv'
  BY <1>1 DEF EngineInv, EnvInv
<1>3. WorkersInv'
  BY <1>1, StatusPreserves DEF EngineInv, WorkersInv, WorkersTypes
<1> QED BY <1>2, <1>3

\* The listeners do not see what the executor does.
LEMMA ListenersKept ==
  ASSUME EngineInv, UNCHANGED spyVars PROVE SpyInv'
BY ConnectionPreserves DEF spyVars, EngineInv

\* runPluginSpyListener, its callbacks, the event source and consumeEventHarness.
LEMMA ListenerStepPreserves ==
  ASSUME EngineInv, NEW pl \in Plugin, ListenerStep(pl) PROVE EngineInv'
<1>1. EnvInv' /\ WorkersInv'
  BY ListenerFramePreserves DEF ListenerStep
<1>2. CASE Subscribe(pl) \/ StreamLost(pl) \/ Reconnect(pl)
  <2>1. UNCHANGED <<cache, consuming, known, unwritten, passed, settled, evicted, injected>>
    BY <1>2 DEF Subscribe, StreamLost, Reconnect
  <2> QED BY <1>1, <2>1, ConnectionPreserves DEF EngineInv
<1>3. ASSUME NEW e \in Event, NEW signatures \in 0..NumGuardians, Data(pl, e, signatures)
      PROVE  EngineInv'
  <2>1. signatures \in Nat
    BY SpyAssumption
  <2> QED BY <1>1, <1>3, <2>1, DataPreserves DEF EngineInv
<1>4. ASSUME NEW e \in Event, EventSource(pl, e)
      PROVE  EngineInv'
  BY <1>1, <1>4, EventSourcePreserves DEF EngineInv
<1>5. ASSUME NEW e \in Event, ConsumedWithout(pl, e) \/ AddFails(pl, e)
      PROVE  EngineInv'
  BY <1>1, <1>5, ConsumedPreserves DEF EngineInv
<1> QED BY <1>2, <1>3, <1>4, <1>5 DEF ListenerStep

\* consumeEventHarness, or the backlog, leaves a workflow: one that was unknown is queued.
LEMMA EventBecomesWorkflowPreserves ==
  ASSUME EngineInv, NEW pl \in Plugin, NEW e \in Event, EventBecomesWorkflow(pl, e)
  PROVE  EngineInv'
<1>1. /\ ConsumedWithWorkflow(pl, e) \/ AddWritten(pl, e)
      /\ status' = [status EXCEPT ![<<pl, e>>] = IF @ = "unknown" THEN "queued" ELSE @]
      /\ UNCHANGED <<disk, mode, phase, env, workers, spawned, actionQueue, running, at, step>>
  BY DEF EventBecomesWorkflow, startVars
<1>2. SpyInv'
  BY <1>1, ConsumedPreserves, AddWrittenPreserves DEF EngineInv
<1>3. status \in [Workflow -> Status]
  BY DEF EngineInv, WorkersInv, WorkersTypes
<1>4. /\ status' \in [Workflow -> Status]
      /\ \A w \in Workflow : status[w] = "executing" => status'[w] = "executing"
  BY <1>1, <1>3 DEF Status
<1>5. WorkersInv'
  BY <1>1, <1>4, StatusPreserves DEF EngineInv
<1>6. EnvInv'
  BY <1>1 DEF EngineInv, EnvInv
<1> QED BY <1>2, <1>5, <1>6 DEF EngineInv

\* spawnWorkflow, the handlers and the workers.
LEMMA ExecutorStepPreserves ==
  ASSUME EngineInv, ExecutorStep PROVE EngineInv'
<1>1. SpyInv'
  BY ListenersKept DEF ExecutorStep, ExecutorFrame
<1>2. Self \in Process
  BY EngineAssumption
<1>3. WorkersInv' /\ UNCHANGED <<workers, spawned>>
  <2>1. ASSUME NEW w \in Workflow, SpawnWorkflow(Self, w)
        PROVE  WorkersInv' /\ UNCHANGED <<workers, spawned>>
    <3>1. WorkersInv'
      BY <1>2, <2>1, SpawnWorkflowPreserves DEF EngineInv
    <3> QED BY <2>1, <3>1 DEF SpawnWorkflow
  <2>2. ASSUME NEW w \in Workflow, HandlerResolves(w) \/ HandlerThrows(w)
        PROVE  WorkersInv' /\ UNCHANGED <<workers, spawned>>
    <3>1. WorkersInv'
      BY <2>2, HandlerPreserves DEF EngineInv
    <3> QED BY <2>2, <3>1 DEF HandlerResolves, HandlerThrows
  <2>3. ASSUME NEW c, NEW i, WorkerTakes(Self, c, i)
        PROVE  WorkersInv' /\ UNCHANGED <<workers, spawned>>
    <3>1. WorkersInv'
      BY <1>2, <2>3, WorkerTakesPreserves DEF EngineInv
    <3> QED BY <2>3, <3>1 DEF WorkerTakes
  <2>4. ASSUME NEW c, NEW i, NEW w \in Workflow,
               ActionResolves(Self, c, i, w) \/ ActionRejects(Self, c, i, w)
        PROVE  WorkersInv' /\ UNCHANGED <<workers, spawned>>
    <3>1. WorkersInv'
      BY <1>2, <2>4, ActionSettlesPreserves DEF EngineInv
    <3> QED BY <2>4, <3>1 DEF ActionResolves, ActionRejects
  <2>5. ASSUME NEW c, NEW i, NEW w \in Workflow, ActionHangs(Self, c, i, w)
        PROVE  WorkersInv' /\ UNCHANGED <<workers, spawned>>
    <3>1. WorkersInv'
      BY <2>5, ActionHangsPreserves DEF EngineInv
    <3> QED BY <2>5, <3>1 DEF ActionHangs
  <2> QED
    BY <2>1, <2>2, <2>3, <2>4, <2>5 DEF ExecutorStep, ExecutorSteps, HandlerSteps
<1>4. EnvInv'
  BY <1>3 DEF ExecutorStep, ExecutorFrame, startVars, EngineInv, EnvInv
<1> QED BY <1>1, <1>3, <1>4 DEF EngineInv

\* The start of the process up to its harnesses: readAndValidateEnv, createStorage,
\* afterSetup, the spy loops.
LEMMA StartPreserves ==
  ASSUME EngineInv, ReadAndValidateEnv \/ SetUp \/ RunHarnesses PROVE EngineInv'
<1>1. CASE SetUp /\ Exit
  BY <1>1, ExitPreserves
<1>2. CASE ReadAndValidateEnv
  <2>1. UNCHANGED spyVars /\ UNCHANGED workerVars
    BY <1>2 DEF ReadAndValidateEnv
  <2>2. SpyInv' /\ WorkersInv'
    BY <2>1, ListenersKept, StatusPreserves
       DEF workerVars, EngineInv, WorkersInv, WorkersTypes
  <2>3. EnvInv'
    BY <1>2 DEF ReadAndValidateEnv, startVars, workerVars, EngineInv, EnvInv
  <2> QED BY <2>2, <2>3 DEF EngineInv
<1>3. CASE SetUp /\ ~Exit
  <2>1. UNCHANGED spyVars /\ UNCHANGED workerVars
    BY <1>3 DEF SetUp
  <2>2. SpyInv' /\ WorkersInv'
    BY <2>1, ListenersKept, StatusPreserves
       DEF workerVars, EngineInv, WorkersInv, WorkersTypes
  <2>3. EnvInv'
    BY <1>3 DEF SetUp, startVars, workerVars, EngineInv, EnvInv
  <2> QED BY <2>2, <2>3 DEF EngineInv
<1>4. CASE RunHarnesses
  <2>1. /\ UNCHANGED <<cache, consuming, known, unwritten, passed, settled, evicted, injected>>
        /\ UNCHANGED workerVars
    BY <1>4 DEF RunHarnesses, StartSpyListeners
  <2>2. SpyInv'
    BY <2>1, ConnectionPreserves DEF EngineInv
  <2>3. WorkersInv'
    BY <2>1, StatusPreserves DEF workerVars, EngineInv, WorkersInv, WorkersTypes
  <2>4. EnvInv'
    BY <1>4 DEF RunHarnesses, startVars, workerVars, EngineInv, EnvInv
  <2> QED BY <2>2, <2>3, <2>4 DEF EngineInv
<1> QED BY <1>1, <1>2, <1>3, <1>4

\* The startup check and spawnWalletWorkers.
LEMMA RunExecutorPreserves ==
  ASSUME EngineInv, RunExecutor PROVE EngineInv'
<1>1. CASE Exit
  BY <1>1, ExitPreserves
<1>2. CASE ~Exit
  <2>1. /\ phase = "checking" /\ phase' = "running"
        /\ AllWorkersSpawn(env.privateKeys)
        /\ SpawnWalletWorkers(Self, env.privateKeys)
        /\ UNCHANGED <<startVars, env, spyVars>>
    BY <1>2 DEF RunExecutor
  <2>2. DOMAIN env.privateKeys \subseteq Chain
    BY <2>1, KeysOfChains DEF EngineInv
  <2>3. Self \in Process
    BY EngineAssumption
  <2>4. WorkersInv'
    BY <2>1, <2>2, <2>3, SpawnWalletWorkersPreserves DEF EngineInv
  <2>5. SpyInv'
    BY <2>1, ListenersKept
  <2>6. workers'[Self] = env.privateKeys
    BY <2>1, <2>3 DEF SpawnWalletWorkers, EngineInv, WorkersInv, WorkersTypes
  <2>7. EnvInv'
    BY <2>1, <2>6 DEF startVars, EngineInv, EnvInv
  <2> QED BY <2>4, <2>5, <2>7 DEF EngineInv
<1> QED BY <1>1, <1>2

\* One step of the process.
LEMMA NextPreserves ==
  ASSUME EngineInv, [Next]_vars PROVE EngineInv'
<1>1. CASE ReadAndValidateEnv \/ SetUp \/ RunHarnesses
  BY <1>1, StartPreserves
<1>2. CASE RunExecutor
  BY <1>2, RunExecutorPreserves
<1>3. CASE Crash
  BY <1>3, ExitPreserves DEF Crash
<1>4. ASSUME NEW pl \in Plugin, ListenerStep(pl)
      PROVE  EngineInv'
  BY <1>4, ListenerStepPreserves
<1>5. ASSUME NEW pl \in Plugin, SubscribeThrows(pl)
      PROVE  EngineInv'
  BY <1>5, ExitPreserves DEF SubscribeThrows
<1>6. ASSUME NEW pl \in Plugin, NEW e \in Event, EventBecomesWorkflow(pl, e)
      PROVE  EngineInv'
  BY <1>6, EventBecomesWorkflowPreserves
<1>7. CASE ExecutorStep
  BY <1>7, ExecutorStepPreserves
<1>8. CASE UNCHANGED vars
  <2>1. ListenerFrame /\ UNCHANGED spyVars
    BY <1>8 DEF vars, ListenerFrame, startVars
  <2> QED BY <2>1, ListenerFramePreserves, ListenersKept DEF EngineInv
<1> QED BY <1>1, <1>2, <1>3, <1>4, <1>5, <1>6, <1>7, <1>8 DEF Next

-----------------------------------------------------------------------------
(* The theorems.                                                           *)

\* EngineInv holds in every state of every process.
THEOREM EngineInvariant == Spec => []EngineInv
BY InitEstablishes, NextPreserves, PTL DEF Spec

\* No VAA gets lost between the stream and the storage (runPluginSpyListener and
\* consumeEventHarness), whatever the end of the process interrupts.
THEOREM NoQuorumLost == Spec => []QuorumIsConsumed
<1>1. EngineInv => QuorumIsConsumed
  BY DEF EngineInv, SpyInv
<1> QED BY <1>1, EngineInvariant, PTL

\* While the cache keeps its hash, an event of the spy is consumed once (vaaHashCache).
THEOREM SpyConsumesOnce == Spec => []ConsumedOnce
<1>1. EngineInv => ConsumedOnce
  BY DEF EngineInv, SpyInv
<1> QED BY <1>1, EngineInvariant, PTL

\* An action a handler awaits is in one queue or with one worker, once
\* (makeExecuteFunc and spawnWalletWorker), in any number of chains and workers.
THEOREM ActionsInOnePlace == Spec => []ActionsAccounted
<1>1. EngineInv => ActionsAccounted
  BY InvAccounts DEF EngineInv
<1> QED BY <1>1, EngineInvariant, PTL

\* Two actions of one process never use one wallet at a time (spawnWalletWorkers).
THEOREM WalletsExclusive == Spec => []ExclusiveInProcess
<1>1. EngineInv => ExclusiveInProcess
  BY InvExcludes DEF EngineInv
<1> QED BY <1>1, EngineInvariant, PTL

\* An executor signs with the keys of its environment variables and files, one
\* worker for each (loadConfig.ts, validateConfig.ts, spawnWalletWorkers).
THEOREM ConfiguredKeysSign == Spec => []SignsWithConfiguredKeys
<1>1. EngineInv => SignsWithConfiguredKeys
  <2> SUFFICES ASSUME EngineInv, spawned # {}, NEW c \in DOMAIN disk.chains
               PROVE  /\ c \in DOMAIN workers[Self]
                      /\ workers[Self][c] = IF c \in DOMAIN disk.env
                                            THEN disk.env[c] ELSE disk.keys[c]
                      /\ \A i \in DOMAIN workers[Self][c] :
                           CreatesWalletToolbox(c, workers[Self][c][i])
    BY DEF SignsWithConfiguredKeys
  <2>1. /\ env = ValidatedEnv(disk, mode) /\ ValidEnvs(disk, mode) /\ Executes(mode)
        /\ workers[Self] = env.privateKeys /\ AllWorkersSpawn(env.privateKeys)
    BY DEF EngineInv, EnvInv
  <2>2. workers[Self] = AssignedKeys(disk) /\ c \in DOMAIN AssignedKeys(disk)
    BY <2>1 DEF ValidatedEnv, ValidEnvs, ValidPrivateKeys
  <2>3. workers[Self][c] = IF c \in DOMAIN disk.env THEN disk.env[c] ELSE disk.keys[c]
    BY <2>2, KeysAssigned
  <2>4. \A i \in DOMAIN workers[Self][c] : CreatesWalletToolbox(c, workers[Self][c][i])
    BY <2>1, <2>2 DEF AllWorkersSpawn
  <2> QED BY <2>2, <2>3, <2>4
<1> QED BY <1>1, EngineInvariant, PTL

-----------------------------------------------------------------------------
(* The types.                                                              *)

ListenerTypes ==
  /\ loop \in [Plugin -> Loc]
  /\ known \subseteq PluginEvent /\ unwritten \subseteq PluginEvent
  /\ copies \in 0..MaxCopies
  /\ losses \in 0..MaxLosses
  /\ passed \subseteq PluginEvent /\ settled \subseteq PluginEvent
  /\ evicted \subseteq PluginEvent /\ injected \subseteq PluginEvent

HandlerTypes ==
  /\ step \in [Workflow -> 1..(Len(Plan) + 1)]
  /\ requeues \in [Process -> [Workflow -> 0..(MaxRequeues + 1)]]
  /\ hung \subseteq Workflow
  /\ \A w \in Workflow : at[w] # Nowhere <=> status[w] = "executing"

StartTypes ==
  /\ pluginDisk \in PluginDisk /\ mode \in Modes
  /\ phase \in {"down", "validated", "setup", "checking", "running"}
  /\ starts \in 0..MaxStarts
  /\ spawned # {} <=> phase = "running" /\ Executes(mode)
  /\ spawned = {} => workers[Self] = <<>>
  /\ workers = [p \in Process |-> workers[p]]

\* The storage knows the workflows that have a status.
StorageTypes == known = {w \in Workflow : status[w] # "unknown"}

TypesInv == EngineInv /\ ListenerTypes /\ HandlerTypes /\ StartTypes /\ StorageTypes

\* What spyEventSource.ts keeps stays in its types.
LEMMA ListenerStepTypes ==
  ASSUME TypesInv, NEW pl \in Plugin, ListenerStep(pl)
  PROVE  ListenerTypes' /\ known' = known
<1>1. ListenerTypes /\ cache \in [Plugin -> Seq(Event)] /\ CacheSize \in Nat \ {0}
      /\ MaxCopies \in Nat /\ MaxLosses \in Nat
  BY SpyAssumption DEF TypesInv, EngineInv, SpyInv
<1>2. CASE Subscribe(pl) \/ StreamLost(pl) \/ Reconnect(pl)
  BY <1>1, <1>2 DEF ListenerTypes, Subscribe, StreamLost, Reconnect, Loc
<1>3. ASSUME NEW e \in Event, NEW signatures, Data(pl, e, signatures)
      PROVE  ListenerTypes' /\ known' = known
  <2>1. <<pl, e>> \in PluginEvent
    BY DEF PluginEvent
  <2>2. passed' \subseteq PluginEvent /\ copies' \in 0..MaxCopies
    <3>1. passed' = passed \/ passed' = passed \cup {<<pl, e>>}
      BY <1>3 DEF Data, Counted
    <3>2. copies < MaxCopies /\ copies' = copies + 1 /\ copies \in 0..MaxCopies
      BY <1>1, <1>3 DEF Data, Counted, ListenerTypes
    <3>3. passed \subseteq PluginEvent
      BY <1>1 DEF ListenerTypes
    <3>4. copies' \in 0..MaxCopies
      BY <1>1, <3>2
    <3> QED BY <2>1, <3>1, <3>3, <3>4
  <2>3. evicted' \subseteq PluginEvent
    <3>1. Evicts(pl) => Head(cache[pl]) \in Event
      BY <1>1 DEF Evicts
    <3>2. evicted' = evicted \/ (Evicts(pl) /\ evicted' = evicted \cup {<<pl, Head(cache[pl])>>})
      BY <1>3 DEF Data, TooFewSignatures, Duplicate, Accept
    <3> QED BY <1>1, <3>1, <3>2 DEF ListenerTypes, PluginEvent
  <2> QED BY <1>1, <1>3, <2>2, <2>3 DEF Data, ListenerTypes
<1>4. ASSUME NEW e \in Event, EventSource(pl, e) \/ ConsumedWithout(pl, e) \/ AddFails(pl, e)
      PROVE  ListenerTypes' /\ known' = known
  BY <1>1, <1>4 DEF EventSource, ConsumedWithout, AddFails, ListenerTypes, PluginEvent
<1> QED BY <1>2, <1>3, <1>4 DEF ListenerStep

\* A handler that rejects is requeued a bounded number of times (requeueWorkflow).
LEMMA HandlerRejectsTypes ==
  ASSUME HandlerTypes, WorkersTypes, NEW w \in Workflow, NEW p \in Process,
         HandlerRejects(w, p), UNCHANGED hung
  PROVE  /\ HandlerTypes'
         /\ \A v \in Workflow : status'[v] = IF v = w THEN status'[w] ELSE status[v]
         /\ status'[w] # "unknown"
<1>1. Len(Plan) \in Nat /\ MaxRequeues \in Nat
  BY WorkersAssumption
<1>2. /\ at' = [at EXCEPT ![w] = Nowhere] /\ step' = [step EXCEPT ![w] = 1]
      /\ status' = [status EXCEPT ![w] = "queued"] \/ status' = [status EXCEPT ![w] = "dropped"]
  BY DEF HandlerRejects
<1>3. requeues' \in [Process -> [Workflow -> 0..(MaxRequeues + 1)]]
  <2>1. requeues[p][w] \in 0..(MaxRequeues + 1) /\ requeues[p] \in [Workflow -> 0..(MaxRequeues + 1)]
    BY DEF HandlerTypes
  <2>2. CASE requeues' = requeues
    BY <2>2 DEF HandlerTypes
  <2>3. CASE requeues[p][w] <= MaxRequeues /\ requeues' = [requeues EXCEPT ![p][w] = @ + 1]
    <3>1. requeues[p][w] + 1 \in 0..(MaxRequeues + 1)
      BY <1>1, <2>1, <2>3
    <3> QED BY <2>3, <3>1 DEF HandlerTypes
  <2> QED BY <2>2, <2>3 DEF HandlerRejects
<1>4. step' \in [Workflow -> 1..(Len(Plan) + 1)]
  BY <1>1, <1>2 DEF HandlerTypes
<1>5. \A v \in Workflow : at'[v] # Nowhere <=> status'[v] = "executing"
  BY <1>2 DEF HandlerTypes, WorkersTypes
<1>6. /\ \A v \in Workflow : status'[v] = IF v = w THEN status'[w] ELSE status[v]
      /\ status'[w] # "unknown"
  BY <1>2 DEF WorkersTypes
<1> QED BY <1>3, <1>4, <1>5, <1>6 DEF HandlerTypes

\* Handing over an action (makeExecuteFunc).
LEMMA ExecuteTypes ==
  ASSUME HandlerTypes, WorkersTypes, NEW w \in Workflow, NEW p \in Process,
         NEW n \in 1..Len(Plan), Execute(w, p, n), UNCHANGED hung
  PROVE  /\ HandlerTypes'
         /\ \A v \in Workflow : status'[v] = IF v = w THEN status'[w] ELSE status[v]
         /\ status'[w] # "unknown"
<1>1. CASE HandlerRejects(w, p)
  BY <1>1, HandlerRejectsTypes
<1>2. CASE ~HandlerRejects(w, p)
  <2>1. /\ at' = [at EXCEPT ![w] = p] /\ step' = [step EXCEPT ![w] = n]
        /\ status' = [status EXCEPT ![w] = "executing"] /\ UNCHANGED requeues
    BY <1>2 DEF Execute
  <2>2. p # Nowhere /\ n \in 1..(Len(Plan) + 1)
    BY WorkersAssumption
  <2> QED BY <2>1, <2>2 DEF HandlerTypes, WorkersTypes
<1> QED BY <1>1, <1>2

\* spawnWorkflow, the handlers and the workers keep their types, and settle only
\* workflows the storage knows.
LEMMA ExecutorStepTypes ==
  ASSUME TypesInv, ExecutorStep
  PROVE  HandlerTypes' /\ StorageTypes'
<1>1. /\ HandlerTypes /\ WorkersTypes /\ Self \in Process /\ UNCHANGED known
      /\ Plan \in Seq(Chain) /\ Plan # <<>>
  BY EngineAssumption, WorkersAssumption
     DEF TypesInv, EngineInv, WorkersInv, ExecutorStep, ExecutorFrame, spyVars
<1>2. ASSUME NEW w \in Workflow, HandlerTypes',
             \A v \in Workflow : status'[v] = IF v = w THEN status'[w] ELSE status[v],
             status'[w] # "unknown", status[w] # "unknown"
      PROVE  HandlerTypes' /\ StorageTypes'
  BY <1>1, <1>2 DEF TypesInv, StorageTypes
<1>3. CASE HandlerTypes' /\ UNCHANGED status
  BY <1>1, <1>3 DEF TypesInv, StorageTypes
<1>4. \A w \in Workflow : at[w] # Nowhere => status[w] # "unknown"
  BY <1>1 DEF HandlerTypes
<1>5. ASSUME NEW w \in Workflow, SpawnWorkflow(Self, w) PROVE HandlerTypes' /\ StorageTypes'
  <2>1. 1 \in 1..Len(Plan)
    BY <1>1
  <2>2. status[w] # "unknown" /\ Execute(w, Self, 1) /\ UNCHANGED hung
    BY <1>5 DEF SpawnWorkflow
  <2> QED BY <1>1, <1>2, <2>1, <2>2, ExecuteTypes
<1>6. ASSUME NEW w \in Workflow, HandlerThrows(w) PROVE HandlerTypes' /\ StorageTypes'
  <2>1. at[w] \in Process /\ HandlerRejects(w, at[w]) /\ UNCHANGED hung /\ status[w] # "unknown"
    BY <1>1, <1>4, <1>6 DEF HandlerThrows, WorkersTypes
  <2> QED BY <1>1, <1>2, <2>1, HandlerRejectsTypes
<1>7. ASSUME NEW w \in Workflow, HandlerResolves(w) PROVE HandlerTypes' /\ StorageTypes'
  <2>1. /\ at' = [at EXCEPT ![w] = Nowhere] /\ step' = [step EXCEPT ![w] = 1]
        /\ status' = [status EXCEPT ![w] = "complete"] /\ UNCHANGED <<requeues, hung>>
        /\ status[w] # "unknown"
    BY <1>4, <1>7 DEF HandlerResolves
  <2>2. HandlerTypes'
    BY <1>1, <2>1 DEF HandlerTypes, WorkersTypes
  <2> QED BY <1>1, <1>2, <2>1, <2>2 DEF WorkersTypes
<1>8. ASSUME NEW c, NEW i, WorkerTakes(Self, c, i) PROVE HandlerTypes' /\ StorageTypes'
  BY <1>1, <1>3, <1>8 DEF WorkerTakes, HandlerTypes
<1>9. ASSUME NEW c, NEW i, NEW w \in Workflow, <<Self, c, i, w>> \in running
      PROVE  Acting(w) /\ status[w] # "unknown" /\ step[w] \in 1..Len(Plan)
  <2>1. <<Self, c, i, w>> \in RunBy(w)
    BY <1>9 DEF RunBy
  <2>2. Acting(w)
    BY <2>1 DEF TypesInv, EngineInv, WorkersInv, Accounted
  <2> QED BY <1>1, <1>4, <2>2 DEF Acting
<1>10. ASSUME NEW c, NEW i, NEW w \in Workflow, ActionResolves(Self, c, i, w)
       PROVE  HandlerTypes' /\ StorageTypes'
  <2>1. status[w] # "unknown" /\ step[w] \in 1..Len(Plan) /\ UNCHANGED hung
    BY <1>9, <1>10 DEF ActionResolves
  <2>2. CASE step[w] < Len(Plan) /\ Execute(w, Self, step[w] + 1)
    <3>1. step[w] + 1 \in 1..Len(Plan)
      BY <1>1, <2>1, <2>2
    <3> QED BY <1>1, <1>2, <2>1, <2>2, <3>1, ExecuteTypes
  <2>3. CASE /\ step[w] = Len(Plan) /\ step' = [step EXCEPT ![w] = @ + 1]
             /\ UNCHANGED <<actionQueue, at, status, requeues>>
    <3>1. step[w] + 1 \in 1..(Len(Plan) + 1)
      BY <1>1, <2>1
    <3>2. HandlerTypes'
      BY <1>1, <2>1, <2>3, <3>1 DEF HandlerTypes
    <3> QED BY <1>3, <2>3, <3>2
  <2> QED BY <1>10, <2>2, <2>3 DEF ActionResolves
<1>11. ASSUME NEW c, NEW i, NEW w \in Workflow, ActionRejects(Self, c, i, w)
       PROVE  HandlerTypes' /\ StorageTypes'
  <2>1. status[w] # "unknown" /\ HandlerRejects(w, Self) /\ UNCHANGED hung
    BY <1>9, <1>11 DEF ActionRejects
  <2> QED BY <1>1, <1>2, <2>1, HandlerRejectsTypes
<1>12. ASSUME NEW c, NEW i, NEW w \in Workflow, ActionHangs(Self, c, i, w)
       PROVE  HandlerTypes' /\ StorageTypes'
  BY <1>1, <1>3, <1>12 DEF ActionHangs, HandlerTypes
<1> QED
  BY <1>5, <1>6, <1>7, <1>8, <1>10, <1>11, <1>12 DEF ExecutorStep, ExecutorSteps, HandlerSteps

\* The end of the process leaves nothing of what it kept in memory, and in Redis
\* nothing that executes.
LEMMA ExitTypes ==
  ASSUME TypesInv, Exit PROVE TypesInv'
<1>1. EngineInv'
  BY ExitPreserves DEF TypesInv
<1>2. /\ ListenerTypes /\ HandlerTypes /\ StartTypes /\ StorageTypes /\ WorkersTypes
      /\ Self \in Process /\ Process = {Self} /\ Len(Plan) \in Nat /\ MaxRequeues \in Nat
  BY EngineAssumption, WorkersAssumption DEF TypesInv, EngineInv, WorkersInv
<1>3. ListenerTypes'
  BY <1>2 DEF Exit, ForgetListeners, ListenerTypes, Loc
<1>4. /\ spawned' = {} /\ workers'[Self] = <<>>
      /\ step' = [w \in Workflow |-> IF at[w] = Self THEN 1 ELSE step[w]]
      /\ requeues' = [requeues EXCEPT ![Self] = NoRequeues]
      /\ hung' \subseteq hung
      /\ at' = [w \in Workflow |-> IF at[w] = Self THEN Nowhere ELSE at[w]]
  BY <1>2 DEF Exit, ForgetWorkers, WorkersTypes
<1>5. \A w \in Workflow : at[w] # Nowhere => at[w] = Self
  BY <1>2 DEF WorkersTypes
<1>6. \A w \in Workflow : at'[w] = Nowhere
  BY <1>4, <1>5
<1>7. /\ \A w \in Workflow : status'[w] # "executing"
      /\ StorageTypes'
  <2>1. CASE known' = {} /\ status' = [w \in Workflow |-> "unknown"]
    BY <2>1 DEF StorageTypes
  <2>2. CASE /\ status' = [w \in Workflow |-> IF at[w] = Self THEN "orphaned" ELSE status[w]]
             /\ known' = known
    <3>1. \A w \in Workflow : status[w] = "executing" => at[w] = Self
      BY <1>2, <1>5 DEF HandlerTypes
    <3>2. \A w \in Workflow : at[w] = Self => status[w] = "executing"
      BY <1>2, WorkersAssumption DEF HandlerTypes
    <3>3. \A w \in Workflow : /\ status'[w] # "executing"
                              /\ status'[w] = "unknown" <=> status[w] = "unknown"
      BY <2>2, <3>1, <3>2
    <3> QED BY <1>2, <2>2, <3>3 DEF StorageTypes
  <2> QED BY <2>1, <2>2 DEF Exit
<1>8. requeues' \in [Process -> [Workflow -> 0..(MaxRequeues + 1)]]
  <2>1. NoRequeues \in [Workflow -> 0..(MaxRequeues + 1)]
    BY <1>2 DEF NoRequeues
  <2> QED BY <1>2, <1>4, <2>1 DEF HandlerTypes
<1>9. HandlerTypes'
  BY <1>2, <1>4, <1>6, <1>7, <1>8 DEF HandlerTypes
<1>10. workers' = [p \in Process |-> workers'[p]]
  BY <1>2 DEF Exit, ForgetWorkers, WorkersTypes
<1>11. StartTypes'
  BY <1>2, <1>4, <1>10 DEF Exit, StartTypes, startVars
<1> QED BY <1>1, <1>3, <1>7, <1>9, <1>11 DEF TypesInv

\* One step of the process.
LEMMA TypesNext ==
  ASSUME TypesInv, [Next]_vars PROVE TypesInv'
<1>1. EngineInv'
  BY NextPreserves DEF TypesInv
<1>2. ListenerTypes /\ HandlerTypes /\ StartTypes /\ StorageTypes /\ WorkersTypes /\ EnvInv
  BY DEF TypesInv, EngineInv, WorkersInv
<1>3. CASE Exit
  BY <1>3, ExitTypes
<1>4. ASSUME UNCHANGED <<known, unwritten, copies, losses, passed, settled, evicted, injected>>,
             loop' \in [Plugin -> Loc]
      PROVE  ListenerTypes'
  BY <1>2, <1>4 DEF ListenerTypes
<1>5. ASSUME UNCHANGED <<step, requeues, hung, at, status>> PROVE HandlerTypes'
  BY <1>2, <1>5 DEF HandlerTypes
<1>6. ASSUME UNCHANGED <<known, status>> PROVE StorageTypes'
  BY <1>2, <1>6 DEF StorageTypes
<1>7. loop \in [Plugin -> Loc]
  BY <1>2 DEF ListenerTypes
<1>8. CASE ReadAndValidateEnv \/ (SetUp /\ ~Exit)
  <2>1. /\ UNCHANGED <<pluginDisk, mode, spyVars, workerVars>>
        /\ phase \in {"down", "validated"} /\ phase' \in {"validated", "setup"}
    BY <1>8 DEF ReadAndValidateEnv, SetUp, startVars
  <2>2. starts' \in 0..MaxStarts
    <3>1. MaxStarts \in Nat /\ starts \in 0..MaxStarts
      BY <1>2, EngineAssumption DEF StartTypes
    <3>2. starts' = starts \/ (starts < MaxStarts /\ starts' = starts + 1)
      BY <1>8 DEF ReadAndValidateEnv, SetUp
    <3> QED BY <3>1, <3>2
  <2>3. StartTypes'
    BY <1>2, <2>1, <2>2 DEF StartTypes, workerVars
  <2> QED BY <1>1, <1>4, <1>5, <1>6, <1>7, <2>1, <2>3 DEF TypesInv, spyVars, workerVars
<1>9. CASE RunHarnesses
  <2>1. /\ UNCHANGED <<pluginDisk, mode, starts, workerVars>>
        /\ UNCHANGED <<known, unwritten, copies, losses, passed, settled, evicted, injected>>
        /\ loop' \in [Plugin -> Loc]
        /\ phase = "setup" /\ phase' = IF Executes(mode) THEN "checking" ELSE "running"
    BY <1>9 DEF RunHarnesses, StartSpyListeners, startVars, Loc
  <2>2. StartTypes'
    BY <1>2, <2>1 DEF StartTypes, workerVars
  <2> QED BY <1>1, <1>4, <1>5, <1>6, <2>1, <2>2 DEF TypesInv, workerVars
<1>10. CASE RunExecutor /\ ~Exit
  <2>1. /\ UNCHANGED <<pluginDisk, mode, starts, spyVars, step, requeues, hung, at, status>>
        /\ phase = "checking" /\ phase' = "running"
        /\ spawned' = spawned \cup {Self}
    BY <1>10 DEF RunExecutor, SpawnWalletWorkers, startVars
  <2>2. Executes(mode)
    BY <1>2, <2>1 DEF EnvInv
  <2>3. workers' = [p \in Process |-> workers'[p]]
    BY <1>2, <1>10 DEF RunExecutor, SpawnWalletWorkers, WorkersTypes
  <2>4. StartTypes'
    BY <1>2, <2>1, <2>2, <2>3 DEF StartTypes
  <2> QED BY <1>1, <1>4, <1>5, <1>6, <1>7, <2>1, <2>4 DEF TypesInv, spyVars
<1>11. ASSUME NEW pl \in Plugin, ListenerStep(pl) PROVE TypesInv'
  <2>1. ListenerTypes' /\ known' = known
    BY <1>11, ListenerStepTypes
  <2>2. UNCHANGED <<pluginDisk, mode, phase, starts, workerVars>>
    BY <1>11 DEF ListenerStep, ListenerFrame, startVars
  <2>3. StartTypes'
    BY <1>2, <2>2 DEF StartTypes, workerVars
  <2> QED BY <1>1, <1>5, <1>6, <2>1, <2>2, <2>3 DEF TypesInv, workerVars
<1>12. ASSUME NEW pl \in Plugin, NEW e \in Event, EventBecomesWorkflow(pl, e) PROVE TypesInv'
  <2>1. /\ known' = known \cup {<<pl, e>>}
        /\ status' = [status EXCEPT ![<<pl, e>>] = IF @ = "unknown" THEN "queued" ELSE @]
        /\ UNCHANGED <<loop, copies, losses, passed, settled, evicted, injected>>
        /\ unwritten' \subseteq unwritten
        /\ UNCHANGED <<pluginDisk, mode, phase, starts, workers, spawned, at, step, requeues, hung>>
    BY <1>12 DEF EventBecomesWorkflow, ConsumedWithWorkflow, AddWritten, startVars
  <2>2. <<pl, e>> \in PluginEvent /\ Workflow = PluginEvent
    BY EngineAssumption DEF PluginEvent
  <2>3. \A w \in Workflow : status'[w] = IF w = <<pl, e>> /\ status[w] = "unknown"
                                         THEN "queued" ELSE status[w]
    BY <1>2, <2>1, <2>2 DEF WorkersTypes
  <2>4. ListenerTypes'
    BY <1>2, <2>1, <2>2 DEF ListenerTypes
  <2>5. HandlerTypes'
    <3>1. \A w \in Workflow : status'[w] = "executing" <=> status[w] = "executing"
      BY <2>3
    <3> QED BY <1>2, <2>1, <3>1 DEF HandlerTypes
  <2>6. StorageTypes'
    BY <1>2, <2>1, <2>2, <2>3 DEF StorageTypes
  <2>7. StartTypes'
    BY <1>2, <2>1 DEF StartTypes
  <2> QED BY <1>1, <2>4, <2>5, <2>6, <2>7 DEF TypesInv
<1>13. CASE ExecutorStep
  <2>1. HandlerTypes' /\ StorageTypes'
    BY <1>13, ExecutorStepTypes
  <2>2. UNCHANGED <<pluginDisk, mode, phase, starts, spyVars, workers, spawned>>
    BY <1>13 DEF ExecutorStep, ExecutorFrame, startVars, ExecutorSteps, HandlerSteps, SpawnWorkflow,
                 HandlerResolves, HandlerThrows, WorkerTakes, ActionResolves, ActionRejects, ActionHangs
  <2>3. StartTypes'
    BY <1>2, <2>2 DEF StartTypes
  <2> QED BY <1>1, <1>4, <1>7, <2>1, <2>2, <2>3 DEF TypesInv, spyVars
<1>14. CASE UNCHANGED vars
  <2>1. UNCHANGED <<pluginDisk, mode, phase, starts, spyVars, workerVars>>
    BY <1>14 DEF vars, startVars
  <2>2. StartTypes'
    BY <1>2, <2>1 DEF StartTypes, workerVars
  <2> QED BY <1>1, <1>4, <1>5, <1>6, <1>7, <2>1, <2>2 DEF TypesInv, spyVars, workerVars
<1> QED
  BY <1>3, <1>8, <1>9, <1>10, <1>11, <1>12, <1>13, <1>14
     DEF Next, SubscribeThrows, Crash

\* The keys of the workers are wallets, as those of a chain are lists of them
\* (createWalletToolbox refuses any other).
LEMMA WorkersTyped ==
  ASSUME TypesInv PROVE IsWallets(workers[Self])
<1>1. CASE spawned = {}
  <2>1. workers[Self] = <<>>
    BY <1>1 DEF TypesInv, StartTypes
  <2>2. <<>> \in [{} -> Seq(Wallet)]
    OBVIOUS
  <2> QED BY <2>1, <2>2 DEF IsWallets
<1>2. CASE spawned # {}
  <2>1. /\ IsRawConfig(disk) /\ ValidEnvs(disk, mode) /\ Executes(mode)
        /\ workers[Self] = AssignedKeys(disk) /\ AllWorkersSpawn(AssignedKeys(disk))
    BY <1>2, EngineAssumption DEF TypesInv, EngineInv, EnvInv, ValidatedEnv
  <2>2. DOMAIN AssignedKeys(disk) \subseteq Chain
    <3>1. DOMAIN AssignedKeys(disk) \subseteq DOMAIN disk.chains
      BY <2>1 DEF ValidEnvs, ValidPrivateKeys
    <3>2. DOMAIN disk.chains \subseteq Chain
      BY <2>1 DEF IsRawConfig
    <3> QED BY <3>1, <3>2
  <2>3. \A c \in DOMAIN AssignedKeys(disk) : AssignedKeys(disk)[c] \in Seq(KeyValue)
    <3>1. \A c \in DOMAIN disk.keys : disk.keys[c] \in Seq(KeyValue)
      BY <2>1 DEF IsRawConfig, AreKeyLists
    <3>2. \A c \in DOMAIN disk.env : disk.env[c] \in Seq(KeyValue)
      BY <2>1 DEF IsRawConfig, AreKeyLists
    <3> QED BY <3>1, <3>2, KeysAssigned
  <2>4. \A c \in DOMAIN AssignedKeys(disk) : AssignedKeys(disk)[c] \in Seq(Wallet)
    BY <2>1, <2>3 DEF AllWorkersSpawn, CreatesWalletToolbox
  <2>5. AssignedKeys(disk) = [c \in DOMAIN AssignedKeys(disk) |-> AssignedKeys(disk)[c]]
    BY DEF AssignedKeys, Assigned
  <2>6. AssignedKeys(disk) \in [DOMAIN AssignedKeys(disk) -> Seq(Wallet)]
    BY <2>4, <2>5
  <2> QED BY <2>1, <2>2, <2>6 DEF IsWallets
<1> QED BY <1>1, <1>2

\* Type correctness: of the environment, the listeners, the workers and what the
\* storage says, through any starts and ends of the process.
THEOREM EngineTyped == Spec => []EngineTypeOK
<1>1. Init => TypesInv
  <2> SUFFICES ASSUME Init PROVE TypesInv
    OBVIOUS
  <2>1. EngineInv
    BY InitEstablishes
  <2>2. ListenerTypes /\ StorageTypes
    <3>1. Workflow = PluginEvent /\ known \subseteq PluginEvent
      BY EngineAssumption DEF Init, QueuedBefore
    <3>2. StorageTypes
      BY <3>1 DEF Init, StorageTypes
    <3>3. ListenerTypes
      BY <3>1, SpyAssumption DEF Init, SpyInit, ListenerTypes, Loc
    <3> QED BY <3>2, <3>3
  <2>3. HandlerTypes
    <3>1. Len(Plan) \in Nat /\ MaxRequeues \in Nat
      BY WorkersAssumption
    <3> QED BY <3>1 DEF Init, WorkersInit, HandlerTypes, NoRequeues
  <2>4. StartTypes
    BY EngineAssumption DEF Init, WorkersInit, StartTypes
  <2> QED BY <2>1, <2>2, <2>3, <2>4 DEF TypesInv
<1>2. TypesInv => EngineTypeOK
  <2> SUFFICES ASSUME TypesInv PROVE EngineTypeOK
    OBVIOUS
  <2>1. SpyTypeOK
    BY DEF TypesInv, ListenerTypes, EngineInv, SpyInv, SpyTypeOK
  <2>2. WorkersTypes /\ Employed /\ Process = {Self}
    BY EngineAssumption DEF TypesInv, EngineInv, WorkersInv
  <2>3. running \subseteq Process \X Chain \X Slot \X Workflow
    <3> SUFFICES ASSUME NEW r \in running PROVE r \in Process \X Chain \X Slot \X Workflow
      OBVIOUS
    <3>1. IsRun(r) /\ r[2] \in DOMAIN workers[r[1]] /\ r[3] \in DOMAIN workers[r[1]][r[2]]
      BY <2>2 DEF WorkersTypes, Employed
    <3>2. workers[r[1]][r[2]] \in Seq(Wallet)
      BY <2>2, <3>1, WorkersTyped DEF IsWallets, IsRun
    <3>3. r[3] \in Slot
      BY <3>1, <3>2 DEF Slot
    <3> QED BY <3>1, <3>3 DEF IsRun
  <2>4. WorkersTypeOK
    <3>1. \A p \in Process : IsWallets(workers[p])
      BY <2>2, WorkersTyped
    <3>2. workers = [p \in Process |-> workers[p]]
      BY DEF TypesInv, StartTypes
    <3> QED BY <2>2, <2>3, <3>1, <3>2 DEF TypesInv, HandlerTypes, WorkersTypes, WorkersTypeOK
  <2> QED BY <2>1, <2>4 DEF TypesInv, EngineInv, EnvInv, StartTypes, StorageTypes, EngineTypeOK
<1> QED BY <1>1, <1>2, TypesNext, PTL DEF Spec

-----------------------------------------------------------------------------
(* The life of a workflow.                                                 *)

LifeOf(s) == IF s \in {"executing", "dropped", "orphaned"} THEN "active" ELSE s

\* What handlers and workers do to a workflow that is queued or executes is one of its
\* moves, or none: it is taken, requeued or completed.
LEMMA HandlerMoves ==
  ASSUME status \in [Workflow -> Status], NEW w \in Workflow,
         status[w] \in {"queued", "executing"},
         NEW s \in {"queued", "executing", "dropped", "complete"},
         s = "complete" => status[w] = "executing",
         status' = [status EXCEPT ![w] = s]
  PROVE  [Lifecycle!Next]_Life
<1>1. Life' = [Life EXCEPT ![w] = LifeOf(s)] /\ Life[w] = LifeOf(status[w])
  BY DEF Life, LifeOf
<1>2. CASE LifeOf(s) = LifeOf(status[w])
  BY <1>1, <1>2 DEF Life
<1>3. CASE status[w] = "queued" /\ s \in {"executing", "dropped"}
  <2>1. Lifecycle!Take(w)
    BY <1>1, <1>3 DEF Lifecycle!Take, Lifecycle!Move, LifeOf
  <2> QED BY <2>1 DEF Lifecycle!Next
<1>4. CASE status[w] = "executing" /\ s = "queued"
  <2>1. Lifecycle!Requeue(w)
    BY <1>1, <1>4 DEF Lifecycle!Requeue, Lifecycle!Move, LifeOf
  <2> QED BY <2>1 DEF Lifecycle!Next
<1>5. CASE status[w] = "executing" /\ s = "complete"
  <2>1. Lifecycle!Complete(w)
    BY <1>1, <1>5 DEF Lifecycle!Complete, Lifecycle!Move, LifeOf
  <2> QED BY <2>1 DEF Lifecycle!Next
<1> QED BY <1>2, <1>3, <1>4, <1>5 DEF LifeOf

\* The steps of executorHarness.ts touch no workflow but one that they take from the queue
\* or whose handler awaits the action that settles; so a late answer finds its workflow
\* executing.
LEMMA ExecutorMoves ==
  ASSUME EngineInv, ExecutorStep
  PROVE  [Lifecycle!Next]_Life
<1>1. /\ status \in [Workflow -> Status] /\ Self \in Process /\ Self # Nowhere
      /\ \A w \in Workflow : at[w] # Nowhere => status[w] = "executing"
  BY EngineAssumption, WorkersAssumption DEF EngineInv, WorkersInv, WorkersTypes, HandlersExecute
<1>2. ASSUME NEW w \in Workflow, NEW p \in Process, HandlerRejects(w, p),
             status[w] \in {"queued", "executing"}
      PROVE  [Lifecycle!Next]_Life
  <2>1. \E s \in {"queued", "dropped"} : status' = [status EXCEPT ![w] = s]
    BY <1>2 DEF HandlerRejects
  <2> QED BY <1>1, <1>2, <2>1, HandlerMoves
<1>3. ASSUME NEW w \in Workflow, NEW p \in Process, NEW n, Execute(w, p, n),
             status[w] \in {"queued", "executing"}
      PROVE  [Lifecycle!Next]_Life
  <2>1. CASE status' = [status EXCEPT ![w] = "executing"]
    BY <1>1, <1>3, <2>1, HandlerMoves
  <2> QED BY <1>2, <1>3, <2>1 DEF Execute
<1>4. ASSUME UNCHANGED status PROVE [Lifecycle!Next]_Life
  BY <1>4 DEF Life
<1>5. ASSUME NEW c, NEW i, NEW w, <<Self, c, i, w>> \in running
      PROVE  w \in Workflow /\ status[w] = "executing"
  <2> DEFINE r == <<Self, c, i, w>>
  <2>1. IsRun(r) /\ r \in RunBy(w) /\ w \in Workflow
    BY <1>5 DEF EngineInv, WorkersInv, WorkersTypes, IsRun, RunBy
  <2>2. Acting(w)
    BY <2>1 DEF EngineInv, WorkersInv, Accounted
  <2> QED BY <1>1, <2>1, <2>2 DEF Acting
<1>6. ASSUME NEW w \in Workflow, SpawnWorkflow(Self, w) PROVE [Lifecycle!Next]_Life
  BY <1>1, <1>3, <1>6 DEF SpawnWorkflow
<1>7. ASSUME NEW c, NEW i, NEW w \in Workflow, ActionResolves(Self, c, i, w)
      PROVE  [Lifecycle!Next]_Life
  <2>1. status[w] = "executing"
    BY <1>5, <1>7 DEF ActionResolves
  <2> QED BY <1>1, <1>3, <1>4, <1>7, <2>1 DEF ActionResolves
<1>8. ASSUME NEW c, NEW i, NEW w \in Workflow, ActionRejects(Self, c, i, w)
      PROVE  [Lifecycle!Next]_Life
  <2>1. status[w] = "executing"
    BY <1>5, <1>8 DEF ActionRejects
  <2> QED BY <1>1, <1>2, <1>8, <2>1 DEF ActionRejects
<1>9. ASSUME NEW w \in Workflow, HandlerResolves(w) PROVE [Lifecycle!Next]_Life
  BY <1>1, <1>9, HandlerMoves DEF HandlerResolves
<1>10. ASSUME NEW w \in Workflow, HandlerThrows(w) PROVE [Lifecycle!Next]_Life
  <2>1. at[w] \in Process /\ status[w] = "executing"
    BY <1>1, <1>10 DEF HandlerThrows, EngineInv, WorkersInv, WorkersTypes
  <2> QED BY <1>2, <1>10, <2>1 DEF HandlerThrows
<1> QED
  BY <1>4, <1>6, <1>7, <1>8, <1>9, <1>10
     DEF ExecutorStep, ExecutorSteps, HandlerSteps, WorkerTakes, ActionHangs

\* What the end of the process leaves in Redis is as active as it was.
LEMMA ExitMoves ==
  ASSUME EngineInv, Exit, disk.storeType # "InMemory"
  PROVE  UNCHANGED Life
<1>1. status' = [w \in Workflow |-> IF at[w] = Self THEN "orphaned" ELSE status[w]]
  BY DEF Exit
<1>2. \A w \in Workflow : at[w] = Self => status[w] = "executing"
  BY EngineAssumption, WorkersAssumption DEF EngineInv, WorkersInv, HandlersExecute
<1> QED BY <1>1, <1>2 DEF Life

\* Through any starts, ends, late answers and requeues of a process, each of its steps is
\* one move of one workflow in the life cycle that WorkflowStorage implements, or none
\* (executorHarness.ts: a complete workflow is never executed again); only the in-memory
\* store forgets, and only when the process ends.
THEOREM LifecycleFollowed == Spec => FollowsLifecycle
<1> DEFINE Moves == Lifecycle!Next \/ (disk.storeType = "InMemory" /\ phase' = "down")
<1>1. ASSUME EngineInv, [Next]_vars PROVE [Moves]_Life
  <2>1. CASE Exit
    BY <1>1, <2>1, ExitMoves DEF Exit
  <2>2. ASSUME UNCHANGED status PROVE [Moves]_Life
    BY <2>2 DEF Life
  <2>3. CASE ReadAndValidateEnv \/ (SetUp /\ ~Exit) \/ RunHarnesses \/ (RunExecutor /\ ~Exit)
    BY <2>2, <2>3 DEF ReadAndValidateEnv, SetUp, RunHarnesses, RunExecutor, SpawnWalletWorkers,
                      workerVars
  <2>4. ASSUME NEW pl \in Plugin, ListenerStep(pl) PROVE [Moves]_Life
    BY <2>2, <2>4 DEF ListenerStep, ListenerFrame, workerVars
  <2>5. ASSUME NEW pl \in Plugin, NEW e \in Event, EventBecomesWorkflow(pl, e)
        PROVE  [Moves]_Life
    <3> DEFINE w == <<pl, e>>
    <3>1. w \in Workflow /\ status \in [Workflow -> Status]
      BY <1>1, EngineAssumption DEF PluginEvent, EngineInv, WorkersInv, WorkersTypes
    <3>2. status' = [status EXCEPT ![w] = IF @ = "unknown" THEN "queued" ELSE @]
      BY <2>5 DEF EventBecomesWorkflow
    <3> HIDE DEF w
    <3>3. CASE status[w] = "unknown"
      <4>1. Life[w] = "unknown" /\ Life' = [Life EXCEPT ![w] = "queued"]
        BY <3>1, <3>2, <3>3 DEF Life
      <4>2. Lifecycle!Add(w)
        BY <4>1 DEF Lifecycle!Add, Lifecycle!Move
      <4> QED BY <3>1, <4>2 DEF Lifecycle!Next
    <3>4. CASE status[w] # "unknown"
      <4>1. status' = status
        BY <3>1, <3>2, <3>4
      <4> QED BY <2>2, <4>1
    <3> QED BY <3>3, <3>4
  <2>6. CASE ExecutorStep
    BY <1>1, <2>6, ExecutorMoves
  <2>7. CASE UNCHANGED vars
    BY <2>2, <2>7 DEF vars, workerVars
  <2> QED
    BY <1>1, <2>1, <2>3, <2>4, <2>5, <2>6, <2>7 DEF Next, SubscribeThrows, Crash
<1>2. EngineInv /\ [Next]_vars
        => [Lifecycle!Next \/ (disk.storeType = "InMemory" /\ phase' = "down")]_Life
  BY <1>1
<1> QED BY <1>2, EngineInvariant, PTL DEF Spec, FollowsLifecycle
=============================================================================

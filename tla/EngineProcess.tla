----------------------------- MODULE EngineProcess -----------------------------
(***************************************************************************)
(* One relayer engine process, from its configuration to its end: main()   *)
(* and run() load and validate the configuration, make the plugins and the *)
(* storage, and start the listeners and the executor of the mode, which    *)
(* then work on one storage.                                               *)
(***************************************************************************)
EXTENDS SpyListener, WalletWorkers

CONSTANTS
  Kind,      \* of a chain: "evm", "solana", "terra" or one the engine does not know
  Disk,      \* configurations of the engine
  PluginDisk, \* configurations of the plugins: [valid, shouldSpy, filters]
  Self,      \* this process, the only one
  MaxStarts, \* bound of the model: starts of the process
  MaxBoth,   \* bound of the model: copies of VAAs that arrive at a process that also executes
  Arriving   \* bound of the model: VAAs that arrive at this process; others listen for the rest

INSTANCE EngineConfig

ASSUME EngineAssumption ==
  /\ Process = {Self}
  /\ Workflow = PluginEvent
  /\ \A raw \in Disk : IsRawConfig(raw)
  /\ PluginDisk \subseteq [valid : BOOLEAN, shouldSpy : SUBSET Plugin, filters : BOOLEAN]
  /\ MaxStarts \in Nat /\ MaxBoth \in Nat
  /\ Arriving \subseteq Event

VARIABLES
  disk,       \* the files of the engine's configuration and the environment variables
  pluginDisk, \* the plugins' configuration files
  mode,       \* RELAYER_ENGINE_MODE
  phase,      \* where run() is
  env,        \* commonEnv, executorEnv and listenerEnv
  starts      \* how often the process was started

startVars == <<disk, pluginDisk, mode>>
vars == <<disk, pluginDisk, mode, phase, env, starts, spyVars, workerVars>>

NoEnv == <<>>

\* A listening process has made its plugins and given them the event source.
ListenersOn == phase \in {"setup", "checking", "running"} /\ Listens(mode)

EngineTypeOK ==
  /\ SpyTypeOK
  /\ WorkersTypeOK
  /\ disk \in Disk /\ pluginDisk \in PluginDisk /\ mode \in Modes
  /\ phase \in {"down", "validated", "setup", "checking", "running"}
  /\ starts \in 0..MaxStarts
  /\ spawned # {} <=> phase = "running" /\ Executes(mode)
  /\ known = {w \in Workflow : status[w] # "unknown"}

\* What a process that only executes finds in Redis: other processes listen.
QueuedBefore == IF mode = "EXECUTOR" /\ disk.storeType = "Redis" THEN Workflow ELSE {}

Init ==
  /\ disk \in Disk /\ pluginDisk \in PluginDisk /\ mode \in Modes
  /\ phase = "down"
  /\ env = NoEnv
  /\ starts = 0
  /\ SpyInit
  /\ WorkersInit
  /\ known = QueuedBefore
  /\ status = [w \in Workflow |-> IF w \in known THEN "queued" ELSE "unknown"]

-----------------------------------------------------------------------------
(* The end: an exception leaves main(), nobody handles a rejection, or the *)
(* process is killed.  The in-memory store ends with it; Redis keeps the   *)
(* workflows, those it executed as orphans of the active list.             *)

Exit ==
  /\ phase' = "down"
  /\ env' = NoEnv
  /\ ForgetListeners
  /\ ForgetWorkers(Self)
  /\ IF disk.storeType = "InMemory"
     THEN known' = {} /\ status' = [w \in Workflow |-> "unknown"]
     ELSE /\ status' = [w \in Workflow |-> IF at[w] = Self THEN "orphaned" ELSE status[w]]
          /\ UNCHANGED known
  /\ UNCHANGED <<startVars, starts>>

Crash == phase # "down" /\ starts < MaxStarts /\ Exit

-----------------------------------------------------------------------------
(* The start.                                                              *)

\* The plugin definition's init validates the plugin's configuration.
ValidPluginConfig == pluginDisk.valid

\* main makes the plugin definition, and run calls readAndValidateEnv.  Otherwise the process ends where it began.
ReadAndValidateEnv ==
  /\ phase = "down"
  /\ starts < MaxStarts
  /\ starts' = starts + 1
  /\ ValidPluginConfig
  /\ Loads(disk, mode)
  /\ ValidEnvs(disk, mode)
  /\ env' = ValidatedEnv(disk, mode)
  /\ phase' = "validated"
  /\ UNCHANGED <<startVars, spyVars, workerVars>>

\* The plugins, createStorage, afterSetup.
SetUp ==
  /\ phase = "validated"
  /\ \/ /\ CanCreateStorage(env)
        /\ phase' = "setup"
        /\ UNCHANGED <<startVars, env, starts, spyVars, workerVars>>
     \/ ~CanCreateStorage(env) /\ Exit

\* The harnesses of the mode.  In mode BOTH the executor's startup check is under
\* way when the listeners start.
RunHarnesses ==
  /\ phase = "setup"
  /\ phase' = IF Executes(mode) THEN "checking" ELSE "running"
  /\ StartSpyListeners(IF Listens(mode) THEN pluginDisk.shouldSpy ELSE {})
  /\ UNCHANGED <<startVars, env, starts, workerVars>>

\* executorHarness.run after its startup check; a worker that cannot make its tool
\* box is a rejected promise nobody handles.
RunExecutor ==
  /\ phase = "checking"
  /\ \/ /\ AllWorkersSpawn(env.privateKeys)
        /\ SpawnWalletWorkers(Self, env.privateKeys)
        /\ phase' = "running"
        /\ UNCHANGED <<startVars, env, starts, spyVars>>
     \/ /\ ~NoneActive \/ ~AllWorkersSpawn(env.privateKeys)
        /\ Exit

-----------------------------------------------------------------------------
(* Listening and executing.                                                *)

\* Every chain of the plugin's filters is one encodeEmitterAddress knows, and every
\* address one it can encode.
FiltersTransform == pluginDisk.filters

\* Otherwise stream is undefined, and stream.destroy() throws where nothing catches it.
SubscribeThrows(pl) == loop[pl] = "subscribing" /\ ~FiltersTransform /\ Exit

\* What a step of a listener, or of the executor, leaves alone.
ListenerFrame == UNCHANGED <<startVars, phase, env, starts, workerVars>>
ExecutorFrame == UNCHANGED <<startVars, phase, env, starts, spyVars>>

MayArrive(e) == e \in Arriving /\ (Executes(mode) => copies < MaxBoth)

ListenerStep(pl) ==
  /\ \/ FiltersTransform /\ Subscribe(pl)
     \/ StreamLost(pl) \/ Reconnect(pl)
     \/ \E e \in Event :
          \/ MayArrive(e) /\ \E signatures \in 0..NumGuardians : Data(pl, e, signatures)
          \/ MayArrive(e) /\ ListenersOn /\ EventSource(pl, e)
          \/ ConsumedWithout(pl, e)
          \/ disk.storeType = "Redis" /\ AddFails(pl, e)
  /\ ListenerFrame

\* An operation that may write follows: an event's, or a handler's when it settles.
WriteFollows ==
  \/ \E pl \in Plugin, e \in Event : consuming[pl][e] > 0
  \/ \E w \in Workflow : at[w] = Self

\* addWorkflow, at once or from the backlog: a workflow that was unknown is queued.
EventBecomesWorkflow(pl, e) ==
  /\ ConsumedWithWorkflow(pl, e) \/ (WriteFollows /\ AddWritten(pl, e))
  /\ status' = [status EXCEPT ![<<pl, e>>] = IF @ = "unknown" THEN "queued" ELSE @]
  /\ UNCHANGED <<startVars, phase, env, starts, workers, spawned, actionQueue, running, at,
                 step, requeues, hung>>

ExecutorStep == (ExecutorSteps(Self) \/ HandlerSteps) /\ ExecutorFrame

Next ==
  \/ ReadAndValidateEnv \/ SetUp \/ RunHarnesses \/ RunExecutor \/ Crash
  \/ \E pl \in Plugin :
       \/ ListenerStep(pl)
       \/ SubscribeThrows(pl)
       \/ \E e \in Event : EventBecomesWorkflow(pl, e)
  \/ ExecutorStep

Spec == Init /\ [][Next]_vars

WorkersOf(c) == IF c \in DOMAIN workers[Self] THEN DOMAIN workers[Self][c] ELSE {}

\* The next step of w's handler, unless it waits for a worker.
HandlerProgress(w) ==
  \/ SpawnWorkflow(Self, w)
  \/ \E r \in RunBy(w) : ActionSettles(Self, r[2], r[3], w)
  \/ HandlerResolves(w) \/ HandlerThrows(w)

\* A started process runs its event loop: its start goes on, a loop reconnects, what
\* is being consumed settles, workers look at their queues every 500 ms, and an
\* action that does not hang settles, as handlers do.  VAAs and losses need not come.
Fairness ==
  /\ WF_vars(SetUp \/ RunHarnesses \/ RunExecutor)
  /\ \A pl \in Plugin :
       WF_vars(\/ ((FiltersTransform /\ Subscribe(pl)) \/ Reconnect(pl)) /\ ListenerFrame
               \/ SubscribeThrows(pl))
  /\ \A w \in Workflow : WF_vars(HandlerProgress(w) /\ ExecutorFrame)
  /\ \A c \in Chain :
       WF_vars((\E i \in WorkersOf(c) : WorkerTakes(Self, c, i)) /\ ExecutorFrame)

FairSpec == Spec /\ Fairness

-----------------------------------------------------------------------------
(* Properties.                                                             *)

\* An executor works for each supported chain with the keys of its environment
\* variable or, without one, of executor.json, one usable wallet for each, whatever
\* the form of executor.json and the steps between the files and the workers.
SignsWithConfiguredKeys ==
  spawned # {} => \A c \in DOMAIN disk.chains :
    /\ c \in DOMAIN workers[Self]
    /\ workers[Self][c] = IF c \in DOMAIN disk.env THEN disk.env[c] ELSE disk.keys[c]
    /\ \A i \in DOMAIN workers[Self][c] : CreatesWalletToolbox(c, workers[Self][c][i])

\* A workflow's life as the storage keeps it: dropped or orphaned, it is still active.
Life ==
  [w \in Workflow |-> IF status[w] \in {"executing", "dropped", "orphaned"}
                     THEN "active" ELSE status[w]]

Lifecycle == INSTANCE WorkflowLifecycle WITH status <- Life, ambiguous <- {}

\* Workers, handlers, requeues and ends of the process move one workflow at a time along
\* the life cycle the storage promises (WorkflowStorage implements the same): no late answer
\* of an action brings back a workflow that is complete or queued again.  Only the in-memory
\* store forgets everything with its process.
FollowsLifecycle ==
  [][Lifecycle!Next \/ (disk.storeType = "InMemory" /\ phase' = "down")]_Life

\* A connection that is lost is made again, as long as the process lives.
SpyReconnects ==
  \A pl \in Plugin : loop[pl] = "lost" ~> loop[pl] = "connected" \/ phase = "down"

\* A queued workflow of a process that executes is settled, by its handler or when
\* it was requeued often enough, unless actions that hang have all the workers of a
\* chain it needs, or the chain has an empty list of keys, or workflows that are so
\* stuck or were dropped have all the slots for good, or the process ends.
WorkflowSettles ==
  \A w \in Workflow :
    status[w] = "queued" /\ spawned # {}
      ~> \/ status[w] \in {"complete", "dropped"} \/ Starved(w)
         \/ Cardinality(HeldSlots) >= MaxActive
         \/ phase = "down"
=============================================================================

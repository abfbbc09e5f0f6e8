# nimbleXChain: TLA+ models and proofs

This directory models the parts of the repository whose correctness depends on
the order in which several actors act: the relayer engine (`lib/relayer-engine`),
from its configuration and its event sources to the workflow storage that several
processes share on one Redis server and the workers that sign on each chain, and
the cross-chain token contracts (`evm/contracts/deltafi-xchain`) with the programs
that call them: the transfer API, the relay service and the owner's command line.
TLC checks the models on small instances, TLAPS proves the main invariants for
every instance.

## 1. The system

### Components

| component | code | state | operations | correct when |
|---|---|---|---|---|
| configuration | `lib/relayer-engine/src/config`, `executor/walletToolBox.ts` | `commonEnv`, `executorEnv`, `listenerEnv` | `loadUntypedEnvs`, `privateKeyEnvVarLoader`, `transformEnvs`, `validateEnvs`, `createWalletToolbox` | an executor signs with the configured keys, or does not start |
| engine start | `index.ts`, `app/src/main.ts` | mode | `main`, `run` | the startup check precedes the loop; whatever cannot work ends the process |
| spy and plugin listeners | `listener/spyEventSource.ts`, `listenerHarness.ts`, the event source of `index.ts:71-76` | stream, LRU cache of VAA hashes | `runPluginSpyListener` and its callbacks | a VAA with a quorum is consumed, once; the stream is renewed |
| event harness | `listener/eventHarness.ts` | calls under way | `consumeEventHarness` | an event becomes a workflow, or is declined |
| workflow storage | `storage/storage.ts` (`DefaultStorage`) | Redis: a value per workflow key (JSON, `__complete` or none), lists `__workflowQ` and `__activeWorkflows`; memory: `numTimesWorkflowRequeued` | `addWorkflow`, `requeueWorkflow`, `completeWorkflow`, `getNextWorkflow`, `handleStorageStartupConfig`, `numActiveWorkflows` | a workflow is never lost, listed twice, or executed twice at a time; a dead process's workflows come back |
| Redis wrapper | `storage/redisStore.ts` | `backlog`, `mutex` | `runOpWithRetry`, `executeBacklog`, `withRedis` | a write is done at least once, in order, and nothing blocks the ones behind it |
| executor loop | `executor/executorHarness.ts` | where the loop is, handlers in flight | `run`, `spawnExecutor`, `spawnWorkflow` | at most `MAX_ACTIVE_WORKFLOWS` active; every queued workflow settles |
| wallet workers | `executor/executorHarness.ts` | one queue of actions per chain | `makeExecuteFunc`, `spawnWalletWorkers`, `spawnWalletWorker` | an action runs once, on one wallet at a time, and its caller gets the answer |
| dummy plugin | `app/plugins/dummy_plugin` | a counter in the staging area | `consumeEvent`, `handleWorkflow` | - |
| staging area | `storage.ts` (`DefaultStagingAreaKeyLock`) | Redis: plugin keys | `withKey`, `getKeys` | updates of one key exclude one another |
| in-memory store | `storage/inMemoryStore.ts` | lists, values, watch locks | the commands of `IRedis` | does what Redis does |
| EVM contract | `evm/contracts/deltafi-xchain/*.sol` | owner, fee, registered emitters, token balance and allowance | constructor, `registerEmitter`, `updateRelayerFee`, `sendTokensWithPayload`, `redeemTransferWithPayload` | moves tokens like one ledger, each transfer once, and reverts only as documented |
| transfer API and relayer | `evm/ts/api` | calls under way | `transferToken`, `redeemToken`, `nimbleRelay` (a redeem tried twenty times) | a call ends; who is told a receipt has redeemed |
| relay service | `lib/relayer-engine/src/relay` | none | `nimbleRelay`, `relay`, `validateRequest`, `shouldRelay` | relays what it should; reports what it did |
| command line | `evm/ts/cli` | none | `register-emitter`, `update-relayer-fee`, `deploy` | every contract knows the others |
| EVM message encoding | `DeltafiXChainMessages.sol` | none | encode, decode | - |
| Solana program | `solana/programs/xchain_token` | sender and redeemer configurations, foreign contracts | `initialize`, `register_foreign_contract`, `update_relayer_fee`, four send/redeem instructions | as the EVM contract |
| Injective, Aptos, Algorand, NEAR contracts | `injective/contracts`, `aptos/contracts`, `algorand`, `near` | state types | unfinished | - |
| metrics, logging | `metrics.ts`, `helpers` | counters | - | - |

### How they interact

`main` loads and validates the configuration and starts, in the mode it is told,
listeners, an executor or both. A signed VAA from the spy (filtered by the number of
its signatures and by a cache of hashes) or from the plugin's own event source reaches
`consumeEventHarness`, which calls the plugin (it may use the staging area) and
`addWorkflow`. Executing processes poll: they read the length of the active list, BLMOVE
the newest key from the queue to it, GET its value, and start the plugin's
`handleWorkflow` without awaiting it; when it settles they call `completeWorkflow` or
`requeueWorkflow`. Every write goes through the process's backlog, and every process
shares the Redis server. The handler hands its actions to the queue of a chain, where
one worker for each wallet takes them. On the other side users, the API and the relay
service send transactions to the contracts: a send gives tokens to the Wormhole token
bridge, whose guardians sign a message, and a redeem on the target chain gets them from
the bridge, keeps a relayer fee and pays the recipient.

### What is hard

Interleaving of the Redis commands of several processes and, inside one process,
of handlers, workers, the loop and the backlog; calls that fail before or after they took
effect; processes that die at any point of their start or their work; copies of one VAA
with fewer and more signatures, over connections that are lost; counts read before they
are used; retries that must end although somebody else has done the work; amounts with
more decimals than the bridge carries; fees and emitters that change while transfers are
under way. `PROJECT.json` lists each hazard at its line under "hazards".

## 2. Modules

| module | what it is |
|---|---|
| `RedisLists` | LPUSH, LREM and the two ends of BLMOVE as operators on sequences (external: Redis) |
| `WorkflowStorage` | storage, wrapper, executor loop and the processes that run them |
| `WorkflowLifecycle` | abstract specification: the life of a workflow, *unknown, queued, active, complete*; implemented by `WorkflowStorage`, followed by `EngineProcess` |
| `MCWorkflowStorage` | sets of workflows and processes for TLC; checks that `LRem` agrees with the community modules' `Remove` |
| `EngineConfig` | what the engine makes of its files and environment variables (operators only) |
| `SpyListener` | the spy loops of the plugins, their caches, and the events being consumed |
| `WalletWorkers` | the queues of actions, the workers, and the handlers that wait for them |
| `EngineProcess` | one process: its start on `EngineConfig`, then `SpyListener` and `WalletWorkers` together, and its end |
| `MCEngineProcess` | eleven configurations, three of the plugin's, three events, two chains and a Terra chain |
| `StagingArea` | `withKey` on Redis and on the in-memory store, called by concurrent events |
| `TokenBridge` | the token, its wrapped copies and the Wormhole token bridge (external) |
| `XChainEvm` | one nimbleXChain contract per EVM chain, and the transfers between them |
| `TokenTransfers` | abstract specification: one ledger of wealth, transfers that arrive once |
| `MCXChainEvm` | wallets and balances for TLC |
| `XChainClient`, `MCXChainClient` | the transfer API and the relay service against `XChainEvm` |
| `XChainCli`, `MCXChainCli` | the owner's commands against `XChainEvm` |
| `RedisListsProofs`, `WorkflowStorageProofs`, `WorkflowExclusiveProofs`, `SpyListenerProofs`, `WalletWorkersProofs`, `EngineProcessProofs`, `StagingAreaProofs`, `XChainEvmProofs` | theorems |

### WorkflowStorage

Redis is `kv`, `queue`, `active`; the head of `queue` is the LEFT end. A process
is a member of `Listener` or `Executor` or both, which are the engine's modes. It
keeps where its loop is (`pc`), the key BLMOVE returned (`taken`), handlers in
flight (`tasks`), requeue counts (`requeues`), and the wrapper's `backlog`, with
`waiting` counting the `executeBacklog` calls that have not returned.

*A write operation* is a member of the backlog. `OpReads` is its WATCH and GET
(with the early returns of `addWorkflow` and `completeWorkflow`), `OpWrites` its
multi()...exec(true). Between them any other process may act. `OpFails` loses the
connection before the commands are sent (or is the exception of a requeue whose key is
not there, which never happens: `RequeueFindsKey`), `OpReplyLost` after they took effect;
both keep the operation at the head of the backlog, as the `catch` of
`executeBacklog` does. `ambiguous` is a history variable: the workflows a requeue
of which took effect but was reported as failed. It is read by properties only.

*exec(true) is a pipeline.* `IRedis` (storage/index.ts:70) names the flag
`pipeline`, and the client then sends the commands without MULTI and EXEC. Redis
never compares what WATCH remembered, so WATCH has no effect in the model. The
commands of one pipeline are one step: the client writes them at once and the server
runs what it reads from a connection in one go. (If it should read only a part of
them, the only command of another process that could come between is one that works on
the lists; all properties are stated after the burst.) GET and WATCH are one step as
nothing depends on what lies between.

*Executor.* `Poll` reads the length of the active list; `Take` is BLMOVE (newest
first: LPUSH and BLMOVE LEFT); `TakeTimeout` is its timeout on an empty queue;
`Spawn` reads the value and starts the handler, or throws on `__complete`;
`ReadFails` loses the GET or the answer of BLMOVE. `Finish`, `Requeue`, `Drop` are
the ways a handler ends. `HandleStorageStartupConfig` is HKEYS of a list: no
effect while the list does not exist, otherwise a WRONGTYPE error that ends the
process.

Left out: the workflow's data, plugins (the handler may succeed or fail at any
time; `WalletWorkers` says more), metrics, and the in-memory store's lists.

### EngineConfig and EngineProcess

A configuration on disk is a record: the store type, whether Redis has a host and port,
the chains with the fields they give, the form of `privateKeys` (array, object,
missing), its key lists and the environment variables. A key is a wallet, a string that
is none, or a number. `AssignedKeys` is the `Object.assign` of `loadConfig.ts`,
`TransformFails` and `IndexTakenForChain` what becomes of an array that keys were
assigned onto, `ValidEnvs` the validation, `AllWorkersSpawn` what
`createWalletToolbox` accepts. Texts, ports and log levels are left out.

`EngineProcess` runs it: `ReadAndValidateEnv`, `SetUp` (plugins, `createStorage`),
`RunHarnesses` (the listeners start, the executor's check is under way), `RunExecutor`
(the check, and a worker for each key). Every exception in it, the unhandled rejection of
a spy loop that cannot subscribe (`SubscribeThrows`) and of a worker without tool box, and
a kill at any point are `Exit`: what the process kept in memory is gone, the in-memory
store too, and in Redis the workflows it executed stay in the active list ("orphaned").
Redis itself appears here only as the status of each workflow; `WorkflowStorage` says how
that is kept. `FollowsLifecycle` states that the two models agree on it: what listeners,
workers and ends of the process do to a status is a move of `WorkflowLifecycle`, the
specification `WorkflowStorage` implements (executing, dropped and orphaned are all
*active* there; the in-memory store forgets everything when its process ends).

On Redis, and in mode EXECUTOR, all workflows are queued when the process first starts
(`QueuedBefore`): other processes listen. `EventBecomesWorkflow` is the write of
`addWorkflow`, at once or later from the backlog: `WriteFollows` says that another
operation of the process may come, which is all that ever writes a backlog again.
`MayArrive` are the bounds on what arrives.

### SpyListener

Per plugin: `loop` (off, subscribing, connected, lost), `cache` (the LRU list, the hash
used last at the end), `consuming` (calls of `consumeEventHarness`, which nobody awaits).
`Data` is the callback: `TooFewSignatures`, `Duplicate` (which reorders the cache) or
`Accept` (which may drop the oldest hash). `EventSource` is what a plugin is given in
`afterSetup` (index.ts:71-76): it passes neither quorum nor cache. A consumption ends
with a workflow (`ConsumedWithWorkflow`), without one (`ConsumedWithout`: declined, or an
error that is only logged), or with a write that failed: `executeBacklog` swallows the
failure and `addWorkflow` returns as if it had been done (`AddFails`), so that the
workflow is in the backlog of the process alone (`unwritten`) until a later write
(`AddWritten`), and gone when the process ends first. `passed`, `settled`, `evicted` and
`injected` are history variables, read by properties only (and by the bound of
`EventSource`).

### WalletWorkers

Per process and chain a queue (`actionQueue`) and a worker for each key (`workers`);
`running` holds the actions workers await. A handler is the dummy plugin's: its actions
go, one after the other, to the chains of `Plan`; after the last it sleeps, and returns or
throws. `SpawnWorkflow` is the loop of `spawnExecutor` and `spawnWorkflow`: it compares the
number of active workflows with `MaxActive` and takes one. `Active` is what
`numActiveWorkflows` counts: the workflows executing, and those that were dropped or left
by a process that ended, which keep their places for good. One process looks and takes
here, so the number is not stale when it is used (`wf_live` has two); any queued workflow
may be taken, where the code takes the newest. `Execute` is `makeExecuteFunc`, rejecting when there is no queue for the chain;
`HandlerRejects` is the requeue, or "dropped" after the last one: the workflow stays in
the active list and nobody executes it. `ActionHangs` is a call to a node that is never
answered.

### StagingArea

Each member of `Call` is one `withKey` call with a set of keys; its function adds one to the
counter under each, as the dummy plugin's does, or rejects. `store` is the deployment's store
type. On Redis, `Watch` has no effect (the writes are a pipeline again); `GetKeysInternal`
reads one key, in any order, until all are read; `WritePipeline` starts the pipeline and
`SetPiped` is one of its SETs. Commands of other calls may come between any two of these
(for the SETs that is more than the server's reading them together allows). In memory,
`Watch` locks the keys or throws at one
that is locked, leaving some of the others locked; `GetKeysInternal` reads all keys in one turn of the event loop; `Exec` starts the sets (an unlocked key is
set at once, a locked one after an await, `SetLocked`); `Unwatch` unlocks every key of every
caller. The listeners do not await `consumeEvent` (spyEventSource.ts:76), so that calls of one
process overlap as those of several do.

### XChainEvm

One token, native to chain `Home` with `Unit` smallest amounts for each amount the
bridge can carry, and its wrapped copies with 8 decimals elsewhere. A transaction
is one step; a transaction that reverts is no step. `Deposit` is custodyTokens,
safeApprove and what the bridge takes; `Pay` is the end of
`redeemTransferWithPayload`. A fee pair is any the constructor accepts (`Deployed`); only
`UpdateRelayerFee` compares it with the precision. An emitter may be registered
wrongly ("other") and replaced while transfers are under way. A recipient is any bytes32
that is not zero (`Recipient`): a wallet, the contract itself, which then keeps the tokens,
or one that is no EVM address, for which every redeem reverts (`bytes32ToAddress`). Anybody
may also give the contract tokens (`GiveToContract`, the token's own `transfer`). Whether the
sender has approved the contract is left to the sender: without it the transaction reverts,
which is no step. The token is a plain ERC-20: no fee on transfer, no decimals above what
`Unit` says. Message encoding, gas, the Wormhole fee and 256-bit overflow are left out, the
reentrancy guard is implied by the step size. That a message is redeemed once is the bridge's
guard (`CanComplete`, external).

`TokenTransfers` is the ledger the contracts implement: `Send` takes an amount from an
account, `Deliver` gives it once to its recipient and a fee to who delivers it, or to what the
application keeps, and `Give` is a gift to the application.

### XChainClient

A member of `Call` is one call of `transferToken` (with the redeem it goes on to),
`redeemToken`, or a request to the relay service. `calls[k].at` is "signing" (the send has
a receipt, the guardians sign), "redeeming" (the message is there, the redeem is tried),
"decoded" (what `redeemToken` makes of the text it was given) or its end: "receipt", "null",
"thrown", an HTTP status, or "unanswered". A transaction is mined or reverts in one step of
`XChainEvm`; `NoReceipt` is what a caller sees of one that reverts, is not taken, or whose
answer is lost after it was mined. `TransferFails` are the ends of `transferToken` before
anything was sent. `getOverride` asks the node of a `FeeChain` (Polygon, Avalanche) for the
gas, outside of every try: `OverrideLost` ends `transferToken` between the signed message and
the first redeem (xchain.ts:264), or `redeemToken` (:283), with an exception. A request of
the relay service's `nimbleRelay` names its own contract, node and wallet, so the caller is
any account; `RequestFails` are requests that lack a field (400), and those whose key or VAA
throws outside of the try (relay/main.ts:35, :88-89), which nobody answers. `Relay` asks the
bridge itself to complete a transfer with payload, which it refuses. The owner, the users and
other relayers go on acting (`Others`).

### XChainCli

`RegisterEmitterStep` is one step of `register-emitter`: `registerBridge` with the name and
the contract that step hands over, of which only the first round of the loop runs.
`UpdateRelayerFeeSends` sends the fee transactions of all chains at once;
`UpdateBridgeRelayerFee` is when one of them is mined or reverts.

## 3. Runs

| run | configuration | shows |
|---|---|---|
| `wf_safety` | 2 workflows, 2 processes that execute, 1 of them also listening, 1 fault, 1 crash | `TypeOK`, `OneEntry`, `NoLostWorkflow`, `ExclusiveUnlessAmbiguous`, `RequeueFindsKey`, and that the storage implements `WorkflowLifecycle` |
| `wf_live` | 3 workflows, 2 processes that execute, 1 of them also listening, fairness | `ActiveBound`: the stale count costs one slot, not more; `WorkflowsSettle` |
| `wf_backlog` | 2 workflows, 1 process, 1 fault, fairness | violation of `BacklogDrains` |
| `wf_recovery` | 1 process, 1 crash, fairness | violation of `ProcessRecovers` |
| `wf_parked` | 1 process, fairness | violation of `ParkedLeaves` |
| `wf_listeners` | 2 listeners | violation of `OneEntry` |
| `en_process` | 11 configurations, 3 modes, 3 configurations of the plugin, 3 events, 2 active workflows, 2 starts, fairness | `EngineTypeOK`, `SignsWithConfiguredKeys`, `QuorumIsConsumed`, `ConsumedOnce`, `ActionsAccounted`, `ExclusiveInProcess`, `FollowsLifecycle`, `SpyReconnects`, `WorkflowSettles` |
| `st_stores` | 3 calls, 2 keys, both stores | `StagingTypeOK` (with "a call that succeeds has set all its keys") and `OneKeyCounts` |
| `st_redis` | 2 calls, 1 key, Redis | violation of `CountsEverySet` |
| `xc_client` | 2 chains, 2 wallets, 3 smallest amounts, `Unit` 2, fees 1/2 and 3/2, 2 transfers to a wallet, the contract or no address, 2 calls, 1 lost transaction, call or answer, fairness | `ClientTypeOK`, `ResidueStays`, `OneReceipt`, that the contracts implement `TokenTransfers` whoever calls them, `CallsEnd`, `SignedIsDelivered` |
| `xc_dust` | 2 chains, 5 smallest amounts, 3 transfers, the contracts only | violation of `SendNeverBlocked` |
| `xc_emitters` | 3 of the 5 chains, 1 transfer | violation of `RegistersEachChain` |

Bounds. `MaxActive` is 1 (10 in the code), so that workflows compete for a slot;
`MaxRequeues` is 0 (2 in the code): a workflow is still requeued once and then dropped.
`MaxBacklog` bounds only new events, never the writes of handlers. `MaxFaults` and
`MaxCrashes` are at most 1: one is enough to reach every error path, and the theorems hold
for any number. `wf_live` has none: what a failed write or a crash leaves waiting for ever is
what `wf_backlog` and `wf_recovery` show. In `en_process` there are two guardians, so that copies with no, one and two
signatures arrive (a quorum is two), in four copies (`MaxCopies`) of two VAAs (`Arriving`)
with a cache of one hash (`CacheSize`), so that hashes are dropped; where the process also
executes, two copies (`MaxBoth`). One write of `addWorkflow` can be in the backlog
(`MaxUnwritten`). The third event's workflow is one of those an executor finds queued, so that
with `MaxActive` 2 (10 in the code) two of three workflows can be dropped, orphaned or stuck
and take the last slot from the third.
One action hangs (`MaxHung`), one connection is lost (`MaxLosses`),
and the process is started twice (`MaxStarts`), which leaves orphans for the second start.
Fuji has two keys, in one configuration, so that two workers share a queue; in another
Polygon has none. In `xc_client` one smallest amount more than `Unit` leaves a residue, a
fee of 3/2 is refused (`Deployed`: one contract begins with either, the other with the smaller
one), `FeeChain` is one of the two chains, `MaxTry` is 2 (20 in the code) and `MaxLost` 1, so
that a redeem is retried after a lost answer, and two calls and the other relayers redeem the same
message. Symmetry is used among workflows (and among processes where they have the
same role), never in liveness runs. Deadlock checking is off for the contracts and their
clients, the staging area and the engine process, which stop when every transfer, call,
copy and start is done.

Fairness, `WorkflowStorage` (`Fairness`): a started process keeps running its event loop:
the executor loop is `while (true)`, each await in it is answered or fails, the mutex of
`executeBacklog` is handed on, a supervisor starts the process again, and handlers settle.
Events, faults and crashes need not happen.

Fairness, `EngineProcess` (`Fairness`): a start goes on, a spy loop subscribes and
reconnects (it looks every second and waits five), workers look at their queues every
half second, and a handler goes on: it is spawned when queued, its action settles unless
it hangs, it returns or throws after its sleep. VAAs, losses, kills, starts and the end of
a consumption need not come. `WorkflowSettles` therefore excuses a workflow whose action
hangs, or all of whose chain's workers hang, or whose chain has no key at all
(`Starved`), and the end of the process. It also excuses the others once abandoned workflows
(`HeldSlots`: dropped, orphaned, or waiting for ever as above) hold all the slots.

`WorkflowsSettle` reads: from any point on, a workflow that is not complete gets there, or is
abandoned, or is queued while abandoned ones hold every slot. *Abandoned* is in the active
list, with nobody executing it, and without a write under way that ends its execution
(`Abandoned`): a workflow that is only between its handler and its write does not count. So a
requeue that repeats for ever, a slot that is lost otherwise, or an executor that never
takes what is queued would refute it.

`SignedIsDelivered` reads: a message the API has sent is redeemed by somebody, unless the
contract refuses it (its fee is above the amount, its emitter was replaced, its recipient is
no address), or the gas of the target chain could not be read before the first try.

Fairness, `XChainClient` (`ClientFairSpec`): guardians sign, and a call under way makes its
next try. Nobody has to make a call or redeem a message.

### What the violations show

1. `wf_recovery`: `handleStorageStartupConfig` asks HKEYS of a list. With anything
   in the active list it fails, and its `return` without `await` lets the
   rejection pass the `catch`: after a crash with an active workflow, no executor
   starts.
2. `wf_parked`: a dropped workflow stays in the list that counts as "currently
   being executed".
3. `wf_listeners`: with two listeners a workflow can be queued twice, because WATCH is
   not enforced.
4. `wf_backlog`: a write that failed waits for another operation of its process; the timer
   the comment above `executeBacklog` speaks of is commented out.
5. `st_redis`: as WATCH is not enforced, two overlapping `withKey` calls lose an update. The
   repository's test of conflicting modifications passes because it uses the in-memory store.
6. `xc_dust`: a send of an amount the bridge truncates leaves an allowance, and
   `safeApprove` then reverts for that token.
7. `xc_emitters`: the loop of `registerBridge` returns in its first round, and registers
   the chain's own address for the chain's own id; its second step hands Avalanche's name
   the contract of Arbitrum. After `register-emitter` a transfer to Avalanche is accepted on
   Arbitrum and cannot be redeemed on Avalanche.

## 4. Theorems

Assumptions: the named ASSUMEs of the modules (`StorageAssumption`, `SpyAssumption`,
`WorkersAssumption`, `EngineAssumption`, `StagingAssumption`, `BridgeAssumption`,
`XChainAssumption`, `ClientAssumption`), which TLC evaluates in the runs.

*`WorkflowStorageProofs`*: `TypeCorrect`, `NothingLost`, `RequeueNeverThrows`,
`OneEntryEach`, `SlotsBounded`, for any workflows, processes and limits.
  - `NoLostWorkflow` needs `AbsentUnlisted` (a listed key exists), so that BLMOVE
    and LREM cannot touch a key nobody has added; together they are `ListInv`.
  - `RequeueFindsKey` needs `HeldKeysExist` (a key a loop has taken or a handler
    executes exists); together `KeyInv`. Keys never disappear (`KeysStay`), so that
    an operation enqueued with an existing key finds it later.
  - `OneEntry` needs to know that only listeners add (`OnlyListenersAdd`) and that an
    add about to write still finds its key absent (`AddSeesAbsent`), which is so while one
    process listens: `OneListener` is the condition of the theorem. With two listeners the
    property is false (`wf_listeners`).
  - `ActiveBound` counts the executors between the poll and the take:
    the active list and they together stay within the bound (`SlotInv`).

*`WorkflowExclusiveProofs`*, under `OneListener`: `ExecutedOnce` and
`LifecycleImplemented`.
  - `ExclusiveUnlessAmbiguous` is far from inductive: that no two executors hold a
    workflow depends on the writes still in the backlogs. `ExclusiveInv` says of each
    workflow that is not ambiguous: it has one holder, which has taken it, executes it or
    is about to write how that ended, in one of these ways (`OneHolder`), and while it is
    held the active list has it and the queue has not (`HolderListed`, with `OneEntry`).
  - From the two, each write is one move of the life cycle or none (`WritesMove`,
    `TakeMoves`), which is the refinement.

*`EngineProcessProofs`*, on the steps proved in `SpyListenerProofs` and
`WalletWorkersProofs`: `EngineTyped`, `NoQuorumLost`, `SpyConsumesOnce`,
`ActionsInOnePlace`, `WalletsExclusive`, `ConfiguredKeysSign`, `LifecycleFollowed`. The
invariant `EngineInv` is
  - `EnvInv`: a process past its validation has the environment of its files, and workers
    for its keys; with `KeysAssigned` (what `Object.assign` does to the keys) the executor's
    keys follow;
  - `SpyInv`: a cached hash is of an event that is being consumed or was
    (`CachedIsConsumed`), and what was consumed without a workflow is cached or
    was dropped (`SettledIsCached`): without these two the reordering and eviction
    of the cache could hide an event, or let it in twice;
  - `WorkersInv`: handlers run in executors that run (`HandlersExecute`), each workflow's
    action is in one place (`Accounted`), and a worker that runs an action exists and runs
    no other (`Employed`, `OnePerWorker`).

`TypesInv` adds the types of everything else and that the storage knows the
workflows that have a status. `LifecycleFollowed` is the action property from the same
invariant: an action that settles was awaited by a handler (`Accounted`), whose workflow
is executing (`HandlersExecute`), so a late answer cannot bring back a workflow that is
complete or queued again (`ExecutorMoves`).

*`StagingAreaProofs`*: `CountersTyped` counts, for each key, the calls that have set it: no
counter, lock or read value is above that count (`Bounded`), as a call sets a key once
(`StageOf`). `OneKeyExclusive` needs that while all calls name one key at most one of
them holds its lock, and the lock remembers the counter until that call sets it (`OneLock`).

*`XChainEvmProofs`*, first the contracts alone (`Spec`), then among their callers
(`ClientSpec`), each step of which is a step of the contracts or none (`ClientStep`).
  - `ResidueKept`, `ResidueKeptForClients`: what a send left approved and untaken is never
    paid out, for any recipients and gifts. The invariant (`ResidueInv`) is the
    property with the types it needs; the arithmetic is in `CarriedBounds`, the payments in
    `PayPreserves`.
  - `WealthConserved`, `TypesKept`, `TransfersImplemented`: that the bridge can always pay
    (`custody` is never negative) and that a send never takes more than there is do not
    follow from the types. `LedgerInv` adds that wallets, contracts and messages under way
    have together the supply (`Conserved`), and that the bridge has locked what is not on
    the home chain (`CustodyIsRest`). `SendPuts` and `RedeemPuts` say what a transaction
    adds to which balance, `PutsOwned` and `PutsHome` what that makes of the sums;
    `SendImplements` and `RedeemImplements` are the refinement, step by step.
  - These are sums over chains, wallets and messages, which are folds: recursive functions
    over the subsets of a finite set. `SumEquation` shows, by induction on the subset
    (`SubsetInduction`, from the well-foundedness of strict inclusion), that the function
    exists and satisfies its equation; the other lemmas of that section follow. So
    `BridgeAssumption` asks for finitely many chains and wallets: the deployments are a
    handful, and an address has 20 bytes.
  - `ClientTypes`, `TransfersImplementedForClients`: `ClientInv` adds to `LedgerInv` that
    each call's message is one of those sent and that a call under way has a try left.
  - `OneReceiptEach`: a call gets a receipt only in the step that redeems its message, and
    nothing redeems a message again.

*`RedisListsProofs`*: what LREM, LPUSH and the ends of BLMOVE do to the type, the elements
and the injectivity of a list, by least-number arguments on the recursive function.

Model-checked only: the liveness properties `WorkflowsSettle`, `SpyReconnects`,
`WorkflowSettles`, `CallsEnd` and `SignedIsDelivered`, which need fairness and ENABLED, and
the violations. Every invariant, action property and refinement of a passing run is a
theorem; those of the storage that need one listener are proved under
`OneListener`.

## 5. Not modelled

* The Solana program: its accounts and the Wormhole programs it calls would be a model
  of their own beside `XChainEvm`, whose operations it mirrors. Its 64-bit fee arithmetic
  stays a hazard without a property.
* The Injective, Aptos, Algorand and NEAR contracts: no operation of theirs moves a token
  yet (Injective builds its messages and returns none of them).
* The encoding of messages (`DeltafiXChainMessages.sol`): a message is a record here;
  encoder and decoder have no state, and one writer and one reader.
* The lists of the in-memory store. They differ from Redis in the order a requeue leaves,
  which no property of the storage depends on.
* Operations that only read or only answer: `getKeys`, `getRelayerFee`,
  `shouldRelay`, `version`; the HTTP servers, the `deploy` command (it runs a make target),
  metrics and logging.
* Gas, the Wormhole fee, tokens that take a fee on transfer, 256-bit overflow; the
  reentrancy guard is implied by the size of a step.
* Several processes against the wallets: `ExclusiveInProcess` is stated for one process, as
  every executor makes workers for the same keys and nothing in the code keeps two of them
  from signing with one wallet at a time.

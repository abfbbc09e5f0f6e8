--------------------------- MODULE WorkflowStorage ---------------------------
(***************************************************************************)
(* The relayer engine's workflow storage on Redis (DefaultStorage of       *)
(* lib/relayer-engine/src/storage/storage.ts over DefaultRedisWrapper of   *)
(* redisStore.ts) and the executor loop that drives it                     *)
(* (lib/relayer-engine/src/executor/executorHarness.ts), run by several    *)
(* engine processes that share one Redis server.                           *)
(*                                                                         *)
(* A write operation is two steps: WATCH and GET the key, then multi()     *)
(* with its commands and exec(true).  The flag is IRedis's `pipeline'      *)
(* (storage/index.ts): the client sends the commands at once but without   *)
(* MULTI and EXEC, so Redis runs them together and never looks at WATCH.   *)
(***************************************************************************)
EXTENDS RedisLists, FiniteSets

CONSTANTS
  Workflow,     \* workflow keys, "<plugin>/<vaa hash>"
  Listener,     \* engine processes whose mode is LISTENER or BOTH
  Executor,     \* engine processes whose mode is EXECUTOR or BOTH
  None,         \* no workflow
  MaxActive,    \* MAX_ACTIVE_WORKFLOWS
  MaxRequeues,  \* the literal 2 of requeueWorkflow
  MaxBacklog,   \* bound of the model: events observed while a backlog is longer are not modelled
  MaxFaults,    \* bound of the model: failed Redis calls
  MaxCrashes    \* bound of the model: process crashes

Process == Listener \cup Executor

ASSUME StorageAssumption ==
  /\ None \notin Workflow
  /\ IsFiniteSet(Executor) /\ Executor # {}
  /\ MaxActive \in Nat /\ MaxRequeues \in Nat
  /\ MaxBacklog \in Nat /\ MaxFaults \in Nat /\ MaxCrashes \in Nat

VARIABLES
  kv,        \* Redis: the value under each workflow key
  queue,     \* Redis: list __workflowQ
  active,    \* Redis: list __activeWorkflows
  pc,        \* per process: where its executor loop is
  taken,     \* per process: the key blMove returned, until it is read
  tasks,     \* per process: handleWorkflow calls in flight, by workflow
  requeues,  \* per process: numTimesWorkflowRequeued
  seen,      \* per process: what GET returned to the write operation under way
  backlog,   \* per process: DefaultRedisWrapper.backlog, from the head to run next
  waiting,   \* per process: executeBacklog calls that have not returned
  faults, crashes, \* how many happened
  ambiguous  \* history: workflows a requeue of which took effect but was reported failed

redis == <<kv, queue, active>>
executor == <<pc, taken, tasks>>
wrapper == <<seen, backlog, waiting>>
vars == <<kv, queue, active, pc, taken, tasks, requeues, seen, backlog, waiting,
          faults, crashes, ambiguous>>

Value == {"absent", "json", "complete"}
Op == [op : {"add", "requeue", "complete"}, key : Workflow]
Loc == {"down", "listening", "starting", "poll", "take", "read"}

\* Some executeBacklog call holds the mutex and has operations to run.
Running(p) == waiting[p] > 0 /\ backlog[p] # <<>>

TypeOK ==
  /\ kv \in [Workflow -> Value]
  /\ queue \in Seq(Workflow)
  /\ active \in Seq(Workflow)
  /\ pc \in [Process -> Loc]
  /\ taken \in [Process -> Workflow \cup {None}]
  /\ \A p \in Process \ Executor : pc[p] \in {"down", "listening"}
  /\ \A p \in Process : pc[p] = "read" <=> taken[p] # None
  /\ tasks \in [Process -> [Workflow -> Nat]]
  /\ requeues \in [Process -> [Workflow -> 0..(MaxRequeues + 1)]]
  /\ seen \in [Process -> Value \cup {"none"}]
  /\ \A p \in Process : seen[p] # "none" => Running(p)
  /\ backlog \in [Process -> Seq(Op)]
  /\ waiting \in [Process -> Nat]
  /\ faults \in 0..MaxFaults
  /\ crashes \in 0..MaxCrashes
  /\ ambiguous \in SUBSET Workflow

NoTasks == [w \in Workflow |-> 0]

Init ==
  /\ kv = [w \in Workflow |-> "absent"]
  /\ queue = <<>>
  /\ active = <<>>
  /\ pc = [p \in Process |-> "down"]
  /\ taken = [p \in Process |-> None]
  /\ tasks = [p \in Process |-> NoTasks]
  /\ requeues = [p \in Process |-> NoTasks]
  /\ seen = [p \in Process |-> "none"]
  /\ backlog = [p \in Process |-> <<>>]
  /\ waiting = [p \in Process |-> 0]
  /\ faults = 0
  /\ crashes = 0
  /\ ambiguous = {}

-----------------------------------------------------------------------------
(* The process: start, startup check, crash.                               *)

\* What the process keeps in memory is empty when it starts and lost when it dies.
ClearMemory(p) ==
  /\ taken' = [taken EXCEPT ![p] = None]
  /\ tasks' = [tasks EXCEPT ![p] = NoTasks]
  /\ requeues' = [requeues EXCEPT ![p] = NoTasks]
  /\ seen' = [seen EXCEPT ![p] = "none"]
  /\ backlog' = [backlog EXCEPT ![p] = <<>>]
  /\ waiting' = [waiting EXCEPT ![p] = 0]

\* run(): the executor's startup check comes first; a listener has none.
Start(p) ==
  /\ pc[p] = "down"
  /\ pc' = [pc EXCEPT ![p] = IF p \in Executor THEN "starting" ELSE "listening"]
  /\ UNCHANGED <<redis, taken, tasks, requeues, wrapper, faults, crashes, ambiguous>>

\* Mutation of HandleStorageStartupConfig: the list is read as a list and every
\* workflow in it demoted, also those another process is executing.
StartupDemotesAll(p) ==
  /\ pc[p] = "starting"
  /\ pc' = [pc EXCEPT ![p] = "poll"]
  /\ queue' = active \o queue
  /\ active' = <<>>
  /\ UNCHANGED <<kv, taken, tasks, requeues, wrapper, faults, crashes, ambiguous>>

\* HKEYS on the list __activeWorkflows is a WRONGTYPE error while the list holds
\* anything (an empty list is no key, HKEYS of no key is empty).  The promise is
\* returned, not awaited, inside the try, so its rejection reaches run() and the
\* process exits; otherwise there is nothing to demote and the executor starts.
HandleStorageStartupConfig(p) ==
  /\ pc[p] = "starting"
  /\ \/ /\ active = <<>>
        /\ pc' = [pc EXCEPT ![p] = "poll"]
        /\ UNCHANGED <<taken, tasks, requeues, wrapper>>
     \/ /\ active # <<>>
        /\ pc' = [pc EXCEPT ![p] = "down"]
        /\ ClearMemory(p)
  /\ UNCHANGED <<redis, faults, crashes, ambiguous>>

Crash(p) ==
  /\ pc[p] # "down"
  /\ crashes < MaxCrashes
  /\ crashes' = crashes + 1
  /\ pc' = [pc EXCEPT ![p] = "down"]
  /\ ClearMemory(p)
  /\ UNCHANGED <<redis, faults, ambiguous>>

-----------------------------------------------------------------------------
(* DefaultRedisWrapper: runOpWithRetry pushes the operation and waits for  *)
(* the mutex; executeBacklog runs the operations from the head, and drops  *)
(* those that succeeded when one fails.                                    *)

RunOpWithRetry(p, o, w) ==
  /\ backlog' = [backlog EXCEPT ![p] = Append(@, [op |-> o, key |-> w])]
  /\ waiting' = [waiting EXCEPT ![p] = @ + 1]
  /\ UNCHANGED seen

\* Mutation of ReturnsEarly: addWorkflow looks for a workflow in progress only.
ReturnsEarlyInProgress(o) ==
  \/ o.op = "add" /\ kv[o.key] = "json"
  \/ o.op = "complete" /\ kv[o.key] = "complete"

\* addWorkflow of a key that exists, completeWorkflow of a complete one.
ReturnsEarly(o) ==
  \/ o.op = "add" /\ kv[o.key] # "absent"
  \/ o.op = "complete" /\ kv[o.key] = "complete"

\* requeueWorkflow of a key that does not exist.
Throws(p) == Head(backlog[p]).op = "requeue" /\ seen[p] = "absent"

\* The operation at the head is done.  With the last one, every executeBacklog
\* call still waiting for the mutex finds nothing to do.
OpDone(p) ==
  /\ backlog' = [backlog EXCEPT ![p] = Tail(@)]
  /\ waiting' = [waiting EXCEPT ![p] = IF Len(backlog[p]) = 1 THEN 0 ELSE @]

\* The operation at the head throws.  The error is swallowed and the operation
\* stays for the next executeBacklog.
OpThrown(p) ==
  /\ waiting' = [waiting EXCEPT ![p] = @ - 1]
  /\ seen' = [seen EXCEPT ![p] = "none"]
  /\ UNCHANGED backlog

\* WATCH and GET.
OpReads(p) ==
  /\ Running(p)
  /\ seen[p] = "none"
  /\ \/ ReturnsEarly(Head(backlog[p])) /\ OpDone(p) /\ UNCHANGED seen
     \/ /\ ~ReturnsEarly(Head(backlog[p]))
        /\ seen' = [seen EXCEPT ![p] = kv[Head(backlog[p]).key]]
        /\ UNCHANGED <<backlog, waiting>>
  /\ UNCHANGED <<redis, executor, requeues, faults, crashes, ambiguous>>

\* addWorkflow: LPUSH, SET.
AddWrites(w) ==
  /\ queue' = LPush(queue, w)
  /\ kv' = [kv EXCEPT ![w] = "json"]
  /\ UNCHANGED active

\* Mutation of RequeueWrites: LPUSH before LREM.
RequeueWritesPushFirst(w, s) ==
  /\ kv' = IF s = "complete" THEN [kv EXCEPT ![w] = "json"] ELSE kv
  /\ queue' = LRem(LPush(queue, w), w)
  /\ active' = LRem(active, w)

\* Mutation of RequeueWrites: the queue is not looked through for the key.
RequeueWritesKeepEntry(w, s) ==
  /\ kv' = IF s = "complete" THEN [kv EXCEPT ![w] = "json"] ELSE kv
  /\ queue' = LPush(queue, w)
  /\ active' = LRem(active, w)

\* requeueWorkflow: SET of a key that was complete; LREM both lists, LPUSH.
RequeueWrites(w, s) ==
  /\ kv' = IF s = "complete" THEN [kv EXCEPT ![w] = "json"] ELSE kv
  /\ queue' = LPush(LRem(queue, w), w)
  /\ active' = LRem(active, w)

\* Mutation of CompleteWrites: the key is deleted, not marked.
CompleteWritesDelete(w) ==
  /\ kv' = [kv EXCEPT ![w] = "absent"]
  /\ active' = LRem(active, w)
  /\ UNCHANGED queue

\* completeWorkflow: SET, LREM.
CompleteWrites(w) ==
  /\ kv' = [kv EXCEPT ![w] = "complete"]
  /\ active' = LRem(active, w)
  /\ UNCHANGED queue

\* The commands of operation o, which found s under its key.
Writes(o, s) ==
  \/ o.op = "add" /\ AddWrites(o.key)
  \/ o.op = "requeue" /\ RequeueWrites(o.key, s)
  \/ o.op = "complete" /\ CompleteWrites(o.key)

\* exec(true) of the operation at the head.
OpWrites(p) ==
  /\ seen[p] # "none" /\ ~Throws(p)
  /\ Writes(Head(backlog[p]), seen[p])
  /\ seen' = [seen EXCEPT ![p] = "none"]
  /\ OpDone(p)
  /\ UNCHANGED <<executor, requeues, faults, crashes, ambiguous>>

\* The connection fails before the commands are sent, or the operation throws (which
\* RequeueFindsKey says it never does).
OpFails(p) ==
  /\ Running(p)
  /\ \/ faults < MaxFaults /\ faults' = faults + 1
     \/ seen[p] # "none" /\ Throws(p) /\ UNCHANGED faults
  /\ OpThrown(p)
  /\ UNCHANGED <<redis, executor, requeues, crashes, ambiguous>>

\* The commands take effect but the connection is lost before the answer: the
\* wrapper sees an error and keeps the operation.
OpReplyLost(p) ==
  /\ seen[p] # "none" /\ ~Throws(p)
  /\ faults < MaxFaults
  /\ faults' = faults + 1
  /\ Writes(Head(backlog[p]), seen[p])
  /\ seen' = [seen EXCEPT ![p] = "none"]
  /\ waiting' = [waiting EXCEPT ![p] = @ - 1]
  /\ ambiguous' = IF Head(backlog[p]).op = "requeue"
                  THEN ambiguous \cup {Head(backlog[p]).key} ELSE ambiguous
  /\ UNCHANGED <<executor, requeues, backlog, crashes>>

-----------------------------------------------------------------------------
(* The listener's side: an event of workflow w reaches the process (again: *)
(* several listeners and several deliveries may carry one event).          *)

AddWorkflow(p, w) ==
  /\ p \in Listener /\ pc[p] # "down"
  /\ Len(backlog[p]) < MaxBacklog
  /\ RunOpWithRetry(p, "add", w)
  /\ UNCHANGED <<redis, executor, requeues, faults, crashes, ambiguous>>

-----------------------------------------------------------------------------
(* The executor loop, spawnExecutor.                                       *)

\* Mutation of Poll: the limit itself still counts as free.
PollOffByOne(p) ==
  /\ pc[p] = "poll"
  /\ \/ Len(active) <= MaxActive /\ pc' = [pc EXCEPT ![p] = "take"]
     \/ Len(active) > MaxActive /\ UNCHANGED pc
  /\ UNCHANGED <<redis, taken, tasks, requeues, wrapper, faults, crashes, ambiguous>>

\* numActiveWorkflows(): below the limit the loop goes on, at the limit it sleeps
\* and asks again.
Poll(p) ==
  /\ pc[p] = "poll"
  /\ \/ Len(active) < MaxActive /\ pc' = [pc EXCEPT ![p] = "take"]
     \/ Len(active) >= MaxActive /\ UNCHANGED pc
  /\ UNCHANGED <<redis, taken, tasks, requeues, wrapper, faults, crashes, ambiguous>>

\* getNextWorkflow(1): blMove of the newest key to the end of the active list ...
Take(p) ==
  /\ pc[p] = "take"
  /\ queue # <<>>
  /\ queue' = PopLeft(queue)
  /\ active' = PushRight(active, LeftOf(queue))
  /\ taken' = [taken EXCEPT ![p] = LeftOf(queue)]
  /\ pc' = [pc EXCEPT ![p] = "read"]
  /\ UNCHANGED <<kv, tasks, requeues, wrapper, faults, crashes, ambiguous>>

\* ... or nothing arrives within the timeout.
TakeTimeout(p) ==
  /\ pc[p] = "take"
  /\ queue = <<>>
  /\ pc' = [pc EXCEPT ![p] = "poll"]
  /\ UNCHANGED <<redis, taken, tasks, requeues, wrapper, faults, crashes, ambiguous>>

\* The rest of getNextWorkflow and spawnWorkflow: GET the key and parse it, then
\* start handleWorkflow without waiting.  "__complete" is no JSON: the exception
\* goes to the loop's catch and the key stays in the active list.
Spawn(p) ==
  /\ pc[p] = "read"
  /\ tasks' = IF kv[taken[p]] = "json"
              THEN [tasks EXCEPT ![p][taken[p]] = @ + 1] ELSE tasks
  /\ taken' = [taken EXCEPT ![p] = None]
  /\ pc' = [pc EXCEPT ![p] = "poll"]
  /\ UNCHANGED <<redis, requeues, wrapper, faults, crashes, ambiguous>>

\* The GET fails, or the answer to blMove is lost: the loop's catch logs it.
ReadFails(p) ==
  /\ pc[p] = "read"
  /\ faults < MaxFaults
  /\ faults' = faults + 1
  /\ taken' = [taken EXCEPT ![p] = None]
  /\ pc' = [pc EXCEPT ![p] = "poll"]
  /\ UNCHANGED <<redis, tasks, requeues, wrapper, crashes, ambiguous>>

\* handleWorkflow resolves: completeWorkflow.
Finish(p, w) ==
  /\ tasks[p][w] > 0
  /\ tasks' = [tasks EXCEPT ![p][w] = @ - 1]
  /\ RunOpWithRetry(p, "complete", w)
  /\ UNCHANGED <<redis, pc, taken, requeues, faults, crashes, ambiguous>>

\* Mutation of Requeue: the requeues are not counted.
RequeueUncounted(p, w) ==
  /\ tasks[p][w] > 0
  /\ tasks' = [tasks EXCEPT ![p][w] = @ - 1]
  /\ RunOpWithRetry(p, "requeue", w)
  /\ UNCHANGED <<redis, pc, taken, requeues, faults, crashes, ambiguous>>

\* Mutation of Requeue: the limit is one too high.
RequeueOneMore(p, w) ==
  /\ tasks[p][w] > 0
  /\ requeues[p][w] <= MaxRequeues + 1
  /\ tasks' = [tasks EXCEPT ![p][w] = @ - 1]
  /\ requeues' = [requeues EXCEPT ![p][w] = @ + 1]
  /\ RunOpWithRetry(p, "requeue", w)
  /\ UNCHANGED <<redis, pc, taken, faults, crashes, ambiguous>>

\* handleWorkflow rejects: requeueWorkflow.
Requeue(p, w) ==
  /\ tasks[p][w] > 0
  /\ requeues[p][w] <= MaxRequeues
  /\ tasks' = [tasks EXCEPT ![p][w] = @ - 1]
  /\ requeues' = [requeues EXCEPT ![p][w] = @ + 1]
  /\ RunOpWithRetry(p, "requeue", w)
  /\ UNCHANGED <<redis, pc, taken, faults, crashes, ambiguous>>

\* handleWorkflow rejects once too often: requeueWorkflow only logs "dropping".
Drop(p, w) ==
  /\ tasks[p][w] > 0
  /\ requeues[p][w] > MaxRequeues
  /\ tasks' = [tasks EXCEPT ![p][w] = @ - 1]
  /\ UNCHANGED <<redis, pc, taken, requeues, wrapper, faults, crashes, ambiguous>>

-----------------------------------------------------------------------------
ExecutorLoop(p) ==
  \/ Poll(p) \/ Take(p) \/ TakeTimeout(p) \/ Spawn(p)

Task(p, w) == Finish(p, w) \/ Requeue(p, w) \/ Drop(p, w)

Next ==
  \E p \in Process :
    \/ Start(p) \/ HandleStorageStartupConfig(p) \/ Crash(p)
    \/ OpReads(p) \/ OpWrites(p) \/ OpFails(p) \/ OpReplyLost(p)
    \/ Poll(p) \/ Take(p) \/ TakeTimeout(p) \/ Spawn(p) \/ ReadFails(p)
    \/ \E w \in Workflow :
         AddWorkflow(p, w) \/ Finish(p, w) \/ Requeue(p, w) \/ Drop(p, w)

Spec == Init /\ [][Next]_vars

\* The event loop of a live process keeps running what is ready, Redis answers
\* (a call either succeeds or fails) and a plugin's handler settles.  Events,
\* faults and crashes need not happen.
Fairness ==
  \A p \in Process :
    /\ WF_vars(Start(p))
    /\ WF_vars(HandleStorageStartupConfig(p))
    /\ WF_vars(OpReads(p) \/ OpWrites(p))
    /\ WF_vars(ExecutorLoop(p))
    /\ \A w \in Workflow : WF_vars(Task(p, w))

FairSpec == Spec /\ Fairness

-----------------------------------------------------------------------------
(* Safety.                                                                 *)

InQueue(w) == w \in Range(queue)
InActive(w) == w \in Range(active)

\* The processes that execute w, or are about to.
Executing(w) == {p \in Process : tasks[p][w] > 0 \/ taken[p] = w}

\* A key is in the two lists at most once in all, however often it was added,
\* retried or requeued: add pushes only keys Redis has never seen, requeue first
\* removes the key from both lists.
OneEntry ==
  /\ IsInjective(queue)
  /\ IsInjective(active)
  /\ Range(queue) \cap Range(active) = {}

\* A workflow that is not complete is in one of the lists: between the steps of
\* adding, taking and requeueing it, and across crashes, it is never only a key.
NoLostWorkflow ==
  \A w \in Workflow : kv[w] = "json" => InQueue(w) \/ InActive(w)

\* Executors read the length of the active list and then take: each process but
\* one may overshoot the limit by one workflow, and never by more.
ActiveBound == Len(active) <= MaxActive + Cardinality(Executor) - 1

\* A workflow no requeue of which was left in doubt is executed by one task at a
\* time, while the active list holds it; complete, it is neither listed nor executed.
ExclusiveUnlessAmbiguous ==
  \A w \in Workflow \ ambiguous :
    /\ Cardinality(Executing(w)) <= 1
    /\ \A p \in Process : tasks[p][w] <= 1
    /\ Executing(w) # {} => kv[w] = "json" /\ InActive(w)
    /\ kv[w] = "complete" => ~InQueue(w) /\ ~InActive(w)

\* requeueWorkflow's "Trying to requeue workflow that doesn't exist" is never
\* thrown.  Thrown once it would stay at the head of the backlog and block every
\* later write of the process.
RequeueFindsKey ==
  \A p \in Process : \A i \in DOMAIN backlog[p] :
    backlog[p][i].op # "add" => kv[backlog[p][i].key] # "absent"

\* The storage implements the life cycle it promises.
StatusOf(w) ==
  CASE kv[w] = "absent" -> "unknown"
    [] kv[w] = "complete" -> "complete"
    [] kv[w] = "json" -> IF InActive(w) THEN "active" ELSE "queued"

Lifecycle == INSTANCE WorkflowLifecycle WITH status <- [w \in Workflow |-> StatusOf(w)]

ImplementsLifecycle == Lifecycle!Spec

-----------------------------------------------------------------------------
(* Liveness, under FairSpec.                                               *)

\* In the active list with nobody executing it.
Parked(w) == InActive(w) /\ Executing(w) = {}

\* Parked, and no executeBacklog call is about to write how its execution ended:
\* there is no such write (it was dropped, or its read failed), or the write failed
\* and stays in a backlog that nothing drains.
Abandoned(w) ==
  /\ Parked(w)
  /\ \A p \in Process : \A i \in DOMAIN backlog[p] :
       backlog[p][i].key = w /\ backlog[p][i].op # "add" => waiting[p] = 0

\* Abandoned workflows hold every slot: no executor takes anything.
Wedged == Cardinality({w \in Workflow : Abandoned(w)}) >= MaxActive

\* Whatever the storage holds settles: from any point of its life on, a workflow that
\* is not complete gets there or is abandoned, and one that is queued is taken, unless
\* abandoned ones hold all the slots.  Requeues end, and neither an overshoot of the
\* limit nor a process that stops at its startup check keeps others from being taken.
WorkflowsSettle ==
  \A w \in Workflow :
    kv[w] = "json" ~> (kv[w] = "complete" \/ Abandoned(w) \/ (InQueue(w) /\ Wedged))

\* redisStore.ts, above executeBacklog: "items inside the backlog do not need to wait
\* for a new item to enter the backlog before they can execute again".
BacklogDrains ==
  \A p \in Process : backlog[p] # <<>> ~> (backlog[p] = <<>> \/ waiting[p] > 0)

\* README, "crash / error recovery": an engine process that went down executes
\* workflows again some time after.
ProcessRecovers ==
  \A p \in Process : pc[p] = "down" ~> pc[p] = "poll"

\* storage.ts, "Number of active workflows currently being executed": a workflow
\* that nobody executes does not stay in the list that is counted.
ParkedLeaves == \A w \in Workflow : Parked(w) ~> ~Parked(w)
=============================================================================

----------------------------- MODULE WalletWorkers -----------------------------
(***************************************************************************)
(* The wallet workers of an executor (executorHarness.ts): per process and *)
(* chain one queue of actions and one worker for each private key.  A      *)
(* workflow's handler (handleWorkflow, here the dummy plugin's) hands      *)
(* actions to the queues, one after the other, and waits for each.         *)
(*                                                                         *)
(* The storage appears as the status of each workflow (WorkflowStorage     *)
(* says how it keeps it): queued, or in the active list as executing,      *)
(* dropped or, when its process is gone, orphaned.                         *)
(***************************************************************************)
EXTENDS Integers, Sequences, FiniteSets

CONSTANTS
  Process,     \* engine processes that execute
  Chain,       \* Wormhole chain ids
  Wallet,      \* private keys
  Workflow,    \* workflow keys
  Plan,        \* the chains of a handler's actions, in order; the dummy plugin's are 6 and 5
  Nowhere,     \* no process
  MaxRequeues, \* the literal 2 of requeueWorkflow
  MaxActive,   \* MAX_ACTIVE_WORKFLOWS, 10
  MaxHung      \* bound of the model: actions that never settle

\* The keys of each chain that has an entry.
IsWallets(keys) == \E S \in SUBSET Chain : keys \in [S -> Seq(Wallet)]

ASSUME WorkersAssumption ==
  /\ Plan \in Seq(Chain) /\ Plan # <<>>
  /\ Nowhere \notin Process
  /\ MaxRequeues \in Nat /\ MaxActive \in Nat /\ MaxHung \in Nat

VARIABLES
  workers,     \* per process: workerInfoMap, the keys of its workers by chain; no entry, no queue
  spawned,     \* processes whose executor is running
  actionQueue, \* per process and chain: workflows whose action waits, the oldest first
  running,     \* <<process, chain, worker, workflow>>: the worker awaits the workflow's action
  at,          \* per workflow: the process its handler runs in
  step,        \* per workflow: the action of Plan its handler awaits; past the last, it sleeps
  status,      \* per workflow: what the storage says
  requeues,    \* per process and workflow: numTimesWorkflowRequeued
  hung         \* workflows whose action will never settle

workerVars == <<workers, spawned, actionQueue, running, at, step, status, requeues, hung>>

Slot == Nat \ {0}
Status == {"unknown", "queued", "executing", "dropped", "orphaned", "complete"}
NoQueues == [c \in Chain |-> <<>>]
NoRequeues == [w \in Workflow |-> 0]

WorkersTypeOK ==
  /\ workers = [p \in Process |-> workers[p]]
  /\ \A p \in Process : IsWallets(workers[p])
  /\ spawned \subseteq Process
  /\ actionQueue \in [Process -> [Chain -> Seq(Workflow)]]
  /\ running \subseteq Process \X Chain \X Slot \X Workflow
  /\ at \in [Workflow -> Process \cup {Nowhere}]
  /\ step \in [Workflow -> 1..(Len(Plan) + 1)]
  /\ status \in [Workflow -> Status]
  /\ requeues \in [Process -> [Workflow -> 0..(MaxRequeues + 1)]]
  /\ hung \subseteq Workflow
  /\ \A w \in Workflow : at[w] # Nowhere <=> status[w] = "executing"

WorkersInit ==
  /\ workers = [p \in Process |-> <<>>]
  /\ spawned = {}
  /\ actionQueue = [p \in Process |-> NoQueues]
  /\ running = {}
  /\ at = [w \in Workflow |-> Nowhere]
  /\ step = [w \in Workflow |-> 1]
  /\ requeues = [p \in Process |-> NoRequeues]
  /\ hung = {}

-----------------------------------------------------------------------------
(* run, spawnWalletWorkers.                                                *)

\* What numActiveWorkflows counts, dropped and orphaned workflows included.
Active == {w \in Workflow : status[w] \in {"executing", "dropped", "orphaned"}}

\* What the startup check asks of the storage (see HandleStorageStartupConfig of
\* WorkflowStorage): with anything in the active list it fails.
NoneActive == Active = {}

SpawnWalletWorkers(p, keys) ==
  /\ p \notin spawned
  /\ NoneActive
  /\ spawned' = spawned \cup {p}
  /\ workers' = [workers EXCEPT ![p] = keys]
  /\ UNCHANGED <<actionQueue, running, at, step, status, requeues, hung>>

\* What the process kept in memory is gone; its workflows stay in the active list.
ForgetWorkers(p) ==
  /\ spawned' = spawned \ {p}
  /\ workers' = [workers EXCEPT ![p] = <<>>]
  /\ actionQueue' = [actionQueue EXCEPT ![p] = NoQueues]
  /\ running' = {r \in running : r[1] # p}
  /\ at' = [w \in Workflow |-> IF at[w] = p THEN Nowhere ELSE at[w]]
  /\ step' = [w \in Workflow |-> IF at[w] = p THEN 1 ELSE step[w]]
  /\ requeues' = [requeues EXCEPT ![p] = NoRequeues]
  /\ hung' = {w \in hung : at[w] # p}

-----------------------------------------------------------------------------
(* The handler.  Its promise rejects: requeueWorkflow, or dropped.         *)

\* Mutation of HandlerRejects: one requeue too many.
HandlerRejectsOneMore(w, p) ==
  /\ at' = [at EXCEPT ![w] = Nowhere]
  /\ step' = [step EXCEPT ![w] = 1]
  /\ requeues' = [requeues EXCEPT ![p][w] = @ + 1]
  /\ status' = [status EXCEPT ![w] =
                   IF requeues[p][w] <= MaxRequeues + 1 THEN "queued" ELSE "dropped"]

HandlerRejects(w, p) ==
  /\ at' = [at EXCEPT ![w] = Nowhere]
  /\ step' = [step EXCEPT ![w] = 1]
  /\ \/ /\ requeues[p][w] <= MaxRequeues
        /\ requeues' = [requeues EXCEPT ![p][w] = @ + 1]
        /\ status' = [status EXCEPT ![w] = "queued"]
     \/ /\ requeues[p][w] > MaxRequeues
        /\ status' = [status EXCEPT ![w] = "dropped"]
        /\ UNCHANGED requeues

\* execute(action n): makeExecuteFunc enqueues it, or rejects when there is no queue.
Execute(w, p, n) ==
  \/ /\ Plan[n] \in DOMAIN workers[p]
     /\ actionQueue' = [actionQueue EXCEPT ![p][Plan[n]] = Append(@, w)]
     /\ at' = [at EXCEPT ![w] = p]
     /\ step' = [step EXCEPT ![w] = n]
     /\ status' = [status EXCEPT ![w] = "executing"]
     /\ UNCHANGED requeues
  \/ /\ Plan[n] \notin DOMAIN workers[p]
     /\ HandlerRejects(w, p)
     /\ UNCHANGED actionQueue

\* The loop finds a slot and takes a queued workflow (with one process nothing is added
\* to the active list after the look): handleWorkflow runs to its first action.
SpawnWorkflow(p, w) ==
  /\ p \in spawned
  /\ Cardinality(Active) < MaxActive
  /\ status[w] = "queued"
  /\ Execute(w, p, 1)
  /\ UNCHANGED <<workers, spawned, running, hung>>

\* After the last action the handler sleeps, and then returns ...
HandlerResolves(w) ==
  /\ at[w] # Nowhere /\ step[w] = Len(Plan) + 1
  /\ at' = [at EXCEPT ![w] = Nowhere]
  /\ step' = [step EXCEPT ![w] = 1]
  /\ status' = [status EXCEPT ![w] = "complete"]
  /\ UNCHANGED <<workers, spawned, actionQueue, running, requeues, hung>>

\* ... or throws, "Simulating workflow failure".
HandlerThrows(w) ==
  /\ at[w] # Nowhere /\ step[w] = Len(Plan) + 1
  /\ HandlerRejects(w, at[w])
  /\ UNCHANGED <<workers, spawned, actionQueue, running, hung>>

-----------------------------------------------------------------------------
(* spawnWalletWorker.                                                      *)

\* Mutation of Free: the worker does not wait for its action.
FreeAlways(p, c, i) == c \in DOMAIN workers[p] /\ i \in DOMAIN workers[p][c]

Free(p, c, i) ==
  /\ c \in DOMAIN workers[p] /\ i \in DOMAIN workers[p][c]
  /\ \A w \in Workflow : <<p, c, i, w>> \notin running

\* Mutation of WorkerTakes: front() instead of dequeue().
WorkerPeeks(p, c, i) ==
  /\ Free(p, c, i)
  /\ actionQueue[p][c] # <<>>
  /\ running' = running \cup {<<p, c, i, Head(actionQueue[p][c])>>}
  /\ UNCHANGED <<workers, spawned, actionQueue, at, step, status, requeues, hung>>

\* The queue is not empty: dequeue, and run the action.
WorkerTakes(p, c, i) ==
  /\ Free(p, c, i)
  /\ actionQueue[p][c] # <<>>
  /\ running' = running \cup {<<p, c, i, Head(actionQueue[p][c])>>}
  /\ actionQueue' = [actionQueue EXCEPT ![p][c] = Tail(@)]
  /\ UNCHANGED <<workers, spawned, at, step, status, requeues, hung>>

\* action.f resolves, and so does the promise the handler awaits: it hands over
\* its next action or, after the last, goes to sleep.
ActionResolves(p, c, i, w) ==
  /\ <<p, c, i, w>> \in running /\ w \notin hung
  /\ running' = running \ {<<p, c, i, w>>}
  /\ \/ step[w] < Len(Plan) /\ Execute(w, p, step[w] + 1)
     \/ /\ step[w] = Len(Plan)
        /\ step' = [step EXCEPT ![w] = @ + 1]
        /\ UNCHANGED <<actionQueue, at, status, requeues>>
  /\ UNCHANGED <<workers, spawned, hung>>

\* Mutation of ActionRejects: the worker logs the error and rejects nothing.
ActionRejectUnanswered(p, c, i, w) ==
  /\ <<p, c, i, w>> \in running /\ w \notin hung
  /\ running' = running \ {<<p, c, i, w>>}
  /\ UNCHANGED <<workers, spawned, actionQueue, at, step, status, requeues, hung>>

\* action.f rejects: the worker rejects the promise and goes on.
ActionRejects(p, c, i, w) ==
  /\ <<p, c, i, w>> \in running /\ w \notin hung
  /\ running' = running \ {<<p, c, i, w>>}
  /\ HandlerRejects(w, p)
  /\ UNCHANGED <<workers, spawned, actionQueue, hung>>

\* A call of the action is never answered.
ActionHangs(p, c, i, w) ==
  /\ <<p, c, i, w>> \in running
  /\ Cardinality(hung) < MaxHung
  /\ hung' = hung \cup {w}
  /\ UNCHANGED <<workers, spawned, actionQueue, running, at, step, status, requeues>>

-----------------------------------------------------------------------------
ActionSettles(p, c, i, w) == ActionResolves(p, c, i, w) \/ ActionRejects(p, c, i, w)

ExecutorSteps(p) ==
  \/ \E w \in Workflow : SpawnWorkflow(p, w)
  \/ \E c \in DOMAIN workers[p] : \E i \in DOMAIN workers[p][c] :
       \/ WorkerTakes(p, c, i)
       \/ \E w \in Workflow :
            ActionResolves(p, c, i, w) \/ ActionRejects(p, c, i, w) \/ ActionHangs(p, c, i, w)

HandlerSteps == \E w \in Workflow : HandlerResolves(w) \/ HandlerThrows(w)

-----------------------------------------------------------------------------
(* Properties.                                                             *)

Acting(w) == at[w] # Nowhere /\ step[w] \in DOMAIN Plan

\* How often w's action is in the queue of chain c of process p.
Queued(p, c, w) == {i \in DOMAIN actionQueue[p][c] : actionQueue[p][c][i] = w}
RunBy(w) == {r \in running : r[4] = w}

\* An action that a handler awaits is in one place: once in the queue of its chain
\* and process, or with one worker of that queue; any other action is nowhere.  So
\* it is run once and its handler hears from it once, whatever the other handlers,
\* rejections, requeues and the end of a process do.
ActionsAccounted ==
  /\ \A p \in Process, c \in Chain, w \in Workflow :
       /\ \A i, j \in Queued(p, c, w) : i = j
       /\ Queued(p, c, w) # {} =>
            Acting(w) /\ at[w] = p /\ Plan[step[w]] = c /\ RunBy(w) = {}
  /\ \A r \in running :
       /\ RunBy(r[4]) = {r}
       /\ Acting(r[4]) /\ at[r[4]] = r[1] /\ Plan[step[r[4]]] = r[2]
  /\ \A w \in Workflow :
       Acting(w) => RunBy(w) # {} \/ Queued(at[w], Plan[step[w]], w) # {}

\* The wallet a worker signs with, on its chain.
WalletOf(r) == <<r[2], workers[r[1]][r[2]][r[3]]>>

ListedOnce(p) ==
  \A c \in DOMAIN workers[p] : \A i, j \in DOMAIN workers[p][c] :
    workers[p][c][i] = workers[p][c][j] => i = j

\* Inside one process two actions under way do not use one wallet, unless the
\* configuration lists a key twice for a chain: each wallet has a worker, and the
\* worker awaits its action.
ExclusiveInProcess ==
  \A r, s \in running :
    r[1] = s[1] /\ ListedOnce(r[1]) /\ WalletOf(r) = WalletOf(s) => r = s

\* The workflow's action hangs, or every worker of its chain has one that hangs.
Starved(w) ==
  /\ Acting(w)
  /\ \/ w \in hung
     \/ \A i \in DOMAIN workers[at[w]][Plan[step[w]]] :
          \E v \in hung : <<at[w], Plan[step[w]], i, v>> \in running

\* Workflows that keep their slot until the process ends.
HeldSlots == {w \in Workflow : status[w] \in {"dropped", "orphaned"} \/ Starved(w)}
=============================================================================

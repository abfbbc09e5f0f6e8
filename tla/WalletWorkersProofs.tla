-------------------------- MODULE WalletWorkersProofs --------------------------
(***************************************************************************)
(* The steps of WalletWorkers preserve ActionsAccounted and                *)
(* ExclusiveInProcess, for any processes, chains, keys, workflows and      *)
(* plans.  EngineProcessProofs puts them together.                         *)
(***************************************************************************)
EXTENDS WalletWorkers, TLAPS

Positions(list, x) == {i \in DOMAIN list : list[i] = x}

\* ActionsAccounted, for one workflow.
Accounted(w) ==
  /\ \A p \in Process, c \in Chain :
       /\ \A i, j \in Queued(p, c, w) : i = j
       /\ Queued(p, c, w) # {} =>
            Acting(w) /\ at[w] = p /\ Plan[step[w]] = c /\ RunBy(w) = {}
  /\ \A r \in RunBy(w) :
       RunBy(w) = {r} /\ Acting(w) /\ at[w] = r[1] /\ Plan[step[w]] = r[2]
  /\ Acting(w) => RunBy(w) # {} \/ Queued(at[w], Plan[step[w]], w) # {}

IsRun(r) ==
  /\ r = <<r[1], r[2], r[3], r[4]>>
  /\ r[1] \in Process /\ r[2] \in Chain /\ r[4] \in Workflow

\* A worker that exists runs the action, and no other.
Employed ==
  \A r \in running : r[2] \in DOMAIN workers[r[1]] /\ r[3] \in DOMAIN workers[r[1]][r[2]]

OnePerWorker ==
  \A r, s \in running : r[1] = s[1] /\ r[2] = s[2] /\ r[3] = s[3] => r = s

WorkersTypes ==
  /\ DOMAIN workers = Process
  /\ \A p \in Process : DOMAIN workers[p] \subseteq Chain
  /\ spawned \subseteq Process
  /\ actionQueue \in [Process -> [Chain -> Seq(Workflow)]]
  /\ \A r \in running : IsRun(r)
  /\ at \in [Workflow -> Process \cup {Nowhere}]
  /\ step \in [Workflow -> Nat]
  /\ status \in [Workflow -> Status]

\* Only a running executor has handlers, and the storage says that they execute.
HandlersExecute ==
  \A w \in Workflow : at[w] # Nowhere => at[w] \in spawned /\ status[w] = "executing"

WorkersInv ==
  /\ WorkersTypes
  /\ HandlersExecute
  /\ \A w \in Workflow : Accounted(w)
  /\ Employed
  /\ OnePerWorker

-----------------------------------------------------------------------------
(* From the invariant to the properties.                                   *)

\* An action a handler awaits is in one place (makeExecuteFunc, spawnWalletWorker).
LEMMA InvAccounts ==
  ASSUME WorkersInv PROVE ActionsAccounted
<1>1. \A r \in running : r[4] \in Workflow /\ r \in RunBy(r[4])
  BY DEF WorkersInv, WorkersTypes, IsRun, RunBy
<1> QED BY <1>1 DEF WorkersInv, Accounted, ActionsAccounted

\* Workers of one process that have different keys run at most one action each, so
\* that no wallet is used twice.
LEMMA InvExcludes ==
  ASSUME WorkersInv PROVE ExclusiveInProcess
<1> SUFFICES ASSUME NEW r \in running, NEW s \in running,
                    r[1] = s[1], ListedOnce(r[1]), WalletOf(r) = WalletOf(s)
             PROVE  r = s
  BY DEF ExclusiveInProcess
<1>1. r[2] = s[2] /\ workers[r[1]][r[2]][r[3]] = workers[r[1]][r[2]][s[3]]
  BY DEF WalletOf
<1>2. /\ r[2] \in DOMAIN workers[r[1]]
      /\ r[3] \in DOMAIN workers[r[1]][r[2]] /\ s[3] \in DOMAIN workers[r[1]][r[2]]
  BY <1>1 DEF WorkersInv, Employed
<1>3. r[3] = s[3]
  BY <1>1, <1>2 DEF ListedOnce
<1> QED BY <1>1, <1>3 DEF WorkersInv, OnePerWorker

-----------------------------------------------------------------------------
(* The queue as a list.                                                    *)

\* enqueue() adds one place, the last.
LEMMA AppendPositions ==
  ASSUME NEW S, NEW list \in Seq(S), NEW x \in S
  PROVE  /\ Append(list, x) \in Seq(S)
         /\ Positions(Append(list, x), x) = Positions(list, x) \cup {Len(list) + 1}
         /\ \A y : y # x => Positions(Append(list, x), y) = Positions(list, y)
<1> DEFINE more == Append(list, x)
<1>1. /\ more \in Seq(S) /\ Len(list) \in Nat
      /\ DOMAIN list = 1..Len(list) /\ DOMAIN more = 1..(Len(list) + 1)
      /\ more[Len(list) + 1] = x
      /\ \A i \in 1..Len(list) : more[i] = list[i]
  OBVIOUS
<1> HIDE DEF more
<1>2. DOMAIN more = DOMAIN list \cup {Len(list) + 1} /\ Len(list) + 1 \notin DOMAIN list
  BY <1>1
<1>3. Positions(more, x) = Positions(list, x) \cup {Len(list) + 1}
  BY <1>1, <1>2 DEF Positions
<1>4. \A y : y # x => Positions(more, y) = Positions(list, y)
  BY <1>1, <1>2 DEF Positions
<1> QED BY <1>1, <1>3, <1>4 DEF more

\* dequeue() takes one place, the first, and moves the others.
LEMMA TailPositions ==
  ASSUME NEW S, NEW list \in Seq(S), list # <<>>
  PROVE  /\ Tail(list) \in Seq(S)
         /\ Head(list) \in S
         /\ 1 \in Positions(list, Head(list))
         /\ \A y : Positions(Tail(list), y) = {i - 1 : i \in Positions(list, y) \ {1}}
<1> DEFINE rest == Tail(list)
<1>1. /\ rest \in Seq(S) /\ Len(list) \in Nat /\ Len(list) > 0
      /\ DOMAIN list = 1..Len(list) /\ DOMAIN rest = 1..(Len(list) - 1)
      /\ Head(list) = list[1] /\ list[1] \in S
      /\ \A i \in 1..(Len(list) - 1) : rest[i] = list[i + 1]
  OBVIOUS
<1> HIDE DEF rest
<1>2. 1 \in Positions(list, Head(list))
  BY <1>1 DEF Positions
<1>3. ASSUME NEW y
      PROVE  Positions(rest, y) = {i - 1 : i \in Positions(list, y) \ {1}}
  <2>1. ASSUME NEW k \in Positions(rest, y)
        PROVE  k \in {i - 1 : i \in Positions(list, y) \ {1}}
    <3>1. k \in 1..(Len(list) - 1) /\ list[k + 1] = y
      BY <1>1, <2>1 DEF Positions
    <3>2. k + 1 \in 1..Len(list) /\ k + 1 # 1 /\ (k + 1) - 1 = k
      BY <1>1, <3>1
    <3>3. k + 1 \in Positions(list, y) \ {1}
      BY <1>1, <3>1, <3>2 DEF Positions
    <3> QED BY <3>2, <3>3
  <2>2. ASSUME NEW i \in Positions(list, y) \ {1}
        PROVE  i - 1 \in Positions(rest, y)
    <3>1. i \in 1..Len(list) /\ i # 1 /\ list[i] = y
      BY <1>1, <2>2 DEF Positions
    <3>2. i - 1 \in 1..(Len(list) - 1) /\ (i - 1) + 1 = i
      BY <1>1, <3>1
    <3>3. rest[i - 1] = list[i]
      BY <1>1, <3>2
    <3> QED BY <1>1, <3>1, <3>2, <3>3 DEF Positions
  <2> QED BY <2>1, <2>2
<1> QED BY <1>1, <1>2, <1>3 DEF rest

-----------------------------------------------------------------------------
(* What a step does not touch.                                             *)

\* A workflow whose handler, action and places in the queues stay is accounted for.
LEMMA OthersAccounted ==
  ASSUME NEW w \in Workflow, Accounted(w),
         at'[w] = at[w], step'[w] = step[w], RunBy(w)' = RunBy(w),
         \A p \in Process, c \in Chain :
           /\ Queued(p, c, w)' = {} <=> Queued(p, c, w) = {}
           /\ \A i, j \in Queued(p, c, w)' : i = j,
         Acting(w) => at[w] \in Process /\ Plan[step[w]] \in Chain
  PROVE  Accounted(w)'
<1>1. Acting(w)' <=> Acting(w)
  BY DEF Acting
<1> QED BY <1>1 DEF Accounted

\* A workflow whose handler awaits nothing is accounted for when it has no action.
LEMMA IdleAccounted ==
  ASSUME NEW w \in Workflow, ~Acting(w)', RunBy(w)' = {},
         \A p \in Process, c \in Chain : Queued(p, c, w)' = {}
  PROVE  Accounted(w)'
BY DEF Accounted

-----------------------------------------------------------------------------
(* The steps.                                                              *)

\* makeExecuteFunc, HandlerRejects and the end of a handler leave these alone.
WorkersFrame == UNCHANGED <<workers, spawned>>

\* Taking away actions leaves each worker with at most one.
LEMMA FewerRuns ==
  ASSUME Employed, OnePerWorker, WorkersFrame, running' \subseteq running
  PROVE  Employed' /\ OnePerWorker'
BY DEF Employed, OnePerWorker, WorkersFrame

\* A handler that ends, or goes to sleep, when nothing of it is in a queue.
LEMMA StopPreserves ==
  ASSUME WorkersInv, NEW w \in Workflow, WorkersFrame,
         \A p \in Process, c \in Chain : Queued(p, c, w) = {},
         UNCHANGED actionQueue,
         running' = running \ RunBy(w),
         at' \in [Workflow -> Process \cup {Nowhere}],
         step' \in [Workflow -> Nat],
         status' \in [Workflow -> Status],
         \A v \in Workflow \ {w} :
           at'[v] = at[v] /\ step'[v] = step[v] /\ status'[v] = status[v],
         at'[w] # Nowhere => at'[w] = at[w] /\ status'[w] = status[w],
         ~Acting(w)'
  PROVE  WorkersInv'
<1>1. WorkersTypes'
  BY DEF WorkersInv, WorkersTypes, WorkersFrame, IsRun
<1>2. HandlersExecute'
  BY DEF WorkersInv, HandlersExecute, WorkersFrame
<1>3. Employed' /\ OnePerWorker'
  BY FewerRuns DEF WorkersInv
<1>4. \A v \in Workflow, p \in Process, c \in Chain : Queued(p, c, v)' = Queued(p, c, v)
  BY DEF Queued
<1>5. RunBy(w)' = {} /\ \A v \in Workflow \ {w} : RunBy(v)' = RunBy(v)
  BY DEF RunBy
<1>6. Accounted(w)'
  BY <1>4, <1>5, IdleAccounted
<1>7. ASSUME NEW v \in Workflow, v # w
      PROVE  Accounted(v)'
  <2>1. Accounted(v) /\ (Acting(v) => at[v] \in Process /\ Plan[step[v]] \in Chain)
    BY WorkersAssumption DEF WorkersInv, WorkersTypes, Acting
  <2>2. \A p \in Process, c \in Chain : \A i, j \in Queued(p, c, v) : i = j
    BY <2>1 DEF Accounted
  <2>3. at'[v] = at[v] /\ step'[v] = step[v] /\ RunBy(v)' = RunBy(v)
    BY <1>5, <1>7
  <2>4. \A p \in Process, c \in Chain :
          /\ Queued(p, c, v)' = {} <=> Queued(p, c, v) = {}
          /\ \A i, j \in Queued(p, c, v)' : i = j
    BY <1>4, <2>2
  <2> QED BY <2>1, <2>3, <2>4, OthersAccounted
<1> QED BY <1>1, <1>2, <1>3, <1>6, <1>7 DEF WorkersInv

\* requeueWorkflow after the handler rejected.
LEMMA RejectPreserves ==
  ASSUME WorkersInv, NEW w \in Workflow, NEW p \in Process, WorkersFrame,
         \A q \in Process, c \in Chain : Queued(q, c, w) = {},
         UNCHANGED actionQueue,
         running' = running \ RunBy(w),
         HandlerRejects(w, p)
  PROVE  WorkersInv'
<1>1. /\ at \in [Workflow -> Process \cup {Nowhere}] /\ step \in [Workflow -> Nat]
      /\ status \in [Workflow -> Status]
  BY DEF WorkersInv, WorkersTypes
<1>2. /\ at' = [at EXCEPT ![w] = Nowhere] /\ step' = [step EXCEPT ![w] = 1]
      /\ \/ status' = [status EXCEPT ![w] = "queued"]
         \/ status' = [status EXCEPT ![w] = "dropped"]
  BY DEF HandlerRejects
<1>3. /\ at' \in [Workflow -> Process \cup {Nowhere}] /\ step' \in [Workflow -> Nat]
      /\ status' \in [Workflow -> Status] /\ at'[w] = Nowhere
      /\ \A v \in Workflow \ {w} :
           at'[v] = at[v] /\ step'[v] = step[v] /\ status'[v] = status[v]
  BY <1>1, <1>2 DEF Status
<1>4. ~Acting(w)'
  BY <1>3 DEF Acting
<1> QED BY <1>3, <1>4, StopPreserves

\* makeExecuteFunc: the next action goes to the end of its queue, or the handler
\* rejects for want of one.
LEMMA ExecutePreserves ==
  ASSUME WorkersInv, NEW w \in Workflow, NEW p \in spawned, NEW n \in DOMAIN Plan,
         WorkersFrame,
         \A q \in Process, c \in Chain : Queued(q, c, w) = {},
         running' = running \ RunBy(w),
         Execute(w, p, n)
  PROVE  WorkersInv'
<1>1. p \in Process
  BY DEF WorkersInv, WorkersTypes
<1>2. CASE Plan[n] \notin DOMAIN workers[p]
  BY <1>1, <1>2, RejectPreserves DEF Execute
<1>3. CASE Plan[n] \in DOMAIN workers[p]
  <2> DEFINE c == Plan[n]
  <2>1. /\ actionQueue' = [actionQueue EXCEPT ![p][c] = Append(@, w)]
        /\ at' = [at EXCEPT ![w] = p]
        /\ step' = [step EXCEPT ![w] = n]
        /\ status' = [status EXCEPT ![w] = "executing"]
    BY <1>3 DEF Execute
  <2>2. c \in Chain /\ n \in Nat
    BY WorkersAssumption
  <2>3. /\ actionQueue \in [Process -> [Chain -> Seq(Workflow)]]
        /\ at \in [Workflow -> Process \cup {Nowhere}] /\ step \in [Workflow -> Nat]
        /\ status \in [Workflow -> Status]
    BY DEF WorkersInv, WorkersTypes
  <2> HIDE DEF c
  <2>4. actionQueue[p][c] \in Seq(Workflow)
    BY <1>1, <2>2, <2>3
  <2>5. /\ Append(actionQueue[p][c], w) \in Seq(Workflow)
        /\ Positions(Append(actionQueue[p][c], w), w)
             = Positions(actionQueue[p][c], w) \cup {Len(actionQueue[p][c]) + 1}
        /\ \A v : v # w => Positions(Append(actionQueue[p][c], w), v)
                             = Positions(actionQueue[p][c], v)
    BY <2>4, AppendPositions
  <2>6. /\ actionQueue' \in [Process -> [Chain -> Seq(Workflow)]]
        /\ actionQueue'[p][c] = Append(actionQueue[p][c], w)
        /\ \A q \in Process, d \in Chain :
             ~(q = p /\ d = c) => actionQueue'[q][d] = actionQueue[q][d]
    BY <1>1, <2>1, <2>2, <2>3, <2>5
  <2>7. /\ at' \in [Workflow -> Process \cup {Nowhere}] /\ step' \in [Workflow -> Nat]
        /\ status' \in [Workflow -> Status]
        /\ at'[w] = p /\ step'[w] = n /\ status'[w] = "executing"
        /\ \A v \in Workflow \ {w} :
             at'[v] = at[v] /\ step'[v] = step[v] /\ status'[v] = status[v]
    BY <1>1, <2>1, <2>2, <2>3 DEF Status
  <2>8. \A q \in Process, d \in Chain, v \in Workflow :
          /\ Queued(q, d, v) = Positions(actionQueue[q][d], v)
          /\ Queued(q, d, v)' = Positions(actionQueue'[q][d], v)
    BY DEF Queued, Positions
  <2>9. \A v \in Workflow \ {w}, q \in Process, d \in Chain : Queued(q, d, v)' = Queued(q, d, v)
    <3> TAKE v \in Workflow \ {w}, q \in Process, d \in Chain
    <3>1. CASE q = p /\ d = c
      <4>1. Positions(actionQueue'[p][c], v) = Positions(actionQueue[p][c], v)
        BY <2>5, <2>6
      <4> QED BY <2>8, <3>1, <4>1
    <3>2. CASE ~(q = p /\ d = c)
      <4>1. actionQueue'[q][d] = actionQueue[q][d]
        BY <2>6, <3>2
      <4> QED BY <2>8, <4>1
    <3> QED BY <3>1, <3>2
  <2>10. /\ Queued(p, c, w)' = {Len(actionQueue[p][c]) + 1}
         /\ \A q \in Process, d \in Chain : ~(q = p /\ d = c) => Queued(q, d, w)' = {}
    <3>1. Positions(actionQueue[p][c], w) = {}
      BY <1>1, <2>2, <2>8
    <3>2. Queued(p, c, w)' = {Len(actionQueue[p][c]) + 1}
      <4>1. Positions(Append(actionQueue[p][c], w), w) = {Len(actionQueue[p][c]) + 1}
        BY <2>5, <3>1
      <4>2. Queued(p, c, w)' = Positions(actionQueue'[p][c], w)
        BY <1>1, <2>2, <2>8
      <4> QED BY <2>6, <4>1, <4>2
    <3>3. ASSUME NEW q \in Process, NEW d \in Chain, ~(q = p /\ d = c)
          PROVE  Queued(q, d, w)' = {}
      <4>1. actionQueue'[q][d] = actionQueue[q][d]
        BY <2>6, <3>3
      <4>2. Queued(q, d, w)' = Queued(q, d, w)
        BY <2>8, <4>1
      <4> QED BY <4>2
    <3> QED BY <3>2, <3>3
  <2>11. RunBy(w)' = {} /\ \A v \in Workflow \ {w} : RunBy(v)' = RunBy(v)
    BY DEF RunBy
  <2>12. Acting(w)'
    BY <1>1, <2>7, WorkersAssumption DEF Acting
  <2>13. Accounted(w)'
    BY <2>7, <2>10, <2>11, <2>12 DEF Accounted, c
  <2>14. ASSUME NEW v \in Workflow, v # w
         PROVE  Accounted(v)'
    <3>1. Accounted(v) /\ (Acting(v) => at[v] \in Process /\ Plan[step[v]] \in Chain)
      BY WorkersAssumption DEF WorkersInv, WorkersTypes, Acting
    <3>2. \A q \in Process, d \in Chain : \A i, j \in Queued(q, d, v) : i = j
      BY <3>1 DEF Accounted
    <3>3. at'[v] = at[v] /\ step'[v] = step[v] /\ RunBy(v)' = RunBy(v)
      BY <2>7, <2>11, <2>14
    <3>4. \A q \in Process, d \in Chain :
            /\ Queued(q, d, v)' = {} <=> Queued(q, d, v) = {}
            /\ \A i, j \in Queued(q, d, v)' : i = j
      BY <2>9, <2>14, <3>2
    <3> QED BY <3>1, <3>3, <3>4, OthersAccounted
  <2>15. WorkersTypes'
    BY <2>6, <2>7 DEF WorkersInv, WorkersTypes, WorkersFrame, IsRun
  <2>16. HandlersExecute'
    BY <2>7 DEF WorkersInv, HandlersExecute, WorkersFrame
  <2>17. Employed' /\ OnePerWorker'
    BY FewerRuns DEF WorkersInv
  <2> QED BY <2>13, <2>14, <2>15, <2>16, <2>17 DEF WorkersInv
<1> QED BY <1>2, <1>3

\* A queued workflow has neither handler nor action.
LEMMA WaitingHasNothing ==
  ASSUME WorkersInv, NEW w \in Workflow, at[w] = Nowhere
  PROVE  RunBy(w) = {} /\ \A q \in Process, c \in Chain : Queued(q, c, w) = {}
BY DEF WorkersInv, Accounted, Acting

\* An action under way is in no queue.
LEMMA RunningNotQueued ==
  ASSUME WorkersInv, NEW r \in running
  PROVE  /\ r[4] \in Workflow /\ RunBy(r[4]) = {r}
         /\ Acting(r[4]) /\ at[r[4]] = r[1] /\ Plan[step[r[4]]] = r[2]
         /\ r[1] \in spawned
         /\ \A q \in Process, c \in Chain : Queued(q, c, r[4]) = {}
<1>1. r[4] \in Workflow /\ r \in RunBy(r[4])
  BY DEF WorkersInv, WorkersTypes, IsRun, RunBy
<1>2. Accounted(r[4])
  BY <1>1 DEF WorkersInv
<1>3. RunBy(r[4]) = {r} /\ Acting(r[4]) /\ at[r[4]] = r[1] /\ Plan[step[r[4]]] = r[2]
  BY <1>1, <1>2 DEF Accounted
<1>4. \A q \in Process, c \in Chain : Queued(q, c, r[4]) = {}
  BY <1>2, <1>3 DEF Accounted
<1>5. r[1] \in spawned
  BY <1>1, <1>3 DEF Acting, WorkersInv, HandlersExecute
<1> QED BY <1>1, <1>3, <1>4, <1>5

\* spawnWorkflow, up to the handler's first action.
LEMMA SpawnWorkflowPreserves ==
  ASSUME WorkersInv, NEW p \in Process, NEW w \in Workflow, SpawnWorkflow(p, w)
  PROVE  WorkersInv'
<1>1. at[w] = Nowhere
  BY DEF SpawnWorkflow, WorkersInv, HandlersExecute
<1>2. RunBy(w) = {} /\ \A q \in Process, c \in Chain : Queued(q, c, w) = {}
  BY <1>1, WaitingHasNothing
<1>3. WorkersFrame /\ running' = running \ RunBy(w) /\ p \in spawned /\ Execute(w, p, 1)
  BY <1>2 DEF SpawnWorkflow, WorkersFrame
<1>4. 1 \in DOMAIN Plan
  BY WorkersAssumption
<1> QED BY <1>2, <1>3, <1>4, ExecutePreserves

\* The handler returns or throws after its last action.
LEMMA HandlerPreserves ==
  ASSUME WorkersInv, NEW w \in Workflow, HandlerResolves(w) \/ HandlerThrows(w)
  PROVE  WorkersInv'
<1>1. at[w] # Nowhere /\ step[w] = Len(Plan) + 1
  BY DEF HandlerResolves, HandlerThrows
<1>2. ~Acting(w)
  <2>1. Len(Plan) \in Nat /\ DOMAIN Plan = 1..Len(Plan)
    BY WorkersAssumption
  <2>2. Len(Plan) + 1 \notin DOMAIN Plan
    BY <2>1
  <2> QED BY <1>1, <2>2 DEF Acting
<1>3. RunBy(w) = {} /\ \A q \in Process, c \in Chain : Queued(q, c, w) = {}
  BY <1>2 DEF WorkersInv, Accounted
<1>4. /\ at \in [Workflow -> Process \cup {Nowhere}] /\ step \in [Workflow -> Nat]
      /\ status \in [Workflow -> Status]
  BY DEF WorkersInv, WorkersTypes
<1>5. /\ WorkersFrame /\ UNCHANGED actionQueue /\ running' = running \ RunBy(w)
  BY <1>3 DEF HandlerResolves, HandlerThrows, WorkersFrame
<1>6. CASE HandlerResolves(w)
  <2>1. /\ at' = [at EXCEPT ![w] = Nowhere] /\ step' = [step EXCEPT ![w] = 1]
        /\ status' = [status EXCEPT ![w] = "complete"]
    BY <1>6 DEF HandlerResolves
  <2>2. /\ at' \in [Workflow -> Process \cup {Nowhere}] /\ step' \in [Workflow -> Nat]
        /\ status' \in [Workflow -> Status] /\ at'[w] = Nowhere
        /\ \A v \in Workflow \ {w} :
             at'[v] = at[v] /\ step'[v] = step[v] /\ status'[v] = status[v]
    BY <1>4, <2>1 DEF Status
  <2>3. ~Acting(w)'
    BY <2>2 DEF Acting
  <2> QED BY <1>3, <1>5, <2>2, <2>3, StopPreserves
<1>7. CASE HandlerThrows(w)
  <2>1. at[w] \in Process /\ HandlerRejects(w, at[w])
    BY <1>1, <1>4, <1>7 DEF HandlerThrows
  <2> QED BY <1>3, <1>5, <2>1, RejectPreserves
<1> QED BY <1>6, <1>7

\* A worker answers: its handler goes on to the next action or to sleep, or rejects.
LEMMA ActionSettlesPreserves ==
  ASSUME WorkersInv, NEW p \in Process, NEW c, NEW i, NEW w \in Workflow,
         ActionResolves(p, c, i, w) \/ ActionRejects(p, c, i, w)
  PROVE  WorkersInv'
<1> DEFINE r == <<p, c, i, w>>
<1>1. r \in running /\ r[1] = p /\ r[4] = w /\ running' = running \ {r} /\ WorkersFrame
  BY DEF ActionResolves, ActionRejects, WorkersFrame
<1> HIDE DEF r
<1>2. /\ RunBy(w) = {r} /\ Acting(w) /\ p \in spawned
      /\ \A q \in Process, d \in Chain : Queued(q, d, w) = {}
  BY <1>1, RunningNotQueued
<1>3. running' = running \ RunBy(w)
  BY <1>1, <1>2
<1>4. /\ step \in [Workflow -> Nat] /\ at \in [Workflow -> Process \cup {Nowhere}]
      /\ status \in [Workflow -> Status]
  BY DEF WorkersInv, WorkersTypes
<1>5. /\ Len(Plan) \in Nat /\ DOMAIN Plan = 1..Len(Plan) /\ step[w] \in 1..Len(Plan)
  BY <1>2, WorkersAssumption DEF Acting
<1>6. CASE ActionRejects(p, c, i, w)
  BY <1>1, <1>2, <1>3, <1>6, RejectPreserves DEF ActionRejects
<1>7. CASE ActionResolves(p, c, i, w) /\ step[w] < Len(Plan)
  <2>1. step[w] + 1 \in DOMAIN Plan /\ step[w] # Len(Plan)
    BY <1>5, <1>7
  <2>2. Execute(w, p, step[w] + 1)
    BY <1>7, <2>1 DEF ActionResolves
  <2> QED BY <1>1, <1>2, <1>3, <2>1, <2>2, ExecutePreserves
<1>8. CASE ActionResolves(p, c, i, w) /\ ~(step[w] < Len(Plan))
  <2>1. step' = [step EXCEPT ![w] = @ + 1] /\ UNCHANGED <<actionQueue, at, status>>
    BY <1>8 DEF ActionResolves
  <2>2. step'[w] = Len(Plan) + 1
    BY <1>4, <1>5, <1>8, <2>1 DEF ActionResolves
  <2>3. step'[w] \notin DOMAIN Plan
    BY <1>5, <2>2
  <2>4. ~Acting(w)'
    BY <2>3 DEF Acting
  <2>5. /\ step' \in [Workflow -> Nat] /\ \A v \in Workflow \ {w} : step'[v] = step[v]
    BY <1>4, <2>1
  <2> QED BY <1>1, <1>2, <1>3, <1>4, <2>1, <2>4, <2>5, StopPreserves
<1> QED BY <1>6, <1>7, <1>8

\* A worker takes the first action of its queue, which then is in no queue.
LEMMA WorkerTakesPreserves ==
  ASSUME WorkersInv, NEW p \in Process, NEW c, NEW i, WorkerTakes(p, c, i)
  PROVE  WorkersInv'
<1>0. PICK w : w = Head(actionQueue[p][c])
  OBVIOUS
<1> DEFINE r == <<p, c, i, w>>
<1>1. /\ c \in DOMAIN workers[p] /\ i \in DOMAIN workers[p][c] /\ c \in Chain
      /\ \A v \in Workflow : <<p, c, i, v>> \notin running
      /\ actionQueue[p][c] # <<>>
      /\ running' = running \cup {r}
      /\ actionQueue' = [actionQueue EXCEPT ![p][c] = Tail(@)]
      /\ UNCHANGED <<workers, spawned, at, step, status>>
  BY <1>0 DEF WorkerTakes, Free, WorkersInv, WorkersTypes
<1>2. actionQueue \in [Process -> [Chain -> Seq(Workflow)]]
  BY DEF WorkersInv, WorkersTypes
<1>3. actionQueue[p][c] \in Seq(Workflow)
  BY <1>1, <1>2
<1>4. /\ Tail(actionQueue[p][c]) \in Seq(Workflow)
      /\ w \in Workflow
      /\ 1 \in Positions(actionQueue[p][c], w)
      /\ \A y : Positions(Tail(actionQueue[p][c]), y)
                  = {k - 1 : k \in Positions(actionQueue[p][c], y) \ {1}}
  BY <1>0, <1>1, <1>3, TailPositions
<1>5. \A y : 1 \in Positions(actionQueue[p][c], y) => y = w
  BY <1>4 DEF Positions
<1>6. r = <<p, c, i, w>> /\ r[1] = p /\ r[2] = c /\ r[3] = i /\ r[4] = w
  OBVIOUS
<1> HIDE DEF r
<1>7. /\ actionQueue' \in [Process -> [Chain -> Seq(Workflow)]]
      /\ actionQueue'[p][c] = Tail(actionQueue[p][c])
      /\ \A q \in Process, d \in Chain :
           ~(q = p /\ d = c) => actionQueue'[q][d] = actionQueue[q][d]
  BY <1>1, <1>2, <1>4
<1>8. \A q \in Process, d \in Chain, v \in Workflow :
        /\ Queued(q, d, v) = Positions(actionQueue[q][d], v)
        /\ Queued(q, d, v)' = Positions(actionQueue'[q][d], v)
  BY DEF Queued, Positions
<1>9. \A v \in Workflow : Queued(p, c, v)' = {k - 1 : k \in Queued(p, c, v) \ {1}}
  <2> TAKE v \in Workflow
  <2>1. Queued(p, c, v)' = Positions(Tail(actionQueue[p][c]), v)
    BY <1>1, <1>7, <1>8
  <2>2. Queued(p, c, v) = Positions(actionQueue[p][c], v)
    BY <1>1, <1>8
  <2> QED BY <1>4, <2>1, <2>2
<1>10. \A q \in Process, d \in Chain, v \in Workflow :
         ~(q = p /\ d = c) => Queued(q, d, v)' = Queued(q, d, v)
  <2> SUFFICES ASSUME NEW q \in Process, NEW d \in Chain, NEW v \in Workflow,
                      ~(q = p /\ d = c)
               PROVE  Queued(q, d, v)' = Queued(q, d, v)
    OBVIOUS
  <2>1. actionQueue'[q][d] = actionQueue[q][d]
    BY <1>7
  <2> QED BY <1>8, <2>1
<1>11. /\ Acting(w) /\ at[w] = p /\ Plan[step[w]] = c /\ RunBy(w) = {}
       /\ Queued(p, c, w) = {1}
       /\ \A q \in Process, d \in Chain : ~(q = p /\ d = c) => Queued(q, d, w) = {}
  <2>1. Accounted(w) /\ 1 \in Queued(p, c, w)
    BY <1>1, <1>4, <1>8 DEF WorkersInv
  <2>2. /\ \A k, l \in Queued(p, c, w) : k = l
        /\ Acting(w) /\ at[w] = p /\ Plan[step[w]] = c /\ RunBy(w) = {}
    BY <1>1, <2>1 DEF Accounted
  <2>3. \A q \in Process, d \in Chain :
          Queued(q, d, w) # {} => at[w] = q /\ Plan[step[w]] = d
    BY <2>1 DEF Accounted
  <2> QED BY <2>1, <2>2, <2>3
<1>12. \A q \in Process, d \in Chain : Queued(q, d, w)' = {}
  <2>1. Queued(p, c, w)' = {}
    BY <1>4, <1>9, <1>11
  <2> QED BY <1>4, <1>10, <1>11, <2>1
<1>13. RunBy(w)' = {r} /\ \A v \in Workflow \ {w} : RunBy(v)' = RunBy(v)
  BY <1>1, <1>6, <1>11 DEF RunBy
<1>14. Acting(w)'
  BY <1>1, <1>11 DEF Acting
<1>15. Accounted(w)'
  BY <1>1, <1>6, <1>11, <1>12, <1>13, <1>14 DEF Accounted
<1>16. ASSUME NEW v \in Workflow, v # w
       PROVE  Accounted(v)'
  <2>1. Accounted(v) /\ (Acting(v) => at[v] \in Process /\ Plan[step[v]] \in Chain)
    BY WorkersAssumption DEF WorkersInv, WorkersTypes, Acting
  <2>2. \A q \in Process, d \in Chain : \A k, l \in Queued(q, d, v) : k = l
    BY <2>1 DEF Accounted
  <2>3. at'[v] = at[v] /\ step'[v] = step[v] /\ RunBy(v)' = RunBy(v)
    BY <1>1, <1>13, <1>16
  <2>4. 1 \notin Queued(p, c, v)
    BY <1>1, <1>5, <1>8, <1>16
  <2>5. Queued(p, c, v)' = {k - 1 : k \in Queued(p, c, v)}
    BY <1>9, <2>4
  <2>6. /\ Queued(p, c, v)' = {} <=> Queued(p, c, v) = {}
        /\ \A k, l \in Queued(p, c, v)' : k = l
    BY <1>1, <2>2, <2>5
  <2>7. ASSUME NEW q \in Process, NEW d \in Chain
        PROVE  /\ Queued(q, d, v)' = {} <=> Queued(q, d, v) = {}
               /\ \A k, l \in Queued(q, d, v)' : k = l
    <3>1. CASE q = p /\ d = c
      BY <2>6, <3>1
    <3>2. CASE ~(q = p /\ d = c)
      BY <1>10, <2>2, <3>2
    <3> QED BY <3>1, <3>2
  <2> QED BY <2>1, <2>3, <2>7, OthersAccounted
<1>17. WorkersTypes'
  <2>1. IsRun(r)
    BY <1>1, <1>4, <1>6 DEF IsRun
  <2>2. \A s \in running' : IsRun(s)
    BY <1>1, <2>1 DEF WorkersInv, WorkersTypes
  <2> QED BY <1>1, <1>7, <2>2 DEF WorkersInv, WorkersTypes, IsRun
<1>18. HandlersExecute'
  BY <1>1 DEF WorkersInv, HandlersExecute
<1>19. Employed'
  BY <1>1, <1>6 DEF WorkersInv, Employed
<1>20. OnePerWorker'
  <2>1. ASSUME NEW s \in running, s[1] = p, s[2] = c, s[3] = i
        PROVE  FALSE
    <3>1. s = <<p, c, i, s[4]>> /\ s[4] \in Workflow
      BY <2>1 DEF WorkersInv, WorkersTypes, IsRun
    <3> QED BY <1>1, <3>1
  <2> QED BY <1>1, <1>6, <2>1 DEF WorkersInv, OnePerWorker
<1> QED BY <1>15, <1>16, <1>17, <1>18, <1>19, <1>20 DEF WorkersInv

\* An action that hangs stays where it is.
LEMMA ActionHangsPreserves ==
  ASSUME WorkersInv, NEW p, NEW c, NEW i, NEW w, ActionHangs(p, c, i, w)
  PROVE  WorkersInv'
<1>1. UNCHANGED <<workers, spawned, actionQueue, running, at, step, status>>
  BY DEF ActionHangs
<1>2. \A v \in Workflow : Accounted(v) => Accounted(v)'
  BY <1>1 DEF Accounted, Acting, RunBy, Queued
<1> QED
  BY <1>1, <1>2 DEF WorkersInv, WorkersTypes, IsRun, HandlersExecute, Employed, OnePerWorker

\* The storage changes what it says of workflows no handler has.
LEMMA StatusPreserves ==
  ASSUME WorkersInv, UNCHANGED <<workers, spawned, actionQueue, running, at, step>>,
         status' \in [Workflow -> Status],
         \A w \in Workflow : status[w] = "executing" => status'[w] = "executing"
  PROVE  WorkersInv'
<1>1. \A v \in Workflow : Accounted(v) => Accounted(v)'
  BY DEF Accounted, Acting, RunBy, Queued
<1> QED
  BY <1>1 DEF WorkersInv, WorkersTypes, IsRun, HandlersExecute, Employed, OnePerWorker

\* Before anything is started.
LEMMA WorkersStart ==
  ASSUME WorkersInit, status \in [Workflow -> Status]
  PROVE  WorkersInv
<1>1. WorkersTypes
  BY DEF WorkersInit, WorkersTypes, NoQueues
<1>2. \A p \in Process, c \in Chain, w \in Workflow : Queued(p, c, w) = {}
  BY DEF WorkersInit, NoQueues, Queued
<1>3. \A w \in Workflow : Accounted(w)
  BY <1>2 DEF WorkersInit, Accounted, Acting, RunBy
<1> QED
  BY <1>1, <1>3 DEF WorkersInit, WorkersInv, HandlersExecute, Employed, OnePerWorker

\* spawnWalletWorkers of a process that has run no executor yet.
LEMMA SpawnWalletWorkersPreserves ==
  ASSUME WorkersInv, NEW p \in Process, NEW keys, DOMAIN keys \subseteq Chain,
         SpawnWalletWorkers(p, keys)
  PROVE  WorkersInv'
<1>1. /\ p \notin spawned
      /\ spawned' = spawned \cup {p} /\ workers' = [workers EXCEPT ![p] = keys]
      /\ UNCHANGED <<actionQueue, running, at, step, status>>
  BY DEF SpawnWalletWorkers
<1>2. /\ DOMAIN workers' = Process /\ workers'[p] = keys
      /\ \A q \in Process \ {p} : workers'[q] = workers[q]
  BY <1>1 DEF WorkersInv, WorkersTypes
<1>3. WorkersTypes'
  BY <1>1, <1>2 DEF WorkersInv, WorkersTypes, IsRun
<1>4. \A v \in Workflow : Accounted(v) => Accounted(v)'
  BY <1>1 DEF Accounted, Acting, RunBy, Queued
<1>5. Employed'
  <2>1. \A r \in running : r[1] \in Process \ {p}
    BY <1>1, RunningNotQueued DEF WorkersInv, WorkersTypes
  <2> QED BY <1>1, <1>2, <2>1 DEF WorkersInv, Employed
<1> QED
  BY <1>1, <1>3, <1>4, <1>5 DEF WorkersInv, HandlersExecute, OnePerWorker

\* A process that ends takes its queues, its workers and its handlers with it.
LEMMA ForgetWorkersPreserves ==
  ASSUME WorkersInv, NEW p \in Process, ForgetWorkers(p),
         status' \in [Workflow -> Status],
         \A w \in Workflow : at[w] # p /\ at[w] # Nowhere => status'[w] = status[w]
  PROVE  WorkersInv'
<1>1. /\ DOMAIN workers = Process /\ \A q \in Process : DOMAIN workers[q] \subseteq Chain
      /\ actionQueue \in [Process -> [Chain -> Seq(Workflow)]]
      /\ at \in [Workflow -> Process \cup {Nowhere}] /\ step \in [Workflow -> Nat]
      /\ Nowhere \notin Process
  BY WorkersAssumption DEF WorkersInv, WorkersTypes
<1>2. /\ spawned' = spawned \ {p} /\ running' = {r \in running : r[1] # p}
      /\ workers' = [workers EXCEPT ![p] = <<>>]
      /\ actionQueue' = [actionQueue EXCEPT ![p] = NoQueues]
      /\ at' = [w \in Workflow |-> IF at[w] = p THEN Nowhere ELSE at[w]]
      /\ step' = [w \in Workflow |-> IF at[w] = p THEN 1 ELSE step[w]]
  BY DEF ForgetWorkers
<1>3. /\ DOMAIN workers' = Process /\ DOMAIN workers'[p] = {}
      /\ \A q \in Process \ {p} : workers'[q] = workers[q]
  BY <1>1, <1>2
<1>4. /\ actionQueue' \in [Process -> [Chain -> Seq(Workflow)]]
      /\ \A c \in Chain : actionQueue'[p][c] = <<>>
      /\ \A q \in Process \ {p}, c \in Chain : actionQueue'[q][c] = actionQueue[q][c]
  <2>1. NoQueues \in [Chain -> Seq(Workflow)] /\ \A c \in Chain : NoQueues[c] = <<>>
    BY DEF NoQueues
  <2> QED BY <1>1, <1>2, <2>1
<1>5. WorkersTypes'
  <2>1. /\ at' \in [Workflow -> Process \cup {Nowhere}] /\ step' \in [Workflow -> Nat]
    BY <1>1, <1>2
  <2>2. \A q \in Process : DOMAIN workers'[q] \subseteq Chain
    BY <1>1, <1>3
  <2>3. spawned' \subseteq Process /\ \A r \in running' : IsRun(r)
    BY <1>2 DEF WorkersInv, WorkersTypes
  <2> QED BY <1>3, <1>4, <2>1, <2>2, <2>3 DEF WorkersTypes, IsRun
<1>6. HandlersExecute'
  BY <1>1, <1>2 DEF WorkersInv, HandlersExecute
<1>7. \A q \in Process, c \in Chain, w \in Workflow :
        Queued(q, c, w)' = IF q = p THEN {} ELSE Queued(q, c, w)
  BY <1>4 DEF Queued
<1>8. \A r \in running : r[4] \in Workflow /\ at[r[4]] = r[1]
  BY RunningNotQueued
<1>9. \A w \in Workflow : RunBy(w)' = IF at[w] = p THEN {} ELSE RunBy(w)
  BY <1>2, <1>8 DEF RunBy
<1>10. ASSUME NEW w \in Workflow
       PROVE  Accounted(w)'
  <2>1. Accounted(w)
    BY DEF WorkersInv
  <2>2. CASE at[w] = p
    <3>1. at'[w] = Nowhere
      BY <1>2, <2>2
    <3>2. \A q \in Process, c \in Chain : Queued(q, c, w)' = {}
      BY <1>7, <2>1, <2>2 DEF Accounted
    <3> QED BY <1>9, <2>2, <3>1, <3>2, IdleAccounted DEF Acting
  <2>3. CASE at[w] # p
    <3>1. at'[w] = at[w] /\ step'[w] = step[w] /\ RunBy(w)' = RunBy(w)
      BY <1>2, <1>9, <2>3
    <3>2. \A q \in Process, c \in Chain : Queued(q, c, w)' = Queued(q, c, w)
      BY <1>7, <2>1, <2>3 DEF Accounted
    <3>3. \A q \in Process, c \in Chain : \A i, j \in Queued(q, c, w) : i = j
      BY <2>1 DEF Accounted
    <3>4. \A q \in Process, c \in Chain :
            /\ Queued(q, c, w)' = {} <=> Queued(q, c, w) = {}
            /\ \A i, j \in Queued(q, c, w)' : i = j
      BY <3>2, <3>3
    <3>5. Acting(w) => at[w] \in Process /\ Plan[step[w]] \in Chain
      BY <1>1, WorkersAssumption DEF Acting
    <3> QED BY <2>1, <3>1, <3>4, <3>5, OthersAccounted
  <2> QED BY <2>2, <2>3
<1>11. Employed' /\ OnePerWorker'
  BY <1>2, <1>3 DEF WorkersInv, WorkersTypes, IsRun, Employed, OnePerWorker
<1> QED BY <1>5, <1>6, <1>10, <1>11 DEF WorkersInv
=============================================================================

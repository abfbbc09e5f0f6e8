------------------------ MODULE WorkflowStorageProofs ------------------------
(***************************************************************************)
(* Safety of WorkflowStorage for any number of processes, workflows,       *)
(* faults and crashes.                                                     *)
(***************************************************************************)
EXTENDS WorkflowStorage, RedisListsProofs, FiniteSetTheorems

USE StorageAssumption

-----------------------------------------------------------------------------
(* Type correctness.                                                       *)

LEMMA TypeInit == Init => TypeOK
<1>. QED
  BY DEF Init, TypeOK, NoTasks, Value, Loc

\* Emptying the memory of a process.
LEMMA ClearMemoryType ==
  ASSUME TypeOK, NEW p \in Process, ClearMemory(p)
  PROVE  /\ taken' \in [Process -> Workflow \cup {None}]
         /\ tasks' \in [Process -> [Workflow -> Nat]]
         /\ requeues' \in [Process -> [Workflow -> 0..(MaxRequeues + 1)]]
         /\ seen' \in [Process -> Value \cup {"none"}]
         /\ backlog' \in [Process -> Seq(Op)]
         /\ waiting' \in [Process -> Nat]
         /\ \A q \in Process : seen'[q] # "none" => Running(q)'
<1>1. NoTasks \in [Workflow -> Nat] /\ NoTasks \in [Workflow -> 0..(MaxRequeues + 1)]
  BY DEF NoTasks
<1>. QED
  BY <1>1 DEF TypeOK, ClearMemory, Running

\* Pushing an operation on the backlog.
LEMMA RunOpWithRetryType ==
  ASSUME TypeOK, NEW p \in Process, NEW o \in {"add", "requeue", "complete"},
         NEW w \in Workflow, RunOpWithRetry(p, o, w)
  PROVE  /\ backlog' \in [Process -> Seq(Op)]
         /\ waiting' \in [Process -> Nat]
         /\ UNCHANGED seen
         /\ \A q \in Process : Running(q) => Running(q)' /\ Head(backlog'[q]) = Head(backlog[q])
<1>1. PICK x \in Op : x = [op |-> o, key |-> w]
  BY DEF Op
<1>2. PICK b \in Seq(Op) : b = backlog[p]
  BY DEF TypeOK
<1>3. /\ Append(b, x) \in Seq(Op) /\ Append(b, x) # <<>>
      /\ b # <<>> => Head(Append(b, x)) = Head(b)
  <2>1. Append(b, x) \in Seq(Op)
    OBVIOUS
  <2>2. Len(Append(b, x)) = Len(b) + 1 /\ Len(b) \in Nat
    OBVIOUS
  <2>3. Append(b, x) # <<>>
    BY <2>2
  <2>4. b # <<>> => Append(b, x)[1] = b[1]
    OBVIOUS
  <2>. QED
    BY <2>1, <2>3, <2>4
<1>4. /\ backlog' = [backlog EXCEPT ![p] = Append(b, x)]
      /\ waiting' = [waiting EXCEPT ![p] = waiting[p] + 1] /\ UNCHANGED seen
  BY <1>1, <1>2 DEF RunOpWithRetry
<1>5. backlog \in [Process -> Seq(Op)] /\ waiting \in [Process -> Nat]
  BY DEF TypeOK
<1>6. backlog' \in [Process -> Seq(Op)] /\ waiting' \in [Process -> Nat]
  BY <1>3, <1>4, <1>5
<1>7. ASSUME NEW q \in Process, Running(q)
      PROVE  Running(q)' /\ Head(backlog'[q]) = Head(backlog[q])
  <2>1. CASE q = p
    BY <1>2, <1>3, <1>4, <1>5, <1>7, <2>1 DEF Running
  <2>2. CASE q # p
    BY <1>4, <1>5, <1>7, <2>2 DEF Running
  <2>. QED
    BY <2>1, <2>2
<1>. QED
  BY <1>4, <1>6, <1>7

\* Counting a task that starts or ends.
LEMMA TasksChange ==
  ASSUME TypeOK, NEW p \in Process, NEW w \in Workflow, NEW n \in Nat,
         tasks' = [tasks EXCEPT ![p][w] = n]
  PROVE  /\ tasks' \in [Process -> [Workflow -> Nat]]
         /\ \A q \in Process, v \in Workflow :
              tasks'[q][v] = IF q = p /\ v = w THEN n ELSE tasks[q][v]
<1>1. tasks \in [Process -> [Workflow -> Nat]] /\ tasks[p] \in [Workflow -> Nat]
  BY DEF TypeOK
<1>2. [tasks[p] EXCEPT ![w] = n] \in [Workflow -> Nat]
  BY <1>1
<1>3. tasks' = [tasks EXCEPT ![p] = [tasks[p] EXCEPT ![w] = n]]
  OBVIOUS
<1>. QED
  BY <1>1, <1>2, <1>3

\* The operation at the head of a backlog that runs.
LEMMA HeadType ==
  ASSUME TypeOK, NEW p \in Process, Running(p)
  PROVE  /\ Head(backlog[p]) \in Op
         /\ Head(backlog[p]).key \in Workflow
         /\ Head(backlog[p]) = backlog[p][1]
         /\ 1 \in DOMAIN backlog[p]
         /\ Tail(backlog[p]) \in Seq(Op)
         /\ waiting[p] \in Nat \ {0}
<1>1. backlog[p] \in Seq(Op) /\ backlog[p] # <<>> /\ waiting[p] \in Nat \ {0}
  BY DEF TypeOK, Running
<1>2. Head(backlog[p]) \in Op
  BY <1>1
<1>. QED
  BY <1>1, <1>2 DEF Op

\* What an operation does to Redis keeps its types.
LEMMA WritesType ==
  ASSUME TypeOK, NEW o \in Op, NEW s, Writes(o, s)
  PROVE  /\ kv' \in [Workflow -> Value]
         /\ queue' \in Seq(Workflow)
         /\ active' \in Seq(Workflow)
<1>. DEFINE w == o.key
<1>1. w \in Workflow
  BY DEF Op
<1>2. LRem(queue, w) \in Seq(Workflow) /\ LRem(active, w) \in Seq(Workflow)
  BY LRemProperties DEF TypeOK
<1>3. LPush(queue, w) \in Seq(Workflow) /\ LPush(LRem(queue, w), w) \in Seq(Workflow)
  BY <1>1, <1>2, LPushProperties DEF TypeOK
<1>. HIDE DEF w
<1>4. CASE AddWrites(w)
  BY <1>1, <1>3, <1>4 DEF AddWrites, TypeOK, Value
<1>5. CASE RequeueWrites(w, s)
  BY <1>1, <1>2, <1>3, <1>5 DEF RequeueWrites, TypeOK, Value
<1>6. CASE CompleteWrites(w)
  BY <1>1, <1>2, <1>6 DEF CompleteWrites, TypeOK, Value
<1>. QED
  BY <1>4, <1>5, <1>6 DEF Writes, w

\* An operation that ends, either way, is no longer under way.
LEMMA OpDoneType ==
  ASSUME TypeOK, NEW p \in Process, Running(p), OpDone(p)
  PROVE  /\ backlog' \in [Process -> Seq(Op)] /\ waiting' \in [Process -> Nat]
         /\ \A q \in Process \ {p} : backlog'[q] = backlog[q] /\ waiting'[q] = waiting[q]
<1>1. Tail(backlog[p]) \in Seq(Op)
  BY HeadType
<1>. QED
  BY <1>1 DEF TypeOK, OpDone

LEMMA SeenCleared ==
  ASSUME TypeOK, NEW p \in Process, seen' = [seen EXCEPT ![p] = "none"]
  PROVE  /\ seen' \in [Process -> Value \cup {"none"}]
         /\ seen'[p] = "none"
         /\ \A q \in Process \ {p} : seen'[q] = seen[q]
<1>. QED
  BY DEF TypeOK

LEMMA TypeNext == TypeOK /\ [Next]_vars => TypeOK'
<1>. SUFFICES ASSUME TypeOK, [Next]_vars PROVE TypeOK'
  OBVIOUS
<1>1. CASE UNCHANGED vars
  BY <1>1 DEF TypeOK, vars, Running
<1>2. ASSUME NEW p \in Process, Start(p) PROVE TypeOK'
  BY <1>2 DEF TypeOK, Start, Loc, redis, wrapper, Running
<1>3. ASSUME NEW p \in Process, HandleStorageStartupConfig(p) PROVE TypeOK'
  <2>1. /\ pc' \in [Process -> Loc]
        /\ \A q \in Process \ Executor : pc'[q] \in {"down", "listening"}
    BY <1>3 DEF TypeOK, HandleStorageStartupConfig, Loc
  <2>2. CASE ClearMemory(p)
    <3>1. \A q \in Process : pc'[q] = "read" <=> taken'[q] # None
      BY <1>3, <2>2 DEF TypeOK, HandleStorageStartupConfig, ClearMemory
    <3>2. UNCHANGED <<kv, queue, active, faults, crashes, ambiguous>>
      BY <1>3 DEF HandleStorageStartupConfig, redis
    <3>. QED
      BY <2>1, <2>2, <3>1, <3>2, ClearMemoryType DEF TypeOK
  <2>3. CASE UNCHANGED <<taken, tasks, requeues, wrapper>>
    BY <1>3, <2>1, <2>3 DEF TypeOK, HandleStorageStartupConfig, redis, wrapper, Running
  <2>. QED
    BY <1>3, <2>2, <2>3 DEF HandleStorageStartupConfig
<1>4. ASSUME NEW p \in Process, Crash(p) PROVE TypeOK'
  <2>1. /\ pc' \in [Process -> Loc] /\ crashes' \in 0..MaxCrashes
        /\ \A q \in Process \ Executor : pc'[q] \in {"down", "listening"}
    BY <1>4 DEF TypeOK, Crash, Loc
  <2>2. ClearMemory(p)
    BY <1>4 DEF Crash
  <2>3. \A q \in Process : pc'[q] = "read" <=> taken'[q] # None
    BY <1>4 DEF TypeOK, Crash, ClearMemory
  <2>4. UNCHANGED <<kv, queue, active, faults, ambiguous>>
    BY <1>4 DEF Crash, redis
  <2>. QED
    BY <2>1, <2>2, <2>3, <2>4, ClearMemoryType DEF TypeOK
<1>5. ASSUME NEW p \in Process, OpReads(p) PROVE TypeOK'
  <2>1. Head(backlog[p]) \in Op /\ Head(backlog[p]).key \in Workflow /\ Running(p)
    BY <1>5, HeadType DEF OpReads
  <2>2. UNCHANGED <<kv, queue, active, pc, taken, tasks, requeues, faults, crashes, ambiguous>>
    BY <1>5 DEF OpReads, redis, executor
  <2>3. CASE OpDone(p) /\ UNCHANGED seen
    <3>1. \A q \in Process : seen'[q] # "none" => Running(q)'
      BY <1>5, <2>1, <2>3, OpDoneType DEF TypeOK, OpReads, Running
    <3>. QED
      BY <2>1, <2>2, <2>3, <3>1, OpDoneType DEF TypeOK
  <2>4. CASE /\ seen' = [seen EXCEPT ![p] = kv[Head(backlog[p]).key]]
             /\ UNCHANGED <<backlog, waiting>>
    BY <2>1, <2>2, <2>4 DEF TypeOK, Running
  <2>. QED
    BY <1>5, <2>3, <2>4 DEF OpReads
<1>6. ASSUME NEW p \in Process, OpWrites(p) \/ OpReplyLost(p) PROVE TypeOK'
  <2>1. /\ Running(p) /\ Head(backlog[p]) \in Op /\ Head(backlog[p]).key \in Workflow
        /\ waiting[p] \in Nat \ {0} /\ Writes(Head(backlog[p]), seen[p])
        /\ seen' = [seen EXCEPT ![p] = "none"]
    BY <1>6, HeadType DEF TypeOK, OpWrites, OpReplyLost
  <2>2. /\ kv' \in [Workflow -> Value] /\ queue' \in Seq(Workflow)
        /\ active' \in Seq(Workflow)
    BY <2>1, WritesType
  <2>3. UNCHANGED <<pc, taken, tasks, requeues, crashes>>
    BY <1>6 DEF OpWrites, OpReplyLost, executor
  <2>4. /\ backlog' \in [Process -> Seq(Op)] /\ waiting' \in [Process -> Nat]
        /\ \A q \in Process \ {p} : backlog'[q] = backlog[q] /\ waiting'[q] = waiting[q]
    <3>1. CASE OpDone(p)
      BY <2>1, <3>1, OpDoneType
    <3>2. CASE UNCHANGED backlog /\ waiting' = [waiting EXCEPT ![p] = @ - 1]
      BY <2>1, <3>2 DEF TypeOK
    <3>. QED
      BY <1>6, <3>1, <3>2 DEF OpWrites, OpReplyLost
  <2>5. \A q \in Process : seen'[q] # "none" => Running(q)'
    BY <2>1, <2>4, SeenCleared DEF TypeOK, Running
  <2>6. faults' \in 0..MaxFaults /\ ambiguous' \in SUBSET Workflow
    <3>1. CASE UNCHANGED <<faults, ambiguous>>
      BY <3>1 DEF TypeOK
    <3>2. CASE OpReplyLost(p)
      BY <2>1, <3>2 DEF TypeOK, OpReplyLost
    <3>. QED
      BY <1>6, <3>1, <3>2 DEF OpWrites
  <2>. QED
    BY <2>1, <2>2, <2>3, <2>4, <2>5, <2>6, SeenCleared DEF TypeOK
<1>7. ASSUME NEW p \in Process, OpFails(p) PROVE TypeOK'
  <2>1. Running(p) /\ OpThrown(p)
    BY <1>7 DEF TypeOK, OpFails
  <2>2. /\ waiting' \in [Process -> Nat] /\ UNCHANGED backlog
        /\ seen' \in [Process -> Value \cup {"none"}]
        /\ \A q \in Process : seen'[q] # "none" => Running(q)'
    BY <2>1, HeadType DEF TypeOK, OpThrown, Running
  <2>3. /\ UNCHANGED <<kv, queue, active, pc, taken, tasks, requeues, crashes, ambiguous>>
        /\ faults' \in 0..MaxFaults
    BY <1>7 DEF TypeOK, OpFails, redis, executor
  <2>. QED
    BY <2>2, <2>3 DEF TypeOK
<1>8. ASSUME NEW p \in Process, Poll(p) PROVE TypeOK'
  BY <1>8 DEF TypeOK, Poll, Running, Loc, redis, wrapper
<1>9. ASSUME NEW p \in Process, Take(p) PROVE TypeOK'
  <2>1. /\ LeftOf(queue) \in Workflow /\ PopLeft(queue) \in Seq(Workflow)
        /\ PushRight(active, LeftOf(queue)) \in Seq(Workflow)
    BY <1>9, PopLeftProperties, PushRightProperties DEF TypeOK, Take, Running
  <2>. QED
    BY <1>9, <2>1 DEF TypeOK, Take, Running, Loc, wrapper
<1>10. ASSUME NEW p \in Process, TakeTimeout(p) PROVE TypeOK'
  BY <1>10 DEF TypeOK, TakeTimeout, Running, Loc, redis, wrapper
<1>11. ASSUME NEW p \in Process, Spawn(p) PROVE TypeOK'
  <2>1. tasks' \in [Process -> [Workflow -> Nat]]
    <3>0. taken[p] \in Workflow
      BY <1>11 DEF TypeOK, Spawn, Running
    <3>1. CASE kv[taken[p]] = "json"
      <4>1. /\ tasks[p][taken[p]] + 1 \in Nat
            /\ tasks' = [tasks EXCEPT ![p][taken[p]] = tasks[p][taken[p]] + 1]
        BY <1>11, <3>0, <3>1 DEF TypeOK, Spawn, Running
      <4>. QED
        BY <3>0, <4>1, TasksChange
    <3>2. CASE kv[taken[p]] # "json"
      BY <1>11, <3>2 DEF TypeOK, Spawn, Running
    <3>. QED
      BY <3>1, <3>2
  <2>. QED
    BY <1>11, <2>1 DEF TypeOK, Spawn, Running, Loc, redis, wrapper
<1>12. ASSUME NEW p \in Process, ReadFails(p) PROVE TypeOK'
  BY <1>12 DEF TypeOK, ReadFails, Running, Loc, redis, wrapper
<1>13. ASSUME NEW p \in Process, NEW w \in Workflow, AddWorkflow(p, w) PROVE TypeOK'
  BY <1>13, RunOpWithRetryType DEF TypeOK, AddWorkflow, redis, executor
<1>14. ASSUME NEW p \in Process, NEW w \in Workflow, Finish(p, w) PROVE TypeOK'
  <2>0. tasks[p][w] - 1 \in Nat /\ tasks' = [tasks EXCEPT ![p][w] = tasks[p][w] - 1]
    BY <1>14 DEF TypeOK, Finish
  <2>1. tasks' \in [Process -> [Workflow -> Nat]]
    BY <2>0, TasksChange
  <2>. QED
    BY <1>14, <2>1, RunOpWithRetryType DEF TypeOK, Finish, redis
<1>15. ASSUME NEW p \in Process, NEW w \in Workflow, Requeue(p, w) PROVE TypeOK'
  <2>0. tasks[p][w] - 1 \in Nat /\ tasks' = [tasks EXCEPT ![p][w] = tasks[p][w] - 1]
    BY <1>15 DEF TypeOK, Requeue
  <2>1. tasks' \in [Process -> [Workflow -> Nat]]
    BY <2>0, TasksChange
  <2>2. requeues' \in [Process -> [Workflow -> 0..(MaxRequeues + 1)]]
    <3>1. /\ requeues[p][w] + 1 \in 0..(MaxRequeues + 1)
          /\ requeues[p] \in [Workflow -> 0..(MaxRequeues + 1)]
      BY <1>15 DEF TypeOK, Requeue
    <3>2. [requeues[p] EXCEPT ![w] = requeues[p][w] + 1] \in [Workflow -> 0..(MaxRequeues + 1)]
      BY <3>1
    <3>3. requeues' = [requeues EXCEPT ![p] = [requeues[p] EXCEPT ![w] = requeues[p][w] + 1]]
      BY <1>15 DEF Requeue
    <3>. QED
      BY <3>2, <3>3 DEF TypeOK
  <2>. QED
    BY <1>15, <2>1, <2>2, RunOpWithRetryType DEF TypeOK, Requeue, redis
<1>16. ASSUME NEW p \in Process, NEW w \in Workflow, Drop(p, w) PROVE TypeOK'
  <2>0. tasks[p][w] - 1 \in Nat /\ tasks' = [tasks EXCEPT ![p][w] = tasks[p][w] - 1]
    BY <1>16 DEF TypeOK, Drop, Running
  <2>1. tasks' \in [Process -> [Workflow -> Nat]]
    BY <2>0, TasksChange
  <2>. QED
    BY <1>16, <2>1 DEF TypeOK, Drop, Running, redis, wrapper
<1>. QED
  BY <1>1, <1>2, <1>3, <1>4, <1>5, <1>6, <1>7, <1>8, <1>9, <1>10, <1>11, <1>12,
     <1>13, <1>14, <1>15, <1>16 DEF Next

\* Every variable keeps its type.
THEOREM TypeCorrect == Spec => []TypeOK
<1>. QED
  BY TypeInit, TypeNext, PTL DEF Spec


-----------------------------------------------------------------------------
(* The keys, however many processes listen.   RequeueFindsKey and          *)
(* NoLostWorkflow are inductive only together with two facts: a key Redis  *)
(* has never seen is in no list, and what an executor holds is a key Redis *)
(* has seen.                                                               *)

\* A key Redis has never seen is in no list.
AbsentUnlisted ==
  \A w \in Workflow : kv[w] = "absent" => ~InQueue(w) /\ ~InActive(w)

\* What an executor has taken or executes is a key Redis has seen.
HeldKeysExist ==
  \A p \in Process : \A w \in Workflow :
    tasks[p][w] > 0 \/ taken[p] = w => kv[w] # "absent"

ListInv == NoLostWorkflow /\ AbsentUnlisted
KeyInv == RequeueFindsKey /\ HeldKeysExist

\* Redis never forgets a key.
KeysStay == \A w \in Workflow : kv[w] # "absent" => kv'[w] # "absent"

LEMMA KeyInvInit == Init => ListInv /\ KeyInv
<1>. SUFFICES ASSUME Init PROVE ListInv /\ KeyInv
  OBVIOUS
<1>1. Range(queue) = {} /\ Range(active) = {}
  BY DEF Init, Range
<1>2. ListInv
  BY <1>1 DEF Init, ListInv, NoLostWorkflow, AbsentUnlisted, InQueue, InActive
<1>3. RequeueFindsKey
  BY DEF Init, RequeueFindsKey
<1>4. HeldKeysExist
  BY DEF Init, HeldKeysExist, NoTasks
<1>. QED
  BY <1>2, <1>3, <1>4 DEF KeyInv

\* What the commands of an operation do to the sets of listed keys.
LEMMA WritesLists ==
  ASSUME TypeOK, NEW o \in Op, NEW s, Writes(o, s)
  PROVE  /\ \A v \in Workflow \ {o.key} :
              kv'[v] = kv[v] /\ (InQueue(v)' <=> InQueue(v)) /\ (InActive(v)' <=> InActive(v))
         /\ \/ o.op = "add" /\ InQueue(o.key)' /\ kv'[o.key] = "json"
            \/ o.op = "requeue" /\ InQueue(o.key)' /\ kv'[o.key] \in {"json", kv[o.key]}
            \/ o.op = "complete" /\ kv'[o.key] = "complete"
<1>. DEFINE w == o.key
<1>1. w \in Workflow
  BY DEF Op
<1>2. /\ LRem(queue, w) \in Seq(Workflow) /\ Range(LRem(queue, w)) = Range(queue) \ {w}
      /\ Range(LRem(active, w)) = Range(active) \ {w}
  BY LRemProperties DEF TypeOK
<1>3. queue \in Seq(Workflow)
  BY DEF TypeOK
<1>4. /\ Range(LPush(queue, w)) = Range(queue) \cup {w}
      /\ Range(LPush(LRem(queue, w), w)) = Range(queue) \cup {w}
  BY <1>1, <1>2, <1>3, LPushProperties
<1>. HIDE DEF w
<1>5. CASE o.op = "add" /\ AddWrites(w)
  BY <1>1, <1>4, <1>5 DEF AddWrites, TypeOK, InQueue, InActive, w
<1>6. CASE o.op = "requeue" /\ RequeueWrites(w, s)
  BY <1>1, <1>2, <1>4, <1>6 DEF RequeueWrites, TypeOK, InQueue, InActive, w
<1>7. CASE o.op = "complete" /\ CompleteWrites(w)
  BY <1>1, <1>2, <1>7 DEF CompleteWrites, TypeOK, InQueue, InActive, w
<1>. QED
  BY <1>5, <1>6, <1>7 DEF Writes, w

\* The operation under way is not an add exactly when its key must exist.
LEMMA WritesInv ==
  ASSUME TypeOK, ListInv, RequeueFindsKey, NEW p \in Process,
         OpWrites(p) \/ OpReplyLost(p)
  PROVE  ListInv' /\ KeysStay
<1>1. PICK o \in Op : /\ Writes(o, seen[p])
                      /\ o = backlog[p][1] /\ 1 \in DOMAIN backlog[p]
  BY HeadType DEF TypeOK, OpWrites, OpReplyLost
<1>2. o.key \in Workflow /\ (o.op # "add" => kv[o.key] # "absent")
  BY <1>1 DEF RequeueFindsKey, Op
<1>3. kv'[o.key] # "absent" /\ (kv'[o.key] = "json" => InQueue(o.key)' \/ InActive(o.key)')
  <2>1. CASE o.op = "requeue" /\ InQueue(o.key)' /\ kv'[o.key] \in {"json", kv[o.key]}
    BY <1>2, <2>1
  <2>2. CASE o.op # "requeue"
    BY <1>1, <2>2, WritesLists
  <2>. QED
    BY <1>1, <2>1, <2>2, WritesLists
<1>. QED
  BY <1>1, <1>2, <1>3, WritesLists
  DEF ListInv, NoLostWorkflow, AbsentUnlisted, KeysStay

\* Taking a workflow moves its entry from one list to the other.
LEMMA TakeLists ==
  ASSUME TypeOK, ListInv, NEW p \in Process, Take(p)
  PROVE  /\ ListInv'
         /\ LeftOf(queue) \in Workflow /\ kv[LeftOf(queue)] # "absent"
<1>. DEFINE w == LeftOf(queue)
<1>1. /\ w \in Workflow
      /\ Range(queue) = Range(PopLeft(queue)) \cup {w}
  BY PopLeftProperties DEF TypeOK, Take
<1>2. Range(PushRight(active, w)) = Range(active) \cup {w}
  BY <1>1, PushRightProperties DEF TypeOK
<1>3. queue' = PopLeft(queue) /\ active' = PushRight(active, w) /\ UNCHANGED kv
  BY DEF Take
<1>. HIDE DEF w
<1>4. NoLostWorkflow'
  BY <1>1, <1>2, <1>3 DEF ListInv, NoLostWorkflow, InQueue, InActive
<1>5. AbsentUnlisted'
  BY <1>1, <1>2, <1>3 DEF ListInv, AbsentUnlisted, InQueue, InActive
<1>6. kv[w] # "absent"
  BY <1>1 DEF ListInv, AbsentUnlisted, InQueue
<1>. QED
  BY <1>1, <1>4, <1>5, <1>6 DEF ListInv, w

\* The steps that leave Redis alone.
LEMMA QuietSteps ==
  /\ \A p \in Process :
       \/ Start(p) \/ HandleStorageStartupConfig(p) \/ Crash(p) \/ OpReads(p)
       \/ OpFails(p) \/ Poll(p) \/ TakeTimeout(p) \/ Spawn(p)
       \/ ReadFails(p)
       => UNCHANGED redis
  /\ \A p \in Process, w \in Workflow :
       AddWorkflow(p, w) \/ Finish(p, w) \/ Requeue(p, w) \/ Drop(p, w)
       => UNCHANGED redis
  /\ UNCHANGED vars => UNCHANGED redis
<1>1. ASSUME NEW p \in Process,
             \/ Start(p) \/ HandleStorageStartupConfig(p) \/ Crash(p) \/ OpReads(p)
             \/ OpFails(p) \/ Poll(p) \/ TakeTimeout(p) \/ Spawn(p)
             \/ ReadFails(p)
      PROVE  UNCHANGED redis
  BY <1>1 DEF Start, HandleStorageStartupConfig, Crash, OpReads, OpFails,
              Poll, TakeTimeout, Spawn, ReadFails
<1>2. ASSUME NEW p \in Process, NEW w \in Workflow,
             AddWorkflow(p, w) \/ Finish(p, w) \/ Requeue(p, w) \/ Drop(p, w)
      PROVE  UNCHANGED redis
  BY <1>2 DEF AddWorkflow, Finish, Requeue, Drop
<1>3. UNCHANGED vars => UNCHANGED redis
  BY DEF vars, redis
<1>. QED
  BY <1>1, <1>2, <1>3

LEMMA ListInvNext == TypeOK /\ ListInv /\ KeyInv /\ [Next]_vars => ListInv' /\ KeysStay
<1>. SUFFICES ASSUME TypeOK, ListInv, KeyInv, [Next]_vars PROVE ListInv' /\ KeysStay
  OBVIOUS
<1>1. ASSUME UNCHANGED redis PROVE ListInv' /\ KeysStay
  BY <1>1 DEF redis, ListInv, NoLostWorkflow, AbsentUnlisted, InQueue, InActive, KeysStay
<1>2. ASSUME NEW p \in Process, OpWrites(p) \/ OpReplyLost(p) PROVE ListInv' /\ KeysStay
  BY <1>2, WritesInv DEF KeyInv
<1>3. ASSUME NEW p \in Process, Take(p) PROVE ListInv' /\ KeysStay
  BY <1>3, TakeLists DEF Take, KeysStay
<1>. QED
  BY <1>1, <1>2, <1>3, QuietSteps DEF Next

\* Pushing an operation whose key exists, or an add.
LEMMA RunOpWithRetryKeys ==
  ASSUME TypeOK, KeyInv, KeysStay,
         NEW p \in Process, NEW o \in {"add", "requeue", "complete"}, NEW w \in Workflow,
         RunOpWithRetry(p, o, w), o = "add" \/ kv[w] # "absent"
  PROVE  RequeueFindsKey'
<1>. SUFFICES ASSUME NEW q \in Process, NEW i \in DOMAIN backlog'[q], backlog'[q][i].op # "add"
              PROVE  kv'[backlog'[q][i].key] # "absent"
  BY DEF RequeueFindsKey
<1>1. backlog[q] \in Seq(Op) /\ backlog[p] \in Seq(Op)
  BY DEF TypeOK
<1>2. ASSUME i \in DOMAIN backlog[q], backlog'[q][i] = backlog[q][i]
      PROVE  kv'[backlog'[q][i].key] # "absent"
  <2>1. backlog[q][i] \in Op
    BY <1>1, <1>2
  <2>. QED
    BY <1>2, <2>1 DEF KeyInv, RequeueFindsKey, KeysStay, Op
<1>3. CASE q # p
  BY <1>2, <1>3 DEF RunOpWithRetry, TypeOK
<1>4. CASE q = p
  <2>. DEFINE new == [op |-> o, key |-> w]
  <2>1. backlog'[q] = Append(backlog[q], new)
    BY <1>4 DEF RunOpWithRetry, TypeOK
  <2>2. CASE i = Len(backlog[q]) + 1
    <3>1. backlog'[q][i] = new
      BY <1>1, <2>1, <2>2
    <3>. QED
      BY <3>1 DEF KeysStay
  <2>3. CASE i # Len(backlog[q]) + 1
    <3>1. i \in DOMAIN backlog[q] /\ backlog'[q][i] = backlog[q][i]
      BY <1>1, <2>1, <2>3
    <3>. QED
      BY <1>2, <3>1
  <2>. QED
    BY <2>2, <2>3
<1>. QED
  BY <1>3, <1>4

\* A backlog that only shrinks.
LEMMA BacklogShrinks ==
  ASSUME TypeOK, KeyInv, KeysStay, NEW p \in Process,
         \/ UNCHANGED backlog
         \/ backlog' = [backlog EXCEPT ![p] = <<>>]
         \/ backlog' = [backlog EXCEPT ![p] = Tail(@)] /\ backlog[p] # <<>>
  PROVE  RequeueFindsKey'
<1>. SUFFICES ASSUME NEW q \in Process, NEW i \in DOMAIN backlog'[q], backlog'[q][i].op # "add"
              PROVE  kv'[backlog'[q][i].key] # "absent"
  BY DEF RequeueFindsKey
<1>1. backlog[q] \in Seq(Op)
  BY DEF TypeOK
<1>2. PICK j \in DOMAIN backlog[q] : backlog'[q][i] = backlog[q][j]
  <2>1. CASE backlog'[q] = backlog[q]
    BY <2>1
  <2>2. CASE backlog'[q] = <<>>
    BY <2>2
  <2>3. CASE backlog'[q] = Tail(backlog[q]) /\ backlog[q] # <<>>
    <3>1. i + 1 \in DOMAIN backlog[q] /\ backlog'[q][i] = backlog[q][i + 1]
      BY <1>1, <2>3
    <3>. QED
      BY <3>1
  <2>. QED
    BY <2>1, <2>2, <2>3 DEF TypeOK
<1>3. backlog[q][j] \in Op
  BY <1>1
<1>. QED
  BY <1>2, <1>3 DEF KeyInv, RequeueFindsKey, KeysStay, Op

\* What a process holds after a step it held before, unless it took it.
LEMMA HoldsNothingNew ==
  ASSUME KeyInv, KeysStay,
         \A q \in Process, v \in Workflow :
           tasks'[q][v] > 0 \/ taken'[q] = v => tasks[q][v] > 0 \/ taken[q] = v
  PROVE  HeldKeysExist'
<1>. QED
  BY DEF KeyInv, HeldKeysExist, KeysStay

LEMMA KeyInvNext == TypeOK /\ ListInv /\ KeyInv /\ [Next]_vars => KeyInv'
<1>. SUFFICES ASSUME TypeOK, ListInv, KeyInv, [Next]_vars PROVE KeyInv'
  OBVIOUS
<1>1. KeysStay
  BY ListInvNext
<1>2. ASSUME UNCHANGED backlog, UNCHANGED <<tasks, taken>> PROVE KeyInv'
  <2>1. PICK p \in Process : TRUE
    BY DEF Process
  <2>. QED
    BY <1>1, <1>2, BacklogShrinks, HoldsNothingNew DEF KeyInv
<1>3. ASSUME NEW p \in Process,
             OpReads(p) \/ OpWrites(p) \/ OpFails(p) \/ OpReplyLost(p)
      PROVE  KeyInv'
  <2>1. UNCHANGED <<tasks, taken>>
    BY <1>3 DEF OpReads, OpWrites, OpFails, OpReplyLost, executor
  <2>2. \/ UNCHANGED backlog
        \/ backlog' = [backlog EXCEPT ![p] = Tail(@)] /\ backlog[p] # <<>>
    BY <1>3 DEF OpReads, OpWrites, OpFails, OpReplyLost, OpDone, OpThrown,
                Running, TypeOK
  <2>. QED
    BY <1>1, <2>1, <2>2, BacklogShrinks, HoldsNothingNew DEF KeyInv
<1>4. ASSUME NEW p \in Process, ClearMemory(p) PROVE KeyInv'
  <2>1. \A q \in Process, v \in Workflow :
          tasks'[q][v] > 0 \/ taken'[q] = v => tasks[q][v] > 0 \/ taken[q] = v
    BY <1>4 DEF ClearMemory, NoTasks, TypeOK
  <2>2. backlog' = [backlog EXCEPT ![p] = <<>>]
    BY <1>4 DEF ClearMemory
  <2>. QED
    BY <1>1, <2>1, <2>2, BacklogShrinks, HoldsNothingNew DEF KeyInv
<1>5. ASSUME NEW p \in Process, HandleStorageStartupConfig(p) PROVE KeyInv'
  BY <1>2, <1>4, <1>5 DEF HandleStorageStartupConfig, wrapper
<1>6. ASSUME NEW p \in Process, Start(p) \/ Poll(p) \/ TakeTimeout(p) PROVE KeyInv'
  BY <1>2, <1>6 DEF Start, Poll, TakeTimeout, wrapper
<1>7. ASSUME NEW p \in Process, Take(p) PROVE KeyInv'
  <2>1. UNCHANGED backlog
    BY <1>7 DEF Take, wrapper
  <2>2. RequeueFindsKey'
    BY <1>1, <2>1, BacklogShrinks
  <2>3. LeftOf(queue) \in Workflow /\ kv'[LeftOf(queue)] # "absent"
    BY <1>1, <1>7, TakeLists DEF KeysStay
  <2>4. HeldKeysExist'
    BY <1>1, <1>7, <2>3 DEF Take, KeyInv, HeldKeysExist, KeysStay, TypeOK
  <2>. QED
    BY <2>2, <2>4 DEF KeyInv
<1>8. ASSUME NEW p \in Process, Spawn(p) PROVE KeyInv'
  <2>1. UNCHANGED backlog
    BY <1>8 DEF Spawn, wrapper
  <2>2. taken[p] \in Workflow
    BY <1>8 DEF Spawn, TypeOK
  <2>3. \A q \in Process, v \in Workflow :
          tasks'[q][v] > 0 => tasks[q][v] > 0 \/ taken[q] = v
    <3>1. CASE UNCHANGED tasks
      BY <3>1
    <3>2. CASE tasks' = [tasks EXCEPT ![p][taken[p]] = @ + 1]
      BY <2>2, <3>2 DEF TypeOK
    <3>. QED
      BY <1>8, <3>1, <3>2 DEF Spawn
  <2>4. \A q \in Process, v \in Workflow : taken'[q] = v => taken[q] = v
    BY <1>8 DEF Spawn, TypeOK
  <2>. QED
    BY <1>1, <2>1, <2>3, <2>4, BacklogShrinks, HoldsNothingNew DEF KeyInv
<1>9. ASSUME NEW p \in Process, ReadFails(p) PROVE KeyInv'
  <2>1. UNCHANGED <<backlog, tasks>>
    BY <1>9 DEF ReadFails, wrapper
  <2>2. \A q \in Process, v \in Workflow : taken'[q] = v => taken[q] = v
    BY <1>9 DEF ReadFails, TypeOK
  <2>. QED
    BY <1>1, <2>1, <2>2, BacklogShrinks, HoldsNothingNew DEF KeyInv
<1>10. ASSUME NEW p \in Process, NEW w \in Workflow, AddWorkflow(p, w) PROVE KeyInv'
  <2>1. RunOpWithRetry(p, "add", w) /\ UNCHANGED <<tasks, taken>>
    BY <1>10 DEF AddWorkflow, executor
  <2>. QED
    BY <1>1, <2>1, RunOpWithRetryKeys, HoldsNothingNew DEF KeyInv
<1>11. ASSUME NEW p \in Process, NEW w \in Workflow,
              tasks[p][w] > 0, tasks' = [tasks EXCEPT ![p][w] = @ - 1], UNCHANGED taken
       PROVE  HeldKeysExist'
  <2>1. \A q \in Process, v \in Workflow : tasks'[q][v] > 0 => tasks[q][v] > 0
    BY <1>11 DEF TypeOK
  <2>. QED
    BY <1>1, <1>11, <2>1, HoldsNothingNew
<1>12. ASSUME NEW p \in Process, NEW w \in Workflow, Finish(p, w) \/ Requeue(p, w)
       PROVE  KeyInv'
  <2>1. /\ \E o \in {"requeue", "complete"} : RunOpWithRetry(p, o, w)
        /\ tasks[p][w] > 0 /\ tasks' = [tasks EXCEPT ![p][w] = @ - 1] /\ UNCHANGED taken
    BY <1>12 DEF Finish, Requeue
  <2>2. kv[w] # "absent"
    BY <2>1 DEF KeyInv, HeldKeysExist
  <2>. QED
    BY <1>1, <1>11, <2>1, <2>2, RunOpWithRetryKeys DEF KeyInv
<1>13. ASSUME NEW p \in Process, NEW w \in Workflow, Drop(p, w) PROVE KeyInv'
  <2>1. /\ UNCHANGED <<backlog, taken>>
        /\ tasks[p][w] > 0 /\ tasks' = [tasks EXCEPT ![p][w] = @ - 1]
    BY <1>13 DEF Drop, wrapper
  <2>. QED
    BY <1>1, <1>11, <2>1, BacklogShrinks DEF KeyInv
<1>14. ASSUME NEW p \in Process, Crash(p) PROVE KeyInv'
  BY <1>4, <1>14 DEF Crash
<1>15. CASE UNCHANGED vars
  BY <1>2, <1>15 DEF vars
<1>. QED
  BY <1>3, <1>5, <1>6, <1>7, <1>8, <1>9, <1>10, <1>12, <1>13, <1>14, <1>15 DEF Next

LEMMA KeysAlways == Spec => [](TypeOK /\ ListInv /\ KeyInv)
<1>. QED
  BY TypeInit, TypeNext, KeyInvInit, ListInvNext, KeyInvNext, PTL DEF Spec

\* A workflow in progress is in one of the lists.
THEOREM NothingLost == Spec => []NoLostWorkflow
<1>1. ListInv => NoLostWorkflow
  BY DEF ListInv
<1>. QED
  BY <1>1, KeysAlways, PTL

\* requeueWorkflow never misses its key.
THEOREM RequeueNeverThrows == Spec => []RequeueFindsKey
<1>1. KeyInv => RequeueFindsKey
  BY DEF KeyInv
<1>. QED
  BY <1>1, KeysAlways, PTL

-----------------------------------------------------------------------------
(* One entry per key.  It needs that no two processes listen: addWorkflow   *)
(* pushes on the strength of a GET that must still be true when it pushes.  *)

OneListener == \E l \in Process : Listener \subseteq {l}

\* Only listeners add.
OnlyListenersAdd ==
  \A p \in Process : \A i \in DOMAIN backlog[p] :
    backlog[p][i].op = "add" => p \in Listener

\* An addWorkflow that has found no key still has none when it writes.
AddSeesAbsent ==
  \A p \in Process :
    seen[p] # "none" /\ Head(backlog[p]).op = "add"
      => kv[Head(backlog[p]).key] = "absent"

EntryInv == OneEntry /\ OnlyListenersAdd /\ AddSeesAbsent

\* How the steps of one process change the backlogs.
BacklogStep(p) ==
  \/ UNCHANGED backlog
  \/ backlog' = [backlog EXCEPT ![p] = <<>>]
  \/ backlog' = [backlog EXCEPT ![p] = Tail(@)] /\ backlog[p] # <<>>

LEMMA OnlyListenersAddShrink ==
  ASSUME TypeOK, OnlyListenersAdd, NEW p \in Process, BacklogStep(p)
  PROVE  OnlyListenersAdd'
<1>. SUFFICES ASSUME NEW q \in Process, NEW i \in DOMAIN backlog'[q], backlog'[q][i].op = "add"
              PROVE  q \in Listener
  BY DEF OnlyListenersAdd
<1>1. backlog[q] \in Seq(Op)
  BY DEF TypeOK
<1>2. PICK j \in DOMAIN backlog[q] : backlog'[q][i] = backlog[q][j]
  <2>1. CASE backlog'[q] = backlog[q]
    BY <2>1
  <2>2. CASE backlog'[q] = <<>>
    BY <2>2
  <2>3. CASE backlog'[q] = Tail(backlog[q]) /\ backlog[q] # <<>>
    <3>1. i + 1 \in DOMAIN backlog[q] /\ backlog'[q][i] = backlog[q][i + 1]
      BY <1>1, <2>3
    <3>. QED
      BY <3>1
  <2>. QED
    BY <2>1, <2>2, <2>3 DEF TypeOK, BacklogStep
<1>. QED
  BY <1>2 DEF OnlyListenersAdd

LEMMA OnlyListenersAddPush ==
  ASSUME TypeOK, OnlyListenersAdd, NEW p \in Process,
         NEW o \in {"add", "requeue", "complete"}, NEW w \in Workflow,
         RunOpWithRetry(p, o, w), o = "add" => p \in Listener
  PROVE  OnlyListenersAdd'
<1>. SUFFICES ASSUME NEW q \in Process, NEW i \in DOMAIN backlog'[q], backlog'[q][i].op = "add"
              PROVE  q \in Listener
  BY DEF OnlyListenersAdd
<1>1. backlog[q] \in Seq(Op)
  BY DEF TypeOK
<1>2. CASE q # p
  BY <1>2 DEF RunOpWithRetry, TypeOK, OnlyListenersAdd
<1>3. CASE q = p
  <2>. DEFINE new == [op |-> o, key |-> w]
  <2>1. backlog'[q] = Append(backlog[q], new)
    BY <1>3 DEF RunOpWithRetry, TypeOK
  <2>2. CASE i = Len(backlog[q]) + 1
    <3>1. backlog'[q][i] = new
      BY <1>1, <2>1, <2>2
    <3>. QED
      BY <1>3, <3>1
  <2>3. CASE i # Len(backlog[q]) + 1
    <3>1. i \in DOMAIN backlog[q] /\ backlog'[q][i] = backlog[q][i]
      BY <1>1, <2>1, <2>3
    <3>. QED
      BY <3>1 DEF OnlyListenersAdd
  <2>. QED
    BY <2>2, <2>3
<1>. QED
  BY <1>2, <1>3

\* The key of an add under way is untouched by the writes of the others.
LEMMA WritesSpareAdds ==
  ASSUME OneListener, TypeOK, ListInv, KeyInv, EntryInv, NEW p \in Process,
         OpWrites(p) \/ OpReplyLost(p)
  PROVE  AddSeesAbsent'
<1>. SUFFICES ASSUME NEW q \in Process, seen'[q] # "none",
                     Head(backlog'[q]).op = "add"
              PROVE  kv'[Head(backlog'[q]).key] = "absent"
  BY DEF AddSeesAbsent
<1>1. seen' = [seen EXCEPT ![p] = "none"] /\ seen[p] # "none" /\ Running(p)
  BY DEF TypeOK, OpWrites, OpReplyLost
<1>2. q # p /\ seen[q] = seen'[q]
  BY <1>1 DEF TypeOK
<1>3. backlog'[q] = backlog[q] /\ Running(q)
  BY <1>2 DEF OpWrites, OpReplyLost, OpDone, TypeOK
<1>4. PICK v \in Workflow : v = Head(backlog[q]).key
  BY <1>3, HeadType
<1>5. kv[v] = "absent"
  BY <1>2, <1>3, <1>4 DEF EntryInv, AddSeesAbsent
<1>6. kv'[v] = kv[v]
  <2>1. PICK o \in Op : /\ Writes(o, seen[p]) /\ o = Head(backlog[p])
                        /\ o = backlog[p][1] /\ 1 \in DOMAIN backlog[p]
    BY <1>1, HeadType DEF OpWrites, OpReplyLost
  <2>2. q \in Listener
    <3>1. Head(backlog[q]) = backlog[q][1] /\ 1 \in DOMAIN backlog[q]
      BY <1>3, HeadType
    <3>. QED
      BY <1>3, <3>1 DEF EntryInv, OnlyListenersAdd
  <2>3. p \notin Listener
    BY <1>2, <2>2 DEF OneListener
  <2>4. o.op # "add"
    BY <2>1, <2>3 DEF EntryInv, OnlyListenersAdd
  <2>5. kv[o.key] # "absent"
    BY <2>1, <2>4 DEF KeyInv, RequeueFindsKey
  <2>6. v # o.key
    BY <1>5, <2>5
  <2>. QED
    BY <2>1, <2>6, WritesLists
<1>. QED
  BY <1>3, <1>4, <1>5, <1>6

\* Steps that neither write a key nor start an operation.
LEMMA AddSeesAbsentKept ==
  ASSUME TypeOK, AddSeesAbsent, UNCHANGED kv,
         \A q \in Process : seen'[q] # "none" =>
           seen'[q] = seen[q] /\ Head(backlog'[q]) = Head(backlog[q])
  PROVE  AddSeesAbsent'
<1>. QED
  BY DEF AddSeesAbsent

\* The commands of an operation keep the lists free of duplicates.
LEMMA WritesEntry ==
  ASSUME TypeOK, ListInv, EntryInv, NEW p \in Process, OpWrites(p) \/ OpReplyLost(p)
  PROVE  OneEntry'
<1>1. PICK o \in Op : /\ Writes(o, seen[p]) /\ o = Head(backlog[p])
                      /\ seen[p] # "none"
  BY HeadType DEF TypeOK, OpWrites, OpReplyLost, Throws
<1>2. PICK w \in Workflow : w = o.key
  BY DEF Op
<1>3. /\ LRem(queue, w) \in Seq(Workflow) /\ Range(LRem(queue, w)) = Range(queue) \ {w}
      /\ IsInjective(LRem(queue, w))
      /\ Range(LRem(active, w)) = Range(active) \ {w} /\ IsInjective(LRem(active, w))
  BY LRemProperties DEF TypeOK, EntryInv, OneEntry
<1>4. CASE o.op = "add" /\ AddWrites(w)
  <2>1. w \notin Range(queue) /\ w \notin Range(active)
    BY <1>1, <1>2, <1>4 DEF EntryInv, AddSeesAbsent, ListInv, AbsentUnlisted, InQueue, InActive
  <2>2. Range(LPush(queue, w)) = Range(queue) \cup {w} /\ IsInjective(LPush(queue, w))
    BY <2>1, LPushProperties DEF TypeOK, EntryInv, OneEntry
  <2>. QED
    BY <1>4, <2>1, <2>2 DEF AddWrites, EntryInv, OneEntry
<1>5. CASE RequeueWrites(w, seen[p])
  <2>1. /\ Range(LPush(LRem(queue, w), w)) = Range(queue) \cup {w}
        /\ IsInjective(LPush(LRem(queue, w), w))
    BY <1>3, LPushProperties
  <2>. QED
    BY <1>3, <1>5, <2>1 DEF RequeueWrites, EntryInv, OneEntry
<1>6. CASE CompleteWrites(w)
  BY <1>3, <1>6 DEF CompleteWrites, EntryInv, OneEntry
<1>. QED
  BY <1>1, <1>2, <1>4, <1>5, <1>6 DEF Writes

LEMMA TakeEntry ==
  ASSUME TypeOK, OneEntry, NEW p \in Process, Take(p)
  PROVE  OneEntry'
<1>1. PICK w \in Workflow : w = LeftOf(queue)
  BY PopLeftProperties DEF TypeOK, Take
<1>2. /\ IsInjective(PopLeft(queue)) /\ w \notin Range(PopLeft(queue))
      /\ Range(queue) = Range(PopLeft(queue)) \cup {w}
  BY <1>1, PopLeftProperties DEF TypeOK, Take, OneEntry
<1>3. w \notin Range(active)
  BY <1>2 DEF OneEntry
<1>4. /\ Range(PushRight(active, w)) = Range(active) \cup {w}
      /\ IsInjective(PushRight(active, w))
  BY <1>3, PushRightProperties DEF TypeOK, OneEntry
<1>. QED
  BY <1>1, <1>2, <1>3, <1>4 DEF Take, OneEntry

LEMMA EntryInvInit == Init => EntryInv
<1>. SUFFICES ASSUME Init PROVE EntryInv
  OBVIOUS
<1>1. OneEntry
  BY DEF Init, OneEntry, Range, IsInjective
<1>2. OnlyListenersAdd
  BY DEF Init, OnlyListenersAdd
<1>3. AddSeesAbsent
  BY DEF Init, AddSeesAbsent
<1>. QED
  BY <1>1, <1>2, <1>3 DEF EntryInv

LEMMA EntryInvNext ==
  OneListener /\ TypeOK /\ ListInv /\ KeyInv /\ EntryInv /\ [Next]_vars => EntryInv'
<1>. SUFFICES ASSUME OneListener, TypeOK, ListInv, KeyInv, EntryInv, [Next]_vars
              PROVE  EntryInv'
  OBVIOUS
<1>1. ASSUME UNCHANGED redis PROVE OneEntry' /\ UNCHANGED kv
  BY <1>1 DEF redis, EntryInv, OneEntry
<1>2. ASSUME UNCHANGED redis, UNCHANGED backlog, UNCHANGED seen PROVE EntryInv'
  BY <1>1, <1>2 DEF EntryInv, OnlyListenersAdd, AddSeesAbsent, redis
<1>3. ASSUME NEW p \in Process, ClearMemory(p), UNCHANGED redis PROVE EntryInv'
  <2>1. BacklogStep(p)
    BY <1>3 DEF ClearMemory, BacklogStep
  <2>2. \A q \in Process : seen'[q] # "none" =>
          seen'[q] = seen[q] /\ Head(backlog'[q]) = Head(backlog[q])
    BY <1>3 DEF ClearMemory, TypeOK
  <2>. QED
    BY <1>1, <1>3, <2>1, <2>2, OnlyListenersAddShrink, AddSeesAbsentKept DEF EntryInv
<1>4. ASSUME NEW p \in Process, NEW o \in {"add", "requeue", "complete"}, NEW w \in Workflow,
             RunOpWithRetry(p, o, w), o = "add" => p \in Listener, UNCHANGED redis
      PROVE  EntryInv'
  <2>1. OnlyListenersAdd'
    BY <1>4, OnlyListenersAddPush DEF EntryInv
  <2>2. \A q \in Process : seen'[q] # "none" =>
          seen'[q] = seen[q] /\ Head(backlog'[q]) = Head(backlog[q])
    BY <1>4, RunOpWithRetryType DEF TypeOK
  <2>3. AddSeesAbsent'
    BY <1>1, <1>4, <2>2, AddSeesAbsentKept DEF EntryInv
  <2>. QED
    BY <1>1, <1>4, <2>1, <2>3 DEF EntryInv
<1>5. ASSUME NEW p \in Process, Start(p) \/ Poll(p) \/ TakeTimeout(p) \/ Spawn(p) \/ ReadFails(p)
      PROVE  EntryInv'
  BY <1>2, <1>5 DEF Start, Poll, TakeTimeout, Spawn, ReadFails, wrapper
<1>6. ASSUME NEW p \in Process, HandleStorageStartupConfig(p) \/ Crash(p) PROVE EntryInv'
  BY <1>2, <1>3, <1>6 DEF HandleStorageStartupConfig, Crash, wrapper
<1>7. ASSUME NEW p \in Process, OpReads(p) PROVE EntryInv'
  <2>1. BacklogStep(p) /\ UNCHANGED redis
    BY <1>7 DEF OpReads, OpDone, BacklogStep, Running
  <2>2. AddSeesAbsent'
    <3>. SUFFICES ASSUME NEW q \in Process, seen'[q] # "none",
                         Head(backlog'[q]).op = "add"
                  PROVE  kv'[Head(backlog'[q]).key] = "absent"
      BY DEF AddSeesAbsent
    <3>1. CASE q # p
      BY <1>1, <1>7, <2>1, <3>1 DEF OpReads, OpDone, TypeOK, EntryInv, AddSeesAbsent
    <3>2. CASE q = p
      <4>1. ~ReturnsEarly(Head(backlog[p])) /\ UNCHANGED backlog
        BY <1>7, <3>2 DEF OpReads, TypeOK
      <4>. QED
        BY <1>1, <2>1, <3>2, <4>1 DEF ReturnsEarly
    <3>. QED
      BY <3>1, <3>2
  <2>. QED
    BY <1>1, <2>1, <2>2, OnlyListenersAddShrink DEF EntryInv
<1>8. ASSUME NEW p \in Process, OpFails(p) PROVE EntryInv'
  <2>1. BacklogStep(p) /\ UNCHANGED redis /\ OpThrown(p)
    BY <1>8 DEF OpFails, OpThrown, BacklogStep
  <2>2. \A q \in Process : seen'[q] # "none" =>
          seen'[q] = seen[q] /\ Head(backlog'[q]) = Head(backlog[q])
    BY <2>1 DEF OpThrown, TypeOK
  <2>. QED
    BY <1>1, <2>1, <2>2, OnlyListenersAddShrink, AddSeesAbsentKept DEF EntryInv
<1>9. ASSUME NEW p \in Process, OpWrites(p) \/ OpReplyLost(p) PROVE EntryInv'
  <2>1. BacklogStep(p)
    BY <1>9 DEF OpWrites, OpReplyLost, OpDone, BacklogStep, Running, TypeOK
  <2>. QED
    BY <1>9, <2>1, WritesEntry, WritesSpareAdds, OnlyListenersAddShrink DEF EntryInv
<1>10. ASSUME NEW p \in Process, Take(p) PROVE EntryInv'
  <2>1. UNCHANGED <<kv, seen, backlog>>
    BY <1>10 DEF Take, wrapper
  <2>. QED
    BY <1>10, <2>1, TakeEntry DEF EntryInv, OnlyListenersAdd, AddSeesAbsent
<1>11. ASSUME NEW p \in Process, NEW w \in Workflow,
              AddWorkflow(p, w) \/ Finish(p, w) \/ Requeue(p, w) PROVE EntryInv'
  <2>1. UNCHANGED redis
    BY <1>11, QuietSteps
  <2>2. \E o \in {"add", "requeue", "complete"} :
          RunOpWithRetry(p, o, w) /\ (o = "add" => p \in Listener)
    BY <1>11 DEF AddWorkflow, Finish, Requeue
  <2>. QED
    BY <1>4, <2>1, <2>2
<1>12. ASSUME NEW p \in Process, NEW w \in Workflow, Drop(p, w) PROVE EntryInv'
  BY <1>2, <1>12 DEF Drop, wrapper
<1>13. CASE UNCHANGED vars
  BY <1>2, <1>13 DEF vars, redis
<1>. QED
  BY <1>5, <1>6, <1>7, <1>8, <1>9, <1>10, <1>11, <1>12, <1>13, QuietSteps DEF Next

\* A key has one entry in the two lists, if one process listens (add and requeue of
\* storage.ts; with two listeners it fails).
THEOREM OneEntryEach == OneListener => (Spec => []OneEntry)
<1>. SUFFICES ASSUME OneListener PROVE Spec => []OneEntry
  OBVIOUS
<1>1. TypeOK /\ ListInv /\ KeyInv /\ EntryInv /\ [Next]_vars => EntryInv'
  BY EntryInvNext
<1>2. EntryInv => OneEntry
  BY DEF EntryInv
<1>. QED
  BY <1>1, <1>2, EntryInvInit, KeysAlways, PTL DEF Spec

-----------------------------------------------------------------------------
(* The slots.  An executor that has seen a free slot and not taken yet      *)
(* counts as one more active workflow.                                      *)

Takers == {p \in Executor : pc[p] = "take"}

SlotInv == Len(active) + Cardinality(Takers) <= MaxActive + Cardinality(Executor) - 1

LEMMA TakersFinite ==
  /\ IsFiniteSet(Takers) /\ IsFiniteSet(Takers')
  /\ Cardinality(Takers) \in Nat /\ Cardinality(Takers') \in Nat
  /\ Cardinality(Executor) \in Nat \ {0}
  /\ Cardinality(Takers') <= Cardinality(Executor)
<1>1. Takers \subseteq Executor /\ Takers' \subseteq Executor
  BY DEF Takers
<1>2. Cardinality(Executor) \in Nat /\ Cardinality(Executor) # 0
  BY FS_CardinalityType, FS_EmptySet
<1>. QED
  BY <1>1, <1>2, FS_Subset, FS_CardinalityType

LEMMA SlotInvInit == Init => SlotInv
<1>. SUFFICES ASSUME Init PROVE SlotInv
  OBVIOUS
<1>1. Takers = {} /\ Len(active) = 0
  BY DEF Init, Takers, Process
<1>. QED
  BY <1>1, FS_EmptySet, TakersFinite DEF SlotInv

LEMMA SlotInvNext == TypeOK /\ SlotInv /\ [Next]_vars => SlotInv'
<1>. SUFFICES ASSUME TypeOK, SlotInv, [Next]_vars PROVE SlotInv'
  OBVIOUS
<1>0. Len(active) \in Nat
  BY DEF TypeOK
<1>1. ASSUME active' \in Seq(Workflow), Len(active') <= Len(active), Takers' \subseteq Takers
      PROVE  SlotInv'
  <2>1. Cardinality(Takers') <= Cardinality(Takers)
    BY <1>1, TakersFinite, FS_Subset
  <2>2. Len(active') \in Nat
    BY <1>1
  <2>. QED
    BY <1>0, <1>1, <2>1, <2>2, TakersFinite DEF SlotInv
<1>2. ASSUME UNCHANGED active, \A p \in Process : pc'[p] = "take" => pc[p] = "take"
      PROVE  SlotInv'
  <2>1. Takers' \subseteq Takers
    BY <1>2 DEF Takers, Process
  <2>. QED
    BY <1>0, <1>1, <1>2, <2>1 DEF TypeOK
<1>3. ASSUME NEW p \in Process, Start(p) \/ HandleStorageStartupConfig(p) \/ Crash(p)
      PROVE  SlotInv'
  <2>1. \A q \in Process : pc'[q] = "take" => pc[q] = "take"
    BY <1>3 DEF Start, HandleStorageStartupConfig, Crash, TypeOK
  <2>2. UNCHANGED active
    BY <1>3 DEF Start, HandleStorageStartupConfig, Crash, redis
  <2>. QED
    BY <1>2, <2>1, <2>2
<1>4. ASSUME NEW p \in Process, OpReads(p) \/ OpFails(p) PROVE SlotInv'
  BY <1>2, <1>4 DEF OpReads, OpFails, redis, executor
<1>5. ASSUME NEW p \in Process, OpWrites(p) \/ OpReplyLost(p) PROVE SlotInv'
  <2>1. UNCHANGED pc
    BY <1>5 DEF OpWrites, OpReplyLost, executor
  <2>2. \E o \in Op : Writes(o, seen[p])
    BY <1>5, HeadType DEF TypeOK, OpWrites, OpReplyLost
  <2>3. PICK w \in Workflow : active' = active \/ active' = LRem(active, w)
    BY <2>2 DEF Writes, AddWrites, RequeueWrites, CompleteWrites, Op
  <2>4. active' \in Seq(Workflow) /\ Len(active') <= Len(active)
    BY <1>0, <2>3, LRemProperties DEF TypeOK
  <2>5. Takers' \subseteq Takers
    BY <2>1 DEF Takers
  <2>. QED
    BY <1>1, <2>4, <2>5
<1>6. ASSUME NEW p \in Process, Poll(p) PROVE SlotInv'
  <2>1. CASE UNCHANGED pc
    BY <1>2, <1>6, <2>1 DEF Poll, redis
  <2>2. CASE Len(active) < MaxActive /\ UNCHANGED active
    BY <1>0, <2>2, TakersFinite DEF SlotInv
  <2>. QED
    BY <1>6, <2>1, <2>2 DEF Poll, redis
<1>7. ASSUME NEW p \in Process, Take(p) PROVE SlotInv'
  <2>1. p \in Takers
    BY <1>7 DEF Take, Takers, TypeOK
  <2>2. Takers' = Takers \ {p}
    BY <1>7 DEF Take, Takers, TypeOK, Process
  <2>3. Cardinality(Takers') = Cardinality(Takers) - 1
    BY <2>1, <2>2, TakersFinite, FS_RemoveElement
  <2>4. Len(active') = Len(active) + 1
    BY <1>7, PopLeftProperties, PushRightProperties DEF Take, TypeOK
  <2>. QED
    BY <1>0, <2>3, <2>4, TakersFinite DEF SlotInv
<1>8. ASSUME NEW p \in Process, TakeTimeout(p) \/ Spawn(p) \/ ReadFails(p) PROVE SlotInv'
  BY <1>2, <1>8 DEF TakeTimeout, Spawn, ReadFails, redis, TypeOK
<1>9. ASSUME NEW p \in Process, NEW w \in Workflow,
             AddWorkflow(p, w) \/ Finish(p, w) \/ Requeue(p, w) \/ Drop(p, w)
      PROVE  SlotInv'
  BY <1>2, <1>9 DEF AddWorkflow, Finish, Requeue, Drop, redis, executor
<1>10. CASE UNCHANGED vars
  BY <1>2, <1>10 DEF vars
<1>. QED
  BY <1>3, <1>4, <1>5, <1>6, <1>7, <1>8, <1>9, <1>10 DEF Next

\* The executors overshoot the limit by at most one workflow each but one.
THEOREM SlotsBounded == Spec => []ActiveBound
<1>1. TypeOK /\ SlotInv => ActiveBound
  BY TakersFinite DEF SlotInv, ActiveBound, TypeOK
<1>. QED
  BY <1>1, TypeInit, TypeNext, SlotInvInit, SlotInvNext, PTL DEF Spec
=============================================================================

----------------------- MODULE WorkflowExclusiveProofs -----------------------
(***************************************************************************)
(* For any number of processes, workflows, faults and crashes: a workflow  *)
(* is executed once at a time, and the storage implements the life cycle   *)
(* of WorkflowLifecycle.  Both need what OneEntry needs, that one process  *)
(* listens (OneListener).                                                  *)
(***************************************************************************)
EXTENDS WorkflowStorageProofs

USE StorageAssumption

\* The writes of a process that end an execution of w: requeues and completions.
Pend(p, w) == {i \in DOMAIN backlog[p] : backlog[p][i].op # "add" /\ backlog[p][i].key = w}
Runs(p, w) == tasks[p][w] > 0 \/ taken[p] = w
Held(p, w) == Runs(p, w) \/ Pend(p, w) # {}

\* One process holds w, in one way: it has taken it, executes it, or is about to
\* write how that ended.
OneHolder(w) ==
  /\ \A p, q \in Process : Held(p, w) /\ Held(q, w) => p = q
  /\ \A p \in Process :
       /\ tasks[p][w] <= 1
       /\ tasks[p][w] > 0 => taken[p] # w
       /\ Runs(p, w) => Pend(p, w) = {}
       /\ \A i, j \in Pend(p, w) : i = j

\* While it is held, the active list has it, unless its completion was written
\* and is to be written again because the answer was lost.
HolderListed(w) ==
  /\ \A p \in Process : Runs(p, w) => kv[w] = "json" /\ InActive(w)
  /\ \A p \in Process : \A i \in Pend(p, w) :
       \/ kv[w] = "json" /\ InActive(w)
       \/ kv[w] = "complete" /\ backlog[p][i].op = "complete"
  /\ kv[w] = "complete" => ~InQueue(w) /\ ~InActive(w)

Exclusive(w) == OneHolder(w) /\ HolderListed(w)

ExclusiveInv == \A w \in Workflow \ ambiguous : Exclusive(w)

-----------------------------------------------------------------------------
(* The backlogs.                                                           *)

\* Dropping the head of a backlog, or all of it, adds no write.
LEMMA PendShrinks ==
  ASSUME TypeOK, NEW p \in Process, BacklogStep(p), NEW w, NEW q \in Process
  PROVE  /\ \A i \in Pend(q, w)' : \E j \in Pend(q, w) : backlog'[q][i] = backlog[q][j]
         /\ (\A i, j \in Pend(q, w) : i = j) => (\A i, j \in Pend(q, w)' : i = j)
<1>1. backlog[q] \in Seq(Op)
  BY DEF TypeOK
<1>2. CASE backlog'[q] = backlog[q]
  BY <1>2 DEF Pend
<1>3. CASE backlog'[q] = <<>>
  BY <1>3 DEF Pend
<1>4. CASE backlog'[q] = Tail(backlog[q]) /\ backlog[q] # <<>>
  <2>1. \A i \in DOMAIN backlog'[q] :
          i \in Nat /\ i + 1 \in DOMAIN backlog[q] /\ backlog'[q][i] = backlog[q][i + 1]
    BY <1>1, <1>4
  <2>2. \A i \in Pend(q, w)' : i \in Nat /\ i + 1 \in Pend(q, w)
    BY <2>1 DEF Pend
  <2> QED BY <2>1, <2>2 DEF Pend
<1> QED BY <1>2, <1>3, <1>4 DEF TypeOK, BacklogStep

\* runOpWithRetry adds one write, the last.
LEMMA PendPush ==
  ASSUME TypeOK, NEW p \in Process, NEW o \in {"add", "requeue", "complete"},
         NEW w \in Workflow, RunOpWithRetry(p, o, w)
  PROVE  /\ \A q \in Process, v \in Workflow :
              ~(o # "add" /\ q = p /\ v = w) => Pend(q, v)' = Pend(q, v)
         /\ \A q \in Process, v \in Workflow : \A i \in Pend(q, v) :
              backlog'[q][i] = backlog[q][i]
         /\ o # "add" => Pend(p, w)' = Pend(p, w) \cup {Len(backlog[p]) + 1}
         /\ Pend(p, w) = {} => \A i \in Pend(p, w)' : backlog'[p][i].op = o
<1> DEFINE new == [op |-> o, key |-> w]
           n == Len(backlog[p]) + 1
<1>1. /\ backlog \in [Process -> Seq(Op)] /\ backlog[p] \in Seq(Op)
      /\ backlog' = [backlog EXCEPT ![p] = Append(@, new)]
  BY DEF TypeOK, RunOpWithRetry
<1>2. new.op = o /\ new.key = w
  OBVIOUS
<1> HIDE DEF new
<1>3. /\ Len(backlog[p]) \in Nat /\ DOMAIN backlog[p] = 1..Len(backlog[p])
      /\ DOMAIN Append(backlog[p], new) = 1..(Len(backlog[p]) + 1)
      /\ Append(backlog[p], new)[Len(backlog[p]) + 1] = new
      /\ \A i \in 1..Len(backlog[p]) : Append(backlog[p], new)[i] = backlog[p][i]
  BY <1>1
<1>4. /\ backlog'[p] = Append(backlog[p], new)
      /\ \A q \in Process \ {p} : backlog'[q] = backlog[q]
  BY <1>1
<1>5. PICK m : m = n
  OBVIOUS
<1>6. /\ DOMAIN backlog'[p] = DOMAIN backlog[p] \cup {m} /\ m \notin DOMAIN backlog[p]
      /\ backlog'[p][m] = new /\ \A i \in DOMAIN backlog[p] : backlog'[p][i] = backlog[p][i]
  BY <1>3, <1>4, <1>5
<1>7. \A v \in Workflow : ~(o # "add" /\ v = w) => Pend(p, v)' = Pend(p, v)
  BY <1>2, <1>6 DEF Pend
<1>8. o # "add" => Pend(p, w)' = Pend(p, w) \cup {m}
  BY <1>2, <1>6 DEF Pend
<1>9. \A q \in Process \ {p}, v \in Workflow :
        Pend(q, v)' = Pend(q, v) /\ backlog'[q] = backlog[q]
  BY <1>4 DEF Pend
<1>10. \A q \in Process, v \in Workflow : \A i \in Pend(q, v) : backlog'[q][i] = backlog[q][i]
  BY <1>6, <1>9 DEF Pend
<1>11. Pend(p, w) = {} => \A i \in Pend(p, w)' : backlog'[p][i].op = o
  BY <1>2, <1>6, <1>7, <1>8
<1> QED BY <1>5, <1>7, <1>8, <1>9, <1>10, <1>11

-----------------------------------------------------------------------------
(* The steps, for one workflow.                                            *)

\* A step that leaves w's key and lists alone and only takes away from those who
\* hold it.
LEMMA LessHeld ==
  ASSUME NEW w \in Workflow, Exclusive(w),
         kv'[w] = kv[w], InQueue(w)' <=> InQueue(w), InActive(w)' <=> InActive(w),
         \A q \in Process : tasks'[q][w] \in {0, tasks[q][w]},
         \A q \in Process : taken'[q] = w => taken[q] = w,
         \A q \in Process :
           /\ \A i \in Pend(q, w)' : \E j \in Pend(q, w) : backlog'[q][i] = backlog[q][j]
           /\ \A i, j \in Pend(q, w)' : i = j
  PROVE  Exclusive(w)'
<1>1. \A q \in Process : /\ Runs(q, w)' => Runs(q, w)
                         /\ Pend(q, w)' # {} => Pend(q, w) # {}
  BY DEF Runs
<1>2. \A q \in Process : Held(q, w)' => Held(q, w)
  BY <1>1 DEF Held
<1>3. OneHolder(w)'
  <2>1. \A p, q \in Process : Held(p, w)' /\ Held(q, w)' => p = q
    BY <1>2 DEF Exclusive, OneHolder
  <2>2. ASSUME NEW p \in Process
        PROVE  /\ tasks'[p][w] <= 1
               /\ tasks'[p][w] > 0 => taken'[p] # w
               /\ Runs(p, w)' => Pend(p, w)' = {}
               /\ \A i, j \in Pend(p, w)' : i = j
    <3>1. /\ tasks[p][w] <= 1
          /\ tasks[p][w] > 0 => taken[p] # w
          /\ Runs(p, w) => Pend(p, w) = {}
      BY DEF Exclusive, OneHolder
    <3>2. tasks'[p][w] = 0 \/ tasks'[p][w] = tasks[p][w]
      OBVIOUS
    <3> QED BY <1>1, <3>1, <3>2
  <2> QED BY <2>1, <2>2 DEF OneHolder
<1>4. HolderListed(w)'
  BY <1>1 DEF Exclusive, HolderListed
<1> QED BY <1>3, <1>4 DEF Exclusive

\* The memory of a process that ends.
LEMMA ClearMemoryExclusive ==
  ASSUME TypeOK, NEW p \in Process, ClearMemory(p), UNCHANGED redis,
         NEW w \in Workflow, Exclusive(w)
  PROVE  Exclusive(w)'
<1>1. BacklogStep(p)
  BY DEF ClearMemory, BacklogStep
<1>2. \A q \in Process : tasks'[q][w] \in {0, tasks[q][w]} /\ (taken'[q] = w => taken[q] = w)
  BY DEF ClearMemory, TypeOK, NoTasks
<1>3. \A q \in Process :
        /\ \A i \in Pend(q, w)' : \E j \in Pend(q, w) : backlog'[q][i] = backlog[q][j]
        /\ \A i, j \in Pend(q, w)' : i = j
  BY <1>1, PendShrinks DEF Exclusive, OneHolder
<1>4. kv'[w] = kv[w] /\ (InQueue(w)' <=> InQueue(w)) /\ (InActive(w)' <=> InActive(w))
  BY DEF redis, InQueue, InActive
<1> QED BY <1>2, <1>3, <1>4, LessHeld

\* Steps of the wrapper that write nothing, and those of the loop and of a handler
\* that only give w up.
LEMMA QuietExclusive ==
  ASSUME TypeOK, NEW p \in Process, BacklogStep(p), UNCHANGED redis,
         NEW w \in Workflow, Exclusive(w),
         \A q \in Process : tasks'[q][w] \in {0, tasks[q][w]},
         \A q \in Process : taken'[q] = w => taken[q] = w
  PROVE  Exclusive(w)'
<1>1. \A q \in Process :
        /\ \A i \in Pend(q, w)' : \E j \in Pend(q, w) : backlog'[q][i] = backlog[q][j]
        /\ \A i, j \in Pend(q, w)' : i = j
  BY PendShrinks DEF Exclusive, OneHolder
<1>2. kv'[w] = kv[w] /\ (InQueue(w)' <=> InQueue(w)) /\ (InActive(w)' <=> InActive(w))
  BY DEF redis, InQueue, InActive
<1> QED BY <1>1, <1>2, LessHeld

\* exec(true), answered or not, of the operation at the head of a backlog.
LEMMA WritesExclusive ==
  ASSUME TypeOK, ListInv, KeyInv, EntryInv, NEW p \in Process, OpWrites(p) \/ OpReplyLost(p),
         NEW w \in Workflow, w \notin ambiguous', Exclusive(w)
  PROVE  Exclusive(w)'
<1>1. PICK o \in Op : /\ Writes(o, seen[p]) /\ o = Head(backlog[p])
                      /\ o = backlog[p][1] /\ 1 \in DOMAIN backlog[p]
                      /\ seen[p] # "none"
  BY HeadType DEF TypeOK, OpWrites, OpReplyLost, Throws
<1>2. BacklogStep(p) /\ UNCHANGED <<tasks, taken>>
  BY DEF OpWrites, OpReplyLost, OpDone, BacklogStep, Running, TypeOK, executor
<1>3. \A q \in Process :
        /\ \A i \in Pend(q, w)' : \E j \in Pend(q, w) : backlog'[q][i] = backlog[q][j]
        /\ \A i, j \in Pend(q, w)' : i = j
  BY <1>2, PendShrinks DEF Exclusive, OneHolder
<1>4. CASE w # o.key
  <2>1. kv'[w] = kv[w] /\ (InQueue(w)' <=> InQueue(w)) /\ (InActive(w)' <=> InActive(w))
    BY <1>1, <1>4, WritesLists
  <2> QED BY <1>2, <1>3, <2>1, LessHeld
<1>5. CASE w = o.key /\ o.op = "add"
  <2>1. kv[w] = "absent"
    BY <1>1, <1>5 DEF EntryInv, AddSeesAbsent
  <2>2. \A q \in Process : ~Runs(q, w) /\ Pend(q, w) = {}
    BY <2>1 DEF Exclusive, HolderListed
  <2>3. \A q \in Process : ~Runs(q, w)' /\ Pend(q, w)' = {} /\ tasks'[q][w] = tasks[q][w]
    BY <1>2, <1>3, <2>2 DEF Runs
  <2>4. OneHolder(w)'
    BY <2>3 DEF OneHolder, Held, Exclusive, Runs
  <2>5. kv'[w] = "json"
    BY <1>1, <1>5, WritesLists
  <2> QED BY <2>3, <2>4, <2>5 DEF Exclusive, HolderListed
<1>6. CASE w = o.key /\ o.op # "add"
  <2>1. 1 \in Pend(p, w)
    BY <1>1, <1>6 DEF Pend
  <2>2. /\ \A q \in Process : ~Runs(q, w)
        /\ \A q \in Process \ {p} : Pend(q, w) = {}
        /\ \A i \in Pend(p, w) : i = 1
    BY <2>1 DEF Exclusive, OneHolder, Held
  <2>3. \A q \in Process : ~Runs(q, w)' /\ tasks'[q][w] = tasks[q][w]
    BY <1>2, <2>2 DEF Runs
  <2>4. \A q \in Process \ {p} : Pend(q, w)' = {}
    BY <1>3, <2>2
  <2>5. OneHolder(w)'
    BY <1>3, <2>3, <2>4 DEF OneHolder, Held, Exclusive, Runs
  <2>6. /\ Range(LRem(queue, w)) = Range(queue) \ {w}
        /\ Range(LRem(active, w)) = Range(active) \ {w}
    BY LRemProperties DEF TypeOK
  <2>7. \/ kv[w] = "json" /\ InActive(w) /\ ~InQueue(w)
        \/ kv[w] = "complete" /\ o.op = "complete" /\ ~InQueue(w)
    BY <1>1, <2>1 DEF Exclusive, HolderListed, EntryInv, OneEntry, InActive, InQueue
  <2>8. CASE o.op = "complete"
    <3>1. CompleteWrites(w)
      BY <1>1, <1>6, <2>8 DEF Writes
    <3>2. kv'[w] = "complete" /\ ~InQueue(w)' /\ ~InActive(w)'
      BY <2>6, <2>7, <3>1 DEF CompleteWrites, InQueue, InActive, TypeOK
    <3>3. \A q \in Process : \A i \in Pend(q, w)' : backlog'[q][i].op = "complete"
      <4>1. \A i \in Pend(p, w) : backlog[p][i].op = "complete"
        BY <1>1, <2>2, <2>8
      <4> QED BY <1>3, <2>4, <4>1
    <3> QED BY <2>3, <2>5, <3>2, <3>3 DEF Exclusive, HolderListed
  <2>9. CASE o.op = "requeue"
    <3>1. RequeueWrites(w, seen[p]) /\ kv[w] = "json"
      BY <1>1, <1>6, <2>7, <2>9 DEF Writes
    <3>2. kv'[w] = "json"
      BY <3>1 DEF RequeueWrites, TypeOK
    <3>3. ~OpReplyLost(p)
      BY <1>1, <1>6, <2>9 DEF OpReplyLost
    <3>4. OpWrites(p)
      BY <3>3
    <3>5. backlog'[p] = Tail(backlog[p]) /\ backlog[p] \in Seq(Op)
      BY <3>4 DEF OpWrites, OpDone, TypeOK
    <3>6. Pend(p, w)' = {}
      <4>1. ASSUME NEW i \in Pend(p, w)'
            PROVE  FALSE
        <5>1. i \in DOMAIN Tail(backlog[p]) /\ backlog[p] # <<>>
          BY <1>1, <3>5, <4>1 DEF Pend
        <5>2. i \in Nat \ {0} /\ i + 1 \in DOMAIN backlog[p] /\ backlog'[p][i] = backlog[p][i + 1]
          BY <3>5, <5>1
        <5>3. i + 1 \in Pend(p, w)
          BY <4>1, <5>2 DEF Pend
        <5> QED BY <2>2, <5>2, <5>3
      <4> QED BY <4>1
    <3> QED BY <2>3, <2>4, <2>5, <3>2, <3>6 DEF Exclusive, HolderListed
  <2> QED BY <1>6, <2>8, <2>9 DEF Op
<1> QED BY <1>4, <1>5, <1>6

\* BLMOVE: a queued workflow is held by nobody.
LEMMA TakeExclusive ==
  ASSUME TypeOK, ListInv, EntryInv, NEW p \in Process, Take(p),
         NEW w \in Workflow, Exclusive(w)
  PROVE  Exclusive(w)'
<1>1. PICK h \in Workflow : /\ h = LeftOf(queue)
                            /\ Range(queue) = Range(PopLeft(queue)) \cup {h}
                            /\ h \notin Range(PopLeft(queue))
  BY PopLeftProperties DEF TypeOK, Take, EntryInv, OneEntry
<1>2. Range(PushRight(active, h)) = Range(active) \cup {h}
  BY PushRightProperties DEF TypeOK
<1>3. /\ queue' = PopLeft(queue) /\ active' = PushRight(active, h)
      /\ taken' = [taken EXCEPT ![p] = h] /\ pc[p] = "take"
      /\ UNCHANGED <<kv, tasks, backlog>>
  BY <1>1 DEF Take, wrapper
<1>4. taken \in [Process -> Workflow \cup {None}] /\ taken[p] = None
  BY <1>3 DEF TypeOK
<1>5. \A v : \A q \in Process : Pend(q, v)' = Pend(q, v)
  BY <1>3 DEF Pend
<1>6. CASE w # h
  <2>1. (InQueue(w)' <=> InQueue(w)) /\ (InActive(w)' <=> InActive(w))
    BY <1>1, <1>2, <1>3, <1>6 DEF InQueue, InActive
  <2>2. \A q \in Process : taken'[q] = w => taken[q] = w
    BY <1>3, <1>4, <1>6
  <2>3. \A q \in Process :
          /\ \A i \in Pend(q, w)' : \E j \in Pend(q, w) : backlog'[q][i] = backlog[q][j]
          /\ \A i, j \in Pend(q, w)' : i = j
    BY <1>3, <1>5 DEF Exclusive, OneHolder
  <2> QED BY <1>3, <2>1, <2>2, <2>3, LessHeld
<1>7. CASE w = h
  <2>1. InQueue(w) /\ ~InActive(w)
    BY <1>1, <1>7 DEF InQueue, InActive, EntryInv, OneEntry
  <2>2. kv[w] = "json"
    BY <2>1 DEF Exclusive, HolderListed, ListInv, AbsentUnlisted, TypeOK, Value
  <2>3. \A q \in Process : ~Runs(q, w) /\ Pend(q, w) = {}
    BY <2>1, <2>2 DEF Exclusive, HolderListed
  <2>4. /\ taken'[p] = w /\ \A q \in Process \ {p} : taken'[q] = taken[q]
        /\ \A q \in Process : ~(tasks[q][w] > 0) /\ tasks[q][w] <= 1
    BY <1>3, <1>4, <1>7, <2>3 DEF Runs, Exclusive, OneHolder
  <2>5. \A q \in Process : Pend(q, w)' = {} /\ (q # p => ~Runs(q, w)')
    BY <1>3, <1>5, <2>3, <2>4 DEF Runs
  <2>6. OneHolder(w)'
    BY <1>3, <2>4, <2>5 DEF OneHolder, Held
  <2>7. kv'[w] = "json" /\ InActive(w)'
    BY <1>2, <1>3, <1>7, <2>2 DEF InActive
  <2> QED BY <2>5, <2>6, <2>7 DEF Exclusive, HolderListed
<1> QED BY <1>6, <1>7

\* spawnWorkflow: what was taken is executed.
LEMMA SpawnExclusive ==
  ASSUME TypeOK, NEW p \in Process, Spawn(p), NEW w \in Workflow, Exclusive(w)
  PROVE  Exclusive(w)'
<1>1. /\ UNCHANGED redis /\ UNCHANGED backlog /\ BacklogStep(p)
      /\ taken' = [taken EXCEPT ![p] = None] /\ pc[p] = "read"
      /\ tasks' = IF kv[taken[p]] = "json"
                  THEN [tasks EXCEPT ![p][taken[p]] = @ + 1] ELSE tasks
  BY DEF Spawn, wrapper, BacklogStep
<1>2. PICK t \in Workflow : t = taken[p]
  BY <1>1 DEF TypeOK
<1>3. /\ taken \in [Process -> Workflow \cup {None}]
      /\ \A q \in Process : tasks[q][t] \in Nat /\ tasks[q][w] \in Nat
  BY DEF TypeOK
<1>4. \A q \in Process : taken'[q] = w => taken[q] = w
  BY <1>1, <1>3
<1>5. \A q \in Process, v \in Workflow :
        tasks'[q][v] = IF q = p /\ v = t /\ kv[t] = "json" THEN tasks[q][v] + 1 ELSE tasks[q][v]
  <2>1. tasks[p][t] \in Nat /\ tasks[p][t] + 1 \in Nat
    BY <1>3
  <2>2. CASE kv[t] = "json"
    <3>1. tasks' = [tasks EXCEPT ![p][t] = tasks[p][t] + 1]
      BY <1>1, <1>2, <2>2
    <3>2. \A q \in Process, v \in Workflow :
            tasks'[q][v] = IF q = p /\ v = t THEN tasks[p][t] + 1 ELSE tasks[q][v]
      BY <2>1, <3>1, TasksChange
    <3> QED BY <2>2, <3>2
  <2>3. CASE kv[t] # "json"
    BY <1>1, <1>2, <2>3
  <2> QED BY <2>2, <2>3
<1>6. CASE ~(w = t /\ kv[t] = "json")
  <2>1. \A q \in Process : tasks'[q][w] = tasks[q][w]
    BY <1>5, <1>6
  <2> QED BY <1>1, <1>4, <2>1, QuietExclusive
<1>7. CASE w = t /\ kv[t] = "json"
  <2>1. Runs(p, w) /\ taken[p] = w
    BY <1>2, <1>7 DEF Runs
  <2>2. /\ InActive(w) /\ tasks[p][w] = 0 /\ Pend(p, w) = {}
        /\ \A q \in Process \ {p} : ~Runs(q, w) /\ Pend(q, w) = {}
    BY <1>3, <2>1 DEF Exclusive, OneHolder, HolderListed, Held
  <2>3. tasks'[p][w] = 1 /\ taken'[p] # w
    BY <1>1, <1>3, <1>5, <1>7, <2>2
  <2>4. \A q \in Process \ {p} : tasks'[q][w] = tasks[q][w] /\ taken'[q] = taken[q]
    BY <1>1, <1>3, <1>5
  <2>5. /\ \A q \in Process : Pend(q, w)' = {} /\ tasks'[q][w] <= 1
        /\ \A q \in Process \ {p} : ~Runs(q, w)'
    BY <1>1, <2>2, <2>3, <2>4 DEF Pend, Runs, Exclusive, OneHolder
  <2>6. OneHolder(w)'
    BY <2>3, <2>5 DEF OneHolder, Held, Runs
  <2>7. kv'[w] = "json" /\ InActive(w)'
    BY <1>1, <1>7, <2>2 DEF redis, InActive
  <2> QED BY <2>5, <2>6, <2>7 DEF Exclusive, HolderListed
<1> QED BY <1>6, <1>7

\* The handler settles: completeWorkflow, requeueWorkflow.
LEMMA SettleExclusive ==
  ASSUME TypeOK, NEW p \in Process, NEW v \in Workflow, Finish(p, v) \/ Requeue(p, v),
         NEW w \in Workflow, Exclusive(w)
  PROVE  Exclusive(w)'
<1>1. PICK o \in {"requeue", "complete"} :
        /\ RunOpWithRetry(p, o, v)
        /\ tasks[p][v] > 0 /\ tasks' = [tasks EXCEPT ![p][v] = @ - 1]
        /\ UNCHANGED taken
  BY DEF Finish, Requeue
<1>2. UNCHANGED redis
  BY QuietSteps
<1>3. kv'[w] = kv[w] /\ (InQueue(w)' <=> InQueue(w)) /\ (InActive(w)' <=> InActive(w))
  BY <1>2 DEF redis, InQueue, InActive
<1>4. tasks[p][v] \in Nat /\ tasks[p][v] - 1 \in Nat /\ \A q \in Process : tasks[q][w] \in Nat
  BY <1>1 DEF TypeOK
<1>5. \A q \in Process, u \in Workflow :
        tasks'[q][u] = IF q = p /\ u = v THEN tasks[p][v] - 1 ELSE tasks[q][u]
  BY <1>1, <1>4, TasksChange
<1>6. /\ \A q \in Process, u \in Workflow : ~(q = p /\ u = v) => Pend(q, u)' = Pend(q, u)
      /\ \A q \in Process, u \in Workflow : \A i \in Pend(q, u) : backlog'[q][i] = backlog[q][i]
      /\ Pend(p, v)' = Pend(p, v) \cup {Len(backlog[p]) + 1}
  BY <1>1, PendPush
<1>7. CASE w # v
  <2>1. \A q \in Process : tasks'[q][w] = tasks[q][w] /\ Pend(q, w)' = Pend(q, w)
    BY <1>5, <1>6, <1>7
  <2>2. \A q \in Process :
          /\ \A i \in Pend(q, w)' : \E j \in Pend(q, w) : backlog'[q][i] = backlog[q][j]
          /\ \A i, j \in Pend(q, w)' : i = j
    BY <1>6, <2>1 DEF Exclusive, OneHolder
  <2> QED BY <1>1, <1>3, <2>1, <2>2, LessHeld
<1>8. CASE w = v
  <2>1. Runs(p, w) /\ tasks[p][w] > 0
    BY <1>1, <1>8 DEF Runs
  <2>2. /\ kv[w] = "json" /\ InActive(w) /\ Pend(p, w) = {} /\ tasks[p][w] <= 1 /\ taken[p] # w
        /\ \A q \in Process \ {p} : ~Runs(q, w) /\ Pend(q, w) = {}
    BY <2>1 DEF Exclusive, OneHolder, HolderListed, Held
  <2>3. /\ tasks'[p][w] = 0 /\ \A q \in Process \ {p} : tasks'[q][w] = tasks[q][w]
        /\ \A q \in Process : tasks'[q][w] <= 1
    BY <1>4, <1>5, <1>8, <2>1, <2>2 DEF Exclusive, OneHolder
  <2>4. /\ \A q \in Process : ~Runs(q, w)'
        /\ \A q \in Process \ {p} : Pend(q, w)' = {}
        /\ \A i, j \in Pend(p, w)' : i = j
    BY <1>1, <1>6, <1>8, <2>2, <2>3 DEF Runs
  <2>5. OneHolder(w)'
    BY <2>3, <2>4 DEF OneHolder, Held, Runs
  <2>6. HolderListed(w)'
    BY <1>3, <2>2, <2>4 DEF HolderListed, Exclusive
  <2> QED BY <2>5, <2>6 DEF Exclusive
<1> QED BY <1>7, <1>8

\* An event: an add ends no execution.
LEMMA AddExclusive ==
  ASSUME TypeOK, NEW p \in Process, NEW v \in Workflow, AddWorkflow(p, v),
         NEW w \in Workflow, Exclusive(w)
  PROVE  Exclusive(w)'
<1>1. RunOpWithRetry(p, "add", v) /\ UNCHANGED redis /\ UNCHANGED <<tasks, taken>>
  BY DEF AddWorkflow, executor
<1>2. /\ \A q \in Process : Pend(q, w)' = Pend(q, w)
      /\ \A q \in Process : \A i \in Pend(q, w) : backlog'[q][i] = backlog[q][i]
  BY <1>1, PendPush
<1>3. \A q \in Process :
        /\ \A i \in Pend(q, w)' : \E j \in Pend(q, w) : backlog'[q][i] = backlog[q][j]
        /\ \A i, j \in Pend(q, w)' : i = j
  BY <1>2 DEF Exclusive, OneHolder
<1>4. kv'[w] = kv[w] /\ (InQueue(w)' <=> InQueue(w)) /\ (InActive(w)' <=> InActive(w))
  BY <1>1 DEF redis, InQueue, InActive
<1> QED BY <1>1, <1>3, <1>4, LessHeld

-----------------------------------------------------------------------------
\* Before any process starts, nothing holds a workflow.
LEMMA ExclusiveInvInit == Init => ExclusiveInv
<1> SUFFICES ASSUME Init, NEW w \in Workflow PROVE Exclusive(w)
  BY DEF ExclusiveInv
<1>1. \A p \in Process : ~Runs(p, w) /\ Pend(p, w) = {} /\ tasks[p][w] = 0
  BY DEF Init, Runs, Pend, NoTasks
<1> QED BY <1>1 DEF Init, Exclusive, OneHolder, HolderListed, Held

\* No action of storage.ts or executorHarness.ts gives a workflow a second holder.
LEMMA ExclusiveInvNext ==
  TypeOK /\ ListInv /\ KeyInv /\ EntryInv /\ ExclusiveInv /\ [Next]_vars => ExclusiveInv'
<1> SUFFICES ASSUME TypeOK, ListInv, KeyInv, EntryInv, ExclusiveInv, [Next]_vars,
                    NEW w \in Workflow, w \notin ambiguous'
             PROVE  Exclusive(w)'
  BY DEF ExclusiveInv
<1>1. ambiguous \subseteq ambiguous'
  <2>1. ASSUME NEW p \in Process, OpReplyLost(p)
        PROVE  ambiguous \subseteq ambiguous'
    BY <2>1 DEF OpReplyLost
  <2> QED
    BY <2>1 DEF Next, vars, Start, HandleStorageStartupConfig, Crash, OpReads, OpWrites, 
                OpFails, Poll, Take, TakeTimeout, Spawn, ReadFails, AddWorkflow, Finish, Requeue,
                Drop
<1>2. Exclusive(w)
  BY <1>1 DEF ExclusiveInv
<1>3. ASSUME NEW p \in Process, BacklogStep(p), UNCHANGED <<redis, tasks, taken>>
      PROVE  Exclusive(w)'
  BY <1>2, <1>3, QuietExclusive DEF redis
<1>4. ASSUME NEW p \in Process, Start(p) \/ Poll(p) \/ TakeTimeout(p)
      PROVE  Exclusive(w)'
  BY <1>3, <1>4 DEF Start, Poll, TakeTimeout, wrapper, BacklogStep, redis
<1>5. ASSUME NEW p \in Process, HandleStorageStartupConfig(p) \/ Crash(p)
      PROVE  Exclusive(w)'
  <2>1. CASE ClearMemory(p)
    BY <1>2, <1>5, <2>1, ClearMemoryExclusive, QuietSteps
  <2>2. CASE ~ClearMemory(p)
    BY <1>3, <1>5, <2>2 DEF HandleStorageStartupConfig, Crash, wrapper, BacklogStep, redis
  <2> QED BY <2>1, <2>2
<1>6. ASSUME NEW p \in Process, OpReads(p) \/ OpFails(p)
      PROVE  Exclusive(w)'
  <2>1. BacklogStep(p) /\ UNCHANGED <<redis, tasks, taken>>
    BY <1>6 DEF OpReads, OpFails, OpDone, OpThrown, BacklogStep, Running, executor,
                TypeOK, Throws
  <2> QED BY <1>3, <2>1
<1>7. ASSUME NEW p \in Process, OpWrites(p) \/ OpReplyLost(p)
      PROVE  Exclusive(w)'
  BY <1>2, <1>7, WritesExclusive
<1>8. ASSUME NEW p \in Process, Take(p)
      PROVE  Exclusive(w)'
  BY <1>2, <1>8, TakeExclusive
<1>9. ASSUME NEW p \in Process, Spawn(p)
      PROVE  Exclusive(w)'
  BY <1>2, <1>9, SpawnExclusive
<1>10. ASSUME NEW p \in Process, ReadFails(p)
       PROVE  Exclusive(w)'
  <2>1. /\ BacklogStep(p) /\ UNCHANGED redis /\ UNCHANGED tasks
        /\ taken' = [taken EXCEPT ![p] = None]
    BY <1>10 DEF ReadFails, wrapper, BacklogStep, redis
  <2>2. \A q \in Process : taken'[q] = w => taken[q] = w
    BY <2>1 DEF TypeOK
  <2> QED BY <1>2, <2>1, <2>2, QuietExclusive
<1>11. ASSUME NEW p \in Process, NEW v \in Workflow, AddWorkflow(p, v)
       PROVE  Exclusive(w)'
  BY <1>2, <1>11, AddExclusive
<1>12. ASSUME NEW p \in Process, NEW v \in Workflow, Finish(p, v) \/ Requeue(p, v)
       PROVE  Exclusive(w)'
  BY <1>2, <1>12, SettleExclusive
<1>13. ASSUME NEW p \in Process, NEW v \in Workflow, Drop(p, v)
       PROVE  Exclusive(w)'
  <2>1. /\ BacklogStep(p) /\ UNCHANGED redis /\ UNCHANGED taken
        /\ tasks[p][v] > 0 /\ tasks' = [tasks EXCEPT ![p][v] = @ - 1]
    BY <1>13 DEF Drop, wrapper, BacklogStep, redis
  <2>2. tasks[p][v] \in Nat /\ tasks[p][v] - 1 \in Nat
    BY <2>1 DEF TypeOK
  <2>3. \A q \in Process, u \in Workflow :
          tasks'[q][u] = IF q = p /\ u = v THEN tasks[p][v] - 1 ELSE tasks[q][u]
    BY <2>1, <2>2, TasksChange
  <2>4. w = v => tasks[p][v] <= 1
    BY <1>2 DEF Exclusive, OneHolder
  <2>5. \A q \in Process : tasks'[q][w] \in {0, tasks[q][w]}
    BY <2>1, <2>2, <2>3, <2>4
  <2> QED BY <1>2, <2>1, <2>5, QuietExclusive
<1>14. CASE UNCHANGED vars
  <2>1. PICK p \in Process : TRUE
    BY DEF Process
  <2>2. BacklogStep(p) /\ UNCHANGED <<redis, tasks, taken>>
    BY <1>14 DEF vars, redis, BacklogStep
  <2> QED BY <1>3, <2>2
<1> QED
  BY <1>4, <1>5, <1>6, <1>7, <1>8, <1>9, <1>10, <1>11, <1>12, <1>13, <1>14 DEF Next

\* The invariants of both modules, in every state.
LEMMA ExclusiveAlways ==
  OneListener => (Spec => [](TypeOK /\ ListInv /\ KeyInv /\ EntryInv /\ ExclusiveInv))
<1> SUFFICES ASSUME OneListener
             PROVE  Spec => [](TypeOK /\ ListInv /\ KeyInv /\ EntryInv /\ ExclusiveInv)
  OBVIOUS
<1>1. TypeOK /\ ListInv /\ KeyInv /\ EntryInv /\ [Next]_vars => EntryInv'
  BY EntryInvNext
<1> QED
  BY <1>1, KeysAlways, EntryInvInit, ExclusiveInvInit, ExclusiveInvNext, PTL DEF Spec
-----------------------------------------------------------------------------
\* A workflow is executed by one task of one process at a time (spawnWorkflow), in
\* the active list; complete, it is not listed.  So unless the answer to a requeue of
\* it was lost, for any number of crashes, failed calls and lost answers.
THEOREM ExecutedOnce == OneListener => (Spec => []ExclusiveUnlessAmbiguous)
<1> SUFFICES ASSUME OneListener PROVE Spec => []ExclusiveUnlessAmbiguous
  OBVIOUS
<1>1. ASSUME TypeOK, ExclusiveInv, NEW w \in Workflow \ ambiguous
      PROVE  /\ Cardinality(Executing(w)) <= 1
             /\ \A p \in Process : tasks[p][w] <= 1
             /\ Executing(w) # {} => kv[w] = "json" /\ InActive(w)
             /\ kv[w] = "complete" => ~InQueue(w) /\ ~InActive(w)
  <2>1. Exclusive(w)
    BY <1>1 DEF ExclusiveInv
  <2>2. Executing(w) = {p \in Process : Runs(p, w)}
    BY DEF Executing, Runs
  <2>3. \A p, q \in Executing(w) : p = q
    BY <2>1, <2>2 DEF Exclusive, OneHolder, Held
  <2>4. Cardinality(Executing(w)) <= 1
    <3>1. CASE Executing(w) = {}
      BY <3>1, FS_EmptySet
    <3>2. CASE Executing(w) # {}
      <4>1. PICK p \in Executing(w) : TRUE
        BY <3>2
      <4>2. Executing(w) = {p}
        BY <2>3, <4>1
      <4>3. Cardinality({p}) = 1
        BY FS_Singleton
      <4> QED BY <4>2, <4>3
    <3> QED BY <3>1, <3>2
  <2>5. \A p \in Process : tasks[p][w] <= 1
    BY <2>1 DEF Exclusive, OneHolder
  <2>6. Executing(w) # {} => kv[w] = "json" /\ InActive(w)
    BY <2>1, <2>2 DEF Exclusive, HolderListed
  <2>7. kv[w] = "complete" => ~InQueue(w) /\ ~InActive(w)
    BY <2>1 DEF Exclusive, HolderListed
  <2> QED BY <2>4, <2>5, <2>6, <2>7
<1>2. TypeOK /\ ExclusiveInv => ExclusiveUnlessAmbiguous
  BY <1>1 DEF ExclusiveUnlessAmbiguous
<1> QED BY <1>2, ExclusiveAlways, PTL

-----------------------------------------------------------------------------
(* The life cycle.  Every step is a move of one workflow, or a stutter.    *)

Statuses == [w \in Workflow |-> StatusOf(w)]

\* Where one workflow alone changes, its change is a move.
LEMMA OneMoves ==
  ASSUME NEW w \in Workflow,
         \A v \in Workflow \ {w} : StatusOf(v)' = StatusOf(v),
         \/ StatusOf(w) = "unknown" /\ StatusOf(w)' = "queued" /\ ambiguous' = ambiguous
         \/ StatusOf(w) = "queued" /\ StatusOf(w)' = "active" /\ ambiguous' = ambiguous
         \/ StatusOf(w) = "active" /\ StatusOf(w)' = "complete" /\ ambiguous' = ambiguous
         \/ /\ StatusOf(w) = "active" /\ StatusOf(w)' = "queued"
            /\ ambiguous' \in {ambiguous, ambiguous \cup {w}}
         \/ /\ w \in ambiguous /\ ambiguous' = ambiguous /\ StatusOf(w) # "unknown"
            /\ StatusOf(w)' \in {"queued", "complete"}
         \/ StatusOf(w)' = StatusOf(w) /\ ambiguous' = ambiguous
  PROVE  [Lifecycle!Next]_<<Statuses, ambiguous>>
<1>1. PICK to : to = StatusOf(w)'
  OBVIOUS
<1>2. Statuses' = [Statuses EXCEPT ![w] = to]
  BY <1>1 DEF Statuses
<1>3. Statuses[w] = StatusOf(w)
  BY DEF Statuses
<1>4. CASE StatusOf(w)' = StatusOf(w) /\ ambiguous' = ambiguous
  <2>1. Statuses' = Statuses
    BY <1>4 DEF Statuses
  <2> QED BY <1>4, <2>1
<1>5. CASE StatusOf(w) = "unknown" /\ StatusOf(w)' = "queued" /\ ambiguous' = ambiguous
  <2>1. Lifecycle!Add(w)
    BY <1>1, <1>2, <1>3, <1>5 DEF Lifecycle!Add, Lifecycle!Move, Statuses
  <2> QED BY <2>1 DEF Lifecycle!Next
<1>6. CASE StatusOf(w) = "queued" /\ StatusOf(w)' = "active" /\ ambiguous' = ambiguous
  <2>1. Lifecycle!Take(w)
    BY <1>1, <1>2, <1>3, <1>6 DEF Lifecycle!Take, Lifecycle!Move, Statuses
  <2> QED BY <2>1 DEF Lifecycle!Next
<1>7. CASE StatusOf(w) = "active" /\ StatusOf(w)' = "complete" /\ ambiguous' = ambiguous
  <2>1. Lifecycle!Complete(w)
    BY <1>1, <1>2, <1>3, <1>7 DEF Lifecycle!Complete, Lifecycle!Move, Statuses
  <2> QED BY <2>1 DEF Lifecycle!Next
<1>8. CASE /\ StatusOf(w) = "active" /\ StatusOf(w)' = "queued"
           /\ ambiguous' \in {ambiguous, ambiguous \cup {w}}
  <2>1. Lifecycle!Requeue(w)
    BY <1>1, <1>2, <1>3, <1>8 DEF Lifecycle!Requeue, Lifecycle!Move, Statuses
  <2> QED BY <2>1 DEF Lifecycle!Next
<1>9. CASE /\ w \in ambiguous /\ ambiguous' = ambiguous /\ StatusOf(w) # "unknown"
           /\ StatusOf(w)' \in {"queued", "complete"}
  <2>1. Lifecycle!Redo(w)
    BY <1>1, <1>2, <1>3, <1>9 DEF Lifecycle!Redo, Statuses
  <2> QED BY <2>1 DEF Lifecycle!Next
<1> QED BY <1>4, <1>5, <1>6, <1>7, <1>8, <1>9

\* What the commands of an operation do to the status of its key.
LEMMA WritesMove ==
  ASSUME TypeOK, ListInv, KeyInv, EntryInv, ExclusiveInv, NEW p \in Process,
         OpWrites(p) \/ OpReplyLost(p)
  PROVE  [Lifecycle!Next]_<<Statuses, ambiguous>>
<1>1. PICK o \in Op : /\ Writes(o, seen[p]) /\ o = Head(backlog[p])
                      /\ o = backlog[p][1] /\ 1 \in DOMAIN backlog[p]
                      /\ seen[p] # "none"
  BY HeadType DEF TypeOK, OpWrites, OpReplyLost, Throws
<1>2. PICK w \in Workflow : w = o.key
  BY DEF Op
<1>3. \A v \in Workflow \ {w} : StatusOf(v)' = StatusOf(v)
  BY <1>1, <1>2, WritesLists DEF StatusOf
<1>4. /\ ambiguous' \in {ambiguous, ambiguous \cup {w}}
      /\ o.op # "requeue" => ambiguous' = ambiguous
  BY <1>1, <1>2 DEF OpWrites, OpReplyLost
<1>5. Range(LRem(active, w)) = Range(active) \ {w}
  BY LRemProperties DEF TypeOK
<1>6. kv[w] \in Value
  BY DEF TypeOK
<1>7. CASE o.op = "add"
  <2>1. kv[w] = "absent" /\ ~InActive(w)
    BY <1>1, <1>2, <1>7 DEF EntryInv, AddSeesAbsent, ListInv, AbsentUnlisted
  <2>2. AddWrites(w)
    BY <1>1, <1>2, <1>7 DEF Writes
  <2>3. kv'[w] = "json" /\ ~InActive(w)'
    BY <2>1, <2>2 DEF AddWrites, InActive, TypeOK
  <2>4. StatusOf(w) = "unknown" /\ StatusOf(w)' = "queued"
    BY <2>1, <2>3 DEF StatusOf
  <2> QED BY <1>3, <1>4, <1>7, <2>4, OneMoves
<1>8. kv[w] # "absent" \/ o.op = "add"
  BY <1>1, <1>2 DEF KeyInv, RequeueFindsKey
<1>9. w \in ambiguous \/ o.op = "add" \/ (kv[w] = "json" /\ InActive(w))
        \/ (kv[w] = "complete" /\ o.op = "complete")
  <2>1. o.op # "add" => 1 \in Pend(p, w)
    BY <1>1, <1>2 DEF Pend
  <2> QED BY <1>1, <2>1 DEF ExclusiveInv, Exclusive, HolderListed
<1>10. CASE o.op = "complete"
  <2>1. CompleteWrites(w)
    BY <1>1, <1>2, <1>10 DEF Writes
  <2>2. StatusOf(w)' = "complete"
    BY <2>1 DEF CompleteWrites, StatusOf, TypeOK
  <2>3. StatusOf(w) # "unknown"
    BY <1>6, <1>8, <1>10 DEF StatusOf, Value
  <2>4. w \in ambiguous \/ StatusOf(w) \in {"active", "complete"}
    BY <1>9, <1>10 DEF StatusOf
  <2> QED BY <1>3, <1>4, <1>10, <2>2, <2>3, <2>4, OneMoves
<1>11. CASE o.op = "requeue"
  <2>1. RequeueWrites(w, seen[p])
    BY <1>1, <1>2, <1>11 DEF Writes
  <2>2. kv'[w] = "json" \/ kv'[w] = kv[w]
    BY <2>1 DEF RequeueWrites, TypeOK
  <2>3. ~InActive(w)'
    BY <1>5, <2>1 DEF RequeueWrites, InActive
  <2>4. StatusOf(w) # "unknown"
    BY <1>6, <1>8, <1>11 DEF StatusOf, Value
  <2>5. StatusOf(w)' = "queued" \/ StatusOf(w)' = "complete"
    BY <1>6, <1>8, <1>11, <2>2, <2>3 DEF StatusOf, Value
  <2>6. CASE w \in ambiguous
    <3>1. ambiguous' = ambiguous
      BY <1>4, <2>6
    <3> QED BY <1>3, <2>4, <2>5, <2>6, <3>1, OneMoves
  <2>7. CASE w \notin ambiguous
    <3>1. StatusOf(w) = "active" /\ StatusOf(w)' = "queued"
      BY <1>9, <1>11, <2>2, <2>3, <2>7 DEF StatusOf
    <3> QED BY <1>3, <1>4, <3>1, OneMoves
  <2> QED BY <2>6, <2>7
<1> QED BY <1>7, <1>10, <1>11 DEF Op

\* BLMOVE makes a queued workflow active.
LEMMA TakeMoves ==
  ASSUME TypeOK, ListInv, EntryInv, NEW p \in Process, Take(p)
  PROVE  [Lifecycle!Next]_<<Statuses, ambiguous>>
<1>1. PICK w \in Workflow : w = LeftOf(queue) /\ Range(queue) = Range(PopLeft(queue)) \cup {w}
  BY PopLeftProperties DEF TypeOK, Take
<1>2. Range(PushRight(active, w)) = Range(active) \cup {w}
  BY PushRightProperties DEF TypeOK
<1>3. kv' = kv /\ active' = PushRight(active, w) /\ ambiguous' = ambiguous
  BY <1>1 DEF Take
<1>4. \A v \in Workflow \ {w} : StatusOf(v)' = StatusOf(v)
  BY <1>2, <1>3 DEF StatusOf, InActive
<1>5. InQueue(w) /\ ~InActive(w) /\ InActive(w)'
  BY <1>1, <1>2, <1>3 DEF InQueue, InActive, EntryInv, OneEntry
<1>6. kv[w] \in {"json", "complete"}
  BY <1>5 DEF ListInv, AbsentUnlisted, TypeOK, Value
<1>7. \/ StatusOf(w) = "queued" /\ StatusOf(w)' = "active"
      \/ StatusOf(w)' = StatusOf(w)
  BY <1>3, <1>5, <1>6 DEF StatusOf
<1> QED BY <1>3, <1>4, <1>7, OneMoves

\* The storage implements the life cycle it promises: each step of any process is
\* one move of one workflow, or leaves every status as it is.
THEOREM LifecycleImplemented == OneListener => (Spec => ImplementsLifecycle)
<1> SUFFICES ASSUME OneListener PROVE Spec => ImplementsLifecycle
  OBVIOUS
<1>1. Init => Lifecycle!Init
  <2> SUFFICES ASSUME Init PROVE Lifecycle!Init
    OBVIOUS
  <2>1. \A w \in Workflow : StatusOf(w) = "unknown"
    BY DEF Init, StatusOf
  <2> QED BY <2>1 DEF Init, Lifecycle!Init
<1>2. ASSUME TypeOK, ListInv, KeyInv, EntryInv, ExclusiveInv, [Next]_vars
      PROVE  [Lifecycle!Next]_<<Statuses, ambiguous>>
  <2>1. ASSUME UNCHANGED redis, UNCHANGED ambiguous
        PROVE  UNCHANGED <<Statuses, ambiguous>>
    BY <2>1 DEF redis, Statuses, StatusOf, InActive
  <2>2. ASSUME NEW p \in Process, OpWrites(p) \/ OpReplyLost(p)
        PROVE  [Lifecycle!Next]_<<Statuses, ambiguous>>
    BY <1>2, <2>2, WritesMove
  <2>3. ASSUME NEW p \in Process, Take(p)
        PROVE  [Lifecycle!Next]_<<Statuses, ambiguous>>
    BY <1>2, <2>3, TakeMoves
  <2>4. ASSUME NEW p \in Process,
               \/ Start(p) \/ HandleStorageStartupConfig(p) \/ Crash(p) \/ OpReads(p)
               \/ OpFails(p) \/ Poll(p) \/ TakeTimeout(p) \/ Spawn(p)
               \/ ReadFails(p)
        PROVE  UNCHANGED redis /\ UNCHANGED ambiguous
    BY <2>4, QuietSteps DEF Start, HandleStorageStartupConfig, Crash, OpReads, OpFails,
                            Poll, TakeTimeout, Spawn, ReadFails
  <2>5. ASSUME NEW p \in Process, NEW w \in Workflow,
               AddWorkflow(p, w) \/ Finish(p, w) \/ Requeue(p, w) \/ Drop(p, w)
        PROVE  UNCHANGED redis /\ UNCHANGED ambiguous
    BY <2>5, QuietSteps DEF AddWorkflow, Finish, Requeue, Drop
  <2>6. CASE UNCHANGED vars
    BY <2>1, <2>6 DEF vars, redis
  <2> QED BY <1>2, <2>1, <2>2, <2>3, <2>4, <2>5, <2>6 DEF Next
<1>3. TypeOK /\ ListInv /\ KeyInv /\ EntryInv /\ ExclusiveInv /\ [Next]_vars
        => [Lifecycle!Next]_<<[w \in Workflow |-> StatusOf(w)], ambiguous>>
  BY <1>2 DEF Statuses
<1> QED
  BY <1>1, <1>3, ExclusiveAlways, PTL DEF Spec, ImplementsLifecycle, Lifecycle!Spec
=============================================================================

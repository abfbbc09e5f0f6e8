----------------------------- MODULE StagingArea -----------------------------
(***************************************************************************)
(* The staging area, where plugins keep values between events              *)
(* (DefaultStagingAreaKeyLock of lib/relayer-engine/src/storage/storage.ts),*)
(* on Redis and on the in-memory store (inMemoryStore.ts).                 *)
(*                                                                         *)
(* Each event makes one call of withKey, whose function adds one to the    *)
(* counters under its keys, as the dummy plugin's consumeEvent does.       *)
(* Calls of one process and of several run concurrently: the listeners do  *)
(* not wait for consumeEvent.                                              *)
(***************************************************************************)
EXTENDS Integers, FiniteSets

CONSTANTS
  Call,     \* calls of withKey
  Key,      \* keys of one plugin
  StoreType \* the store types of the deployments: {"InMemory", "Redis"} or one of them

ASSUME StagingAssumption ==
  /\ IsFiniteSet(Call) /\ IsFiniteSet(Key)
  /\ StoreType \subseteq {"InMemory", "Redis"}

VARIABLES
  store, \* config.storeType
  kv,    \* the counter under each key, 0 when there is none
  lock,  \* InMemory.locks: the value remembered, or Unlocked
  pc,    \* per call: how far it is
  keys,  \* per call: its keys
  read,  \* per call: what GET returned, by key
  due,   \* per call: keys whose GET, and later whose SET, is still to come
  wrote  \* per call: keys it has SET

vars == <<store, kv, lock, pc, keys, read, due, wrote>>

InMemory == store = "InMemory"
Unlocked == -1
Loc == {"idle", "watched", "computing", "setting", "failing", "done", "rejected"}

StagingTypeOK ==
  /\ store \in StoreType
  /\ kv \in [Key -> 0..Cardinality(Call)]
  /\ lock \in [Key -> 0..Cardinality(Call) \cup {Unlocked}]
  /\ pc \in [Call -> Loc]
  /\ keys \in [Call -> SUBSET Key]
  /\ read \in [Call -> [Key -> 0..Cardinality(Call)]]
  /\ due \in [Call -> SUBSET Key]
  /\ wrote \in [Call -> SUBSET Key]
  /\ \A c \in Call : due[c] \cup wrote[c] \subseteq keys[c]
  /\ \A c \in Call : pc[c] = "done" => wrote[c] = keys[c]

Init ==
  /\ store \in StoreType
  /\ kv = [k \in Key |-> 0]
  /\ lock = [k \in Key |-> Unlocked]
  /\ pc = [c \in Call |-> "idle"]
  /\ keys = [c \in Call |-> {}]
  /\ read = [c \in Call |-> [k \in Key |-> 0]]
  /\ due = [c \in Call |-> {}]
  /\ wrote = [c \in Call |-> {}]

Go(c, to) == pc' = [pc EXCEPT ![c] = to]

\* SET of keys ks by call c.
Set(c, ks) ==
  /\ kv' = [k \in Key |-> IF k \in ks THEN read[c][k] + 1 ELSE kv[k]]
  /\ wrote' = [wrote EXCEPT ![c] = @ \cup ks]

-----------------------------------------------------------------------------
(* WATCH.  Redis remembers the keys, but see WritePipeline; the in-memory  *)
(* store locks them.                                                       *)

Lock(ks) == lock' = [k \in Key |-> IF k \in ks THEN kv[k] ELSE lock[k]]

\* Mutation of Watch: a key that is locked is locked again.
WatchAgain(c, ks) ==
  /\ pc[c] = "idle"
  /\ IF InMemory THEN Lock(ks) ELSE UNCHANGED lock
  /\ keys' = [keys EXCEPT ![c] = ks]
  /\ due' = [due EXCEPT ![c] = ks]
  /\ Go(c, "watched")
  /\ UNCHANGED <<store, kv, read, wrote>>

Watch(c, ks) ==
  /\ pc[c] = "idle"
  /\ \/ ~InMemory /\ UNCHANGED lock
     \/ InMemory /\ (\A k \in ks : lock[k] = Unlocked) /\ Lock(ks)
  /\ keys' = [keys EXCEPT ![c] = ks]
  /\ due' = [due EXCEPT ![c] = ks]
  /\ Go(c, "watched")
  /\ UNCHANGED <<store, kv, read, wrote>>

\* "Watching already watched key".  The keys before it in the list stay locked.
WatchThrows(c, ks) ==
  /\ pc[c] = "idle" /\ InMemory
  /\ \E k \in ks : lock[k] # Unlocked
  /\ \E before \in SUBSET {k \in ks : lock[k] = Unlocked} : Lock(before)
  /\ keys' = [keys EXCEPT ![c] = ks]
  /\ Go(c, "rejected")
  /\ UNCHANGED <<store, kv, read, due, wrote>>

-----------------------------------------------------------------------------
(* GET of the keys, and the plugin's function.                             *)

\* Each key has a GET of its own.  On Redis commands of others come in between; the
\* in-memory store answers them all in one turn of the event loop.
GetKeysInternal(c) ==
  /\ pc[c] = "watched"
  /\ \E ks \in IF InMemory THEN {due[c]} ELSE {{k} : k \in due[c]} :
       /\ read' = [read EXCEPT ![c] = [k \in Key |-> IF k \in ks THEN kv[k] ELSE @[k]]]
       /\ due' = [due EXCEPT ![c] = @ \ ks]
  /\ Go(c, IF due'[c] = {} THEN "computing" ELSE "watched")
  /\ UNCHANGED <<store, kv, lock, keys, wrote>>

\* The function rejects: nothing is written, and nothing unwatched.
Reject(c) ==
  /\ pc[c] = "computing"
  /\ Go(c, "rejected")
  /\ UNCHANGED <<store, kv, lock, keys, read, due, wrote>>

-----------------------------------------------------------------------------
(* multi().set()...exec(true).                                             *)

\* Redis: a pipeline without MULTI and EXEC, so WATCH is not looked at.
WritePipeline(c) ==
  /\ pc[c] = "computing" /\ ~InMemory
  /\ due' = [due EXCEPT ![c] = keys[c]]
  /\ Go(c, "setting")
  /\ UNCHANGED <<store, kv, lock, keys, read, wrote>>

\* The next SET of the pipeline.
SetPiped(c, k) ==
  /\ pc[c] = "setting" /\ ~InMemory /\ k \in due[c]
  /\ Set(c, {k})
  /\ due' = [due EXCEPT ![c] = @ \ {k}]
  /\ Go(c, IF due[c] = {k} THEN "done" ELSE "setting")
  /\ UNCHANGED <<store, lock, keys, read>>

\* InMemoryMulti.exec starts all operations: a key without lock is set at once,
\* one whose lock remembers its value a little later, any other throws.
Exec(c) ==
  /\ pc[c] = "computing" /\ InMemory
  /\ Set(c, {k \in keys[c] : lock[k] = Unlocked})
  /\ due' = [due EXCEPT ![c] = {k \in keys[c] : lock[k] = kv[k]}]
  /\ \/ (\A k \in keys[c] : lock[k] \in {Unlocked, kv[k]}) /\ Go(c, "setting")
     \/ (\E k \in keys[c] : lock[k] \notin {Unlocked, kv[k]}) /\ Go(c, "failing")
  /\ UNCHANGED <<store, lock, keys, read>>

SetLocked(c) ==
  /\ pc[c] \in {"setting", "failing"} /\ InMemory /\ due[c] # {}
  /\ Set(c, due[c])
  /\ due' = [due EXCEPT ![c] = {}]
  /\ UNCHANGED <<store, lock, pc, keys, read>>

\* Mutation of Unwatch: the operations are not awaited.
UnwatchEarly(c) ==
  /\ InMemory
  /\ \/ pc[c] = "setting" /\ Go(c, "done")
     \/ pc[c] = "failing" /\ Go(c, "rejected")
  /\ lock' = [k \in Key |-> Unlocked]
  /\ UNCHANGED <<store, kv, keys, read, due, wrote>>

\* unwatch() unlocks every key, whoever locked it.
Unwatch(c) ==
  /\ InMemory /\ due[c] = {}
  /\ \/ pc[c] = "setting" /\ Go(c, "done")
     \/ pc[c] = "failing" /\ Go(c, "rejected")
  /\ lock' = [k \in Key |-> Unlocked]
  /\ UNCHANGED <<store, kv, keys, read, due, wrote>>

-----------------------------------------------------------------------------
Next ==
  \E c \in Call :
    \/ \E ks \in (SUBSET Key) \ {{}} : Watch(c, ks) \/ WatchThrows(c, ks)
    \/ GetKeysInternal(c) \/ Reject(c)
    \/ WritePipeline(c) \/ \E k \in Key : SetPiped(c, k)
    \/ Exec(c) \/ SetLocked(c) \/ Unwatch(c)

Spec == Init /\ [][Next]_vars

-----------------------------------------------------------------------------
(* Properties.                                                             *)

\* "Reading and updating a key exclusively" (plugin.ts:89): no update is lost, so a
\* counter shows how many calls have set it.
CountsEverySet ==
  \A k \in Key : kv[k] = Cardinality({c \in Call : k \in wrote[c]})

\* In memory that is so while all calls name one and the same key: its lock then
\* keeps them apart (with several keys, one call's unwatch unlocks another's).
OneKeyCounts ==
  InMemory /\ Cardinality(UNION {keys[c] : c \in Call}) <= 1 => CountsEverySet
=============================================================================

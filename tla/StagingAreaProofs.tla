-------------------------- MODULE StagingAreaProofs --------------------------
(***************************************************************************)
(* For any number of calls and keys and both stores: a counter never shows *)
(* more than the calls that have set it (so it stays in its type), and in  *)
(* memory, while all calls name one key, exactly those.                    *)
(***************************************************************************)
EXTENDS StagingArea, FiniteSetTheorems, TLAPS

USE StagingAssumption

\* The calls that have set key k.
Setters(k) == {c \in Call : k \in wrote[c]}
Count(k) == Cardinality(Setters(k))

StagingTypes ==
  /\ store \in StoreType
  /\ kv \in [Key -> Nat]
  /\ lock \in [Key -> Nat \cup {Unlocked}]
  /\ pc \in [Call -> Loc]
  /\ keys \in [Call -> SUBSET Key]
  /\ read \in [Call -> [Key -> Nat]]
  /\ due \in [Call -> SUBSET Key]
  /\ wrote \in [Call -> SUBSET Key]

\* How far a call is says which of its keys it has set.
StageOf(c) ==
  /\ due[c] \cup wrote[c] \subseteq keys[c]
  /\ due[c] \cap wrote[c] = {}
  /\ pc[c] \in {"idle", "computing"} => due[c] = {}
  /\ pc[c] \in {"idle", "watched", "computing"} => wrote[c] = {}
  /\ pc[c] = "idle" => keys[c] = {}
  /\ pc[c] = "setting" => due[c] \cup wrote[c] = keys[c]
  /\ pc[c] = "done" => wrote[c] = keys[c] /\ due[c] = {}

\* Whatever is remembered of a counter was counted by calls that set it.
Bounded(k) ==
  /\ kv[k] <= Count(k)
  /\ lock[k] <= Count(k)
  /\ \A c \in Call : read[c][k] <= Count(k)

StagingInv ==
  /\ StagingTypes
  /\ \A c \in Call : StageOf(c)
  /\ \A k \in Key : Bounded(k)

-----------------------------------------------------------------------------
(* Counting.                                                               *)

\* A count is a number, of the calls at most.
LEMMA CountType ==
  ASSUME NEW k
  PROVE  IsFiniteSet(Setters(k)) /\ Count(k) \in 0..Cardinality(Call)
<1>1. Setters(k) \subseteq Call
  BY DEF Setters
<1>2. IsFiniteSet(Setters(k)) /\ Count(k) <= Cardinality(Call)
  BY <1>1, FS_Subset DEF Count
<1>3. Count(k) \in Nat /\ Cardinality(Call) \in Nat
  BY <1>2, FS_CardinalityType DEF Count
<1> QED BY <1>2, <1>3

\* SET by a call that has not set these keys before: their counts, and no others,
\* go up by one.
LEMMA SetCounts ==
  ASSUME StagingTypes, NEW c \in Call, NEW ks \in SUBSET Key, Set(c, ks),
         ks \cap wrote[c] = {}
  PROVE  \A k \in Key : Count(k)' = IF k \in ks THEN Count(k) + 1 ELSE Count(k)
<1> SUFFICES ASSUME NEW k \in Key
             PROVE  Count(k)' = IF k \in ks THEN Count(k) + 1 ELSE Count(k)
  OBVIOUS
<1>1. wrote' = [wrote EXCEPT ![c] = @ \cup ks]
  BY DEF Set
<1>2. CASE k \in ks
  <2>1. Setters(k)' = Setters(k) \cup {c}
    BY <1>1, <1>2 DEF Setters, StagingTypes
  <2>2. c \notin Setters(k)
    BY <1>2 DEF Setters
  <2> QED BY <1>2, <2>1, <2>2, CountType, FS_AddElement DEF Count
<1>3. CASE k \notin ks
  <2>1. Setters(k)' = Setters(k)
    BY <1>1, <1>3 DEF Setters, StagingTypes
  <2> QED BY <1>3, <2>1 DEF Count
<1> QED BY <1>2, <1>3

\* So SET keeps what is remembered within the counts.
LEMMA SetBounded ==
  ASSUME StagingInv, NEW c \in Call, NEW ks \in SUBSET Key, Set(c, ks),
         ks \cap wrote[c] = {}, UNCHANGED <<lock, read>>
  PROVE  \A k \in Key : Bounded(k)'
<1> SUFFICES ASSUME NEW k \in Key PROVE Bounded(k)'
  OBVIOUS
<1>1. Count(k)' = IF k \in ks THEN Count(k) + 1 ELSE Count(k)
  BY SetCounts DEF StagingInv
<1>2. Bounded(k) /\ Count(k) \in Nat
  BY CountType DEF StagingInv
<1>3. kv'[k] = IF k \in ks THEN read[c][k] + 1 ELSE kv[k]
  BY DEF Set
<1>4. read[c][k] \in Nat /\ kv[k] \in Nat /\ lock[k] \in Nat \cup {-1}
  BY DEF StagingInv, StagingTypes, Unlocked
<1>5. \A d \in Call : read[d][k] \in Nat
  BY DEF StagingInv, StagingTypes
<1>6. kv'[k] <= Count(k)'
  BY <1>1, <1>2, <1>3, <1>4 DEF Bounded
<1>7. lock'[k] <= Count(k)'
  BY <1>1, <1>2, <1>4 DEF Bounded
<1>8. \A d \in Call : read'[d][k] <= Count(k)'
  BY <1>1, <1>2, <1>5 DEF Bounded
<1> QED BY <1>6, <1>7, <1>8 DEF Bounded

-----------------------------------------------------------------------------
(* The invariant.                                                          *)

\* Nothing is counted, read or locked before the first call.
LEMMA StagingInvInit == Init => StagingInv
<1> SUFFICES ASSUME Init PROVE StagingInv
  OBVIOUS
<1>1. StagingTypes /\ \A c \in Call : StageOf(c)
  BY DEF Init, StagingTypes, StageOf, Loc, Unlocked
<1>2. ASSUME NEW k \in Key PROVE Bounded(k)
  <2>1. Count(k) \in Nat
    BY CountType
  <2> QED BY <2>1 DEF Init, Bounded, Unlocked
<1> QED BY <1>1, <1>2 DEF StagingInv

\* A step that sets nothing and remembers, if anything, what a counter shows.
LEMMA NothingSet ==
  ASSUME StagingInv, UNCHANGED <<kv, wrote>>,
         \A k \in Key : lock'[k] \in {lock[k], kv[k], Unlocked},
         \A c \in Call : \A k \in Key : read'[c][k] \in {read[c][k], kv[k]}
  PROVE  \A k \in Key : Bounded(k)'
<1> SUFFICES ASSUME NEW k \in Key PROVE Bounded(k)'
  OBVIOUS
<1>1. Count(k)' = Count(k) /\ Count(k) \in Nat
  <2>1. Setters(k)' = Setters(k)
    BY DEF Setters
  <2> QED BY <2>1, CountType DEF Count
<1>2. Bounded(k) /\ kv[k] \in Nat
  BY DEF StagingInv, StagingTypes
<1> QED BY <1>1, <1>2 DEF Bounded, Unlocked

\* No action of withKey lets a counter show more than its calls have set.
LEMMA StagingInvNext == StagingInv /\ [Next]_vars => StagingInv'
<1> SUFFICES ASSUME StagingInv, [Next]_vars PROVE StagingInv'
  OBVIOUS
<1> USE DEF StagingTypes
<1>1. ASSUME NEW c \in Call, NEW ks \in SUBSET Key, Watch(c, ks) PROVE StagingInv'
  <2>1. StagingTypes'
    BY <1>1 DEF StagingInv, Watch, Lock, Go, Loc, Unlocked
  <2>2. \A d \in Call : StageOf(d)'
    BY <1>1 DEF StagingInv, StageOf, Watch, Go
  <2>3. \A k \in Key : Bounded(k)'
    BY <1>1, NothingSet DEF StagingInv, Watch, Lock
  <2> QED BY <2>1, <2>2, <2>3 DEF StagingInv
<1>2. ASSUME NEW c \in Call, NEW ks \in SUBSET Key, WatchThrows(c, ks) PROVE StagingInv'
  <2>1. StagingTypes'
    BY <1>2 DEF StagingInv, WatchThrows, Lock, Go, Loc, Unlocked
  <2>2. \A d \in Call : StageOf(d)'
    BY <1>2 DEF StagingInv, StageOf, WatchThrows, Go
  <2>3. \A k \in Key : Bounded(k)'
    BY <1>2, NothingSet DEF StagingInv, WatchThrows, Lock
  <2> QED BY <2>1, <2>2, <2>3 DEF StagingInv
<1>3. ASSUME NEW c \in Call, GetKeysInternal(c) PROVE StagingInv'
  <2>1. PICK ks \in IF InMemory THEN {due[c]} ELSE {{k} : k \in due[c]} :
           /\ read' = [read EXCEPT ![c] = [k \in Key |-> IF k \in ks THEN kv[k] ELSE @[k]]]
           /\ due' = [due EXCEPT ![c] = @ \ ks]
    BY <1>3 DEF GetKeysInternal
  <2>2. /\ pc[c] = "watched" /\ pc' = [pc EXCEPT ![c] = IF due'[c] = {} THEN "computing" ELSE "watched"]
        /\ UNCHANGED <<store, kv, lock, keys, wrote>>
    BY <1>3 DEF GetKeysInternal, Go
  <2>3. StagingTypes'
    BY <2>1, <2>2 DEF StagingInv, Loc
  <2>4. \A d \in Call : StageOf(d)'
    BY <2>1, <2>2 DEF StagingInv, StageOf
  <2>5. \A d \in Call : \A k \in Key : read'[d][k] \in {read[d][k], kv[k]}
    BY <2>1 DEF StagingInv
  <2>6. \A k \in Key : Bounded(k)'
    BY <2>2, <2>5, NothingSet
  <2> QED BY <2>3, <2>4, <2>6 DEF StagingInv
<1>4. ASSUME NEW c \in Call, Reject(c) PROVE StagingInv'
  <2>1. StagingTypes'
    BY <1>4 DEF StagingInv, Reject, Go, Loc
  <2>2. \A d \in Call : StageOf(d)'
    BY <1>4 DEF StagingInv, StageOf, Reject, Go
  <2>3. \A k \in Key : Bounded(k)'
    BY <1>4, NothingSet DEF Reject
  <2> QED BY <2>1, <2>2, <2>3 DEF StagingInv
<1>5. ASSUME NEW c \in Call, WritePipeline(c) PROVE StagingInv'
  <2>1. StagingTypes'
    BY <1>5 DEF StagingInv, WritePipeline, Go, Loc
  <2>2. \A d \in Call : StageOf(d)'
    BY <1>5 DEF StagingInv, StageOf, WritePipeline, Go
  <2>3. \A k \in Key : Bounded(k)'
    BY <1>5, NothingSet DEF WritePipeline
  <2> QED BY <2>1, <2>2, <2>3 DEF StagingInv
<1>10. ASSUME NEW c \in Call, NEW k \in Key, SetPiped(c, k) PROVE StagingInv'
  <2>1. StagingTypes'
    BY <1>10 DEF StagingInv, SetPiped, Set, Go, Loc
  <2>2. \A d \in Call : StageOf(d)'
    BY <1>10 DEF StagingInv, StageOf, SetPiped, Set, Go
  <2>3. {k} \in SUBSET Key /\ {k} \cap wrote[c] = {}
    BY <1>10 DEF StagingInv, StageOf, SetPiped
  <2>4. \A l \in Key : Bounded(l)'
    BY <1>10, <2>3, SetBounded DEF SetPiped
  <2> QED BY <2>1, <2>2, <2>4 DEF StagingInv
<1>6. ASSUME NEW c \in Call, Exec(c) PROVE StagingInv'
  <2> DEFINE now == {k \in keys[c] : lock[k] = Unlocked}
             later == {k \in keys[c] : lock[k] = kv[k]}
  <2>1. now \cap later = {}
    BY DEF StagingInv, Unlocked
  <2>2. /\ now \in SUBSET Key /\ now \cap wrote[c] = {} /\ later \in SUBSET Key
        /\ wrote[c] = {} /\ due[c] = {}
    BY <1>6 DEF StagingInv, StageOf, Exec
  <2>3. /\ Set(c, now) /\ due' = [due EXCEPT ![c] = later]
        /\ \/ keys[c] = now \cup later /\ Go(c, "setting")
           \/ Go(c, "failing")
        /\ UNCHANGED <<store, lock, keys, read>>
    BY <1>6 DEF Exec
  <2> HIDE DEF now, later
  <2>4. StagingTypes'
    BY <2>2, <2>3 DEF StagingInv, Set, Go, Loc
  <2>5. wrote'[c] = now /\ due'[c] = later /\ keys' = keys
    BY <2>2, <2>3 DEF StagingInv, Set
  <2>6. now \cup later \subseteq keys[c]
    BY DEF now, later
  <2>7. StageOf(c)'
    BY <2>1, <2>3, <2>5, <2>6 DEF StagingInv, StageOf, Go
  <2>8. \A d \in Call \ {c} : StageOf(d)'
    BY <2>3 DEF StagingInv, StageOf, Set, Go
  <2>9. \A k \in Key : Bounded(k)'
    BY <2>2, <2>3, SetBounded
  <2> QED BY <2>4, <2>7, <2>8, <2>9 DEF StagingInv
<1>7. ASSUME NEW c \in Call, SetLocked(c) PROVE StagingInv'
  <2>1. StagingTypes'
    BY <1>7 DEF StagingInv, SetLocked, Set
  <2>2. \A d \in Call : StageOf(d)'
    BY <1>7 DEF StagingInv, StageOf, SetLocked, Set
  <2>3. due[c] \in SUBSET Key /\ due[c] \cap wrote[c] = {}
    BY DEF StagingInv, StageOf
  <2>4. \A k \in Key : Bounded(k)'
    BY <1>7, <2>3, SetBounded DEF SetLocked
  <2> QED BY <2>1, <2>2, <2>4 DEF StagingInv
<1>8. ASSUME NEW c \in Call, Unwatch(c) PROVE StagingInv'
  <2>1. StagingTypes'
    BY <1>8 DEF StagingInv, Unwatch, Go, Loc, Unlocked
  <2>2. \A d \in Call : StageOf(d)'
    BY <1>8 DEF StagingInv, StageOf, Unwatch, Go
  <2>3. \A k \in Key : Bounded(k)'
    BY <1>8, NothingSet DEF Unwatch
  <2> QED BY <2>1, <2>2, <2>3 DEF StagingInv
<1>9. ASSUME UNCHANGED vars PROVE StagingInv'
  <2>1. StagingTypes' /\ \A d \in Call : StageOf(d)'
    BY <1>9 DEF StagingInv, StageOf, vars
  <2>2. \A k \in Key : Bounded(k)'
    BY <1>9, NothingSet DEF vars
  <2> QED BY <2>1, <2>2 DEF StagingInv
<1> QED BY <1>1, <1>2, <1>3, <1>4, <1>5, <1>6, <1>7, <1>8, <1>9, <1>10 DEF Next

\* The counters, and what calls and locks remember of them, stay within the number
\* of calls, and a call that is done has set all its keys.
THEOREM CountersTyped == Spec => []StagingTypeOK
<1>1. StagingInv => StagingTypeOK
  <2> SUFFICES ASSUME StagingInv PROVE StagingTypeOK
    OBVIOUS
  <2>1. \A k \in Key : Bounded(k) /\ Count(k) \in 0..Cardinality(Call)
    BY CountType DEF StagingInv
  <2>2. Cardinality(Call) \in Nat
    BY FS_CardinalityType
  <2>3. kv \in [Key -> 0..Cardinality(Call)]
    BY <2>1, <2>2 DEF StagingInv, StagingTypes, Bounded
  <2>4. lock \in [Key -> 0..Cardinality(Call) \cup {Unlocked}]
    BY <2>1, <2>2 DEF StagingInv, StagingTypes, Bounded
  <2>5. read \in [Call -> [Key -> 0..Cardinality(Call)]]
    BY <2>1, <2>2 DEF StagingInv, StagingTypes, Bounded
  <2> QED BY <2>3, <2>4, <2>5 DEF StagingInv, StagingTypes, StageOf, StagingTypeOK
<1> QED BY <1>1, StagingInvInit, StagingInvNext, PTL DEF Spec

-----------------------------------------------------------------------------
(* One key, in memory.                                                     *)

\* All calls so far name the same key.
SameKey == \A c, d \in Call : \A k \in keys[c], l \in keys[d] : k = l

\* c has locked its key.
Holds(c) == pc[c] \in {"watched", "computing", "setting"}

\* The key's lock remembers the counter until c sets it.
HolderOf(c) ==
  Holds(c) =>
    /\ keys[c] # {}
    /\ pc[c] = "watched" => due[c] = keys[c]
    /\ \A k \in keys[c] :
         /\ lock[k] # Unlocked
         /\ pc[c] # "setting" \/ k \in due[c] => lock[k] = kv[k]
         /\ pc[c] = "computing" \/ (pc[c] = "setting" /\ k \in due[c]) => read[c][k] = kv[k]

OneLock ==
  /\ \A c \in Call : pc[c] # "failing" /\ HolderOf(c)
  /\ \A c, d \in Call : Holds(c) /\ Holds(d) => c = d
  /\ \A k \in Key : kv[k] = Count(k)

LoneInv == InMemory /\ SameKey => OneLock

\* Nobody has locked anything before the first call.
LEMMA LoneInvInit == Init => LoneInv
<1> SUFFICES ASSUME Init PROVE OneLock
  BY DEF LoneInv
<1>1. \A c \in Call : pc[c] = "idle"
  BY DEF Init
<1>2. ASSUME NEW k \in Key PROVE kv[k] = Count(k)
  <2>1. Setters(k) = {}
    BY DEF Init, Setters
  <2> QED BY <2>1, FS_EmptySet DEF Count, Init
<1> QED BY <1>1, <1>2 DEF OneLock, Holds, HolderOf

\* A step that sets nothing leaves the counts.
LEMMA CountsStay ==
  ASSUME \A k \in Key : kv[k] = Count(k), UNCHANGED <<kv, wrote>>
  PROVE  \A k \in Key : kv'[k] = Count(k)'
<1>1. \A k \in Key : Setters(k)' = Setters(k)
  BY DEF Setters
<1> QED BY <1>1 DEF Count

\* SET of the key c has locked: what c read is still what the counter shows.
LEMMA CountsSet ==
  ASSUME StagingInv, \A k \in Key : kv[k] = Count(k),
         NEW c \in Call, NEW ks \in SUBSET Key, Set(c, ks), ks \cap wrote[c] = {},
         \A k \in ks : read[c][k] = kv[k]
  PROVE  \A k \in Key : kv'[k] = Count(k)'
<1> SUFFICES ASSUME NEW k \in Key PROVE kv'[k] = Count(k)'
  OBVIOUS
<1>1. Count(k)' = IF k \in ks THEN Count(k) + 1 ELSE Count(k)
  BY SetCounts DEF StagingInv
<1>2. kv'[k] = IF k \in ks THEN read[c][k] + 1 ELSE kv[k]
  BY DEF Set
<1> QED BY <1>1, <1>2

\* Calls never forget their keys, so if they name one key after a step they did before.
LEMMA SameKeyBefore == StagingInv /\ [Next]_vars /\ SameKey' => SameKey
<1> SUFFICES ASSUME StagingInv, [Next]_vars PROVE \A c \in Call : keys[c] \subseteq keys'[c]
  BY DEF SameKey
<1>1. ASSUME NEW c \in Call, NEW ks \in SUBSET Key, Watch(c, ks) \/ WatchThrows(c, ks)
      PROVE  \A d \in Call : keys[d] \subseteq keys'[d]
  <2>1. keys[c] = {} /\ keys' = [keys EXCEPT ![c] = ks]
    BY <1>1 DEF StagingInv, StageOf, Watch, WatchThrows
  <2> QED BY <2>1 DEF StagingInv, StagingTypes
<1>2. CASE UNCHANGED keys
  BY <1>2
<1> QED BY <1>1, <1>2 DEF Next, vars, GetKeysInternal, Reject, WritePipeline, SetPiped, Exec, SetLocked, Unwatch

\* While all calls name one key, whoever has locked it is alone: no other call
\* watches it, and no other's unwatch unlocks it.
LEMMA LoneInvNext == StagingInv /\ LoneInv /\ [Next]_vars => LoneInv'
<1> SUFFICES ASSUME StagingInv, LoneInv, [Next]_vars, InMemory', SameKey'
             PROVE  OneLock'
  BY DEF LoneInv
<1>1. SameKey
  BY SameKeyBefore
<1>2. store' = store
  BY DEF Next, vars, Watch, WatchThrows, GetKeysInternal, Reject, WritePipeline, SetPiped, Exec, SetLocked, Unwatch
<1>3. InMemory /\ OneLock
  BY <1>1, <1>2 DEF LoneInv, InMemory
<1>4. StagingTypes /\ \A c \in Call : StageOf(c)
  BY DEF StagingInv
<1> USE DEF StagingTypes
<1>5. ASSUME NEW c \in Call, NEW ks \in (SUBSET Key) \ {{}}, Watch(c, ks) PROVE OneLock'
  <2>1. /\ pc[c] = "idle" /\ pc' = [pc EXCEPT ![c] = "watched"]
        /\ keys' = [keys EXCEPT ![c] = ks]
        /\ \A k \in ks : lock[k] = Unlocked
        /\ \A k \in Key : lock'[k] = IF k \in ks THEN kv[k] ELSE lock[k]
        /\ due' = [due EXCEPT ![c] = ks]
        /\ UNCHANGED <<kv, read, wrote>>
    BY <1>3, <1>5 DEF Watch, Lock, Go
  <2>2. ASSUME NEW d \in Call, Holds(d) PROVE FALSE
    <3>1. keys[d] # {} /\ d # c
      BY <1>3, <2>1, <2>2 DEF OneLock, HolderOf, Holds
    <3>2. PICK k \in keys[d], l \in ks : TRUE
      BY <3>1
    <3>3. k \in keys'[d] /\ l \in keys'[c]
      BY <1>4, <2>1, <3>1, <3>2
    <3>4. k = l
      BY <3>3 DEF SameKey
    <3>5. lock[k] # Unlocked
      BY <1>3, <2>2, <3>2 DEF OneLock, HolderOf
    <3> QED BY <2>1, <3>2, <3>4, <3>5
  <2>3. \A d \in Call : Holds(d)' => d = c
    BY <1>4, <2>1, <2>2 DEF Holds
  <2>4. pc'[c] = "watched" /\ keys'[c] = ks /\ due'[c] = ks /\ ks \subseteq Key /\ ks # {}
    BY <1>4, <2>1 DEF StageOf
  <2>5. \A k \in ks : lock'[k] = kv'[k] /\ kv[k] # Unlocked
    BY <1>4, <2>1, <2>4 DEF Unlocked
  <2>6. HolderOf(c)'
    BY <2>1, <2>4, <2>5 DEF HolderOf
  <2>7. \A d \in Call : pc'[d] # "failing" /\ HolderOf(d)'
    BY <1>3, <1>4, <2>1, <2>3, <2>6 DEF OneLock, HolderOf
  <2>8. \A k \in Key : kv'[k] = Count(k)'
    BY <1>3, <2>1, CountsStay DEF OneLock
  <2> QED BY <2>3, <2>7, <2>8 DEF OneLock
<1>6. ASSUME NEW c \in Call, NEW ks \in (SUBSET Key) \ {{}}, WatchThrows(c, ks) PROVE OneLock'
  <2>1. /\ pc[c] = "idle" /\ pc' = [pc EXCEPT ![c] = "rejected"]
        /\ keys' = [keys EXCEPT ![c] = ks]
        /\ UNCHANGED <<kv, read, due, wrote>>
    BY <1>6 DEF WatchThrows, Go
  <2>2. PICK before \in SUBSET {k \in ks : lock[k] = Unlocked} : Lock(before)
    BY <1>6 DEF WatchThrows
  <2>3. \A k \in Key : lock'[k] = IF k \in before THEN kv[k] ELSE lock[k]
    BY <2>2 DEF Lock
  <2>4. \A d \in Call : Holds(d)' => Holds(d) /\ d # c /\ pc'[d] = pc[d] /\ keys'[d] = keys[d]
    BY <1>4, <2>1 DEF Holds
  <2>5. ASSUME NEW d \in Call, Holds(d)' PROVE HolderOf(d)'
    <3>1. HolderOf(d) /\ Holds(d)
      BY <1>3, <2>4, <2>5 DEF OneLock
    <3>2. \A k \in keys[d] : k \in Key /\ k \notin before /\ lock'[k] = lock[k]
      BY <1>4, <2>2, <2>3, <3>1 DEF HolderOf
    <3> QED BY <2>1, <2>4, <2>5, <3>1, <3>2 DEF HolderOf
  <2>6. \A d \in Call : pc'[d] # "failing" /\ HolderOf(d)'
    BY <1>3, <1>4, <2>1, <2>5 DEF OneLock, HolderOf
  <2>7. \A k \in Key : kv'[k] = Count(k)'
    BY <1>3, <2>1, CountsStay DEF OneLock
  <2> QED BY <1>3, <2>4, <2>6, <2>7 DEF OneLock
<1>7. ASSUME NEW c \in Call, GetKeysInternal(c) PROVE OneLock'
  <2>1. /\ pc[c] = "watched" /\ pc' = [pc EXCEPT ![c] = "computing"]
        /\ \A k \in keys[c] : read'[c][k] = kv[k]
        /\ \A d \in Call \ {c} : read'[d] = read[d] /\ due'[d] = due[d]
        /\ UNCHANGED <<kv, lock, keys, wrote>>
    <3>1. pc[c] = "watched" /\ due[c] = keys[c]
      BY <1>3, <1>7 DEF GetKeysInternal, OneLock, HolderOf, Holds
    <3>2. /\ read' = [read EXCEPT ![c] = [k \in Key |-> IF k \in due[c] THEN kv[k] ELSE @[k]]]
          /\ due' = [due EXCEPT ![c] = {}]
      BY <1>3, <1>7 DEF GetKeysInternal
    <3> QED BY <1>4, <1>7, <3>1, <3>2 DEF GetKeysInternal, Go
  <2>2. \A d \in Call : Holds(d)' => Holds(d)
    BY <1>4, <2>1 DEF Holds
  <2>3. \A d \in Call \ {c} : HolderOf(d)' /\ pc'[d] # "failing"
    BY <1>3, <1>4, <2>1 DEF OneLock, HolderOf, Holds
  <2>4. HolderOf(c)' /\ pc'[c] # "failing"
    BY <1>3, <1>4, <2>1 DEF OneLock, HolderOf, Holds
  <2>5. \A k \in Key : kv'[k] = Count(k)'
    BY <1>3, <2>1, CountsStay DEF OneLock
  <2> QED BY <1>3, <2>2, <2>3, <2>4, <2>5 DEF OneLock
<1>8. ASSUME NEW c \in Call, Reject(c) PROVE OneLock'
  <2>1. /\ pc[c] = "computing" /\ pc' = [pc EXCEPT ![c] = "rejected"]
        /\ UNCHANGED <<kv, lock, keys, read, due, wrote>>
    BY <1>8 DEF Reject, Go
  <2>2. \A d \in Call : (Holds(d)' => Holds(d)) /\ HolderOf(d)' /\ pc'[d] # "failing"
    BY <1>3, <1>4, <2>1 DEF OneLock, HolderOf, Holds
  <2>3. \A k \in Key : kv'[k] = Count(k)'
    BY <1>3, <2>1, CountsStay DEF OneLock
  <2> QED BY <1>3, <2>2, <2>3 DEF OneLock
<1>9. ASSUME NEW c \in Call, Exec(c) PROVE OneLock'
  <2>1. /\ HolderOf(c) /\ pc[c] = "computing" /\ due[c] = {} /\ wrote[c] = {}
        /\ keys[c] \subseteq Key
    BY <1>3, <1>4, <1>9 DEF OneLock, StageOf, Exec
  <2>2. \A k \in keys[c] : lock[k] # Unlocked /\ lock[k] = kv[k] /\ read[c][k] = kv[k]
    BY <2>1 DEF HolderOf, Holds
  <2>3. {k \in keys[c] : lock[k] = Unlocked} = {} /\ {k \in keys[c] : lock[k] = kv[k]} = keys[c]
    BY <2>2
  <2>4. /\ Set(c, {}) /\ due' = [due EXCEPT ![c] = keys[c]]
        /\ pc' = [pc EXCEPT ![c] = "setting"]
        /\ UNCHANGED <<store, lock, keys, read>>
    BY <1>9, <2>2, <2>3 DEF Exec, Go
  <2>5. UNCHANGED <<kv, wrote>>
    BY <1>4, <2>4 DEF Set
  <2>6. \A d \in Call : Holds(d)' => Holds(d)
    BY <1>4, <2>1, <2>4 DEF Holds
  <2>7. \A d \in Call \ {c} : HolderOf(d)' /\ pc'[d] # "failing"
    BY <1>3, <1>4, <2>4, <2>5 DEF OneLock, HolderOf, Holds
  <2>8. HolderOf(c)' /\ pc'[c] # "failing"
    BY <1>4, <2>1, <2>2, <2>4, <2>5 DEF HolderOf, Holds
  <2>9. \A k \in Key : kv'[k] = Count(k)'
    BY <1>3, <2>5, CountsStay DEF OneLock
  <2> QED BY <1>3, <2>6, <2>7, <2>8, <2>9 DEF OneLock
<1>10. ASSUME NEW c \in Call, SetLocked(c) PROVE OneLock'
  <2>1. /\ Holds(c) /\ HolderOf(c) /\ due[c] \subseteq keys[c] /\ due[c] \in SUBSET Key
        /\ due[c] \cap wrote[c] = {}
    BY <1>3, <1>4, <1>10 DEF OneLock, StageOf, SetLocked, Holds
  <2>2. /\ Set(c, due[c]) /\ due' = [due EXCEPT ![c] = {}] /\ pc[c] = "setting"
        /\ UNCHANGED <<lock, pc, keys, read>>
    BY <1>3, <1>10 DEF SetLocked, OneLock
  <2>3. \A k \in due[c] : read[c][k] = kv[k]
    BY <2>1, <2>2 DEF HolderOf
  <2>4. \A k \in Key : kv'[k] = Count(k)'
    BY <1>3, <2>1, <2>2, <2>3, CountsSet DEF OneLock
  <2>5. \A d \in Call \ {c} : ~Holds(d) /\ ~Holds(d)'
    BY <1>3, <2>1, <2>2 DEF OneLock, Holds
  <2>6. HolderOf(c)'
    BY <1>4, <2>1, <2>2 DEF HolderOf
  <2>7. \A d \in Call : HolderOf(d)' /\ pc'[d] # "failing"
    BY <1>3, <2>2, <2>5, <2>6 DEF OneLock, HolderOf
  <2> QED BY <2>4, <2>5, <2>7 DEF OneLock
<1>11. ASSUME NEW c \in Call, Unwatch(c) PROVE OneLock'
  <2>1. /\ pc[c] = "setting" /\ pc' = [pc EXCEPT ![c] = "done"]
        /\ UNCHANGED <<kv, keys, read, due, wrote>>
    BY <1>3, <1>11 DEF Unwatch, Go, OneLock
  <2>2. Holds(c)
    BY <2>1 DEF Holds
  <2>3. \A d \in Call : ~Holds(d)' /\ pc'[d] # "failing"
    BY <1>3, <1>4, <2>1, <2>2 DEF OneLock, Holds
  <2>4. \A k \in Key : kv'[k] = Count(k)'
    BY <1>3, <2>1, CountsStay DEF OneLock
  <2> QED BY <2>3, <2>4 DEF OneLock, HolderOf
<1>12. ASSUME UNCHANGED vars PROVE OneLock'
  <2>1. \A k \in Key : kv'[k] = Count(k)'
    BY <1>3, <1>12, CountsStay DEF OneLock, vars
  <2>2. \A d \in Call : HolderOf(d)' /\ pc'[d] # "failing" /\ (Holds(d)' => Holds(d))
    BY <1>3, <1>12 DEF OneLock, HolderOf, Holds, vars
  <2> QED BY <1>3, <2>1, <2>2 DEF OneLock
<1>13. \A c \in Call : ~WritePipeline(c) /\ \A k \in Key : ~SetPiped(c, k)
  BY <1>3 DEF WritePipeline, SetPiped
<1> QED BY <1>5, <1>6, <1>7, <1>8, <1>9, <1>10, <1>11, <1>12, <1>13 DEF Next

\* In memory a counter under the one key that all calls name shows how many have
\* set it: withKey reads and updates it exclusively.
THEOREM OneKeyExclusive == Spec => []OneKeyCounts
<1>1. StagingInv /\ LoneInv => OneKeyCounts
  <2> SUFFICES ASSUME StagingInv, LoneInv, InMemory, Cardinality(UNION {keys[c] : c \in Call}) <= 1
               PROVE  CountsEverySet
    BY DEF OneKeyCounts
  <2> DEFINE named == UNION {keys[c] : c \in Call}
  <2>1. named \subseteq Key
    BY DEF StagingInv, StagingTypes
  <2>2. IsFiniteSet(named) /\ Cardinality(named) <= 1
    BY <2>1, FS_Subset
  <2> HIDE DEF named
  <2>3. \A k, l \in named : k = l
    <3> SUFFICES ASSUME NEW k \in named, NEW l \in named, k # l PROVE FALSE
      OBVIOUS
    <3>1. IsFiniteSet({l}) /\ Cardinality({l}) = 1
      BY FS_Singleton
    <3>2. IsFiniteSet({l} \cup {k}) /\ Cardinality({l} \cup {k}) = 2
      BY <3>1, FS_AddElement
    <3>3. {l} \cup {k} \subseteq named
      OBVIOUS
    <3>4. Cardinality({l} \cup {k}) <= Cardinality(named)
      BY <2>2, <3>3, FS_Subset
    <3>5. Cardinality(named) \in Nat
      BY <2>2, FS_CardinalityType
    <3> QED BY <2>2, <3>2, <3>4, <3>5
  <2>4. SameKey
    BY <2>3 DEF SameKey, named
  <2>5. \A k \in Key : kv[k] = Count(k)
    BY <2>4 DEF LoneInv, OneLock
  <2> QED BY <2>5 DEF CountsEverySet, Count, Setters
<1> QED BY <1>1, StagingInvInit, StagingInvNext, LoneInvInit, LoneInvNext, PTL DEF Spec
=============================================================================

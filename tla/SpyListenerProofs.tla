--------------------------- MODULE SpyListenerProofs ---------------------------
(***************************************************************************)
(* The steps of SpyListener preserve its two safety properties, for any  *)
(* plugins, VAAs, numbers of guardians and sizes of the cache.             *)
(* EngineProcessProofs puts them together.                                 *)
(***************************************************************************)
EXTENDS SpyListener, TLAPS

\* x is in the list.
Holds(list, x) == \E i \in DOMAIN list : list[i] = x

\* What the steps of the cache need, besides the properties: whatever it has is being
\* consumed or was, and it keeps what was consumed without a workflow until it
\* drops it.
CachedIsConsumed ==
  \A pl \in Plugin, e \in Event :
    Cached(pl, e) => consuming[pl][e] > 0 \/ <<pl, e>> \in known \cup unwritten \cup settled

SettledIsCached ==
  \A pl \in Plugin, e \in Event :
    <<pl, e>> \in settled => Cached(pl, e) \/ <<pl, e>> \in evicted \cup injected

SpyInv ==
  /\ cache \in [Plugin -> Seq(Event)]
  /\ consuming \in [Plugin -> [Event -> Nat]]
  /\ QuorumIsConsumed
  /\ ConsumedOnce
  /\ CachedIsConsumed
  /\ SettledIsCached

-----------------------------------------------------------------------------
(* The cache as a list.                                                    *)

\* get() of a hash only reorders the cache (vaaHashCache of runPluginSpyListener).
LEMMA UsedHolds ==
  ASSUME NEW S, NEW list \in Seq(S), NEW e \in S, Holds(list, e)
  PROVE  /\ Used(list, e) \in Seq(S)
         /\ \A x : Holds(Used(list, e), x) <=> Holds(list, x)
<1> DEFINE place == CHOOSE i \in DOMAIN list : list[i] = e
           after == [i \in DOMAIN list |->
                       IF i = Len(list) THEN e ELSE list[IF i < place THEN i ELSE i + 1]]
<1>1. place \in DOMAIN list /\ list[place] = e
  BY DEF Holds
<1>2. Len(list) \in Nat /\ DOMAIN list = 1..Len(list) /\ \A i \in DOMAIN list : list[i] \in S
  OBVIOUS
<1>3. Used(list, e) = after
  BY DEF Used
<1> HIDE DEF place
<1>4. after \in [1..Len(list) -> S]
  BY <1>1, <1>2
<1>5. after \in Seq(S)
  BY <1>2, <1>4
<1>6. ASSUME NEW x, Holds(list, x)
      PROVE  Holds(after, x)
  <2>1. PICK i \in DOMAIN list : list[i] = x
    BY <1>6 DEF Holds
  <2>2. CASE i < place
    <3>1. i \in DOMAIN after /\ after[i] = list[i]
      BY <1>1, <1>2, <2>2
    <3> QED BY <2>1, <3>1 DEF Holds
  <2>3. CASE i = place
    <3>1. Len(list) \in DOMAIN after /\ after[Len(list)] = e
      BY <1>1, <1>2
    <3> QED BY <1>1, <2>1, <2>3, <3>1 DEF Holds
  <2>4. CASE i > place
    <3>1. i - 1 \in DOMAIN after /\ after[i - 1] = list[i]
      BY <1>1, <1>2, <2>4
    <3> QED BY <2>1, <3>1 DEF Holds
  <2> QED BY <1>1, <1>2, <2>2, <2>3, <2>4
<1>7. ASSUME NEW x, Holds(after, x)
      PROVE  Holds(list, x)
  <2>1. PICK i \in DOMAIN after : after[i] = x
    BY <1>7 DEF Holds
  <2>2. \E j \in DOMAIN list : after[i] = list[j]
    BY <1>1, <1>2, <2>1
  <2> QED BY <2>1, <2>2 DEF Holds
<1> QED BY <1>3, <1>5, <1>6, <1>7

\* set() of a new hash adds it, and drops the one used longest ago from a full cache.
LEMMA InsertedHolds ==
  ASSUME NEW S, NEW list \in Seq(S), NEW e \in S
  PROVE  /\ Inserted(list, e) \in Seq(S)
         /\ Holds(Inserted(list, e), e)
         /\ \A x : Holds(Inserted(list, e), x) => x = e \/ Holds(list, x)
         /\ \A x : Holds(list, x) =>
              Holds(Inserted(list, e), x) \/ (Len(list) = CacheSize /\ x = Head(list))
<1> USE SpyAssumption
<1>1. CASE Len(list) # CacheSize
  <2>1. Inserted(list, e) = Append(list, e)
    BY <1>1 DEF Inserted
  <2>2. /\ Append(list, e) \in Seq(S) /\ Len(list) \in Nat
        /\ DOMAIN Append(list, e) = 1..(Len(list) + 1) /\ DOMAIN list = 1..Len(list)
        /\ Append(list, e)[Len(list) + 1] = e
        /\ \A i \in 1..Len(list) : Append(list, e)[i] = list[i]
    OBVIOUS
  <2> HIDE DEF Inserted
  <2>3. Holds(Append(list, e), e)
    BY <2>2 DEF Holds
  <2>4. ASSUME NEW x, Holds(Append(list, e), x) PROVE x = e \/ Holds(list, x)
    BY <2>2, <2>4 DEF Holds
  <2>5. ASSUME NEW x, Holds(list, x) PROVE Holds(Append(list, e), x)
    BY <2>2, <2>5 DEF Holds
  <2> QED BY <2>1, <2>2, <2>3, <2>4, <2>5
<1>2. CASE Len(list) = CacheSize
  <2> DEFINE rest == Tail(list)
  <2>1. Inserted(list, e) = Append(rest, e)
    BY <1>2 DEF Inserted
  <2>2. list # <<>> /\ Len(list) \in Nat /\ Len(list) > 0 /\ DOMAIN list = 1..Len(list)
    BY <1>2
  <2>3. /\ rest \in Seq(S) /\ Len(rest) = Len(list) - 1 /\ Len(rest) \in Nat
        /\ DOMAIN rest = 1..(Len(list) - 1)
        /\ \A i \in 1..(Len(list) - 1) : rest[i] = list[i + 1]
    BY <2>2
  <2>4. Head(list) = list[1]
    BY <2>2
  <2> HIDE DEF rest
  <2> DEFINE more == Append(rest, e)
  <2>5. /\ more \in Seq(S)
        /\ DOMAIN more = 1..Len(list)
        /\ more[Len(list)] = e
        /\ \A i \in 1..(Len(list) - 1) : more[i] = list[i + 1]
    <3>1. /\ more \in Seq(S)
          /\ DOMAIN more = 1..(Len(rest) + 1)
          /\ more[Len(rest) + 1] = e
          /\ \A i \in 1..Len(rest) : more[i] = rest[i]
      BY <2>3
    <3>2. Len(rest) + 1 = Len(list)
      BY <2>2, <2>3
    <3> HIDE DEF more
    <3> QED BY <2>3, <3>1, <3>2
  <2> HIDE DEF more
  <2>6. Holds(more, e)
    <3>1. Len(list) \in DOMAIN more
      BY <2>2, <2>5
    <3> QED BY <2>5, <3>1 DEF Holds
  <2>7. ASSUME NEW x, Holds(more, x) PROVE x = e \/ Holds(list, x)
    <3>1. PICK i \in 1..Len(list) : more[i] = x
      BY <2>5, <2>7 DEF Holds
    <3>2. CASE i = Len(list)
      BY <2>5, <3>1, <3>2
    <3>3. CASE i # Len(list)
      <4>1. i \in 1..(Len(list) - 1) /\ i + 1 \in DOMAIN list
        <5> DEFINE n == Len(list)
        <5>1. n \in Nat /\ i \in 1..n /\ i # n
          BY <2>2, <3>1, <3>3
        <5> HIDE DEF n
        <5>2. i \in 1..(n - 1) /\ i + 1 \in 1..n
          BY <5>1
        <5> QED BY <2>2, <5>2 DEF n
      <4>2. x = list[i + 1]
        BY <2>5, <3>1, <4>1
      <4> QED BY <4>1, <4>2 DEF Holds
    <3> QED BY <3>2, <3>3
  <2>8. ASSUME NEW x, Holds(list, x) PROVE Holds(more, x) \/ x = Head(list)
    <3>1. PICK i \in 1..Len(list) : list[i] = x
      BY <2>2, <2>8 DEF Holds
    <3>2. CASE i = 1
      BY <2>4, <3>1, <3>2
    <3>3. CASE i # 1
      <4>1. i - 1 \in 1..(Len(list) - 1) /\ i - 1 \in DOMAIN more /\ (i - 1) + 1 = i
        BY <2>2, <2>5, <3>1, <3>3
      <4>2. more[i - 1] = x
        BY <2>5, <3>1, <4>1
      <4> QED BY <4>1, <4>2 DEF Holds
    <3> QED BY <3>2, <3>3
  <2> QED BY <1>2, <2>1, <2>5, <2>6, <2>7, <2>8 DEF more
<1> QED BY <1>1, <1>2

-----------------------------------------------------------------------------
(* The steps.                                                              *)

\* Connecting, losing the connection and connecting again lose nothing: the cache
\* belongs to the loop (runPluginSpyListener), not to its connection.
LEMMA ConnectionPreserves ==
  ASSUME SpyInv,
         UNCHANGED <<cache, consuming, known, unwritten, passed, settled, evicted, injected>>
  PROVE  SpyInv'
BY DEF SpyInv, QuorumIsConsumed, ConsumedOnce, CachedIsConsumed,
       SettledIsCached, Cached

\* A process that begins has nothing to keep, whatever workflows there are.
LEMMA EmptyListeners ==
  ASSUME cache = [q \in Plugin |-> <<>>], consuming = [q \in Plugin |-> NoCalls],
         passed = {}, settled = {}
  PROVE  SpyInv
<1>1. \A q \in Plugin, x \in Event : ~Cached(q, x) /\ consuming[q][x] = 0
  BY DEF Cached, NoCalls
<1>2. cache \in [Plugin -> Seq(Event)] /\ consuming \in [Plugin -> [Event -> Nat]]
  BY DEF NoCalls
<1> QED
  BY <1>1, <1>2 DEF SpyInv, QuorumIsConsumed, ConsumedOnce,
                    CachedIsConsumed, SettledIsCached

\* A copy with too few signatures, or whose hash the cache has, changes nothing that
\* matters: what it lets pass was consumed before.
LEMMA IgnoredPreserves ==
  ASSUME SpyInv, NEW pl \in Plugin, NEW e \in Event, NEW signatures \in Nat,
         Counted(pl, e, signatures),
         TooFewSignatures(pl, e, signatures) \/ Duplicate(pl, e, signatures),
         UNCHANGED <<known, unwritten, settled, injected>>
  PROVE  SpyInv'
<1>1. /\ cache' \in [Plugin -> Seq(Event)]
      /\ \A q \in Plugin, x \in Event : Cached(q, x)' <=> Cached(q, x)
  <2>1. CASE TooFewSignatures(pl, e, signatures)
    BY <2>1 DEF TooFewSignatures, SpyInv, Cached
  <2>2. CASE Duplicate(pl, e, signatures)
    <3>1. /\ Cached(pl, e) /\ cache \in [Plugin -> Seq(Event)]
          /\ cache' = [cache EXCEPT ![pl] = Used(@, e)]
      BY <2>2 DEF Duplicate, SpyInv
    <3>2. cache[pl] \in Seq(Event) /\ Holds(cache[pl], e)
      BY <3>1 DEF Cached, Holds
    <3>3. /\ Used(cache[pl], e) \in Seq(Event)
          /\ \A x : Holds(Used(cache[pl], e), x) <=> Holds(cache[pl], x)
      BY <3>2, UsedHolds
    <3>4. \A q \in Plugin, x \in Event : Holds(cache'[q], x) <=> Holds(cache[q], x)
      BY <3>1, <3>3
    <3> QED BY <3>1, <3>3, <3>4 DEF Cached, Holds
  <2> QED BY <2>1, <2>2
<1>2. UNCHANGED <<consuming, evicted>>
  BY DEF TooFewSignatures, Duplicate
<1>3. \A q \in Plugin, x \in Event :
        <<q, x>> \in passed' => <<q, x>> \in passed \/ Cached(q, x)
  <2>1. Quorum \in Int
    BY SpyAssumption DEF Quorum
  <2>2. CASE signatures < Quorum
    BY <2>1, <2>2 DEF Counted
  <2>3. CASE signatures >= Quorum
    <3>1. Cached(pl, e)
      BY <2>1, <2>3 DEF TooFewSignatures, Duplicate
    <3> QED BY <2>3, <3>1 DEF Counted
  <2> QED BY <2>1, <2>2, <2>3
<1>4. passed \subseteq passed'
  BY DEF Counted
<1> QED
  BY <1>1, <1>2, <1>3, <1>4 DEF SpyInv, QuorumIsConsumed, ConsumedOnce,
                               CachedIsConsumed, SettledIsCached

\* A copy with a quorum whose hash the cache has not begins to be consumed.
LEMMA AcceptPreserves ==
  ASSUME SpyInv, NEW pl \in Plugin, NEW e \in Event, NEW signatures \in Nat,
         Counted(pl, e, signatures), Accept(pl, e, signatures),
         UNCHANGED <<known, unwritten, settled, injected>>
  PROVE  SpyInv'
<1>1. /\ cache \in [Plugin -> Seq(Event)] /\ consuming \in [Plugin -> [Event -> Nat]]
      /\ cache[pl] \in Seq(Event) /\ ~Cached(pl, e)
      /\ cache' = [cache EXCEPT ![pl] = Inserted(@, e)]
      /\ consuming' = [consuming EXCEPT ![pl][e] = @ + 1]
  BY DEF SpyInv, Accept
<1>2. /\ Inserted(cache[pl], e) \in Seq(Event)
      /\ Holds(Inserted(cache[pl], e), e)
      /\ \A x : Holds(Inserted(cache[pl], e), x) => x = e \/ Holds(cache[pl], x)
      /\ \A x : Holds(cache[pl], x) =>
           Holds(Inserted(cache[pl], e), x)
             \/ (Len(cache[pl]) = CacheSize /\ x = Head(cache[pl]))
  BY <1>1, InsertedHolds
<1>3. evicted' = IF Evicts(pl) THEN evicted \cup {<<pl, Head(cache[pl])>>} ELSE evicted
  BY DEF Accept
<1>4. /\ cache' \in [Plugin -> Seq(Event)]
      /\ cache'[pl] = Inserted(cache[pl], e)
      /\ \A q \in Plugin : q # pl => cache'[q] = cache[q]
  BY <1>1, <1>2
<1>5. /\ Cached(pl, e)'
      /\ \A q \in Plugin, x \in Event :
           Cached(q, x)' => Cached(q, x) \/ (q = pl /\ x = e)
      /\ \A q \in Plugin, x \in Event :
           Cached(q, x) => Cached(q, x)' \/ <<q, x>> \in evicted'
  <2>1. \A q \in Plugin, x \in Event :
          (Cached(q, x) <=> Holds(cache[q], x)) /\ (Cached(q, x)' <=> Holds(cache'[q], x))
    BY DEF Cached, Holds
  <2>2. \A x : (Len(cache[pl]) = CacheSize /\ x = Head(cache[pl])) => <<pl, x>> \in evicted'
    BY <1>3 DEF Evicts
  <2> QED BY <1>2, <1>4, <2>1, <2>2
<1>6. /\ consuming' \in [Plugin -> [Event -> Nat]]
      /\ consuming'[pl][e] = consuming[pl][e] + 1
      /\ consuming[pl][e] \in Nat
      /\ \A q \in Plugin, x \in Event :
           ~(q = pl /\ x = e) => consuming'[q][x] = consuming[q][x]
  BY <1>1
<1>7. evicted \subseteq evicted'
  BY <1>3
<1>8. passed' = passed \cup {<<pl, e>>}
  BY DEF Accept, Counted
<1>9. /\ UNCHANGED <<known, unwritten, settled, injected>>
      /\ QuorumIsConsumed /\ ConsumedOnce
      /\ CachedIsConsumed /\ SettledIsCached
  BY DEF SpyInv
<1>10. QuorumIsConsumed'
  BY <1>6, <1>8, <1>9 DEF QuorumIsConsumed
<1>12. CachedIsConsumed'
  BY <1>5, <1>6, <1>9 DEF CachedIsConsumed
<1>13. SettledIsCached'
  BY <1>5, <1>7, <1>9 DEF SettledIsCached
<1>14. ConsumedOnce'
  <2> SUFFICES ASSUME NEW q \in Plugin, NEW x \in Event, <<q, x>> \notin evicted' \cup injected
               PROVE  /\ consuming'[q][x] <= 1
                      /\ consuming'[q][x] = 1 => Cached(q, x)' /\ <<q, x>> \notin settled
    BY <1>9 DEF ConsumedOnce
  <2>1. /\ consuming[q][x] <= 1
        /\ consuming[q][x] = 1 => Cached(q, x) /\ <<q, x>> \notin settled
        /\ <<q, x>> \in settled => Cached(q, x)
    BY <1>7, <1>9 DEF ConsumedOnce, SettledIsCached
  <2>2. CASE q = pl /\ x = e
    <3>1. consuming[pl][e] # 1 /\ <<pl, e>> \notin settled
      BY <1>1, <2>1, <2>2
    <3> QED BY <1>5, <1>6, <2>1, <2>2, <3>1
  <2>3. CASE ~(q = pl /\ x = e)
    BY <1>5, <1>6, <2>1, <2>3
  <2> QED BY <2>2, <2>3
<1> QED BY <1>4, <1>6, <1>10, <1>12, <1>13, <1>14 DEF SpyInv

\* The data callback.
LEMMA DataPreserves ==
  ASSUME SpyInv, NEW pl \in Plugin, NEW e \in Event, NEW signatures \in Nat,
         Data(pl, e, signatures)
  PROVE  SpyInv'
<1>1. Counted(pl, e, signatures) /\ UNCHANGED <<known, unwritten, settled, injected>>
  BY DEF Data
<1>2. CASE TooFewSignatures(pl, e, signatures) \/ Duplicate(pl, e, signatures)
  BY <1>1, <1>2, IgnoredPreserves
<1>3. CASE Accept(pl, e, signatures)
  BY <1>1, <1>3, AcceptPreserves
<1> QED BY <1>2, <1>3 DEF Data

\* A plugin that hands in a VAA itself takes it out of what ConsumedOnce speaks of.
LEMMA EventSourcePreserves ==
  ASSUME SpyInv, NEW pl \in Plugin, NEW e \in Event, EventSource(pl, e)
  PROVE  SpyInv'
<1>1. /\ cache' = cache /\ known' = known /\ unwritten' = unwritten
      /\ passed' = passed /\ settled' = settled
      /\ evicted' = evicted /\ injected' = injected \cup {<<pl, e>>}
      /\ consuming' = [consuming EXCEPT ![pl][e] = @ + 1]
      /\ consuming \in [Plugin -> [Event -> Nat]]
  BY DEF EventSource, SpyInv
<1>2. /\ consuming' \in [Plugin -> [Event -> Nat]]
      /\ consuming'[pl][e] = consuming[pl][e] + 1
      /\ consuming[pl][e] \in Nat
      /\ \A q \in Plugin, x \in Event :
           ~(q = pl /\ x = e) => consuming'[q][x] = consuming[q][x]
  BY <1>1
<1>3. \A q \in Plugin, x \in Event : Cached(q, x)' <=> Cached(q, x)
  BY <1>1 DEF Cached
<1>4. \A q \in Plugin, x \in Event : consuming[q][x] > 0 => consuming'[q][x] > 0
  BY <1>1, <1>2
<1>5. QuorumIsConsumed'
  BY <1>1, <1>4 DEF SpyInv, QuorumIsConsumed
<1>7. ConsumedOnce'
  BY <1>1, <1>2, <1>3 DEF SpyInv, ConsumedOnce
<1>8. CachedIsConsumed'
  BY <1>1, <1>3, <1>4 DEF SpyInv, CachedIsConsumed
<1>9. SettledIsCached'
  BY <1>1, <1>3 DEF SpyInv, SettledIsCached
<1> QED BY <1>1, <1>2, <1>5, <1>7, <1>8, <1>9 DEF SpyInv

\* consumeEventHarness ends, with a workflow, with one that waits in the backlog, or without.
LEMMA ConsumedPreserves ==
  ASSUME SpyInv, NEW pl \in Plugin, NEW e \in Event,
         ConsumedWithWorkflow(pl, e) \/ AddFails(pl, e) \/ ConsumedWithout(pl, e)
  PROVE  SpyInv'
<1>1. /\ cache' = cache /\ passed' = passed /\ evicted' = evicted /\ injected' = injected
      /\ consuming' = [consuming EXCEPT ![pl][e] = @ - 1]
      /\ consuming \in [Plugin -> [Event -> Nat]]
      /\ consuming[pl][e] > 0
  BY DEF ConsumedWithWorkflow, AddFails, ConsumedWithout, SpyInv
<1>2. /\ known \cup unwritten \subseteq known' \cup unwritten' /\ settled \subseteq settled'
      /\ <<pl, e>> \in known' \cup unwritten' \cup settled'
      /\ settled' \subseteq settled \cup {<<pl, e>>}
  BY DEF ConsumedWithWorkflow, AddFails, ConsumedWithout
<1>3. /\ consuming' \in [Plugin -> [Event -> Nat]]
      /\ consuming'[pl][e] = consuming[pl][e] - 1
      /\ consuming[pl][e] \in Nat
      /\ \A q \in Plugin, x \in Event :
           ~(q = pl /\ x = e) => consuming'[q][x] = consuming[q][x]
  BY <1>1
<1>4. \A q \in Plugin, x \in Event : Cached(q, x)' <=> Cached(q, x)
  BY <1>1 DEF Cached
<1>5. QuorumIsConsumed'
  BY <1>1, <1>2, <1>3 DEF SpyInv, QuorumIsConsumed
<1>7. CachedIsConsumed'
  BY <1>2, <1>3, <1>4 DEF SpyInv, CachedIsConsumed
<1>8. ConsumedOnce'
  BY <1>1, <1>2, <1>3, <1>4 DEF SpyInv, ConsumedOnce
<1>9. SettledIsCached'
  BY <1>1, <1>2, <1>3, <1>4 DEF SpyInv, SettledIsCached, ConsumedOnce
<1> QED BY <1>1, <1>3, <1>5, <1>7, <1>8, <1>9 DEF SpyInv

\* The backlog is written: what was in the process's memory is in the storage.
LEMMA AddWrittenPreserves ==
  ASSUME SpyInv, NEW pl \in Plugin, NEW e \in Event, AddWritten(pl, e)
  PROVE  SpyInv'
<1>1. /\ known' \cup unwritten' = known \cup unwritten
      /\ UNCHANGED <<cache, consuming, passed, settled, evicted, injected>>
  BY DEF AddWritten
<1>2. \A q \in Plugin, x \in Event :
        <<q, x>> \in known' \cup unwritten' \cup settled'
          <=> <<q, x>> \in known \cup unwritten \cup settled
  BY <1>1
<1>3. QuorumIsConsumed'
  BY <1>1, <1>2 DEF SpyInv, QuorumIsConsumed
<1>4. CachedIsConsumed'
  BY <1>1, <1>2 DEF SpyInv, CachedIsConsumed, Cached
<1> QED BY <1>1, <1>3, <1>4 DEF SpyInv, ConsumedOnce, SettledIsCached, Cached
=============================================================================

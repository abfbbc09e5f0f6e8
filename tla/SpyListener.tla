------------------------------ MODULE SpyListener ------------------------------
(***************************************************************************)
(* The event sources of a listening engine process                         *)
(* (lib/relayer-engine/src/listener): the spy loop of each plugin, which   *)
(* filters the VAAs of its stream by their signatures and by a cache of    *)
(* hashes, the event source a plugin is given in afterSetup, and           *)
(* consumeEventHarness behind both.                                        *)
(***************************************************************************)
EXTENDS Integers, Sequences, FiniteSets

CONSTANTS
  Plugin,       \* plugins whose events are listened to
  Event,        \* VAAs, by hash
  NumGuardians, \* numGuardians of common.json, or 19
  CacheSize,    \* max of the LRU cache, 10000
  MaxCopies,    \* bound of the model: copies of VAAs that arrive
  MaxLosses,    \* bound of the model: connections the spy service closes
  MaxUnwritten  \* bound of the model: new workflows in the backlog at a time

ASSUME SpyAssumption ==
  /\ NumGuardians \in Nat \ {0}
  /\ CacheSize \in Nat \ {0}
  /\ MaxCopies \in Nat /\ MaxLosses \in Nat /\ MaxUnwritten \in Nat

VARIABLES
  loop,      \* per plugin: where runPluginSpyListener is
  cache,     \* per plugin: vaaHashCache, the hash used last at the end
  consuming, \* per plugin and event: consumeEventHarness calls under way
  known,     \* <<plugin, event>>: workflows in the storage
  unwritten, \* <<plugin, event>>: workflows that are in the process's backlog only
  copies,    \* how many copies arrived
  losses,    \* how many connections were lost
  passed,    \* history: <<plugin, event>> of which a copy with a quorum arrived at this process
  settled,   \* history: <<plugin, event>> consumed without a workflow: declined, or an error
  evicted,   \* history: <<plugin, event>> the cache has dropped
  injected   \* history: <<plugin, event>> the plugin's own event source was called with

spyVars ==
  <<loop, cache, consuming, known, unwritten, copies, losses, passed, settled, evicted, injected>>

PluginEvent == Plugin \X Event
Loc == {"off", "subscribing", "connected", "lost"}

SpyTypeOK ==
  /\ loop \in [Plugin -> Loc]
  /\ cache \in [Plugin -> Seq(Event)]
  /\ consuming \in [Plugin -> [Event -> Nat]]
  /\ known \cup unwritten \subseteq PluginEvent
  /\ copies \in 0..MaxCopies
  /\ losses \in 0..MaxLosses
  /\ passed \cup settled \cup evicted \cup injected \subseteq PluginEvent

NoCalls == [e \in Event |-> 0]

SpyInit ==
  /\ loop = [pl \in Plugin |-> "off"]
  /\ cache = [pl \in Plugin |-> <<>>]
  /\ consuming = [pl \in Plugin |-> NoCalls]
  /\ unwritten = {}
  /\ copies = 0
  /\ losses = 0
  /\ passed = {} /\ settled = {} /\ evicted = {} /\ injected = {}

-----------------------------------------------------------------------------
(* runPluginSpyListener.                                                   *)

\* listenerHarness.run: the loops of the plugins that ask for the spy start, with
\* empty caches; nothing waits for them.
StartSpyListeners(spying) ==
  /\ loop' = [pl \in Plugin |-> IF pl \in spying THEN "subscribing" ELSE "off"]
  /\ UNCHANGED <<cache, consuming, known, unwritten, copies, losses, passed, settled, evicted,
                 injected>>

\* What the process kept in memory is gone.
ForgetListeners ==
  /\ loop' = [pl \in Plugin |-> "off"]
  /\ cache' = [pl \in Plugin |-> <<>>]
  /\ consuming' = [pl \in Plugin |-> NoCalls]
  /\ unwritten' = {}
  /\ passed' = {} /\ settled' = {} /\ evicted' = {} /\ injected' = {}
  /\ UNCHANGED <<copies, losses>>

\* Mutation of Subscribe: the cache belongs to the connection.
SubscribeWithNewCache(pl) ==
  /\ loop[pl] = "subscribing"
  /\ loop' = [loop EXCEPT ![pl] = "connected"]
  /\ cache' = [cache EXCEPT ![pl] = <<>>]
  /\ UNCHANGED <<consuming, known, unwritten, copies, losses, passed, settled, evicted, injected>>

\* subscribeSignedVAA and its callbacks.
Subscribe(pl) ==
  /\ loop[pl] = "subscribing"
  /\ loop' = [loop EXCEPT ![pl] = "connected"]
  /\ UNCHANGED <<cache, consuming, known, unwritten, copies, losses, passed, settled, evicted,
                 injected>>

\* "error" or "close".
StreamLost(pl) ==
  /\ loop[pl] = "connected"
  /\ losses < MaxLosses
  /\ losses' = losses + 1
  /\ loop' = [loop EXCEPT ![pl] = "lost"]
  /\ UNCHANGED <<cache, consuming, known, unwritten, copies, passed, settled, evicted, injected>>

\* Mutation of Reconnect: the loop ends with its connection.
ReconnectNever(pl) ==
  /\ loop[pl] = "lost"
  /\ loop' = [loop EXCEPT ![pl] = "off"]
  /\ UNCHANGED <<cache, consuming, known, unwritten, copies, losses, passed, settled, evicted,
                 injected>>

\* The loop finds connected FALSE, destroys the stream, sleeps and begins again.
Reconnect(pl) ==
  /\ loop[pl] = "lost"
  /\ loop' = [loop EXCEPT ![pl] = "subscribing"]
  /\ UNCHANGED <<cache, consuming, known, unwritten, copies, losses, passed, settled, evicted,
                 injected>>

-----------------------------------------------------------------------------
(* The "data" callback.                                                    *)

\* Math.ceil((numGuardians * 2) / 3).
Quorum == (NumGuardians * 2 + 2) \div 3

Cached(pl, e) == \E i \in DOMAIN cache[pl] : cache[pl][i] = e

\* get() makes a hash the one used last: it moves from its place to the end.
Used(list, e) ==
  LET place == CHOOSE i \in DOMAIN list : list[i] = e
  IN  [i \in DOMAIN list |-> IF i = Len(list) THEN e ELSE list[IF i < place THEN i ELSE i + 1]]

\* set() of a hash that is not there; the one used longest ago is dropped.
Evicts(pl) == Len(cache[pl]) = CacheSize

Inserted(list, e) == Append(IF Len(list) = CacheSize THEN Tail(list) ELSE list, e)

\* The copy has arrived; with enough signatures, that is remembered.
Counted(pl, e, signatures) ==
  /\ copies' = copies + 1
  /\ passed' = IF signatures >= Quorum THEN passed \cup {<<pl, e>>} ELSE passed

\* Mutation of TooFewSignatures: the hash is cached before the signatures are counted.
TooFewSignaturesCached(pl, e, signatures) ==
  /\ signatures < Quorum
  /\ cache' = [cache EXCEPT ![pl] = IF Cached(pl, e) THEN @ ELSE Inserted(@, e)]
  /\ UNCHANGED <<consuming, evicted>>

TooFewSignatures(pl, e, signatures) ==
  /\ signatures < Quorum
  /\ UNCHANGED <<cache, consuming, evicted>>

Duplicate(pl, e, signatures) ==
  /\ signatures >= Quorum
  /\ Cached(pl, e)
  /\ cache' = [cache EXCEPT ![pl] = Used(@, e)]
  /\ UNCHANGED <<consuming, evicted>>

\* consumeEventHarness is called and not awaited.
Accept(pl, e, signatures) ==
  /\ signatures >= Quorum
  /\ ~Cached(pl, e)
  /\ cache' = [cache EXCEPT ![pl] = Inserted(@, e)]
  /\ evicted' = IF Evicts(pl) THEN evicted \cup {<<pl, Head(cache[pl])>>} ELSE evicted
  /\ consuming' = [consuming EXCEPT ![pl][e] = @ + 1]

\* A copy of VAA e with that many signatures: guardians sign one after the other,
\* and several peers send the spy what they have.
Data(pl, e, signatures) ==
  /\ loop[pl] = "connected"
  /\ copies < MaxCopies
  /\ Counted(pl, e, signatures)
  /\ \/ TooFewSignatures(pl, e, signatures)
     \/ Duplicate(pl, e, signatures)
     \/ Accept(pl, e, signatures)
  /\ UNCHANGED <<loop, known, unwritten, losses, settled, injected>>

\* The event source of afterSetup: neither the signatures nor the cache are looked at.
\* Bound of the model: one call between two ends of the process.
EventSource(pl, e) ==
  /\ injected = {}
  /\ copies < MaxCopies
  /\ copies' = copies + 1
  /\ injected' = injected \cup {<<pl, e>>}
  /\ consuming' = [consuming EXCEPT ![pl][e] = @ + 1]
  /\ UNCHANGED <<loop, cache, known, unwritten, losses, passed, settled, evicted>>

-----------------------------------------------------------------------------
(* consumeEventHarness.                                                    *)

\* The plugin returns workflow data, and addWorkflow leaves a workflow, new or there
\* already, when the backlog before it has been written.
ConsumedWithWorkflow(pl, e) ==
  /\ consuming[pl][e] > 0
  /\ unwritten = {}
  /\ consuming' = [consuming EXCEPT ![pl][e] = @ - 1]
  /\ known' = known \cup {<<pl, e>>}
  /\ UNCHANGED <<loop, cache, unwritten, copies, losses, passed, settled, evicted, injected>>

\* The write fails, which executeBacklog logs: addWorkflow returns as if it had
\* been done, and the workflow is in the backlog of this process.
AddFails(pl, e) ==
  /\ consuming[pl][e] > 0
  /\ Cardinality(unwritten) < MaxUnwritten
  /\ consuming' = [consuming EXCEPT ![pl][e] = @ - 1]
  /\ unwritten' = unwritten \cup {<<pl, e>>}
  /\ UNCHANGED <<loop, cache, known, copies, losses, passed, settled, evicted, injected>>

\* Another operation of the process writes the backlog first.
AddWritten(pl, e) ==
  /\ <<pl, e>> \in unwritten
  /\ unwritten' = unwritten \ {<<pl, e>>}
  /\ known' = known \cup {<<pl, e>>}
  /\ UNCHANGED <<loop, cache, consuming, copies, losses, passed, settled, evicted, injected>>

\* The plugin returns none, or something throws, which is logged.
ConsumedWithout(pl, e) ==
  /\ consuming[pl][e] > 0
  /\ consuming' = [consuming EXCEPT ![pl][e] = @ - 1]
  /\ settled' = settled \cup {<<pl, e>>}
  /\ UNCHANGED <<loop, cache, known, unwritten, copies, losses, passed, evicted, injected>>

-----------------------------------------------------------------------------
(* Properties.                                                             *)

\* No VAA gets lost between the stream and the storage: one that arrived with a
\* quorum is being consumed, is a workflow (in the storage or, if the write failed, in
\* the backlog), or was consumed without one (declined, or an error that is only
\* logged), however its copies, duplicates, evictions and reconnections come.
QuorumIsConsumed ==
  \A pl \in Plugin, e \in Event : <<pl, e>> \in passed =>
    consuming[pl][e] > 0 \/ <<pl, e>> \in known \cup unwritten \cup settled

\* Across reconnections the plugin consumes an event of the spy once only, until
\* the cache has dropped its hash: no second call while one is under way.
ConsumedOnce ==
  \A pl \in Plugin, e \in Event :
    <<pl, e>> \notin evicted \cup injected =>
      /\ consuming[pl][e] <= 1
      /\ consuming[pl][e] = 1 => Cached(pl, e) /\ <<pl, e>> \notin settled
=============================================================================

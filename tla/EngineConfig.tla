----------------------------- MODULE EngineConfig -----------------------------
(***************************************************************************)
(* What the relayer engine makes of its configuration                      *)
(* (lib/relayer-engine/src/config): common.json, executor.json,            *)
(* listener.json and the environment variables PRIVATE_KEYS_CHAIN_<id>.    *)
(* Operators only; EngineProcess runs them.                                *)
(*                                                                         *)
(* A configuration on disk is a record:                                    *)
(*   storeType, redis  - common.json; redis: host and port are given       *)
(*   chains            - supportedChains: the fields given, by chain       *)
(*   form, keys        - privateKeys of executor.json, an array of         *)
(*                       {chainId, privateKeys} or an object, or missing   *)
(*   env               - the environment variables that are set            *)
(***************************************************************************)
EXTENDS Integers, Sequences

CONSTANTS
  Chain,    \* Wormhole chain ids
  Kind,     \* of a chain: "evm", "solana", "terra" or one the engine does not know
  Wallet    \* private keys that ethers and the Solana library accept, as strings

\* What JSON.parse finds where a private key belongs.
KeyValue == Wallet \cup {"text", "number"}
AreKeyLists(lists) == \E S \in SUBSET Chain : lists \in [S -> Seq(KeyValue)]

StoreTypes == {"InMemory", "Redis"}
Modes == {"LISTENER", "EXECUTOR", "BOTH"}
Listens(mode) == mode \in {"LISTENER", "BOTH"}
Executes(mode) == mode \in {"EXECUTOR", "BOTH"}

Field == {"chainName", "nodeUrl", "bridgeAddress"}

IsRawConfig(raw) ==
  /\ DOMAIN raw = {"storeType", "redis", "chains", "form", "keys", "env"}
  /\ raw.redis \in BOOLEAN
  /\ \E S \in SUBSET Chain : raw.chains \in [S -> SUBSET Field]
  /\ raw.form \in {"array", "object", "missing"}
  /\ AreKeyLists(raw.keys) /\ AreKeyLists(raw.env)

-----------------------------------------------------------------------------
(* loadConfig.ts                                                           *)

\* Only the chains of common.json are looked up.
PrivateKeyEnvVarLoader(raw) ==
  [c \in DOMAIN raw.env \cap DOMAIN raw.chains |-> raw.env[c]]

\* Object.assign(undefined, ...) throws, so executor.json needs privateKeys.
LoadExecutorThrows(raw) == raw.form = "missing"

\* Object.assign(target, source).
Assigned(target, source) ==
  [c \in DOMAIN target \cup DOMAIN source |->
     IF c \in DOMAIN source THEN source[c] ELSE target[c]]

\* Mutation of AssignedKeys: the file's keys replace those of the environment.
AssignedKeysFileFirst(raw) == Assigned(PrivateKeyEnvVarLoader(raw), raw.keys)

\* The environment's keys replace the file's, chain by chain.
AssignedKeys(raw) == Assigned(raw.keys, PrivateKeyEnvVarLoader(raw))

\* loadUntypedEnvs returns; in LISTENER mode executor.json is not read.
Loads(raw, mode) == Executes(mode) => ~LoadExecutorThrows(raw)

-----------------------------------------------------------------------------
(* index.ts and validateConfig.ts                                          *)

\* Assigned to an array, a key list becomes the element whose index is the chain
\* id, which is no {chainId, privateKeys}: transformPrivateKeys throws, validateEnvs
\* ignores that, and the elements the array had are looked at as chains 0, 1, ...
TransformFails(raw) ==
  /\ raw.form = "array"
  /\ DOMAIN PrivateKeyEnvVarLoader(raw) # {}

\* "privateKeys includes key for unsupported chain" 0.
IndexTakenForChain(raw) == TransformFails(raw) /\ DOMAIN raw.keys # {}

\* A key that is no string is refused; whether a string is a key is not looked at.
AreStrings(list) == \A i \in DOMAIN list : list[i] # "number"

\* Keys of supported chains only, and an entry, maybe an empty one, for each.
ValidPrivateKeys(raw) ==
  LET keys == AssignedKeys(raw)
  IN  /\ ~IndexTakenForChain(raw)
      /\ DOMAIN keys \subseteq DOMAIN raw.chains
      /\ \A c \in DOMAIN keys : AreStrings(keys[c])
      /\ \A c \in DOMAIN raw.chains : c \in DOMAIN keys

RequiredFields(c) ==
  CASE Kind[c] = "solana" -> Field
    [] Kind[c] \in {"evm", "terra"} -> {"chainName", "nodeUrl"}

ValidChainConfig(raw, c) ==
  /\ Kind[c] \in {"evm", "solana", "terra"}
  /\ RequiredFields(c) \subseteq raw.chains[c]

ValidCommonEnv(raw, mode) ==
  /\ raw.storeType \in StoreTypes
  /\ mode \in Modes
  /\ \A c \in DOMAIN raw.chains : ValidChainConfig(raw, c)

\* validateEnvs returns.
ValidEnvs(raw, mode) ==
  /\ ValidCommonEnv(raw, mode)
  /\ Executes(mode) => ValidPrivateKeys(raw)

\* The validated environment, as the getters of index.ts return it.
ValidatedEnv(raw, mode) ==
  [mode |-> mode, storeType |-> raw.storeType, redis |-> raw.redis,
   chains |-> DOMAIN raw.chains,
   privateKeys |-> IF Executes(mode) THEN AssignedKeys(raw) ELSE <<>>]

\* createStorage.
CanCreateStorage(env) == env.storeType = "Redis" => env.redis

-----------------------------------------------------------------------------
(* walletToolBox.ts                                                        *)

\* There is no tool box for a Terra chain, nor for a string that is no key.
CreatesWalletToolbox(c, key) == Kind[c] \in {"evm", "solana"} /\ key \in Wallet

\* Every worker of the validated keys gets its tool box.
AllWorkersSpawn(keys) ==
  \A c \in DOMAIN keys : \A i \in DOMAIN keys[c] : CreatesWalletToolbox(c, keys[c][i])
=============================================================================

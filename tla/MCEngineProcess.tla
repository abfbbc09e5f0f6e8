---------------------------- MODULE MCEngineProcess ----------------------------
(* EngineProcess with the constants of its cfg files.                      *)
EXTENDS EngineProcess, TLC

CONSTANTS e1, e2, e3, pl, fuji, polygon, terra, wa, wb

Plugins == {pl}
Events == {e1, e2, e3}
Workflows == Plugins \X Events
Chains == {fuji, polygon, terra}
Kinds == [c \in Chains |-> IF c = terra THEN "terra" ELSE "evm"]
DummyPlan == <<fuji, polygon>>

Supported(S) == [c \in S |-> {"chainName", "nodeUrl"}]

\* As deployed, an object in executor.json and Redis, with two chains.  Fuji's keys
\* come from the environment.
Deployed ==
  [storeType |-> "Redis", redis |-> TRUE, chains |-> Supported({fuji, polygon}),
   form |-> "object", keys |-> (fuji :> <<wb>>) @@ (polygon :> <<wa>>),
   env |-> fuji :> <<wa, wb>>]

\* The array form and the other store, with a chain whose list of keys is empty.
InMemoryArray ==
  [Deployed EXCEPT !.storeType = "InMemory", !.redis = FALSE, !.form = "array",
                   !.keys = (fuji :> <<wa>>) @@ (polygon :> <<>>), !.env = <<>>]

\* A chain of the handler's actions is not supported.
OneChain == [Deployed EXCEPT !.chains = Supported({fuji}), !.keys = fuji :> <<wb>>]

\* And what the engine refuses, sooner or later: the array form with keys from the
\* environment, a Solana key as the comment in loadConfig.ts has it, a string that is
\* no key, a chain without keys, a Terra chain, Redis without host, no store.
Configurations ==
  { Deployed, InMemoryArray, OneChain,
    [Deployed EXCEPT !.form = "array"],
    [Deployed EXCEPT !.env = fuji :> <<"number">>],
    [Deployed EXCEPT !.env = fuji :> <<"text">>],
    [Deployed EXCEPT !.keys = fuji :> <<wa>>],
    [Deployed EXCEPT !.chains = Supported(Chains), !.keys = [c \in Chains |-> <<wa>>]],
    [Deployed EXCEPT !.redis = FALSE],
    [Deployed EXCEPT !.storeType = "Disk"],
    [Deployed EXCEPT !.form = "missing", !.keys = <<>>] }

PluginConfigurations ==
  { [valid |-> TRUE, shouldSpy |-> Plugins, filters |-> TRUE],
    [valid |-> TRUE, shouldSpy |-> Plugins, filters |-> FALSE],
    [valid |-> FALSE, shouldSpy |-> {}, filters |-> TRUE] }
=============================================================================

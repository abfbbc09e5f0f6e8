------------------------------- MODULE XChainCli -------------------------------
(***************************************************************************)
(* The owner's command line (evm/ts/cli/deltafi_xchain_cli.ts) against the *)
(* contracts of XChainEvm.  The owner runs each command at most once.      *)
(***************************************************************************)
EXTENDS XChainEvm

CONSTANTS
  Supported,               \* SUPPORTED_CHAINS, in order
  FeePercentage, FeePrecision  \* RELAYER_FEE_PERCENTAGE, RELAYER_FEE_PRECISION

VARIABLES
  registering,  \* register-emitter: 0 before it runs, then its next step
  updating      \* update-relayer-fee: the chains whose transaction is under way

cliVars == <<registering, updating>>
systemVars == <<vars, cliVars>>

CliInit ==
  /\ Init
  /\ registering = 0
  /\ updating = {}

\* The contract each step of registerEmitter hands to registerBridge: step two,
\* Avalanche's, has that of Arbitrum.
ContractOfStep(i) == IF i = 2 THEN Supported[1] ELSE Supported[i]

\* registerBridge returns in the first round of its loop, which registers the chain's
\* own address for the chain's own id.  A receipt of null is not looked at.
RegisterBridge(name, contract) ==
  \/ RegisterEmitter(contract, name, name)
  \/ contract = name /\ UNCHANGED vars

RegisterEmitterStarts ==
  /\ registering = 0
  /\ registering' = 1
  /\ UNCHANGED <<vars, updating>>

RegisterEmitterStep ==
  /\ registering \in DOMAIN Supported
  /\ RegisterBridge(Supported[registering], ContractOfStep(registering))
  /\ registering' = registering + 1
  /\ UNCHANGED updating

Registered == registering = Len(Supported) + 1

\* updateRelayerFee sends all its transactions and waits for none.
UpdateRelayerFeeSends ==
  /\ updating = {}
  /\ updating' = {Supported[i] : i \in DOMAIN Supported}
  /\ UNCHANGED <<vars, registering>>

UpdateBridgeRelayerFee(c) ==
  /\ c \in updating
  /\ updating' = updating \ {c}
  /\ \/ UpdateRelayerFee(c, FeePercentage, FeePrecision)
     \/ ~(FeePercentage < FeePrecision) /\ UNCHANGED vars
  /\ UNCHANGED registering

CliNext ==
  \/ RegisterEmitterStarts \/ RegisterEmitterStep \/ UpdateRelayerFeeSends
  \/ \E c \in Chain : UpdateBridgeRelayerFee(c)

\* The owner uses nothing but the commands; users and relayers use the contracts.
UserNext ==
  \/ \E c, to \in Chain, user \in Account, recipient \in Recipient :
       \E amount \in 0..bal[c][user] : SendTokensWithPayload(c, user, amount, to, recipient)
  \/ \E c \in Chain, id \in DOMAIN sent, caller \in Account :
       RedeemTransferWithPayload(c, id, caller)
  \/ \E c \in Chain, user \in Account :
       \E amount \in 1..bal[c][user] : GiveToContract(c, user, amount)

CliSpec ==
  CliInit /\ [][CliNext \/ (UserNext /\ UNCHANGED cliVars)]_systemVars

-----------------------------------------------------------------------------
\* evm/README.md, "register emitters on each chain": once register-emitter has run,
\* the chain a transfer was sent from is registered where it is to be redeemed.
RegistersEachChain ==
  Registered =>
    \A id \in DOMAIN sent : emitters[sent[id].to][sent[id].from] = sent[id].from
=============================================================================

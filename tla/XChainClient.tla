----------------------------- MODULE XChainClient -----------------------------
(***************************************************************************)
(* What runs outside the contracts: the API that sends a transfer, waits   *)
(* for the guardians' signatures and redeems it at the target              *)
(* (evm/ts/api), and the handlers of the relay service                     *)
(* (lib/relayer-engine/src/relay), against the contracts of XChainEvm,     *)
(* whose owner, users and other relayers go on acting.                     *)
(*                                                                         *)
(* A transaction is mined or reverts in one step.  What the caller hears   *)
(* of it is another matter: the node may not take it, and the answer may   *)
(* be lost after it was mined.  A call that is no transaction can be lost  *)
(* too: some of them are made outside of every try and catch.              *)
(***************************************************************************)
EXTENDS XChainEvm

CONSTANTS
  User, Relayer,  \* USER_WALLET_PRIVATE_KEY, RELAYER_WALLET_PRIVATE_KEY
  Call,           \* bound of the model: the calls of the API and the service
  MaxTry,         \* tries of a redeem: 20 in the code
  FeeChain,       \* chains whose node getOverride asks for the gas: Polygon, Avalanche
  RelayChain,     \* the chains the relay service is configured for
  MinTransfer,    \* its threshold for the token by chain, 0 where there is none
  MaxLost         \* bound of the model: transactions, calls or answers lost

ASSUME ClientAssumption ==
  /\ {User, Relayer} \subseteq Account
  /\ MaxTry \in Nat \ {0}
  /\ FeeChain \cup RelayChain \subseteq Chain
  /\ MinTransfer \in [Chain -> Nat]
  /\ MaxLost \in Nat

VARIABLES
  calls,  \* per call: where it is, its message and its tries
  lost    \* transactions, calls and answers lost so far

clientVars == <<calls, lost>>
allVars == <<vars, clientVars>>

\* The wallets and the contract the API uses on each chain: the same two keys on all.
Info == [c \in Chain |-> [wallet |-> User, relayerWallet |-> Relayer, nimbleXChain |-> c]]

\* Where a call is: waiting for signatures, or redeeming the signed message, or one
\* that was decoded and encoded.  What it ended with: "unanswered" are requests.
Pending == {"signing", "redeeming", "decoded"}
Ended == {"receipt", "null", "thrown", "400", "500", "unanswered"}
HasMessage == Pending \cup {"receipt"}

ClientTypeOK ==
  /\ TypeOK
  /\ calls \in [Call -> [at : Pending \cup Ended \cup {"none"},
                         id : 0..MaxSent, tries : 0..MaxTry]]
  /\ \A k \in Call : calls[k].at \in HasMessage => calls[k].id \in DOMAIN sent
  /\ lost \in 0..MaxLost

ClientInit ==
  /\ Init
  /\ calls = [k \in Call |-> [at |-> "none", id |-> 0, tries |-> 0]]
  /\ lost = 0

-----------------------------------------------------------------------------
\* Call k is made, and gets to some point with message id, or ends.
Begins(k, at, id) ==
  /\ calls[k].at = "none"
  /\ calls' = [calls EXCEPT ![k] = [at |-> at, id |-> id, tries |-> 0]]

Moves(k, at) == calls' = [calls EXCEPT ![k].at = at]

Loses == lost < MaxLost /\ lost' = lost + 1

\* transferToken, up to the receipt of its send.  When the answer is lost the call ends
\* with null all the same.
TransferToken(k, c, to, amount, recipient) ==
  /\ SendTokensWithPayload(Info[c].nimbleXChain, Info[c].wallet, amount, to, recipient)
  /\ \/ Begins(k, "signing", Len(sent')) /\ UNCHANGED lost
     \/ Begins(k, "null", 0) /\ Loses

\* transferToken without a send: one that is not taken, or that reverts (the wallet may
\* not have approved it), ends the call with null; an amount or a recipient that
\* cannot be encoded, or a failure to read the token's decimals or the gas, with an
\* exception.
TransferFails(k) ==
  \E end \in {"null", "thrown"} : Begins(k, end, 0) /\ UNCHANGED <<vars, lost>>

\* The override of a FeeChain is read from its node, and nothing catches a failure.
OverrideLost(c) == c \in FeeChain /\ Loses

\* getSignedVAAWithRetry returns what the guardians signed; before it is redeemed the
\* override of the target chain is read.
SignedVAA(k) ==
  /\ calls[k].at = "signing"
  /\ \/ Moves(k, "redeeming") /\ UNCHANGED lost
     \/ Moves(k, "thrown") /\ OverrideLost(sent[calls[k].id].to)
  /\ UNCHANGED vars

\* The contract would redeem message id for the caller now.
Redeemable(id, caller) ==
  LET c == sent[id].to
      amount == Received(c, id)
  IN  /\ CanComplete(c, id)
      /\ sent[id].from = emitters[c][sent[id].from]
      /\ sent[id].recipient \in Holder
      /\ caller = sent[id].recipient \/ CalculateRelayerFee(c, amount) <= amount

\* redeemTransferWithPayload of message id by the contract of chain c, as the caller sees
\* it: there is a receipt, or there is not and it may have been redeemed all the same.
NoReceipt(c, id, caller) ==
  \/ RedeemTransferWithPayload(c, id, caller) /\ Loses
  \/ UNCHANGED vars /\ Loses
  \/ /\ c # sent[id].to \/ ~Redeemable(id, caller)
     /\ UNCHANGED <<vars, lost>>

\* Mutation of TryAgain: there is no second try.
TryOnce(k) == calls' = [calls EXCEPT ![k].tries = @ + 1, ![k].at = "thrown"]

\* Mutation of TryAgain: the tries are not counted.
TryForEver(k) == UNCHANGED calls

\* The next of at most MaxTry tries of call k.
TryAgain(k) ==
  calls' = [calls EXCEPT ![k].tries = @ + 1,
                         ![k].at = IF calls[k].tries + 1 < MaxTry THEN @ ELSE "thrown"]

\* Mutation of RetryRedeem: a revert is taken for a receipt of somebody's redeem.
RetryRedeemAnyEnd(k) ==
  LET id == calls[k].id
      c == sent[id].to
      caller == Info[c].relayerWallet
  IN  /\ calls[k].at = "redeeming"
      /\ \/ /\ RedeemTransferWithPayload(c, id, caller) \/ (id \in completed /\ UNCHANGED vars)
            /\ Moves(k, "receipt")
            /\ UNCHANGED lost
         \/ NoReceipt(c, id, caller) /\ TryAgain(k)

\* nimbleRelay of the API redeems until there is a receipt, and throws after MaxTry
\* tries.
RetryRedeem(k) ==
  LET id == calls[k].id
      c == sent[id].to
      caller == Info[c].relayerWallet
  IN  /\ calls[k].at = "redeeming"
      /\ \/ RedeemTransferWithPayload(c, id, caller) /\ Moves(k, "receipt") /\ UNCHANGED lost
         \/ NoReceipt(c, id, caller) /\ TryAgain(k)

\* redeemToken takes the text transferToken returned with its receipt.  The bytes
\* of a signed VAA are not UTF-8, and what decoding replaced, encoding does not bring
\* back: the bridge refuses it.  The override is read here too.
RedeemToken(k, id) ==
  /\ \E j \in Call : calls[j].at = "receipt" /\ calls[j].id = id
  /\ \/ Begins(k, "decoded", id) /\ UNCHANGED lost
     \/ Begins(k, "thrown", 0) /\ OverrideLost(sent[id].to)
  /\ UNCHANGED vars

RetryDecoded(k) ==
  /\ calls[k].at = "decoded"
  /\ TryAgain(k)
  /\ UNCHANGED <<vars, lost>>

-----------------------------------------------------------------------------
(* The relay service.  A request is answered, or an exception outside of    *)
(* every try leaves it without an answer.                                  *)

\* One try, by the wallet and at the contract and node of the request: 200 with the
\* receipt, or 500.
NimbleRelay(k, c, id, caller) ==
  \/ RedeemTransferWithPayload(c, id, caller) /\ Begins(k, "receipt", id) /\ UNCHANGED lost
  \/ NoReceipt(c, id, caller) /\ Begins(k, "500", 0)

\* A request without one of its fields; one whose key is no key, or whose VAA cannot be
\* parsed, throws outside of every try.
RequestFails(k) ==
  \E end \in {"400", "unanswered"} : Begins(k, end, 0) /\ UNCHANGED <<vars, lost>>

\* Of the token at all, and enough of it.
ShouldRelay(id) ==
  /\ sent[id].amount > 0
  /\ MinTransfer[sent[id].to] > 0
  /\ sent[id].amount >= MinTransfer[sent[id].to]

ValidRequest(c, id) == c \in RelayChain /\ ShouldRelay(id)

\* redeemOnEth asks the token bridge itself to complete the transfer.  The bridge
\* leaves a transfer with payload to the contract it is addressed to.
Relay(k, c, id) ==
  /\ Begins(k, IF ValidRequest(c, id) THEN "500" ELSE "400", 0)
  /\ UNCHANGED <<vars, lost>>

-----------------------------------------------------------------------------
Calls(k) ==
  \/ \E c, to \in Chain, recipient \in Recipient : \E amount \in 0..bal[c][User] :
       TransferToken(k, c, to, amount, recipient)
  \/ \E id \in DOMAIN sent : RedeemToken(k, id)
  \/ \E c \in Chain, id \in DOMAIN sent, caller \in Account : NimbleRelay(k, c, id, caller)
  \/ \E c \in Chain, id \in DOMAIN sent : Relay(k, c, id)
  \/ TransferFails(k) \/ RequestFails(k)

Continues(k) == SignedVAA(k) \/ RetryRedeem(k) \/ RetryDecoded(k)

Others == Next /\ UNCHANGED clientVars

ClientNext == (\E k \in Call : Calls(k) \/ Continues(k)) \/ Others

ClientSpec == ClientInit /\ [][ClientNext]_allVars

\* The guardians sign, and a call under way goes on; nobody has to make one.
ClientFairSpec == ClientSpec /\ \A k \in Call : WF_allVars(Continues(k))

-----------------------------------------------------------------------------
(* Properties.                                                             *)

\* Whoever is told a receipt (nimbleRelay of relay.ts, and of relay/main.ts) made the
\* one redeem of the message: of several that redeem it at once the others are told
\* that they failed.
OneReceipt ==
  \A k \in Call : calls[k].at = "receipt" =>
    /\ calls[k].id \in completed
    /\ \A j \in Call \ {k} : calls[j].at = "receipt" => calls[j].id # calls[k].id

\* A call that sent its transfer ends (retryAsync of relay.ts, with its maxTry), also
\* when what it redeems is refused for good.
CallsEnd == \A k \in Call : (calls[k].at \in Pending) ~> (calls[k].at \in Ended)

\* A message that the API has sent is delivered, by whoever it may be, when fewer calls
\* are lost than there are tries (relay.ts, maxTry), unless the contract refuses it; only
\* a failure to read the gas of the target chain, before the first try (xchain.ts:264),
\* leaves it behind.
SignedIsDelivered ==
  \A k \in Call :
    LET id == calls[k].id
    IN  (calls[k].at = "signing")
          ~> \/ id \in completed
             \/ id \in DOMAIN sent /\ ~Redeemable(id, Relayer)
             \/ calls[k].at = "thrown" /\ calls[k].tries = 0
=============================================================================

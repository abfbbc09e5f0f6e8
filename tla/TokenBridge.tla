----------------------------- MODULE TokenBridge -----------------------------
(***************************************************************************)
(* What nimbleXChain relies on outside its own code: an ERC-20 token, its  *)
(* wrapped copies on the other chains, and the Wormhole token bridge that  *)
(* locks the token on its home chain, mints and burns the copies, and      *)
(* carries messages.  Modelled from the calls of                           *)
(* evm/contracts/deltafi-xchain/DeltafiXChain.sol.                         *)
(*                                                                         *)
(* The bridge carries amounts of at most 8 decimals.  The token has more:  *)
(* Unit of its smallest amounts make one that can be carried.  A wrapped   *)
(* copy has 8 decimals.                                                    *)
(***************************************************************************)
EXTENDS Integers, Sequences, FiniteSets, FiniteSetsExt

CONSTANTS
  Chain,    \* chains with a deployment of nimbleXChain
  Home,     \* the chain the token is native to
  Account,  \* wallets of users and relayers, the same on every chain
  XChain,   \* the holder that stands for a chain's nimbleXChain contract
  Recipient,  \* the 32 bytes a message may name: XChain is the contract where it
              \* arrives, what is no holder is no address of an EVM chain
  Unit      \* 10 ** (decimals - 8) of the token on its home chain

ASSUME BridgeAssumption ==
  /\ IsFiniteSet(Chain) /\ IsFiniteSet(Account)
  /\ Home \in Chain
  /\ XChain \notin Account
  /\ Unit \in Nat \ {0}

VARIABLES
  bal,        \* token balances: per chain, of the wallets and of the contract
  allowance,  \* per chain: what the bridge may take from the contract
  custody,    \* what the bridge has locked on the home chain
  sent,       \* the signed transfer messages, in the order they were sent
  completed   \* the messages completeTransferWithPayload has consumed

bridge == <<bal, allowance, custody, sent, completed>>

Holder == Account \cup {XChain}
Message == [from : Chain, to : Chain, contract : Chain \cup {"other"},
            amount : Nat, recipient : Recipient]

Scale(c) == IF c = Home THEN Unit ELSE 1

\* normalizeAmount, and what the bridge does with the result.
NormalizeAmount(c, amount) == amount \div Scale(c)
DenormalizeAmount(c, amount) == amount * Scale(c)

\* What the bridge takes of an amount: what it cannot carry stays with the sender.
Carried(c, amount) == DenormalizeAmount(c, NormalizeAmount(c, amount))

\* transferTokensWithPayload: what is carried of the amount is locked (or, of a
\* wrapped copy, burned), and a message for the contract on chain `to' goes out.
TransferTokens(c, amount, to, contract, recipient) ==
  /\ custody' = IF c = Home THEN custody + Carried(c, amount) ELSE custody
  /\ sent' = Append(sent, [from |-> c, to |-> to, contract |-> contract,
                           amount |-> NormalizeAmount(c, amount),
                           recipient |-> recipient])
  /\ UNCHANGED completed

\* completeTransferWithPayload accepts a message once, on its target chain and
\* from the contract it is addressed to.
CanComplete(c, id) ==
  /\ id \in DOMAIN sent \ completed
  /\ sent[id].to = c /\ sent[id].contract = c

\* What completeTransferWithPayload gives the contract.
Received(c, id) == DenormalizeAmount(c, sent[id].amount)

\* The message is consumed, its amount released or minted.
CompleteTransfer(c, id) ==
  /\ completed' = completed \cup {id}
  /\ custody' = IF c = Home THEN custody - Received(c, id) ELSE custody
  /\ UNCHANGED sent
=============================================================================

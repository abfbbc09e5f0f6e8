------------------------------ MODULE XChainEvm ------------------------------
(***************************************************************************)
(* The nimbleXChain contracts of several EVM chains                        *)
(* (evm/contracts/deltafi-xchain), one per chain, and the transfers        *)
(* between them.  A transaction is one step; one that reverts is no step.  *)
(***************************************************************************)
EXTENDS TokenBridge

CONSTANTS
  Balance,                \* what the accounts own on the home chain at first
  Percentage, Precision,  \* the relayer fees deployments and owners choose from
  Deployed,               \* the fees of all chains the constructors may be given
  MaxSent                 \* bound of the model: transfers

ASSUME XChainAssumption ==
  /\ Balance \in [Account -> Nat]
  /\ Percentage \subseteq Nat
  /\ Precision \subseteq Nat \ {0}
  /\ Deployed \subseteq [Chain -> [percentage : Percentage, precision : Precision]]
  /\ MaxSent \in Nat

VARIABLES
  fee,      \* per chain: feePrecision and relayerFeePercentage
  emitters  \* per chain: registeredEmitters

governance == <<fee, emitters>>
vars == <<bridge, governance>>

\* The contract of chain d is known by the name d; any other address, that of
\* another chain's contract too, is "other"; an address that was never registered
\* is "zero".
TypeOK ==
  /\ bal \in [Chain -> [Holder -> Nat]]
  /\ allowance \in [Chain -> Nat]
  /\ custody \in Nat
  /\ sent \in Seq(Message)
  /\ completed \subseteq DOMAIN sent
  /\ fee \in [Chain -> [percentage : Percentage, precision : Precision]]
  /\ emitters \in [Chain -> [Chain -> Chain \cup {"other", "zero"}]]

\* The constructors.  A fee is not compared with its precision here.
Init ==
  /\ bal = [c \in Chain |-> [h \in Holder |->
              IF c = Home /\ h \in Account THEN Balance[h] ELSE 0]]
  /\ allowance = [c \in Chain |-> 0]
  /\ custody = 0
  /\ sent = <<>>
  /\ completed = {}
  /\ fee \in Deployed
  /\ emitters = [c \in Chain |-> [d \in Chain |-> "zero"]]

-----------------------------------------------------------------------------
(* Governance, by the owner.                                               *)

RegisterEmitter(c, d, address) ==
  /\ d # c
  /\ address # "zero"
  /\ emitters' = [emitters EXCEPT ![c][d] = address]
  /\ UNCHANGED <<bridge, fee>>

UpdateRelayerFee(c, percentage, precision) ==
  /\ precision > 0
  /\ percentage < precision
  /\ fee' = [fee EXCEPT ![c] = [percentage |-> percentage, precision |-> precision]]
  /\ UNCHANGED <<bridge, emitters>>

-----------------------------------------------------------------------------
(* Transfers.                                                              *)

\* What the documentation of sendTokensWithPayload asks for, and that the caller
\* has the tokens.  That it has approved them is left to the caller: without it the
\* transaction reverts.  Of the recipient nothing is asked but that it is not zero.
MayBeSent(c, user, amount, to) ==
  /\ amount > 0
  /\ NormalizeAmount(c, amount) > 0
  /\ emitters[c][to] # "zero"
  /\ bal[c][user] >= amount

\* custodyTokens takes the amount, safeApprove approves it, and the bridge takes
\* what it can carry.
Deposit(c, user, amount) ==
  LET rest == amount - Carried(c, amount)
  IN  /\ bal' = [bal EXCEPT ![c][user] = @ - amount, ![c][XChain] = @ + rest]
      /\ allowance' = [allowance EXCEPT ![c] = rest]

\* Mutation of SendTokensWithPayload: the normalized amount is not looked at.
SendTokensNotNormalized(c, user, amount, to, recipient) ==
  /\ Len(sent) < MaxSent
  /\ amount > 0 /\ emitters[c][to] # "zero" /\ bal[c][user] >= amount
  /\ allowance[c] = 0
  /\ Deposit(c, user, amount)
  /\ TransferTokens(c, amount, to, emitters[c][to], recipient)
  /\ UNCHANGED governance

\* safeApprove reverts while something of the last approval is left.
SendTokensWithPayload(c, user, amount, to, recipient) ==
  /\ Len(sent) < MaxSent
  /\ MayBeSent(c, user, amount, to)
  /\ allowance[c] = 0
  /\ Deposit(c, user, amount)
  /\ TransferTokens(c, amount, to, emitters[c][to], recipient)
  /\ UNCHANGED governance

CalculateRelayerFee(c, amount) == (amount * fee[c].percentage) \div fee[c].precision

\* The contract passes on what it received, less the fee of who redeemed it.
Pay(c, recipient, amount, caller, relayerFee) ==
  bal' = [bal EXCEPT ![c] = [h \in Holder |->
            @[h] + (IF h = recipient THEN amount - relayerFee ELSE 0)
                 + (IF h = caller THEN relayerFee ELSE 0)]]

\* Mutation of RedeemTransferWithPayload: the balance before is not subtracted from
\* what the contract passes on.
RedeemTransferWholeBalance(c, id, caller) ==
  LET amount == Received(c, id) + bal[c][XChain]
      recipient == sent[id].recipient
      paid == [h \in Holder |-> IF h = recipient THEN bal[c][h] + amount
                               ELSE IF h = XChain THEN 0 ELSE bal[c][h]]
  IN  /\ CanComplete(c, id)
      /\ sent[id].from = emitters[c][sent[id].from]
      /\ recipient \in Account /\ caller = recipient
      /\ CompleteTransfer(c, id)
      /\ bal' = [bal EXCEPT ![c] = paid]
      /\ UNCHANGED <<allowance, governance>>

\* Mutation of RedeemTransferWithPayload: the fee is not compared with the amount.
RedeemTransferUnchecked(c, id, caller) ==
  LET amount == Received(c, id)
  IN  /\ CanComplete(c, id)
      /\ sent[id].from = emitters[c][sent[id].from]
      /\ sent[id].recipient \in Holder
      /\ CompleteTransfer(c, id)
      /\ Pay(c, sent[id].recipient, amount, caller,
             IF caller = sent[id].recipient THEN 0 ELSE CalculateRelayerFee(c, amount))
      /\ UNCHANGED <<allowance, governance>>

\* The sender of the message must be the contract registered for its chain, and its
\* recipient an address (bytes32ToAddress), that of the contract too.  The recipient
\* redeems without fee; for anybody else trySub reverts when the fee is more than the
\* amount.
RedeemTransferWithPayload(c, id, caller) ==
  LET amount == Received(c, id)
      recipient == sent[id].recipient
      relayerFee == CalculateRelayerFee(c, amount)
  IN  /\ CanComplete(c, id)
      /\ sent[id].from = emitters[c][sent[id].from]
      /\ recipient \in Holder
      /\ CompleteTransfer(c, id)
      /\ \/ /\ relayerFee = 0 \/ caller = recipient
            /\ Pay(c, recipient, amount, caller, 0)
         \/ /\ relayerFee # 0 /\ caller # recipient
            /\ relayerFee <= amount
            /\ Pay(c, recipient, amount, caller, relayerFee)
      /\ UNCHANGED <<allowance, governance>>

\* transfer of the token itself: anybody may give the contract tokens.
GiveToContract(c, user, amount) ==
  /\ bal' = [bal EXCEPT ![c][user] = @ - amount, ![c][XChain] = @ + amount]
  /\ UNCHANGED <<allowance, custody, sent, completed, governance>>

Next ==
  \/ \E c, d \in Chain : \E address \in {d, "other"} : RegisterEmitter(c, d, address)
  \/ \E c \in Chain, percentage \in Percentage, precision \in Precision :
       UpdateRelayerFee(c, percentage, precision)
  \/ \E c, to \in Chain, user \in Account, recipient \in Recipient :
       \E amount \in 0..bal[c][user] : SendTokensWithPayload(c, user, amount, to, recipient)
  \/ \E c \in Chain, id \in DOMAIN sent, caller \in Account :
       RedeemTransferWithPayload(c, id, caller)
  \/ \E c \in Chain, user \in Account :
       \E amount \in 1..bal[c][user] : GiveToContract(c, user, amount)

Spec == Init /\ [][Next]_vars

-----------------------------------------------------------------------------
(* Properties.                                                             *)

\* One of chain c's smallest amounts, in smallest amounts of the home chain.
Worth(c) == Unit \div Scale(c)

\* What an earlier sendTokensWithPayload left in the contract of a chain, approved to
\* the bridge and less than the bridge can carry, is still there: whoever redeems,
\* and whatever else the contract was given, no redeemTransferWithPayload pays with it.
ResidueStays ==
  \A c \in Chain : allowance[c] <= bal[c][XChain] /\ allowance[c] < Scale(c)

\* What a holder owns over all chains, in smallest amounts of the home chain.
Owned(h) == SumFunction([c \in Chain |-> Worth(c) * bal[c][h]])

Supply == SumFunction(Balance)

\* The contracts move tokens like one ledger: a send takes an amount from one
\* owner, a redeem gives it, once, to the recipient and its caller, in the same
\* worth on every chain, and the contract keeps only what the bridge cannot carry and
\* what it is given.
Ledger == INSTANCE TokenTransfers WITH
  Application <- XChain,
  wealth <- [u \in Account |-> Owned(u)],
  transfers <- [id \in DOMAIN sent |->
                  [to |-> sent[id].recipient, amount |-> Unit * sent[id].amount]],
  delivered <- completed,
  kept <- Owned(XChain)

ImplementsTransfers == Ledger!Spec

\* Documented (DeltafiXChain.sol:68-74): a send reverts only for what it lists.
\* The approval left by an earlier send is not in the list, so it must never be
\* there when a send that may be made is made.
SendNeverBlocked ==
  \A c, to \in Chain, user \in Account, amount \in 0..Supply :
    MayBeSent(c, user, amount, to) => allowance[c] = 0
=============================================================================

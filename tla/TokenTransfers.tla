--------------------------- MODULE TokenTransfers ---------------------------
(***************************************************************************)
(* What the bridge application promises, whatever chains, contracts and    *)
(* relayers carry a transfer: one ledger of everybody's wealth, transfers  *)
(* that leave it once and come back once, less a fee for who delivers      *)
(* them, and nothing that appears or disappears.  The application keeps *)
(* what a transfer cannot carry and what it is given, and spends none of   *)
(* it.                                                                     *)
(***************************************************************************)
EXTENDS Integers, Sequences

CONSTANTS
  Account,
  Application,  \* the application itself, when it is the recipient
  Recipient     \* whom a transfer may be for, also nobody to whom it can be delivered

VARIABLES
  wealth,     \* what each account owns, over all chains
  transfers,  \* the transfers, in the order they were sent
  delivered,  \* those that arrived
  kept        \* what the application has

vars == <<wealth, transfers, delivered, kept>>

Send(from, to, amount, rest) ==
  /\ rest < amount
  /\ transfers' = Append(transfers, [to |-> to, amount |-> amount - rest])
  /\ kept' = kept + rest
  /\ wealth' = [wealth EXCEPT ![from] = @ - amount]
  /\ UNCHANGED delivered

Give(from, amount) ==
  /\ UNCHANGED <<transfers, delivered>>
  /\ kept' = kept + amount
  /\ wealth' = [wealth EXCEPT ![from] = @ - amount]

\* Who delivers a transfer to somebody else may keep a fee.
Deliver(id, by, fee) ==
  LET to == transfers[id].to
      amount == transfers[id].amount
  IN  /\ id \notin delivered
      /\ to \in Account \cup {Application}
      /\ delivered' = delivered \cup {id}
      /\ fee <= amount
      /\ by = to => fee = 0
      /\ wealth' = [u \in Account |->
                      wealth[u] + (IF u = to THEN amount - fee ELSE 0)
                                + (IF u = by THEN fee ELSE 0)]
      /\ kept' = kept + (IF to = Application THEN amount - fee ELSE 0)
      /\ UNCHANGED transfers

Init ==
  /\ wealth \in [Account -> Nat]
  /\ transfers = <<>>
  /\ delivered = {}
  /\ kept = 0

Next ==
  \/ \E from \in Account : \E amount \in 1..wealth[from] :
       \/ \E to \in Recipient, rest \in 0..(amount - 1) : Send(from, to, amount, rest)
       \/ Give(from, amount)
  \/ \E id \in DOMAIN transfers, by \in Account :
       \E fee \in 0..transfers[id].amount : Deliver(id, by, fee)

Spec == Init /\ [][Next]_vars
=============================================================================

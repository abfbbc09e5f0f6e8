----------------------------- MODULE MCXChainEvm -----------------------------
(* Values for XChainEvm: two chains, two wallets, one of which owns tokens.  *)
EXTENDS XChainEvm

CONSTANTS owner, other, nowhere
Wallets == {owner, other}
MCBalance == [u \in Wallets |-> IF u = owner THEN 5 ELSE 0]
Deployments == [Chain -> [percentage : Percentage, precision : Precision]]
=============================================================================

---------------------------- MODULE MCXChainClient ----------------------------
(* XChainClient with the constants of its cfg files: two chains, two wallets,  *)
(* one of which owns tokens; a message may also be for the contract or for     *)
(* what is no address.                                                         *)
EXTENDS XChainClient

CONSTANTS A, B, owner, other, nowhere

Wallets == {owner, other}
MCBalance == [u \in Wallets |-> IF u = owner THEN 3 ELSE 0]

\* The relay service knows B, for transfers of one and more.
Thresholds == [c \in {A, B} |-> IF c = B THEN 1 ELSE 0]

\* B is deployed with the smaller fee.
Deployments ==
  {f \in [Chain -> [percentage : Percentage, precision : Precision]] : f[B].percentage = 1}
=============================================================================

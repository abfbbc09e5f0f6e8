------------------------------ MODULE MCXChainCli ------------------------------
(* XChainCli with the constants of its cfg files: three of the five chains.   *)
EXTENDS XChainCli

CONSTANTS Arbitrum, Avalanche, Binance, owner, other, nowhere

Wallets == {owner, other}
MCBalance == [u \in Wallets |-> IF u = owner THEN 2 ELSE 0]
Chains == <<Arbitrum, Avalanche, Binance>>
Deployments == [Chain -> [percentage : Percentage, precision : Precision]]
=============================================================================

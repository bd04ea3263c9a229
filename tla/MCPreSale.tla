------------------------------ MODULE MCPreSale ------------------------------
(***************************************************************************)
(* PreSaleRound on small instances: an SRX is 40 units and a dollar buys    *)
(* one, with a bonus of 10% that becomes 25% at the threshold.              *)
(***************************************************************************)
EXTENDS PreSale, TLC
CONSTANTS alice, bob, eth, usdt
MCTierMins == <<0, 2>>
MCTierBonus == <<10, 25>>
MCPrices == [a \in Assets |-> IF a = eth THEN {2} ELSE {1}]
UserSymmetry == Permutations(Wallets)
=============================================================================

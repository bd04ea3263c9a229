---------------------------- MODULE MCTgeLaunch ----------------------------
(***************************************************************************)
(* TgeLaunch with one row of each kind of TGE_PLAN and a second vault: two  *)
(* vaults, a liquid wallet, the staking contract and the fund.  The .env    *)
(* files are the right one and the mistakes the gate is there for.          *)
(***************************************************************************)
EXTENDS TgeLaunch
CONSTANTS founders, presale, impostor, multisig, eoa, fund, staking, tge

MCPlan == << [label |-> "Founders",          kind |-> "vault",    amount |-> 2],
             [label |-> "Presale",           kind |-> "vault",    amount |-> 3],
             [label |-> "LiquidityPool",     kind |-> "wallet",   amount |-> 2],
             [label |-> "Staking",           kind |-> "contract", amount |-> 4],
             [label |-> "StabilisationFund", kind |-> "contract", amount |-> 3] >>
MCAddress   == {founders, presale, impostor, multisig, eoa, fund, staking, tge}
MCContracts == MCAddress \ {eoa}
MCVaults == [v \in {founders, presale, impostor} |->
    [row |-> IF v = presale THEN "Presale" ELSE "Founders", payee |-> IF v = impostor THEN "other" ELSE "named"]]

Right == [l \in Labels |-> CASE l = "Founders" -> founders [] l = "Presale" -> presale
                             [] l = "LiquidityPool" -> multisig [] l = "Staking" -> staking
                             [] l = "StabilisationFund" -> fund]
Env(dest)  == [dest |-> dest, roles |-> "live"]
MCEnvFiles ==
    { Env(Right),
      Env([Right EXCEPT !["Founders"] = presale, !["Presale"] = founders]),
      Env([Right EXCEPT !["Founders"] = impostor]),
      Env([Right EXCEPT !["LiquidityPool"] = Unset]),
      Env([Right EXCEPT !["StabilisationFund"] = staking]),
      [Env(Right) EXCEPT !.roles = "other"] }
Manifest(n, dest, pinned) == [network |-> n, dest |-> dest, amount |-> Amount, pinned |-> pinned]
MCManifests ==
    { Manifest("real", Right, TRUE),
      Manifest("real", [Right EXCEPT !["Founders"] = impostor], TRUE),
      Manifest("testnet", Right, FALSE),
      Manifest("testnet", [Right EXCEPT !["LiquidityPool"] = eoa], FALSE),
      Manifest("testnet", [Right EXCEPT !["StabilisationFund"] = staking], TRUE) }
ASSUME ManifestsAssumption == DistributorUnpaid
=============================================================================

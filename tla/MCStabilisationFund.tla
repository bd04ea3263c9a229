------------------------ MODULE MCStabilisationFund ------------------------
(***************************************************************************)
(* StabilisationFund on small instances.                                    *)
(***************************************************************************)
EXTENDS StabilisationFund, TLC
CONSTANTS alice, bob, pool
UserSymmetry == Permutations(Users)
=============================================================================

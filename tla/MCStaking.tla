------------------------------ MODULE MCStaking ------------------------------
(***************************************************************************)
(* Staking on small instances.  The amounts, weights and rates divide       *)
(* exactly, so that what is earned is shared without rounding.              *)
(***************************************************************************)
EXTENDS Staking, TLC
CONSTANTS alice, bob

\* A short lock at 1.00x and a long one at 2.00x.
ShortAndLong == 1 :> 100 @@ 2 :> 200
ShortAndLonger == 2 :> 100 @@ 3 :> 200
UserSymmetry == Permutations(Users)
=============================================================================

---------------------------- MODULE SupplyLedger ----------------------------
(***************************************************************************)
(* What the SRX bridge promises, seen from Ethereum: the whole supply is    *)
(* minted once, and from then on every unit is at home, abroad on exactly   *)
(* one remote chain, or burned.  Units leave for a chain and come back from *)
(* that chain; nothing else changes the supply, and nothing comes back that *)
(* did not leave.  Bridge.tla implements this specification.                *)
(***************************************************************************)
EXTENDS Totals

CONSTANTS
    Spokes,         \* the remote chains
    MAX_SUPPLY      \* the supply minted at genesis

VARIABLES
    home,           \* units in circulation on Ethereum
    abroad,         \* abroad[s]: units that left for chain s and did not return
    burned          \* units burned on Ethereum

ledgerVars == <<home, abroad, burned>>

Init ==
    /\ home = 0
    /\ abroad = [s \in Spokes |-> 0]
    /\ burned = 0

\* The one mint: only while no unit exists anywhere.
Genesis ==
    /\ home = 0 /\ burned = 0 /\ \A s \in Spokes : abroad[s] = 0
    /\ home' = MAX_SUPPLY
    /\ UNCHANGED <<abroad, burned>>

Depart(s, n) ==
    /\ n <= home
    /\ home' = home - n
    /\ abroad' = Plus(abroad, s, n)
    /\ UNCHANGED burned

Return(s, n) ==
    /\ n <= abroad[s]
    /\ home' = home + n
    /\ abroad' = Minus(abroad, s, n)
    /\ UNCHANGED burned

Burn(n) ==
    /\ n <= home
    /\ home' = home - n
    /\ burned' = burned + n
    /\ UNCHANGED abroad

Next ==
    \/ Genesis
    \/ \E n \in 0..MAX_SUPPLY :
        \/ Burn(n)
        \/ \E s \in Spokes : Depart(s, n) \/ Return(s, n)

Spec == Init /\ [][Next]_ledgerVars
=============================================================================

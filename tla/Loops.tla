------------------------------- MODULE Loops -------------------------------
(***************************************************************************)
(* The loops of the scripts that skip some of their steps: the vaults whose *)
(* clock runs, the roles that are already in place.                        *)
(***************************************************************************)
EXTENDS Integers, Sequences

\* The entries s[i] with keep[i], in order.
Picked(s, keep) ==
    LET upTo[i \in 0..Len(s)] ==
            IF i = 0 THEN <<>> ELSE IF keep[i] THEN Append(upTo[i - 1], s[i]) ELSE upTo[i - 1]
    IN upTo[Len(s)]
=============================================================================

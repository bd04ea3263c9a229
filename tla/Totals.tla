------------------------------- MODULE Totals -------------------------------
(***************************************************************************)
(* Sums of natural-number ledgers, counted unit by unit: Total(f) is the    *)
(* number of pairs <<x, i>> with i one of the f[x] units that x holds.  The *)
(* definition needs no recursion, so facts about it follow from those on    *)
(* the cardinality of finite sets (module CommonProofs).                    *)
(***************************************************************************)
EXTENDS Integers, FiniteSets

\* The units that x holds when it holds n of them.
UnitsOf(x, n) == {x} \X (1..n)

\* The units of a whole ledger.
Units(f) == UNION {UnitsOf(x, f[x]) : x \in DOMAIN f}

\* The sum of f[x] over the domain of f.
Total(f) == Cardinality(Units(f))

\* The ledger f after n units are added to, or taken from, the entry of x.
Plus(f, x, n)  == [f EXCEPT ![x] = f[x] + n]
Minus(f, x, n) == [f EXCEPT ![x] = f[x] - n]
=============================================================================

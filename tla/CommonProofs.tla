---------------------------- MODULE CommonProofs ----------------------------
(***************************************************************************)
(* The lemmas that the proofs of several components rest on: how the sum   *)
(* of a ledger changes when one entry changes, and how entries bound it    *)
(* (Totals); which calls a script keeps when it leaves out what is done    *)
(* (Loops); and what the operators of RewardStream do to the tokens that a *)
(* stream holds, to what its users have earned and to how much of it is    *)
(* funded, for every set of users and every precision, rounding included.  *)
(***************************************************************************)
EXTENDS Totals, Loops, RewardStream, FiniteSetTheorems, WellFoundedInduction, TLAPS

-----------------------------------------------------------------------------
(***************************************************************************)
(* Totals.                                                                 *)
(***************************************************************************)
(***************************************************************************)
(* A holder of n units has n units.                                        *)
(***************************************************************************)
LEMMA UnitsOfCount ==
  ASSUME NEW x, NEW n \in Nat
  PROVE  /\ IsFiniteSet(UnitsOf(x, n))
         /\ Cardinality(UnitsOf(x, n)) = n
<1>1. IsFiniteSet({x}) /\ Cardinality({x}) = 1
  BY FS_Singleton
<1>2. IsFiniteSet(1..n) /\ Cardinality(1..n) = n
  BY FS_Interval
<1>3. /\ IsFiniteSet({x} \X (1..n))
      /\ Cardinality({x} \X (1..n)) = Cardinality({x}) * Cardinality(1..n)
  BY <1>1, <1>2, FS_Product
<1> QED BY <1>1, <1>2, <1>3 DEF UnitsOf

(***************************************************************************)
(* A ledger over a finite set has finitely many units.                     *)
(***************************************************************************)
LEMMA UnitsFinite ==
  ASSUME NEW S, IsFiniteSet(S), NEW f \in [S -> Nat]
  PROVE  IsFiniteSet(Units(f))
<1> DEFINE F == {UnitsOf(x, f[x]) : x \in S}
           u == [x \in S |-> UnitsOf(x, f[x])]
<1>1. IsFiniteSet(F)
  <2>1. u \in Surjection(S, F)
    BY DEF Surjection
  <2> QED BY <2>1, FS_Surjection
<1>2. \A T \in F : IsFiniteSet(T)
  BY UnitsOfCount
<1>3. Units(f) = UNION F
  BY DEF Units
<1> QED BY <1>1, <1>2, <1>3, FS_UNION

(***************************************************************************)
(* The sum of a ledger is a natural number.                                *)
(***************************************************************************)
LEMMA TotalType ==
  ASSUME NEW S, IsFiniteSet(S), NEW f \in [S -> Nat]
  PROVE  Total(f) \in Nat
BY UnitsFinite, FS_CardinalityType DEF Total

(***************************************************************************)
(* Adding a holder to a ledger adds what the holder holds.                 *)
(***************************************************************************)
LEMMA TotalExtend ==
  ASSUME NEW S, IsFiniteSet(S), NEW x, x \notin S,
         NEW f \in [S -> Nat], NEW g \in [S \cup {x} -> Nat],
         \A y \in S : g[y] = f[y]
  PROVE  Total(g) = Total(f) + g[x]
<1>1. Units(g) = Units(f) \cup UnitsOf(x, g[x])
  BY DEF Units
<1>2. Units(f) \cap UnitsOf(x, g[x]) = {}
  BY DEF Units, UnitsOf
<1>3. IsFiniteSet(Units(f)) /\ Cardinality(Units(f)) \in Nat
  BY UnitsFinite, FS_CardinalityType
<1>4. g[x] \in Nat
  OBVIOUS
<1>5. IsFiniteSet(UnitsOf(x, g[x])) /\ Cardinality(UnitsOf(x, g[x])) = g[x]
  BY <1>4, UnitsOfCount
<1>6. Cardinality(Units(f) \cup UnitsOf(x, g[x]))
        = Cardinality(Units(f)) + Cardinality(UnitsOf(x, g[x]))
            - Cardinality(Units(f) \cap UnitsOf(x, g[x]))
  BY <1>3, <1>5, FS_Union
<1>7. Cardinality(Units(f) \cap UnitsOf(x, g[x])) = 0
  BY <1>2, FS_EmptySet
<1> QED BY <1>1, <1>3, <1>4, <1>5, <1>6, <1>7 DEF Total

(***************************************************************************)
(* Changing one entry changes the sum by the same difference.              *)
(***************************************************************************)
LEMMA TotalChange ==
  ASSUME NEW S, IsFiniteSet(S), NEW x \in S,
         NEW f \in [S -> Nat], NEW g \in [S -> Nat],
         \A y \in S \ {x} : g[y] = f[y]
  PROVE  Total(g) = Total(f) - f[x] + g[x]
<1> DEFINE R == S \ {x}
           h == [y \in R |-> f[y]]
<1>1. IsFiniteSet(R) /\ S = R \cup {x} /\ x \notin R
  BY FS_RemoveElement
<1>2. h \in [R -> Nat]
  OBVIOUS
<1>3. Total(h) \in Nat
  BY <1>1, <1>2, TotalType
<1>4. Total(f) = Total(h) + f[x]
  BY <1>1, <1>2, TotalExtend
<1>5. Total(g) = Total(h) + g[x]
  BY <1>1, <1>2, TotalExtend
<1> QED BY <1>3, <1>4, <1>5

(***************************************************************************)
(* Removing a holder from a ledger removes what it held.                   *)
(***************************************************************************)
LEMMA TotalShrink ==
  ASSUME NEW S, IsFiniteSet(S), NEW x \in S,
         NEW f \in [S -> Nat], NEW g \in [S \ {x} -> Nat],
         \A y \in S \ {x} : g[y] = f[y]
  PROVE  Total(g) = Total(f) - f[x]
<1>1. IsFiniteSet(S \ {x}) /\ S = (S \ {x}) \cup {x} /\ x \notin S \ {x}
  BY FS_RemoveElement
<1>2. Total(g) \in Nat
  BY <1>1, TotalType
<1>3. Total(f) = Total(g) + f[x]
  BY <1>1, TotalExtend
<1> QED BY <1>2, <1>3

(***************************************************************************)
(* No entry exceeds the sum.                                               *)
(***************************************************************************)
LEMMA TotalBound ==
  ASSUME NEW S, IsFiniteSet(S), NEW x \in S, NEW f \in [S -> Nat]
  PROVE  f[x] <= Total(f)
<1> DEFINE h == [y \in S \ {x} |-> f[y]]
<1>1. IsFiniteSet(S \ {x})
  BY FS_RemoveElement
<1>2. h \in [S \ {x} -> Nat]
  OBVIOUS
<1>3. Total(h) = Total(f) - f[x]
  BY <1>2, TotalShrink
<1>4. Total(h) \in Nat /\ Total(f) \in Nat
  BY <1>1, <1>2, TotalType
<1> QED BY <1>3, <1>4

(***************************************************************************)
(* A ledger of zeros, in particular an empty one, sums to zero.            *)
(***************************************************************************)
LEMMA TotalZero ==
  ASSUME NEW f, \A x \in DOMAIN f : f[x] = 0
  PROVE  Total(f) = 0
<1>1. \A x \in DOMAIN f : UnitsOf(x, f[x]) = {}
  BY DEF UnitsOf
<1>2. Units(f) = {}
  BY <1>1 DEF Units
<1> QED BY <1>2, FS_EmptySet DEF Total

(***************************************************************************)
(* A ledger that is smaller entry by entry, on fewer holders, has the       *)
(* smaller sum.                                                            *)
(***************************************************************************)
LEMMA TotalMonotone ==
  ASSUME NEW T, IsFiniteSet(T), NEW S \in SUBSET T,
         NEW f \in [S -> Nat], NEW g \in [T -> Nat],
         \A x \in S : f[x] <= g[x]
  PROVE  Total(f) <= Total(g)
<1>1. \A x \in S : f[x] \in Nat /\ g[x] \in Nat
  OBVIOUS
<1>2. \A x \in S : UnitsOf(x, f[x]) \subseteq UnitsOf(x, g[x])
  <2>1. \A x \in S : 1..f[x] \subseteq 1..g[x]
    BY <1>1
  <2> QED BY <2>1 DEF UnitsOf
<1>3. Units(f) \in SUBSET Units(g)
  BY <1>2 DEF Units
<1>4. IsFiniteSet(Units(g))
  BY UnitsFinite
<1> QED BY <1>3, <1>4, FS_Subset DEF Total

-----------------------------------------------------------------------------
(***************************************************************************)
(* Steps from 0 to n, and functions defined step by step.                  *)
(***************************************************************************)
\* What holds at 0 and carries over each step holds up to n.
LEMMA Steps ==
  ASSUME NEW n \in Nat, NEW T, 0 \in T, \A i \in 1..n : i - 1 \in T => i \in T
  PROVE  0..n \subseteq T
<1> DEFINE Missing == {i \in 0..n : i \notin T}
<1> SUFFICES ASSUME Missing # {} PROVE FALSE
  OBVIOUS
<1>1. PICK x \in Missing : \A y \in Missing : <<y, x>> \notin OpToRel(<, Nat)
  <2>1. Missing \subseteq Nat
    OBVIOUS
  <2> HIDE DEF Missing
  <2> QED BY <2>1, NatLessThanWellFounded, WFMin
<1>2. x \in Nat /\ x # 0 /\ x <= n /\ x - 1 \in 0..n /\ x \in 1..n /\ x - 1 \in Nat
  OBVIOUS
<1>3. x - 1 \in Missing
  BY <1>2
<1>4. <<x - 1, x>> \in {ss \in Nat \X Nat : ss[1] < ss[2]}
  <2> DEFINE p == <<x - 1, x>>
  <2>1. p \in Nat \X Nat /\ p[1] = x - 1 /\ p[2] = x
    BY <1>2
  <2>2. p[1] < p[2]
    BY <1>2, <2>1
  <2> HIDE DEF p
  <2>3. p \in {ss \in Nat \X Nat : ss[1] < ss[2]}
    BY <2>1, <2>2
  <2> QED BY <2>3 DEF p
<1> QED BY <1>1, <1>3, <1>4 DEF OpToRel

\* f starts at a and takes n of the steps.
Stepwise(f, n, S, a, step) ==
    f \in [0..n -> S] /\ f[0] = a /\ \A i \in 1..n : f[i] = step[i][f[i - 1]]

\* A function can be defined step by step.
LEMMA StepwiseFunction ==
  ASSUME NEW n \in Nat, NEW S, NEW a \in S, NEW step \in [1..n -> [S -> S]]
  PROVE  \E f : Stepwise(f, n, S, a, step)
<1> DEFINE Upto(m) == \E f \in [0..m -> S] : f[0] = a /\ \A i \in 1..m : f[i] = step[i][f[i - 1]]
           T == {m \in 0..n : Upto(m)}
<1>1. 0 \in T
  <2> DEFINE f == [i \in 0..0 |-> a]
  <2>1. f \in [0..0 -> S] /\ f[0] = a /\ 1..0 = {}
    OBVIOUS
  <2> HIDE DEF f
  <2>2. Upto(0)
    BY <2>1
  <2> QED BY <2>2
<1>2. ASSUME NEW m \in 1..n, m - 1 \in T PROVE m \in T
  <2>1. PICK f \in [0..(m - 1) -> S] : f[0] = a /\ \A i \in 1..(m - 1) : f[i] = step[i][f[i - 1]]
    BY <1>2
  <2> DEFINE g == [i \in 0..m |-> IF i = m THEN step[m][f[m - 1]] ELSE f[i]]
  <2>2. m - 1 \in 0..(m - 1) /\ f[m - 1] \in S /\ step[m] \in [S -> S]
    OBVIOUS
  <2>3. step[m][f[m - 1]] \in S
    BY <2>2
  <2>4. g \in [0..m -> S]
    BY <2>3
  <2>5. \A i \in 0..(m - 1) : g[i] = f[i]
    OBVIOUS
  <2>6. g[m] = step[m][f[m - 1]]
    OBVIOUS
  <2> HIDE DEF g
  <2>7. g[0] = a
    BY <2>1, <2>5
  <2>8. ASSUME NEW i \in 1..m PROVE g[i] = step[i][g[i - 1]]
    <3>1. CASE i = m
      BY <2>2, <2>5, <2>6, <3>1
    <3>2. CASE i # m
      <4>1. i \in 1..(m - 1) /\ i \in 0..(m - 1) /\ i - 1 \in 0..(m - 1)
        BY <3>2
      <4> QED BY <2>1, <2>5, <4>1
    <3> QED BY <3>1, <3>2
  <2>9. Upto(m)
    BY <2>4, <2>7, <2>8
  <2> HIDE DEF Upto
  <2>10. m \in 0..n
    OBVIOUS
  <2> QED BY <2>9, <2>10
<1> HIDE DEF Upto
<1>3. 0..n \subseteq T
  <2> HIDE DEF T
  <2> QED BY <1>1, <1>2, Steps
<1>4. Upto(n)
  BY <1>3
<1> QED BY <1>4 DEF Upto, Stepwise

\* q has the entries s[i] with keep[i], q[k] the one at at[k], in their order.
Picks(q, s, keep, at) ==
    /\ at \in [1..Len(q) -> 1..Len(s)]
    /\ \A k \in 1..Len(q) : keep[at[k]] /\ q[k] = s[at[k]]
    /\ \A k, m \in 1..Len(q) : k < m => at[k] < at[m]
    /\ \A i \in 1..Len(s) : keep[i] => \E k \in 1..Len(q) : at[k] = i

\* What is picked are the entries to keep, all of them and in their order.
LEMMA PickedEntries ==
  ASSUME NEW S, NEW s \in Seq(S), NEW keep \in [1..Len(s) -> BOOLEAN]
  PROVE  Picked(s, keep) \in Seq(S) /\ \E at : Picks(Picked(s, keep), s, keep, at)
<1> DEFINE n == Len(s)
           F(f) == [i \in 0..n |->
                       IF i = 0 THEN <<>> ELSE IF keep[i] THEN Append(f[i - 1], s[i]) ELSE f[i - 1]]
           upTo == CHOOSE f : f = F(f)
           step == [i \in 1..n |-> [q \in Seq(S) |-> IF keep[i] THEN Append(q, s[i]) ELSE q]]
<1>1. Picked(s, keep) = upTo[n]
  BY DEF Picked
<1>2. n \in Nat /\ \A i \in 1..n : s[i] \in S /\ keep[i] \in BOOLEAN
  OBVIOUS
<1>3. step \in [1..n -> [Seq(S) -> Seq(S)]] /\ <<>> \in Seq(S)
  BY <1>2
<1>4. PICK f \in [0..n -> Seq(S)] : f[0] = <<>> /\ \A i \in 1..n : f[i] = step[i][f[i - 1]]
  <2> DEFINE Q == Seq(S)
             empty == <<>>
  <2>1. n \in Nat /\ empty \in Q /\ step \in [1..n -> [Q -> Q]]
    BY <1>2, <1>3
  <2> HIDE DEF step, n, Q, empty
  <2>2. \E f : Stepwise(f, n, Q, empty, step)
    BY <2>1, StepwiseFunction
  <2> QED BY <2>2 DEF Q, empty, Stepwise
<1>5. f = F(f)
  <2>1. ASSUME NEW i \in 0..n PROVE f[i] = F(f)[i]
    <3>1. CASE i = 0
      BY <1>4, <3>1
    <3>2. CASE i # 0
      <4>1. i \in 1..n /\ i - 1 \in 0..n
        BY <1>2, <3>2
      <4>2. f[i] = IF keep[i] THEN Append(f[i - 1], s[i]) ELSE f[i - 1]
        BY <1>4, <4>1
      <4> QED BY <3>2, <4>2
    <3> QED BY <3>1, <3>2
  <2> QED BY <2>1
<1>6. upTo = F(upTo)
  <2> HIDE DEF F
  <2> QED BY <1>5
<1> HIDE DEF upTo
<1>7. upTo[0] = <<>> /\ \A i \in 1..n : upTo[i] = IF keep[i] THEN Append(upTo[i - 1], s[i]) ELSE upTo[i - 1]
  <2> HIDE DEF n
  <2>1. 0 \in 0..n /\ \A i \in 1..n : i \in 0..n /\ i # 0
    BY <1>2
  <2> QED BY <1>6, <2>1
<1> DEFINE Some(q, i, at) ==
               /\ at \in [1..Len(q) -> 1..i]
               /\ \A k \in 1..Len(q) : keep[at[k]] /\ q[k] = s[at[k]]
               /\ \A k, m \in 1..Len(q) : k < m => at[k] < at[m]
               /\ \A j \in 1..i : keep[j] => \E k \in 1..Len(q) : at[k] = j
           Fine(q, i) == q \in Seq(S) /\ \E at : Some(q, i, at)
           T == {i \in 0..n : Fine(upTo[i], i)}
<1>8. 0 \in T
  <2> HIDE DEF n
  <2> DEFINE q == upTo[0]
             at == [k \in 1..0 |-> k]
  <2>1. Len(q) = 0 /\ q \in Seq(S) /\ 0 \in 0..n
    BY <1>2, <1>7
  <2>2. at \in [1..0 -> 1..0]
    OBVIOUS
  <2> HIDE DEF q, at
  <2>3. Some(q, 0, at)
    BY <2>1, <2>2
  <2> HIDE DEF Some
  <2>4. Fine(q, 0)
    BY <2>1, <2>3
  <2> HIDE DEF Fine
  <2> QED BY <2>1, <2>4 DEF q
<1>9. ASSUME NEW i \in 1..n, i - 1 \in T PROVE i \in T
  <2> DEFINE q == upTo[i - 1]
             r == upTo[i]
  <2>1. /\ i \in Nat /\ i - 1 \in Nat /\ i \in 0..n /\ i <= n /\ i >= 1 /\ s[i] \in S /\ keep[i] \in BOOLEAN
        /\ r = IF keep[i] THEN Append(q, s[i]) ELSE q
    BY <1>2, <1>7
  <2>2. Fine(q, i - 1)
    <3> HIDE DEF Fine, q
    <3> QED BY <1>9 DEF q
  <2> HIDE DEF q, r
  <2>3. q \in Seq(S)
    BY <2>2
  <2>4. PICK at : Some(q, i - 1, at)
    <3> HIDE DEF Some
    <3> QED BY <2>2
  <2> DEFINE l == Len(q)
  <2>5. /\ l \in Nat /\ at \in [1..l -> 1..(i - 1)]
        /\ \A k \in 1..l : keep[at[k]] /\ q[k] = s[at[k]]
        /\ \A k, m \in 1..l : k < m => at[k] < at[m]
        /\ \A j \in 1..(i - 1) : keep[j] => \E k \in 1..l : at[k] = j
    BY <2>3, <2>4
  <2>6. CASE keep[i]
    <3> DEFINE to == [k \in 1..(l + 1) |-> IF k = l + 1 THEN i ELSE at[k]]
    <3>1. r = Append(q, s[i])
      BY <2>1, <2>6
    <3>2. /\ r \in Seq(S) /\ Len(r) = l + 1 /\ r[l + 1] = s[i] /\ \A k \in 1..l : r[k] = q[k]
      BY <2>1, <2>3, <3>1
    <3> HIDE DEF l
    <3>3. to \in [1..(l + 1) -> 1..i] /\ to[l + 1] = i /\ \A k \in 1..l : to[k] = at[k]
      BY <2>1, <2>5
    <3> HIDE DEF to
    <3>4. ASSUME NEW k \in 1..(l + 1) PROVE keep[to[k]] /\ r[k] = s[to[k]]
      BY <2>5, <2>6, <3>2, <3>3
    <3>5. ASSUME NEW k \in 1..(l + 1), NEW m \in 1..(l + 1), k < m PROVE to[k] < to[m]
      <4>1. k \in 1..l /\ to[k] = at[k] /\ at[k] \in 1..(i - 1)
        BY <2>5, <3>3, <3>5
      <4>2. CASE m = l + 1
        BY <2>1, <3>3, <4>1, <4>2
      <4>3. CASE m # l + 1
        BY <2>5, <3>3, <3>5, <4>1, <4>3
      <4> QED BY <4>2, <4>3
    <3>6. ASSUME NEW j \in 1..i, keep[j] PROVE \E k \in 1..(l + 1) : to[k] = j
      <4>1. CASE j = i
        BY <2>5, <3>3, <4>1
      <4>2. CASE j # i
        <5>1. j \in 1..(i - 1)
          BY <2>1, <4>2
        <5>2. PICK k \in 1..l : at[k] = j
          BY <2>5, <3>6, <5>1
        <5> QED BY <2>5, <3>3, <5>2
      <4> QED BY <4>1, <4>2
    <3>7. Some(r, i, to)
      BY <3>2, <3>3, <3>4, <3>5, <3>6
    <3> HIDE DEF Some
    <3>8. Fine(r, i)
      BY <3>2, <3>7
    <3> HIDE DEF Fine
    <3> QED BY <2>1, <3>8 DEF r
  <2>7. CASE ~keep[i]
    <3>1. r = q
      BY <2>1, <2>7
    <3>2. at \in [1..l -> 1..i]
      BY <2>1, <2>5
    <3>3. ASSUME NEW j \in 1..i, keep[j] PROVE \E k \in 1..l : at[k] = j
      <4>1. j \in 1..(i - 1)
        BY <2>1, <2>7, <3>3
      <4> QED BY <2>5, <3>3, <4>1
    <3>4. Some(r, i, at)
      BY <2>5, <3>1, <3>2, <3>3
    <3> HIDE DEF Some
    <3>5. Fine(r, i)
      BY <2>3, <3>1, <3>4
    <3> HIDE DEF Fine
    <3> QED BY <2>1, <3>5 DEF r
  <2> QED BY <2>6, <2>7
<1>10. n \in T
  <2>1. 0..n \subseteq T
    <3> HIDE DEF T, n
    <3> QED BY <1>2, <1>8, <1>9, Steps
  <2>2. n \in 0..n
    BY <1>2
  <2> HIDE DEF T, n
  <2> QED BY <2>1, <2>2
<1>11. Fine(upTo[n], n)
  <2> HIDE DEF Fine
  <2> QED BY <1>10
<1>12. upTo[n] \in Seq(S) /\ \E at : Some(upTo[n], n, at)
  <2> HIDE DEF Some
  <2> QED BY <1>11
<1>13. ASSUME NEW at, Some(upTo[n], n, at) PROVE Picks(upTo[n], s, keep, at)
  BY <1>13 DEF Picks
<1> HIDE DEF Some
<1> QED BY <1>1, <1>12, <1>13

-----------------------------------------------------------------------------
(***************************************************************************)
(* The reward stream.                                                      *)
(***************************************************************************)
\* The streams that a contract can hold; amounts are integers, so that no
\* claim about rounding is made here.
Streams ==
    [rate : Nat, stored : Int, last : Int, pool : Int, finish : Int, owed : Int,
     paid : [Users -> Int], pending : [Users -> Int]]

\* The fields of a stream have their types.
LEMMA StreamFields ==
  ASSUME NEW s \in Streams
  PROVE  /\ s.rate \in Nat /\ s.stored \in Int /\ s.last \in Int /\ s.pool \in Int
         /\ s.finish \in Int /\ s.owed \in Int
         /\ s.paid \in [Users -> Int] /\ s.pending \in [Users -> Int]
BY DEF Streams

\* A new stream holds nothing.
LEMMA NewStreamType ==
  ASSUME NEW t \in Int
  PROVE  NewStream(t) \in Streams /\ NewStream(t).pool = 0
BY DEF NewStream, Streams

\* The accumulator is an integer.
LEMMA RewardPerTokenType ==
  ASSUME NEW s \in Streams, NEW weight \in Int, NEW minimum \in Nat, NEW now \in Int
  PROVE  RewardPerToken(s, weight, minimum, now) \in Int
<1>1. s.rate \in Int /\ s.stored \in Int /\ s.last \in Int /\ s.finish \in Int
  BY StreamFields
<1>2. LastTimeRewardApplicable(s, now) \in Int
  BY <1>1 DEF LastTimeRewardApplicable
<1>3. Elapsed(s, now) \in Int
  BY <1>1, <1>2 DEF Elapsed
<1> DEFINE emitted == s.rate * Elapsed(s, now) * PRECISION
<1>4. emitted \in Int
  BY <1>1, <1>3, PrecisionAssumption
<1> HIDE DEF emitted
<1>5. CASE weight = 0 \/ weight < minimum
  BY <1>1, <1>5 DEF RewardPerToken
<1>6. CASE ~(weight = 0 \/ weight < minimum)
  <2> weight \in Nat \ {0}
    BY <1>6
  <2>1. emitted \div weight \in Int
    BY <1>4, <1>6
  <2> QED BY <1>1, <2>1 DEF RewardPerToken, emitted
<1> QED BY <1>5, <1>6

\* Quotients by the precision are integers.
LEMMA PrecisionQuotient == ASSUME NEW x \in Int PROVE x \div PRECISION \in Int
BY PrecisionAssumption

\* Bringing the accumulator up to date moves no tokens.
LEMMA UpdateAllKeepsPool ==
  ASSUME NEW s \in Streams, NEW weight \in Int, NEW minimum \in Nat, NEW now \in Int
  PROVE  /\ UpdateAll(s, weight, minimum, now) \in Streams
         /\ UpdateAll(s, weight, minimum, now).pool = s.pool
<1> DEFINE perToken == RewardPerToken(s, weight, minimum, now)
           latest == LastTimeRewardApplicable(s, now)
           newOwed == s.owed + (weight * (perToken - s.stored)) \div PRECISION
<1>1. s.stored \in Int /\ s.owed \in Int /\ s.finish \in Int
  BY StreamFields
<1>2. perToken \in Int
  BY RewardPerTokenType
<1>3. latest \in Int
  BY <1>1 DEF LastTimeRewardApplicable
<1>4. weight * (perToken - s.stored) \in Int
  BY <1>1, <1>2
<1>5. newOwed \in Int
  BY <1>1, <1>4, PrecisionQuotient
<1>6. UpdateAll(s, weight, minimum, now)
        = [s EXCEPT !.stored = perToken, !.last = latest, !.owed = newOwed]
  BY DEF UpdateAll
<1> HIDE DEF perToken, latest, newOwed
<1>7. /\ [s EXCEPT !.stored = perToken, !.last = latest, !.owed = newOwed] \in Streams
      /\ [s EXCEPT !.stored = perToken, !.last = latest, !.owed = newOwed].pool = s.pool
  BY <1>2, <1>3, <1>5 DEF Streams
<1> QED BY <1>6, <1>7

\* Banking what a user earned moves no tokens.
LEMMA UpdateRewardKeepsPool ==
  ASSUME NEW s \in Streams, NEW u \in Users, NEW part \in Int, NEW weight \in Int,
         NEW minimum \in Nat, NEW now \in Int
  PROVE  /\ UpdateReward(s, u, part, weight, minimum, now) \in Streams
         /\ UpdateReward(s, u, part, weight, minimum, now).pool = s.pool
<1> DEFINE t == UpdateAll(s, weight, minimum, now)
           perToken == RewardPerToken(s, weight, minimum, now)
           earned == Earned(s, u, part, weight, minimum, now)
<1>1. t \in Streams /\ t.pool = s.pool
  BY UpdateAllKeepsPool
<1>2. perToken \in Int
  BY RewardPerTokenType
<1>3. s.paid[u] \in Int /\ s.pending[u] \in Int
  BY StreamFields
<1>4. part * (perToken - s.paid[u]) \in Int
  BY <1>2, <1>3
<1>5. earned \in Int
  BY <1>3, <1>4, PrecisionQuotient DEF Earned
<1>6. UpdateReward(s, u, part, weight, minimum, now)
        = [t EXCEPT !.pending = [t.pending EXCEPT ![u] = earned],
                    !.paid = [t.paid EXCEPT ![u] = perToken]]
  <2>1. UpdateReward(s, u, part, weight, minimum, now)
          = [t EXCEPT !.pending[u] = earned, !.paid[u] = perToken]
    BY DEF UpdateReward
  <2> HIDE DEF t, earned, perToken
  <2> QED BY <1>1, <2>1 DEF Streams
<1> HIDE DEF t, earned, perToken
<1>7. /\ [t.pending EXCEPT ![u] = earned] \in [Users -> Int]
      /\ [t.paid EXCEPT ![u] = perToken] \in [Users -> Int]
  BY <1>1, <1>2, <1>5, StreamFields
<1> DEFINE f == [t.pending EXCEPT ![u] = earned]
           g == [t.paid EXCEPT ![u] = perToken]
<1> HIDE DEF f, g
<1>8. /\ [t EXCEPT !.pending = f, !.paid = g] \in Streams
      /\ [t EXCEPT !.pending = f, !.paid = g].pool = t.pool
  <2>1. f \in [Users -> Int] /\ g \in [Users -> Int]
    BY <1>7 DEF f, g
  <2> QED BY <1>1, <2>1 DEF Streams
<1> QED BY <1>1, <1>6, <1>8 DEF f, g

\* A new schedule moves no tokens.
LEMMA RecomputeKeepsPool ==
  ASSUME NEW s \in Streams, NEW now \in Int
  PROVE  /\ RecomputePeriodFinish(s, now) \in Streams
         /\ RecomputePeriodFinish(s, now).pool = s.pool
<1> DEFINE unaccrued == IF s.pool > s.owed THEN s.pool - s.owed ELSE 0
           finish == IF s.rate = 0 THEN now ELSE now + unaccrued \div s.rate
<1>1. s.rate \in Nat /\ s.pool \in Int /\ s.owed \in Int
  BY StreamFields
<1>2. unaccrued \in Int
  BY <1>1
<1> HIDE DEF unaccrued
<1>3. s.rate # 0 => unaccrued \div s.rate \in Int
  BY <1>1, <1>2
<1>4. finish \in Int
  BY <1>1, <1>3
<1>5. RecomputePeriodFinish(s, now) = [s EXCEPT !.last = now, !.finish = finish]
  BY DEF RecomputePeriodFinish, unaccrued
<1> HIDE DEF finish
<1>6. /\ [s EXCEPT !.last = now, !.finish = finish] \in Streams
      /\ [s EXCEPT !.last = now, !.finish = finish].pool = s.pool
  BY <1>4 DEF Streams
<1> QED BY <1>5, <1>6

\* Settling takes exactly the settlement out of the pool, and no more than it holds.
LEMMA SettleTakesSettlement ==
  ASSUME NEW s \in Streams, NEW u \in Users
  PROVE  /\ SettleRewards(s, u) \in Streams
         /\ Settlement(s, u) \in Int
         /\ Settlement(s, u) <= s.pool
         /\ SettleRewards(s, u).pool = s.pool - Settlement(s, u)
<1> DEFINE reward == Settlement(s, u)
           newOwed == IF s.owed > reward THEN s.owed - reward ELSE 0
           newPending == [s.pending EXCEPT ![u] = s.pending[u] - reward]
<1>1. s.owed \in Int /\ s.pool \in Int /\ s.pending \in [Users -> Int] /\ s.pending[u] \in Int
  BY StreamFields
<1>2. reward \in Int /\ reward <= s.pool
  BY <1>1 DEF Settlement
<1>3. SettleRewards(s, u) = [s EXCEPT !.pending = newPending, !.owed = newOwed, !.pool = s.pool - reward]
  BY DEF SettleRewards, Streams
<1> HIDE DEF reward
<1>4. newPending \in [Users -> Int] /\ newOwed \in Int /\ s.pool - reward \in Int
  BY <1>1, <1>2
<1> DEFINE newPool == s.pool - reward
<1> HIDE DEF newOwed, newPending, newPool
<1>5. /\ SettleRewards(s, u) \in Streams
      /\ SettleRewards(s, u).pool = s.pool - reward
  <2>1. newPool \in Int /\ newPending \in [Users -> Int] /\ newOwed \in Int
    BY <1>4 DEF newPool
  <2>2. /\ [s EXCEPT !.pending = newPending, !.owed = newOwed, !.pool = newPool] \in Streams
        /\ [s EXCEPT !.pending = newPending, !.owed = newOwed, !.pool = newPool].pool = newPool
    BY <2>1 DEF Streams
  <2> QED BY <1>3, <2>2 DEF newPool
<1> QED BY <1>2, <1>5 DEF reward

(***************************************************************************)
(* What a step leaves of what is earned.  A stream that has just been       *)
(* brought up to date accrues nothing more at the same time, so that weight *)
(* may move; amounts are rounded down alike before and after.               *)
(***************************************************************************)
\* Rounding down keeps the order, below zero too.
LEMMA FloorMonotone ==
  ASSUME NEW x \in Int, NEW y \in Int, x <= y, NEW d \in Nat \ {0}
  PROVE  x \div d \in Int /\ y \div d \in Int /\ x \div d <= y \div d
OBVIOUS

\* A larger factor gives a larger product.
LEMMA ScaleMonotone ==
  ASSUME NEW a \in Nat, NEW x \in Int, NEW y \in Int, x <= y
  PROVE  a * x \in Int /\ a * y \in Int /\ a * x <= a * y
<1> DEFINE z == y - x
<1>1. z \in Nat /\ y = x + z
  OBVIOUS
<1> HIDE DEF z
<1>2. a * z \in Nat
  BY <1>1
<1>3. a * y = a * x + a * z
  BY <1>1
<1> QED BY <1>2, <1>3

\* The seconds accrued are never negative, and they grow with the clock.
LEMMA ElapsedGrows ==
  ASSUME NEW s \in Streams, NEW now \in Int
  PROVE  /\ Elapsed(s, now) \in Nat
         /\ Elapsed(s, now + 1) \in Nat
         /\ Elapsed(s, now) <= Elapsed(s, now + 1)
<1>1. s.last \in Int /\ s.finish \in Int
  BY StreamFields
<1> QED BY <1>1 DEF Elapsed, LastTimeRewardApplicable

\* A stream without a second to accrue, or without a rate, has its accumulator
\* up to date, whatever the weight.
LEMMA StoredWhenSettled ==
  ASSUME NEW s \in Streams, NEW weight \in Int, NEW minimum \in Nat, NEW now \in Int,
         Elapsed(s, now) = 0 \/ s.rate = 0
  PROVE  RewardPerToken(s, weight, minimum, now) = s.stored
<1> DEFINE e == Elapsed(s, now)
           r == s.rate
           emitted == r * e * PRECISION
<1>1. r \in Nat /\ e \in Nat /\ (e = 0 \/ r = 0) /\ s.stored \in Int
  BY StreamFields, ElapsedGrows
<1> HIDE DEF e, r
<1>2. emitted = 0
  <2>1. r * e = 0
    BY <1>1
  <2> QED BY <2>1, PrecisionAssumption
<1> HIDE DEF emitted
<1>3. CASE weight = 0 \/ weight < minimum
  BY <1>3 DEF RewardPerToken
<1>4. CASE ~(weight = 0 \/ weight < minimum)
  <2>1. weight \in Nat \ {0}
    BY <1>4
  <2>2. emitted \div weight = 0
    BY <1>2, <2>1
  <2>3. RewardPerToken(s, weight, minimum, now) = s.stored + emitted \div weight
    BY <1>4 DEF RewardPerToken, emitted, e, r
  <2> QED BY <1>1, <2>2, <2>3
<1> QED BY <1>3, <1>4

\* The accumulator grows with the clock.
LEMMA RewardPerTokenGrows ==
  ASSUME NEW s \in Streams, NEW weight \in Int, NEW minimum \in Nat, NEW now \in Int
  PROVE  RewardPerToken(s, weight, minimum, now) <= RewardPerToken(s, weight, minimum, now + 1)
<1> DEFINE e == Elapsed(s, now)
           f == Elapsed(s, now + 1)
           r == s.rate
           x == r * e * PRECISION
           y == r * f * PRECISION
<1>1. r \in Nat /\ e \in Nat /\ f \in Nat /\ e <= f /\ s.stored \in Int
  BY StreamFields, ElapsedGrows
<1> HIDE DEF e, f, r
<1>2. x \in Nat /\ y \in Nat /\ x <= y
  <2> DEFINE a == r * e
             b == r * f
  <2>1. a \in Nat /\ b \in Nat /\ a <= b
    BY <1>1, ScaleMonotone
  <2> HIDE DEF a, b
  <2>2. PRECISION * a <= PRECISION * b
    BY <2>1, ScaleMonotone, PrecisionAssumption
  <2>3. a * PRECISION = PRECISION * a /\ b * PRECISION = PRECISION * b
        /\ a * PRECISION \in Nat /\ b * PRECISION \in Nat
    BY <2>1, PrecisionAssumption
  <2> QED BY <2>2, <2>3 DEF a, b
<1> HIDE DEF x, y
<1>3. CASE weight = 0 \/ weight < minimum
  BY <1>1, <1>3 DEF RewardPerToken
<1>4. CASE ~(weight = 0 \/ weight < minimum)
  <2>1. weight \in Nat \ {0}
    BY <1>4
  <2>2. x \div weight \in Int /\ y \div weight \in Int /\ x \div weight <= y \div weight
    BY <1>2, <2>1, FloorMonotone
  <2>3. /\ RewardPerToken(s, weight, minimum, now) = s.stored + x \div weight
        /\ RewardPerToken(s, weight, minimum, now + 1) = s.stored + y \div weight
    BY <1>4 DEF RewardPerToken, x, y, e, f, r
  <2> QED BY <1>1, <2>2, <2>3
<1> QED BY <1>3, <1>4

\* What a user earned grows with the clock.
LEMMA EarnedGrows ==
  ASSUME NEW s \in Streams, NEW u \in Users, NEW part \in Nat, NEW weight \in Int,
         NEW minimum \in Nat, NEW now \in Int
  PROVE  Earned(s, u, part, weight, minimum, now) <= Earned(s, u, part, weight, minimum, now + 1)
<1> DEFINE x == RewardPerToken(s, weight, minimum, now)
           y == RewardPerToken(s, weight, minimum, now + 1)
           p == s.paid[u]
           q == s.pending[u]
<1>1. x \in Int /\ y \in Int /\ x <= y /\ p \in Int /\ q \in Int
  <2>1. now + 1 \in Int /\ p \in Int /\ q \in Int
    BY StreamFields
  <2>2. x \in Int /\ x <= y
    BY RewardPerTokenType, RewardPerTokenGrows
  <2> DEFINE later == now + 1
  <2>3. RewardPerToken(s, weight, minimum, later) \in Int
    <3> HIDE DEF later
    <3>1. later \in Int
      BY <2>1 DEF later
    <3> QED BY <3>1, RewardPerTokenType
  <2> QED BY <2>1, <2>2, <2>3
<1> HIDE DEF x, y, p, q
<1> DEFINE a == x - p
           b == y - p
<1>2. a \in Int /\ b \in Int /\ a <= b
  BY <1>1
<1> HIDE DEF a, b
<1> DEFINE c == part * a
           d == part * b
<1>3. c \in Int /\ d \in Int /\ c <= d
  BY <1>2, ScaleMonotone
<1> HIDE DEF c, d
<1>4. c \div PRECISION \in Int /\ d \div PRECISION \in Int /\ c \div PRECISION <= d \div PRECISION
  BY <1>3, FloorMonotone, PrecisionAssumption
<1>5. /\ Earned(s, u, part, weight, minimum, now) = c \div PRECISION + q
      /\ Earned(s, u, part, weight, minimum, now + 1) = d \div PRECISION + q
  BY DEF Earned, x, y, p, q, a, b, c, d
<1> QED BY <1>1, <1>4, <1>5

\* What a user earned is an amount.
LEMMA EarnedType ==
  ASSUME NEW s \in Streams, NEW u \in Users, NEW part \in Int, NEW weight \in Int,
         NEW minimum \in Nat, NEW now \in Int
  PROVE  Earned(s, u, part, weight, minimum, now) \in Int
<1> DEFINE x == RewardPerToken(s, weight, minimum, now)
<1>1. x \in Int /\ s.paid[u] \in Int /\ s.pending[u] \in Int
  BY RewardPerTokenType, StreamFields
<1> HIDE DEF x
<1>2. part * (x - s.paid[u]) \in Int
  BY <1>1
<1> QED BY <1>1, <1>2, PrecisionQuotient DEF Earned, x

\* t is s brought up to date at now for a total weight.
UpToDate(s, t, weight, minimum, now) ==
    /\ t \in Streams
    /\ Elapsed(t, now) = 0
    /\ t.stored = RewardPerToken(s, weight, minimum, now)

\* v has the same checkpoint in both streams.
SameCheckpoint(s, t, v) == t.paid[v] = s.paid[v] /\ t.pending[v] = s.pending[v]

\* Whose checkpoint and part stay has earned the same, though the total weight
\* and the minimum have changed.
LEMMA EarnedCarried ==
  ASSUME NEW s \in Streams, NEW t, NEW v \in Users, NEW part \in Int,
         NEW weight \in Int, NEW minimum \in Nat, NEW now \in Int,
         NEW weight2 \in Int, NEW minimum2 \in Nat,
         UpToDate(s, t, weight, minimum, now), SameCheckpoint(s, t, v)
  PROVE  Earned(t, v, part, weight2, minimum2, now) = Earned(s, v, part, weight, minimum, now)
<1>1. RewardPerToken(t, weight2, minimum2, now) = RewardPerToken(s, weight, minimum, now)
  BY StoredWhenSettled DEF UpToDate
<1> QED BY <1>1 DEF Earned, SameCheckpoint

\* Who has just been banked has earned what is pending, whatever part he holds.
LEMMA EarnedBanked ==
  ASSUME NEW t \in Streams, NEW v \in Users, NEW part \in Int,
         NEW weight \in Int, NEW minimum \in Nat, NEW now \in Int,
         Elapsed(t, now) = 0, t.paid[v] = t.stored
  PROVE  Earned(t, v, part, weight, minimum, now) = t.pending[v]
<1> DEFINE x == t.stored
           q == t.pending[v]
<1>1. RewardPerToken(t, weight, minimum, now) = x /\ x \in Int /\ q \in Int
  BY StoredWhenSettled, StreamFields
<1> DEFINE z == part * (x - x)
<1>2. Earned(t, v, part, weight, minimum, now) = z \div PRECISION + q
  BY <1>1 DEF Earned
<1>3. z = 0
  <2> HIDE DEF x
  <2>1. x - x = 0
    BY <1>1
  <2> QED BY <2>1
<1> HIDE DEF z
<1>4. z \div PRECISION = 0
  BY <1>3, PrecisionAssumption
<1> QED BY <1>1, <1>2, <1>4

\* A stream whose clock was set to now accrues nothing more.
LEMMA ElapsedAtLast ==
  ASSUME NEW s \in Streams, NEW now \in Int, s.last = now
  PROVE  Elapsed(s, now) = 0
<1>1. s.finish \in Int
  BY StreamFields
<1> QED BY <1>1 DEF Elapsed, LastTimeRewardApplicable

\* UpdateAll brings a stream up to date and leaves every checkpoint.
LEMMA UpdateAllUpToDate ==
  ASSUME NEW s \in Streams, NEW weight \in Int, NEW minimum \in Nat, NEW now \in Int
  PROVE  /\ UpToDate(s, UpdateAll(s, weight, minimum, now), weight, minimum, now)
         /\ \A v \in Users : SameCheckpoint(s, UpdateAll(s, weight, minimum, now), v)
         /\ UpdateAll(s, weight, minimum, now).rate = s.rate
<1> DEFINE t == UpdateAll(s, weight, minimum, now)
           perToken == RewardPerToken(s, weight, minimum, now)
           latest == LastTimeRewardApplicable(s, now)
           newOwed == s.owed + (weight * (perToken - s.stored)) \div PRECISION
<1>1. t \in Streams
  BY UpdateAllKeepsPool
<1>2. t = [s EXCEPT !.stored = perToken, !.last = latest, !.owed = newOwed]
  BY DEF UpdateAll
<1> HIDE DEF perToken, latest, newOwed, t
<1>3. /\ t.stored = perToken /\ t.last = latest /\ t.finish = s.finish /\ t.rate = s.rate
      /\ t.paid = s.paid /\ t.pending = s.pending
  BY <1>2 DEF Streams
<1>4. LastTimeRewardApplicable(t, now) = latest
  BY <1>3 DEF LastTimeRewardApplicable, latest
<1>5. latest \in Int
  BY <1>1, <1>3, StreamFields
<1>6. Elapsed(t, now) = 0
  BY <1>3, <1>4, <1>5 DEF Elapsed
<1>7. UpToDate(s, t, weight, minimum, now)
  BY <1>1, <1>3, <1>6 DEF UpToDate, perToken
<1>8. \A v \in Users : SameCheckpoint(s, t, v)
  BY <1>3 DEF SameCheckpoint
<1> QED BY <1>3, <1>7, <1>8 DEF t

\* UpdateReward does so too, and banks what one user earned.
LEMMA UpdateRewardBanks ==
  ASSUME NEW s \in Streams, NEW u \in Users, NEW part \in Int, NEW weight \in Int,
         NEW minimum \in Nat, NEW now \in Int,
         NEW t, t = UpdateReward(s, u, part, weight, minimum, now)
  PROVE  /\ UpToDate(s, t, weight, minimum, now)
         /\ t.paid[u] = t.stored
         /\ t.pending[u] = Earned(s, u, part, weight, minimum, now)
         /\ \A v \in Users \ {u} : SameCheckpoint(s, t, v)
         /\ t.pool = s.pool /\ t.rate = s.rate
<1> DEFINE t0 == UpdateAll(s, weight, minimum, now)
           perToken == RewardPerToken(s, weight, minimum, now)
           earned == Earned(s, u, part, weight, minimum, now)
<1>1. /\ t0 \in Streams /\ t0.rate = s.rate /\ t0.pool = s.pool
      /\ UpToDate(s, t0, weight, minimum, now) /\ \A v \in Users : SameCheckpoint(s, t0, v)
  BY UpdateAllUpToDate, UpdateAllKeepsPool
<1>2. t \in Streams
  BY UpdateRewardKeepsPool, Zenon
<1>3. t = [t0 EXCEPT !.pending[u] = earned, !.paid[u] = perToken]
  BY DEF UpdateReward
<1>4. t0.stored = perToken /\ Elapsed(t0, now) = 0
  BY <1>1 DEF UpToDate
<1> HIDE DEF t0, perToken, earned
<1>5. /\ t.rate = t0.rate /\ t.pool = t0.pool /\ t.stored = t0.stored /\ t.last = t0.last /\ t.finish = t0.finish
      /\ t.paid = [t0.paid EXCEPT ![u] = perToken]
      /\ t.pending = [t0.pending EXCEPT ![u] = earned]
  BY <1>1, <1>3 DEF Streams
<1>6. t0.paid \in [Users -> Int] /\ t0.pending \in [Users -> Int]
  BY <1>1, StreamFields
<1>7. /\ t.paid[u] = perToken /\ t.pending[u] = earned
      /\ \A v \in Users \ {u} : t.paid[v] = t0.paid[v] /\ t.pending[v] = t0.pending[v]
  BY <1>5, <1>6
<1>8. Elapsed(t, now) = 0
  BY <1>4, <1>5 DEF Elapsed, LastTimeRewardApplicable
<1>9. UpToDate(s, t, weight, minimum, now)
  BY <1>2, <1>4, <1>5, <1>8 DEF UpToDate, perToken
<1>10. \A v \in Users \ {u} : SameCheckpoint(s, t, v)
  BY <1>1, <1>7 DEF SameCheckpoint
<1> QED BY <1>1, <1>2, <1>4, <1>5, <1>7, <1>9, <1>10 DEF earned

\* Settling leaves the accumulator, and every checkpoint but what is paid.
LEMMA SettlePaysPending ==
  ASSUME NEW s \in Streams, NEW u \in Users
  PROVE  /\ SettleRewards(s, u).stored = s.stored /\ SettleRewards(s, u).rate = s.rate
         /\ SettleRewards(s, u).last = s.last /\ SettleRewards(s, u).finish = s.finish
         /\ SettleRewards(s, u).paid = s.paid
         /\ SettleRewards(s, u).pending[u] = s.pending[u] - Settlement(s, u)
         /\ \A v \in Users \ {u} : SettleRewards(s, u).pending[v] = s.pending[v]
<1> DEFINE reward == Settlement(s, u)
           newOwed == IF s.owed > reward THEN s.owed - reward ELSE 0
           newPending == [s.pending EXCEPT ![u] = s.pending[u] - reward]
           newPool == s.pool - reward
           t == SettleRewards(s, u)
<1>1. t = [s EXCEPT !.pending = newPending, !.owed = newOwed, !.pool = newPool]
  BY DEF SettleRewards, Streams
<1>2. s.pending \in [Users -> Int]
  BY StreamFields
<1> HIDE DEF t, newOwed, newPool, newPending
<1>3. /\ t.stored = s.stored /\ t.rate = s.rate /\ t.last = s.last /\ t.finish = s.finish
      /\ t.paid = s.paid /\ t.pending = newPending
  BY <1>1 DEF Streams
<1>4. newPending[u] = s.pending[u] - reward /\ \A v \in Users \ {u} : newPending[v] = s.pending[v]
  BY <1>2 DEF newPending
<1> QED BY <1>3, <1>4 DEF t

\* A new schedule leaves the accumulator and the checkpoints of an up-to-date
\* stream, and accrues nothing at once.
LEMMA RecomputeUpToDate ==
  ASSUME NEW s \in Streams, NEW now \in Int,
         NEW t, t = RecomputePeriodFinish(s, now)
  PROVE  /\ t \in Streams /\ Elapsed(t, now) = 0
         /\ t.stored = s.stored /\ t.paid = s.paid /\ t.pending = s.pending
         /\ t.rate = s.rate
<1> DEFINE unaccrued == IF s.pool > s.owed THEN s.pool - s.owed ELSE 0
           finish == IF s.rate = 0 THEN now ELSE now + unaccrued \div s.rate
<1>1. t \in Streams
  BY RecomputeKeepsPool
<1>2. t = [s EXCEPT !.last = now, !.finish = finish]
  BY DEF RecomputePeriodFinish
<1> HIDE DEF finish
<1>3. /\ t.last = now /\ t.stored = s.stored /\ t.paid = s.paid /\ t.pending = s.pending
      /\ t.rate = s.rate
  BY <1>2 DEF Streams
<1>4. Elapsed(t, now) = 0
  BY <1>1, <1>3, ElapsedAtLast
<1> QED BY <1>1, <1>3, <1>4

\* What is paid out of a pool.
PaidFrom(s, t) == IF t.pool < s.pool THEN s.pool - t.pool ELSE 0

\* Banking a user, and settling him or not, keeps what he earned up to what is
\* paid out, whatever part he holds afterwards.
LEMMA BankedKept ==
  ASSUME NEW s \in Streams, NEW u \in Users, NEW part \in Int, NEW weight \in Int,
         NEW minimum \in Nat, NEW now \in Int,
         NEW r, r = UpdateReward(s, u, part, weight, minimum, now),
         NEW t, t = r \/ t = SettleRewards(r, u),
         NEW part2 \in Int, NEW weight2 \in Int, NEW minimum2 \in Nat
  PROVE  /\ UpToDate(s, t, weight, minimum, now)
         /\ \A v \in Users \ {u} : SameCheckpoint(s, t, v)
         /\ t.rate = s.rate
         /\ Earned(t, u, part2, weight2, minimum2, now) + PaidFrom(s, t)
              >= Earned(s, u, part, weight, minimum, now)
<1> DEFINE e == Earned(s, u, part, weight, minimum, now)
<1>0. e \in Int
  BY EarnedType
<1> HIDE DEF e
<1>1. /\ UpToDate(s, r, weight, minimum, now) /\ r \in Streams /\ Elapsed(r, now) = 0
      /\ r.paid[u] = r.stored /\ r.pending[u] = e
      /\ \A v \in Users \ {u} : SameCheckpoint(s, r, v)
      /\ r.pool = s.pool /\ r.rate = s.rate
  <2>1. /\ UpToDate(s, r, weight, minimum, now)
        /\ r.paid[u] = r.stored
        /\ r.pending[u] = Earned(s, u, part, weight, minimum, now)
        /\ \A v \in Users \ {u} : SameCheckpoint(s, r, v)
        /\ r.pool = s.pool /\ r.rate = s.rate
    BY UpdateRewardBanks
  <2>2. r \in Streams /\ Elapsed(r, now) = 0
    BY <2>1 DEF UpToDate
  <2> QED BY <2>1, <2>2 DEF e
<1>2. CASE t = r
  <2>1. Earned(t, u, part2, weight2, minimum2, now) = e
    BY <1>1, <1>2, EarnedBanked
  <2>2. PaidFrom(s, t) = 0
    BY <1>1, <1>2, StreamFields DEF PaidFrom
  <2> QED BY <1>0, <1>1, <1>2, <2>1, <2>2 DEF e
<1>3. CASE t = SettleRewards(r, u)
  <2> DEFINE p == Settlement(r, u)
  <2>1. /\ t \in Streams /\ p \in Int /\ t.pool = r.pool - p
        /\ t.stored = r.stored /\ t.rate = r.rate /\ t.last = r.last /\ t.finish = r.finish
        /\ t.paid = r.paid /\ t.pending[u] = r.pending[u] - p
        /\ \A v \in Users \ {u} : t.pending[v] = r.pending[v]
    BY <1>1, <1>3, SettleTakesSettlement, SettlePaysPending
  <2> HIDE DEF p
  <2>2. Elapsed(t, now) = 0
    BY <1>1, <2>1 DEF Elapsed, LastTimeRewardApplicable
  <2>3. UpToDate(s, t, weight, minimum, now)
    BY <1>1, <2>1, <2>2 DEF UpToDate
  <2>4. \A v \in Users \ {u} : SameCheckpoint(s, t, v)
    BY <1>1, <2>1 DEF SameCheckpoint
  <2>5. t.paid[u] = t.stored /\ t.pending[u] = e - p
    BY <1>1, <2>1
  <2>6. Earned(t, u, part2, weight2, minimum2, now) = e - p
    BY <2>1, <2>2, <2>5, EarnedBanked
  <2>7. PaidFrom(s, t) \in Int /\ PaidFrom(s, t) >= p
    BY <1>1, <2>1, StreamFields DEF PaidFrom
  <2> QED BY <1>0, <1>1, <2>1, <2>3, <2>4, <2>6, <2>7 DEF e
<1> QED BY <1>2, <1>3

\* Where no checkpoint and no part changes, everybody has earned the same.
LEMMA CarriedKept ==
  ASSUME NEW s \in Streams, NEW t, NEW v \in Users, NEW part \in Int, NEW weight \in Int,
         NEW minimum \in Nat, NEW now \in Int, NEW weight2 \in Int, NEW minimum2 \in Nat,
         UpToDate(s, t, weight, minimum, now), SameCheckpoint(s, t, v)
  PROVE  Earned(t, v, part, weight2, minimum2, now) + PaidFrom(s, t)
           >= Earned(s, v, part, weight, minimum, now)
<1>1. Earned(t, v, part, weight2, minimum2, now) = Earned(s, v, part, weight, minimum, now)
  BY EarnedCarried
<1>2. Earned(s, v, part, weight, minimum, now) \in Int
  BY EarnedType
<1>3. PaidFrom(s, t) \in Nat
  <2>1. t \in Streams
    BY DEF UpToDate
  <2>2. t.pool \in Int /\ s.pool \in Int
    BY <2>1, StreamFields
  <2> QED BY <2>2 DEF PaidFrom
<1> QED BY <1>1, <1>2, <1>3

\* A schedule over a stream that has been brought up to date, whose pool and
\* rate may have changed, keeps what everybody earned.
LEMMA RescheduleUpToDate ==
  ASSUME NEW s \in Streams, NEW weight \in Int, NEW minimum \in Nat, NEW now \in Int,
         NEW a \in Streams, NEW t0,
         UpToDate(s, t0, weight, minimum, now), \A v \in Users : SameCheckpoint(s, t0, v),
         a.stored = t0.stored, a.paid = t0.paid, a.pending = t0.pending
  PROVE  /\ UpToDate(s, RecomputePeriodFinish(a, now), weight, minimum, now)
         /\ \A v \in Users : SameCheckpoint(s, RecomputePeriodFinish(a, now), v)
         /\ RecomputePeriodFinish(a, now).rate = a.rate
<1> DEFINE t == RecomputePeriodFinish(a, now)
<1>1. /\ t \in Streams /\ Elapsed(t, now) = 0
      /\ t.stored = a.stored /\ t.paid = a.paid /\ t.pending = a.pending
      /\ t.rate = a.rate
  BY RecomputeUpToDate
<1> HIDE DEF t
<1>2. UpToDate(s, t, weight, minimum, now)
  BY <1>1 DEF UpToDate
<1>3. \A v \in Users : SameCheckpoint(s, t, v)
  BY <1>1 DEF SameCheckpoint
<1> QED BY <1>1, <1>2, <1>3 DEF t
-----------------------------------------------------------------------------
(***************************************************************************)
(* Sums of two ledgers.                                                    *)
(***************************************************************************)
\* The part of a ledger on R loses, without x, what x holds.
LEMMA TotalWithout ==
  ASSUME NEW S, IsFiniteSet(S), NEW f \in [S -> Nat], NEW R \in SUBSET S, NEW x \in R
  PROVE  Total([y \in R |-> f[y]]) = Total([y \in R \ {x} |-> f[y]]) + f[x]
<1> DEFINE l == [y \in R \ {x} |-> f[y]]
           m == [y \in R |-> f[y]]
<1>1. IsFiniteSet(R)
  BY FS_Subset
<1>2. l \in [R \ {x} -> Nat] /\ m \in [R -> Nat] /\ m[x] = f[x] /\ \A y \in R \ {x} : l[y] = m[y]
  OBVIOUS
<1> HIDE DEF l, m
<1>3. Total(l) = Total(m) - m[x]
  BY <1>1, <1>2, TotalShrink
<1>4. Total(m) \in Nat /\ m[x] \in Nat
  BY <1>1, <1>2, TotalType
<1> QED BY <1>2, <1>3, <1>4 DEF l, m

\* The sum of a ledger that adds k times another to one is linear in both.
LEMMA TotalLinear ==
  ASSUME NEW S, IsFiniteSet(S), NEW k \in Nat,
         NEW f \in [S -> Nat], NEW g \in [S -> Nat], NEW h \in [S -> Nat],
         \A x \in S : h[x] = f[x] + k * g[x]
  PROVE  Total(h) = Total(f) + k * Total(g)
<1> DEFINE On(l, R) == [x \in R |-> l[x]]
           Linear(R) == Total(On(h, R)) = Total(On(f, R)) + k * Total(On(g, R))
           n == Cardinality(S)
           T == {i \in 0..n : \A R \in SUBSET S : Cardinality(R) = i => Linear(R)}
<1>1. n \in Nat
  BY FS_CardinalityType
<1>2. \A R \in SUBSET S : IsFiniteSet(R) /\ Cardinality(R) \in Nat
  BY FS_Subset, FS_CardinalityType
<1>3. \A R \in SUBSET S : On(f, R) \in [R -> Nat] /\ On(g, R) \in [R -> Nat] /\ On(h, R) \in [R -> Nat]
  OBVIOUS
<1>4. Linear({})
  <2>1. Total(On(f, {})) = 0 /\ Total(On(g, {})) = 0 /\ Total(On(h, {})) = 0
    BY TotalZero
  <2> QED BY <2>1
<1> HIDE DEF n
<1>5. 0 \in T
  <2>1. ASSUME NEW R \in SUBSET S, Cardinality(R) = 0 PROVE Linear(R)
    <3>1. R = {}
      BY <1>2, <2>1, FS_EmptySet
    <3> HIDE DEF Linear
    <3> QED BY <1>4, <3>1
  <2> HIDE DEF Linear
  <2> QED BY <1>1, <2>1
<1>6. ASSUME NEW i \in 1..n, i - 1 \in T PROVE i \in T
  <2>1. ASSUME NEW R \in SUBSET S, Cardinality(R) = i PROVE Linear(R)
    <3>1. R # {}
      <4>1. i # 0
        BY <1>1
      <4>2. Cardinality({}) = 0
        BY FS_EmptySet
      <4> QED BY <2>1, <4>1, <4>2
    <3>2. PICK x \in R : TRUE
      BY <3>1
    <3> DEFINE Q == R \ {x}
    <3>3. /\ IsFiniteSet(Q) /\ Q \in SUBSET S /\ x \notin Q /\ R = Q \cup {x}
          /\ Cardinality(Q) = i - 1
      BY <1>2, <2>1, FS_RemoveElement
    <3> HIDE DEF Q
    <3>4. Linear(Q)
      <4> HIDE DEF Linear
      <4> QED BY <1>6, <3>3
    <3>5. /\ Total(On(f, R)) = Total(On(f, Q)) + f[x]
          /\ Total(On(g, R)) = Total(On(g, Q)) + g[x]
          /\ Total(On(h, R)) = Total(On(h, Q)) + h[x]
      <4>1. Total(On(f, R)) = Total(On(f, Q)) + f[x]
        BY TotalWithout DEF Q
      <4>2. Total(On(g, R)) = Total(On(g, Q)) + g[x]
        BY TotalWithout DEF Q
      <4>3. Total(On(h, R)) = Total(On(h, Q)) + h[x]
        BY TotalWithout DEF Q
      <4> QED BY <4>1, <4>2, <4>3
    <3>6. /\ Total(On(f, Q)) \in Nat /\ Total(On(g, Q)) \in Nat
          /\ f[x] \in Nat /\ g[x] \in Nat /\ h[x] = f[x] + k * g[x]
      BY <1>3, <3>3, TotalType
    <3> DEFINE a == Total(On(f, Q))
               b == Total(On(g, Q))
    <3>7. /\ Total(On(h, Q)) = a + k * b
          /\ Total(On(f, R)) = a + f[x] /\ Total(On(g, R)) = b + g[x]
          /\ Total(On(h, R)) = a + k * b + (f[x] + k * g[x])
      BY <3>4, <3>5, <3>6
    <3> HIDE DEF a, b
    <3>8. a + k * b + (f[x] + k * g[x]) = (a + f[x]) + k * (b + g[x])
      <4>1. a \in Nat /\ b \in Nat /\ f[x] \in Nat /\ g[x] \in Nat
        BY <3>6 DEF a, b
      <4>2. k * (b + g[x]) = k * b + k * g[x]
        BY <4>1
      <4> QED BY <4>1, <4>2
    <3> QED BY <3>7, <3>8
  <2> HIDE DEF Linear
  <2> QED BY <2>1
<1>7. 0..n \subseteq T
  <2> HIDE DEF T
  <2> QED BY <1>1, <1>5, <1>6, Steps
<1>8. Linear(S)
  <2>1. n \in T
    <3>1. n \in 0..n
      BY <1>1
    <3> HIDE DEF T
    <3> QED BY <1>7, <3>1
  <2> HIDE DEF Linear
  <2> QED BY <2>1 DEF n
<1>9. On(f, S) = f /\ On(g, S) = g /\ On(h, S) = h
  OBVIOUS
<1> QED BY <1>8, <1>9
-----------------------------------------------------------------------------
(***************************************************************************)
(* Funded streams.  Rounding is not lost sight of: what a user holds of the *)
(* accumulator is counted before it is rounded down, in units of 1 /        *)
(* PRECISION of a token (RawShares).                                       *)
(***************************************************************************)
\* The streams whose amounts are natural numbers.
NatStreams ==
    [rate : Nat, stored : Nat, last : Nat, pool : Nat, finish : Nat, owed : Nat,
     paid : [Users -> Nat], pending : [Users -> Nat]]

\* A stream as it can be at t: nobody is ahead of the accumulator, which stands
\* still unless there is a schedule, and has not passed its end.
SoundStream(s, t) ==
    /\ s \in NatStreams
    /\ \A u \in Users : s.paid[u] <= s.stored
    /\ s.last <= t
    /\ s.finish = 0 => s.rate = 0
    /\ s.finish # 0 => s.last <= s.finish

\* What each user has of the accumulator, with weights w, before rounding.
RawShares(s, w) == [u \in Users |-> PRECISION * s.pending[u] + w[u] * (s.stored - s.paid[u])]

\* The seconds from the start of the clock to t, and those left of a schedule.
SecondsBefore(t) == IF t = 0 THEN 0 ELSE t - 1
SecondsLeft(s) == IF s.finish > s.last THEN s.finish - s.last ELSE 0

\* At most a second's rounding is missing from `owed' for every second passed.
OwedCovers(s, w) ==
    Total(RawShares(s, w)) <= PRECISION * s.owed + (PRECISION - 1) * SecondsBefore(s.last)

\* The pool covers what users have and what is still to be emitted.
PoolCovers(s, w) ==
    Total(RawShares(s, w)) + PRECISION * (s.rate * SecondsLeft(s))
       <= PRECISION * s.pool + (PRECISION - 1) * SecondsBefore(s.last)

FundedStream(s, w, t) == SoundStream(s, t) /\ OwedCovers(s, w) /\ PoolCovers(s, w)

\* A product of natural numbers is one.
LEMMA ProductType == ASSUME NEW x \in Nat, NEW y \in Nat PROVE x * y \in Nat
BY SMT

\* The fields of a natural stream have their types.
LEMMA NatStreamFields ==
  ASSUME NEW s \in NatStreams
  PROVE  /\ s \in Streams
         /\ s.rate \in Nat /\ s.stored \in Nat /\ s.last \in Nat /\ s.pool \in Nat
         /\ s.finish \in Nat /\ s.owed \in Nat
         /\ s.paid \in [Users -> Nat] /\ s.pending \in [Users -> Nat]
         /\ \A u \in Users : s.paid[u] \in Nat /\ s.pending[u] \in Nat
BY DEF NatStreams, Streams

\* What a user has is a natural number, and so is the sum.
LEMMA RawSharesType ==
  ASSUME IsFiniteSet(Users), NEW s \in NatStreams, \A u \in Users : s.paid[u] <= s.stored,
         NEW w \in [Users -> Nat]
  PROVE  RawShares(s, w) \in [Users -> Nat] /\ Total(RawShares(s, w)) \in Nat
<1>1. ASSUME NEW u \in Users
      PROVE  PRECISION * s.pending[u] + w[u] * (s.stored - s.paid[u]) \in Nat
  <2> DEFINE a == s.pending[u]
             b == s.stored - s.paid[u]
             c == w[u]
  <2>1. a \in Nat /\ b \in Nat /\ c \in Nat /\ PRECISION \in Nat
    BY NatStreamFields, PrecisionAssumption
  <2> HIDE DEF a, b, c
  <2>2. PRECISION * a \in Nat /\ c * b \in Nat
    BY <2>1, ProductType
  <2>3. PRECISION * a + c * b \in Nat
    BY <2>2
  <2> QED BY <2>3 DEF a, b, c
<1>2. RawShares(s, w) \in [Users -> Nat]
  BY <1>1 DEF RawShares
<1> QED BY <1>2, TotalType

\* Rounding down takes less than the divisor away.
LEMMA FloorBounds ==
  ASSUME NEW x \in Nat, NEW d \in Nat \ {0}
  PROVE  /\ x \div d \in Nat
         /\ d * (x \div d) <= x
         /\ x <= d * (x \div d) + (d - 1)
OBVIOUS

\* The seconds accrued, and where they leave the clock of a sound stream.
LEMMA SecondsAccrued ==
  ASSUME NEW s, NEW now \in Nat, SoundStream(s, now), now > 0,
         NEW e, e = Elapsed(s, now), NEW l, l = LastTimeRewardApplicable(s, now)
  PROVE  /\ e \in Nat /\ l \in Nat /\ l >= s.last /\ l <= now
         /\ e > 0 => SecondsBefore(l) >= SecondsBefore(s.last) + 1
         /\ SecondsBefore(l) >= SecondsBefore(s.last)
         /\ SecondsBefore(l) \in Nat /\ SecondsBefore(s.last) \in Nat
         /\ s.finish # 0 => l <= s.finish
         /\ s.rate # 0 => (IF s.finish > l THEN s.finish - l ELSE 0) + e <= SecondsLeft(s)
<1>1. s.last \in Nat /\ s.finish \in Nat /\ s.last <= now
      /\ (s.finish = 0 => s.rate = 0) /\ (s.finish # 0 => s.last <= s.finish)
  BY NatStreamFields DEF SoundStream
<1> QED BY <1>1 DEF Elapsed, LastTimeRewardApplicable, SecondsBefore, SecondsLeft

\* What the accumulator gains when it is brought up to date.
Gain(s, weight, minimum, now) == RewardPerToken(s, weight, minimum, now) - s.stored

\* What the accumulator gains, times the weight, is at most what was emitted.
LEMMA GainBound ==
  ASSUME NEW s \in NatStreams, NEW weight \in Nat, NEW minimum \in Nat, NEW now \in Nat
  PROVE  /\ Gain(s, weight, minimum, now) \in Nat
         /\ RewardPerToken(s, weight, minimum, now) = s.stored + Gain(s, weight, minimum, now)
         /\ weight * Gain(s, weight, minimum, now) \in Nat
         /\ weight * Gain(s, weight, minimum, now) <= PRECISION * (s.rate * Elapsed(s, now))
         /\ Elapsed(s, now) = 0 => Gain(s, weight, minimum, now) = 0
<1>0. PICK d : d = Gain(s, weight, minimum, now) /\ d = RewardPerToken(s, weight, minimum, now) - s.stored
  BY DEF Gain
<1> DEFINE e == Elapsed(s, now)
           r == s.rate
           emitted == r * e * PRECISION
<1>1. /\ s \in Streams /\ r \in Nat /\ e \in Nat /\ s.stored \in Nat
      /\ weight \in Int /\ now \in Int /\ PRECISION \in Nat
  BY NatStreamFields, ElapsedGrows, PrecisionAssumption
<1>2. e = 0 => d = 0
  BY <1>0, <1>1, StoredWhenSettled
<1>3. RewardPerToken(s, weight, minimum, now)
        = IF weight = 0 \/ weight < minimum THEN s.stored ELSE s.stored + emitted \div weight
  BY DEF RewardPerToken
<1> HIDE DEF e, r
<1>4. r * e \in Nat
  BY <1>1, ProductType
<1>5. emitted = PRECISION * (r * e) /\ emitted \in Nat
  <2> DEFINE x == r * e
  <2>1. x \in Nat
    BY <1>4
  <2> HIDE DEF x
  <2>2. x * PRECISION = PRECISION * x /\ x * PRECISION \in Nat
    BY <1>1, <2>1, ProductType
  <2> QED BY <2>2 DEF x
<1> HIDE DEF emitted
<1>6. CASE weight = 0 \/ weight < minimum
  <2>1. d = 0
    BY <1>0, <1>1, <1>3, <1>6
  <2>2. weight * d = 0
    BY <2>1
  <2> QED BY <1>0, <1>1, <1>2, <1>3, <1>5, <1>6, <2>1, <2>2 DEF e, r
<1>7. CASE ~(weight = 0 \/ weight < minimum)
  <2>1. weight \in Nat \ {0}
    BY <1>7
  <2>2. /\ emitted \div weight \in Nat
        /\ weight * (emitted \div weight) <= emitted
    BY <1>5, <2>1, FloorBounds
  <2>3. d = emitted \div weight
    BY <1>0, <1>1, <1>3, <1>7, <2>2
  <2>4. d \in Nat /\ weight * d <= emitted /\ RewardPerToken(s, weight, minimum, now) = s.stored + d
    BY <1>1, <1>3, <1>7, <2>2, <2>3
  <2>5. weight * d \in Nat
    BY <2>4, ProductType
  <2> QED BY <1>0, <1>2, <1>5, <2>4, <2>5 DEF e, r
<1> QED BY <1>6, <1>7

\* The gain is added to what there was.
LEMMA GainAdds ==
  ASSUME NEW s \in NatStreams, NEW weight \in Nat, NEW minimum \in Nat, NEW now \in Nat
  PROVE  RewardPerToken(s, weight, minimum, now) = s.stored + Gain(s, weight, minimum, now)
BY GainBound

\* t is s with the accumulator brought up to date for a weight.
Advanced(s, t, weight, minimum, now) ==
    LET d == Gain(s, weight, minimum, now)
    IN  /\ t \in NatStreams
        /\ t.stored = s.stored + d /\ t.last = LastTimeRewardApplicable(s, now)
        /\ t.owed = s.owed + (weight * d) \div PRECISION
        /\ t.rate = s.rate /\ t.pool = s.pool /\ t.finish = s.finish
        /\ t.paid = s.paid /\ t.pending = s.pending

\* That is what UpdateAll does.
LEMMA UpdateAllAdvances ==
  ASSUME NEW s \in NatStreams, NEW weight \in Nat, NEW minimum \in Nat, NEW now \in Nat
  PROVE  Advanced(s, UpdateAll(s, weight, minimum, now), weight, minimum, now)
<1>0. PICK t : t = UpdateAll(s, weight, minimum, now)
  OBVIOUS
<1> DEFINE d == Gain(s, weight, minimum, now)
           perToken == RewardPerToken(s, weight, minimum, now)
           latest == LastTimeRewardApplicable(s, now)
           newOwed == s.owed + (weight * (perToken - s.stored)) \div PRECISION
<1>1. /\ d \in Nat /\ perToken = s.stored + d /\ weight * d \in Nat
  BY GainBound
<1>2. /\ s.owed \in Nat /\ s.finish \in Nat /\ s.stored \in Nat
  BY NatStreamFields
<1>3. latest \in Nat
  BY <1>2 DEF LastTimeRewardApplicable
<1>4. t = [s EXCEPT !.stored = perToken, !.last = latest, !.owed = newOwed]
  BY <1>0 DEF UpdateAll
<1>5. newOwed = s.owed + (weight * d) \div PRECISION
  BY DEF Gain
<1>6. newOwed \in Nat
  <2> DEFINE x == weight * d
  <2>1. x \in Nat
    BY <1>1
  <2> HIDE DEF x, d
  <2>2. x \div PRECISION \in Nat
    BY <2>1, FloorBounds, PrecisionAssumption
  <2> QED BY <1>2, <1>5, <2>2 DEF x
<1>7. perToken \in Nat
  BY <1>1, <1>2
<1> HIDE DEF perToken, latest, newOwed, d
<1>8. /\ t \in NatStreams
      /\ t.stored = perToken /\ t.last = latest /\ t.owed = newOwed
      /\ t.rate = s.rate /\ t.pool = s.pool /\ t.finish = s.finish
      /\ t.paid = s.paid /\ t.pending = s.pending
  BY <1>3, <1>4, <1>6, <1>7 DEF NatStreams
<1> QED BY <1>0, <1>1, <1>5, <1>8 DEF Advanced, latest, d

\* Bringing a stream up to date for the whole weight keeps it funded.
LEMMA UpdateAllFunded ==
  ASSUME IsFiniteSet(Users), NEW w \in [Users -> Nat], NEW weight, weight = Total(w),
         NEW minimum \in Nat, NEW now \in Nat, now > 0,
         NEW s, FundedStream(s, w, now), NEW t, t = UpdateAll(s, weight, minimum, now)
  PROVE  FundedStream(t, w, now) /\ t.last >= s.last
<1> DEFINE d == Gain(s, weight, minimum, now)
           e == Elapsed(s, now)
           l == LastTimeRewardApplicable(s, now)
<1>1. /\ s \in NatStreams /\ \A u \in Users : s.paid[u] <= s.stored
      /\ SoundStream(s, now) /\ OwedCovers(s, w) /\ PoolCovers(s, w)
  BY DEF FundedStream, SoundStream
<1>2. /\ s.rate \in Nat /\ s.stored \in Nat /\ s.last \in Nat /\ s.pool \in Nat
      /\ s.finish \in Nat /\ s.owed \in Nat /\ PRECISION \in Nat \ {0}
      /\ \A u \in Users : s.paid[u] \in Nat /\ s.pending[u] \in Nat
  BY <1>1, NatStreamFields, PrecisionAssumption
<1>3. weight \in Nat
  BY TotalType
<1>4. /\ d \in Nat /\ weight * d \in Nat /\ weight * d <= PRECISION * (s.rate * e)
      /\ (e = 0 => d = 0)
  BY <1>1, <1>3, GainBound
<1>5. /\ t \in NatStreams /\ t.stored = s.stored + d /\ t.last = l
      /\ t.owed = s.owed + (weight * d) \div PRECISION
      /\ t.rate = s.rate /\ t.pool = s.pool /\ t.finish = s.finish
      /\ t.paid = s.paid /\ t.pending = s.pending
  <2> HIDE DEF d, e, l
  <2>1. Advanced(s, t, weight, minimum, now)
    BY <1>1, <1>3, UpdateAllAdvances
  <2> QED BY <2>1 DEF Advanced, d, l
<1>6. /\ e \in Nat /\ l \in Nat /\ l >= s.last /\ l <= now
      /\ (e > 0 => SecondsBefore(l) >= SecondsBefore(s.last) + 1)
      /\ SecondsBefore(l) >= SecondsBefore(s.last)
      /\ SecondsBefore(l) \in Nat /\ SecondsBefore(s.last) \in Nat
      /\ (s.finish # 0 => l <= s.finish)
      /\ (s.rate # 0 => (IF s.finish > l THEN s.finish - l ELSE 0) + e <= SecondsLeft(s))
  BY <1>1, SecondsAccrued
<1> HIDE DEF d, e, l
<1>7. SoundStream(t, now)
  <2>1. \A u \in Users : t.paid[u] <= t.stored
    BY <1>1, <1>2, <1>4, <1>5
  <2> QED BY <1>1, <1>2, <1>5, <1>6, <2>1 DEF SoundStream
<1>8. Total(RawShares(t, w)) = Total(RawShares(s, w)) + d * weight
  <2> DEFINE f == RawShares(s, w)
             h == RawShares(t, w)
  <2>1. f \in [Users -> Nat]
    BY <1>1, RawSharesType
  <2>2. h \in [Users -> Nat]
    BY <1>5, <1>7, RawSharesType DEF SoundStream
  <2>3. ASSUME NEW u \in Users PROVE h[u] = f[u] + d * w[u]
    <3> DEFINE x == PRECISION * s.pending[u]
               b == s.stored - s.paid[u]
               c == w[u]
    <3>1. h[u] = x + c * (b + d) /\ f[u] = x + c * b
      BY <1>2, <1>4, <1>5 DEF RawShares
    <3>2. b \in Int /\ c \in Nat /\ x \in Int
      BY <1>2
    <3> HIDE DEF x, b
    <3>3. c * (b + d) = c * b + d * c /\ c * b \in Int /\ d * c \in Int
      BY <1>4, <3>2
    <3> QED BY <3>1, <3>2, <3>3
  <2> HIDE DEF f, h
  <2> QED BY <1>4, <2>1, <2>2, <2>3, TotalLinear DEF f, h
<1>9. Total(RawShares(s, w)) \in Nat
  BY <1>1, RawSharesType
<1> DEFINE sum == Total(RawShares(s, w))
           a == SecondsBefore(s.last)
           b == SecondsBefore(l)
           q == PRECISION - 1
           g == weight * d
<1>10. /\ q \in Nat /\ a \in Nat /\ b \in Nat /\ a <= b /\ sum \in Nat /\ g \in Nat
       /\ Total(RawShares(t, w)) = sum + g
  <2>1. d * weight = weight * d
    BY <1>3, <1>4
  <2> QED BY <1>2, <1>4, <1>6, <1>8, <1>9, <2>1
<1>11. q * a \in Int /\ q * b \in Int /\ q * a <= q * b /\ (e > 0 => q * a + q <= q * b)
  <2> HIDE DEF q, a, b
  <2>1. q * a \in Int /\ q * b \in Int /\ q * a <= q * b
    BY <1>10, ScaleMonotone
  <2>2. ASSUME e > 0 PROVE q * a + q <= q * b
    <3>1. a + 1 <= b
      BY <1>6, <2>2 DEF a, b
    <3> DEFINE a1 == a + 1
    <3>2. a1 \in Int /\ b \in Int /\ a1 <= b
      BY <1>10, <3>1
    <3>3. q * a1 = q * a + q
      BY <1>10
    <3> HIDE DEF a1
    <3>4. q * a1 <= q * b
      BY <1>10, <3>2, ScaleMonotone
    <3> QED BY <3>3, <3>4
  <2> QED BY <2>1, <2>2
<1>12. OwedCovers(t, w)
  <2>1. sum <= PRECISION * s.owed + q * a
    BY <1>1 DEF OwedCovers
  <2> DEFINE y == g \div PRECISION
             o == s.owed
  <2>2. y \in Nat /\ g <= PRECISION * y + q /\ o \in Nat
    <3> HIDE DEF g
    <3> QED BY <1>2, <1>10, FloorBounds
  <2>3. g > 0 => e > 0
    <3>1. d = 0 => g = 0
      BY <1>3
    <3> HIDE DEF g
    <3> QED BY <1>4, <1>6, <1>10, <3>1
  <2>4. t.owed = o + y /\ t.last = l
    BY <1>5
  <2> HIDE DEF g, y, o, q, a, b, sum
  <2>5. PRECISION * (o + y) = PRECISION * o + PRECISION * y
        /\ PRECISION * o \in Nat /\ PRECISION * y \in Nat
    BY <1>2, <2>2, ProductType
  <2>6. sum + g <= PRECISION * (o + y) + q * b
    <3>1. CASE g > 0
      BY <1>10, <1>11, <2>1, <2>2, <2>3, <2>5, <3>1 DEF o
    <3>2. CASE g = 0
      BY <1>10, <1>11, <2>1, <2>5, <3>2 DEF o
    <3> QED BY <1>10, <3>1, <3>2
  <2> QED BY <1>10, <2>4, <2>6 DEF OwedCovers, q, b
<1>13. PoolCovers(t, w)
  <2> DEFINE left == IF s.finish > l THEN s.finish - l ELSE 0
             m == SecondsLeft(s)
             r == s.rate
  <2>1. sum + PRECISION * (r * m) <= PRECISION * s.pool + q * a
    BY <1>1 DEF PoolCovers
  <2>2. SecondsLeft(t) = left
    BY <1>5 DEF SecondsLeft
  <2>3. left \in Nat /\ m \in Nat /\ r \in Nat /\ (r # 0 => left + e <= m)
    BY <1>2, <1>6 DEF SecondsLeft
  <2>4. g <= PRECISION * (r * e)
    BY <1>4
  <2> HIDE DEF left, m, r, g
  <2>5. /\ r * left \in Nat /\ r * e \in Nat /\ r * m \in Nat
        /\ r * left + r * e <= r * m
    <3>1. r * left \in Nat /\ r * e \in Nat /\ r * m \in Nat
      BY <1>6, <2>3, ProductType
    <3>2. CASE r = 0
      <4>1. r * left = 0 /\ r * e = 0 /\ r * m = 0
        BY <1>6, <2>3, <3>2
      <4> QED BY <4>1
    <3>3. CASE r # 0
      <4> DEFINE k == left + e
      <4>1. k \in Int /\ m \in Int /\ k <= m
        BY <1>6, <2>3, <3>3
      <4>2. r * k = r * left + r * e
        BY <1>6, <2>3
      <4> HIDE DEF k
      <4>3. r * k <= r * m
        BY <2>3, <4>1, ScaleMonotone
      <4> QED BY <3>1, <4>2, <4>3
    <3> QED BY <3>1, <3>2, <3>3
  <2>6. /\ PRECISION * (r * left) \in Int /\ PRECISION * (r * e) \in Int /\ PRECISION * (r * m) \in Int
        /\ PRECISION * (r * left) + PRECISION * (r * e) <= PRECISION * (r * m)
    <3> DEFINE x == r * left
               y == r * e
               z == r * m
               k == x + y
    <3>1. x \in Nat /\ y \in Nat /\ z \in Nat /\ x + y <= z
      BY <2>5
    <3> HIDE DEF x, y, z
    <3>2. k \in Int /\ z \in Int /\ k <= z
      BY <3>1
    <3>3. PRECISION * k = PRECISION * x + PRECISION * y
          /\ PRECISION * x \in Int /\ PRECISION * y \in Int /\ PRECISION * z \in Int
      BY <1>2, <3>1
    <3> HIDE DEF k
    <3>4. PRECISION * k <= PRECISION * z
      BY <1>2, <3>2, ScaleMonotone
    <3> QED BY <3>3, <3>4 DEF x, y, z
  <2>7. PRECISION * s.pool \in Int
    BY <1>2
  <2>8. sum + g + PRECISION * (r * left) <= PRECISION * s.pool + q * b
    <3> DEFINE x == PRECISION * (r * left)
               y == PRECISION * (r * e)
               z == PRECISION * (r * m)
               p == PRECISION * s.pool
    <3>1. x \in Int /\ y \in Int /\ z \in Int /\ x + y <= z /\ p \in Int /\ g <= y /\ sum + z <= p + q * a
      BY <2>1, <2>4, <2>6, <2>7
    <3> HIDE DEF x, y, z, p, sum, q, a, b
    <3>2. sum + g + x <= p + q * b
      BY <1>10, <1>11, <3>1 DEF g
    <3> QED BY <3>2 DEF x, p
  <2>9. PRECISION * (r * left) + (sum + g) = sum + g + PRECISION * (r * left)
    <3> HIDE DEF sum
    <3> QED BY <1>10, <2>6 DEF g
  <2> QED BY <1>5, <1>10, <2>2, <2>8, <2>9 DEF PoolCovers, q, b, g, r
<1> QED BY <1>5, <1>6, <1>7, <1>12, <1>13 DEF FundedStream

\* A funded stream stays so while nobody has more of it and the clock runs on.
LEMMA FewerSharesFunded ==
  ASSUME IsFiniteSet(Users), NEW w \in [Users -> Nat], NEW w2 \in [Users -> Nat],
         NEW now \in Nat, NEW now2 \in Nat, now <= now2,
         NEW s, FundedStream(s, w, now), NEW t \in NatStreams,
         t.stored = s.stored, t.last = s.last, t.owed = s.owed,
         t.rate = s.rate, t.pool = s.pool, t.finish = s.finish,
         \A u \in Users : t.paid[u] <= t.stored,
         \A u \in Users : RawShares(t, w2)[u] <= RawShares(s, w)[u]
  PROVE  FundedStream(t, w2, now2)
<1>1. /\ s \in NatStreams /\ \A u \in Users : s.paid[u] <= s.stored
      /\ SoundStream(s, now) /\ OwedCovers(s, w) /\ PoolCovers(s, w)
  BY DEF FundedStream, SoundStream
<1>2. /\ s.rate \in Nat /\ s.last \in Nat /\ s.pool \in Nat /\ s.finish \in Nat /\ s.owed \in Nat
      /\ PRECISION \in Nat \ {0}
  BY <1>1, NatStreamFields, PrecisionAssumption
<1>3. SoundStream(t, now2)
  BY <1>1, <1>2 DEF SoundStream
<1> DEFINE f == RawShares(t, w2)
           g == RawShares(s, w)
           x == Total(f)
           y == Total(g)
<1>4. x <= y /\ x \in Nat /\ y \in Nat
  <2>1. /\ f \in [Users -> Nat] /\ x \in Nat
        /\ g \in [Users -> Nat] /\ y \in Nat
    BY <1>1, RawSharesType
  <2>2. \A u \in Users : f[u] <= g[u]
    OBVIOUS
  <2>3. Users \in SUBSET Users
    OBVIOUS
  <2> HIDE DEF f, g
  <2> QED BY <2>1, <2>2, <2>3, TotalMonotone
<1> DEFINE a == PRECISION * s.owed
           b == (PRECISION - 1) * SecondsBefore(s.last)
           c == PRECISION * (s.rate * SecondsLeft(s))
           p == PRECISION * s.pool
<1>5. /\ y <= a + b /\ y + c <= p + b
  BY <1>1 DEF OwedCovers, PoolCovers
<1>6. a \in Int /\ b \in Int /\ c \in Int /\ p \in Int
  BY <1>2 DEF SecondsBefore, SecondsLeft
<1>7. SecondsLeft(t) = SecondsLeft(s)
  BY DEF SecondsLeft
<1> HIDE DEF x, y, a, b, c, p
<1>8. x <= a + b /\ x + c <= p + b
  BY <1>4, <1>5, <1>6
<1>9. OwedCovers(t, w2) /\ PoolCovers(t, w2)
  BY <1>7, <1>8 DEF OwedCovers, PoolCovers, x, f, a, b, c, p
<1> QED BY <1>3, <1>9 DEF FundedStream

\* t is s after u is banked: brought up to date, with what u earned pending.
Banked(s, t, u, part, weight, minimum, now) ==
    LET d == Gain(s, weight, minimum, now)
    IN  /\ t \in NatStreams
        /\ t.stored = s.stored + d /\ t.last = LastTimeRewardApplicable(s, now)
        /\ t.owed = s.owed + (weight * d) \div PRECISION
        /\ t.rate = s.rate /\ t.pool = s.pool /\ t.finish = s.finish
        /\ t.paid[u] = t.stored
        /\ t.pending[u] = (part * (t.stored - s.paid[u])) \div PRECISION + s.pending[u]
        /\ \A v \in Users \ {u} : SameCheckpoint(s, t, v)

\* That is what UpdateReward does.
LEMMA UpdateRewardBanked ==
  ASSUME NEW s \in NatStreams, \A v \in Users : s.paid[v] <= s.stored,
         NEW u \in Users, NEW part \in Nat,
         NEW weight \in Nat, NEW minimum \in Nat, NEW now \in Nat
  PROVE  Banked(s, UpdateReward(s, u, part, weight, minimum, now), u, part, weight, minimum, now)
<1> DEFINE t0 == UpdateAll(s, weight, minimum, now)
           d == Gain(s, weight, minimum, now)
           perToken == RewardPerToken(s, weight, minimum, now)
           earned == Earned(s, u, part, weight, minimum, now)
           l == LastTimeRewardApplicable(s, now)
<1>0. PICK t : t = UpdateReward(s, u, part, weight, minimum, now)
  OBVIOUS
<1>1. Advanced(s, t0, weight, minimum, now)
  BY UpdateAllAdvances
<1>2. d \in Nat /\ perToken = s.stored + d
  BY GainBound
<1>3. /\ s.paid[u] \in Nat /\ s.paid[u] <= s.stored /\ s.stored \in Nat /\ s.pending[u] \in Nat
      /\ s.paid \in [Users -> Nat] /\ s.pending \in [Users -> Nat]
  BY NatStreamFields
<1>4. earned = (part * (perToken - s.paid[u])) \div PRECISION + s.pending[u]
  BY DEF Earned
<1>5. t = [t0 EXCEPT !.pending[u] = earned, !.paid[u] = perToken]
  BY <1>0 DEF UpdateReward
<1> HIDE DEF t0, d, perToken, earned, l
<1>6. earned \in Nat /\ perToken \in Nat
  <2> DEFINE b == perToken - s.paid[u]
             x == part * b
  <2>1. b \in Nat /\ perToken \in Nat
    BY <1>2, <1>3
  <2> HIDE DEF b
  <2>2. x \in Nat
    BY <2>1, ProductType
  <2> HIDE DEF x
  <2>3. x \div PRECISION \in Nat
    BY <2>2, FloorBounds, PrecisionAssumption
  <2>4. x \div PRECISION + s.pending[u] \in Nat
    BY <1>3, <2>3
  <2> QED BY <1>4, <2>1, <2>4 DEF x, b
<1>7. /\ t0 \in NatStreams /\ t0.paid = s.paid /\ t0.pending = s.pending
      /\ t0.rate = s.rate /\ t0.pool = s.pool /\ t0.finish = s.finish
      /\ t0.stored = perToken
      /\ t0.last = l /\ t0.owed = s.owed + (weight * d) \div PRECISION
  BY <1>1, <1>2 DEF Advanced, d, l
<1> DEFINE f == [s.pending EXCEPT ![u] = earned]
           g == [s.paid EXCEPT ![u] = perToken]
<1>8. t = [t0 EXCEPT !.pending = f, !.paid = g]
  BY <1>5, <1>7 DEF NatStreams
<1>9. f \in [Users -> Nat] /\ g \in [Users -> Nat]
  BY <1>3, <1>6
<1>10. /\ f[u] = earned /\ g[u] = perToken
       /\ \A v \in Users \ {u} : f[v] = s.pending[v] /\ g[v] = s.paid[v]
  BY <1>3
<1> HIDE DEF f, g
<1>11. /\ t \in NatStreams /\ t.pending = f /\ t.paid = g
       /\ t.stored = t0.stored /\ t.last = t0.last /\ t.owed = t0.owed
       /\ t.rate = t0.rate /\ t.pool = t0.pool /\ t.finish = t0.finish
  BY <1>7, <1>8, <1>9 DEF NatStreams
<1>12. \A v \in Users \ {u} : SameCheckpoint(s, t, v)
  BY <1>10, <1>11 DEF SameCheckpoint
<1>13. /\ t.pending[u] = (part * (t.stored - s.paid[u])) \div PRECISION + s.pending[u]
       /\ t.paid[u] = t.stored /\ t.stored = s.stored + d
  BY <1>2, <1>4, <1>7, <1>10, <1>11
<1>14. /\ t.last = l /\ t.owed = s.owed + (weight * d) \div PRECISION
       /\ t.rate = s.rate /\ t.pool = s.pool /\ t.finish = s.finish
  BY <1>7, <1>11
<1>15. Banked(s, t, u, part, weight, minimum, now)
  BY <1>11, <1>12, <1>13, <1>14 DEF Banked, d, l
<1> QED BY <1>0, <1>15

\* What banking u, who held part of the weight, leaves of what is pending and
\* of the schedule.
AfterBanking(s, t, u, part) ==
    /\ t.last >= s.last
    /\ \A v \in Users \ {u} : t.pending[v] = s.pending[v]
    /\ part = 0 => t.pending[u] = s.pending[u]
    /\ t.rate = s.rate /\ t.finish = s.finish

\* Banking a user at the weight that earned it keeps the stream funded, whatever
\* weight the user has afterwards: what is banked is rounded down.
LEMMA BankFunded ==
  ASSUME IsFiniteSet(Users), NEW w \in [Users -> Nat], NEW weight, weight = Total(w),
         NEW minimum \in Nat, NEW now \in Nat, now > 0,
         NEW s, FundedStream(s, w, now), NEW u \in Users,
         NEW t, t = UpdateReward(s, u, w[u], weight, minimum, now),
         NEW w2 \in [Users -> Nat], \A v \in Users \ {u} : w2[v] = w[v]
  PROVE  FundedStream(t, w2, now) /\ AfterBanking(s, t, u, w[u])
<1> DEFINE t0 == UpdateAll(s, weight, minimum, now)
           part == w[u]
<1>1. /\ s \in NatStreams /\ \A v \in Users : s.paid[v] <= s.stored
      /\ part \in Nat /\ weight \in Nat
  BY TotalType DEF FundedStream, SoundStream
<1>2. FundedStream(t0, w, now) /\ t0.last >= s.last
  <2> HIDE DEF t0
  <2>1. t0 = UpdateAll(s, weight, minimum, now)
    BY DEF t0
  <2> QED BY <2>1, UpdateAllFunded
<1>3. Advanced(s, t0, weight, minimum, now)
  BY <1>1, UpdateAllAdvances
<1>4. Banked(s, t, u, part, weight, minimum, now)
  <2> HIDE DEF part
  <2>1. t = UpdateReward(s, u, part, weight, minimum, now)
    BY DEF part
  <2> QED BY <1>1, <2>1, UpdateRewardBanked
<1> HIDE DEF t0
<1>5. /\ t0 \in NatStreams /\ t0.paid = s.paid /\ t0.pending = s.pending
      /\ \A v \in Users : t0.paid[v] <= t0.stored
      /\ t.stored = t0.stored /\ t.last = t0.last /\ t.owed = t0.owed
      /\ t.rate = t0.rate /\ t.pool = t0.pool /\ t.finish = t0.finish
      /\ t0.rate = s.rate /\ t0.finish = s.finish
  BY <1>2, <1>3, <1>4 DEF Advanced, Banked, FundedStream, SoundStream
<1>6. /\ t \in NatStreams /\ t.paid[u] = t.stored
      /\ t.pending[u] = (part * (t.stored - s.paid[u])) \div PRECISION + s.pending[u]
      /\ \A v \in Users \ {u} : t.paid[v] = s.paid[v] /\ t.pending[v] = s.pending[v]
  BY <1>4 DEF Banked, SameCheckpoint
<1>7. /\ s.paid[u] \in Nat /\ s.pending[u] \in Nat /\ t.stored \in Nat /\ s.paid[u] <= t.stored
      /\ PRECISION \in Nat \ {0}
  BY <1>1, <1>5, <1>6, NatStreamFields, PrecisionAssumption
<1>8. \A v \in Users : t.paid[v] <= t.stored
  <2>1. t.stored <= t.stored
    BY <1>7
  <2> QED BY <1>5, <1>6, <2>1
<1> DEFINE b == t.stored - s.paid[u]
           x == part * b
           q == x \div PRECISION
           y == s.pending[u]
<1>9. b \in Nat /\ y \in Nat /\ t.pending[u] = q + y
  BY <1>6, <1>7
<1>10. x \in Nat
  <2> HIDE DEF b, part
  <2> QED BY <1>1, <1>9, ProductType
<1>11. q \in Nat /\ PRECISION * q <= x
  <2> HIDE DEF x
  <2> QED BY <1>10, FloorBounds, PrecisionAssumption
<1>12. RawShares(t, w2)[u] <= RawShares(t0, w)[u]
  <2>1. RawShares(t0, w)[u] = PRECISION * y + x
    BY <1>5 DEF RawShares
  <2>2. RawShares(t, w2)[u] = PRECISION * t.pending[u] + w2[u] * (t.stored - t.stored)
    BY <1>6 DEF RawShares
  <2>3. w2[u] * (t.stored - t.stored) = 0
    <3> DEFINE z == t.stored - t.stored
               k == w2[u]
    <3>1. z = 0 /\ k \in Nat
      BY <1>7
    <3> HIDE DEF z, k
    <3>2. k * z = 0
      BY <3>1
    <3> QED BY <3>2 DEF z, k
  <2> HIDE DEF b, x, q, y
  <2>4. PRECISION * (q + y) = PRECISION * q + PRECISION * y
        /\ PRECISION * q \in Nat /\ PRECISION * y \in Nat
    <3>1. PRECISION \in Nat /\ q \in Nat /\ y \in Nat
      BY <1>7, <1>9, <1>11
    <3>2. PRECISION * q \in Nat /\ PRECISION * y \in Nat
      BY <3>1, ProductType
    <3>3. PRECISION * (q + y) = PRECISION * q + PRECISION * y
      BY <3>1
    <3> QED BY <3>2, <3>3
  <2> QED BY <1>9, <1>10, <1>11, <2>1, <2>2, <2>3, <2>4
<1>13. ASSUME NEW v \in Users \ {u} PROVE RawShares(t, w2)[v] <= RawShares(t0, w)[v]
  <2>1. RawShares(t, w2)[v] = RawShares(t0, w)[v]
    BY <1>5, <1>6 DEF RawShares
  <2>2. RawShares(t0, w)[v] \in Nat
    BY <1>5, RawSharesType
  <2> QED BY <2>1, <2>2
<1>14. FundedStream(t, w2, now)
  <2>1. now <= now /\ \A v \in Users : RawShares(t, w2)[v] <= RawShares(t0, w)[v]
    BY <1>12, <1>13
  <2> QED BY <1>2, <1>5, <1>6, <1>8, <2>1, FewerSharesFunded
<1>15. part = 0 => t.pending[u] = s.pending[u]
  <2>1. part = 0 => x = 0
    BY <1>9
  <2>2. x = 0 => q = 0
    <3> HIDE DEF x
    <3> QED BY <1>7
  <2> HIDE DEF x, q
  <2> QED BY <1>9, <2>1, <2>2
<1>16. AfterBanking(s, t, u, part)
  BY <1>2, <1>5, <1>6, <1>15 DEF AfterBanking
<1> QED BY <1>14, <1>16

\* What paying u leaves of what is pending and of the schedule.
AfterSettling(s, t, u) ==
    /\ t.last = s.last
    /\ \A v \in Users \ {u} : t.pending[v] = s.pending[v]
    /\ t.pending[u] \in Nat /\ t.pending[u] <= s.pending[u]
    /\ t.pending[u] = 0 \/ t.pool = 0
    /\ t.rate = s.rate /\ t.finish = s.finish

\* Paying a user what is pending, as far as the pool goes, keeps it funded, and
\* leaves him with nothing pending or the pool with nothing.
LEMMA SettleFunded ==
  ASSUME IsFiniteSet(Users), NEW w \in [Users -> Nat], NEW now \in Nat,
         NEW s, FundedStream(s, w, now), NEW u \in Users,
         NEW t, t = SettleRewards(s, u)
  PROVE  FundedStream(t, w, now) /\ AfterSettling(s, t, u)
<1> DEFINE p == Settlement(s, u)
           newOwed == IF s.owed > p THEN s.owed - p ELSE 0
           newPending == [s.pending EXCEPT ![u] = s.pending[u] - p]
           newPool == s.pool - p
<1>1. /\ s \in NatStreams /\ \A v \in Users : s.paid[v] <= s.stored
      /\ SoundStream(s, now) /\ OwedCovers(s, w) /\ PoolCovers(s, w)
  BY DEF FundedStream, SoundStream
<1>2. /\ s.pending \in [Users -> Nat] /\ s.pending[u] \in Nat
      /\ s.pool \in Nat /\ s.owed \in Nat /\ s.last \in Nat /\ s.rate \in Nat /\ s.finish \in Nat
      /\ PRECISION \in Nat \ {0}
  BY <1>1, NatStreamFields, PrecisionAssumption
<1>3. /\ p \in Nat /\ p <= s.pool /\ p <= s.pending[u]
      /\ s.pending[u] - p = 0 \/ newPool = 0
  BY <1>2 DEF Settlement
<1>4. t = [s EXCEPT !.pending = newPending, !.owed = newOwed, !.pool = newPool]
  BY <1>1 DEF SettleRewards, NatStreams
<1> HIDE DEF p
<1>5. newPending \in [Users -> Nat] /\ newOwed \in Nat /\ newPool \in Nat /\ newOwed >= s.owed - p
  BY <1>2, <1>3
<1>6. newPending[u] = s.pending[u] - p /\ \A v \in Users \ {u} : newPending[v] = s.pending[v]
  BY <1>2
<1> HIDE DEF newOwed, newPending
<1>7. /\ t \in NatStreams /\ t.pending = newPending /\ t.owed = newOwed /\ t.pool = newPool
      /\ t.stored = s.stored /\ t.last = s.last /\ t.paid = s.paid
      /\ t.rate = s.rate /\ t.finish = s.finish
  <2> HIDE DEF newPool
  <2> QED BY <1>1, <1>4, <1>5 DEF NatStreams
<1>8. SoundStream(t, now)
  BY <1>1, <1>7 DEF SoundStream
<1> DEFINE f == RawShares(s, w)
           g == RawShares(t, w)
           a == PRECISION * p
           y == Total(f)
           x == Total(g)
<1>9. f \in [Users -> Nat] /\ g \in [Users -> Nat] /\ y \in Nat /\ x \in Nat
  <2>1. f \in [Users -> Nat] /\ y \in Nat
    BY <1>1, RawSharesType
  <2>2. g \in [Users -> Nat] /\ x \in Nat
    BY <1>7, <1>8, RawSharesType DEF SoundStream
  <2> QED BY <2>1, <2>2
<1>10. a \in Nat
  BY <1>2, <1>3, ProductType
<1>11. g[u] = f[u] - a
  <2> DEFINE b == s.pending[u]
             c == w[u] * (s.stored - s.paid[u])
  <2>1. f[u] = PRECISION * b + c /\ g[u] = PRECISION * (b - p) + c
    BY <1>6, <1>7 DEF RawShares
  <2>2. b \in Nat /\ c \in Nat
    <3>1. s.stored - s.paid[u] \in Nat /\ w[u] \in Nat
      BY <1>1, NatStreamFields
    <3> QED BY <1>2, <3>1, ProductType
  <2> HIDE DEF b, c, f, g
  <2>3. PRECISION * (b - p) = PRECISION * b - a /\ PRECISION * b \in Nat
    <3>1. PRECISION * b \in Nat
      BY <1>2, <2>2, ProductType
    <3>2. PRECISION * (b - p) = PRECISION * b - PRECISION * p
      BY <1>2, <1>3, <2>2
    <3> QED BY <3>1, <3>2
  <2> HIDE DEF a
  <2> QED BY <1>10, <2>1, <2>2, <2>3
<1>12. \A v \in Users \ {u} : g[v] = f[v]
  BY <1>6, <1>7 DEF RawShares
<1> HIDE DEF f, g
<1>13. x = y - a
  <2>1. Total(g) = Total(f) - f[u] + g[u]
    BY <1>9, <1>12, TotalChange
  <2>2. f[u] \in Nat
    BY <1>9
  <2> HIDE DEF a
  <2> QED BY <1>9, <1>10, <1>11, <2>1, <2>2
<1> DEFINE o == PRECISION * s.owed
           o2 == PRECISION * newOwed
           d == (PRECISION - 1) * SecondsBefore(s.last)
           m == PRECISION * (s.rate * SecondsLeft(s))
           n == PRECISION * s.pool
           n2 == PRECISION * newPool
<1>14. y <= o + d /\ y + m <= n + d
  BY <1>1 DEF OwedCovers, PoolCovers, f
<1>15. /\ o \in Int /\ o2 \in Int /\ d \in Int /\ m \in Int /\ n \in Int /\ n2 \in Int
       /\ o2 >= o - a /\ n2 = n - a
  <2>1. d \in Int /\ m \in Int /\ o \in Int /\ n \in Int
    BY <1>2 DEF SecondsBefore, SecondsLeft
  <2>2. o2 \in Int /\ n2 \in Int
    BY <1>2, <1>5
  <2>3. o2 >= o - a
    <3> DEFINE k == s.owed - p
    <3>1. k \in Int /\ newOwed \in Int /\ k <= newOwed
      BY <1>2, <1>3, <1>5
    <3>2. PRECISION * k = PRECISION * s.owed - PRECISION * p
      BY <1>2, <1>3
    <3> HIDE DEF k
    <3>3. PRECISION * k <= PRECISION * newOwed
      BY <1>2, <3>1, ScaleMonotone
    <3> QED BY <3>2, <3>3
  <2>4. n2 = n - a
    BY <1>2, <1>3
  <2> QED BY <2>1, <2>2, <2>3, <2>4
<1> HIDE DEF o, o2, d, m, n, n2, a, x, y
<1>16. x <= o2 + d /\ x + m <= n2 + d
  BY <1>9, <1>10, <1>13, <1>14, <1>15
<1>17. OwedCovers(t, w) /\ PoolCovers(t, w)
  <2>1. SecondsLeft(t) = SecondsLeft(s)
    BY <1>7 DEF SecondsLeft
  <2> QED BY <1>7, <1>16, <2>1 DEF OwedCovers, PoolCovers, x, g, o2, d, m, n2
<1>18. FundedStream(t, w, now)
  BY <1>8, <1>17 DEF FundedStream
<1>19. t.pending[u] \in Nat /\ t.pending[u] <= s.pending[u] /\ (t.pending[u] = 0 \/ t.pool = 0)
  BY <1>2, <1>3, <1>6, <1>7
<1>20. AfterSettling(s, t, u)
  BY <1>6, <1>7, <1>19 DEF AfterSettling
<1> QED BY <1>18, <1>20

\* A schedule for what the pool holds beyond what is owed can be paid.
LEMMA RecomputeFunded ==
  ASSUME IsFiniteSet(Users), NEW w \in [Users -> Nat], NEW now \in Nat, now > 0,
         NEW s \in NatStreams, \A u \in Users : s.paid[u] <= s.stored, s.last <= now,
         OwedCovers(s, w),
         Total(RawShares(s, w)) <= PRECISION * s.pool + (PRECISION - 1) * SecondsBefore(s.last),
         NEW t, t = RecomputePeriodFinish(s, now)
  PROVE  FundedStream(t, w, now) /\ t.last = now /\ t.pending = s.pending
<1> DEFINE unaccrued == IF s.pool > s.owed THEN s.pool - s.owed ELSE 0
           more == unaccrued \div s.rate
           finish == IF s.rate = 0 THEN now ELSE now + more
           r == s.rate
<1>1. /\ r \in Nat /\ s.last \in Nat /\ s.pool \in Nat /\ s.owed \in Nat
      /\ PRECISION \in Nat \ {0}
  BY NatStreamFields, PrecisionAssumption
<1>2. unaccrued \in Nat
  BY <1>1
<1>3. t = [s EXCEPT !.last = now, !.finish = finish]
  BY DEF RecomputePeriodFinish
<1> HIDE DEF unaccrued
<1>4. r # 0 => more \in Nat /\ r * more <= unaccrued
  BY <1>1, <1>2, FloorBounds
<1> HIDE DEF more
<1>5. finish \in Nat /\ finish >= now /\ r * (finish - now) \in Nat /\ r * (finish - now) <= unaccrued
  <2>1. CASE r = 0
    <3>1. finish = now
      BY <2>1
    <3>2. r * (finish - now) = 0
      BY <2>1, <3>1
    <3> QED BY <1>2, <3>1, <3>2
  <2>2. CASE r # 0
    <3>1. finish = now + more /\ more \in Nat /\ r * more <= unaccrued
      BY <1>4, <2>2
    <3>2. finish - now = more
      BY <3>1
    <3>3. r * more \in Nat
      BY <1>1, <3>1, ProductType
    <3> QED BY <3>1, <3>2, <3>3
  <2> QED BY <2>1, <2>2
<1> HIDE DEF finish
<1>6. /\ t \in NatStreams /\ t.last = now /\ t.finish = finish
      /\ t.stored = s.stored /\ t.owed = s.owed /\ t.pool = s.pool /\ t.rate = s.rate
      /\ t.paid = s.paid /\ t.pending = s.pending
  BY <1>3, <1>5 DEF NatStreams
<1>7. SoundStream(t, now)
  <2>1. t.finish # 0 /\ t.last <= t.finish /\ t.last <= now
    BY <1>5, <1>6
  <2> QED BY <1>6, <2>1 DEF SoundStream
<1>8. SecondsLeft(t) = finish - now
  BY <1>5, <1>6 DEF SecondsLeft
<1>9. RawShares(t, w) = RawShares(s, w)
  BY <1>6 DEF RawShares
<1> DEFINE x == Total(RawShares(s, w))
           m == r * (finish - now)
           a == SecondsBefore(s.last)
           b == SecondsBefore(now)
           q == PRECISION - 1
           d == q * a
           e == q * b
           o == PRECISION * s.owed
           p == PRECISION * s.pool
           k == PRECISION * m
           l == PRECISION * unaccrued
<1>10. x \in Nat /\ m \in Nat /\ m <= unaccrued
  BY <1>5, RawSharesType
<1>11. d \in Int /\ e \in Int /\ d <= e
  <2>1. a \in Int /\ b \in Int /\ a <= b /\ q \in Nat
    BY <1>1 DEF SecondsBefore
  <2> HIDE DEF a, b, q
  <2> QED BY <2>1, ScaleMonotone
<1>12. /\ o \in Int /\ p \in Int /\ k \in Int /\ l \in Int /\ k <= l
       /\ l = IF s.pool > s.owed THEN p - o ELSE 0
  <2>1. o \in Int /\ p \in Int
    BY <1>1
  <2>2. k \in Int /\ l \in Int /\ k <= l
    <3> HIDE DEF m
    <3> QED BY <1>1, <1>2, <1>10, ScaleMonotone
  <2>3. l = IF s.pool > s.owed THEN p - o ELSE 0
    <3>1. CASE s.pool > s.owed
      BY <1>1, <3>1 DEF unaccrued
    <3>2. CASE ~(s.pool > s.owed)
      <4>1. unaccrued = 0
        BY <3>2 DEF unaccrued
      <4> QED BY <1>1, <3>2, <4>1
    <3> QED BY <3>1, <3>2
  <2> QED BY <2>1, <2>2, <2>3
<1>13. x <= o + d /\ x <= p + d
  BY DEF OwedCovers
<1> HIDE DEF x, m, a, b, q, d, e, o, p, k, l
<1>14. x <= o + e /\ x + k <= p + e
  BY <1>10, <1>11, <1>12, <1>13
<1>15. OwedCovers(t, w) /\ PoolCovers(t, w)
  BY <1>6, <1>8, <1>9, <1>14 DEF OwedCovers, PoolCovers, x, e, q, b, o, p, k, m, r
<1> QED BY <1>6, <1>7, <1>15 DEF FundedStream

\* The stream t0 scheduled anew with pool p, or with rate r.
Schedules(t0, p, r, now) ==
    {RecomputePeriodFinish([t0 EXCEPT !.pool = p], now),
     RecomputePeriodFinish([t0 EXCEPT !.rate = r], now)}

\* A stream brought up to date, with a larger pool or another rate, and
\* scheduled anew.
LEMMA ScheduleFunded ==
  ASSUME IsFiniteSet(Users), NEW w \in [Users -> Nat], NEW weight, weight = Total(w),
         NEW minimum \in Nat, NEW now \in Nat, now > 0,
         NEW s, FundedStream(s, w, now), NEW n \in Nat, NEW r \in Nat,
         NEW t0, t0 = UpdateAll(s, weight, minimum, now),
         NEW t \in Schedules(t0, s.pool + n, r, now)
  PROVE  FundedStream(t, w, now) /\ t.last >= s.last /\ t.pending = s.pending
<1>1. FundedStream(t0, w, now) /\ t0.last >= s.last
  BY UpdateAllFunded
<1>2. /\ s \in NatStreams /\ weight \in Nat
  BY TotalType DEF FundedStream, SoundStream
<1>3. /\ t0 \in NatStreams /\ t0.pool = s.pool /\ t0.pending = s.pending
  <2>1. Advanced(s, t0, weight, minimum, now)
    BY <1>2, UpdateAllAdvances
  <2> QED BY <2>1 DEF Advanced
<1>4. /\ \A u \in Users : t0.paid[u] <= t0.stored
      /\ t0.last <= now /\ OwedCovers(t0, w) /\ PoolCovers(t0, w)
  BY <1>1 DEF FundedStream, SoundStream
<1>5. /\ s.pool \in Nat /\ s.last \in Nat /\ t0.last \in Nat /\ t0.rate \in Nat /\ PRECISION \in Nat \ {0}
  BY <1>2, <1>3, NatStreamFields, PrecisionAssumption
<1> DEFINE pool == s.pool + n
           a == [t0 EXCEPT !.pool = pool]
           b == [t0 EXCEPT !.rate = r]
<1>6. pool \in Nat /\ pool >= s.pool
  BY <1>5
<1> HIDE DEF pool
<1>7. PICK c \in {a, b} : t = RecomputePeriodFinish(c, now)
  BY DEF pool, Schedules
<1>8. /\ c \in NatStreams /\ c.pool \in {s.pool, pool}
      /\ c.stored = t0.stored /\ c.last = t0.last /\ c.owed = t0.owed
      /\ c.paid = t0.paid /\ c.pending = t0.pending
  BY <1>3, <1>6 DEF NatStreams
<1> HIDE DEF a, b
<1>9. OwedCovers(c, w)
  <2>1. RawShares(c, w) = RawShares(t0, w)
    BY <1>8 DEF RawShares
  <2> QED BY <1>4, <1>8, <2>1 DEF OwedCovers
<1>10. Total(RawShares(c, w)) <= PRECISION * c.pool + (PRECISION - 1) * SecondsBefore(c.last)
  <2> DEFINE x == Total(RawShares(t0, w))
             m == PRECISION * (t0.rate * SecondsLeft(t0))
             d == (PRECISION - 1) * SecondsBefore(t0.last)
             p == PRECISION * s.pool
             p2 == PRECISION * c.pool
  <2>1. RawShares(c, w) = RawShares(t0, w)
    BY <1>8 DEF RawShares
  <2>2. x + m <= p + d
    BY <1>3, <1>4 DEF PoolCovers
  <2>3. x \in Nat
    BY <1>3, <1>4, RawSharesType
  <2>4. m \in Nat
    <3>1. SecondsLeft(t0) \in Nat
      BY <1>3, NatStreamFields DEF SecondsLeft
    <3>2. t0.rate * SecondsLeft(t0) \in Nat
      BY <1>5, <3>1, ProductType
    <3> QED BY <1>5, <3>2, ProductType
  <2>5. d \in Int
    BY <1>5 DEF SecondsBefore
  <2>6. p \in Int /\ p2 \in Int /\ p <= p2
    <3>1. c.pool \in Nat /\ s.pool <= c.pool
      BY <1>5, <1>6, <1>8
    <3> QED BY <1>5, <3>1, ScaleMonotone
  <2> HIDE DEF x, m, d, p, p2
  <2>7. x <= p2 + d
    BY <2>2, <2>3, <2>4, <2>5, <2>6
  <2> QED BY <1>8, <2>1, <2>7 DEF x, d, p2
<1>11. /\ \A u \in Users : c.paid[u] <= c.stored
       /\ c.last <= now
  BY <1>4, <1>8
<1>12. FundedStream(t, w, now) /\ t.last = now /\ t.pending = c.pending
  BY <1>7, <1>8, <1>9, <1>10, <1>11, RecomputeFunded
<1>13. s.last <= now
  BY DEF FundedStream, SoundStream
<1> QED BY <1>3, <1>8, <1>12, <1>13

\* The stream s rescued down to p tokens.
RescuedStream(s, p, now) == [s EXCEPT !.pool = p, !.rate = 0, !.finish = now]

\* A rescue ends the schedule: what is left in the pool has to cover what users
\* have.
LEMMA RescueFunded ==
  ASSUME IsFiniteSet(Users), NEW w \in [Users -> Nat], NEW now \in Nat, now > 0,
         NEW s, FundedStream(s, w, now), NEW p \in Nat,
         Total(RawShares(s, w)) <= PRECISION * p + (PRECISION - 1) * SecondsBefore(s.last),
         NEW t, t = RescuedStream(s, p, now)
  PROVE  FundedStream(t, w, now) /\ t.last = s.last /\ t.pending = s.pending
<1>1. /\ s \in NatStreams /\ \A u \in Users : s.paid[u] <= s.stored
      /\ SoundStream(s, now) /\ OwedCovers(s, w)
  BY DEF FundedStream, SoundStream
<1>2. /\ t \in NatStreams /\ t.pool = p /\ t.rate = 0 /\ t.finish = now
      /\ t.stored = s.stored /\ t.last = s.last /\ t.owed = s.owed
      /\ t.paid = s.paid /\ t.pending = s.pending
  <2> DEFINE zero == 0
  <2>1. zero \in Nat /\ t = [s EXCEPT !.pool = p, !.rate = zero, !.finish = now]
    BY DEF RescuedStream
  <2> HIDE DEF zero
  <2>2. /\ t \in NatStreams /\ t.pool = p /\ t.rate = zero /\ t.finish = now
        /\ t.stored = s.stored /\ t.last = s.last /\ t.owed = s.owed
        /\ t.paid = s.paid /\ t.pending = s.pending
    BY <1>1, <2>1 DEF NatStreams
  <2> QED BY <2>2 DEF zero
<1>3. SoundStream(t, now)
  <2>1. s.last <= now
    BY <1>1 DEF SoundStream
  <2>2. \A u \in Users : t.paid[u] <= t.stored
    BY <1>1, <1>2
  <2> QED BY <1>2, <2>1, <2>2 DEF SoundStream
<1>4. RawShares(t, w) = RawShares(s, w)
  BY <1>2 DEF RawShares
<1>5. OwedCovers(t, w)
  BY <1>1, <1>2, <1>4 DEF OwedCovers
<1>6. PoolCovers(t, w)
  <2> DEFINE x == Total(RawShares(s, w))
             m == PRECISION * (t.rate * SecondsLeft(t))
  <2>1. x \in Nat
    BY <1>1, RawSharesType
  <2>2. m = 0
    <3>1. SecondsLeft(t) \in Int
      <4>1. t.finish \in Nat /\ t.last \in Nat
        BY <1>1, <1>2, NatStreamFields
      <4> HIDE DEF x, m
      <4> QED BY <4>1 DEF SecondsLeft
    <3>2. t.rate * SecondsLeft(t) = 0
      BY <1>2, <3>1
    <3> QED BY <3>2, PrecisionAssumption
  <2> HIDE DEF x, m
  <2>3. x + m = x
    BY <2>1, <2>2
  <2> QED BY <1>2, <1>4, <2>3 DEF PoolCovers, x, m
<1> QED BY <1>2, <1>3, <1>5, <1>6 DEF FundedStream

\* Setting the clock of a stream without a schedule.
LEMMA RestartFunded ==
  ASSUME IsFiniteSet(Users), NEW w \in [Users -> Nat], NEW now \in Nat,
         NEW s, FundedStream(s, w, now), s.finish = 0,
         NEW t, t = [s EXCEPT !.last = now]
  PROVE  FundedStream(t, w, now)
<1>1. /\ s \in NatStreams /\ \A u \in Users : s.paid[u] <= s.stored
      /\ s.rate = 0 /\ s.last <= now
      /\ OwedCovers(s, w) /\ PoolCovers(s, w)
  BY DEF FundedStream, SoundStream
<1>2. /\ t \in NatStreams /\ t.last = now /\ t.rate = s.rate /\ t.finish = s.finish
      /\ t.stored = s.stored /\ t.owed = s.owed /\ t.pool = s.pool
      /\ t.paid = s.paid /\ t.pending = s.pending
  BY <1>1 DEF NatStreams
<1>3. SoundStream(t, now)
  BY <1>1, <1>2 DEF SoundStream
<1>4. RawShares(t, w) = RawShares(s, w) /\ SecondsLeft(s) = 0 /\ SecondsLeft(t) = 0
  BY <1>1, <1>2, NatStreamFields DEF RawShares, SecondsLeft
<1> DEFINE x == Total(RawShares(s, w))
           o == PRECISION * s.owed
           p == PRECISION * s.pool
           a == SecondsBefore(s.last)
           b == SecondsBefore(now)
           q == PRECISION - 1
           d == q * a
           e == q * b
           m == PRECISION * (s.rate * 0)
<1>5. /\ x \in Nat /\ o \in Int /\ p \in Int /\ m = 0
  BY <1>1, RawSharesType, NatStreamFields, PrecisionAssumption
<1>6. d \in Int /\ e \in Int /\ d <= e
  <2>1. a \in Int /\ b \in Int /\ a <= b /\ q \in Nat
    BY <1>1, NatStreamFields, PrecisionAssumption DEF SecondsBefore
  <2> HIDE DEF a, b, q
  <2> QED BY <2>1, ScaleMonotone
<1>7. x <= o + d /\ x + m <= p + d
  BY <1>1, <1>4 DEF OwedCovers, PoolCovers
<1> HIDE DEF x, o, p, a, b, q, d, e, m
<1>8. x <= o + e /\ x + m <= p + e
  BY <1>5, <1>6, <1>7
<1>9. OwedCovers(t, w) /\ PoolCovers(t, w)
  BY <1>2, <1>4, <1>8 DEF OwedCovers, PoolCovers, x, o, p, b, q, e, m
<1> QED BY <1>3, <1>9 DEF FundedStream

\* A new stream is funded.
LEMMA NewStreamFunded ==
  ASSUME IsFiniteSet(Users), NEW w \in [Users -> Nat], NEW t \in {0, 1}, NEW now \in Nat, t <= now
  PROVE  /\ FundedStream(NewStream(t), w, now) /\ NewStream(t).pool = 0
         /\ NewStream(t).finish = 0 /\ \A u \in Users : NewStream(t).pending[u] = 0
<1> DEFINE s == NewStream(t)
<1>1. /\ s \in NatStreams /\ s.rate = 0 /\ s.stored = 0 /\ s.last = t /\ s.pool = 0
      /\ s.finish = 0 /\ s.owed = 0
      /\ s.paid = [u \in Users |-> 0] /\ s.pending = [u \in Users |-> 0]
  BY DEF NewStream, NatStreams
<1> HIDE DEF s
<1>2. SoundStream(s, now)
  BY <1>1 DEF SoundStream
<1>3. Total(RawShares(s, w)) = 0
  <2>1. ASSUME NEW u \in Users PROVE RawShares(s, w)[u] = 0
    <3>1. RawShares(s, w)[u] = PRECISION * 0 + w[u] * (0 - 0)
      BY <1>1 DEF RawShares
    <3>2. w[u] \in Nat /\ PRECISION \in Nat
      BY PrecisionAssumption
    <3> QED BY <3>1, <3>2
  <2>2. DOMAIN RawShares(s, w) = Users
    BY DEF RawShares
  <2> QED BY <2>1, <2>2, TotalZero
<1>4. SecondsLeft(s) = 0 /\ SecondsBefore(s.last) = 0
  BY <1>1 DEF SecondsLeft, SecondsBefore
<1>5. /\ PRECISION * s.owed + (PRECISION - 1) * SecondsBefore(s.last) = 0
      /\ PRECISION * s.pool + (PRECISION - 1) * SecondsBefore(s.last) = 0
      /\ PRECISION * (s.rate * SecondsLeft(s)) = 0
  <2>1. PRECISION \in Nat
    BY PrecisionAssumption
  <2> QED BY <1>1, <1>4, <2>1
<1>6. OwedCovers(s, w) /\ PoolCovers(s, w)
  BY <1>3, <1>5 DEF OwedCovers, PoolCovers
<1> QED BY <1>1, <1>2, <1>6 DEF FundedStream, s

(***************************************************************************)
(* What users without weight have: it stays behind when everybody has left. *)
(***************************************************************************)
IdleShares(s, w) == [u \in Users |-> IF w[u] = 0 THEN PRECISION * s.pending[u] ELSE 0]

\* It is dust: a user leaves paid, or with an empty pool.
IdleDust(s, w) == Total(IdleShares(s, w)) <= (PRECISION - 1) * SecondsBefore(s.last)

\* It is a natural number for each user, and no more than what he has.
LEMMA IdleSharesType ==
  ASSUME NEW s \in NatStreams, NEW w \in [Users -> Nat]
  PROVE  IdleShares(s, w) \in [Users -> Nat]
<1>1. ASSUME NEW u \in Users PROVE (IF w[u] = 0 THEN PRECISION * s.pending[u] ELSE 0) \in Nat
  <2>1. s.pending[u] \in Nat /\ PRECISION \in Nat
    BY NatStreamFields, PrecisionAssumption
  <2> QED BY <2>1, ProductType
<1> QED BY <1>1 DEF IdleShares

\* Dust stays dust while only those leave who have nothing pending.
LEMMA IdleKept ==
  ASSUME IsFiniteSet(Users), NEW s \in NatStreams, NEW t \in NatStreams,
         NEW w \in [Users -> Nat], NEW w2 \in [Users -> Nat],
         IdleDust(s, w), s.last <= t.last,
         \A u \in Users : w2[u] = 0 => \/ t.pending[u] = 0
                                       \/ w[u] = 0 /\ t.pending[u] <= s.pending[u]
  PROVE  IdleDust(t, w2)
<1> DEFINE f == IdleShares(t, w2)
           g == IdleShares(s, w)
<1>1. f \in [Users -> Nat] /\ g \in [Users -> Nat] /\ Users \in SUBSET Users
  BY IdleSharesType
<1>2. ASSUME NEW u \in Users PROVE f[u] <= g[u]
  <2>1. /\ t.pending[u] \in Nat /\ s.pending[u] \in Nat /\ PRECISION \in Nat
        /\ f[u] \in Nat /\ g[u] \in Nat
    BY <1>1, NatStreamFields, PrecisionAssumption
  <2>2. CASE w2[u] # 0
    BY <2>1, <2>2 DEF IdleShares
  <2>3. CASE t.pending[u] = 0
    <3>1. PRECISION * t.pending[u] = 0
      BY <2>1, <2>3
    <3> QED BY <2>1, <3>1 DEF IdleShares
  <2>4. CASE w2[u] = 0 /\ w[u] = 0 /\ t.pending[u] <= s.pending[u]
    <3>1. f[u] = PRECISION * t.pending[u] /\ g[u] = PRECISION * s.pending[u]
      BY <2>4 DEF IdleShares
    <3>2. PRECISION * t.pending[u] <= PRECISION * s.pending[u]
      BY <2>1, <2>4, ScaleMonotone
    <3> QED BY <3>1, <3>2
  <2> QED BY <2>2, <2>3, <2>4
<1> DEFINE a == SecondsBefore(s.last)
           b == SecondsBefore(t.last)
           q == PRECISION - 1
<1>3. a \in Int /\ b \in Int /\ a <= b /\ q \in Nat
  BY NatStreamFields, PrecisionAssumption DEF SecondsBefore
<1> HIDE DEF f, g, a, b, q
<1>4. Total(f) <= Total(g) /\ Total(f) \in Nat /\ Total(g) \in Nat
  BY <1>1, <1>2, TotalMonotone, TotalType
<1>5. q * a \in Int /\ q * b \in Int /\ q * a <= q * b
  BY <1>3, ScaleMonotone
<1>6. Total(g) <= q * a
  BY DEF IdleDust, g, q, a
<1> DEFINE x == q * a
           y == q * b
<1> HIDE DEF x, y
<1>7. Total(f) <= y
  <2>1. x \in Int /\ y \in Int /\ x <= y /\ Total(g) <= x
    BY <1>5, <1>6 DEF x, y
  <2> QED BY <1>4, <2>1
<1> QED BY <1>7 DEF IdleDust, f, q, b, y

\* What a funded stream with an empty pool has promised is dust.
LEMMA EmptyPoolIdle ==
  ASSUME IsFiniteSet(Users), NEW w \in [Users -> Nat], NEW now, NEW s, FundedStream(s, w, now),
         s.pool = 0
  PROVE  IdleDust(s, w)
<1>1. s \in NatStreams /\ (\A u \in Users : s.paid[u] <= s.stored) /\ PoolCovers(s, w)
  BY DEF FundedStream, SoundStream
<1> DEFINE f == IdleShares(s, w)
           g == RawShares(s, w)
           m == PRECISION * (s.rate * SecondsLeft(s))
           d == (PRECISION - 1) * SecondsBefore(s.last)
<1>2. f \in [Users -> Nat] /\ g \in [Users -> Nat] /\ Users \in SUBSET Users
  BY <1>1, IdleSharesType, RawSharesType
<1>3. ASSUME NEW u \in Users PROVE f[u] <= g[u]
  <2> DEFINE x == PRECISION * s.pending[u]
             b == s.stored - s.paid[u]
             y == w[u] * b
  <2>1. s.pending[u] \in Nat /\ PRECISION \in Nat /\ w[u] \in Nat /\ b \in Nat
    BY <1>1, NatStreamFields, PrecisionAssumption
  <2>2. x \in Nat
    BY <2>1, ProductType
  <2>3. y \in Nat
    <3> HIDE DEF b
    <3> QED BY <2>1, ProductType
  <2>4. g[u] = x + y /\ f[u] = IF w[u] = 0 THEN x ELSE 0
    BY DEF RawShares, IdleShares
  <2> HIDE DEF f, g, x, y
  <2> QED BY <2>2, <2>3, <2>4
<1>4. m \in Nat /\ d \in Int
  <2>1. SecondsLeft(s) \in Nat /\ SecondsBefore(s.last) \in Nat /\ s.rate \in Nat /\ PRECISION \in Nat
    BY <1>1, NatStreamFields, PrecisionAssumption DEF SecondsLeft, SecondsBefore
  <2>2. s.rate * SecondsLeft(s) \in Nat
    BY <2>1, ProductType
  <2>3. m \in Nat
    BY <2>1, <2>2, ProductType
  <2> QED BY <2>1, <2>3
<1>5. Total(g) + m <= d
  <2>1. PRECISION * s.pool = 0
    BY PrecisionAssumption
  <2>2. Total(g) + m <= PRECISION * s.pool + d
    BY <1>1 DEF PoolCovers
  <2> HIDE DEF d
  <2> QED BY <1>4, <2>1, <2>2
<1> HIDE DEF f, g, m, d
<1>6. Total(f) <= Total(g) /\ Total(f) \in Nat /\ Total(g) \in Nat
  BY <1>2, <1>3, TotalMonotone, TotalType
<1>7. Total(f) <= d
  BY <1>4, <1>5, <1>6
<1> QED BY <1>7 DEF IdleDust, f, d

\* Without weight everything is with those who have left.
LEMMA IdleWithoutWeight ==
  ASSUME IsFiniteSet(Users), NEW w \in [Users -> Nat], Total(w) = 0,
         NEW s \in NatStreams, IdleDust(s, w)
  PROVE  Total(RawShares(s, w)) <= (PRECISION - 1) * SecondsBefore(s.last)
<1>1. ASSUME NEW u \in Users PROVE w[u] = 0
  <2>1. w[u] <= Total(w) /\ w[u] \in Nat
    BY TotalBound
  <2> QED BY <2>1
<1>2. ASSUME NEW u \in Users PROVE RawShares(s, w)[u] = IdleShares(s, w)[u]
  <2> DEFINE x == PRECISION * s.pending[u]
             b == s.stored - s.paid[u]
  <2>1. x \in Int /\ b \in Int
    BY NatStreamFields, PrecisionAssumption
  <2>2. RawShares(s, w)[u] = x + 0 * b /\ IdleShares(s, w)[u] = x
    BY <1>1 DEF RawShares, IdleShares
  <2> HIDE DEF x, b
  <2>3. 0 * b = 0
    BY <2>1
  <2> QED BY <2>1, <2>2, <2>3
<1>3. RawShares(s, w) = IdleShares(s, w)
  BY <1>2 DEF RawShares, IdleShares
<1> QED BY <1>3 DEF IdleDust

\* What users of a funded stream have earned up to now, each amount rounded
\* down, is in the pool but for the dust.
LEMMA FundedEarned ==
  ASSUME IsFiniteSet(Users), NEW w \in [Users -> Nat], NEW weight, weight = Total(w),
         NEW minimum \in Nat, NEW now \in Nat, now > 0,
         NEW s, FundedStream(s, w, now)
  PROVE  Total([u \in Users |-> Earned(s, u, w[u], weight, minimum, now)]) <= s.pool + Dust(now)
<1> DEFINE t == UpdateAll(s, weight, minimum, now)
           earned == [u \in Users |-> Earned(s, u, w[u], weight, minimum, now)]
           zeros == [u \in Users |-> 0]
           scaled == [u \in Users |-> PRECISION * earned[u]]
           raw == RawShares(t, w)
<1>1. FundedStream(t, w, now)
  <2> HIDE DEF t
  <2>1. t = UpdateAll(s, weight, minimum, now)
    BY DEF t
  <2> QED BY <2>1, UpdateAllFunded
<1>2. s \in NatStreams /\ weight \in Nat /\ PRECISION \in Nat \ {0} /\ s.pool \in Nat
  BY TotalType, NatStreamFields, PrecisionAssumption DEF FundedStream, SoundStream
<1>3. /\ t.stored = RewardPerToken(s, weight, minimum, now)
      /\ t.paid = s.paid /\ t.pending = s.pending /\ t.pool = s.pool
  <2>1. Advanced(s, t, weight, minimum, now)
    BY <1>2, UpdateAllAdvances
  <2> HIDE DEF t, earned, zeros, scaled, raw
  <2>2. RewardPerToken(s, weight, minimum, now) = s.stored + Gain(s, weight, minimum, now)
    BY <1>2, GainAdds
  <2> QED BY <2>1, <2>2 DEF Advanced
<1>4. /\ t \in NatStreams /\ (\A u \in Users : t.paid[u] <= t.stored) /\ t.last <= now
      /\ PoolCovers(t, w)
  BY <1>1 DEF FundedStream, SoundStream
<1> HIDE DEF t
<1>5. ASSUME NEW u \in Users PROVE earned[u] \in Nat /\ scaled[u] \in Nat /\ scaled[u] <= raw[u]
  <2> DEFINE b == t.stored - t.paid[u]
             c == w[u]
             x == c * b
             y == t.pending[u]
             q == x \div PRECISION
  <2>1. b \in Nat /\ c \in Nat /\ y \in Nat
    BY <1>4, NatStreamFields
  <2>2. earned[u] = q + y /\ raw[u] = PRECISION * y + x
    BY <1>3 DEF Earned, RawShares
  <2> HIDE DEF b, c
  <2>3. x \in Nat
    BY <2>1, ProductType
  <2> HIDE DEF x, y, earned, raw
  <2>4. q \in Nat /\ PRECISION * q <= x
    BY <1>2, <2>3, FloorBounds
  <2> HIDE DEF q
  <2>5. earned[u] \in Nat /\ scaled[u] = PRECISION * (q + y)
    BY <2>1, <2>2, <2>4
  <2>6. PRECISION * (q + y) = PRECISION * q + PRECISION * y
        /\ PRECISION * q \in Nat /\ PRECISION * y \in Nat
    <3>1. PRECISION * q \in Nat /\ PRECISION * y \in Nat
      BY <1>2, <2>1, <2>4, ProductType
    <3>2. PRECISION * (q + y) = PRECISION * q + PRECISION * y
      BY <1>2, <2>1, <2>4
    <3> QED BY <3>1, <3>2
  <2> QED BY <2>2, <2>3, <2>4, <2>5, <2>6
<1>6. raw \in [Users -> Nat] /\ earned \in [Users -> Nat] /\ scaled \in [Users -> Nat] /\ zeros \in [Users -> Nat]
  <2>1. raw \in [Users -> Nat]
    BY <1>4, RawSharesType
  <2> QED BY <1>5, <2>1
<1>7. Total(zeros) = 0
  BY TotalZero
<1>8. \A u \in Users : scaled[u] = zeros[u] + PRECISION * earned[u]
  BY <1>5
<1>9. Users \in SUBSET Users /\ PRECISION \in Nat
  BY <1>2
<1> HIDE DEF earned, scaled, zeros, raw
<1>10. Total(scaled) = PRECISION * Total(earned) /\ Total(earned) \in Nat /\ Total(raw) \in Nat
  <2>1. Total(scaled) = Total(zeros) + PRECISION * Total(earned)
    BY <1>6, <1>8, <1>9, TotalLinear
  <2>2. Total(earned) \in Nat /\ Total(raw) \in Nat
    BY <1>6, TotalType
  <2>3. PRECISION * Total(earned) \in Nat
    BY <1>9, <2>2, ProductType
  <2> QED BY <1>7, <2>1, <2>2, <2>3
<1>11. Total(scaled) <= Total(raw)
  BY <1>5, <1>6, <1>9, TotalMonotone
<1> DEFINE m == PRECISION * (t.rate * SecondsLeft(t))
           a == SecondsBefore(t.last)
           b == now - 1
           k == PRECISION - 1
           d == k * a
           e == k * b
<1>12. Total(raw) + m <= PRECISION * s.pool + d
  BY <1>3, <1>4 DEF PoolCovers, raw
<1>13. m \in Nat
  <2>1. SecondsLeft(t) \in Nat /\ t.rate \in Nat
    BY <1>4, NatStreamFields DEF SecondsLeft
  <2>2. t.rate * SecondsLeft(t) \in Nat
    BY <2>1, ProductType
  <2> QED BY <1>9, <2>2, ProductType
<1>14. d \in Int /\ e \in Nat /\ d <= e
  <2>1. a \in Int /\ b \in Nat /\ a <= b /\ k \in Nat
    BY <1>2, <1>4, NatStreamFields DEF SecondsBefore
  <2> HIDE DEF a, b, k
  <2> QED BY <2>1, ScaleMonotone, ProductType
<1>15. PRECISION * (s.pool + e \div PRECISION) + (PRECISION - 1) >= PRECISION * s.pool + e
  <2> DEFINE q == e \div PRECISION
  <2> HIDE DEF e
  <2>1. q \in Nat /\ e <= PRECISION * q + (PRECISION - 1)
    BY <1>2, <1>14, FloorBounds
  <2> HIDE DEF q
  <2>2. PRECISION * (s.pool + q) = PRECISION * s.pool + PRECISION * q
    BY <1>2, <2>1
  <2>3. PRECISION * s.pool \in Nat /\ PRECISION * q \in Nat
    BY <1>2, <2>1, ProductType
  <2> QED BY <1>2, <1>14, <2>1, <2>2, <2>3 DEF q
<1> HIDE DEF m, a, b, d, e
<1> DEFINE x == Total(earned)
           y == s.pool + e \div PRECISION
<1>16. PRECISION * x <= PRECISION * y + (PRECISION - 1)
  <2> DEFINE p == PRECISION * s.pool
             z == PRECISION * x
             r == PRECISION * y
  <2>1. p \in Int /\ z \in Int /\ y \in Nat
    <3>1. e \div PRECISION \in Nat
      BY <1>2, <1>14, FloorBounds
    <3> QED BY <1>2, <1>10, <3>1
  <2>2. r \in Int
    <3> HIDE DEF y
    <3> QED BY <1>2, <2>1
  <2>3. z <= Total(raw) /\ Total(raw) + m <= p + d /\ r + (PRECISION - 1) >= p + e
    BY <1>10, <1>11, <1>12, <1>15
  <2> HIDE DEF p, z, r, x, y
  <2>4. z <= r + (PRECISION - 1)
    BY <1>2, <1>10, <1>13, <1>14, <2>1, <2>2, <2>3
  <2> QED BY <2>4 DEF z, r
<1>17. x <= y
  <2>1. x \in Nat /\ y \in Nat
    <3>1. e \div PRECISION \in Nat
      BY <1>2, <1>14, FloorBounds
    <3> QED BY <1>2, <1>10, <3>1
  <2> HIDE DEF x, y
  <2> SUFFICES ASSUME x > y PROVE FALSE
    BY <2>1
  <2>2. PRECISION * (y + 1) <= PRECISION * x
    <3> DEFINE y1 == y + 1
    <3>1. y1 \in Int /\ x \in Int /\ y1 <= x
      BY <2>1
    <3> HIDE DEF y1
    <3>2. PRECISION * y1 <= PRECISION * x
      BY <1>9, <3>1, ScaleMonotone
    <3> QED BY <3>2 DEF y1
  <2>3. PRECISION * (y + 1) = PRECISION * y + PRECISION /\ PRECISION * y \in Nat /\ PRECISION * x \in Nat
    <3>1. PRECISION * y \in Nat /\ PRECISION * x \in Nat
      BY <1>9, <2>1, ProductType
    <3>2. PRECISION * (y + 1) = PRECISION * y + PRECISION
      BY <1>9, <2>1
    <3> QED BY <3>1, <3>2
  <2> QED BY <1>2, <1>16, <2>2, <2>3
<1>18. Dust(now) = e \div PRECISION
  BY DEF Dust, e, b
<1> QED BY <1>17, <1>18 DEF earned

\* t is s brought up to date for u, who is paid or not.
BanksOrPays(s, t, u, part, weight, minimum, now) ==
    \/ t = UpdateReward(s, u, part, weight, minimum, now)
    \/ t = SettleRewards(UpdateReward(s, u, part, weight, minimum, now), u)

\* That keeps the schedule of the stream.
LEMMA BankOrSettleSchedule ==
  ASSUME IsFiniteSet(Users), NEW w \in [Users -> Nat], NEW weight, weight = Total(w),
         NEW minimum \in Nat, NEW now \in Nat, now > 0,
         NEW s, FundedStream(s, w, now), NEW u \in Users,
         NEW t, BanksOrPays(s, t, u, w[u], weight, minimum, now)
  PROVE  t.finish = s.finish
<1>0. PICK r : /\ r = UpdateReward(s, u, w[u], weight, minimum, now)
               /\ t = r \/ t = SettleRewards(r, u)
  BY DEF BanksOrPays
<1>1. FundedStream(r, w, now) /\ AfterBanking(s, r, u, w[u])
  BY <1>0, BankFunded
<1>2. r.finish = s.finish
  BY <1>1 DEF AfterBanking
<1>3. ASSUME t = SettleRewards(r, u) PROVE t.finish = r.finish
  <2>1. AfterSettling(r, t, u)
    BY <1>1, <1>3, SettleFunded
  <2> QED BY <2>1 DEF AfterSettling
<1> QED BY <1>0, <1>2, <1>3

\* It keeps the stream funded, whatever weight he has afterwards.
LEMMA BankOrSettleFunded ==
  ASSUME IsFiniteSet(Users), NEW w \in [Users -> Nat], NEW weight, weight = Total(w),
         NEW minimum \in Nat, NEW now \in Nat, now > 0,
         NEW s, FundedStream(s, w, now), NEW u \in Users,
         NEW t, BanksOrPays(s, t, u, w[u], weight, minimum, now),
         NEW w2 \in [Users -> Nat], \A v \in Users \ {u} : w2[v] = w[v]
  PROVE  FundedStream(t, w2, now)
<1>0. PICK r : /\ r = UpdateReward(s, u, w[u], weight, minimum, now)
               /\ t = r \/ t = SettleRewards(r, u)
  BY DEF BanksOrPays
<1>1. FundedStream(r, w2, now)
  BY <1>0, BankFunded
<1>2. ASSUME t = SettleRewards(r, u) PROVE FundedStream(t, w2, now)
  BY <1>1, <1>2, SettleFunded
<1> QED BY <1>0, <1>1, <1>2

\* It leaves those without weight with dust, unless he leaves unpaid.
LEMMA BankOrSettleIdle ==
  ASSUME IsFiniteSet(Users), NEW w \in [Users -> Nat], NEW weight, weight = Total(w),
         NEW minimum \in Nat, NEW now \in Nat, now > 0,
         NEW s, FundedStream(s, w, now), NEW u \in Users,
         NEW t, BanksOrPays(s, t, u, w[u], weight, minimum, now),
         NEW w2 \in [Users -> Nat], \A v \in Users \ {u} : w2[v] = w[v],
         IdleDust(s, w),
         \/ w2[u] = 0 => w[u] = 0
         \/ t = SettleRewards(UpdateReward(s, u, w[u], weight, minimum, now), u)
  PROVE  IdleDust(t, w2)
<1>0. PICK r : /\ r = UpdateReward(s, u, w[u], weight, minimum, now)
               /\ t = r \/ t = SettleRewards(r, u)
  BY DEF BanksOrPays
<1>1. FundedStream(r, w2, now) /\ AfterBanking(s, r, u, w[u])
  BY <1>0, BankFunded
<1>2. FundedStream(t, w2, now)
  BY BankOrSettleFunded
<1>3. s \in NatStreams /\ r \in NatStreams /\ t \in NatStreams
  BY <1>1, <1>2 DEF FundedStream, SoundStream
<1>4. /\ s.last \in Nat /\ r.last \in Nat /\ t.last \in Nat
      /\ \A v \in Users : s.pending[v] \in Nat /\ r.pending[v] \in Nat /\ t.pending[v] \in Nat
  BY <1>3, NatStreamFields
<1>5. /\ r.last >= s.last /\ \A v \in Users \ {u} : r.pending[v] = s.pending[v]
      /\ w[u] = 0 => r.pending[u] = s.pending[u]
  BY <1>1 DEF AfterBanking
<1>6. CASE t = r /\ (w2[u] = 0 => w[u] = 0)
  <2>1. \A v \in Users : w2[v] = 0 => w[v] = 0 /\ t.pending[v] <= s.pending[v]
    BY <1>4, <1>5, <1>6
  <2>2. s.last <= t.last
    BY <1>4, <1>5, <1>6
  <2> QED BY <1>3, <2>1, <2>2, IdleKept
<1>7. CASE t = SettleRewards(r, u)
  <2>1. AfterSettling(r, t, u)
    BY <1>1, <1>7, SettleFunded
  <2>2. /\ s.last <= t.last /\ \A v \in Users \ {u} : t.pending[v] = s.pending[v]
        /\ t.pending[u] = 0 \/ t.pool = 0
    BY <1>4, <1>5, <2>1 DEF AfterSettling
  <2>3. CASE t.pool = 0
    BY <1>2, <2>3, EmptyPoolIdle
  <2>4. CASE t.pending[u] = 0
    <3>1. \A v \in Users : w2[v] = 0 => \/ t.pending[v] = 0
                                        \/ w[v] = 0 /\ t.pending[v] <= s.pending[v]
      BY <1>4, <2>2, <2>4
    <3> QED BY <1>3, <2>2, <3>1, IdleKept
  <2> QED BY <2>2, <2>3, <2>4
<1> QED BY <1>0, <1>6, <1>7

\* So does every change of the rest of a stream while weights stay, and every
\* change of weights that gives or takes nobody the last of his.
LEMMA SamePendingIdle ==
  ASSUME IsFiniteSet(Users), NEW s \in NatStreams, NEW t \in NatStreams,
         NEW w \in [Users -> Nat], NEW w2 \in [Users -> Nat],
         IdleDust(s, w), s.last <= t.last, t.pending = s.pending,
         \A u \in Users : w2[u] = 0 => w[u] = 0
  PROVE  IdleDust(t, w2)
<1>1. \A u \in Users : w2[u] = 0 => w[u] = 0 /\ t.pending[u] <= s.pending[u]
  BY NatStreamFields
<1> QED BY <1>1, IdleKept
=============================================================================

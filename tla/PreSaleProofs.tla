---------------------------- MODULE PreSaleProofs ----------------------------
(***************************************************************************)
(* Proofs about PreSaleRound, for every finite set of users, every set of   *)
(* assets, every bonus ladder and every amount: refunds are covered, a      *)
(* payment keeps its allocation, the list is the set of the investors, an   *)
(* allocation is what its dollars buy, and every vault keeps its grant.     *)
(***************************************************************************)
EXTENDS PreSale, CommonProofs

\* The two assumptions on constants that bookkeeping needs.
LEMMA Finite == IsFiniteSet(Wallets) /\ Payments \subseteq Nat \ {0}
BY PreSaleAssumption

(***************************************************************************)
(* Refunds: a column of the ledger per asset.                              *)
(***************************************************************************)
Ledgers == [Wallets -> [Assets -> Nat]]

RefundTypes ==
    /\ paidOnChain \in Ledgers /\ refundOwed \in Ledgers
    /\ totalRefundOwed \in [Assets -> Int]
    /\ held \in [Assets -> Int]

RefundInv == RefundTypes /\ RefundsCovered

Column(f, a) == [u \in Wallets |-> f[u][a]]

\* TotalChange for amounts of users.
LEMMA UserTotalChange ==
  ASSUME NEW x \in Wallets, NEW p \in [Wallets -> Nat], NEW q \in [Wallets -> Nat],
         \A y \in Wallets \ {x} : q[y] = p[y]
  PROVE  Total(q) = Total(p) - p[x] + q[x]
<1>1. IsFiniteSet(Wallets)
  BY Finite
<1> QED BY <1>1, TotalChange

\* One entry of a ledger changes: its column's sum changes by the difference,
\* the other columns stay.
LEMMA ColumnChange ==
  ASSUME NEW f \in Ledgers, NEW g \in Ledgers, NEW u \in Wallets, NEW a \in Assets,
         \A v \in Wallets \ {u} : g[v][a] = f[v][a]
  PROVE  Total(Column(g, a)) = Total(Column(f, a)) - f[u][a] + g[u][a]
<1> DEFINE p == Column(f, a)
           q == Column(g, a)
<1>1. p \in [Wallets -> Nat] /\ q \in [Wallets -> Nat]
  BY DEF Column, Ledgers
<1>2. p[u] = f[u][a] /\ q[u] = g[u][a]
  BY DEF Column
<1>5. \A v \in Wallets \ {u} : q[v] = p[v]
  BY DEF Column
<1> HIDE DEF p, q
<1>4. Total(q) = Total(p) - p[u] + q[u]
  BY <1>1, <1>5, UserTotalChange
<1> QED BY <1>2, <1>4 DEF p, q

\* What one user is owed in an asset is part of what all are owed.
LEMMA ColumnBound ==
  ASSUME NEW f \in Ledgers, NEW u \in Wallets, NEW a \in Assets
  PROVE  f[u][a] \in Nat /\ Total(Column(f, a)) \in Nat /\ f[u][a] <= Total(Column(f, a))
<1> DEFINE p == Column(f, a)
<1>1. p \in [Wallets -> Nat] /\ p[u] = f[u][a] /\ p[u] \in Nat
  BY DEF Column, Ledgers
<1> HIDE DEF p
<1>2. IsFiniteSet(Wallets)
  BY Finite
<1>3. Total(p) \in Nat /\ p[u] <= Total(p)
  BY <1>1, <1>2, TotalType, TotalBound
<1> QED BY <1>1, <1>3 DEF p

\* RefundsCovered, column by column.
LEMMA Covers ==
  RefundsCovered <=> \A a \in Assets : /\ totalRefundOwed[a] = Total(Column(refundOwed, a))
                                       /\ totalRefundOwed[a] <= held[a]
BY DEF RefundsCovered, Column

\* A step that leaves the refunds, and takes no more than is withdrawable.
LEMMA RefundsUntouched ==
  ASSUME RefundInv, UNCHANGED <<refundOwed, totalRefundOwed>>,
         paidOnChain' \in Ledgers, held' \in [Assets -> Int],
         \A a \in Assets : totalRefundOwed[a] <= held'[a]
  PROVE  RefundInv'
<1>1. RefundTypes'
  BY DEF RefundInv, RefundTypes
<1>2. RefundsCovered'
  BY DEF RefundInv, RefundsCovered
<1> QED BY <1>1, <1>2 DEF RefundInv

\* A purchase adds to what is held and nothing to what is owed.
LEMMA InvestCovered ==
  ASSUME RefundInv, NEW u \in Wallets, NEW a \in Assets, NEW n \in Payments, NEW price \in Prices[a], Invest(u, a, n, price)
  PROVE  RefundInv'
<1>1. /\ paidOnChain \in Ledgers /\ held \in [Assets -> Int] /\ held[a] \in Int /\ n \in Nat
      /\ totalRefundOwed \in [Assets -> Int]
      /\ \A b \in Assets : totalRefundOwed[b] <= held[b]
  BY Finite DEF RefundInv, RefundTypes, RefundsCovered
<1>2. /\ paidOnChain' = [paidOnChain EXCEPT ![u] = [paidOnChain[u] EXCEPT ![a] = paidOnChain[u][a] + n]]
      /\ held' = [held EXCEPT ![a] = held[a] + n]
      /\ UNCHANGED <<refundOwed, totalRefundOwed>>
  BY <1>1 DEF Invest, Ledgers
<1> DEFINE row == [paidOnChain[u] EXCEPT ![a] = paidOnChain[u][a] + n]
<1>3. row \in [Assets -> Nat]
  BY <1>1 DEF Ledgers
<1> HIDE DEF row
<1>4. paidOnChain' \in Ledgers
  BY <1>1, <1>2, <1>3 DEF Ledgers, row
<1>5. held' \in [Assets -> Int] /\ \A b \in Assets : totalRefundOwed[b] <= held'[b]
  BY <1>1, <1>2
<1> QED BY <1>2, <1>4, <1>5, RefundsUntouched

\* A refund registers what it earmarks, if the round still holds it.
LEMMA RefundCovered ==
  ASSUME RefundInv, NEW u \in Wallets, RefundInvestor(u)
  PROVE  RefundInv'
<1> DEFINE paid == paidOnChain[u]
           row == [a \in Assets |-> refundOwed[u][a] + paid[a]]
           zeros == [a \in Assets |-> 0]
<1>1. /\ paidOnChain \in Ledgers /\ refundOwed \in Ledgers
      /\ totalRefundOwed \in [Assets -> Int] /\ held \in [Assets -> Int]
      /\ paid \in [Assets -> Nat]
  BY DEF RefundInv, RefundTypes, Ledgers
<1>2. /\ totalRefundOwed' = [a \in Assets |-> totalRefundOwed[a] + paid[a]]
      /\ refundOwed' = [refundOwed EXCEPT ![u] = row]
      /\ paidOnChain' = [paidOnChain EXCEPT ![u] = zeros]
      /\ held' = held
      /\ \A a \in Assets : paid[a] > 0 => totalRefundOwed[a] + paid[a] <= held[a]
  BY <1>1 DEF RefundInvestor, Ledgers
<1>3. row \in [Assets -> Nat] /\ zeros \in [Assets -> Nat]
  BY <1>1 DEF Ledgers
<1>4. \A a \in Assets : row[a] = refundOwed[u][a] + paid[a]
  OBVIOUS
<1> HIDE DEF row, zeros
<1>5. /\ refundOwed' \in Ledgers /\ paidOnChain' \in Ledgers
      /\ refundOwed'[u] = row /\ \A v \in Wallets \ {u} : refundOwed'[v] = refundOwed[v]
  BY <1>1, <1>2, <1>3 DEF Ledgers
<1>6. RefundTypes'
  BY <1>1, <1>2, <1>5 DEF RefundTypes
<1>7. ASSUME NEW a \in Assets
      PROVE  /\ totalRefundOwed'[a] = Total(Column(refundOwed', a))
             /\ totalRefundOwed'[a] <= held'[a]
  <2> DEFINE before == refundOwed
             after == refundOwed'
  <2>1. /\ before \in Ledgers /\ after \in Ledgers
        /\ \A v \in Wallets \ {u} : after[v][a] = before[v][a]
        /\ after[u][a] = before[u][a] + paid[a]
    BY <1>1, <1>4, <1>5
  <2>2. totalRefundOwed[a] = Total(Column(before, a)) /\ totalRefundOwed[a] <= held[a]
    BY Covers DEF RefundInv
  <2> HIDE DEF before, after
  <2>3. Total(Column(after, a)) = Total(Column(before, a)) - before[u][a] + after[u][a]
    BY <2>1, ColumnChange
  <2>4. before[u][a] \in Nat /\ paid[a] \in Nat /\ totalRefundOwed[a] \in Int /\ held[a] \in Int
    BY <1>1, <2>1, ColumnBound
  <2>5. totalRefundOwed'[a] = totalRefundOwed[a] + paid[a]
    BY <1>2
  <2>6. totalRefundOwed'[a] = Total(Column(after, a))
    BY <2>1, <2>2, <2>3, <2>4, <2>5
  <2>7. totalRefundOwed'[a] <= held'[a]
    BY <1>2, <2>2, <2>4, <2>5
  <2> QED BY <2>6, <2>7 DEF after
<1>8. RefundsCovered'
  BY <1>7 DEF RefundsCovered, Column
<1> QED BY <1>6, <1>8 DEF RefundInv

\* A claimed refund leaves what is owed and what is held together.
LEMMA ClaimCovered ==
  ASSUME RefundInv, NEW u \in Wallets, NEW a \in Assets, ClaimRefund(u, a)
  PROVE  RefundInv'
<1> DEFINE x == refundOwed[u][a]
           row == [refundOwed[u] EXCEPT ![a] = 0]
<1>1. /\ paidOnChain \in Ledgers /\ refundOwed \in Ledgers
      /\ totalRefundOwed \in [Assets -> Int] /\ held \in [Assets -> Int]
      /\ refundOwed[u] \in [Assets -> Nat] /\ x \in Nat
  BY DEF RefundInv, RefundTypes, Ledgers
<1>2. /\ refundOwed' = [refundOwed EXCEPT ![u] = row]
      /\ totalRefundOwed' = [totalRefundOwed EXCEPT ![a] = totalRefundOwed[a] - x]
      /\ held' = [held EXCEPT ![a] = held[a] - x]
      /\ paidOnChain' = paidOnChain
  BY <1>1 DEF ClaimRefund, Ledgers
<1>3. row \in [Assets -> Nat] /\ row[a] = 0 /\ \A b \in Assets \ {a} : row[b] = refundOwed[u][b]
  BY <1>1
<1> HIDE DEF row
<1>4. refundOwed' \in Ledgers /\ refundOwed'[u] = row /\ \A v \in Wallets \ {u} : refundOwed'[v] = refundOwed[v]
  BY <1>1, <1>2, <1>3 DEF Ledgers
<1>5. RefundTypes'
  BY <1>1, <1>2, <1>4 DEF RefundTypes
<1>6. ASSUME NEW b \in Assets
      PROVE  /\ totalRefundOwed'[b] = Total(Column(refundOwed', b))
             /\ totalRefundOwed'[b] <= held'[b]
  <2> DEFINE before == refundOwed
             after == refundOwed'
  <2>1. /\ before \in Ledgers /\ after \in Ledgers
        /\ \A v \in Wallets \ {u} : after[v][b] = before[v][b]
        /\ after[u][b] = IF b = a THEN 0 ELSE before[u][b]
        /\ x = before[u][a]
    BY <1>1, <1>3, <1>4
  <2>2. totalRefundOwed[b] = Total(Column(before, b)) /\ totalRefundOwed[b] <= held[b]
    BY Covers DEF RefundInv
  <2> HIDE DEF before, after
  <2>3. Total(Column(after, b)) = Total(Column(before, b)) - before[u][b] + after[u][b]
    BY <2>1, ColumnChange
  <2>4. before[u][b] \in Nat /\ totalRefundOwed[b] \in Int /\ held[b] \in Int
    BY <1>1, <2>1, ColumnBound
  <2>5. /\ totalRefundOwed'[b] = IF b = a THEN totalRefundOwed[b] - before[u][b] ELSE totalRefundOwed[b]
        /\ held'[b] = IF b = a THEN held[b] - before[u][b] ELSE held[b]
    BY <1>1, <1>2, <2>1
  <2> QED BY <2>1, <2>2, <2>3, <2>4, <2>5 DEF after
<1>7. RefundsCovered'
  BY <1>6 DEF RefundsCovered, Column
<1> QED BY <1>5, <1>7 DEF RefundInv

-----------------------------------------------------------------------------
(***************************************************************************)
(* Allocations are natural numbers: every amount of dollars has a tier.    *)
(***************************************************************************)
LEMMA GreatestTier ==
  ASSUME NEW T \in SUBSET Tiers, T # {}
  PROVE  \E i \in T : \A j \in T : j <= i
<1> DEFINE N == Len(TierMins)
           D == {N - i : i \in T}
<1>1. N \in Nat /\ Tiers = 1..N
  BY PreSaleAssumption DEF Tiers
<1> HIDE DEF N
<1>2. D \in SUBSET Nat /\ D # {}
  BY <1>1
<1>3. PICK x \in D : \A y \in D : <<y, x>> \notin OpToRel(<, Nat)
  BY <1>2, NatLessThanWellFounded, WFMin
<1>4. PICK i \in T : x = N - i
  BY <1>3
<1>5. ASSUME NEW j \in T PROVE j <= i
  <2> DEFINE y == N - j
  <2>1. y \in D /\ y \in Nat /\ x \in Nat
    BY <1>2, <1>3
  <2>2. <<y, x>> \notin {ss \in Nat \X Nat : ss[1] < ss[2]}
    BY <1>3, <2>1 DEF OpToRel
  <2>3. <<y, x>> \in Nat \X Nat /\ <<y, x>>[1] = y /\ <<y, x>>[2] = x
    BY <2>1
  <2>4. ~(y < x)
    BY <2>2, <2>3
  <2> QED BY <1>1, <1>4, <2>1, <2>4
<1> QED BY <1>5

\* Every amount lies in a tier.
LEMMA TierExists ==
  ASSUME NEW usd \in Nat
  PROVE  \E i \in Tiers : WithinTier(i, usd)
<1> DEFINE T == {i \in Tiers : TierMins[i] <= usd}
<1>1. /\ \A i \in Tiers : TierMins[i] \in Nat /\ i \in Nat
      /\ 1 \in Tiers /\ TierMins[1] <= usd
  BY PreSaleAssumption DEF Tiers
<1>2. T \in SUBSET Tiers /\ T # {}
  BY <1>1
<1>3. PICK i \in T : \A j \in T : j <= i
  BY <1>2, GreatestTier
<1>4. WithinTier(i, usd)
  BY <1>1, <1>3 DEF WithinTier
<1> QED BY <1>3, <1>4

(***************************************************************************)
(* Rounding down.                                                          *)
(***************************************************************************)
\* A larger factor gives a larger product.
LEMMA TimesMonotone ==
  ASSUME NEW a \in Nat, NEW b \in Nat, NEW c \in Nat, NEW d \in Nat, a <= c, b <= d
  PROVE  a * b \in Nat /\ c * d \in Nat /\ a * b <= c * d
<1> DEFINE x == c - a
           y == d - b
<1>1. x \in Nat /\ y \in Nat /\ c = a + x /\ d = b + y
  OBVIOUS
<1> HIDE DEF x, y
<1>2. a * b \in Nat /\ a * y \in Nat /\ x * b \in Nat /\ x * y \in Nat
  BY <1>1
<1>3. c * d = a * b + a * y + x * b + x * y
  BY <1>1
<1> QED BY <1>2, <1>3

\* The quotient is the largest number whose product fits.
LEMMA QuotientBounds ==
  ASSUME NEW x \in Nat, NEW d \in Nat \ {0}
  PROVE  x \div d \in Nat /\ (x \div d) * d <= x /\ x < (x \div d + 1) * d
OBVIOUS

\* A number whose product fits is at most the quotient, and only such a number is.
LEMMA QuotientLeast ==
  ASSUME NEW x \in Nat, NEW d \in Nat \ {0}, NEW n \in Nat
  PROVE  /\ x \div d \in Nat
         /\ n * d <= x => n <= x \div d
         /\ x <= n * d => x \div d <= n
<1> DEFINE q == x \div d
<1>1. q \in Nat /\ q * d <= x /\ x < (q + 1) * d
  BY QuotientBounds
<1> HIDE DEF q
<1>2. ASSUME n * d <= x, ~(n <= q) PROVE FALSE
  <2>1. q + 1 \in Nat /\ q + 1 <= n
    BY <1>1, <1>2
  <2> DEFINE k == q + 1
  <2>2. k \in Nat /\ k <= n /\ x < k * d
    BY <1>1, <2>1
  <2> HIDE DEF k
  <2>3. k * d \in Nat /\ n * d \in Nat /\ k * d <= n * d
    BY <2>2, TimesMonotone
  <2> QED BY <1>2, <2>2, <2>3
<1>3. ASSUME x <= n * d, ~(q <= n) PROVE FALSE
  <2> DEFINE k == n + 1
  <2>1. k \in Nat /\ k <= q /\ k * d = n * d + d /\ n * d \in Nat
    BY <1>1, <1>3
  <2> HIDE DEF k
  <2>2. k * d \in Nat /\ q * d \in Nat /\ k * d <= q * d
    BY <1>1, <2>1, TimesMonotone
  <2> QED BY <1>1, <1>3, <2>1, <2>2
<1> QED BY <1>1, <1>2, <1>3 DEF q

\* Rounding down keeps the order.
LEMMA QuotientMonotone ==
  ASSUME NEW x \in Nat, NEW y \in Nat, x <= y, NEW d \in Nat \ {0}
  PROVE  x \div d \in Nat /\ y \div d \in Nat /\ x \div d <= y \div d
OBVIOUS

(***************************************************************************)
(* What dollars buy.                                                       *)
(***************************************************************************)
\* The ladder rises.
LEMMA Ladder ==
  /\ \A i \in Tiers : i \in Nat /\ TierMins[i] \in Nat /\ TierBonus[i] \in Nat
  /\ \A i, j \in Tiers : i < j => TierBonus[i] <= TierBonus[j]
  /\ SRX_UNIT \in Nat \ {0} /\ BPS_DENOMINATOR \in Nat \ {0}
<1>1. \A i \in Tiers : i \in Nat /\ TierMins[i] \in Nat
  BY PreSaleAssumption DEF Tiers
<1>2. TierBonus \in [Tiers -> Nat]
  BY PreSaleAssumption
<1>3. \A i, j \in Tiers : i < j => TierBonus[i] <= TierBonus[j]
  BY PreSaleAssumption
<1> QED BY <1>1, <1>2, <1>3, PreSaleAssumption, VestingAssumption

\* An amount lies in one tier, which gives its bonus.
LEMMA TierBps ==
  ASSUME NEW usd \in Nat, NEW i \in Tiers, WithinTier(i, usd)
  PROVE  GetTierBps(usd) = TierBonus[i]
<1>1. ASSUME NEW j \in Tiers, WithinTier(j, usd) PROVE j = i
  <2>1. i \in Nat /\ j \in Nat /\ TierMins[i] \in Nat /\ TierMins[j] \in Nat
    BY Ladder
  <2> QED BY <1>1, <2>1 DEF WithinTier
<1>2. (CHOOSE j \in Tiers : WithinTier(j, usd)) = i
  BY <1>1
<1> QED BY <1>2 DEF GetTierBps

\* More dollars never earn a smaller bonus.
LEMMA BpsMonotone ==
  ASSUME NEW a \in Nat, NEW b \in Nat, a <= b
  PROVE  GetTierBps(a) \in Nat /\ GetTierBps(b) \in Nat /\ GetTierBps(a) <= GetTierBps(b)
<1>1. PICK i \in Tiers : WithinTier(i, a)
  BY TierExists
<1>2. PICK j \in Tiers : WithinTier(j, b)
  BY TierExists
<1>3. GetTierBps(a) = TierBonus[i] /\ GetTierBps(b) = TierBonus[j]
  BY <1>1, <1>2, TierBps
<1>4. /\ i \in Nat /\ j \in Nat /\ TierMins[i] \in Nat /\ TierMins[j] \in Nat
      /\ TierBonus[i] \in Nat /\ TierBonus[j] \in Nat
      /\ i < j => TierBonus[i] <= TierBonus[j]
  BY Ladder
<1>5. i <= j
  <2>1. i > j => b < TierMins[i]
    BY <1>2 DEF WithinTier
  <2>2. TierMins[i] <= a
    BY <1>1, <1>4 DEF WithinTier
  <2> QED BY <1>4, <2>1, <2>2
<1>6. TierBonus[i] <= TierBonus[j]
  BY <1>4, <1>5
<1> QED BY <1>3, <1>4, <1>6

\* What usd buy: the bonus is part of the product that is divided by the price.
Bought(usd) == usd * SRX_UNIT * (BPS_DENOMINATOR + GetTierBps(usd))

\* The product before rounding is a natural number and grows with the dollars.
LEMMA BoughtMonotone ==
  ASSUME NEW a \in Nat, NEW b \in Nat, a <= b
  PROVE  Bought(a) \in Nat /\ Bought(b) \in Nat /\ Bought(a) <= Bought(b)
<1> DEFINE f == BPS_DENOMINATOR + GetTierBps(a)
           g == BPS_DENOMINATOR + GetTierBps(b)
           x == a * SRX_UNIT
           y == b * SRX_UNIT
<1>1. f \in Nat /\ g \in Nat /\ f <= g
  BY BpsMonotone, Ladder
<1>2. x \in Nat /\ y \in Nat /\ x <= y
  BY Ladder, TimesMonotone
<1> HIDE DEF f, g, x, y
<1>3. x * f \in Nat /\ y * g \in Nat /\ x * f <= y * g
  BY <1>1, <1>2, TimesMonotone
<1> QED BY <1>3 DEF Bought, f, g, x, y

\* More dollars buy no less.
LEMMA ComputeMonotone ==
  ASSUME srxPrice \in Nat \ {0}, NEW a \in Nat, NEW b \in Nat, a <= b
  PROVE  /\ ComputeTotalSRXWithBonus(a) \in Nat /\ ComputeTotalSRXWithBonus(b) \in Nat
         /\ ComputeTotalSRXWithBonus(a) <= ComputeTotalSRXWithBonus(b)
<1> DEFINE x == Bought(a)
           y == Bought(b)
<1>1. x \in Nat /\ y \in Nat /\ x <= y /\ BPS_DENOMINATOR \in Nat \ {0}
  BY BoughtMonotone, Ladder
<1> HIDE DEF x, y
<1> DEFINE v == x \div srxPrice
           w == y \div srxPrice
<1>2. v \in Nat /\ w \in Nat /\ v <= w
  BY <1>1, QuotientMonotone
<1> HIDE DEF v, w
<1>3. v \div BPS_DENOMINATOR \in Nat /\ w \div BPS_DENOMINATOR \in Nat
      /\ v \div BPS_DENOMINATOR <= w \div BPS_DENOMINATOR
  BY <1>1, <1>2, QuotientMonotone
<1> QED BY <1>3 DEF ComputeTotalSRXWithBonus, Bought, v, w, x, y

\* The dollars that the highest consistent tier gives for an allocation buy no
\* more than it, and with one more they buy no less.
LEMMA InversionExact ==
  ASSUME srxPrice \in Nat \ {0}, NEW srx \in Nat, NEW i \in Tiers, NEW usd,
         usd = InvertedAt(i, srx), WithinTier(i, usd)
  PROVE  /\ usd \in Nat
         /\ ComputeTotalSRXWithBonus(usd) <= srx
         /\ srx <= ComputeTotalSRXWithBonus(usd + 1)
<1> DEFINE p == srxPrice
           B == BPS_DENOMINATOR
           f == B + TierBonus[i]
           D == SRX_UNIT * f
           n == srx * p * B
<1>0. p \in Nat \ {0} /\ B \in Nat \ {0} /\ TierBonus[i] \in Nat /\ SRX_UNIT \in Nat \ {0}
  BY Ladder
<1>1. f \in Nat \ {0}
  BY <1>0
<1>2. D \in Nat \ {0}
  <2> HIDE DEF f
  <2>1. \A a, b \in Nat \ {0} : a * b \in Nat \ {0}
    OBVIOUS
  <2> QED BY <1>0, <1>1, <2>1
<1>3. n \in Nat
  BY <1>0
<1>4. usd = n \div D
  BY DEF InvertedAt
<1>5. usd \in Nat /\ usd * D <= n /\ n < (usd + 1) * D
  <2> HIDE DEF n, D
  <2> QED BY <1>2, <1>3, <1>4, QuotientBounds
<1>6. Bought(usd) = usd * D
  <2>1. GetTierBps(usd) = TierBonus[i]
    BY <1>5, TierBps
  <2>2. Bought(usd) = usd * SRX_UNIT * f
    BY <2>1 DEF Bought
  <2> HIDE DEF f
  <2>3. usd * SRX_UNIT * f = usd * (SRX_UNIT * f)
    BY <1>0, <1>1, <1>5
  <2> QED BY <2>2, <2>3 DEF f
<1> DEFINE later == usd + 1
           g == B + GetTierBps(later)
<1>7. later \in Nat /\ g \in Nat /\ f <= g
  <2>1. later \in Nat /\ usd <= later
    BY <1>5
  <2> HIDE DEF later
  <2>2. GetTierBps(usd) \in Nat /\ GetTierBps(later) \in Nat /\ GetTierBps(usd) <= GetTierBps(later)
    BY <1>5, <2>1, BpsMonotone
  <2>3. GetTierBps(usd) = TierBonus[i]
    BY <1>5, TierBps
  <2> QED BY <1>0, <2>1, <2>2, <2>3
<1>8. Bought(later) \in Nat /\ later * D <= Bought(later)
  <2>1. Bought(later) = later * SRX_UNIT * g
    BY DEF Bought
  <2> HIDE DEF later, g, f
  <2> DEFINE s == later * SRX_UNIT
  <2>2. s \in Nat
    BY <1>0, <1>7
  <2> HIDE DEF s
  <2>3. s * f \in Nat /\ s * g \in Nat /\ s * f <= s * g
    BY <1>1, <1>7, <2>2, TimesMonotone
  <2>4. later * (SRX_UNIT * f) = s * f
    BY <1>0, <1>1, <1>7 DEF s
  <2> QED BY <2>1, <2>3, <2>4 DEF s
<1> DEFINE m == srx * B
<1>9. m \in Nat /\ n = m * p
  BY <1>0
<1> DEFINE x == Bought(usd)
           y == Bought(later)
<1>10. x \in Nat /\ y \in Nat /\ x <= m * p /\ m * p <= y
  <2>1. x <= n /\ x \in Nat
    <3> HIDE DEF x, n, D
    <3>1. usd * D \in Nat
      BY <1>2, <1>5
    <3> QED BY <1>5, <1>6, <3>1 DEF x
  <2>2. n <= y /\ y \in Nat
    <3> HIDE DEF n, D, y
    <3>1. later * D \in Nat /\ n < later * D
      BY <1>2, <1>5, <1>7
    <3> QED BY <1>3, <1>8, <3>1 DEF y
  <2> QED BY <1>9, <2>1, <2>2
<1> HIDE DEF x, y, m, n, D, f, g
<1> DEFINE v == x \div p
           w == y \div p
<1>11. v \in Nat /\ w \in Nat /\ v <= m /\ m <= w
  BY <1>0, <1>9, <1>10, QuotientLeast
<1> HIDE DEF v, w
<1>12. v <= srx * B /\ srx * B <= w
  BY <1>11 DEF m
<1>13. v \div B <= srx /\ srx <= w \div B
  <2> HIDE DEF B
  <2> QED BY <1>0, <1>11, <1>12, QuotientLeast
<1> QED BY <1>5, <1>13 DEF ComputeTotalSRXWithBonus, Bought, v, w, x, y, later

\* The same for the dollars that updateAllocation records.
LEMMA CorrectionExact ==
  ASSUME srxPrice \in Nat \ {0}, NEW srx \in Nat, NEW usd \in UsdFromSrx(srx)
  PROVE  /\ usd \in Nat
         /\ ComputeTotalSRXWithBonus(usd) <= srx
         /\ srx <= ComputeTotalSRXWithBonus(usd + 1)
<1> DEFINE consistent == {i \in Tiers : WithinTier(i, InvertedAt(i, srx))}
           i == CHOOSE i \in consistent : \A j \in consistent : j <= i
<1>1. consistent # {} /\ usd = InvertedAt(i, srx)
  BY DEF UsdFromSrx
<1>2. i \in consistent
  BY <1>1, GreatestTier
<1> HIDE DEF i
<1>3. i \in Tiers /\ WithinTier(i, usd)
  BY <1>1, <1>2
<1> QED BY <1>1, <1>3, InversionExact

\* An allocation with its bonus is a natural number.
LEMMA AllocationType ==
  ASSUME srxPrice \in Nat \ {0}, NEW usd \in Nat
  PROVE  ComputeTotalSRXWithBonus(usd) \in Nat
BY ComputeMonotone

\* The dollars recorded for a corrected allocation.
LEMMA UsdType ==
  ASSUME srxPrice \in Nat \ {0}, NEW srx \in Nat, NEW usd \in UsdFromSrx(srx)
  PROVE  usd \in Nat
BY CorrectionExact

-----------------------------------------------------------------------------
(***************************************************************************)
(* The list of investors.                                                  *)
(***************************************************************************)
\* list names each member of S once.
Listing(list, S) ==
    /\ list \in Seq(Wallets)
    /\ S = {list[i] : i \in 1..Len(list)}
    /\ \A i, j \in 1..Len(list) : list[i] = list[j] => i = j
    /\ IsFiniteSet(S) /\ Cardinality(S) = Len(list)

\* Appending a new user lists the set with that user.
LEMMA ListAppend ==
  ASSUME NEW list, NEW S, Listing(list, S), NEW u \in Wallets, u \notin S
  PROVE  Listing(Append(list, u), S \cup {u})
<1> DEFINE n == Len(list)
           new == Append(list, u)
<1>1. list \in Seq(Wallets) /\ n \in Nat /\ \A i \in 1..n : list[i] \in S
  <2>1. list \in Seq(Wallets) /\ S = {list[i] : i \in 1..n}
    BY DEF Listing
  <2>2. n \in Nat /\ \A i \in 1..n : list[i] \in Wallets
    BY <2>1
  <2>3. \A i \in 1..n : list[i] \in S
    BY <2>1
  <2> QED BY <2>1, <2>2, <2>3
<1>2. /\ new \in Seq(Wallets) /\ Len(new) = n + 1 /\ new[n + 1] = u
      /\ \A i \in 1..n : new[i] = list[i]
  BY <1>1
<1> HIDE DEF n, new
<1>3. 1..(n + 1) = (1..n) \cup {n + 1}
  BY <1>1
<1>4. S \cup {u} = {new[i] : i \in 1..Len(new)}
  <2>1. S = {list[i] : i \in 1..n}
    BY DEF Listing, n
  <2> QED BY <1>2, <1>3, <2>1
<1>5. \A i, j \in 1..Len(new) : new[i] = new[j] => i = j
  <2>1. \A i, j \in 1..n : list[i] = list[j] => i = j
    BY DEF Listing, n
  <2>2. \A i \in 1..n : new[i] # u
    BY <1>1, <1>2
  <2> QED BY <1>2, <1>3, <2>1, <2>2
<1>6. IsFiniteSet(S \cup {u}) /\ Cardinality(S \cup {u}) = n + 1
  <2>1. IsFiniteSet(S) /\ Cardinality(S) = n
    BY DEF Listing, n
  <2> QED BY <2>1, FS_AddElement
<1> QED BY <1>2, <1>4, <1>5, <1>6 DEF Listing, new

\* Swap and pop lists the set without the user removed.
LEMMA ListRemove ==
  ASSUME NEW list, NEW S, Listing(list, S), NEW u \in S
  PROVE  Listing(SwapAndPop(list, u), S \ {u})
<1> DEFINE n == Len(list)
           new == SwapAndPop(list, u)
<1>1. list \in Seq(Wallets) /\ n \in Nat /\ \A i \in 1..n : list[i] \in S /\ list[i] \in Wallets
  <2>1. list \in Seq(Wallets) /\ S = {list[i] : i \in 1..n}
    BY DEF Listing
  <2>2. n \in Nat /\ \A i \in 1..n : list[i] \in Wallets
    BY <2>1
  <2>3. \A i \in 1..n : list[i] \in S
    BY <2>1
  <2> QED BY <2>1, <2>2, <2>3
<1>2. PICK k \in 1..n : list[k] = u
  BY DEF Listing
<1>3. n - 1 \in Nat /\ n \in 1..n
  BY <1>1, <1>2
<1>4. \A i, j \in 1..n : list[i] = list[j] => i = j
  BY DEF Listing
<1>5. /\ new = [i \in 1..(n - 1) |-> IF list[i] = u THEN list[n] ELSE list[i]]
  BY DEF SwapAndPop
<1> HIDE DEF n, new
<1>6. \A i \in 1..(n - 1) : i \in 1..n /\ i # n
  BY <1>1
<1>7. new \in Seq(Wallets) /\ Len(new) = n - 1
  BY <1>1, <1>3, <1>5, <1>6
<1>8. \A i \in 1..(n - 1) : new[i] = IF i = k THEN list[n] ELSE list[i]
  BY <1>2, <1>4, <1>5, <1>6
<1>9. \A i, j \in 1..(n - 1) : new[i] = new[j] => i = j
  BY <1>3, <1>4, <1>6, <1>8
<1>10. S \ {u} = {new[i] : i \in 1..(n - 1)}
  <2>1. ASSUME NEW i \in 1..(n - 1) PROVE new[i] \in S \ {u}
    <3>1. CASE i = k
      BY <1>1, <1>2, <1>3, <1>4, <1>6, <1>8, <3>1
    <3>2. CASE i # k
      BY <1>1, <1>2, <1>4, <1>6, <1>8, <3>2
    <3> QED BY <3>1, <3>2
  <2>2. ASSUME NEW v \in S \ {u} PROVE \E i \in 1..(n - 1) : new[i] = v
    <3>1. PICK j \in 1..n : list[j] = v
      BY DEF Listing, n
    <3>2. CASE j = n
      <4>1. k # n
        BY <1>2, <3>1, <3>2
      <4>2. k \in 1..(n - 1)
        BY <1>1, <1>2, <4>1
      <4> QED BY <1>8, <3>1, <3>2, <4>2
    <3>3. CASE j # n
      <4>1. j \in 1..(n - 1) /\ j # k
        BY <1>1, <1>2, <3>1, <3>3
      <4> QED BY <1>8, <3>1, <4>1
    <3> QED BY <3>2, <3>3
  <2> QED BY <2>1, <2>2
<1>11. IsFiniteSet(S \ {u}) /\ Cardinality(S \ {u}) = n - 1
  <2>1. IsFiniteSet(S) /\ Cardinality(S) = n
    BY DEF Listing, n
  <2> QED BY <2>1, FS_RemoveElement
<1> QED BY <1>7, <1>9, <1>10, <1>11 DEF Listing, new

(***************************************************************************)
(* Allocations and their total.                                            *)
(***************************************************************************)
RecordInv ==
    /\ srxAllocation \in [Wallets -> Nat] /\ cumulativeUsd \in [Wallets -> Nat]
    /\ srxPrice \in Nat \ {0} /\ hardCapSRX \in Nat
    /\ Listing(investorList, Investors)
    /\ totalAllocated = Total(srxAllocation) /\ totalAllocated \in Nat
    /\ totalAllocated <= hardCapSRX

\* One allocation changes and the total with it.
LEMMA AllocationChange ==
  ASSUME RecordInv, NEW u \in Wallets, NEW n \in Nat,
         srxAllocation' = [srxAllocation EXCEPT ![u] = n],
         totalAllocated' = totalAllocated - srxAllocation[u] + n
  PROVE  /\ srxAllocation' \in [Wallets -> Nat]
         /\ totalAllocated' = Total(srxAllocation') /\ totalAllocated' \in Nat
         /\ Investors' = IF n > 0 THEN Investors \cup {u} ELSE Investors \ {u}
<1> DEFINE p == srxAllocation
           q == srxAllocation'
<1>1. p \in [Wallets -> Nat] /\ p[u] \in Nat /\ totalAllocated = Total(p) /\ totalAllocated \in Nat
  BY DEF RecordInv
<1>2. q \in [Wallets -> Nat] /\ q[u] = n /\ \A v \in Wallets \ {u} : q[v] = p[v]
  BY <1>1
<1>3. Investors' = IF n > 0 THEN Investors \cup {u} ELSE Investors \ {u}
  BY <1>2 DEF Investors
<1> HIDE DEF p, q
<1>4. Total(q) = Total(p) - p[u] + q[u]
  BY <1>1, <1>2, UserTotalChange
<1>5. Total(q) \in Nat
  BY <1>2, Finite, TotalType
<1>6. totalAllocated' = Total(q)
  BY <1>1, <1>2, <1>4 DEF p
<1> QED BY <1>2, <1>3, <1>5, <1>6 DEF q

\* A purchase, or a payment recorded by the admin.
LEMMA InvestmentRecorded ==
  ASSUME RecordInv, NEW u \in Wallets, NEW usd \in Nat, ProcessInvestment(u, usd),
         UNCHANGED <<srxPrice, hardCapSRX>>
  PROVE  RecordInv' /\ Investors' = Investors \cup {u}
<1> DEFINE cumulative == cumulativeUsd[u] + usd
           n == ComputeTotalSRXWithBonus(cumulative)
           old == srxAllocation[u]
<1>1. /\ cumulative \in Nat /\ old \in Nat /\ totalAllocated \in Nat /\ hardCapSRX \in Nat
      /\ cumulativeUsd \in [Wallets -> Nat] /\ srxPrice \in Nat \ {0}
      /\ Listing(investorList, Investors)
  BY DEF RecordInv
<1>2. n \in Nat
  <2> HIDE DEF cumulative
  <2> QED BY <1>1, AllocationType
<1>3. /\ n > old /\ totalAllocated + (n - old) <= hardCapSRX
      /\ totalAllocated' = totalAllocated + (n - old)
      /\ cumulativeUsd' = [cumulativeUsd EXCEPT ![u] = cumulative]
      /\ srxAllocation' = [srxAllocation EXCEPT ![u] = n]
      /\ investorList' = IF u \in Investors THEN investorList ELSE Append(investorList, u)
  BY DEF ProcessInvestment
<1> HIDE DEF n, cumulative
<1>4. n > 0 /\ totalAllocated' = totalAllocated - old + n /\ totalAllocated' <= hardCapSRX
  <2> HIDE DEF old
  <2> QED BY <1>1, <1>2, <1>3
<1>5. /\ srxAllocation' \in [Wallets -> Nat]
      /\ totalAllocated' = Total(srxAllocation') /\ totalAllocated' \in Nat
      /\ Investors' = Investors \cup {u}
  BY <1>2, <1>3, <1>4, AllocationChange
<1>6. cumulativeUsd' \in [Wallets -> Nat]
  BY <1>1, <1>3
<1>7. Listing(investorList', Investors')
  <2>1. CASE u \in Investors
    BY <1>1, <1>3, <1>5, <2>1
  <2>2. CASE u \notin Investors
    <3> DEFINE S == Investors
               list == investorList
    <3>1. Investors' = S \cup {u} /\ investorList' = Append(list, u) /\ u \notin S /\ Listing(list, S)
      BY <1>1, <1>3, <1>5, <2>2
    <3> HIDE DEF S, list
    <3>2. Listing(Append(list, u), S \cup {u})
      BY <3>1, ListAppend
    <3> QED BY <3>1, <3>2
  <2> QED BY <2>1, <2>2
<1> QED BY <1>1, <1>4, <1>5, <1>6, <1>7 DEF RecordInv

\* A correction moves an allocation and the total by the same amount, within the cap.
LEMMA CorrectionRecorded ==
  ASSUME RecordInv, NEW u \in Wallets, NEW srx \in Corrections, UpdateAllocation(u, srx)
  PROVE  RecordInv' /\ Investors' = Investors
<1>1. /\ srx \in Nat /\ srx > 0 /\ srxPrice \in Nat \ {0} /\ cumulativeUsd \in [Wallets -> Nat]
      /\ totalAllocated \in Nat /\ hardCapSRX \in Nat /\ u \in Investors
      /\ Listing(investorList, Investors)
  BY PreSaleAssumption DEF RecordInv, UpdateAllocation
<1>2. /\ srxAllocation' = [srxAllocation EXCEPT ![u] = srx]
      /\ totalAllocated' = totalAllocated - srxAllocation[u] + srx
      /\ totalAllocated' <= hardCapSRX
      /\ UNCHANGED <<srxPrice, hardCapSRX, investorList>>
  BY DEF UpdateAllocation, config
<1>3. PICK usd \in UsdFromSrx(srx) : cumulativeUsd' = [cumulativeUsd EXCEPT ![u] = usd]
  BY DEF UpdateAllocation
<1>4. usd \in Nat
  BY <1>1, <1>3, UsdType
<1>5. cumulativeUsd' \in [Wallets -> Nat]
  BY <1>1, <1>3, <1>4
<1>6. /\ srxAllocation' \in [Wallets -> Nat]
      /\ totalAllocated' = Total(srxAllocation') /\ totalAllocated' \in Nat
      /\ Investors' = Investors
  <2>1. srxAllocation' = [srxAllocation EXCEPT ![u] = srx] /\ srx \in Nat
        /\ totalAllocated' = totalAllocated - srxAllocation[u] + srx
    BY <1>1, <1>2
  <2>2. /\ srxAllocation' \in [Wallets -> Nat]
        /\ totalAllocated' = Total(srxAllocation') /\ totalAllocated' \in Nat
        /\ Investors' = IF srx > 0 THEN Investors \cup {u} ELSE Investors \ {u}
    BY <2>1, AllocationChange
  <2> QED BY <1>1, <2>2
<1> QED BY <1>1, <1>2, <1>5, <1>6 DEF RecordInv

\* Removing an investor clears its records and its place in the list.
LEMMA RemovalRecorded ==
  ASSUME RecordInv, NEW u \in Wallets, RemoveRecords(u), UNCHANGED <<srxPrice, hardCapSRX>>
  PROVE  RecordInv' /\ Investors' = Investors \ {u}
<1> DEFINE zero == 0
<1>1. /\ srxAllocation[u] \in Nat /\ srxPrice \in Nat \ {0} /\ cumulativeUsd \in [Wallets -> Nat]
      /\ totalAllocated \in Nat /\ hardCapSRX \in Nat /\ u \in Investors
      /\ Listing(investorList, Investors) /\ totalAllocated <= hardCapSRX
  BY DEF RecordInv, RemoveRecords
<1>2. /\ srxAllocation' = [srxAllocation EXCEPT ![u] = zero]
      /\ totalAllocated' = totalAllocated - srxAllocation[u]
      /\ cumulativeUsd' = [cumulativeUsd EXCEPT ![u] = zero]
      /\ investorList' = SwapAndPop(investorList, u)
  BY DEF RemoveRecords
<1>3. /\ zero \in Nat /\ ~(zero > 0) /\ totalAllocated' = totalAllocated - srxAllocation[u] + zero
      /\ totalAllocated' <= hardCapSRX
  <2> DEFINE x == srxAllocation[u]
  <2> HIDE DEF x
  <2> QED BY <1>1, <1>2 DEF x
<1>4. cumulativeUsd' \in [Wallets -> Nat]
  BY <1>1, <1>2
<1> HIDE DEF zero
<1>5. /\ srxAllocation' \in [Wallets -> Nat]
      /\ totalAllocated' = Total(srxAllocation') /\ totalAllocated' \in Nat
      /\ Investors' = Investors \ {u}
  <2>1. srxAllocation' = [srxAllocation EXCEPT ![u] = zero]
    BY <1>2
  <2>2. /\ srxAllocation' \in [Wallets -> Nat]
        /\ totalAllocated' = Total(srxAllocation') /\ totalAllocated' \in Nat
        /\ Investors' = IF zero > 0 THEN Investors \cup {u} ELSE Investors \ {u}
    BY <1>3, <2>1, AllocationChange
  <2> QED BY <1>3, <2>2
<1>6. Listing(investorList', Investors')
  <2> DEFINE S == Investors
             list == investorList
  <2>1. Investors' = S \ {u} /\ investorList' = SwapAndPop(list, u) /\ u \in S /\ Listing(list, S)
    BY <1>1, <1>2, <1>5
  <2> HIDE DEF S, list
  <2>2. Listing(SwapAndPop(list, u), S \ {u})
    BY <2>1, ListRemove
  <2> QED BY <2>1, <2>2
<1> QED BY <1>1, <1>3, <1>4, <1>5, <1>6 DEF RecordInv

(***************************************************************************)
(* The steps.                                                              *)
(***************************************************************************)
PreSaleInv == RefundInv /\ RecordInv /\ PaymentHonoured

\* A step that leaves the records, within a cap that still admits them.
LEMMA SettingsChanged ==
  ASSUME RecordInv, UNCHANGED records, hardCapSRX' \in Nat, totalAllocated <= hardCapSRX',
         srxPrice' \in Nat \ {0}
  PROVE  RecordInv' /\ Investors' = Investors
<1>1. UNCHANGED <<srxAllocation, cumulativeUsd, investorList, totalAllocated>>
  BY DEF records
<1>2. Investors' = Investors
  BY <1>1 DEF Investors
<1>3. Listing(investorList', Investors')
  BY <1>1, <1>2 DEF RecordInv
<1> QED BY <1>1, <1>2, <1>3 DEF RecordInv

\* A step that touches no record and no cap keeps the records.
LEMMA RecordsUntouched ==
  ASSUME RecordInv, UNCHANGED records, UNCHANGED srxPrice, UNCHANGED hardCapSRX
  PROVE  RecordInv' /\ Investors' = Investors
<1>1. srxPrice \in Nat \ {0} /\ hardCapSRX \in Nat /\ totalAllocated <= hardCapSRX
  BY DEF RecordInv
<1> QED BY <1>1, SettingsChanged

\* No payment appears and no investor disappears.
LEMMA PaymentsUntouched ==
  ASSUME PaymentHonoured, UNCHANGED paidOnChain, Investors \subseteq Investors'
  PROVE  PaymentHonoured'
BY DEF PaymentHonoured, HasOnChainPayment

\* A call of a buyer keeps the invariant.
LEMMA BuyerStepKeeps ==
  ASSUME PreSaleInv, NEW u \in Wallets, BuyerStep(u)
  PROVE  PreSaleInv'
<1>0. /\ RefundInv /\ RecordInv /\ PaymentHonoured /\ srxPrice \in Nat \ {0}
      /\ paidOnChain \in Ledgers /\ held \in [Assets -> Int]
      /\ \A a \in Assets : totalRefundOwed[a] <= held[a]
  BY DEF PreSaleInv, RecordInv, RefundInv, RefundTypes, RefundsCovered
<1>1. ASSUME NEW a \in Assets, NEW n \in Payments, NEW price \in Prices[a], Invest(u, a, n, price)
      PROVE  PreSaleInv'
  <2>1. RefundInv'
    BY <1>0, <1>1, InvestCovered
  <2> DEFINE usd == n * price
  <2>2. usd \in Nat
    <3>1. n \in Nat /\ price \in Nat
      BY PreSaleAssumption
    <3> QED BY <3>1
  <2>3. ProcessInvestment(u, usd) /\ UNCHANGED <<srxPrice, hardCapSRX>>
    BY <1>1 DEF Invest, config
  <2> HIDE DEF usd
  <2>4. RecordInv' /\ Investors' = Investors \cup {u}
    BY <1>0, <2>2, <2>3, InvestmentRecorded
  <2>5. \A v \in Wallets \ {u} : paidOnChain'[v] = paidOnChain[v]
    BY <1>0, <1>1 DEF Invest, Ledgers
  <2>6. PaymentHonoured'
    BY <1>0, <2>4, <2>5 DEF PaymentHonoured, HasOnChainPayment
  <2> QED BY <2>1, <2>4, <2>6 DEF PreSaleInv
<1>2. ASSUME NEW a \in Assets, ClaimRefund(u, a)
      PROVE  PreSaleInv'
  <2>1. RefundInv'
    BY <1>0, <1>2, ClaimCovered
  <2>2. UNCHANGED <<records, hardCapSRX, srxPrice, paidOnChain>>
    BY <1>2 DEF ClaimRefund, config
  <2>3. RecordInv' /\ Investors' = Investors
    BY <1>0, <2>2, RecordsUntouched
  <2> QED BY <1>0, <2>1, <2>2, <2>3, PaymentsUntouched DEF PreSaleInv
<1>3. ASSUME UNCHANGED <<records, hardCapSRX, srxPrice, refunds>>
      PROVE  PreSaleInv'
  <2>1. UNCHANGED <<paidOnChain, refundOwed, totalRefundOwed, held>>
    BY <1>3 DEF refunds
  <2>2. RefundInv'
    BY <1>0, <2>1, RefundsUntouched
  <2>3. RecordInv' /\ Investors' = Investors
    BY <1>0, <1>3, RecordsUntouched
  <2> QED BY <1>0, <2>1, <2>2, <2>3, PaymentsUntouched DEF PreSaleInv
<1>4. ASSUME Release(u) PROVE UNCHANGED <<records, hardCapSRX, srxPrice, refunds>>
  BY <1>4 DEF Release, ChangeVault, config
<1> QED BY <1>1, <1>2, <1>3, <1>4 DEF BuyerStep

\* A call of the admin about one investor keeps the invariant.
LEMMA AdminStepKeeps ==
  ASSUME PreSaleInv, NEW u \in Wallets, AdminStep(u)
  PROVE  PreSaleInv'
<1>0. /\ RefundInv /\ RecordInv /\ PaymentHonoured /\ srxPrice \in Nat \ {0}
      /\ paidOnChain \in Ledgers /\ held \in [Assets -> Int]
      /\ \A a \in Assets : totalRefundOwed[a] <= held[a]
  BY DEF PreSaleInv, RecordInv, RefundInv, RefundTypes, RefundsCovered
<1>1. ASSUME UNCHANGED refunds PROVE RefundInv' /\ UNCHANGED paidOnChain
  <2>1. UNCHANGED <<paidOnChain, refundOwed, totalRefundOwed, held>>
    BY <1>1 DEF refunds
  <2> QED BY <1>0, <2>1, RefundsUntouched
<1>2. ASSUME NEW usd \in Payments, AddInvestor(u, usd)
      PROVE  PreSaleInv'
  <2>1. /\ usd \in Nat /\ ProcessInvestment(u, usd)
        /\ UNCHANGED <<srxPrice, hardCapSRX, refunds>>
    BY <1>2, Finite DEF AddInvestor, config
  <2>2. RecordInv' /\ Investors' = Investors \cup {u}
    BY <1>0, <2>1, InvestmentRecorded
  <2> QED BY <1>0, <1>1, <2>1, <2>2, PaymentsUntouched DEF PreSaleInv
<1>3. ASSUME NEW srx \in Corrections, UpdateAllocation(u, srx)
      PROVE  PreSaleInv'
  <2>1. RecordInv' /\ Investors' = Investors
    BY <1>0, <1>3, CorrectionRecorded
  <2>2. UNCHANGED refunds
    BY <1>3 DEF UpdateAllocation
  <2> QED BY <1>0, <1>1, <2>1, <2>2, PaymentsUntouched DEF PreSaleInv
<1>4. ASSUME RemoveInvestor(u)
      PROVE  PreSaleInv'
  <2>1. RemoveRecords(u) /\ ~HasOnChainPayment(u) /\ UNCHANGED <<srxPrice, hardCapSRX, refunds>>
    BY <1>4 DEF RemoveInvestor, config
  <2>2. RecordInv' /\ Investors' = Investors \ {u}
    BY <1>0, <2>1, RemovalRecorded
  <2>3. RefundInv' /\ UNCHANGED paidOnChain
    BY <1>1, <2>1
  <2>4. PaymentHonoured'
    BY <1>0, <2>1, <2>2, <2>3 DEF PaymentHonoured, HasOnChainPayment
  <2> QED BY <2>2, <2>3, <2>4 DEF PreSaleInv
<1>5. ASSUME RefundInvestor(u)
      PROVE  PreSaleInv'
  <2>1. RemoveRecords(u) /\ UNCHANGED <<srxPrice, hardCapSRX>>
        /\ paidOnChain' = [paidOnChain EXCEPT ![u] = [a \in Assets |-> 0]]
    BY <1>5 DEF RefundInvestor, config
  <2>2. RecordInv' /\ Investors' = Investors \ {u}
    BY <1>0, <2>1, RemovalRecorded
  <2>3. RefundInv'
    BY <1>0, <1>5, RefundCovered
  <2>4. /\ \A v \in Wallets \ {u} : paidOnChain'[v] = paidOnChain[v]
        /\ \A a \in Assets : paidOnChain'[u][a] = 0
    BY <1>0, <2>1 DEF Ledgers
  <2>5. PaymentHonoured'
    BY <1>0, <2>2, <2>4 DEF PaymentHonoured, HasOnChainPayment
  <2> QED BY <2>2, <2>3, <2>5 DEF PreSaleInv
<1>6. ASSUME \/ \E cap \in Caps : SetBuyerApproval(u, cap)
             \/ DeployVault(u) \/ RevokeVault(u) \/ RescueVaultSurplus(u)
             \/ \E n \in Donations : Donate(u, n)
      PROVE  PreSaleInv'
  <2>1. UNCHANGED <<records, hardCapSRX, srxPrice, refunds>>
    BY <1>6 DEF SetBuyerApproval, DeployVault, DeployVaults, RevokeVault, RescueVaultSurplus, Donate, ChangeVault, config
  <2>2. RecordInv' /\ Investors' = Investors
    BY <1>0, <2>1, RecordsUntouched
  <2> QED BY <1>0, <1>1, <2>1, <2>2, PaymentsUntouched DEF PreSaleInv
<1> QED BY <1>2, <1>3, <1>4, <1>5, <1>6 DEF AdminStep

\* A call about the round, or time passing, keeps the invariant.
LEMMA RoundStepKeeps ==
  ASSUME PreSaleInv, RoundStep \/ Tick
  PROVE  PreSaleInv'
<1>0. /\ RefundInv /\ RecordInv /\ PaymentHonoured /\ srxPrice \in Nat \ {0} /\ hardCapSRX \in Nat
      /\ totalAllocated \in Nat /\ totalAllocated <= hardCapSRX
      /\ paidOnChain \in Ledgers /\ held \in [Assets -> Int] /\ totalRefundOwed \in [Assets -> Int]
      /\ \A a \in Assets : totalRefundOwed[a] <= held[a]
  BY DEF PreSaleInv, RecordInv, RefundInv, RefundTypes, RefundsCovered
<1>1. ASSUME UNCHANGED refunds PROVE RefundInv' /\ UNCHANGED paidOnChain
  <2>1. UNCHANGED <<paidOnChain, refundOwed, totalRefundOwed, held>>
    BY <1>1 DEF refunds
  <2> QED BY <1>0, <2>1, RefundsUntouched
<1>2. ASSUME NEW a \in Assets, NEW n \in 1..MaxPaid, Withdraw(a, n) \/ ReturnFunds(a, n)
      PROVE  PreSaleInv'
  <2>1. UNCHANGED <<records, hardCapSRX, srxPrice, paidOnChain, refundOwed, totalRefundOwed>>
    BY <1>2 DEF Withdraw, ReturnFunds, config
  <2>2. n \in Nat /\ held[a] \in Int /\ totalRefundOwed[a] \in Int
    BY <1>0
  <2>3. CASE Withdraw(a, n)
    <3>1. n \in 1..Withdrawable(a) /\ held' = [held EXCEPT ![a] = held[a] - n]
      BY <1>0, <2>3 DEF Withdraw
    <3>2. n <= held[a] - totalRefundOwed[a]
      BY <2>2, <3>1 DEF Withdrawable
    <3>3. held' \in [Assets -> Int] /\ \A b \in Assets : totalRefundOwed[b] <= held'[b]
      BY <1>0, <2>2, <3>1, <3>2
    <3>4. RefundInv'
      BY <1>0, <2>1, <3>3, RefundsUntouched
    <3>5. RecordInv' /\ Investors' = Investors
      BY <1>0, <2>1, RecordsUntouched
    <3> QED BY <1>0, <2>1, <3>4, <3>5, PaymentsUntouched DEF PreSaleInv
  <2>4. CASE ReturnFunds(a, n)
    <3>1. held' = [held EXCEPT ![a] = held[a] + n]
      BY <1>0, <2>4 DEF ReturnFunds
    <3>3. held' \in [Assets -> Int] /\ \A b \in Assets : totalRefundOwed[b] <= held'[b]
      BY <1>0, <2>2, <3>1
    <3>4. RefundInv'
      BY <1>0, <2>1, <3>3, RefundsUntouched
    <3>5. RecordInv' /\ Investors' = Investors
      BY <1>0, <2>1, RecordsUntouched
    <3> QED BY <1>0, <2>1, <3>4, <3>5, PaymentsUntouched DEF PreSaleInv
  <2> QED BY <1>2, <2>3, <2>4
<1>3. ASSUME UNCHANGED <<records, refunds>>, srxPrice' \in Nat \ {0},
             hardCapSRX' \in Nat, totalAllocated <= hardCapSRX'
      PROVE  PreSaleInv'
  <2>1. RecordInv' /\ Investors' = Investors
    BY <1>0, <1>3, SettingsChanged
  <2> QED BY <1>0, <1>1, <1>3, <2>1, PaymentsUntouched DEF PreSaleInv
<1>4. ASSUME \/ FundSRX \/ RecoverSRX \/ Finalize \/ Tick
             \/ \E p \in Pages : BatchDeployVaults(p[1], p[2]) \/ BatchTriggerTGE(p[1], p[2])
             \/ \E p \in BOOLEAN : SetPaused(p)
             \/ \E x \in MinContributions : SetMinContribution(x)
      PROVE  UNCHANGED <<records, refunds, srxPrice, hardCapSRX>>
  BY <1>4 DEF FundSRX, RecoverSRX, Finalize, Tick, BatchDeployVaults, DeployVaults, BatchTriggerTGE, SetPaused, SetMinContribution, config
<1>5. ASSUME NEW p \in SRXPrices, SetSRXPrice(p) PROVE PreSaleInv'
  <2>1. UNCHANGED <<records, refunds, hardCapSRX>> /\ srxPrice' \in Nat \ {0}
    BY <1>5, PreSaleAssumption DEF SetSRXPrice
  <2> QED BY <1>0, <1>3, <2>1
<1>6. ASSUME NEW cap \in HardCaps, SetHardCap(cap) PROVE PreSaleInv'
  <2>1. UNCHANGED <<records, refunds, srxPrice>> /\ hardCapSRX' \in Nat /\ totalAllocated <= hardCapSRX'
    BY <1>0, <1>6, PreSaleAssumption DEF SetHardCap
  <2> QED BY <1>0, <1>3, <2>1
<1> QED BY <1>0, <1>2, <1>3, <1>4, <1>5, <1>6 DEF RoundStep

-----------------------------------------------------------------------------
(***************************************************************************)
(* The theorems.                                                           *)
(***************************************************************************)
LEMMA PreSaleInit == Init => PreSaleInv
<1> SUFFICES ASSUME Init PROVE PreSaleInv
  OBVIOUS
<1>1. /\ srxPrice \in Nat \ {0} /\ hardCapSRX \in Nat
  BY PreSaleAssumption DEF Init
<1>2. /\ srxAllocation = [u \in Wallets |-> 0] /\ cumulativeUsd = [u \in Wallets |-> 0]
      /\ investorList = << >> /\ totalAllocated = 0
  BY DEF Init
<1>3. /\ paidOnChain = [u \in Wallets |-> [a \in Assets |-> 0]]
      /\ refundOwed = [u \in Wallets |-> [a \in Assets |-> 0]]
      /\ totalRefundOwed = [a \in Assets |-> 0] /\ held = [a \in Assets |-> 0]
  BY DEF Init
<1>4. RefundTypes
  BY <1>3 DEF RefundTypes, Ledgers
<1>5. RefundsCovered
  <2> SUFFICES ASSUME NEW a \in Assets PROVE Total([u \in Wallets |-> refundOwed[u][a]]) = 0
    BY <1>3 DEF RefundsCovered
  <2> DEFINE f == [u \in Wallets |-> refundOwed[u][a]]
  <2>1. \A u \in DOMAIN f : f[u] = 0
    BY <1>3
  <2> HIDE DEF f
  <2>2. Total(f) = 0
    BY <2>1, TotalZero
  <2> QED BY <2>2 DEF f
<1>6. Investors = {}
  BY <1>2 DEF Investors
<1>7. Listing(investorList, Investors)
  <2>1. Len(investorList) = 0 /\ investorList \in Seq(Wallets)
    BY <1>2
  <2>2. IsFiniteSet({}) /\ Cardinality({}) = 0
    BY FS_EmptySet
  <2> QED BY <1>6, <2>1, <2>2 DEF Listing
<1>8. Total(srxAllocation) = 0
  BY <1>2, TotalZero
<1>9. RecordInv
  BY <1>1, <1>2, <1>7, <1>8 DEF RecordInv
<1>10. PaymentHonoured
  BY <1>3 DEF PaymentHonoured, HasOnChainPayment
<1> QED BY <1>4, <1>5, <1>9, <1>10 DEF PreSaleInv, RefundInv

\* Every step keeps the invariant.
LEMMA PreSaleStep == PreSaleInv /\ [Next]_preSaleVars => PreSaleInv'
<1> SUFFICES ASSUME PreSaleInv, [Next]_preSaleVars PROVE PreSaleInv'
  OBVIOUS
<1>1. CASE \E u \in Wallets : BuyerStep(u) \/ AdminStep(u)
  BY <1>1, BuyerStepKeeps, AdminStepKeeps
<1>2. CASE RoundStep \/ Tick
  BY <1>2, RoundStepKeeps
<1>3. CASE UNCHANGED preSaleVars
  <2>1. UNCHANGED <<paidOnChain, refundOwed, totalRefundOwed, held, records, hardCapSRX, srxPrice>>
    BY <1>3 DEF preSaleVars, config, refunds
  <2>2. /\ RefundInv /\ RecordInv /\ PaymentHonoured /\ srxPrice \in Nat \ {0}
        /\ paidOnChain \in Ledgers /\ held \in [Assets -> Int]
        /\ \A a \in Assets : totalRefundOwed[a] <= held[a]
    BY DEF PreSaleInv, RecordInv, RefundInv, RefundTypes, RefundsCovered
  <2>3. RefundInv'
    BY <2>1, <2>2, RefundsUntouched
  <2>4. RecordInv' /\ Investors' = Investors
    BY <2>1, <2>2, RecordsUntouched
  <2> QED BY <2>1, <2>2, <2>3, <2>4, PaymentsUntouched DEF PreSaleInv
<1> QED BY <1>1, <1>2, <1>3 DEF Next

\* Every refund made claimable is held.
THEOREM RefundsAlwaysCovered == Spec => []RefundsCovered
<1>1. PreSaleInv => RefundsCovered
  BY DEF PreSaleInv, RefundInv
<1> QED BY <1>1, PreSaleInit, PreSaleStep, PTL DEF Spec

\* Who paid has an allocation until the payment has become a refund.
THEOREM PaymentsHonoured == Spec => []PaymentHonoured
<1>1. PreSaleInv => PaymentHonoured
  BY DEF PreSaleInv
<1> QED BY <1>1, PreSaleInit, PreSaleStep, PTL DEF Spec

\* The list names every investor once, however removals reorder it, and the
\* total counts each within the cap.
THEOREM ListNamesHoldersOnce == Spec => []InvestorsListed
<1>1. PreSaleInv => InvestorsListed
  BY DEF PreSaleInv, RecordInv, Listing, InvestorsListed
<1> QED BY <1>1, PreSaleInit, PreSaleStep, PTL DEF Spec

-----------------------------------------------------------------------------
(***************************************************************************)
(* Every allocation is what its dollars buy.                               *)
(***************************************************************************)
EarnedInv == approval \in [Wallets -> Nat] /\ AllocationEarned

\* A purchase, or a payment recorded by the admin.
LEMMA InvestmentEarned ==
  ASSUME RecordInv, EarnedInv, NEW u \in Wallets, NEW usd \in Nat, ProcessInvestment(u, usd),
         UNCHANGED <<srxPrice, approval>>
  PROVE  EarnedInv'
<1> DEFINE cumulative == cumulativeUsd[u] + usd
           more == cumulative + 1
<1>1. /\ cumulative \in Nat /\ more \in Nat /\ cumulative <= more
      /\ cumulativeUsd \in [Wallets -> Nat] /\ srxAllocation \in [Wallets -> Nat]
      /\ srxPrice \in Nat \ {0}
  BY DEF RecordInv
<1> DEFINE n == ComputeTotalSRXWithBonus(cumulative)
           n2 == ComputeTotalSRXWithBonus(more)
<1>2. n \in Nat /\ n2 \in Nat /\ n <= n2
  <2> HIDE DEF cumulative, more
  <2> QED BY <1>1, ComputeMonotone
<1>3. /\ cumulative <= approval[u]
      /\ cumulativeUsd' = [cumulativeUsd EXCEPT ![u] = cumulative]
      /\ srxAllocation' = [srxAllocation EXCEPT ![u] = n]
  BY DEF ProcessInvestment
<1>4. \A x : ComputeTotalSRXWithBonus(x)' = ComputeTotalSRXWithBonus(x)
  BY DEF ComputeTotalSRXWithBonus, GetTierBps, WithinTier
<1> HIDE DEF n, n2
<1>5. ASSUME NEW v \in Wallets, srxAllocation'[v] > 0
      PROVE  /\ ComputeTotalSRXWithBonus(cumulativeUsd'[v]) <= srxAllocation'[v]
             /\ srxAllocation'[v] <= ComputeTotalSRXWithBonus(cumulativeUsd'[v] + 1)
             /\ cumulativeUsd'[v] <= approval[v]
  <2>1. CASE v = u
    <3>1. cumulativeUsd'[v] = cumulative /\ srxAllocation'[v] = n
      BY <1>1, <1>3, <2>1
    <3> QED BY <1>2, <1>3, <2>1, <3>1 DEF n, n2
  <2>2. CASE v # u
    <3>1. cumulativeUsd'[v] = cumulativeUsd[v] /\ srxAllocation'[v] = srxAllocation[v]
      BY <1>1, <1>3, <2>2
    <3> QED BY <1>5, <3>1 DEF EarnedInv, AllocationEarned, Investors
  <2> QED BY <2>1, <2>2
<1>6. AllocationEarned'
  BY <1>4, <1>5 DEF AllocationEarned, Investors
<1> QED BY <1>6 DEF EarnedInv

\* A correction records the dollars that buy it.
LEMMA CorrectionEarned ==
  ASSUME RecordInv, EarnedInv, NEW u \in Wallets, NEW srx \in Corrections, UpdateAllocation(u, srx)
  PROVE  EarnedInv'
<1>1. /\ cumulativeUsd \in [Wallets -> Nat] /\ srxAllocation \in [Wallets -> Nat]
      /\ srxPrice \in Nat \ {0} /\ srx \in Nat
  BY PreSaleAssumption DEF RecordInv
<1>2. PICK usd \in UsdFromSrx(srx) :
        usd <= approval[u] /\ cumulativeUsd' = [cumulativeUsd EXCEPT ![u] = usd]
  BY DEF UpdateAllocation
<1>3. /\ srxAllocation' = [srxAllocation EXCEPT ![u] = srx]
      /\ UNCHANGED <<srxPrice, approval>>
  BY DEF UpdateAllocation, config
<1>4. \A x : ComputeTotalSRXWithBonus(x)' = ComputeTotalSRXWithBonus(x)
  BY <1>3 DEF ComputeTotalSRXWithBonus, GetTierBps, WithinTier
<1>5. /\ usd \in Nat
      /\ ComputeTotalSRXWithBonus(usd) <= srx /\ srx <= ComputeTotalSRXWithBonus(usd + 1)
  BY <1>1, CorrectionExact
<1>6. ASSUME NEW v \in Wallets, srxAllocation'[v] > 0
      PROVE  /\ ComputeTotalSRXWithBonus(cumulativeUsd'[v]) <= srxAllocation'[v]
             /\ srxAllocation'[v] <= ComputeTotalSRXWithBonus(cumulativeUsd'[v] + 1)
             /\ cumulativeUsd'[v] <= approval[v]
  <2>1. CASE v = u
    <3>1. cumulativeUsd'[v] = usd /\ srxAllocation'[v] = srx
      BY <1>1, <1>2, <1>3, <2>1
    <3> QED BY <1>2, <1>5, <2>1, <3>1
  <2>2. CASE v # u
    <3>1. cumulativeUsd'[v] = cumulativeUsd[v] /\ srxAllocation'[v] = srxAllocation[v]
      BY <1>1, <1>2, <1>3, <2>2
    <3> QED BY <1>6, <3>1 DEF EarnedInv, AllocationEarned, Investors
  <2> QED BY <2>1, <2>2
<1>7. AllocationEarned'
  BY <1>3, <1>4, <1>6 DEF AllocationEarned, Investors
<1> QED BY <1>3, <1>7 DEF EarnedInv

\* A removal takes the allocation with the dollars and the approval.
LEMMA RemovalEarned ==
  ASSUME RecordInv, EarnedInv, NEW u \in Wallets, RemoveRecords(u), UNCHANGED srxPrice
  PROVE  EarnedInv'
<1>1. /\ cumulativeUsd \in [Wallets -> Nat] /\ srxAllocation \in [Wallets -> Nat]
      /\ approval \in [Wallets -> Nat]
  BY DEF RecordInv, EarnedInv
<1>2. /\ srxAllocation' = [srxAllocation EXCEPT ![u] = 0]
      /\ cumulativeUsd' = [cumulativeUsd EXCEPT ![u] = 0]
      /\ approval' = [approval EXCEPT ![u] = 0]
  BY DEF RemoveRecords
<1>3. \A x : ComputeTotalSRXWithBonus(x)' = ComputeTotalSRXWithBonus(x)
  BY DEF ComputeTotalSRXWithBonus, GetTierBps, WithinTier
<1>4. ASSUME NEW v \in Wallets, srxAllocation'[v] > 0
      PROVE  /\ v \in Investors
             /\ cumulativeUsd'[v] = cumulativeUsd[v] /\ srxAllocation'[v] = srxAllocation[v]
             /\ approval'[v] = approval[v]
  BY <1>1, <1>2, <1>4 DEF Investors
<1>5. AllocationEarned'
  BY <1>3, <1>4 DEF EarnedInv, AllocationEarned, Investors
<1> QED BY <1>1, <1>2, <1>5 DEF EarnedInv

\* A new approval covers what was recorded.
LEMMA ApprovalEarned ==
  ASSUME RecordInv, EarnedInv, NEW u \in Wallets, NEW cap \in Caps, SetBuyerApproval(u, cap)
  PROVE  EarnedInv'
<1>1. cap \in Nat /\ approval \in [Wallets -> Nat] /\ cumulativeUsd \in [Wallets -> Nat]
  BY PreSaleAssumption DEF EarnedInv, RecordInv
<1>2. /\ UNCHANGED <<srxAllocation, cumulativeUsd, srxPrice>>
      /\ approval' = [approval EXCEPT ![u] = cap] /\ cap >= cumulativeUsd[u]
  BY DEF SetBuyerApproval, records, config
<1>3. \A x : ComputeTotalSRXWithBonus(x)' = ComputeTotalSRXWithBonus(x)
  BY <1>2 DEF ComputeTotalSRXWithBonus, GetTierBps, WithinTier
<1>4. ASSUME NEW v \in Wallets, v \in Investors PROVE cumulativeUsd[v] <= approval'[v]
  BY <1>1, <1>2, <1>4 DEF EarnedInv, AllocationEarned
<1>5. AllocationEarned'
  BY <1>2, <1>3, <1>4 DEF EarnedInv, AllocationEarned, Investors
<1> QED BY <1>1, <1>2, <1>5 DEF EarnedInv

\* A step that leaves the records and the price.
LEMMA EarnedUntouched ==
  ASSUME EarnedInv, UNCHANGED <<srxAllocation, cumulativeUsd, srxPrice, approval>>
  PROVE  EarnedInv'
<1>1. \A x : ComputeTotalSRXWithBonus(x)' = ComputeTotalSRXWithBonus(x)
  BY DEF ComputeTotalSRXWithBonus, GetTierBps, WithinTier
<1> QED BY <1>1 DEF EarnedInv, AllocationEarned, Investors

\* The price is only set while the list is empty: nobody is an investor.
LEMMA PriceEarned ==
  ASSUME RecordInv, EarnedInv, NEW p \in SRXPrices, SetSRXPrice(p)
  PROVE  EarnedInv'
<1>1. investorList = << >> /\ UNCHANGED <<srxAllocation, approval>>
  BY DEF SetSRXPrice, records
<1>2. Investors = {}
  <2>1. Len(investorList) = 0
    BY <1>1
  <2> QED BY <2>1 DEF RecordInv, Listing
<1>3. Investors' = {}
  BY <1>1, <1>2 DEF Investors
<1> QED BY <1>1, <1>3 DEF EarnedInv, AllocationEarned

\* Every step keeps it.
LEMMA EarnedStep ==
  ASSUME PreSaleInv, EarnedInv, [Next]_preSaleVars
  PROVE  EarnedInv'
<1>0. RecordInv
  BY DEF PreSaleInv
<1>1. ASSUME NEW u \in Wallets, BuyerStep(u) PROVE EarnedInv'
  <2>1. ASSUME NEW a \in Assets, NEW n \in Payments, NEW price \in Prices[a], Invest(u, a, n, price)
        PROVE  EarnedInv'
    <3> DEFINE usd == n * price
    <3>1. n \in Nat /\ price \in Nat
      BY PreSaleAssumption
    <3>2. usd \in Nat
      BY <3>1
    <3>3. ProcessInvestment(u, usd) /\ UNCHANGED <<srxPrice, approval>>
      BY <2>1 DEF Invest, config
    <3> HIDE DEF usd
    <3> QED BY <1>0, <3>2, <3>3, InvestmentEarned
  <2>2. ASSUME (\E a \in Assets : ClaimRefund(u, a)) \/ Release(u)
        PROVE  UNCHANGED <<srxAllocation, cumulativeUsd, srxPrice, approval>>
    BY <2>2 DEF ClaimRefund, Release, ChangeVault, records, config
  <2> QED BY <1>1, <2>1, <2>2, EarnedUntouched DEF BuyerStep
<1>2. ASSUME NEW u \in Wallets, AdminStep(u) PROVE EarnedInv'
  <2>1. ASSUME NEW usd \in Payments, AddInvestor(u, usd) PROVE EarnedInv'
    <3>1. usd \in Nat /\ ProcessInvestment(u, usd) /\ UNCHANGED <<srxPrice, approval>>
      BY <2>1, Finite DEF AddInvestor, config
    <3> QED BY <1>0, <3>1, InvestmentEarned
  <2>2. ASSUME RemoveInvestor(u) \/ RefundInvestor(u) PROVE EarnedInv'
    <3>1. RemoveRecords(u) /\ UNCHANGED srxPrice
      BY <2>2 DEF RemoveInvestor, RefundInvestor, config
    <3> QED BY <1>0, <3>1, RemovalEarned
  <2>3. ASSUME \/ DeployVault(u) \/ RevokeVault(u) \/ RescueVaultSurplus(u)
               \/ \E n \in Donations : Donate(u, n)
        PROVE  UNCHANGED <<srxAllocation, cumulativeUsd, srxPrice, approval>>
    BY <2>3 DEF DeployVault, DeployVaults, RevokeVault, RescueVaultSurplus, Donate, ChangeVault, records, config
  <2> QED BY <1>0, <1>2, <2>1, <2>2, <2>3, EarnedUntouched, ApprovalEarned, CorrectionEarned DEF AdminStep
<1>3. ASSUME RoundStep PROVE EarnedInv'
  <2>1. ASSUME \/ \E a \in Assets, n \in 1..MaxPaid : Withdraw(a, n) \/ ReturnFunds(a, n)
               \/ FundSRX \/ RecoverSRX \/ Finalize
               \/ \E p \in Pages : BatchDeployVaults(p[1], p[2]) \/ BatchTriggerTGE(p[1], p[2])
        PROVE  UNCHANGED <<srxAllocation, cumulativeUsd, srxPrice, approval>>
    BY <2>1 DEF Withdraw, ReturnFunds, FundSRX, RecoverSRX, Finalize, BatchDeployVaults, DeployVaults,
                BatchTriggerTGE, records, config
  <2>2. ASSUME \/ \E p \in BOOLEAN : SetPaused(p)
               \/ \E cap \in HardCaps : SetHardCap(cap)
               \/ \E m \in MinContributions : SetMinContribution(m)
        PROVE  UNCHANGED <<srxAllocation, cumulativeUsd, srxPrice, approval>>
    BY <2>2 DEF SetPaused, SetHardCap, SetMinContribution, records
  <2> QED BY <1>0, <1>3, <2>1, <2>2, EarnedUntouched, PriceEarned DEF RoundStep
<1>4. ASSUME Tick \/ UNCHANGED preSaleVars
      PROVE  UNCHANGED <<srxAllocation, cumulativeUsd, srxPrice, approval>>
  BY <1>4 DEF Tick, preSaleVars, records, config
<1> QED BY <1>1, <1>2, <1>3, <1>4, EarnedUntouched DEF Next

\* Every allocation is what its recorded dollars buy, within a cent, and the
\* dollars keep within the approval.
THEOREM AllocationsEarned == Spec => []AllocationEarned
<1> DEFINE Inv == PreSaleInv /\ EarnedInv
<1>1. Init => Inv
  <2> SUFFICES ASSUME Init PROVE EarnedInv
    BY PreSaleInit
  <2>1. approval = [u \in Wallets |-> 0] /\ srxAllocation = [u \in Wallets |-> 0]
    BY DEF Init
  <2> QED BY <2>1 DEF EarnedInv, AllocationEarned, Investors
<1>2. Inv /\ [Next]_preSaleVars => Inv'
  BY PreSaleStep, EarnedStep
<1>3. Inv => AllocationEarned
  BY DEF EarnedInv
<1> HIDE DEF Inv
<1> QED BY <1>1, <1>2, <1>3, PTL DEF Spec

-----------------------------------------------------------------------------
(***************************************************************************)
(* What an allocation vests.                                               *)
(***************************************************************************)
\* The share released at the TGE is part of the allocation.
LEMMA UnlockPart ==
  ASSUME NEW total \in Nat
  PROVE  /\ (total * TGE_UNLOCK_BPS) \div BPS_DENOMINATOR \in Nat
         /\ (total * TGE_UNLOCK_BPS) \div BPS_DENOMINATOR <= total
<1>1. /\ TGE_UNLOCK_BPS \in Nat /\ TGE_UNLOCK_BPS <= BPS_DENOMINATOR
      /\ BPS_DENOMINATOR \in Nat \ {0}
  BY VestingAssumption
<1> DEFINE share == total * TGE_UNLOCK_BPS
<1>2. share \in Nat /\ share <= total * BPS_DENOMINATOR
  BY <1>1, TimesMonotone
<1> HIDE DEF share
<1>3. share \div BPS_DENOMINATOR \in Nat /\ share \div BPS_DENOMINATOR <= total
  BY <1>1, <1>2, QuotientLeast
<1> QED BY <1>3 DEF share

\* The linear part of an amount is part of it, and grows with time.
LEMMA LinearPart ==
  ASSUME NEW amount \in Nat, NEW d \in Nat \ {0}, NEW s \in Nat, NEW t \in Nat, s <= t, t < d
  PROVE  /\ (amount * s) \div d \in Nat /\ (amount * t) \div d \in Nat
         /\ (amount * s) \div d <= (amount * t) \div d
         /\ (amount * t) \div d <= amount
<1> DEFINE x == amount * s
           y == amount * t
<1>1. x \in Nat /\ y \in Nat /\ x <= y
  BY TimesMonotone
<1>2. y <= amount * d
  BY TimesMonotone
<1> HIDE DEF x, y
<1>3. y \div d \in Nat /\ y \div d <= amount
  BY <1>1, <1>2, QuotientLeast
<1>4. x \div d \in Nat /\ x \div d <= y \div d
  BY <1>1, QuotientMonotone
<1> QED BY <1>3, <1>4 DEF x, y

\* What is vested is part of the allocation, and never shrinks with time.
LEMMA ScheduleGrows ==
  ASSUME NEW total \in Nat, NEW s \in Nat, NEW t \in Nat, s <= t
  PROVE  /\ Schedule(total, s) \in Nat /\ Schedule(total, t) \in Nat
         /\ Schedule(total, s) <= Schedule(total, t)
         /\ Schedule(total, t) <= total
<1> DEFINE tge  == (total * TGE_UNLOCK_BPS) \div BPS_DENOMINATOR
           rest == total - tge
           from == s - CLIFF_DURATION
           to   == t - CLIFF_DURATION
           Linear(x) == (rest * x) \div VESTING_DURATION
           Vested(x) == CASE x < 0                              -> tge
                          [] x >= 0 /\ x >= VESTING_DURATION    -> tge + rest
                          [] x >= 0 /\ x < VESTING_DURATION     -> tge + Linear(x)
<1>1. tge \in Nat /\ rest \in Nat /\ tge + rest = total
  BY UnlockPart
<1>2. from \in Int /\ to \in Int /\ from <= to /\ VESTING_DURATION \in Nat
  BY VestingAssumption
<1>3. Schedule(total, s) = Vested(from) /\ Schedule(total, t) = Vested(to)
  BY DEF Schedule
<1> HIDE DEF tge, rest, from, to
<1>4. ASSUME NEW x \in Int, NEW y \in Int, x >= 0, x <= y, y < VESTING_DURATION
      PROVE  Linear(x) \in Nat /\ Linear(y) \in Nat /\ Linear(x) <= Linear(y) /\ Linear(y) <= rest
  BY <1>1, <1>2, <1>4, LinearPart
<1>5. \A x, y \in Int : x >= 0 /\ x <= y /\ y < VESTING_DURATION =>
        Linear(x) \in Nat /\ Linear(y) \in Nat /\ Linear(x) <= Linear(y) /\ Linear(y) <= rest
  BY <1>4
<1> HIDE DEF Linear
<1>6. ASSUME NEW x \in Int, x >= 0, x < VESTING_DURATION PROVE Linear(x) \in Nat /\ Linear(x) <= rest
  BY <1>5, <1>6
<1>7. ASSUME NEW x \in Int
      PROVE  /\ x < 0 => Vested(x) = tge
             /\ x >= 0 /\ x >= VESTING_DURATION => Vested(x) = tge + rest
             /\ x >= 0 /\ x < VESTING_DURATION => Vested(x) = tge + Linear(x)
  <2>1. ASSUME x < 0 PROVE Vested(x) = tge
    <3>1. ~(x >= 0)
      BY <2>1
    <3> QED BY <2>1, <3>1
  <2>2. ASSUME x >= 0, x >= VESTING_DURATION PROVE Vested(x) = tge + rest
    <3>1. ~(x < 0) /\ ~(x < VESTING_DURATION)
      BY <1>2, <2>2
    <3> QED BY <2>2, <3>1
  <2>3. ASSUME x >= 0, x < VESTING_DURATION PROVE Vested(x) = tge + Linear(x)
    <3>1. ~(x < 0) /\ ~(x >= VESTING_DURATION)
      BY <1>2, <2>3
    <3> QED BY <2>3, <3>1
  <2> QED BY <2>1, <2>2, <2>3
<1> HIDE DEF Vested
<1>8. Vested(from) <= Vested(to) /\ Vested(from) \in Nat /\ Vested(to) \in Nat /\ Vested(to) <= total
  <2>1. CASE to < 0
    BY <1>1, <1>2, <1>7, <2>1
  <2>2. CASE to >= 0 /\ to >= VESTING_DURATION
    BY <1>1, <1>2, <1>6, <1>7, <2>2
  <2>3. CASE to >= 0 /\ to < VESTING_DURATION
    <3>1. Vested(to) = tge + Linear(to) /\ Linear(to) \in Nat /\ Linear(to) <= rest
      BY <1>2, <1>6, <1>7, <2>3
    <3>2. CASE from < 0
      <4>1. Vested(from) = tge
        BY <1>2, <1>7, <3>2
      <4> QED BY <1>1, <3>1, <4>1
    <3>3. CASE from >= 0
      <4>1. Vested(from) = tge + Linear(from)
        BY <1>2, <1>7, <2>3, <3>3
      <4>2. Linear(from) \in Nat /\ Linear(from) <= Linear(to)
        BY <1>2, <1>5, <2>3, <3>3
      <4> QED BY <1>1, <3>1, <4>1, <4>2
    <3> QED BY <1>2, <3>2, <3>3
  <2> QED BY <1>2, <2>1, <2>2, <2>3
<1> QED BY <1>3, <1>8

-----------------------------------------------------------------------------
(***************************************************************************)
(* Every vault keeps its grant.                                            *)
(***************************************************************************)
Vaults == [held : Nat, expectedAllocation : Nat, initialAllocation : Nat, tgeTriggered : BOOLEAN,
           tgeTimestamp : Nat, released : Nat, revoked : BOOLEAN]

\* What vault v may have paid by time t if its grant is n.
Due(v, n, t) == IF v.tgeTriggered THEN Schedule(n, t - v.tgeTimestamp) ELSE 0

\* Vault v keeps a grant of n at time t: the snapshot of the TGE is the grant.
Keeps(v, n, t) ==
    /\ v \in Vaults
    /\ v.expectedAllocation = n
    /\ v.tgeTriggered => v.initialAllocation = n /\ v.tgeTimestamp <= t
    /\ v.revoked => v.tgeTriggered
    /\ v.released <= Due(v, n, t)
    /\ ~v.revoked => v.held + v.released >= n

\* Time only adds to what is due.
LEMMA KeepsLater ==
  ASSUME NEW n \in Nat, NEW t \in Nat, NEW v, Keeps(v, n, t)
  PROVE  Keeps(v, n, t + 1)
<1>1. v.tgeTimestamp \in Nat /\ v.released \in Nat /\ v.released <= Due(v, n, t)
  BY DEF Keeps, Vaults
<1>2. CASE v.tgeTriggered
  <2> DEFINE e    == t - v.tgeTimestamp
             later == t + 1
             next == later - v.tgeTimestamp
  <2>1. e \in Nat /\ next \in Nat /\ e <= next
    BY <1>1, <1>2 DEF Keeps
  <2>2. v.released <= Schedule(n, e)
    BY <1>1, <1>2 DEF Due
  <2> HIDE DEF later
  <2>3. Due(v, n, later) = Schedule(n, next)
    BY <1>2 DEF Due
  <2> HIDE DEF e, next
  <2>4. Schedule(n, e) \in Nat /\ Schedule(n, next) \in Nat /\ Schedule(n, e) <= Schedule(n, next)
    BY <2>1, ScheduleGrows
  <2>5. v.released <= Due(v, n, later)
    BY <1>1, <2>2, <2>3, <2>4
  <2>6. v.tgeTimestamp <= t + 1
    BY <1>1, <1>2 DEF Keeps
  <2> QED BY <2>5, <2>6 DEF Keeps, later
<1>3. CASE ~v.tgeTriggered
  <2>1. Due(v, n, t + 1) = Due(v, n, t)
    BY <1>3 DEF Due
  <2> QED BY <1>1, <1>3, <2>1 DEF Keeps
<1> QED BY <1>2, <1>3

\* A new vault with its allocation keeps it.
LEMMA NewKeeps ==
  ASSUME NEW n \in Nat, NEW t \in Nat
  PROVE  Keeps(NewVault(n, n), n, t)
<1> DEFINE v == NewVault(n, n)
<1>1. /\ v \in Vaults /\ v.expectedAllocation = n /\ ~v.tgeTriggered /\ ~v.revoked
      /\ v.released = 0 /\ v.held = n
  BY DEF NewVault, Vaults
<1> HIDE DEF v
<1>2. v.released <= Due(v, n, t) /\ v.held + v.released >= n
  BY <1>1 DEF Due
<1> QED BY <1>1, <1>2 DEF Keeps, v

\* A triggered vault takes the declared allocation as its grant.
LEMMA TriggerKeeps ==
  ASSUME NEW n \in Nat \ {0}, NEW t \in Nat, NEW v, Keeps(v, n, t), ~v.tgeTriggered
  PROVE  Keeps(TriggeredTGE(v, t), n, t)
<1> DEFINE w == TriggeredTGE(v, t)
<1>1. /\ v \in Vaults /\ v.expectedAllocation = n /\ ~v.revoked
      /\ v.released \in Nat /\ v.released <= 0 /\ v.held + v.released >= n
  BY DEF Keeps, Due, Vaults
<1>2. /\ w \in Vaults /\ w.tgeTriggered /\ w.tgeTimestamp = t /\ w.initialAllocation = n
      /\ w.expectedAllocation = n /\ ~w.revoked /\ w.released = v.released /\ w.held = v.held
  BY <1>1 DEF TriggeredTGE, Vaults
<1> HIDE DEF w
<1> DEFINE zero == 0
<1>3. zero \in Nat /\ t - t = zero /\ zero <= zero
  OBVIOUS
<1>4. Due(w, n, t) = Schedule(n, zero)
  BY <1>2, <1>3 DEF Due
<1> HIDE DEF zero
<1>5. Schedule(n, zero) \in Nat
  BY <1>3, ScheduleGrows
<1>6. w.released <= Due(w, n, t)
  BY <1>1, <1>2, <1>4, <1>5
<1> QED BY <1>1, <1>2, <1>6 DEF Keeps, w

\* What can be released keeps within what is due.
LEMMA ReleasableDue ==
  ASSUME NEW n \in Nat, NEW t \in Nat, NEW v, Keeps(v, n, t), v.tgeTriggered, ~v.revoked
  PROVE  /\ Releasable(v, t) \in Nat /\ v.released + Releasable(v, t) <= Due(v, n, t)
         /\ Due(v, n, t) \in Nat /\ Due(v, n, t) <= n
<1>1. /\ v.released \in Nat /\ v.tgeTimestamp \in Nat /\ v.initialAllocation = n
      /\ v.tgeTimestamp <= t /\ v.released <= Due(v, n, t)
  BY DEF Keeps, Vaults
<1>2. VestedAmount(v, t) = Due(v, n, t)
  BY <1>1 DEF VestedAmount, TotalAllocation, Due
<1> DEFINE e == t - v.tgeTimestamp
<1>3. e \in Nat /\ e <= e
  BY <1>1
<1>4. Due(v, n, t) = Schedule(n, e)
  BY DEF Due
<1> HIDE DEF e
<1>5. Schedule(n, e) \in Nat /\ Schedule(n, e) <= n
  BY <1>3, ScheduleGrows
<1> DEFINE due == Due(v, n, t)
<1>6. due \in Nat /\ due <= n /\ VestedAmount(v, t) = due /\ v.released <= due
  BY <1>1, <1>2, <1>4, <1>5
<1> HIDE DEF due
<1> QED BY <1>1, <1>6 DEF Releasable, due

\* A release moves what is releasable from the balance to what was released.
LEMMA ReleaseKeeps ==
  ASSUME NEW n \in Nat, NEW t \in Nat, NEW v, Keeps(v, n, t), CanRelease(v, t)
  PROVE  Keeps(Released(v, t), n, t)
<1> DEFINE w == Released(v, t)
           r == Releasable(v, t)
<1>1. v \in Vaults /\ v.tgeTriggered /\ ~v.revoked /\ r <= v.held
  BY DEF CanRelease, Keeps, Vaults
<1>2. r \in Nat /\ v.released + r <= Due(v, n, t)
  BY <1>1, ReleasableDue
<1>3. w = [v EXCEPT !.released = v.released + r, !.held = v.held - r]
  BY DEF Released
<1> HIDE DEF w, r
<1>4. v.held - r \in Nat /\ v.released + r \in Nat
  BY <1>1, <1>2 DEF Vaults
<1>5. /\ w \in Vaults /\ w.released = v.released + r /\ w.held = v.held - r
      /\ w.tgeTriggered = v.tgeTriggered /\ w.revoked = v.revoked
      /\ w.tgeTimestamp = v.tgeTimestamp /\ w.initialAllocation = v.initialAllocation
      /\ w.expectedAllocation = v.expectedAllocation
  BY <1>1, <1>3, <1>4 DEF Vaults
<1>6. Due(w, n, t) = Due(v, n, t)
  BY <1>5 DEF Due
<1>7. w.held + w.released = v.held + v.released
  BY <1>1, <1>2, <1>5 DEF Vaults
<1>8. w.released <= Due(w, n, t)
  BY <1>2, <1>5, <1>6
<1> QED BY <1>1, <1>5, <1>7, <1>8 DEF Keeps, w

\* A revoked vault has paid no more than was due.
LEMMA RevokeKeeps ==
  ASSUME NEW n \in Nat, NEW t \in Nat, NEW v, Keeps(v, n, t), CanRevoke(v, t)
  PROVE  Keeps(Revoked(v, t), n, t)
<1> DEFINE w == Revoked(v, t)
           r == Releasable(v, t)
           back == Unvested(v, t)
<1>1. v \in Vaults /\ v.tgeTriggered /\ ~v.revoked /\ r + back <= v.held
  BY DEF CanRevoke, Keeps
<1>2. r \in Nat /\ v.released + r <= Due(v, n, t)
  BY <1>1, ReleasableDue
<1>3. back \in Nat
  BY <1>1, <1>2 DEF Unvested, Outstanding, Vaults
<1>4. w = [v EXCEPT !.revoked = TRUE, !.released = v.released + r, !.held = v.held - r - back]
  BY DEF Revoked
<1> HIDE DEF w, r, back
<1>5. v.held - r - back \in Nat /\ v.released + r \in Nat
  BY <1>1, <1>2, <1>3 DEF Vaults
<1>6. /\ w \in Vaults /\ w.released = v.released + r /\ w.revoked
      /\ w.tgeTriggered = v.tgeTriggered
      /\ w.tgeTimestamp = v.tgeTimestamp /\ w.initialAllocation = v.initialAllocation
      /\ w.expectedAllocation = v.expectedAllocation
  BY <1>1, <1>4, <1>5 DEF Vaults
<1>7. Due(w, n, t) = Due(v, n, t)
  BY <1>6 DEF Due
<1> QED BY <1>1, <1>2, <1>6, <1>7 DEF Keeps, w

\* A change of the balance alone that leaves the rest of the grant.
LEMMA BalanceKeeps ==
  ASSUME NEW n \in Nat, NEW t \in Nat, NEW v, Keeps(v, n, t), NEW h \in Nat,
         ~v.revoked => h + v.released >= n
  PROVE  Keeps([v EXCEPT !.held = h], n, t)
<1> DEFINE w == [v EXCEPT !.held = h]
<1>1. v \in Vaults
  BY DEF Keeps
<1>2. /\ w \in Vaults /\ w.released = v.released /\ w.held = h
      /\ w.tgeTriggered = v.tgeTriggered /\ w.revoked = v.revoked
      /\ w.tgeTimestamp = v.tgeTimestamp /\ w.initialAllocation = v.initialAllocation
      /\ w.expectedAllocation = v.expectedAllocation
  BY <1>1 DEF Vaults
<1> HIDE DEF w
<1>3. Due(w, n, t) = Due(v, n, t)
  BY <1>2 DEF Due
<1> QED BY <1>2, <1>3 DEF Keeps, w

\* A rescue takes only what exceeds the rest of the grant.
LEMMA RescueKeeps ==
  ASSUME NEW n \in Nat, NEW t \in Nat, NEW v, Keeps(v, n, t)
  PROVE  Keeps(Rescued(v), n, t)
<1> DEFINE h == v.held - Surplus(v)
<1>1. /\ v.held \in Nat /\ v.released \in Nat /\ v.initialAllocation \in Nat
      /\ v.revoked \in BOOLEAN /\ v.tgeTriggered \in BOOLEAN /\ v.expectedAllocation = n
      /\ v.tgeTriggered => v.initialAllocation = n
      /\ ~v.revoked => v.held + v.released >= n
  BY DEF Keeps, Vaults
<1>2. h \in Nat /\ (~v.revoked => h + v.released >= n)
  BY <1>1 DEF Surplus, Outstanding
<1>3. Rescued(v) = [v EXCEPT !.held = h]
  BY DEF Rescued
<1> HIDE DEF h
<1> QED BY <1>2, <1>3, BalanceKeeps

\* Every deployed vault belongs to an investor and keeps their allocation.
GrantInv ==
    /\ now \in Nat
    /\ vault \in [Wallets -> {NoVault} \cup Vaults]
    /\ \A u \in Wallets : HasVault(u) => u \in Investors /\ Keeps(vault[u], srxAllocation[u], now)

\* The investor of a vault, whose allocation is a positive number.
LEMMA VaultOwner ==
  ASSUME RecordInv, GrantInv, NEW u \in Wallets, HasVault(u)
  PROVE  /\ srxAllocation[u] \in Nat \ {0} /\ now \in Nat /\ vault[u] \in Vaults
         /\ Keeps(vault[u], srxAllocation[u], now)
BY DEF RecordInv, GrantInv, Investors, Keeps

\* A step that changes no allocation behind a vault, and no vault.
LEMMA GrantsUntouched ==
  ASSUME GrantInv, UNCHANGED <<now, vault>>,
         \A u \in Wallets : HasVault(u) => srxAllocation'[u] = srxAllocation[u]
  PROVE  GrantInv'
<1>1. ASSUME NEW u \in Wallets, HasVault(u)'
      PROVE  (u \in Investors)' /\ Keeps(vault[u], srxAllocation[u], now)'
  <2>1. HasVault(u) /\ srxAllocation'[u] = srxAllocation[u]
    BY <1>1 DEF HasVault
  <2> QED BY <2>1 DEF GrantInv, Investors, Keeps, Due
<1> QED BY <1>1 DEF GrantInv

\* Vaults change only to others that keep the same grants.
LEMMA GrantsChanged ==
  ASSUME GrantInv, UNCHANGED <<now, srxAllocation>>, vault' = [u \in Wallets |-> vault'[u]],
         \A u \in Wallets : \/ vault'[u] = vault[u]
                            \/ u \in Investors /\ Keeps(vault'[u], srxAllocation[u], now)
  PROVE  GrantInv'
<1>1. Investors' = Investors
  BY DEF Investors
<1>2. \A u \in Wallets : vault'[u] \in {NoVault} \cup Vaults
  BY DEF GrantInv, Keeps
<1>3. ASSUME NEW u \in Wallets, HasVault(u)'
      PROVE  (u \in Investors)' /\ Keeps(vault[u], srxAllocation[u], now)'
  <2>1. u \in Investors /\ Keeps(vault'[u], srxAllocation[u], now)
    BY <1>3 DEF GrantInv, HasVault
  <2> QED BY <1>1, <2>1 DEF Keeps, Due
<1> QED BY <1>2, <1>3 DEF GrantInv

\* One vault changes to another that keeps its grant.
LEMMA VaultChanged ==
  ASSUME RecordInv, GrantInv, NEW u \in Wallets, HasVault(u), NEW new, ChangeVault(u, new),
         Keeps(new, srxAllocation[u], now)
  PROVE  GrantInv'
<1>1. UNCHANGED <<now, srxAllocation>> /\ vault' = [vault EXCEPT ![u] = new]
  BY DEF ChangeVault, records
<1>2. vault' = [w \in Wallets |-> vault'[w]] /\ vault'[u] = new
      /\ \A w \in Wallets \ {u} : vault'[w] = vault[w]
  BY <1>1 DEF GrantInv
<1>3. u \in Investors
  BY DEF GrantInv
<1> QED BY <1>1, <1>2, <1>3, GrantsChanged

\* Deployed vaults start with the allocations declared to them.
LEMMA DeployKeeps ==
  ASSUME RecordInv, GrantInv, NEW who \in SUBSET Investors, DeployVaults(who)
  PROVE  GrantInv'
<1>1. UNCHANGED <<now, srxAllocation>>
      /\ vault' = [u \in Wallets |-> IF u \in who THEN NewVault(srxAllocation[u], srxAllocation[u])
                                   ELSE vault[u]]
  BY DEF DeployVaults, records
<1>2. vault' = [u \in Wallets |-> vault'[u]]
  BY <1>1
<1>3. ASSUME NEW u \in Wallets
      PROVE  \/ vault'[u] = vault[u]
             \/ u \in Investors /\ Keeps(vault'[u], srxAllocation[u], now)
  <2>1. CASE u \in who
    <3> DEFINE n == srxAllocation[u]
    <3>1. n \in Nat /\ now \in Nat
      BY DEF RecordInv, GrantInv
    <3>2. vault'[u] = NewVault(n, n)
      BY <1>1, <2>1
    <3> HIDE DEF n
    <3>3. Keeps(vault'[u], n, now)
      BY <3>1, <3>2, NewKeeps
    <3> QED BY <2>1, <3>3 DEF n
  <2>2. CASE u \notin who
    BY <1>1, <2>2
  <2> QED BY <2>1, <2>2
<1> QED BY <1>1, <1>2, <1>3, GrantsChanged

\* A page triggers vaults that hold what was declared to them.
LEMMA PageKeeps ==
  ASSUME RecordInv, GrantInv, NEW start, NEW end, BatchTriggerTGE(start, end)
  PROVE  GrantInv'
<1> DEFINE who == {u \in Page(start, end) : HasVault(u) /\ ~vault[u].tgeTriggered}
<1>1. UNCHANGED <<now, srxAllocation>>
      /\ vault' = [u \in Wallets |-> IF u \in who THEN TriggeredTGE(vault[u], now) ELSE vault[u]]
  BY DEF BatchTriggerTGE, records
<1>2. vault' = [u \in Wallets |-> vault'[u]]
  BY <1>1
<1>3. ASSUME NEW u \in Wallets
      PROVE  \/ vault'[u] = vault[u]
             \/ u \in Investors /\ Keeps(vault'[u], srxAllocation[u], now)
  <2>1. CASE u \in who
    <3> DEFINE n == srxAllocation[u]
               v == vault[u]
    <3>1. HasVault(u) /\ ~v.tgeTriggered
      BY <2>1
    <3>2. n \in Nat \ {0} /\ now \in Nat /\ Keeps(v, n, now) /\ u \in Investors
      BY <3>1, VaultOwner DEF GrantInv
    <3>3. vault'[u] = TriggeredTGE(v, now)
      BY <1>1, <2>1
    <3> HIDE DEF n, v
    <3>4. Keeps(vault'[u], n, now)
      BY <3>1, <3>2, <3>3, TriggerKeeps
    <3> QED BY <3>2, <3>4 DEF n
  <2>2. CASE u \notin who
    BY <1>1, <2>2
  <2> QED BY <2>1, <2>2
<1> HIDE DEF who
<1> QED BY <1>1, <1>2, <1>3, GrantsChanged

\* A release, a revocation, a rescue or a donation keeps the grant.
LEMMA VaultCallKeeps ==
  ASSUME RecordInv, GrantInv, NEW u \in Wallets,
         \/ Release(u) \/ RevokeVault(u) \/ RescueVaultSurplus(u)
         \/ \E x \in Donations : Donate(u, x)
  PROVE  GrantInv'
<1> DEFINE n == srxAllocation[u]
           v == vault[u]
<1>1. HasVault(u)
  BY DEF Release, RevokeVault, RescueVaultSurplus, Donate
<1>2. n \in Nat \ {0} /\ now \in Nat /\ v \in Vaults /\ Keeps(v, n, now)
  BY <1>1, VaultOwner
<1>3. ASSUME NEW new, ChangeVault(u, new), Keeps(new, n, now) PROVE GrantInv'
  BY <1>1, <1>3, VaultChanged
<1>4. CASE Release(u)
  <2>1. CanRelease(v, now) /\ ChangeVault(u, Released(v, now))
    BY <1>4 DEF Release
  <2> HIDE DEF n, v
  <2>2. Keeps(Released(v, now), n, now)
    BY <1>2, <2>1, ReleaseKeeps
  <2> QED BY <1>3, <2>1, <2>2
<1>5. CASE RevokeVault(u)
  <2>1. CanRevoke(v, now) /\ ChangeVault(u, Revoked(v, now))
    BY <1>5 DEF RevokeVault
  <2> HIDE DEF n, v
  <2>2. Keeps(Revoked(v, now), n, now)
    BY <1>2, <2>1, RevokeKeeps
  <2> QED BY <1>3, <2>1, <2>2
<1>6. CASE RescueVaultSurplus(u)
  <2>1. ChangeVault(u, Rescued(v))
    BY <1>6 DEF RescueVaultSurplus
  <2> HIDE DEF n, v
  <2>2. Keeps(Rescued(v), n, now)
    BY <1>2, RescueKeeps
  <2> QED BY <1>3, <2>1, <2>2
<1>7. ASSUME NEW x \in Donations, Donate(u, x) PROVE GrantInv'
  <2> DEFINE h == v.held + x
  <2>1. ChangeVault(u, [v EXCEPT !.held = h])
    BY <1>7 DEF Donate
  <2>2. x \in Nat
    BY PreSaleAssumption
  <2>3. h \in Nat /\ (~v.revoked => h + v.released >= n)
    BY <1>2, <2>2 DEF Keeps, Vaults
  <2> HIDE DEF n, v, h
  <2>4. Keeps([v EXCEPT !.held = h], n, now)
    BY <1>2, <2>3, BalanceKeeps
  <2> QED BY <1>3, <2>1, <2>4
<1> QED BY <1>4, <1>5, <1>6, <1>7

\* Allocations change only for users without a vault.
LEMMA RecordsChangedKeep ==
  ASSUME RecordInv, GrantInv, NEW u \in Wallets,
         \/ \E a \in Assets, x \in Payments : \E price \in Prices[a] : Invest(u, a, x, price)
         \/ \E usd \in Payments : AddInvestor(u, usd)
         \/ \E srx \in Corrections : UpdateAllocation(u, srx)
         \/ RemoveInvestor(u) \/ RefundInvestor(u)
  PROVE  GrantInv'
<1>1. ~HasVault(u) /\ UNCHANGED <<now, vault>>
  BY DEF Invest, AddInvestor, UpdateAllocation, RemoveInvestor, RefundInvestor, RemoveRecords, grants
<1>2. \E n : srxAllocation' = [srxAllocation EXCEPT ![u] = n]
  BY DEF Invest, AddInvestor, UpdateAllocation, RemoveInvestor, RefundInvestor, RemoveRecords,
         ProcessInvestment
<1>3. \A w \in Wallets : HasVault(w) => srxAllocation'[w] = srxAllocation[w]
  BY <1>1, <1>2 DEF RecordInv
<1> QED BY <1>1, <1>3, GrantsUntouched

\* Every step keeps the grants.
LEMMA GrantStep ==
  ASSUME PreSaleInv, GrantInv, [Next]_preSaleVars
  PROVE  GrantInv'
<1>0. RecordInv
  BY DEF PreSaleInv
<1>1. ASSUME UNCHANGED <<now, vault, srxAllocation>> PROVE GrantInv'
  BY <1>1, GrantsUntouched
<1>2. ASSUME NEW u \in Wallets, BuyerStep(u) PROVE GrantInv'
  <2>1. ASSUME NEW a \in Assets, ClaimRefund(u, a) PROVE UNCHANGED <<now, vault, srxAllocation>>
    BY <2>1 DEF ClaimRefund, records, grants
  <2> QED BY <1>0, <1>1, <1>2, <2>1, RecordsChangedKeep, VaultCallKeeps DEF BuyerStep
<1>3. ASSUME NEW u \in Wallets, AdminStep(u) PROVE GrantInv'
  <2>1. ASSUME NEW cap \in Caps, SetBuyerApproval(u, cap)
        PROVE  UNCHANGED <<now, vault, srxAllocation>>
    BY <2>1 DEF SetBuyerApproval, records, grants
  <2>2. ASSUME DeployVault(u) PROVE GrantInv'
    <3>1. {u} \in SUBSET Investors /\ DeployVaults({u})
      BY <2>2 DEF DeployVault
    <3> QED BY <1>0, <3>1, DeployKeeps
  <2> QED BY <1>0, <1>1, <1>3, <2>1, <2>2, RecordsChangedKeep, VaultCallKeeps DEF AdminStep
<1>4. ASSUME RoundStep PROVE GrantInv'
  <2>1. ASSUME \/ \E a \in Assets, n \in 1..MaxPaid : Withdraw(a, n) \/ ReturnFunds(a, n)
               \/ FundSRX \/ RecoverSRX \/ Finalize
               \/ \E p \in BOOLEAN : SetPaused(p)
               \/ \E p \in SRXPrices : SetSRXPrice(p)
               \/ \E cap \in HardCaps : SetHardCap(cap)
               \/ \E m \in MinContributions : SetMinContribution(m)
        PROVE  UNCHANGED <<now, vault, srxAllocation>>
    BY <2>1 DEF Withdraw, ReturnFunds, FundSRX, RecoverSRX, Finalize, SetPaused, SetSRXPrice,
                SetHardCap, SetMinContribution, records, grants
  <2>2. ASSUME NEW start, NEW end, BatchDeployVaults(start, end) PROVE GrantInv'
    <3> DEFINE who == {u \in Page(start, end) : ~HasVault(u)}
    <3>1. Page(start, end) \subseteq Investors
      BY <1>0 DEF Page, RecordInv, Listing
    <3>2. who \in SUBSET Investors /\ DeployVaults(who)
      BY <2>2, <3>1 DEF BatchDeployVaults
    <3> HIDE DEF who
    <3> QED BY <1>0, <3>2, DeployKeeps
  <2>3. ASSUME NEW start, NEW end, BatchTriggerTGE(start, end) PROVE GrantInv'
    BY <1>0, <2>3, PageKeeps
  <2> QED BY <1>1, <1>4, <2>1, <2>2, <2>3 DEF RoundStep
<1>5. ASSUME Tick PROVE GrantInv'
  <2>1. now' = now + 1 /\ UNCHANGED <<vault, srxAllocation>> /\ now \in Nat
    BY <1>5 DEF Tick, records, grants, GrantInv
  <2>2. ASSUME NEW u \in Wallets, HasVault(u)'
        PROVE  (u \in Investors)' /\ Keeps(vault[u], srxAllocation[u], now)'
    <3> DEFINE n == srxAllocation[u]
               v == vault[u]
    <3>1. HasVault(u) /\ u \in Investors
      BY <2>1, <2>2 DEF HasVault, GrantInv
    <3>2. n \in Nat /\ Keeps(v, n, now)
      BY <1>0, <3>1, VaultOwner
    <3> HIDE DEF n, v
    <3>3. Keeps(v, n, now + 1)
      BY <2>1, <3>2, KeepsLater
    <3>4. Keeps(v, n, now')
      BY <2>1, <3>3
    <3> QED BY <2>1, <3>1, <3>4 DEF Keeps, Due, Investors, n, v
  <2> QED BY <2>1, <2>2 DEF GrantInv
<1>6. ASSUME UNCHANGED preSaleVars PROVE UNCHANGED <<now, vault, srxAllocation>>
  BY <1>6 DEF preSaleVars, records, grants
<1> QED BY <1>1, <1>2, <1>3, <1>4, <1>5, <1>6 DEF Next

\* A vault holds the rest of the grant until it is revoked, and pays out no
\* sooner than the schedule.
THEOREM GrantsKept == Spec => []GrantKept
<1> DEFINE Inv == PreSaleInv /\ GrantInv
<1>1. Init => Inv
  <2> SUFFICES ASSUME Init PROVE GrantInv
    BY PreSaleInit
  <2>1. now = 0 /\ vault = [u \in Wallets |-> NoVault]
    BY DEF Init
  <2> QED BY <2>1 DEF GrantInv, HasVault
<1>2. Inv /\ [Next]_preSaleVars => Inv'
  BY PreSaleStep, GrantStep
<1>3. Inv => GrantKept
  BY DEF GrantInv, GrantKept, Keeps, Due
<1> HIDE DEF Inv
<1> QED BY <1>1, <1>2, <1>3, PTL DEF Spec
=============================================================================

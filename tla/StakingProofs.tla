---------------------------- MODULE StakingProofs ----------------------------
(***************************************************************************)
(* Proofs about SRXStaking, for every finite set of users, every table of   *)
(* multipliers and every choice of amounts: the totals are the sums of the  *)
(* positions, principal and registered rewards are held, no weight above    *)
(* its principal appears without a running lock, nobody loses what the      *)
(* streams have earned them, claimBonusRewards excepted for SRX, what is    *)
(* earned is funded but for the dust of rounding, and every staker can      *)
(* leave.                                                                   *)
(***************************************************************************)
EXTENDS Staking, CommonProofs

USE StakingAssumption

\* A position with principal has a lock of one of the durations, one without
\* has no weight.
PositionsWhole ==
    \A u \in Users : /\ amount[u] > 0 => lockDuration[u] \in Durations
                     /\ amount[u] = 0 => weighted[u] = 0

\* The positions and their totals.
PositionInv ==
    /\ amount \in [Users -> Nat] /\ weighted \in [Users -> Nat]
    /\ lockEnd \in [Users -> Nat] /\ lockDuration \in [Users -> Nat]
    /\ PositionsWhole
    /\ totalLocked \in Int /\ totalWeightedStake \in Int
    /\ totalLocked = Total(amount)
    /\ totalWeightedStake = Total(weighted)

\* The streams and what backs them, given what is locked.
MoneyInv ==
    /\ reward \in Streams /\ bonus \in Streams
    /\ srxBalance \in Int /\ bonusBalance \in Int
    /\ totalLocked + reward.pool <= srxBalance
    /\ bonus.pool <= bonusBalance

StakingInv ==
    /\ now \in Nat /\ minTotalStakeForEmission \in Nat
    /\ PositionInv
    /\ MoneyInv

\* Scaling by the base and back returns the principal.
LEMMA BaseCancels ==
  ASSUME NEW x \in Nat, NEW b \in Nat \ {0}
  PROVE  (x * b) \div b = x
OBVIOUS

\* A multiplied weight is a natural number.
LEMMA WeightType ==
  ASSUME NEW x \in Nat, NEW m \in Nat, NEW b \in Nat \ {0}
  PROVE  (x * m) \div b \in Nat
OBVIOUS

(***************************************************************************)
(* Streams brought up to date.                                             *)
(***************************************************************************)
LEMMA StreamUpdated ==
  ASSUME StakingInv, NEW s \in Streams
  PROVE  /\ Updated(s) \in Streams /\ Updated(s).pool = s.pool
         /\ \A u \in Users : UpdatedFor(s, u) \in Streams /\ UpdatedFor(s, u).pool = s.pool
<1>1. /\ weighted \in [Users -> Nat] /\ totalWeightedStake \in Int
      /\ minTotalStakeForEmission \in Nat /\ now \in Int
  BY DEF StakingInv, PositionInv
<1>2. Updated(s) \in Streams /\ Updated(s).pool = s.pool
  BY <1>1, UpdateAllKeepsPool DEF Updated
<1>3. ASSUME NEW u \in Users PROVE UpdatedFor(s, u) \in Streams /\ UpdatedFor(s, u).pool = s.pool
  <2> DEFINE part == weighted[u]
             weight == totalWeightedStake
             minimum == minTotalStakeForEmission
             t == UpdateReward(s, u, part, weight, minimum, now)
  <2>1. part \in Int /\ weight \in Int /\ minimum \in Nat /\ now \in Int
    BY <1>1
  <2> HIDE DEF part, weight, minimum
  <2>2. t \in Streams /\ t.pool = s.pool
    BY <2>1, UpdateRewardKeepsPool
  <2> QED BY <2>2 DEF UpdatedFor, part, weight, minimum
<1> QED BY <1>2, <1>3

\* A new schedule over a stream with another pool or rate.
LEMMA Rescheduled ==
  ASSUME StakingInv, NEW s0 \in Streams, NEW p \in Int, NEW r \in Nat
  PROVE  /\ RecomputePeriodFinish([Updated(s0) EXCEPT !.pool = p], now) \in Streams
         /\ RecomputePeriodFinish([Updated(s0) EXCEPT !.pool = p], now).pool = p
         /\ RecomputePeriodFinish([Updated(s0) EXCEPT !.rate = r], now) \in Streams
         /\ RecomputePeriodFinish([Updated(s0) EXCEPT !.rate = r], now).pool = s0.pool
<1> DEFINE s == Updated(s0)
<1>1. s \in Streams /\ s.pool = s0.pool /\ now \in Int
  BY StreamUpdated DEF StakingInv
<1> HIDE DEF s
<1> DEFINE a == [s EXCEPT !.pool = p]
           b == [s EXCEPT !.rate = r]
<1>2. a \in Streams /\ a.pool = p /\ b \in Streams /\ b.pool = s0.pool
  BY <1>1 DEF Streams
<1> HIDE DEF a, b
<1>3. /\ RecomputePeriodFinish(a, now) \in Streams /\ RecomputePeriodFinish(a, now).pool = p
      /\ RecomputePeriodFinish(b, now) \in Streams /\ RecomputePeriodFinish(b, now).pool = s0.pool
  BY <1>1, <1>2, RecomputeKeepsPool
<1> QED BY <1>3 DEF a, b, s

(***************************************************************************)
(* Positions.                                                              *)
(***************************************************************************)
\* One position changes, and the totals by the same amounts.
LEMMA PositionChange ==
  ASSUME PositionInv, NEW u \in Users, NEW a \in Nat, NEW w \in Nat, NEW e \in Nat, NEW d \in Nat,
         a > 0 => d \in Durations, a = 0 => w = 0,
         amount' = [amount EXCEPT ![u] = a], weighted' = [weighted EXCEPT ![u] = w],
         lockEnd' = [lockEnd EXCEPT ![u] = e], lockDuration' = [lockDuration EXCEPT ![u] = d],
         totalLocked' = totalLocked - amount[u] + a,
         totalWeightedStake' = totalWeightedStake - weighted[u] + w
  PROVE  PositionInv'
<1>1. /\ amount \in [Users -> Nat] /\ weighted \in [Users -> Nat] /\ IsFiniteSet(Users)
      /\ totalLocked = Total(amount) /\ totalWeightedStake = Total(weighted)
      /\ totalLocked \in Int /\ totalWeightedStake \in Int
      /\ amount[u] \in Nat /\ weighted[u] \in Nat
  BY DEF PositionInv
<1>2. /\ amount' \in [Users -> Nat] /\ weighted' \in [Users -> Nat]
      /\ lockEnd' \in [Users -> Nat] /\ lockDuration' \in [Users -> Nat]
  BY DEF PositionInv
<1>3. Total(amount') = Total(amount) - amount[u] + a
  <2> DEFINE f == amount
             g == amount'
  <2>1. /\ f \in [Users -> Nat] /\ g \in [Users -> Nat] /\ g[u] = a
        /\ \A v \in Users \ {u} : g[v] = f[v]
    BY <1>1, <1>2
  <2> HIDE DEF f, g
  <2>2. Total(g) = Total(f) - f[u] + g[u]
    BY <1>1, <2>1, TotalChange
  <2> QED BY <2>1, <2>2 DEF f, g
<1>4. Total(weighted') = Total(weighted) - weighted[u] + w
  <2> DEFINE f == weighted
             g == weighted'
  <2>1. /\ f \in [Users -> Nat] /\ g \in [Users -> Nat] /\ g[u] = w
        /\ \A v \in Users \ {u} : g[v] = f[v]
    BY <1>1, <1>2
  <2> HIDE DEF f, g
  <2>2. Total(g) = Total(f) - f[u] + g[u]
    BY <1>1, <2>1, TotalChange
  <2> QED BY <2>1, <2>2 DEF f, g
<1>5. PositionsWhole'
  BY DEF PositionInv, PositionsWhole
<1>6. totalLocked' = Total(amount') /\ totalWeightedStake' = Total(weighted')
      /\ totalLocked' \in Int /\ totalWeightedStake' \in Int
  BY <1>1, <1>3, <1>4
<1> QED BY <1>2, <1>5, <1>6 DEF PositionInv

\* The weight taken from an expired position is part of it.
LEMMA ExcessType ==
  ASSUME PositionInv, NEW u \in Users
  PROVE  Excess(u) \in Nat /\ Excess(u) <= weighted[u]
<1>1. amount[u] \in Nat /\ weighted[u] \in Nat
  BY DEF PositionInv
<1> QED BY <1>1 DEF Excess

\* Decaying a position takes the same weight from it and from the total.
LEMMA DecayKeepsPositions ==
  ASSUME PositionInv, NEW u \in Users, DecayExpiredWeight(u)
  PROVE  PositionInv' /\ totalLocked' = totalLocked
<1> DEFINE x == Excess(u)
           w == weighted[u] - x
<1>1. /\ amount \in [Users -> Nat] /\ weighted \in [Users -> Nat]
      /\ lockEnd \in [Users -> Nat] /\ lockDuration \in [Users -> Nat]
      /\ totalLocked \in Int /\ totalWeightedStake \in Int
      /\ (amount[u] > 0 => lockDuration[u] \in Durations)
      /\ (amount[u] = 0 => weighted[u] = 0)
  BY DEF PositionInv, PositionsWhole
<1>2. x \in Nat /\ w \in Nat /\ (amount[u] = 0 => w = 0)
  BY <1>1, ExcessType
<1>3. /\ weighted' = [weighted EXCEPT ![u] = w]
      /\ totalWeightedStake' = totalWeightedStake - x
      /\ UNCHANGED <<amount, lockEnd, lockDuration, totalLocked>>
  BY DEF DecayExpiredWeight, Minus
<1>4. totalWeightedStake' = totalWeightedStake - weighted[u] + w
  <2> HIDE DEF x
  <2> QED BY <1>1, <1>2, <1>3
<1> DEFINE a == amount[u]
           e == lockEnd[u]
           d == lockDuration[u]
<1>5. /\ amount' = [amount EXCEPT ![u] = a]
      /\ lockEnd' = [lockEnd EXCEPT ![u] = e] /\ lockDuration' = [lockDuration EXCEPT ![u] = d]
      /\ totalLocked' = totalLocked - amount[u] + a
  BY <1>1, <1>3
<1>6. a \in Nat /\ e \in Nat /\ d \in Nat /\ (a > 0 => d \in Durations) /\ (a = 0 => w = 0)
  BY <1>1, <1>2
<1> HIDE DEF x, w, a, e, d
<1> QED BY <1>2, <1>3, <1>4, <1>5, <1>6, PositionChange

\* Removing a position takes its principal and weight out of the totals.
LEMMA RemovalKeepsPositions ==
  ASSUME PositionInv, NEW u \in Users, RemovePosition(u)
  PROVE  PositionInv' /\ totalLocked' = totalLocked - amount[u]
<1> DEFINE zero == 0
<1>1. /\ amount' = [amount EXCEPT ![u] = zero] /\ weighted' = [weighted EXCEPT ![u] = zero]
      /\ lockEnd' = [lockEnd EXCEPT ![u] = zero] /\ lockDuration' = [lockDuration EXCEPT ![u] = zero]
      /\ totalLocked' = totalLocked - amount[u]
      /\ totalWeightedStake' = totalWeightedStake - weighted[u]
  BY DEF RemovePosition
<1>2. /\ totalLocked \in Int /\ totalWeightedStake \in Int /\ amount[u] \in Nat /\ weighted[u] \in Nat
  BY DEF PositionInv
<1>3. /\ totalLocked' = totalLocked - amount[u] + zero
      /\ totalWeightedStake' = totalWeightedStake - weighted[u] + zero
      /\ zero \in Nat /\ (zero > 0 => zero \in Durations) /\ (zero = 0 => zero = 0)
  BY <1>1, <1>2
<1> HIDE DEF zero
<1> QED BY <1>1, <1>3, PositionChange

\* Adding to a position, or opening one, with the weight of its lock.
LEMMA LockKeepsPositions ==
  ASSUME StakingInv, NEW u \in Users, NEW n \in Nat, NEW d \in Durations, Lock(u, n, d)
  PROVE  /\ PositionInv' /\ totalLocked' = totalLocked + n
         /\ lockEnd'[u] > now
         /\ \A v \in Users \ {u} : weighted'[v] = weighted[v]
<1>1. PositionInv /\ now \in Nat
  BY DEF StakingInv
<1>2. /\ amount \in [Users -> Nat] /\ weighted \in [Users -> Nat]
      /\ lockEnd \in [Users -> Nat] /\ lockDuration \in [Users -> Nat]
      /\ totalLocked \in Int /\ totalWeightedStake \in Int
      /\ totalWeightedStake = Total(weighted)
  BY <1>1 DEF PositionInv
<1>3. amount[u] = 0 /\ weighted[u] = 0 /\ n > 0
  BY <1>1, <1>2 DEF Lock, Stakers, PositionInv, PositionsWhole
<1> DEFINE a == amount[u] + n
           m == Multiplier[d]
           w == (n * m) \div MULTIPLIER_BASE
           e == now + d
<1>4. d \in Nat /\ d > 0 /\ e \in Nat /\ e > now /\ a \in Nat /\ a > 0 /\ m \in Nat
  BY <1>1, <1>2, <1>3
<1>5. w \in Nat
  <2> HIDE DEF m
  <2> QED BY <1>4, WeightType
<1>6. /\ amount' = [amount EXCEPT ![u] = a] /\ weighted' = [weighted EXCEPT ![u] = w]
      /\ lockEnd' = [lockEnd EXCEPT ![u] = e] /\ lockDuration' = [lockDuration EXCEPT ![u] = d]
      /\ totalLocked' = totalLocked + n
      /\ totalWeightedStake' = totalWeightedStake + w
  BY DEF Lock, Weight, Plus
<1>7. /\ totalLocked' = totalLocked - amount[u] + a
      /\ totalWeightedStake' = totalWeightedStake - weighted[u] + w
  <2> HIDE DEF w
  <2> QED BY <1>2, <1>3, <1>5, <1>6
<1>8. lockEnd'[u] = e /\ \A v \in Users \ {u} : weighted'[v] = weighted[v]
  BY <1>2, <1>6
<1> HIDE DEF a, w, e
<1>9. PositionInv'
  <2>1. (a > 0 => d \in Durations) /\ (a = 0 => w = 0)
    BY <1>4
  <2>2. /\ amount' = [amount EXCEPT ![u] = a] /\ weighted' = [weighted EXCEPT ![u] = w]
        /\ lockEnd' = [lockEnd EXCEPT ![u] = e] /\ lockDuration' = [lockDuration EXCEPT ![u] = d]
    BY <1>6
  <2> QED BY <1>1, <1>4, <1>5, <1>7, <2>1, <2>2, PositionChange
<1> QED BY <1>4, <1>6, <1>8, <1>9

\* A position that grows has the weight of its lock, which is its principal
\* once the lock is over.
LEMMA AddKeepsPositions ==
  ASSUME StakingInv, NEW u \in Users, NEW n \in Nat, NEW d \in Durations \cup {0}, AddToPosition(u, n, d)
  PROVE  /\ PositionInv' /\ totalLocked' = totalLocked + n
         /\ now >= lockEnd'[u] => weighted'[u] = amount'[u]
         /\ \A v \in Users \ {u} : weighted'[v] = weighted[v]
<1>1. PositionInv /\ now \in Nat
  BY DEF StakingInv
<1>2. /\ amount \in [Users -> Nat] /\ weighted \in [Users -> Nat]
      /\ lockEnd \in [Users -> Nat] /\ lockDuration \in [Users -> Nat]
      /\ totalLocked \in Int /\ totalWeightedStake \in Int
      /\ amount[u] \in Nat /\ weighted[u] \in Nat /\ lockEnd[u] \in Nat
  BY <1>1 DEF PositionInv
<1>3. amount[u] > 0 /\ n > 0 /\ lockDuration[u] \in Durations /\ d \in Nat
  BY <1>1, <1>2 DEF AddToPosition, Stakers, PositionInv, PositionsWhole
<1> DEFINE extended == d # 0 /\ now + d > lockEnd[u]
           e == IF extended THEN now + d ELSE lockEnd[u]
           ld == IF extended THEN d ELSE lockDuration[u]
           m == IF now >= e THEN MULTIPLIER_BASE ELSE Multiplier[ld]
           a == amount[u] + n
           w == (a * m) \div MULTIPLIER_BASE
<1>4. e \in Nat /\ ld \in Durations /\ ld \in Nat /\ a \in Nat /\ a > 0
  BY <1>1, <1>2, <1>3
<1>5. m \in Nat /\ (now >= e => m = MULTIPLIER_BASE)
  <2> HIDE DEF e, ld
  <2> QED BY <1>4
<1>6. w \in Nat /\ (now >= e => w = a)
  <2> HIDE DEF a, m, e
  <2> QED BY <1>4, <1>5, WeightType, BaseCancels
<1>7. /\ amount' = [amount EXCEPT ![u] = a] /\ weighted' = [weighted EXCEPT ![u] = w]
      /\ lockEnd' = [lockEnd EXCEPT ![u] = e] /\ lockDuration' = [lockDuration EXCEPT ![u] = ld]
      /\ totalLocked' = totalLocked + n
      /\ totalWeightedStake' = totalWeightedStake - weighted[u] + w
  BY DEF AddToPosition, Relocked, Plus
<1>8. totalLocked' = totalLocked - amount[u] + a
  BY <1>2, <1>7
<1>9. /\ lockEnd'[u] = e /\ weighted'[u] = w /\ amount'[u] = a
      /\ \A v \in Users \ {u} : weighted'[v] = weighted[v]
  BY <1>2, <1>7
<1> HIDE DEF a, w, e, ld, m
<1>10. PositionInv'
  <2>1. (a > 0 => ld \in Durations) /\ (a = 0 => w = 0)
    BY <1>4
  <2> QED BY <1>1, <1>4, <1>6, <1>7, <1>8, <2>1, PositionChange
<1> QED BY <1>6, <1>7, <1>9, <1>10

(***************************************************************************)
(* Payments.                                                               *)
(***************************************************************************)
LEMMA SettlementBacked ==
  ASSUME StakingInv, NEW u \in Users, NEW principal \in Nat, SettleBoth(u, principal),
         totalLocked' = totalLocked - principal
  PROVE  MoneyInv'
<1> DEFINE r == UpdatedFor(reward, u)
           b == UpdatedFor(bonus, u)
<1>1. /\ reward \in Streams /\ bonus \in Streams /\ srxBalance \in Int /\ bonusBalance \in Int
      /\ totalLocked + reward.pool <= srxBalance /\ bonus.pool <= bonusBalance /\ totalLocked \in Int
  BY DEF StakingInv, MoneyInv, PositionInv
<1>2. r \in Streams /\ r.pool = reward.pool /\ b \in Streams /\ b.pool = bonus.pool
  BY <1>1, StreamUpdated
<1>3. /\ reward' = SettleRewards(r, u) /\ bonus' = SettleRewards(b, u)
      /\ srxBalance' = srxBalance - principal - Settlement(r, u)
      /\ bonusBalance' = bonusBalance - Settlement(b, u)
  BY DEF SettleBoth
<1> HIDE DEF r, b
<1>4. /\ SettleRewards(r, u) \in Streams /\ Settlement(r, u) \in Int
      /\ SettleRewards(r, u).pool = r.pool - Settlement(r, u)
  BY <1>2, SettleTakesSettlement
<1>5. /\ SettleRewards(b, u) \in Streams /\ Settlement(b, u) \in Int
      /\ SettleRewards(b, u).pool = b.pool - Settlement(b, u)
  BY <1>2, SettleTakesSettlement
<1>6. reward.pool \in Int /\ bonus.pool \in Int
  BY <1>1, StreamFields
<1>7. reward'.pool = reward.pool - Settlement(r, u) /\ bonus'.pool = bonus.pool - Settlement(b, u)
  BY <1>2, <1>3, <1>4, <1>5
<1>8. reward' \in Streams /\ bonus' \in Streams /\ srxBalance' \in Int /\ bonusBalance' \in Int
  BY <1>1, <1>3, <1>4, <1>5
<1>9. totalLocked' + reward'.pool <= srxBalance' /\ bonus'.pool <= bonusBalance'
  BY <1>1, <1>3, <1>4, <1>5, <1>6, <1>7
<1> QED BY <1>8, <1>9 DEF MoneyInv

\* No weight above its principal appears without a running lock.
WeightEarned == \A u \in Users : weighted'[u] > weighted[u] /\ weighted'[u] > amount'[u] => now < lockEnd'[u]

\* What every step has to leave.
StepKeeps == now' \in Nat /\ minTotalStakeForEmission' \in Nat /\ PositionInv' /\ MoneyInv' /\ WeightEarned

\* A step that lowers weights, or leaves them, creates none.
LEMMA LowerWeights ==
  ASSUME PositionInv, PositionInv', \A u \in Users : weighted'[u] <= weighted[u]
  PROVE  WeightEarned
<1> SUFFICES ASSUME NEW u \in Users PROVE ~(weighted'[u] > weighted[u])
  BY DEF WeightEarned
<1>1. weighted[u] \in Nat /\ weighted'[u] \in Nat
  BY DEF PositionInv
<1> QED BY <1>1

\* A step that leaves positions alone keeps what they promise.
LEMMA PositionUnchanged ==
  ASSUME PositionInv, UNCHANGED position
  PROVE  PositionInv' /\ WeightEarned /\ totalLocked' = totalLocked
<1>1. UNCHANGED <<amount, weighted, lockEnd, lockDuration, totalLocked, totalWeightedStake>>
  BY DEF position
<1>2. PositionInv'
  BY <1>1 DEF PositionInv, PositionsWhole
<1>3. \A u \in Users : weighted[u] \in Nat
  BY DEF PositionInv
<1> QED BY <1>1, <1>2, <1>3, LowerWeights

\* Tokens that only arrive, and streams whose pools stay.
LEMMA PoolsUnchanged ==
  ASSUME StakingInv, NEW n \in Nat, NEW k \in Nat,
         totalLocked' = totalLocked + n, srxBalance' = srxBalance + n + k, bonusBalance' = bonusBalance,
         reward' \in Streams, reward'.pool = reward.pool, bonus' \in Streams, bonus'.pool = bonus.pool
  PROVE  MoneyInv'
<1>1. /\ totalLocked \in Int /\ srxBalance \in Int /\ bonusBalance \in Int
      /\ reward \in Streams /\ bonus \in Streams
      /\ totalLocked + reward.pool <= srxBalance /\ bonus.pool <= bonusBalance
  BY DEF StakingInv, MoneyInv, PositionInv
<1>2. reward.pool \in Int
  BY <1>1, StreamFields
<1>3. srxBalance' \in Int /\ bonusBalance' \in Int
  BY <1>1
<1>4. totalLocked' + reward'.pool <= srxBalance'
  BY <1>1, <1>2
<1> QED BY <1>1, <1>3, <1>4 DEF MoneyInv

(***************************************************************************)
(* The steps of stakers.                                                   *)
(***************************************************************************)
LEMMA StakerStepKeeps ==
  ASSUME StakingInv, NEW u \in Users, StakerStep(u) \/ ClaimBonusRewards(u)
  PROVE  StepKeeps
<1> DEFINE zero == 0
<1>0. /\ PositionInv /\ MoneyInv /\ now \in Nat /\ minTotalStakeForEmission \in Nat
      /\ amount \in [Users -> Nat] /\ weighted \in [Users -> Nat]
      /\ amount[u] \in Nat /\ totalLocked \in Int /\ zero \in Nat
      /\ reward \in Streams /\ bonus \in Streams /\ srxBalance \in Int /\ bonusBalance \in Int
      /\ totalLocked + reward.pool <= srxBalance /\ bonus.pool <= bonusBalance
  BY DEF StakingInv, MoneyInv, PositionInv
<1>1. /\ UpdatedFor(reward, u) \in Streams /\ UpdatedFor(reward, u).pool = reward.pool
      /\ UpdatedFor(bonus, u) \in Streams /\ UpdatedFor(bonus, u).pool = bonus.pool
  BY <1>0, StreamUpdated
<1>2. ASSUME NEW n \in Amounts, NEW d \in Durations, Lock(u, n, d)
      PROVE  StepKeeps
  <2>1. n \in Nat
    OBVIOUS
  <2>2. /\ reward' = UpdatedFor(reward, u) /\ bonus' = UpdatedFor(bonus, u)
        /\ srxBalance' = srxBalance + n
        /\ UNCHANGED <<now, minTotalStakeForEmission, bonusBalance>>
    BY <1>2 DEF Lock, settings
  <2>3. /\ PositionInv' /\ totalLocked' = totalLocked + n /\ lockEnd'[u] > now
        /\ \A v \in Users \ {u} : weighted'[v] = weighted[v]
    BY <1>2, <2>1, LockKeepsPositions
  <2>4. srxBalance' = srxBalance + n + zero
    BY <1>0, <2>1, <2>2
  <2>5. MoneyInv'
    <3> HIDE DEF zero
    <3> QED BY <1>0, <1>1, <2>1, <2>2, <2>3, <2>4, PoolsUnchanged
  <2>6. WeightEarned
    <3> SUFFICES ASSUME NEW v \in Users, weighted'[v] > weighted[v] PROVE now < lockEnd'[v]
      BY DEF WeightEarned
    <3>1. v = u
      BY <1>0, <2>3
    <3> QED BY <2>3, <3>1
  <2> QED BY <1>0, <2>2, <2>3, <2>5, <2>6 DEF StepKeeps
<1>3. ASSUME NEW n \in Amounts, NEW d \in Durations \cup {0}, AddToPosition(u, n, d)
      PROVE  StepKeeps
  <2>1. n \in Nat
    OBVIOUS
  <2>2. /\ reward' = UpdatedFor(reward, u) /\ bonus' = UpdatedFor(bonus, u)
        /\ srxBalance' = srxBalance + n
        /\ UNCHANGED <<now, minTotalStakeForEmission, bonusBalance>>
    BY <1>3 DEF AddToPosition, settings
  <2>3. /\ PositionInv' /\ totalLocked' = totalLocked + n
        /\ (now >= lockEnd'[u] => weighted'[u] = amount'[u])
        /\ \A v \in Users \ {u} : weighted'[v] = weighted[v]
    BY <1>3, <2>1, AddKeepsPositions
  <2>4. srxBalance' = srxBalance + n + zero
    BY <1>0, <2>1, <2>2
  <2>5. MoneyInv'
    <3> HIDE DEF zero
    <3> QED BY <1>0, <1>1, <2>1, <2>2, <2>3, <2>4, PoolsUnchanged
  <2>6. WeightEarned
    <3> SUFFICES ASSUME NEW v \in Users, weighted'[v] > weighted[v], weighted'[v] > amount'[v]
                 PROVE  now < lockEnd'[v]
      BY DEF WeightEarned
    <3>1. v = u
      BY <1>0, <2>3
    <3>2. amount'[u] \in Nat /\ weighted'[u] \in Nat /\ lockEnd'[u] \in Nat
      BY <2>3 DEF PositionInv
    <3> QED BY <1>0, <2>3, <3>1, <3>2
  <2> QED BY <1>0, <2>2, <2>3, <2>5, <2>6 DEF StepKeeps
<1>4. ASSUME Unlock(u) \/ EarlyWithdraw(u)
      PROVE  StepKeeps
  <2>1. SettleBoth(u, amount[u]) /\ RemovePosition(u) /\ UNCHANGED <<now, minTotalStakeForEmission>>
    BY <1>4 DEF Unlock, EarlyWithdraw, settings
  <2>2. PositionInv' /\ totalLocked' = totalLocked - amount[u]
    BY <1>0, <2>1, RemovalKeepsPositions
  <2>3. MoneyInv'
    <3> DEFINE principal == amount[u]
    <3>1. principal \in Nat /\ SettleBoth(u, principal) /\ totalLocked' = totalLocked - principal
      BY <1>0, <2>1, <2>2
    <3> HIDE DEF principal
    <3> QED BY <3>1, SettlementBacked
  <2>4. WeightEarned
    <3>1. weighted' = [weighted EXCEPT ![u] = 0]
      BY <2>1 DEF RemovePosition
    <3>2. \A v \in Users : weighted'[v] <= weighted[v]
      BY <1>0, <3>1
    <3> QED BY <1>0, <2>2, <3>2, LowerWeights
  <2> QED BY <1>0, <2>1, <2>2, <2>3, <2>4 DEF StepKeeps
<1>5. ASSUME ClaimRewards(u)
      PROVE  StepKeeps
  <2> DEFINE r == UpdatedFor(reward, u)
  <2>1. /\ reward' = SettleRewards(r, u) /\ srxBalance' = srxBalance - Settlement(r, u)
        /\ UNCHANGED <<now, minTotalStakeForEmission, bonus, bonusBalance, position>>
    BY <1>5 DEF ClaimRewards, settings, bonusSide
  <2>2. PositionInv' /\ WeightEarned /\ totalLocked' = totalLocked
    BY <1>0, <2>1, PositionUnchanged
  <2>3. r \in Streams /\ r.pool = reward.pool
    BY <1>1
  <2> HIDE DEF r
  <2>4. /\ SettleRewards(r, u) \in Streams /\ Settlement(r, u) \in Int
        /\ SettleRewards(r, u).pool = r.pool - Settlement(r, u)
    BY <2>3, SettleTakesSettlement
  <2>5. reward.pool \in Int /\ reward'.pool = reward.pool - Settlement(r, u)
    BY <1>0, <2>1, <2>3, <2>4, StreamFields
  <2>6. srxBalance' \in Int /\ totalLocked' + reward'.pool <= srxBalance'
    BY <1>0, <2>1, <2>2, <2>4, <2>5
  <2>7. MoneyInv'
    BY <1>0, <2>1, <2>4, <2>6 DEF MoneyInv
  <2> QED BY <1>0, <2>1, <2>2, <2>7 DEF StepKeeps
<1>6. ASSUME DecayExpiredWeight(u) PROVE PositionInv' /\ WeightEarned /\ totalLocked' = totalLocked
  <2>1. PositionInv' /\ totalLocked' = totalLocked
    BY <1>0, <1>6, DecayKeepsPositions
  <2>2. Excess(u) \in Nat
    BY <1>0, ExcessType
  <2>3. weighted' = [weighted EXCEPT ![u] = weighted[u] - Excess(u)]
    BY <1>6 DEF DecayExpiredWeight, Minus
  <2>4. \A v \in Users : weighted'[v] <= weighted[v]
    BY <1>0, <2>2, <2>3
  <2> QED BY <1>0, <2>1, <2>4, LowerWeights
<1>7. ASSUME ClaimBonusRewards(u)
      PROVE  StepKeeps
  <2> DEFINE b == UpdatedFor(bonus, u)
  <2>1. /\ bonus' = SettleRewards(b, u) /\ bonusBalance' = bonusBalance - Settlement(b, u)
        /\ UNCHANGED <<now, minTotalStakeForEmission, reward, srxBalance>> /\ DecayExpiredWeight(u)
    BY <1>7 DEF ClaimBonusRewards, settings, srxSide
  <2>2. PositionInv' /\ WeightEarned /\ totalLocked' = totalLocked
    BY <1>6, <2>1
  <2>3. b \in Streams /\ b.pool = bonus.pool
    BY <1>1
  <2> HIDE DEF b
  <2>4. /\ SettleRewards(b, u) \in Streams /\ Settlement(b, u) \in Int
        /\ SettleRewards(b, u).pool = b.pool - Settlement(b, u)
    BY <2>3, SettleTakesSettlement
  <2>5. bonus.pool \in Int /\ bonus'.pool = bonus.pool - Settlement(b, u)
    BY <1>0, <2>1, <2>3, <2>4, StreamFields
  <2>6. bonusBalance' \in Int /\ bonus'.pool <= bonusBalance'
    BY <1>0, <2>1, <2>4, <2>5
  <2>7. MoneyInv'
    BY <1>0, <2>1, <2>2, <2>4, <2>6 DEF MoneyInv
  <2> QED BY <1>0, <2>1, <2>2, <2>7 DEF StepKeeps
<1>8. ASSUME PokeExpiredPosition(u)
      PROVE  StepKeeps
  <2>1. /\ reward' = UpdatedFor(reward, u) /\ bonus' = UpdatedFor(bonus, u) /\ DecayExpiredWeight(u)
        /\ UNCHANGED <<now, minTotalStakeForEmission, srxBalance, bonusBalance>>
    BY <1>8 DEF PokeExpiredPosition, settings
  <2>2. PositionInv' /\ WeightEarned /\ totalLocked' = totalLocked
    BY <1>6, <2>1
  <2>3. totalLocked' = totalLocked + zero /\ srxBalance' = srxBalance + zero + zero
    BY <1>0, <2>1, <2>2
  <2>4. MoneyInv'
    <3> HIDE DEF zero
    <3> QED BY <1>0, <1>1, <2>1, <2>3, PoolsUnchanged
  <2> QED BY <1>0, <2>1, <2>2, <2>4 DEF StepKeeps
<1> QED BY <1>2, <1>3, <1>4, <1>5, <1>7, <1>8 DEF StakerStep

(***************************************************************************)
(* The steps of governance.                                                *)
(***************************************************************************)
LEMMA GovernanceStepKeeps ==
  ASSUME StakingInv, GovernanceStep
  PROVE  StepKeeps
<1>0. /\ PositionInv /\ MoneyInv /\ now \in Nat /\ minTotalStakeForEmission \in Nat
      /\ totalLocked \in Int
      /\ reward \in Streams /\ bonus \in Streams /\ srxBalance \in Int /\ bonusBalance \in Int
      /\ reward.pool \in Int /\ bonus.pool \in Int /\ bonus.owed \in Int
      /\ totalLocked + reward.pool <= srxBalance /\ bonus.pool <= bonusBalance
  BY StreamFields DEF StakingInv, MoneyInv, PositionInv
<1>1. ASSUME UNCHANGED <<now, position>>, minTotalStakeForEmission' \in Nat, MoneyInv'
      PROVE  StepKeeps
  BY <1>0, <1>1, PositionUnchanged DEF StepKeeps
<1>2. UNCHANGED position => totalLocked' = totalLocked
  BY DEF position
<1>3. ASSUME NEW n \in Fundings, SendSRX(n) PROVE StepKeeps
  <2>1. /\ UNCHANGED <<now, position, minTotalStakeForEmission, reward, bonus, bonusBalance>>
        /\ srxBalance' = srxBalance + n /\ n \in Nat
    BY <1>3 DEF SendSRX, settings, bonusSide
  <2>2. MoneyInv'
    BY <1>0, <1>2, <2>1 DEF MoneyInv
  <2> QED BY <1>0, <1>1, <2>1, <2>2
<1>4. ASSUME NEW n \in BonusFundings, SendBonus(n) PROVE StepKeeps
  <2>1. /\ UNCHANGED <<now, position, minTotalStakeForEmission, reward, bonus, srxBalance>>
        /\ bonusBalance' = bonusBalance + n /\ n \in Nat
    BY <1>4 DEF SendBonus, settings, srxSide
  <2>2. MoneyInv'
    BY <1>0, <1>2, <2>1 DEF MoneyInv
  <2> QED BY <1>0, <1>1, <2>1, <2>2
<1>5. ASSUME NEW n \in Fundings, NotifyRewardAmount(n) PROVE StepKeeps
  <2> DEFINE p == reward.pool + n
  <2>1. /\ UNCHANGED <<now, position, minTotalStakeForEmission, srxBalance, bonus, bonusBalance>>
        /\ reward' = RecomputePeriodFinish([Updated(reward) EXCEPT !.pool = p], now)
        /\ n \in Nat /\ totalLocked + p <= srxBalance
    BY <1>0, <1>5 DEF NotifyRewardAmount, settings, bonusSide
  <2>2. p \in Int
    BY <1>0, <2>1
  <2> HIDE DEF p
  <2>3. reward' \in Streams /\ reward'.pool = p
    <3>1. 0 \in Nat
      OBVIOUS
    <3> QED BY <1>0, <2>1, <2>2, <3>1, Rescheduled
  <2>4. MoneyInv'
    BY <1>0, <1>2, <2>1, <2>3 DEF MoneyInv
  <2> QED BY <1>0, <1>1, <2>1, <2>4
<1>6. ASSUME NEW n \in BonusFundings, NotifyBonusRewardAmount(n) PROVE StepKeeps
  <2> DEFINE p == bonus.pool + n
  <2>1. /\ UNCHANGED <<now, position, minTotalStakeForEmission, srxBalance, reward, bonusBalance>>
        /\ bonus' = RecomputePeriodFinish([Updated(bonus) EXCEPT !.pool = p], now)
        /\ n \in Nat /\ p <= bonusBalance
    BY <1>0, <1>6 DEF NotifyBonusRewardAmount, settings, srxSide
  <2>2. p \in Int
    BY <1>0, <2>1
  <2> HIDE DEF p
  <2>3. bonus' \in Streams /\ bonus'.pool = p
    <3>1. 0 \in Nat
      OBVIOUS
    <3> QED BY <1>0, <2>1, <2>2, <3>1, Rescheduled
  <2>4. MoneyInv'
    BY <1>0, <1>2, <2>1, <2>3 DEF MoneyInv
  <2> QED BY <1>0, <1>1, <2>1, <2>4
<1>7. ASSUME NEW r \in Rates, SetRewardRate(r) PROVE StepKeeps
  <2>1. /\ UNCHANGED <<now, position, minTotalStakeForEmission, srxBalance, bonus, bonusBalance>>
        /\ reward' = RecomputePeriodFinish([Updated(reward) EXCEPT !.rate = r], now) /\ r \in Nat
    BY <1>7 DEF SetRewardRate, settings, bonusSide
  <2>2. reward' \in Streams /\ reward'.pool = reward.pool
    BY <1>0, <2>1, Rescheduled
  <2>3. MoneyInv'
    BY <1>0, <1>2, <2>1, <2>2 DEF MoneyInv
  <2> QED BY <1>0, <1>1, <2>1, <2>3
<1>8. ASSUME NEW r \in BonusRates, SetBonusRewardRate(r) PROVE StepKeeps
  <2>1. /\ UNCHANGED <<now, position, minTotalStakeForEmission, srxBalance, reward, bonusBalance>>
        /\ bonus' = RecomputePeriodFinish([Updated(bonus) EXCEPT !.rate = r], now) /\ r \in Nat
    BY <1>8 DEF SetBonusRewardRate, settings, srxSide
  <2>2. bonus' \in Streams /\ bonus'.pool = bonus.pool
    BY <1>0, <2>1, Rescheduled
  <2>3. MoneyInv'
    BY <1>0, <1>2, <2>1, <2>2 DEF MoneyInv
  <2> QED BY <1>0, <1>1, <2>1, <2>3
<1>9. ASSUME SetBonusRewardToken PROVE StepKeeps
  <2>1. /\ UNCHANGED <<now, position, minTotalStakeForEmission, srxBalance, reward, bonusBalance>>
        /\ bonus' = [bonus EXCEPT !.last = now]
    BY <1>9 DEF SetBonusRewardToken, settings, srxSide
  <2>2. bonus' \in Streams /\ bonus'.pool = bonus.pool
    BY <1>0, <2>1 DEF Streams
  <2>3. MoneyInv'
    BY <1>0, <1>2, <2>1, <2>2 DEF MoneyInv
  <2> QED BY <1>0, <1>1, <2>1, <2>3
<1>10. ASSUME RescueStrandedPool PROVE StepKeeps
  <2> DEFINE p == 0
  <2>1. /\ UNCHANGED <<now, position, minTotalStakeForEmission, bonus, bonusBalance>>
        /\ reward' = [reward EXCEPT !.pool = p, !.rate = 0, !.finish = now]
        /\ srxBalance' = srxBalance - (reward.pool - p)
    BY <1>0, <1>10 DEF RescueStrandedPool, settings, bonusSide
  <2>2. p \in Int
    OBVIOUS
  <2> HIDE DEF p
  <2>3. reward' \in Streams /\ reward'.pool = p
    <3>1. reward \in Streams /\ now \in Int
      BY <1>0
    <3>2. reward' = [reward EXCEPT !.pool = p, !.rate = 0, !.finish = now]
      BY <2>1
    <3> QED BY <2>2, <3>1, <3>2 DEF Streams
  <2>4. MoneyInv'
    BY <1>0, <1>2, <2>1, <2>2, <2>3 DEF MoneyInv
  <2> QED BY <1>0, <1>1, <2>1, <2>4
<1>11. ASSUME RescueStrandedBonusPool PROVE StepKeeps
  <2> DEFINE p == bonus.owed
  <2>1. /\ UNCHANGED <<now, position, minTotalStakeForEmission, reward, srxBalance>>
        /\ bonus' = [bonus EXCEPT !.pool = p, !.rate = 0, !.finish = now]
        /\ bonusBalance' = bonusBalance - (bonus.pool - p)
    BY <1>11 DEF RescueStrandedBonusPool, settings, srxSide
  <2>2. p \in Int
    BY <1>0
  <2> HIDE DEF p
  <2>3. bonus' \in Streams /\ bonus'.pool = p
    <3>1. bonus \in Streams /\ now \in Int
      BY <1>0
    <3>2. bonus' = [bonus EXCEPT !.pool = p, !.rate = 0, !.finish = now]
      BY <2>1
    <3> QED BY <2>2, <3>1, <3>2 DEF Streams
  <2>4. MoneyInv'
    BY <1>0, <1>2, <2>1, <2>2, <2>3 DEF MoneyInv
  <2> QED BY <1>0, <1>1, <2>1, <2>4
<1>12. ASSUME NEW n \in MinTotals, SetMinTotalStakeForEmission(n) PROVE StepKeeps
  <2>1. /\ UNCHANGED <<now, position, srxBalance, bonusBalance>>
        /\ reward' = Updated(reward) /\ bonus' = Updated(bonus)
        /\ minTotalStakeForEmission' \in Nat
    BY <1>12 DEF SetMinTotalStakeForEmission
  <2>2. /\ reward' \in Streams /\ reward'.pool = reward.pool
        /\ bonus' \in Streams /\ bonus'.pool = bonus.pool
    BY <1>0, <2>1, StreamUpdated
  <2>3. MoneyInv'
    BY <1>0, <1>2, <2>1, <2>2 DEF MoneyInv
  <2> QED BY <1>1, <2>1, <2>3
<1>13. ASSUME \/ \E n \in MinStakes : SetMinStakeAmount(n)
              \/ \E p \in BOOLEAN : SetPaused(p)
              \/ \E t \in Halting : ToggleTransfers(t)
       PROVE  StepKeeps
  <2>1. UNCHANGED <<now, position, minTotalStakeForEmission, reward, bonus, srxBalance, bonusBalance>>
    BY <1>13 DEF SetMinStakeAmount, SetPaused, ToggleTransfers, srxSide, bonusSide
  <2>2. MoneyInv'
    BY <1>0, <1>2, <2>1 DEF MoneyInv
  <2> QED BY <1>0, <1>1, <2>1, <2>2
<1> QED BY <1>3, <1>4, <1>5, <1>6, <1>7, <1>8, <1>9, <1>10, <1>11, <1>12, <1>13 DEF GovernanceStep

-----------------------------------------------------------------------------
(***************************************************************************)
(* The theorems.                                                           *)
(***************************************************************************)
LEMMA StakingInit == Init => StakingInv
<1> SUFFICES ASSUME Init PROVE StakingInv
  OBVIOUS
<1>1. /\ now = 1 /\ amount = [u \in Users |-> 0] /\ weighted = [u \in Users |-> 0]
      /\ lockEnd = [u \in Users |-> 0] /\ lockDuration = [u \in Users |-> 0]
      /\ totalLocked = 0 /\ totalWeightedStake = 0
      /\ reward = NewStream(1) /\ bonus = NewStream(0)
      /\ minTotalStakeForEmission = 0 /\ srxBalance = 0 /\ bonusBalance = 0
  BY DEF Init
<1>2. Total(amount) = 0 /\ Total(weighted) = 0
  BY <1>1, TotalZero
<1>3. PositionInv
  BY <1>1, <1>2 DEF PositionInv, PositionsWhole
<1>4. /\ reward \in Streams /\ reward.pool = 0 /\ bonus \in Streams /\ bonus.pool = 0
  BY <1>1, NewStreamType
<1>5. MoneyInv
  BY <1>1, <1>4 DEF MoneyInv
<1> QED BY <1>1, <1>3, <1>5 DEF StakingInv

\* Every step keeps the invariant, and no weight appears without a running lock.
LEMMA StakingStep ==
  ASSUME StakingInv, [Next]_stakingVars
  PROVE  StakingInv' /\ WeightEarned
<1>0. PositionInv /\ MoneyInv
  BY DEF StakingInv
<1>1. ASSUME StepKeeps PROVE StakingInv' /\ WeightEarned
  BY <1>1 DEF StepKeeps, StakingInv
<1>2. CASE Tick \/ UNCHANGED stakingVars
  <2>1. /\ UNCHANGED <<position, minTotalStakeForEmission, reward, bonus, srxBalance, bonusBalance>>
        /\ (now' = now + 1 \/ now' = now)
    BY <1>2 DEF Tick, stakingVars, settings, srxSide, bonusSide
  <2>2. PositionInv' /\ WeightEarned /\ totalLocked' = totalLocked
    BY <1>0, <2>1, PositionUnchanged
  <2>3. MoneyInv'
    BY <1>0, <2>1, <2>2 DEF MoneyInv
  <2> QED BY <2>1, <2>2, <2>3 DEF StakingInv
<1>3. CASE \E u \in Users : StakerStep(u) \/ ClaimBonusRewards(u)
  BY <1>1, <1>3, StakerStepKeeps
<1>4. CASE GovernanceStep
  BY <1>1, <1>4, GovernanceStepKeeps
<1> QED BY <1>2, <1>3, <1>4 DEF Next

\* The totals are the sums of the positions, and the contract holds every
\* principal and every registered reward.
THEOREM StakesBacked == Spec => []Backed
<1>1. Init => StakingInv
  BY StakingInit
<1>2. StakingInv /\ [Next]_stakingVars => StakingInv'
  BY StakingStep
<1>3. StakingInv => Backed
  BY DEF StakingInv, PositionInv, MoneyInv, Backed
<1> QED BY <1>1, <1>2, <1>3, PTL DEF Spec

\* No call raises the weight of an expired position above its principal.
THEOREM MultiplierNeedsLock == Spec => WeightNeedsLock
<1>1. Init => StakingInv
  BY StakingInit
<1>2. StakingInv /\ [Next]_stakingVars => StakingInv'
  BY StakingStep
<1>3. StakingInv /\ [Next]_stakingVars =>
        [\A u \in Users : weighted'[u] > weighted[u] /\ weighted'[u] > amount'[u] => now < lockEnd'[u]]_stakingVars
  BY StakingStep DEF WeightEarned
<1> QED BY <1>1, <1>2, <1>3, PTL DEF Spec, WeightNeedsLock

-----------------------------------------------------------------------------
(***************************************************************************)
(* What a step leaves of what is earned.                                   *)
(***************************************************************************)
\* The step that makes t of the stream s lowers what nobody earned by more than
\* it pays out.
KeepsEarned(s, t) ==
    \A v \in Users :
        Earned(t, v, weighted'[v], totalWeightedStake', minTotalStakeForEmission', now') + PaidOut(s, t)
          >= EarnedOf(s, v)

\* No bonus is emitted before its token is set.
BonusUnset == ~bonusTokenSet => bonus.rate = 0

\* Bringing a stream up to date for one user, and paying him or not, keeps what
\* everybody earned of it: his weight may change, others' may not.
LEMMA BankedStep ==
  ASSUME StakingInv, StakingInv', NEW s \in Streams, NEW t, NEW u \in Users,
         now' = now, \A v \in Users \ {u} : weighted'[v] = weighted[v],
         t = UpdatedFor(s, u) \/ t = SettleRewards(UpdatedFor(s, u), u)
  PROVE  KeepsEarned(s, t) /\ t.rate = s.rate
<1> DEFINE part == weighted[u]
           part2 == weighted'[u]
           weight == totalWeightedStake
           weight2 == totalWeightedStake'
           minimum == minTotalStakeForEmission
           minimum2 == minTotalStakeForEmission'
           r == UpdatedFor(s, u)
<1>1. /\ part \in Int /\ part2 \in Int /\ weight \in Int /\ weight2 \in Int
      /\ minimum \in Nat /\ minimum2 \in Nat /\ now \in Int
      /\ \A v \in Users : weighted[v] \in Int
  BY DEF StakingInv, PositionInv
<1>2. r = UpdateReward(s, u, part, weight, minimum, now) /\ (t = r \/ t = SettleRewards(r, u))
  BY DEF UpdatedFor
<1> HIDE DEF part, part2, weight, weight2, minimum, minimum2, r
<1>3. /\ UpToDate(s, t, weight, minimum, now)
      /\ \A v \in Users \ {u} : SameCheckpoint(s, t, v)
      /\ t.rate = s.rate
      /\ Earned(t, u, part2, weight2, minimum2, now) + PaidFrom(s, t)
           >= Earned(s, u, part, weight, minimum, now)
  BY <1>1, <1>2, BankedKept
<1>4. ASSUME NEW v \in Users
      PROVE  Earned(t, v, weighted'[v], weight2, minimum2, now) + PaidFrom(s, t)
               >= Earned(s, v, weighted[v], weight, minimum, now)
  <2>1. CASE v = u
    BY <1>3, <2>1 DEF part, part2
  <2>2. CASE v # u
    <3> DEFINE w == weighted[v]
    <3>1. w \in Int /\ weighted'[v] = w /\ SameCheckpoint(s, t, v)
      BY <1>1, <1>3, <2>2
    <3> HIDE DEF w
    <3>2. Earned(t, v, w, weight2, minimum2, now) + PaidFrom(s, t)
            >= Earned(s, v, w, weight, minimum, now)
      BY <1>1, <1>3, <3>1, CarriedKept
    <3> QED BY <3>1, <3>2 DEF w
  <2> QED BY <2>1, <2>2
<1>5. KeepsEarned(s, t)
  BY <1>4 DEF KeepsEarned, EarnedOf, PaidOut, PaidFrom, weight, weight2, minimum, minimum2
<1> QED BY <1>3, <1>5

\* A stream brought up to date for everybody, with another schedule or not,
\* while no position changes.
LEMMA GovernedStep ==
  ASSUME StakingInv, StakingInv', NEW s \in Streams, NEW t,
         UNCHANGED <<now, weighted, totalWeightedStake>>,
         UpToDate(s, t, totalWeightedStake, minTotalStakeForEmission, now),
         \A v \in Users : SameCheckpoint(s, t, v)
  PROVE  KeepsEarned(s, t)
<1> DEFINE weight == totalWeightedStake
           minimum == minTotalStakeForEmission
           minimum2 == minTotalStakeForEmission'
<1>1. /\ weight \in Int /\ minimum \in Nat /\ minimum2 \in Nat /\ now \in Int
      /\ \A v \in Users : weighted[v] \in Int
  BY DEF StakingInv, PositionInv
<1>2. UpToDate(s, t, weight, minimum, now)
  OBVIOUS
<1> HIDE DEF weight, minimum, minimum2
<1>3. ASSUME NEW v \in Users
      PROVE  Earned(t, v, weighted[v], weight, minimum2, now) + PaidFrom(s, t)
               >= Earned(s, v, weighted[v], weight, minimum, now)
  <2> DEFINE w == weighted[v]
  <2>1. w \in Int
    BY <1>1
  <2> HIDE DEF w
  <2>2. Earned(t, v, w, weight, minimum2, now) + PaidFrom(s, t)
          >= Earned(s, v, w, weight, minimum, now)
    BY <1>1, <1>2, <2>1, CarriedKept
  <2> QED BY <2>2 DEF w
<1> QED BY <1>3 DEF KeepsEarned, EarnedOf, PaidOut, PaidFrom, weight, minimum, minimum2

\* A stream that is left alone while the positions stay.
LEMMA IdleStep ==
  ASSUME StakingInv, NEW s \in Streams,
         UNCHANGED <<now, weighted, totalWeightedStake, minTotalStakeForEmission>>
  PROVE  KeepsEarned(s, s)
<1>1. PaidOut(s, s) = 0
  BY StreamFields DEF PaidOut
<1>2. ASSUME NEW v \in Users PROVE EarnedOf(s, v) \in Int
  <2> DEFINE w == weighted[v]
             weight == totalWeightedStake
             minimum == minTotalStakeForEmission
  <2>1. w \in Int /\ weight \in Int /\ minimum \in Nat /\ now \in Int
    BY DEF StakingInv, PositionInv
  <2> HIDE DEF w, weight, minimum
  <2>2. Earned(s, v, w, weight, minimum, now) \in Int
    BY <2>1, EarnedType
  <2> QED BY <2>2 DEF EarnedOf, w, weight, minimum
<1>3. ASSUME NEW v \in Users
      PROVE  Earned(s, v, weighted'[v], totalWeightedStake', minTotalStakeForEmission', now') = EarnedOf(s, v)
  BY DEF EarnedOf
<1> QED BY <1>1, <1>2, <1>3 DEF KeepsEarned

\* A second passes.
LEMMA TickStep ==
  ASSUME StakingInv, NEW s \in Streams, now' = now + 1,
         UNCHANGED <<weighted, totalWeightedStake, minTotalStakeForEmission>>
  PROVE  KeepsEarned(s, s)
<1>1. PaidOut(s, s) = 0
  BY StreamFields DEF PaidOut
<1>2. ASSUME NEW v \in Users
      PROVE  /\ Earned(s, v, weighted[v], totalWeightedStake, minTotalStakeForEmission, now + 1) \in Int
             /\ EarnedOf(s, v) \in Int
             /\ EarnedOf(s, v)
                  <= Earned(s, v, weighted[v], totalWeightedStake, minTotalStakeForEmission, now + 1)
  <2> DEFINE w == weighted[v]
             weight == totalWeightedStake
             minimum == minTotalStakeForEmission
             later == now + 1
  <2>1. w \in Nat /\ weight \in Int /\ minimum \in Nat /\ now \in Int /\ later \in Int
    BY DEF StakingInv, PositionInv
  <2> HIDE DEF w, weight, minimum
  <2>2. Earned(s, v, w, weight, minimum, now) <= Earned(s, v, w, weight, minimum, now + 1)
    BY <2>1, EarnedGrows
  <2>3. Earned(s, v, w, weight, minimum, now) \in Int
    BY <2>1, EarnedType
  <2>4. Earned(s, v, w, weight, minimum, later) \in Int
    <3> HIDE DEF later
    <3> QED BY <2>1, EarnedType
  <2> QED BY <2>2, <2>3, <2>4 DEF EarnedOf, w, weight, minimum
<1>3. ASSUME NEW v \in Users
      PROVE  Earned(s, v, weighted'[v], totalWeightedStake', minTotalStakeForEmission', now')
               = Earned(s, v, weighted[v], totalWeightedStake, minTotalStakeForEmission, now + 1)
  OBVIOUS
<1> QED BY <1>1, <1>2, <1>3 DEF KeepsEarned

\* A stream whose weight is gone, or that has no rate, has its accumulator up
\* to date: its pool, its rate and its clock may be reset.
LEMMA ResetStep ==
  ASSUME StakingInv, StakingInv', NEW s \in Streams, NEW t \in Streams,
         UNCHANGED <<now, weighted, totalWeightedStake, minTotalStakeForEmission>>,
         t.stored = s.stored, t.paid = s.paid, t.pending = s.pending,
         totalWeightedStake = 0 \/ (s.rate = 0 /\ t.rate = 0)
  PROVE  KeepsEarned(s, t)
<1> DEFINE weight == totalWeightedStake
           minimum == minTotalStakeForEmission
<1>1. /\ weight \in Int /\ minimum \in Nat /\ now \in Int
      /\ \A v \in Users : weighted[v] \in Int
      /\ (weight = 0 \/ (s.rate = 0 /\ t.rate = 0))
  BY DEF StakingInv, PositionInv
<1> HIDE DEF weight, minimum
<1>2. RewardPerToken(t, weight, minimum, now) = RewardPerToken(s, weight, minimum, now)
  <2>1. CASE weight = 0
    BY <2>1 DEF RewardPerToken
  <2>2. CASE s.rate = 0 /\ t.rate = 0
    BY <1>1, <2>2, StoredWhenSettled
  <2> QED BY <1>1, <2>1, <2>2
<1>3. ASSUME NEW v \in Users
      PROVE  /\ Earned(t, v, weighted[v], weight, minimum, now)
                  = Earned(s, v, weighted[v], weight, minimum, now)
             /\ Earned(s, v, weighted[v], weight, minimum, now) \in Int
  <2> DEFINE w == weighted[v]
  <2>1. w \in Int
    BY <1>1
  <2> HIDE DEF w
  <2>2. Earned(s, v, w, weight, minimum, now) \in Int
    BY <1>1, <2>1, EarnedType
  <2> QED BY <1>2, <2>2 DEF Earned, w
<1>4. PaidOut(s, t) \in Nat
  <2>1. s.pool \in Int /\ t.pool \in Int
    BY StreamFields
  <2> QED BY <2>1 DEF PaidOut
<1> QED BY <1>3, <1>4 DEF KeepsEarned, EarnedOf, weight, minimum

\* What a staker's call does to both streams.
LEMMA StakerEarned ==
  ASSUME StakingInv, StakingInv', NEW u \in Users, StakerStep(u) \/ ClaimBonusRewards(u)
  PROVE  /\ KeepsEarned(bonus, bonus') /\ bonus'.rate = bonus.rate /\ UNCHANGED bonusTokenSet
         /\ KeepsEarned(reward, reward') \/ ClaimBonusRewards(u)
<1>0. reward \in Streams /\ bonus \in Streams /\ weighted \in [Users -> Nat]
  BY DEF StakingInv, MoneyInv, PositionInv
<1>1. ASSUME DecayExpiredWeight(u) PROVE \A v \in Users \ {u} : weighted'[v] = weighted[v]
  BY <1>0, <1>1 DEF DecayExpiredWeight, Minus
<1>2. ASSUME now' = now, UNCHANGED bonusTokenSet,
             \A v \in Users \ {u} : weighted'[v] = weighted[v],
             bonus' = UpdatedFor(bonus, u) \/ bonus' = SettleRewards(UpdatedFor(bonus, u), u),
             reward' = UpdatedFor(reward, u) \/ reward' = SettleRewards(UpdatedFor(reward, u), u)
      PROVE  /\ KeepsEarned(bonus, bonus') /\ bonus'.rate = bonus.rate /\ UNCHANGED bonusTokenSet
             /\ KeepsEarned(reward, reward')
  <2>1. KeepsEarned(bonus, bonus') /\ bonus'.rate = bonus.rate
    BY <1>0, <1>2, BankedStep
  <2>2. KeepsEarned(reward, reward')
    BY <1>0, <1>2, BankedStep
  <2> QED BY <1>2, <2>1, <2>2
<1>3. ASSUME NEW n \in Amounts, NEW d \in Durations, Lock(u, n, d)
      PROVE  /\ KeepsEarned(bonus, bonus') /\ bonus'.rate = bonus.rate /\ UNCHANGED bonusTokenSet
             /\ KeepsEarned(reward, reward')
  <2>1. /\ now' = now /\ UNCHANGED bonusTokenSet
        /\ bonus' = UpdatedFor(bonus, u) /\ reward' = UpdatedFor(reward, u)
        /\ weighted' = [weighted EXCEPT ![u] = Weight(n, d)]
    BY <1>3 DEF Lock
  <2>2. \A v \in Users \ {u} : weighted'[v] = weighted[v]
    BY <1>0, <2>1
  <2> QED BY <1>2, <2>1, <2>2
<1>4. ASSUME NEW n \in Amounts, NEW d \in Durations \cup {0}, AddToPosition(u, n, d)
      PROVE  /\ KeepsEarned(bonus, bonus') /\ bonus'.rate = bonus.rate /\ UNCHANGED bonusTokenSet
             /\ KeepsEarned(reward, reward')
  <2>1. /\ now' = now /\ UNCHANGED bonusTokenSet
        /\ bonus' = UpdatedFor(bonus, u) /\ reward' = UpdatedFor(reward, u)
        /\ \E w : weighted' = [weighted EXCEPT ![u] = w]
    BY <1>4 DEF AddToPosition
  <2>2. \A v \in Users \ {u} : weighted'[v] = weighted[v]
    BY <1>0, <2>1
  <2> QED BY <1>2, <2>1, <2>2
<1>5. ASSUME Unlock(u) \/ EarlyWithdraw(u)
      PROVE  /\ KeepsEarned(bonus, bonus') /\ bonus'.rate = bonus.rate /\ UNCHANGED bonusTokenSet
             /\ KeepsEarned(reward, reward')
  <2>1. now' = now /\ SettleBoth(u, amount[u]) /\ RemovePosition(u)
    BY <1>5 DEF Unlock, EarlyWithdraw
  <2>2. /\ bonus' = SettleRewards(UpdatedFor(bonus, u), u)
        /\ reward' = SettleRewards(UpdatedFor(reward, u), u)
        /\ UNCHANGED bonusTokenSet
    BY <2>1 DEF SettleBoth
  <2>3. \A v \in Users \ {u} : weighted'[v] = weighted[v]
    BY <1>0, <2>1 DEF RemovePosition
  <2> QED BY <1>2, <2>1, <2>2, <2>3
<1>6. ASSUME ClaimRewards(u)
      PROVE  /\ KeepsEarned(bonus, bonus') /\ bonus'.rate = bonus.rate /\ UNCHANGED bonusTokenSet
             /\ KeepsEarned(reward, reward')
  <2>1. /\ UNCHANGED <<now, weighted, totalWeightedStake, minTotalStakeForEmission, bonus, bonusTokenSet>>
        /\ reward' = SettleRewards(UpdatedFor(reward, u), u)
    BY <1>6 DEF ClaimRewards, position, settings, bonusSide
  <2>2. KeepsEarned(bonus, bonus)
    BY <1>0, <2>1, IdleStep
  <2>3. KeepsEarned(reward, reward')
    BY <1>0, <2>1, BankedStep
  <2> QED BY <2>1, <2>2, <2>3
<1>7. ASSUME ClaimBonusRewards(u)
      PROVE  KeepsEarned(bonus, bonus') /\ bonus'.rate = bonus.rate /\ UNCHANGED bonusTokenSet
  <2>1. /\ now' = now /\ UNCHANGED bonusTokenSet /\ DecayExpiredWeight(u)
        /\ bonus' = SettleRewards(UpdatedFor(bonus, u), u)
    BY <1>7 DEF ClaimBonusRewards
  <2> QED BY <1>0, <1>1, <2>1, BankedStep
<1>8. ASSUME PokeExpiredPosition(u)
      PROVE  /\ KeepsEarned(bonus, bonus') /\ bonus'.rate = bonus.rate /\ UNCHANGED bonusTokenSet
             /\ KeepsEarned(reward, reward')
  <2>1. /\ now' = now /\ UNCHANGED bonusTokenSet /\ DecayExpiredWeight(u)
        /\ bonus' = UpdatedFor(bonus, u) /\ reward' = UpdatedFor(reward, u)
    BY <1>8 DEF PokeExpiredPosition
  <2> QED BY <1>1, <1>2, <2>1
<1> QED BY <1>3, <1>4, <1>5, <1>6, <1>7, <1>8 DEF StakerStep

\* What a call of governance does to both streams.
LEMMA GovernanceEarned ==
  ASSUME StakingInv, StakingInv', BonusUnset, GovernanceStep
  PROVE  KeepsEarned(bonus, bonus') /\ KeepsEarned(reward, reward') /\ BonusUnset'
<1>0. /\ reward \in Streams /\ bonus \in Streams /\ totalWeightedStake \in Int
      /\ minTotalStakeForEmission \in Nat /\ now \in Int
      /\ reward' \in Streams /\ bonus' \in Streams
      /\ reward.pool \in Int /\ bonus.pool \in Int
  BY StreamFields DEF StakingInv, MoneyInv, PositionInv
<1>1. ASSUME NEW s \in Streams
      PROVE  /\ UpToDate(s, Updated(s), totalWeightedStake, minTotalStakeForEmission, now)
             /\ \A v \in Users : SameCheckpoint(s, Updated(s), v)
             /\ Updated(s) \in Streams /\ Updated(s).rate = s.rate
  <2> DEFINE weight == totalWeightedStake
             minimum == minTotalStakeForEmission
             t == UpdateAll(s, weight, minimum, now)
  <2>1. weight \in Int /\ minimum \in Nat /\ now \in Int
    BY <1>0
  <2> HIDE DEF weight, minimum
  <2>2. /\ UpToDate(s, t, weight, minimum, now) /\ \A v \in Users : SameCheckpoint(s, t, v)
        /\ t.rate = s.rate
    BY <2>1, UpdateAllUpToDate
  <2>3. t \in Streams
    BY <2>2 DEF UpToDate
  <2> QED BY <2>2, <2>3 DEF Updated, weight, minimum
<1>2. ASSUME NEW s \in Streams, NEW p \in Int, NEW r \in Nat, NEW t,
             \/ t = RecomputePeriodFinish([Updated(s) EXCEPT !.pool = p], now)
             \/ t = RecomputePeriodFinish([Updated(s) EXCEPT !.rate = r], now),
             UNCHANGED <<now, weighted, totalWeightedStake>>
      PROVE  KeepsEarned(s, t)
  <2> DEFINE t0 == Updated(s)
             a == [t0 EXCEPT !.pool = p]
             b == [t0 EXCEPT !.rate = r]
             weight == totalWeightedStake
             minimum == minTotalStakeForEmission
  <2>1. /\ UpToDate(s, t0, weight, minimum, now) /\ \A v \in Users : SameCheckpoint(s, t0, v)
        /\ t0 \in Streams /\ weight \in Int /\ minimum \in Nat
    BY <1>0, <1>1
  <2> HIDE DEF t0, weight, minimum
  <2>2. /\ a \in Streams /\ a.stored = t0.stored /\ a.paid = t0.paid /\ a.pending = t0.pending
        /\ b \in Streams /\ b.stored = t0.stored /\ b.paid = t0.paid /\ b.pending = t0.pending
    BY <2>1 DEF Streams
  <2>3. PICK c \in {a, b} : t = RecomputePeriodFinish(c, now)
    BY <1>2 DEF t0
  <2> HIDE DEF a, b
  <2>4. c \in Streams /\ c.stored = t0.stored /\ c.paid = t0.paid /\ c.pending = t0.pending
    BY <2>2
  <2>5. /\ UpToDate(s, RecomputePeriodFinish(c, now), weight, minimum, now)
        /\ \A v \in Users : SameCheckpoint(s, RecomputePeriodFinish(c, now), v)
    BY <1>0, <2>1, <2>4, RescheduleUpToDate
  <2>6. /\ UpToDate(s, t, totalWeightedStake, minTotalStakeForEmission, now)
        /\ \A v \in Users : SameCheckpoint(s, t, v)
    BY <2>3, <2>5 DEF weight, minimum
  <2> QED BY <1>2, <2>6, GovernedStep
<1>3. ASSUME UNCHANGED <<now, weighted, totalWeightedStake, minTotalStakeForEmission, reward>>
      PROVE  KeepsEarned(reward, reward')
  BY <1>0, <1>3, IdleStep
<1>4. ASSUME UNCHANGED <<now, weighted, totalWeightedStake, minTotalStakeForEmission, bonus, bonusTokenSet>>
      PROVE  KeepsEarned(bonus, bonus') /\ BonusUnset'
  <2>1. KeepsEarned(bonus, bonus)
    BY <1>0, <1>4, IdleStep
  <2> QED BY <1>4, <2>1 DEF BonusUnset
<1>5. ASSUME \/ \E n \in Fundings : SendSRX(n)
             \/ \E n \in BonusFundings : SendBonus(n)
             \/ \E n \in MinStakes : SetMinStakeAmount(n)
             \/ \E p \in BOOLEAN : SetPaused(p)
             \/ \E t \in Halting : ToggleTransfers(t)
      PROVE  KeepsEarned(bonus, bonus') /\ KeepsEarned(reward, reward') /\ BonusUnset'
  <2>1. UNCHANGED <<now, weighted, totalWeightedStake, minTotalStakeForEmission, bonus, bonusTokenSet, reward>>
    BY <1>5 DEF SendSRX, SendBonus, SetMinStakeAmount, SetPaused, ToggleTransfers, position, settings, srxSide, bonusSide
  <2> QED BY <1>3, <1>4, <2>1
<1>6. ASSUME NEW n \in Fundings, NotifyRewardAmount(n)
      PROVE  KeepsEarned(bonus, bonus') /\ KeepsEarned(reward, reward') /\ BonusUnset'
  <2> DEFINE p == reward.pool + n
  <2>1. /\ UNCHANGED <<now, weighted, totalWeightedStake, minTotalStakeForEmission, bonus, bonusTokenSet>>
        /\ reward' = RecomputePeriodFinish([Updated(reward) EXCEPT !.pool = p], now)
    BY <1>6 DEF NotifyRewardAmount, position, settings, bonusSide
  <2>2. p \in Int
    BY <1>0
  <2> HIDE DEF p
  <2>3. KeepsEarned(reward, reward')
    <3>1. 0 \in Nat
      OBVIOUS
    <3> QED BY <1>0, <1>2, <2>1, <2>2, <3>1
  <2> QED BY <1>4, <2>1, <2>3
<1>7. ASSUME NEW r \in Rates, SetRewardRate(r)
      PROVE  KeepsEarned(bonus, bonus') /\ KeepsEarned(reward, reward') /\ BonusUnset'
  <2>1. /\ UNCHANGED <<now, weighted, totalWeightedStake, minTotalStakeForEmission, bonus, bonusTokenSet>>
        /\ reward' = RecomputePeriodFinish([Updated(reward) EXCEPT !.rate = r], now)
    BY <1>7 DEF SetRewardRate, position, settings, bonusSide
  <2>2. KeepsEarned(reward, reward')
    BY <1>0, <1>2, <2>1
  <2> QED BY <1>4, <2>1, <2>2
<1>8. ASSUME NEW n \in BonusFundings, NotifyBonusRewardAmount(n)
      PROVE  KeepsEarned(bonus, bonus') /\ KeepsEarned(reward, reward') /\ BonusUnset'
  <2> DEFINE p == bonus.pool + n
  <2>1. /\ UNCHANGED <<now, weighted, totalWeightedStake, minTotalStakeForEmission, reward>>
        /\ bonusTokenSet /\ bonusTokenSet' = bonusTokenSet
        /\ bonus' = RecomputePeriodFinish([Updated(bonus) EXCEPT !.pool = p], now)
    BY <1>8 DEF NotifyBonusRewardAmount, position, settings, srxSide
  <2>2. p \in Int
    BY <1>0
  <2> HIDE DEF p
  <2>3. KeepsEarned(bonus, bonus')
    <3>1. 0 \in Nat
      OBVIOUS
    <3> QED BY <1>0, <1>2, <2>1, <2>2, <3>1
  <2> QED BY <1>3, <2>1, <2>3 DEF BonusUnset
<1>9. ASSUME NEW r \in BonusRates, SetBonusRewardRate(r)
      PROVE  KeepsEarned(bonus, bonus') /\ KeepsEarned(reward, reward') /\ BonusUnset'
  <2>1. /\ UNCHANGED <<now, weighted, totalWeightedStake, minTotalStakeForEmission, reward>>
        /\ bonusTokenSet /\ bonusTokenSet' = bonusTokenSet
        /\ bonus' = RecomputePeriodFinish([Updated(bonus) EXCEPT !.rate = r], now)
    BY <1>9 DEF SetBonusRewardRate, position, settings, srxSide
  <2>2. KeepsEarned(bonus, bonus')
    BY <1>0, <1>2, <2>1
  <2> QED BY <1>3, <2>1, <2>2 DEF BonusUnset
<1>10. ASSUME SetBonusRewardToken
       PROVE  KeepsEarned(bonus, bonus') /\ KeepsEarned(reward, reward') /\ BonusUnset'
  <2>1. /\ UNCHANGED <<now, weighted, totalWeightedStake, minTotalStakeForEmission, reward>>
        /\ ~bonusTokenSet /\ bonusTokenSet' = TRUE
        /\ bonus' = [bonus EXCEPT !.last = now]
    BY <1>10 DEF SetBonusRewardToken, position, settings, srxSide
  <2>2. /\ bonus'.stored = bonus.stored /\ bonus'.paid = bonus.paid /\ bonus'.pending = bonus.pending
        /\ bonus'.rate = bonus.rate
    BY <1>0, <2>1 DEF Streams
  <2>3. bonus.rate = 0
    BY <2>1 DEF BonusUnset
  <2>4. KeepsEarned(bonus, bonus')
    BY <1>0, <2>1, <2>2, <2>3, ResetStep
  <2> QED BY <1>3, <2>1, <2>4 DEF BonusUnset
<1>11. ASSUME RescueStrandedPool
       PROVE  KeepsEarned(bonus, bonus') /\ KeepsEarned(reward, reward') /\ BonusUnset'
  <2>1. /\ UNCHANGED <<now, weighted, totalWeightedStake, minTotalStakeForEmission, bonus, bonusTokenSet>>
        /\ totalWeightedStake = 0
        /\ reward' = [reward EXCEPT !.pool = 0, !.rate = 0, !.finish = now]
    BY <1>11 DEF RescueStrandedPool, position, settings, bonusSide
  <2>2. reward'.stored = reward.stored /\ reward'.paid = reward.paid /\ reward'.pending = reward.pending
    BY <1>0, <2>1 DEF Streams
  <2>3. KeepsEarned(reward, reward')
    BY <1>0, <2>1, <2>2, ResetStep
  <2> QED BY <1>4, <2>1, <2>3
<1>12. ASSUME RescueStrandedBonusPool
       PROVE  KeepsEarned(bonus, bonus') /\ KeepsEarned(reward, reward') /\ BonusUnset'
  <2>1. /\ UNCHANGED <<now, weighted, totalWeightedStake, minTotalStakeForEmission, reward>>
        /\ bonusTokenSet /\ bonusTokenSet' = bonusTokenSet
        /\ totalWeightedStake = 0
        /\ bonus' = [bonus EXCEPT !.pool = bonus.owed, !.rate = 0, !.finish = now]
    BY <1>12 DEF RescueStrandedBonusPool, position, settings, srxSide
  <2>2. bonus'.stored = bonus.stored /\ bonus'.paid = bonus.paid /\ bonus'.pending = bonus.pending
    BY <1>0, <2>1 DEF Streams
  <2>3. KeepsEarned(bonus, bonus')
    BY <1>0, <2>1, <2>2, ResetStep
  <2> QED BY <1>3, <2>1, <2>3 DEF BonusUnset
<1>13. ASSUME NEW n \in MinTotals, SetMinTotalStakeForEmission(n)
       PROVE  KeepsEarned(bonus, bonus') /\ KeepsEarned(reward, reward') /\ BonusUnset'
  <2>1. /\ UNCHANGED <<now, weighted, totalWeightedStake, bonusTokenSet>>
        /\ reward' = Updated(reward) /\ bonus' = Updated(bonus)
    BY <1>13 DEF SetMinTotalStakeForEmission, position
  <2>2. KeepsEarned(reward, reward') /\ KeepsEarned(bonus, bonus')
    BY <1>0, <1>1, <2>1, GovernedStep
  <2>3. bonus'.rate = bonus.rate
    BY <1>0, <1>1, <2>1
  <2> QED BY <2>1, <2>2, <2>3 DEF BonusUnset
<1> QED BY <1>5, <1>6, <1>7, <1>8, <1>9, <1>10, <1>11, <1>12, <1>13 DEF GovernanceStep

\* Every step keeps what everybody earned, of the SRX stream unless it is a
\* claim of the bonus.
LEMMA EarnedStep ==
  ASSUME StakingInv, BonusUnset, [Next]_stakingVars
  PROVE  /\ BonusUnset' /\ KeepsEarned(bonus, bonus')
         /\ KeepsEarned(reward, reward') \/ \E u \in Users : ClaimBonusRewards(u)
<1>0. StakingInv' /\ reward \in Streams /\ bonus \in Streams
  BY StakingStep DEF StakingInv, MoneyInv
<1>1. CASE UNCHANGED stakingVars
  <2>1. UNCHANGED <<now, weighted, totalWeightedStake, minTotalStakeForEmission, reward, bonus, bonusTokenSet>>
    BY <1>1 DEF stakingVars, position, settings, srxSide, bonusSide
  <2>2. KeepsEarned(bonus, bonus) /\ KeepsEarned(reward, reward)
    BY <1>0, <2>1, IdleStep
  <2> QED BY <2>1, <2>2 DEF BonusUnset
<1>2. CASE Tick
  <2>1. /\ UNCHANGED <<weighted, totalWeightedStake, minTotalStakeForEmission, reward, bonus, bonusTokenSet>>
        /\ now' = now + 1
    BY <1>2 DEF Tick, position, settings, srxSide, bonusSide
  <2>2. KeepsEarned(bonus, bonus) /\ KeepsEarned(reward, reward)
    BY <1>0, <2>1, TickStep
  <2> QED BY <2>1, <2>2 DEF BonusUnset
<1>3. ASSUME NEW u \in Users, StakerStep(u) \/ ClaimBonusRewards(u)
      PROVE  /\ BonusUnset' /\ KeepsEarned(bonus, bonus')
             /\ KeepsEarned(reward, reward') \/ ClaimBonusRewards(u)
  <2>1. /\ KeepsEarned(bonus, bonus') /\ bonus'.rate = bonus.rate /\ UNCHANGED bonusTokenSet
        /\ KeepsEarned(reward, reward') \/ ClaimBonusRewards(u)
    BY <1>0, <1>3, StakerEarned
  <2> QED BY <2>1 DEF BonusUnset
<1>4. ASSUME GovernanceStep
      PROVE  KeepsEarned(bonus, bonus') /\ KeepsEarned(reward, reward') /\ BonusUnset'
  BY <1>0, <1>4, GovernanceEarned
<1> QED BY <1>1, <1>2, <1>3, <1>4 DEF Next

\* The two invariants together.
LEMMA EarnedInit == Init => StakingInv /\ BonusUnset
<1> SUFFICES ASSUME Init PROVE StakingInv /\ BonusUnset
  OBVIOUS
<1>1. bonus = NewStream(0)
  BY DEF Init
<1>2. bonus.rate = 0
  BY <1>1 DEF NewStream
<1> QED BY <1>2, StakingInit DEF BonusUnset

\* No step lowers what a staker earned of the bonus stream by more than it pays out.
THEOREM BonusEarnedKept == Spec => BonusKept
<1> DEFINE Inv == StakingInv /\ BonusUnset
<1>1. Init => Inv
  BY EarnedInit
<1>2. Inv /\ [Next]_stakingVars => Inv'
  BY StakingStep, EarnedStep
<1>3. Inv /\ [Next]_stakingVars =>
        [\A u \in Users : EarnedOf(bonus, u)' + PaidOut(bonus, bonus') >= EarnedOf(bonus, u)]_stakingVars
  <2> SUFFICES ASSUME Inv, [Next]_stakingVars
               PROVE  \A u \in Users : EarnedOf(bonus, u)' + PaidOut(bonus, bonus') >= EarnedOf(bonus, u)
    OBVIOUS
  <2>1. KeepsEarned(bonus, bonus')
    BY EarnedStep
  <2>2. \A u \in Users : EarnedOf(bonus, u)'
          = Earned(bonus', u, weighted'[u], totalWeightedStake', minTotalStakeForEmission', now')
    BY DEF EarnedOf
  <2> QED BY <2>1, <2>2 DEF KeepsEarned
<1> HIDE DEF Inv
<1> QED BY <1>1, <1>2, <1>3, PTL DEF Spec, BonusKept

\* No step but a claim of the bonus lowers what a staker earned of the SRX
\* stream by more than it pays out.
THEOREM SRXEarnedKept == Spec => SRXKeptOtherwise
<1> DEFINE Inv == StakingInv /\ BonusUnset
<1>1. Init => Inv
  BY EarnedInit
<1>2. Inv /\ [Next]_stakingVars => Inv'
  BY StakingStep, EarnedStep
<1>3. Inv /\ [Next]_stakingVars =>
        [\/ \E u \in Users : ClaimBonusRewards(u)
         \/ \A u \in Users : EarnedOf(reward, u)' + PaidOut(reward, reward') >= EarnedOf(reward, u)]_stakingVars
  <2> SUFFICES ASSUME Inv, [Next]_stakingVars
               PROVE  \/ \E u \in Users : ClaimBonusRewards(u)
                      \/ \A u \in Users : EarnedOf(reward, u)' + PaidOut(reward, reward') >= EarnedOf(reward, u)
    OBVIOUS
  <2>1. KeepsEarned(reward, reward') \/ \E u \in Users : ClaimBonusRewards(u)
    BY EarnedStep
  <2>2. \A u \in Users : EarnedOf(reward, u)'
          = Earned(reward', u, weighted'[u], totalWeightedStake', minTotalStakeForEmission', now')
    BY DEF EarnedOf
  <2> QED BY <2>1, <2>2 DEF KeepsEarned
<1> HIDE DEF Inv
<1> QED BY <1>1, <1>2, <1>3, PTL DEF Spec, SRXKeptOtherwise

-----------------------------------------------------------------------------
(***************************************************************************)
(* What stakers earned is in the pools.                                    *)
(***************************************************************************)
\* A multiplier is at least one: a position weighs its principal or more.
PrincipalWeighs == \A u \in Users : amount[u] <= weighted[u]

\* Both streams are funded; of the SRX stream, whose rescue takes all, those
\* without a position have only dust; the bonus has no schedule without token.
StreamsFunded ==
    /\ now > 0
    /\ FundedStream(reward, weighted, now) /\ FundedStream(bonus, weighted, now)
    /\ IdleDust(reward, weighted)
    /\ ~bonusTokenSet => bonus.finish = 0

FundedInv == PrincipalWeighs /\ StreamsFunded

\* Multiplying and dividing by the base leaves the principal or more.
LEMMA WeightBound ==
  ASSUME NEW x \in Nat, NEW m \in Nat, NEW b \in Nat \ {0}, b <= m
  PROVE  x <= (x * m) \div b
<1> DEFINE y == x * b
           z == x * m
<1>1. y \in Nat /\ z \in Nat /\ y <= z
  <2>1. y \in Nat /\ z \in Nat
    BY ProductType
  <2>2. z = y + x * (m - b)
    OBVIOUS
  <2>3. x * (m - b) \in Nat
    <3> DEFINE c == m - b
    <3>1. c \in Nat
      OBVIOUS
    <3> HIDE DEF c
    <3>2. x * c \in Nat
      BY <3>1, ProductType
    <3> QED BY <3>2 DEF c
  <2> HIDE DEF y, z
  <2> QED BY <2>1, <2>2, <2>3
<1>2. y \div b = x
  BY BaseCancels
<1> HIDE DEF y, z
<1>3. y \div b <= z \div b /\ z \div b \in Int
  BY <1>1
<1> QED BY <1>2, <1>3 DEF z

\* The types that the lemmas on funded streams ask for.
LEMMA FundedOperands ==
  ASSUME StakingInv
  PROVE  /\ IsFiniteSet(Users) /\ now \in Nat /\ minTotalStakeForEmission \in Nat
         /\ weighted \in [Users -> Nat] /\ totalWeightedStake = Total(weighted)
         /\ \A u \in Users : amount[u] \in Nat /\ weighted[u] \in Nat
         /\ \A u \in Users : amount[u] = 0 => weighted[u] = 0
         /\ \A u \in Users : amount[u] > 0 => lockDuration[u] \in Durations
BY DEF StakingInv, PositionInv, PositionsWhole

\* No call leaves a position with less weight than principal.
LEMMA PrincipalWeighsStep ==
  ASSUME StakingInv, StakingInv', PrincipalWeighs, [Next]_stakingVars
  PROVE  PrincipalWeighs'
<1>0. /\ amount \in [Users -> Nat] /\ weighted \in [Users -> Nat]
      /\ \A u \in Users : amount[u] \in Nat /\ weighted[u] \in Nat
      /\ \A u \in Users : amount[u] > 0 => lockDuration[u] \in Durations
  BY DEF StakingInv, PositionInv, PositionsWhole
<1>1. ASSUME NEW u \in Users, NEW a \in Nat, NEW w \in Nat, a <= w,
             amount' = [amount EXCEPT ![u] = a], weighted' = [weighted EXCEPT ![u] = w]
      PROVE  PrincipalWeighs'
  BY <1>0, <1>1 DEF PrincipalWeighs
<1>2. ASSUME UNCHANGED <<amount, weighted>> PROVE PrincipalWeighs'
  BY <1>2 DEF PrincipalWeighs
<1>3. ASSUME NEW u \in Users, DecayExpiredWeight(u) PROVE PrincipalWeighs'
  <2> DEFINE a == amount[u]
             w == weighted[u] - Excess(u)
  <2>1. a \in Nat /\ w \in Nat /\ a <= w
    BY <1>0 DEF Excess, PrincipalWeighs
  <2>2. amount' = [amount EXCEPT ![u] = a] /\ weighted' = [weighted EXCEPT ![u] = w]
    BY <1>0, <1>3 DEF DecayExpiredWeight, Minus
  <2> HIDE DEF a, w
  <2> QED BY <1>1, <2>1, <2>2
<1>4. ASSUME NEW u \in Users, NEW n \in Amounts, NEW d \in Durations, Lock(u, n, d)
      PROVE  PrincipalWeighs'
  <2> DEFINE m == Multiplier[d]
             a == amount[u] + n
             w == (n * m) \div MULTIPLIER_BASE
  <2>1. m \in Nat /\ MULTIPLIER_BASE <= m /\ n \in Nat
    OBVIOUS
  <2>2. amount[u] = 0
    BY <1>0, <1>4 DEF Lock, Stakers
  <2>3. amount' = [amount EXCEPT ![u] = a] /\ weighted' = [weighted EXCEPT ![u] = w]
    BY <1>4 DEF Lock, Plus, Weight
  <2> HIDE DEF m
  <2>4. w \in Nat /\ n <= w
    BY <2>1, WeightBound, WeightType
  <2>5. a = n
    BY <2>1, <2>2
  <2> HIDE DEF a, w
  <2> QED BY <1>1, <2>1, <2>3, <2>4, <2>5
<1>5. ASSUME NEW u \in Users, NEW n \in Amounts, NEW d \in Durations \cup {0}, AddToPosition(u, n, d)
      PROVE  PrincipalWeighs'
  <2> DEFINE m == Relocked(u, d).multiplier
             a == amount[u] + n
             w == (a * m) \div MULTIPLIER_BASE
  <2>1. n \in Nat /\ a \in Nat /\ lockDuration[u] \in Durations
    BY <1>0, <1>5 DEF AddToPosition, Stakers
  <2>2. m \in Nat /\ MULTIPLIER_BASE <= m
    <3> DEFINE ld == IF d # 0 /\ now + d > lockEnd[u] THEN d ELSE lockDuration[u]
    <3>1. ld \in Durations
      BY <2>1
    <3>2. m \in {MULTIPLIER_BASE, Multiplier[ld]}
      BY DEF Relocked
    <3> HIDE DEF ld, m
    <3> QED BY <3>1, <3>2
  <2>3. amount' = [amount EXCEPT ![u] = a] /\ weighted' = [weighted EXCEPT ![u] = w]
    BY <1>5 DEF AddToPosition, Plus
  <2> HIDE DEF m, a
  <2>4. w \in Nat /\ a <= w
    BY <2>1, <2>2, WeightBound, WeightType
  <2> HIDE DEF w
  <2> QED BY <1>1, <2>1, <2>3, <2>4
<1>6. ASSUME NEW u \in Users, RemovePosition(u) PROVE PrincipalWeighs'
  <2> DEFINE zero == 0
  <2>1. /\ amount' = [amount EXCEPT ![u] = zero] /\ weighted' = [weighted EXCEPT ![u] = zero]
        /\ zero \in Nat /\ zero <= zero
    BY <1>6 DEF RemovePosition
  <2> HIDE DEF zero
  <2> QED BY <1>1, <2>1
<1>7. ASSUME NEW u \in Users, StakerStep(u) \/ ClaimBonusRewards(u) PROVE PrincipalWeighs'
  <2>1. ASSUME Unlock(u) \/ EarlyWithdraw(u) PROVE RemovePosition(u)
    BY <2>1 DEF Unlock, EarlyWithdraw
  <2>2. ASSUME PokeExpiredPosition(u) \/ ClaimBonusRewards(u) PROVE DecayExpiredWeight(u)
    BY <2>2 DEF PokeExpiredPosition, ClaimBonusRewards
  <2>3. ASSUME ClaimRewards(u) PROVE UNCHANGED <<amount, weighted>>
    BY <2>3 DEF ClaimRewards, position
  <2> QED BY <1>2, <1>3, <1>4, <1>5, <1>6, <1>7, <2>1, <2>2, <2>3 DEF StakerStep
<1>8. ASSUME GovernanceStep \/ Tick \/ UNCHANGED stakingVars PROVE UNCHANGED <<amount, weighted>>
  <2>1. UNCHANGED position
    BY <1>8 DEF GovernanceStep, SendSRX, NotifyRewardAmount, SendBonus, NotifyBonusRewardAmount,
                SetRewardRate, SetBonusRewardRate, SetBonusRewardToken, RescueStrandedPool,
                RescueStrandedBonusPool, SetMinStakeAmount, SetMinTotalStakeForEmission, SetPaused, ToggleTransfers,
                Tick, stakingVars
  <2> QED BY <2>1 DEF position
<1> QED BY <1>2, <1>7, <1>8 DEF Next

\* Bringing a stream up to date for one user, and paying him or not: his weight
\* may change, others' may not.
LEMMA FundedBanked ==
  ASSUME StakingInv, StakingInv', now > 0, NEW s, FundedStream(s, weighted, now), NEW t, NEW u \in Users,
         \A v \in Users \ {u} : weighted'[v] = weighted[v],
         t = UpdatedFor(s, u) \/ t = SettleRewards(UpdatedFor(s, u), u)
  PROVE  /\ FundedStream(t, weighted', now) /\ t.finish = s.finish
         /\ IdleDust(s, weighted)
              /\ ((weighted'[u] = 0 => weighted[u] = 0) \/ t = SettleRewards(UpdatedFor(s, u), u))
            => IdleDust(t, weighted')
<1> DEFINE w == weighted
           w2 == weighted'
           weight == totalWeightedStake
           minimum == minTotalStakeForEmission
           r == UpdateReward(s, u, w[u], weight, minimum, now)
<1>1. /\ IsFiniteSet(Users) /\ w \in [Users -> Nat] /\ w2 \in [Users -> Nat]
      /\ now \in Nat /\ weight = Total(w) /\ minimum \in Nat
      /\ FundedStream(s, w, now) /\ \A v \in Users \ {u} : w2[v] = w[v]
  BY FundedOperands DEF StakingInv, PositionInv
<1>2. UpdatedFor(s, u) = r
  BY DEF UpdatedFor
<1>3. BanksOrPays(s, t, u, w[u], weight, minimum, now)
  BY <1>2 DEF BanksOrPays
<1> HIDE DEF w, w2, weight, minimum
<1>4. FundedStream(t, w2, now) /\ t.finish = s.finish
  <2> HIDE DEF r
  <2>1. FundedStream(t, w2, now)
    BY <1>1, <1>3, BankOrSettleFunded
  <2>2. t.finish = s.finish
    BY <1>1, <1>3, BankOrSettleSchedule
  <2> QED BY <2>1, <2>2
<1>5. ASSUME IdleDust(s, w), (w2[u] = 0 => w[u] = 0) \/ t = SettleRewards(r, u)
      PROVE  IdleDust(t, w2)
  BY <1>1, <1>3, <1>5, BankOrSettleIdle
<1> QED BY <1>2, <1>4, <1>5 DEF w, w2

\* A stream left alone, while the clock may go on and weights may shrink, but
\* nobody's to nothing.
LEMMA FundedShrunk ==
  ASSUME StakingInv, StakingInv', NEW s, FundedStream(s, weighted, now), now' \in {now, now + 1},
         \A v \in Users : weighted'[v] <= weighted[v] /\ (weighted'[v] = 0 => weighted[v] = 0)
  PROVE  /\ FundedStream(s, weighted', now')
         /\ IdleDust(s, weighted) => IdleDust(s, weighted')
<1> DEFINE w == weighted
           w2 == weighted'
           later == now'
<1>1. /\ IsFiniteSet(Users) /\ w \in [Users -> Nat] /\ w2 \in [Users -> Nat]
      /\ now \in Nat /\ later \in Nat /\ now <= later
      /\ FundedStream(s, w, now) /\ \A v \in Users : w2[v] <= w[v] /\ (w2[v] = 0 => w[v] = 0)
  BY FundedOperands DEF StakingInv, PositionInv
<1> HIDE DEF w, w2, later
<1>2. s \in NatStreams /\ \A v \in Users : s.paid[v] <= s.stored
  BY <1>1 DEF FundedStream, SoundStream
<1>3. ASSUME NEW v \in Users PROVE RawShares(s, w2)[v] <= RawShares(s, w)[v]
  <2> DEFINE a == PRECISION * s.pending[v]
             b == s.stored - s.paid[v]
             c == w[v]
             d == w2[v]
  <2>1. /\ a \in Nat /\ b \in Nat /\ c \in Nat /\ d \in Nat /\ d <= c
        /\ RawShares(s, w)[v] = a + c * b /\ RawShares(s, w2)[v] = a + d * b
    <3>1. s.pending[v] \in Nat /\ PRECISION \in Nat
      BY <1>2, NatStreamFields, PrecisionAssumption
    <3>2. a \in Nat
      BY <3>1, ProductType
    <3>3. b \in Nat
      BY <1>2, NatStreamFields
    <3> QED BY <1>1, <3>2, <3>3 DEF RawShares
  <2> HIDE DEF a, b, c, d
  <2>2. d * b <= c * b /\ d * b \in Int /\ c * b \in Int
    <3>1. b * d <= b * c /\ b * d \in Int /\ b * c \in Int
      BY <2>1, ScaleMonotone
    <3>2. b * d = d * b /\ b * c = c * b
      BY <2>1
    <3> QED BY <3>1, <3>2
  <2> QED BY <2>1, <2>2
<1>4. FundedStream(s, w2, later)
  BY <1>1, <1>2, <1>3, FewerSharesFunded
<1>5. ASSUME IdleDust(s, w) PROVE IdleDust(s, w2)
  <2>1. s.last <= s.last
    BY <1>2, NatStreamFields
  <2> QED BY <1>1, <1>2, <1>5, <2>1, SamePendingIdle
<1> QED BY <1>4, <1>5 DEF w, w2, later

\* A stream brought up to date for everybody, under the same schedule.
LEMMA FundedUpdated ==
  ASSUME StakingInv, now > 0, NEW s, FundedStream(s, weighted, now)
  PROVE  /\ FundedStream(Updated(s), weighted, now) /\ Updated(s).finish = s.finish
         /\ IdleDust(s, weighted) => IdleDust(Updated(s), weighted)
<1> DEFINE w == weighted
           weight == totalWeightedStake
           minimum == minTotalStakeForEmission
           t == Updated(s)
<1>1. /\ IsFiniteSet(Users) /\ w \in [Users -> Nat] /\ now \in Nat /\ weight = Total(w)
      /\ weight \in Nat /\ minimum \in Nat /\ FundedStream(s, w, now)
  BY FundedOperands, TotalType
<1>2. t = UpdateAll(s, weight, minimum, now)
  BY DEF Updated
<1> HIDE DEF w, weight, minimum, t
<1>3. FundedStream(t, w, now) /\ t.last >= s.last
  BY <1>1, <1>2, UpdateAllFunded
<1>4. s \in NatStreams /\ t \in NatStreams /\ s.last \in Nat /\ t.last \in Nat
  BY <1>1, <1>3, NatStreamFields DEF FundedStream, SoundStream
<1>5. t.pending = s.pending /\ t.finish = s.finish
  <2>1. Advanced(s, t, weight, minimum, now)
    BY <1>1, <1>2, <1>4, UpdateAllAdvances
  <2> QED BY <2>1 DEF Advanced
<1>6. ASSUME IdleDust(s, w) PROVE IdleDust(t, w)
  <2>1. s.last <= t.last /\ \A u \in Users : w[u] = 0 => w[u] = 0
    BY <1>3, <1>4
  <2> QED BY <1>1, <1>4, <1>5, <1>6, <2>1, SamePendingIdle
<1> QED BY <1>3, <1>5, <1>6 DEF w, t

\* A stream under a new schedule, for more tokens or at another rate.
LEMMA FundedRescheduled ==
  ASSUME StakingInv, now > 0, NEW s, FundedStream(s, weighted, now), NEW n \in Nat, NEW r \in Nat,
         NEW t \in Schedules(Updated(s), s.pool + n, r, now)
  PROVE  /\ FundedStream(t, weighted, now)
         /\ IdleDust(s, weighted) => IdleDust(t, weighted)
<1> DEFINE w == weighted
           weight == totalWeightedStake
           minimum == minTotalStakeForEmission
           t0 == Updated(s)
<1>1. /\ IsFiniteSet(Users) /\ w \in [Users -> Nat] /\ now \in Nat /\ weight = Total(w)
      /\ minimum \in Nat /\ FundedStream(s, w, now)
  BY FundedOperands
<1>2. t0 = UpdateAll(s, weight, minimum, now) /\ t \in Schedules(t0, s.pool + n, r, now)
  BY DEF Updated
<1> HIDE DEF w, weight, minimum, t0
<1>3. FundedStream(t, w, now) /\ t.last >= s.last /\ t.pending = s.pending
  BY <1>1, <1>2, ScheduleFunded
<1>4. s \in NatStreams /\ t \in NatStreams /\ s.last \in Nat /\ t.last \in Nat
  BY <1>1, <1>3, NatStreamFields DEF FundedStream, SoundStream
<1>5. ASSUME IdleDust(s, w) PROVE IdleDust(t, w)
  <2>1. s.last <= t.last /\ \A u \in Users : w[u] = 0 => w[u] = 0
    BY <1>3, <1>4
  <2> QED BY <1>1, <1>3, <1>4, <1>5, <2>1, SamePendingIdle
<1> QED BY <1>3, <1>5 DEF w

\* What a staker's call leaves of both streams.
LEMMA StakerFunded ==
  ASSUME StakingInv, StakingInv', FundedInv, PrincipalWeighs', NEW u \in Users,
         StakerStep(u) \/ ClaimBonusRewards(u)
  PROVE  StreamsFunded'
<1>0. /\ now > 0 /\ FundedStream(reward, weighted, now) /\ FundedStream(bonus, weighted, now)
      /\ IdleDust(reward, weighted) /\ (~bonusTokenSet => bonus.finish = 0)
      /\ weighted \in [Users -> Nat] /\ amount \in [Users -> Nat]
      /\ \A v \in Users : /\ amount[v] \in Nat /\ weighted[v] \in Nat /\ amount'[v] \in Nat /\ weighted'[v] \in Nat
                          /\ amount'[v] <= weighted'[v] /\ (amount[v] = 0 => weighted[v] = 0)
  BY DEF FundedInv, StreamsFunded, StakingInv, PositionInv, PositionsWhole, PrincipalWeighs
<1>1. ASSUME now' = now, UNCHANGED bonusTokenSet,
             \A v \in Users \ {u} : weighted'[v] = weighted[v],
             bonus' = UpdatedFor(bonus, u) \/ bonus' = SettleRewards(UpdatedFor(bonus, u), u),
             reward' = UpdatedFor(reward, u) \/ reward' = SettleRewards(UpdatedFor(reward, u), u),
             (weighted'[u] = 0 => weighted[u] = 0) \/ reward' = SettleRewards(UpdatedFor(reward, u), u)
      PROVE  StreamsFunded'
  <2>1. FundedStream(bonus', weighted', now) /\ bonus'.finish = bonus.finish
    BY <1>0, <1>1, FundedBanked
  <2>2. FundedStream(reward', weighted', now) /\ IdleDust(reward', weighted')
    BY <1>0, <1>1, FundedBanked
  <2> QED BY <1>0, <1>1, <2>1, <2>2 DEF StreamsFunded
<1>2. ASSUME amount'[u] >= amount[u] PROVE weighted'[u] = 0 => weighted[u] = 0
  BY <1>0, <1>2
<1>3. ASSUME DecayExpiredWeight(u)
      PROVE  /\ \A v \in Users \ {u} : weighted'[v] = weighted[v]
             /\ \A v \in Users : weighted'[v] <= weighted[v] /\ (weighted'[v] = 0 => weighted[v] = 0)
  <2>1. UNCHANGED amount /\ weighted' = [weighted EXCEPT ![u] = weighted[u] - Excess(u)]
    BY <1>3 DEF DecayExpiredWeight, Minus
  <2>2. Excess(u) \in Nat
    BY ExcessType DEF StakingInv
  <2>3. \A v \in Users \ {u} : weighted'[v] = weighted[v]
    BY <1>0, <2>1
  <2>4. weighted'[u] <= weighted[u]
    BY <1>0, <2>1, <2>2
  <2>5. weighted'[u] = 0 => weighted[u] = 0
    BY <1>0, <1>2, <2>1
  <2> QED BY <1>0, <2>3, <2>4, <2>5
<1>4. ASSUME NEW n \in Amounts, NEW d \in Durations, Lock(u, n, d)
      PROVE  StreamsFunded'
  <2>1. /\ now' = now /\ UNCHANGED bonusTokenSet
        /\ bonus' = UpdatedFor(bonus, u) /\ reward' = UpdatedFor(reward, u)
        /\ weighted' = [weighted EXCEPT ![u] = Weight(n, d)]
        /\ amount' = [amount EXCEPT ![u] = amount[u] + n] /\ n \in Nat
    BY <1>4 DEF Lock, Plus
  <2>2. /\ \A v \in Users \ {u} : weighted'[v] = weighted[v]
        /\ amount'[u] >= amount[u]
    BY <1>0, <2>1
  <2> QED BY <1>1, <1>2, <2>1, <2>2
<1>5. ASSUME NEW n \in Amounts, NEW d \in Durations \cup {0}, AddToPosition(u, n, d)
      PROVE  StreamsFunded'
  <2>1. /\ now' = now /\ UNCHANGED bonusTokenSet
        /\ bonus' = UpdatedFor(bonus, u) /\ reward' = UpdatedFor(reward, u)
        /\ \E w : weighted' = [weighted EXCEPT ![u] = w]
        /\ amount' = [amount EXCEPT ![u] = amount[u] + n] /\ n \in Nat
    BY <1>5 DEF AddToPosition, Plus
  <2>2. /\ \A v \in Users \ {u} : weighted'[v] = weighted[v]
        /\ amount'[u] >= amount[u]
    BY <1>0, <2>1
  <2> QED BY <1>1, <1>2, <2>1, <2>2
<1>6. ASSUME Unlock(u) \/ EarlyWithdraw(u)
      PROVE  StreamsFunded'
  <2>1. now' = now /\ SettleBoth(u, amount[u]) /\ RemovePosition(u)
    BY <1>6 DEF Unlock, EarlyWithdraw
  <2>2. /\ bonus' = SettleRewards(UpdatedFor(bonus, u), u)
        /\ reward' = SettleRewards(UpdatedFor(reward, u), u)
        /\ UNCHANGED bonusTokenSet
    BY <2>1 DEF SettleBoth
  <2>3. \A v \in Users \ {u} : weighted'[v] = weighted[v]
    BY <1>0, <2>1 DEF RemovePosition
  <2> QED BY <1>1, <2>1, <2>2, <2>3
<1>7. ASSUME ClaimRewards(u)
      PROVE  StreamsFunded'
  <2>1. /\ UNCHANGED <<now, weighted, bonus, bonusTokenSet>>
        /\ reward' = SettleRewards(UpdatedFor(reward, u), u)
    BY <1>7 DEF ClaimRewards, position, bonusSide
  <2>2. FundedStream(reward', weighted', now) /\ IdleDust(reward', weighted')
    BY <1>0, <2>1, FundedBanked
  <2> QED BY <1>0, <2>1, <2>2 DEF StreamsFunded
<1>8. ASSUME ClaimBonusRewards(u)
      PROVE  StreamsFunded'
  <2>1. /\ now' = now /\ UNCHANGED <<bonusTokenSet, reward>> /\ DecayExpiredWeight(u)
        /\ bonus' = SettleRewards(UpdatedFor(bonus, u), u)
    BY <1>8 DEF ClaimBonusRewards, srxSide
  <2>2. FundedStream(bonus', weighted', now) /\ bonus'.finish = bonus.finish
    BY <1>0, <1>3, <2>1, FundedBanked
  <2>3. FundedStream(reward, weighted', now') /\ IdleDust(reward, weighted')
    BY <1>0, <1>3, <2>1, FundedShrunk
  <2> QED BY <1>0, <2>1, <2>2, <2>3 DEF StreamsFunded
<1>9. ASSUME PokeExpiredPosition(u)
      PROVE  StreamsFunded'
  <2>1. /\ now' = now /\ UNCHANGED bonusTokenSet /\ DecayExpiredWeight(u)
        /\ bonus' = UpdatedFor(bonus, u) /\ reward' = UpdatedFor(reward, u)
    BY <1>9 DEF PokeExpiredPosition
  <2> QED BY <1>1, <1>3, <2>1
<1> QED BY <1>4, <1>5, <1>6, <1>7, <1>8, <1>9 DEF StakerStep

\* A rescue takes of a stream what those who have earned do not need.
LEMMA FundedRescued ==
  ASSUME StakingInv, now > 0, NEW s, FundedStream(s, weighted, now), NEW p \in Nat,
         Total(RawShares(s, weighted)) <= PRECISION * p + (PRECISION - 1) * SecondsBefore(s.last),
         NEW t, t = RescuedStream(s, p, now)
  PROVE  /\ FundedStream(t, weighted, now)
         /\ IdleDust(s, weighted) => IdleDust(t, weighted)
<1> DEFINE w == weighted
<1>1. /\ IsFiniteSet(Users) /\ w \in [Users -> Nat] /\ now \in Nat /\ FundedStream(s, w, now)
      /\ Total(RawShares(s, w)) <= PRECISION * p + (PRECISION - 1) * SecondsBefore(s.last)
  BY FundedOperands
<1> HIDE DEF w
<1>2. FundedStream(t, w, now) /\ t.last = s.last /\ t.pending = s.pending
  BY <1>1, RescueFunded
<1>3. s \in NatStreams /\ t \in NatStreams /\ s.last \in Nat
  BY <1>1, <1>2, NatStreamFields DEF FundedStream, SoundStream
<1>4. ASSUME IdleDust(s, w) PROVE IdleDust(t, w)
  <2>1. s.last <= t.last /\ \A u \in Users : w[u] = 0 => w[u] = 0
    BY <1>2, <1>3
  <2> QED BY <1>1, <1>2, <1>3, <1>4, <2>1, SamePendingIdle
<1> QED BY <1>2, <1>4 DEF w

\* What a call of governance leaves of both streams.
LEMMA GovernanceFunded ==
  ASSUME StakingInv, StreamsFunded, GovernanceStep
  PROVE  StreamsFunded'
<1>0. /\ now > 0 /\ now \in Nat /\ IsFiniteSet(Users) /\ weighted \in [Users -> Nat]
      /\ FundedStream(reward, weighted, now) /\ FundedStream(bonus, weighted, now)
      /\ IdleDust(reward, weighted) /\ (~bonusTokenSet => bonus.finish = 0)
      /\ totalWeightedStake = Total(weighted)
  BY FundedOperands DEF StreamsFunded
<1>1. ASSUME UNCHANGED <<now, weighted, bonus, bonusTokenSet>>,
             FundedStream(reward', weighted, now), IdleDust(reward', weighted)
      PROVE  StreamsFunded'
  BY <1>0, <1>1 DEF StreamsFunded
<1>2. ASSUME UNCHANGED <<now, weighted, reward>>, bonusTokenSet', FundedStream(bonus', weighted, now)
      PROVE  StreamsFunded'
  BY <1>0, <1>2 DEF StreamsFunded
<1>3. ASSUME \/ \E n \in Fundings : SendSRX(n)
             \/ \E n \in BonusFundings : SendBonus(n)
             \/ \E n \in MinStakes : SetMinStakeAmount(n)
             \/ \E p \in BOOLEAN : SetPaused(p)
             \/ \E t \in Halting : ToggleTransfers(t)
      PROVE  StreamsFunded'
  <2>1. UNCHANGED <<now, weighted, bonus, bonusTokenSet, reward>>
    BY <1>3 DEF SendSRX, SendBonus, SetMinStakeAmount, SetPaused, ToggleTransfers, position, srxSide, bonusSide
  <2> QED BY <1>0, <1>1, <2>1
<1>4. ASSUME NEW n \in Fundings, NotifyRewardAmount(n) PROVE StreamsFunded'
  <2>1. /\ UNCHANGED <<now, weighted, bonus, bonusTokenSet>> /\ n \in Nat /\ 0 \in Nat
        /\ reward' \in Schedules(Updated(reward), reward.pool + n, 0, now)
    BY <1>4 DEF Schedules, NotifyRewardAmount, position, bonusSide
  <2>2. FundedStream(reward', weighted, now) /\ IdleDust(reward', weighted)
    BY <1>0, <2>1, FundedRescheduled
  <2> QED BY <1>1, <2>1, <2>2
<1>5. ASSUME NEW r \in Rates, SetRewardRate(r) PROVE StreamsFunded'
  <2>1. /\ UNCHANGED <<now, weighted, bonus, bonusTokenSet>> /\ r \in Nat /\ 0 \in Nat
        /\ reward' \in Schedules(Updated(reward), reward.pool + 0, r, now)
    BY <1>5 DEF Schedules, SetRewardRate, position, bonusSide
  <2>2. FundedStream(reward', weighted, now) /\ IdleDust(reward', weighted)
    BY <1>0, <2>1, FundedRescheduled
  <2> QED BY <1>1, <2>1, <2>2
<1>6. ASSUME NEW n \in BonusFundings, NotifyBonusRewardAmount(n) PROVE StreamsFunded'
  <2>1. /\ UNCHANGED <<now, weighted, reward>> /\ bonusTokenSet' /\ n \in Nat /\ 0 \in Nat
        /\ bonus' \in Schedules(Updated(bonus), bonus.pool + n, 0, now)
    BY <1>6 DEF Schedules, NotifyBonusRewardAmount, position, srxSide
  <2>2. FundedStream(bonus', weighted, now)
    BY <1>0, <2>1, FundedRescheduled
  <2> QED BY <1>2, <2>1, <2>2
<1>7. ASSUME NEW r \in BonusRates, SetBonusRewardRate(r) PROVE StreamsFunded'
  <2>1. /\ UNCHANGED <<now, weighted, reward>> /\ bonusTokenSet' /\ r \in Nat /\ 0 \in Nat
        /\ bonus' \in Schedules(Updated(bonus), bonus.pool + 0, r, now)
    BY <1>7 DEF Schedules, SetBonusRewardRate, position, srxSide
  <2>2. FundedStream(bonus', weighted, now)
    BY <1>0, <2>1, FundedRescheduled
  <2> QED BY <1>2, <2>1, <2>2
<1>8. ASSUME SetBonusRewardToken PROVE StreamsFunded'
  <2>1. /\ UNCHANGED <<now, weighted, reward>> /\ ~bonusTokenSet /\ bonusTokenSet'
        /\ bonus' = [bonus EXCEPT !.last = now]
    BY <1>8 DEF SetBonusRewardToken, position, srxSide
  <2>2. FundedStream(bonus', weighted, now)
    BY <1>0, <2>1, RestartFunded
  <2> QED BY <1>2, <2>1, <2>2
<1>9. ASSUME RescueStrandedPool PROVE StreamsFunded'
  <2> DEFINE zero == 0
  <2>1. /\ UNCHANGED <<now, weighted, bonus, bonusTokenSet>> /\ totalWeightedStake = 0
        /\ reward' = RescuedStream(reward, zero, now)
    BY <1>9 DEF RescuedStream, RescueStrandedPool, position, bonusSide
  <2>2. Total(RawShares(reward, weighted)) <= (PRECISION - 1) * SecondsBefore(reward.last)
    <3>1. reward \in NatStreams
      BY <1>0 DEF FundedStream, SoundStream
    <3> QED BY <1>0, <2>1, <3>1, IdleWithoutWeight
  <2>3. Total(RawShares(reward, weighted))
          <= PRECISION * zero + (PRECISION - 1) * SecondsBefore(reward.last)
    <3> DEFINE d == (PRECISION - 1) * SecondsBefore(reward.last)
    <3>1. PRECISION * zero + d = d
      <4>1. d \in Int
        <5>1. reward.last \in Nat
          BY <1>0, NatStreamFields DEF FundedStream, SoundStream
        <5> QED BY <5>1, PrecisionAssumption DEF SecondsBefore
      <4>2. PRECISION * zero = 0
        BY PrecisionAssumption
      <4> HIDE DEF d, zero
      <4> QED BY <4>1, <4>2
    <3> QED BY <2>2, <3>1
  <2>4. zero \in Nat
    OBVIOUS
  <2> HIDE DEF zero
  <2>5. FundedStream(reward', weighted, now) /\ IdleDust(reward', weighted)
    BY <1>0, <2>1, <2>3, <2>4, FundedRescued
  <2> QED BY <1>1, <2>1, <2>5
<1>10. ASSUME RescueStrandedBonusPool PROVE StreamsFunded'
  <2> DEFINE p == bonus.owed
  <2>1. /\ UNCHANGED <<now, weighted, reward>> /\ bonusTokenSet'
        /\ bonus' = RescuedStream(bonus, p, now)
    BY <1>10 DEF RescuedStream, RescueStrandedBonusPool, position, srxSide
  <2>2. Total(RawShares(bonus, weighted)) <= PRECISION * p + (PRECISION - 1) * SecondsBefore(bonus.last)
    BY <1>0 DEF FundedStream, OwedCovers
  <2>3. p \in Nat
    BY <1>0, NatStreamFields DEF FundedStream, SoundStream
  <2> HIDE DEF p
  <2>4. FundedStream(bonus', weighted, now)
    BY <1>0, <2>1, <2>2, <2>3, FundedRescued
  <2> QED BY <1>2, <2>1, <2>4
<1>11. ASSUME NEW n \in MinTotals, SetMinTotalStakeForEmission(n) PROVE StreamsFunded'
  <2>1. /\ UNCHANGED <<now, weighted, bonusTokenSet>>
        /\ reward' = Updated(reward) /\ bonus' = Updated(bonus)
    BY <1>11 DEF SetMinTotalStakeForEmission, position
  <2>2. FundedStream(reward', weighted, now) /\ IdleDust(reward', weighted)
    BY <1>0, <2>1, FundedUpdated
  <2>3. FundedStream(bonus', weighted, now) /\ bonus'.finish = bonus.finish
    BY <1>0, <2>1, FundedUpdated
  <2> QED BY <1>0, <2>1, <2>2, <2>3 DEF StreamsFunded
<1> QED BY <1>3, <1>4, <1>5, <1>6, <1>7, <1>8, <1>9, <1>10, <1>11 DEF GovernanceStep

\* Every step leaves both streams funded.
LEMMA FundedStep ==
  ASSUME StakingInv, FundedInv, [Next]_stakingVars
  PROVE  FundedInv'
<1>0. StakingInv' /\ PrincipalWeighs' /\ StreamsFunded
  BY StakingStep, PrincipalWeighsStep DEF FundedInv
<1>1. ASSUME Tick \/ UNCHANGED stakingVars PROVE StreamsFunded'
  <2>1. UNCHANGED <<weighted, reward, bonus, bonusTokenSet>> /\ now' \in {now, now + 1}
    BY <1>1 DEF Tick, stakingVars, position, srxSide, bonusSide
  <2>2. \A v \in Users : weighted'[v] <= weighted[v] /\ (weighted'[v] = 0 => weighted[v] = 0)
    BY <2>1, FundedOperands
  <2>3. /\ FundedStream(reward, weighted, now) /\ FundedStream(bonus, weighted, now)
        /\ IdleDust(reward, weighted) /\ now > 0 /\ now \in Nat
    BY <1>0, FundedOperands DEF StreamsFunded
  <2>4. FundedStream(reward, weighted', now') /\ IdleDust(reward, weighted')
    BY <1>0, <2>1, <2>2, <2>3, FundedShrunk
  <2>5. FundedStream(bonus, weighted', now')
    BY <1>0, <2>1, <2>2, <2>3, FundedShrunk
  <2>6. now' > 0
    BY <2>1, <2>3
  <2> QED BY <1>0, <2>1, <2>4, <2>5, <2>6 DEF StreamsFunded
<1>2. ASSUME NEW u \in Users, StakerStep(u) \/ ClaimBonusRewards(u) PROVE StreamsFunded'
  BY <1>0, <1>2, StakerFunded
<1>3. ASSUME GovernanceStep PROVE StreamsFunded'
  BY <1>0, <1>3, GovernanceFunded
<1> QED BY <1>0, <1>1, <1>2, <1>3 DEF Next, FundedInv

\* Nothing is staked, earned or held when the contract is deployed.
LEMMA FundedInit ==
  ASSUME Init
  PROVE  FundedInv
<1> DEFINE one == 1
           zero == 0
<1>1. /\ one \in {0, 1} /\ zero \in {0, 1} /\ one \in Nat /\ zero <= one /\ one <= one /\ one > 0
      /\ now = one /\ reward = NewStream(one) /\ bonus = NewStream(zero)
      /\ amount = [u \in Users |-> 0] /\ weighted = [u \in Users |-> 0] /\ IsFiniteSet(Users)
  BY DEF Init
<1> HIDE DEF one, zero
<1>2. weighted \in [Users -> Nat] /\ PrincipalWeighs
  BY <1>1 DEF PrincipalWeighs
<1>3. FundedStream(reward, weighted, one) /\ reward.pool = 0
  BY <1>1, <1>2, NewStreamFunded
<1>4. FundedStream(bonus, weighted, one) /\ bonus.finish = 0
  BY <1>1, <1>2, NewStreamFunded
<1>5. IdleDust(reward, weighted)
  BY <1>1, <1>2, <1>3, EmptyPoolIdle
<1> QED BY <1>1, <1>2, <1>3, <1>4, <1>5 DEF FundedInv, StreamsFunded

\* What stakers have earned of a stream, up to this second, is in its pool but
\* for the dust of rounding: however positions open, grow, decay and close, and
\* whatever is registered, rescheduled and rescued.
THEOREM EmissionIsFunded == Spec => []EmissionFunded
<1> DEFINE I == StakingInv /\ FundedInv
<1>1. Init => I
  BY StakingInit, FundedInit
<1>2. I /\ [Next]_stakingVars => I'
  BY StakingStep, FundedStep
<1>3. I => EmissionFunded
  <2> SUFFICES ASSUME StakingInv, StreamsFunded PROVE EmissionFunded
    BY DEF FundedInv
  <2> DEFINE weight == totalWeightedStake
             minimum == minTotalStakeForEmission
             w == weighted
  <2>1. /\ IsFiniteSet(Users) /\ w \in [Users -> Nat] /\ now \in Nat /\ now > 0
        /\ weight = Total(w) /\ minimum \in Nat
        /\ FundedStream(reward, w, now) /\ FundedStream(bonus, w, now)
    BY FundedOperands DEF StreamsFunded
  <2> HIDE DEF weight, minimum, w
  <2>2. Total([u \in Users |-> Earned(reward, u, w[u], weight, minimum, now)]) <= reward.pool + Dust(now)
    BY <2>1, FundedEarned
  <2>3. Total([u \in Users |-> Earned(bonus, u, w[u], weight, minimum, now)]) <= bonus.pool + Dust(now)
    BY <2>1, FundedEarned
  <2> QED BY <2>2, <2>3 DEF EmissionFunded, EarnedOf, weight, minimum, w
<1> QED BY <1>1, <1>2, <1>3, PTL DEF Spec

-----------------------------------------------------------------------------
(***************************************************************************)
(* Leaving.  The provers do not reach ENABLED, so that what ExitAvailable   *)
(* asks is split in two: an invariant, that while the tokens move every     *)
(* check and every transfer of earlyWithdraw goes through, and a lemma,     *)
(* that nothing else can stop the call: with those guards the values it     *)
(* assigns make a step of it.                                               *)
(***************************************************************************)
\* The tokens move, and what earlyWithdraw of u subtracts and transfers is there.
ExitOpen(u) ==
    /\ ExitMoves(u)
    /\ amount[u] <= totalLocked /\ weighted[u] <= totalWeightedStake
    /\ amount[u] + Settlement(UpdatedFor(reward, u), u) <= srxBalance
    /\ Settlement(UpdatedFor(bonus, u), u) <= bonusBalance

\* Every staker whose tokens move finds the exit open.
ExitsOpen == \A u \in Stakers : ExitMoves(u) => ExitOpen(u)

\* The values that earlyWithdraw of u leaves.
ExitValues(u) ==
    /\ amount' = [amount EXCEPT ![u] = 0] /\ weighted' = [weighted EXCEPT ![u] = 0]
    /\ lockEnd' = [lockEnd EXCEPT ![u] = 0] /\ lockDuration' = [lockDuration EXCEPT ![u] = 0]
    /\ totalLocked' = totalLocked - amount[u]
    /\ totalWeightedStake' = totalWeightedStake - weighted[u]
    /\ reward' = SettleRewards(UpdatedFor(reward, u), u)
    /\ bonus' = SettleRewards(UpdatedFor(bonus, u), u)
    /\ srxBalance' = srxBalance - amount[u] - Settlement(UpdatedFor(reward, u), u)
    /\ bonusBalance' = bonusBalance - Settlement(UpdatedFor(bonus, u), u)
    /\ now' = now /\ minStakeAmount' = minStakeAmount
    /\ minTotalStakeForEmission' = minTotalStakeForEmission /\ paused' = paused /\ halted' = halted
    /\ srxFunded' = srxFunded /\ bonusFunded' = bonusFunded /\ bonusTokenSet' = bonusTokenSet

\* Nothing but ExitOpen guards a staker's exit: one value for each variable of
\* the module makes a step of earlyWithdraw, the contract paused or not.
LEMMA OpenExitIsTaken ==
  ASSUME NEW u \in Stakers, ExitOpen(u), ExitValues(u)
  PROVE  EarlyWithdraw(u)
<1>1. SettleBoth(u, amount[u])
  BY DEF SettleBoth, ExitOpen, ExitMoves, ExitValues
<1>2. RemovePosition(u)
  BY DEF RemovePosition, ExitOpen, ExitValues
<1>3. UNCHANGED <<now, settings>>
  BY DEF settings, ExitValues
<1> QED BY <1>1, <1>2, <1>3 DEF EarlyWithdraw

\* Each entry of a ledger is bounded by its total, and a settlement by the pool.
LEMMA ExitsOpenInvariant ==
  ASSUME StakingInv
  PROVE  ExitsOpen
<1> SUFFICES ASSUME NEW u \in Users, ExitMoves(u) PROVE ExitOpen(u)
  BY DEF ExitsOpen, Stakers
<1> DEFINE r == UpdatedFor(reward, u)
           b == UpdatedFor(bonus, u)
<1>1. /\ amount \in [Users -> Nat] /\ weighted \in [Users -> Nat]
      /\ totalLocked = Total(amount) /\ totalWeightedStake = Total(weighted)
      /\ reward \in Streams /\ bonus \in Streams
      /\ totalLocked + reward.pool <= srxBalance /\ bonus.pool <= bonusBalance
      /\ totalLocked \in Int /\ srxBalance \in Int /\ bonusBalance \in Int
  BY DEF StakingInv, PositionInv, MoneyInv
<1>2. amount[u] <= totalLocked /\ weighted[u] <= totalWeightedStake
  BY <1>1, TotalBound
<1>3. r \in Streams /\ r.pool = reward.pool /\ b \in Streams /\ b.pool = bonus.pool
  BY <1>1, StreamUpdated
<1>4. /\ Settlement(r, u) \in Int /\ Settlement(r, u) <= reward.pool
      /\ Settlement(b, u) \in Int /\ Settlement(b, u) <= bonus.pool
  <2> HIDE DEF r, b
  <2> QED BY <1>3, SettleTakesSettlement
<1>5. reward.pool \in Int /\ bonus.pool \in Int /\ amount[u] \in Int
  BY <1>1, StreamFields
<1>6. amount[u] + Settlement(r, u) <= srxBalance /\ Settlement(b, u) <= bonusBalance
  <2> DEFINE sr == Settlement(r, u)
             sb == Settlement(b, u)
  <2>1. sr \in Int /\ sr <= reward.pool /\ sb \in Int /\ sb <= bonus.pool
    BY <1>4
  <2> HIDE DEF sr, sb
  <2>2. amount[u] + sr <= srxBalance /\ sb <= bonusBalance
    BY <1>1, <1>2, <1>5, <2>1
  <2> QED BY <2>2 DEF sr, sb
<1> QED BY <1>2, <1>6 DEF ExitOpen

\* A staker can leave while SRXToken, and the bonus token if it owes something,
\* let transfers through (A2-H-02): in every reachable state the subtractions
\* and the transfers of earlyWithdraw then go through, and nothing else guards
\* the call (OpenExitIsTaken).
THEOREM ExitNeverReverts == Spec => []ExitsOpen
<1>1. Init => StakingInv
  BY StakingInit
<1>2. StakingInv /\ [Next]_stakingVars => StakingInv'
  BY StakingStep
<1>3. StakingInv => ExitsOpen
  BY ExitsOpenInvariant
<1> QED BY <1>1, <1>2, <1>3, PTL DEF Spec
=============================================================================

------------------------------- MODULE Staking -------------------------------
(***************************************************************************)
(* SRXStaking: positions locked for a duration that multiplies their weight *)
(* share two reward streams by weight, SRX and a bonus token.  Nothing runs *)
(* when a lock ends: a position keeps its multiplied weight until a call    *)
(* decays it.  Checked arithmetic and token transfers that revert are       *)
(* guards.  Fee tiers (views of a position) are not part of the module.     *)
(***************************************************************************)
EXTENDS RewardStream, Totals

CONSTANTS
    Durations,          \* lock durations
    Multiplier,         \* Multiplier[d]: weight per principal, in MULTIPLIER_BASE
    MULTIPLIER_BASE,
    Amounts,            \* amounts that users stake
    Fundings, BonusFundings,        \* amounts sent to the contract and registered as rewards
    Rates, BonusRates,              \* emission rates governance chooses from
    MinStakes, MinTotals,           \* minimums governance chooses from
    Pausing,            \* whether the pauser acts
    Halting,            \* tokens, of SRX and the bonus token, that may refuse transfers
    BothStreams,        \* bound: whether a behaviour funds both streams or one of them
    MaxStake,           \* bound on a position
    MaxFunded,          \* bound on the tokens of each kind sent for rewards
    MaxTime             \* bound on the clock

ASSUME StakingAssumption ==
    /\ IsFiniteSet(Users)
    /\ Durations \subseteq Nat \ {0}
    /\ MULTIPLIER_BASE \in Nat \ {0}
    /\ Multiplier \in [Durations -> Nat] /\ \A d \in Durations : Multiplier[d] >= MULTIPLIER_BASE
    /\ Amounts \subseteq Nat
    /\ Fundings \subseteq Nat /\ BonusFundings \subseteq Nat
    /\ Rates \subseteq Nat /\ BonusRates \subseteq Nat
    /\ MinStakes \subseteq Nat /\ MinTotals \subseteq Nat
    /\ Pausing \in BOOLEAN /\ BothStreams \in BOOLEAN
    /\ Halting \subseteq {"SRX", "bonus"}
    /\ MaxStake \in Nat /\ MaxFunded \in Nat /\ MaxTime \in Nat

VARIABLES
    now,                \* block.timestamp
    amount, weighted,   \* amount[u], weighted[u]: principal and weight of u's position
    lockEnd, lockDuration,
    totalLocked, totalWeightedStake,
    reward, bonus,      \* the SRX stream and the bonus stream
    bonusTokenSet,
    minStakeAmount, minTotalStakeForEmission,
    paused,
    halted,             \* tokens that refuse every transfer now (SRXToken paused)
    srxBalance, bonusBalance,       \* token balances of the contract
    srxFunded, bonusFunded          \* what was sent to it for rewards (bounded)

position  == <<amount, weighted, lockEnd, lockDuration, totalLocked, totalWeightedStake>>
settings  == <<minStakeAmount, minTotalStakeForEmission, paused, halted>>
srxSide   == <<reward, srxBalance, srxFunded>>
bonusSide == <<bonus, bonusBalance, bonusFunded, bonusTokenSet>>
stakingVars == <<now, position, settings, srxSide, bonusSide>>

Init ==
    /\ now = 1
    /\ amount = [u \in Users |-> 0] /\ weighted = [u \in Users |-> 0]
    /\ lockEnd = [u \in Users |-> 0] /\ lockDuration = [u \in Users |-> 0]
    /\ totalLocked = 0 /\ totalWeightedStake = 0
    /\ reward = NewStream(1) /\ bonus = NewStream(0)
    /\ bonusTokenSet = FALSE
    /\ minStakeAmount \in MinStakes
    /\ minTotalStakeForEmission = 0
    /\ paused = FALSE /\ halted = {}
    /\ srxBalance = 0 /\ bonusBalance = 0
    /\ srxFunded = 0 /\ bonusFunded = 0

Stakers == {u \in Users : amount[u] > 0}
Expired(u) == now >= lockEnd[u]
Weight(n, d) == (n * Multiplier[d]) \div MULTIPLIER_BASE

\* Token t lets transfers through.
Moves(t) == t \notin halted
-----------------------------------------------------------------------------
(***************************************************************************)
(* Incentive accounting.                                                   *)
(***************************************************************************)
\* What u has earned of a stream and not been paid.
EarnedOf(s, u) == Earned(s, u, weighted[u], totalWeightedStake, minTotalStakeForEmission, now)

\* A stream brought up to date, for everybody and for u.
Updated(s) == UpdateAll(s, totalWeightedStake, minTotalStakeForEmission, now)
UpdatedFor(s, u) == UpdateReward(s, u, weighted[u], totalWeightedStake, minTotalStakeForEmission, now)

\* The weight that _updateBonusReward takes from an expired position of u.
Excess(u) == IF amount[u] > 0 /\ Expired(u) /\ weighted[u] > amount[u]
             THEN weighted[u] - amount[u] ELSE 0

DecayExpiredWeight(u) ==
    /\ Excess(u) <= totalWeightedStake
    /\ weighted' = Minus(weighted, u, Excess(u))
    /\ totalWeightedStake' = totalWeightedStake - Excess(u)
    /\ UNCHANGED <<amount, lockEnd, lockDuration, totalLocked>>

\* Both streams settled for u, with the transfers that pay them.
SettleBoth(u, principal) ==
    LET r == UpdatedFor(reward, u)
        b == UpdatedFor(bonus, u)
    IN  /\ Moves("SRX") /\ principal + Settlement(r, u) <= srxBalance
        /\ b.pending[u] > 0 => Moves("bonus")
        /\ Settlement(b, u) <= bonusBalance
        /\ reward' = SettleRewards(r, u)
        /\ bonus' = SettleRewards(b, u)
        /\ srxBalance' = srxBalance - principal - Settlement(r, u)
        /\ bonusBalance' = bonusBalance - Settlement(b, u)
        /\ UNCHANGED <<srxFunded, bonusFunded, bonusTokenSet>>
-----------------------------------------------------------------------------
(***************************************************************************)
(* Stakers.                                                                *)
(***************************************************************************)
Lock(u, n, d) ==
    /\ ~paused /\ Moves("SRX")
    /\ n > 0 /\ n >= minStakeAmount
    /\ u \notin Stakers
    /\ reward' = UpdatedFor(reward, u) /\ bonus' = UpdatedFor(bonus, u)
    /\ amount' = Plus(amount, u, n) /\ weighted' = [weighted EXCEPT ![u] = Weight(n, d)]
    /\ lockEnd' = [lockEnd EXCEPT ![u] = now + d]
    /\ lockDuration' = [lockDuration EXCEPT ![u] = d]
    /\ totalLocked' = totalLocked + n
    /\ totalWeightedStake' = totalWeightedStake + Weight(n, d)
    /\ srxBalance' = srxBalance + n
    /\ UNCHANGED <<now, settings, srxFunded, bonusBalance, bonusFunded, bonusTokenSet>>

\* Mutant of Relocked: the multiplier of an expired lock comes back (F6).
RelockedForever(u, d) ==
    LET extended == d # 0 /\ now + d > lockEnd[u]
    IN  [end        |-> IF extended THEN now + d ELSE lockEnd[u],
         duration   |-> IF extended THEN d ELSE lockDuration[u],
         multiplier |-> Multiplier[IF extended THEN d ELSE lockDuration[u]]]

\* The lock of u after adding with duration d (0: as it was).
Relocked(u, d) ==
    LET extended == d # 0 /\ now + d > lockEnd[u]
        end      == IF extended THEN now + d ELSE lockEnd[u]
        duration == IF extended THEN d ELSE lockDuration[u]
    IN  [end |-> end, duration |-> duration,
         multiplier |-> IF now >= end THEN MULTIPLIER_BASE ELSE Multiplier[duration]]

\* A running lock is not extended with a smaller multiplier.
MayExtend(u, d) == d # 0 /\ ~Expired(u) => Multiplier[d] >= Multiplier[lockDuration[u]]

AddToPosition(u, n, d) ==
    LET lock   == Relocked(u, d)
        weight == ((amount[u] + n) * lock.multiplier) \div MULTIPLIER_BASE
    IN  /\ ~paused /\ Moves("SRX")
        /\ u \in Stakers /\ n > 0
        /\ MayExtend(u, d)
        /\ reward' = UpdatedFor(reward, u) /\ bonus' = UpdatedFor(bonus, u)
        /\ weighted[u] <= totalWeightedStake
        /\ amount' = Plus(amount, u, n) /\ weighted' = [weighted EXCEPT ![u] = weight]
        /\ lockEnd' = [lockEnd EXCEPT ![u] = lock.end]
        /\ lockDuration' = [lockDuration EXCEPT ![u] = lock.duration]
        /\ totalLocked' = totalLocked + n
        /\ totalWeightedStake' = totalWeightedStake - weighted[u] + weight
        /\ srxBalance' = srxBalance + n
        /\ UNCHANGED <<now, settings, srxFunded, bonusBalance, bonusFunded, bonusTokenSet>>

\* Mutant of RemovePosition: the weight of a position read before its decay is
\* subtracted from the decayed total.
RemoveStalePosition(u) ==
    /\ amount[u] <= totalLocked /\ weighted[u] + Excess(u) <= totalWeightedStake
    /\ amount' = [amount EXCEPT ![u] = 0] /\ weighted' = [weighted EXCEPT ![u] = 0]
    /\ lockEnd' = [lockEnd EXCEPT ![u] = 0] /\ lockDuration' = [lockDuration EXCEPT ![u] = 0]
    /\ totalLocked' = totalLocked - amount[u]
    /\ totalWeightedStake' = totalWeightedStake - weighted[u] - Excess(u)

\* The position goes with the weight it has after its decay, so that the total
\* loses the weight it had before.
RemovePosition(u) ==
    /\ amount[u] <= totalLocked /\ weighted[u] <= totalWeightedStake
    /\ amount' = [amount EXCEPT ![u] = 0] /\ weighted' = [weighted EXCEPT ![u] = 0]
    /\ lockEnd' = [lockEnd EXCEPT ![u] = 0] /\ lockDuration' = [lockDuration EXCEPT ![u] = 0]
    /\ totalLocked' = totalLocked - amount[u]
    /\ totalWeightedStake' = totalWeightedStake - weighted[u]

Unlock(u) ==
    /\ ~paused
    /\ u \in Stakers /\ Expired(u)
    /\ SettleBoth(u, amount[u])
    /\ RemovePosition(u)
    /\ UNCHANGED <<now, settings>>

\* Open while the contract is paused, shut while SRXToken is (A2-H-02).  The
\* principal leaves whole: what an unexpired lock pays as a penalty is sent to
\* the dead address.
EarlyWithdraw(u) ==
    /\ u \in Stakers
    /\ SettleBoth(u, amount[u])
    /\ RemovePosition(u)
    /\ UNCHANGED <<now, settings>>

ClaimRewards(u) ==
    LET r == UpdatedFor(reward, u)
    IN  /\ ~paused /\ Moves("SRX")
        /\ u \in Stakers /\ r.pending[u] > 0
        /\ Settlement(r, u) <= srxBalance
        /\ reward' = SettleRewards(r, u)
        /\ srxBalance' = srxBalance - Settlement(r, u)
        /\ UNCHANGED <<now, position, settings, srxFunded, bonusSide>>

\* The SRX stream is not brought up to date, though the weight may decay.
ClaimBonusRewards(u) ==
    LET b == UpdatedFor(bonus, u)
    IN  /\ ~paused /\ bonusTokenSet /\ Moves("bonus")
        /\ u \in Stakers /\ b.pending[u] > 0
        /\ Settlement(b, u) <= bonusBalance
        /\ bonus' = SettleRewards(b, u)
        /\ bonusBalance' = bonusBalance - Settlement(b, u)
        /\ DecayExpiredWeight(u)
        /\ UNCHANGED <<now, settings, srxSide, bonusFunded, bonusTokenSet>>

\* Mutant of PokeExpiredPosition: the weight decays before the bonus is banked.
PokeDecaysFirst(u) ==
    /\ reward' = UpdatedFor(reward, u)
    /\ bonus' = UpdateReward(bonus, u, weighted[u] - Excess(u), totalWeightedStake - Excess(u),
                             minTotalStakeForEmission, now)
    /\ DecayExpiredWeight(u)
    /\ UNCHANGED <<now, settings, srxBalance, srxFunded, bonusBalance, bonusFunded, bonusTokenSet>>

\* Anybody may bring a position up to date.
PokeExpiredPosition(u) ==
    /\ reward' = UpdatedFor(reward, u) /\ bonus' = UpdatedFor(bonus, u)
    /\ DecayExpiredWeight(u)
    /\ UNCHANGED <<now, settings, srxBalance, srxFunded, bonusBalance, bonusFunded, bonusTokenSet>>
-----------------------------------------------------------------------------
(***************************************************************************)
(* Governance.                                                             *)
(***************************************************************************)
\* Tokens reach the contract by plain transfers.
SendSRX(n) ==
    /\ Moves("SRX")
    /\ srxFunded + n <= MaxFunded /\ (BothStreams \/ bonusFunded = 0)
    /\ srxFunded' = srxFunded + n /\ srxBalance' = srxBalance + n
    /\ UNCHANGED <<now, position, settings, reward, bonusSide>>

SendBonus(n) ==
    /\ Moves("bonus")
    /\ bonusFunded + n <= MaxFunded /\ (BothStreams \/ srxFunded = 0)
    /\ bonusFunded' = bonusFunded + n /\ bonusBalance' = bonusBalance + n
    /\ UNCHANGED <<now, position, settings, bonus, bonusTokenSet, srxSide>>

\* Mutant of NotifyRewardAmount: tokens registered before are registered again
\* (A2-L-05).
NotifyTwice(n) ==
    /\ n > 0 /\ totalLocked + n <= srxBalance
    /\ reward' = RecomputePeriodFinish([Updated(reward) EXCEPT !.pool = reward.pool + n], now)
    /\ reward.pool + n <= 2 * MaxFunded
    /\ UNCHANGED <<now, position, settings, srxBalance, srxFunded, bonusSide>>

\* Only tokens that are neither principal nor registered can be registered.
NotifyRewardAmount(n) ==
    /\ n > 0 /\ totalLocked + reward.pool + n <= srxBalance
    /\ reward' = RecomputePeriodFinish([Updated(reward) EXCEPT !.pool = reward.pool + n], now)
    /\ UNCHANGED <<now, position, settings, srxBalance, srxFunded, bonusSide>>

SetRewardRate(r) ==
    /\ reward' = RecomputePeriodFinish([Updated(reward) EXCEPT !.rate = r], now)
    /\ UNCHANGED <<now, position, settings, srxBalance, srxFunded, bonusSide>>

SetBonusRewardToken ==
    /\ ~bonusTokenSet
    /\ bonusTokenSet' = TRUE
    /\ bonus' = [bonus EXCEPT !.last = now]
    /\ UNCHANGED <<now, position, settings, srxSide, bonusBalance, bonusFunded>>

NotifyBonusRewardAmount(n) ==
    /\ bonusTokenSet
    /\ n > 0 /\ bonus.pool + n <= bonusBalance
    /\ bonus' = RecomputePeriodFinish([Updated(bonus) EXCEPT !.pool = bonus.pool + n], now)
    /\ UNCHANGED <<now, position, settings, srxSide, bonusBalance, bonusFunded, bonusTokenSet>>

SetBonusRewardRate(r) ==
    /\ bonusTokenSet
    /\ bonus' = RecomputePeriodFinish([Updated(bonus) EXCEPT !.rate = r], now)
    /\ UNCHANGED <<now, position, settings, srxSide, bonusBalance, bonusFunded, bonusTokenSet>>

\* Without stakers the whole SRX pool is sent away; what is owed is not reset.
RescueStrandedPool ==
    /\ totalWeightedStake = 0 /\ reward.pool > 0
    /\ Moves("SRX") /\ reward.pool <= srxBalance
    /\ reward' = [reward EXCEPT !.pool = 0, !.rate = 0, !.finish = now]
    /\ srxBalance' = srxBalance - reward.pool
    /\ UNCHANGED <<now, position, settings, srxFunded, bonusSide>>

\* The bonus twin leaves what is owed.
RescueStrandedBonusPool ==
    /\ bonusTokenSet
    /\ totalWeightedStake = 0 /\ bonus.pool > bonus.owed
    /\ Moves("bonus") /\ bonus.pool - bonus.owed <= bonusBalance
    /\ bonus' = [bonus EXCEPT !.pool = bonus.owed, !.rate = 0, !.finish = now]
    /\ bonusBalance' = bonusBalance - (bonus.pool - bonus.owed)
    /\ UNCHANGED <<now, position, settings, srxSide, bonusFunded, bonusTokenSet>>

SetMinStakeAmount(n) ==
    /\ minStakeAmount' = n
    /\ UNCHANGED <<now, position, minTotalStakeForEmission, paused, halted, srxSide, bonusSide>>

\* Mutant of SetMinTotalStakeForEmission: accrual is not banked first.
SetMinTotalUnbanked(n) ==
    /\ minTotalStakeForEmission' = n
    /\ UNCHANGED <<now, position, minStakeAmount, paused, halted, srxSide, bonusSide>>

\* Accrual is banked under the old minimum first.
SetMinTotalStakeForEmission(n) ==
    /\ reward' = Updated(reward) /\ bonus' = Updated(bonus)
    /\ minTotalStakeForEmission' = n
    /\ UNCHANGED <<now, position, minStakeAmount, paused, halted, srxBalance, srxFunded,
                   bonusBalance, bonusFunded, bonusTokenSet>>

SetPaused(p) ==
    /\ Pausing /\ paused # p
    /\ paused' = p
    /\ UNCHANGED <<now, position, minStakeAmount, minTotalStakeForEmission, halted, srxSide, bonusSide>>

\* The pauser of SRXToken (pauseAll of the guardian), or the issuer of the bonus
\* token, stops every transfer of token t, or lets them through again.
ToggleTransfers(t) ==
    /\ halted' = IF Moves(t) THEN halted \cup {t} ELSE halted \ {t}
    /\ UNCHANGED <<now, position, minStakeAmount, minTotalStakeForEmission, paused, srxSide, bonusSide>>

Tick ==
    /\ now < MaxTime
    /\ now' = now + 1
    /\ UNCHANGED <<position, settings, srxSide, bonusSide>>
-----------------------------------------------------------------------------
StakerStep(u) ==
    \/ \E n \in Amounts : \/ \E d \in Durations : n <= MaxStake /\ Lock(u, n, d)
                          \/ \E d \in Durations \cup {0} :
                                 amount[u] + n <= MaxStake /\ AddToPosition(u, n, d)
    \/ Unlock(u)
    \/ EarlyWithdraw(u)
    \/ ClaimRewards(u)
    \/ PokeExpiredPosition(u)

GovernanceStep ==
    \/ \E n \in Fundings : SendSRX(n) \/ NotifyRewardAmount(n)
    \/ \E n \in BonusFundings : SendBonus(n) \/ NotifyBonusRewardAmount(n)
    \/ \E r \in Rates : (BothStreams \/ srxFunded > 0) /\ SetRewardRate(r)
    \/ \E r \in BonusRates : (BothStreams \/ bonusFunded > 0) /\ SetBonusRewardRate(r)
    \/ (BothStreams \/ bonusFunded > 0) /\ SetBonusRewardToken
    \/ RescueStrandedPool
    \/ RescueStrandedBonusPool
    \/ \E n \in MinStakes : SetMinStakeAmount(n)
    \/ \E n \in MinTotals : SetMinTotalStakeForEmission(n)
    \/ \E p \in BOOLEAN : SetPaused(p)
    \/ \E t \in Halting : ToggleTransfers(t)

Next ==
    \/ \E u \in Users : StakerStep(u) \/ ClaimBonusRewards(u)
    \/ GovernanceStep
    \/ Tick

Spec == Init /\ [][Next]_stakingVars
-----------------------------------------------------------------------------
(***************************************************************************)
(* Properties.                                                             *)
(***************************************************************************)
\* The totals are the sums over the positions, and the contract holds every
\* principal and every registered reward (the solvency of lock, unlock,
\* earlyWithdraw, notifyRewardAmount and the rescues together).
Backed ==
    /\ totalLocked = Total(amount)
    /\ totalWeightedStake = Total(weighted)
    /\ totalLocked + reward.pool <= srxBalance
    /\ bonus.pool <= bonusBalance

\* What the stakers have earned of a stream, up to this second, is in its pool
\* (SC-ECON-001: the schedule never promises more than is funded), but for the
\* dust of rounding.
EmissionFunded ==
    /\ Total([u \in Users |-> EarnedOf(reward, u)]) <= reward.pool + Dust(now)
    /\ Total([u \in Users |-> EarnedOf(bonus, u)]) <= bonus.pool + Dust(now)

\* The tokens that u's exit moves let transfers through: "if the SRX token
\* contract is paused, this function will revert" (A2-H-02), and a bonus that is
\* owed is paid on the way out.
ExitMoves(u) == Moves("SRX") /\ (UpdatedFor(bonus, u).pending[u] > 0 => Moves("bonus"))

\* A staker whose tokens move can leave, the staking contract paused or not: no
\* checked subtraction of earlyWithdraw reverts and no balance is short, after
\* any decay, rescue or halt of a token.
ExitAvailable == \A u \in Stakers : ExitMoves(u) => ENABLED EarlyWithdraw(u)

\* What a step pays out of a pool.
PaidOut(before, after) == IF after.pool < before.pool THEN before.pool - after.pool ELSE 0

\* No step, of the staker or of anybody else, lowers what a staker has earned
\* of the bonus stream by more than it pays out (the decay comes last in
\* _updateBonusReward, so that it is banked at the weight that earned it).
BonusKept ==
    [][\A u \in Users : EarnedOf(bonus, u)' + PaidOut(bonus, bonus') >= EarnedOf(bonus, u)]_stakingVars

\* The same for the SRX stream: "every user-facing path calls _updateReward and
\* then _updateBonusReward".
SRXKept ==
    [][\A u \in Users : EarnedOf(reward, u)' + PaidOut(reward, reward') >= EarnedOf(reward, u)]_stakingVars

\* The same for every step but claimBonusRewards.
SRXKeptOtherwise ==
    [][\/ \E u \in Users : ClaimBonusRewards(u)
       \/ \A u \in Users : EarnedOf(reward, u)' + PaidOut(reward, reward') >= EarnedOf(reward, u)]_stakingVars

\* A multiplier above one is only given for a lock that is running: no call
\* of anybody raises the weight of an expired position above its principal (F6).
WeightNeedsLock ==
    [][\A u \in Users : weighted'[u] > weighted[u] /\ weighted'[u] > amount'[u] => now < lockEnd'[u]]_stakingVars
=============================================================================

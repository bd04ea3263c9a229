----------------------------- MODULE FundProofs -----------------------------
(***************************************************************************)
(* Proofs about StabilisationFund, for every set of users and targets and   *)
(* every choice of amounts, shares and durations: the fast paths stay within *)
(* the caps of their event, only governance uncovers what contributors can  *)
(* claim, no contributor loses what was earned, and what was earned is in   *)
(* the pool but for the dust of rounding.                                   *)
(***************************************************************************)
EXTENDS StabilisationFund, CommonProofs

USE FundAssumption

(***************************************************************************)
(* Types of what the caps and the claims are computed from.                *)
(***************************************************************************)
CapSettings == [deployer : Nat, guardian : Nat]
StressEvents == [active : BOOLEAN, resolvedAt : Nat, start : Nat, deployer : Nat, guardian : Nat]

FundTypes ==
    /\ now \in Nat
    /\ contributed \in [Users -> Nat] /\ totalContributions \in Int
    /\ stream \in Streams
    /\ stress \in StressEvents
    /\ caps \in CapSettings /\ capsSeen \in CapSettings
    /\ balance \in Int

\* The deployer's cap is the smaller one, and the history follows both.
CapsOrdered ==
    /\ caps.deployer <= caps.guardian
    /\ caps.deployer <= capsSeen.deployer
    /\ caps.guardian <= capsSeen.guardian

FundInv == FundTypes /\ CapsOrdered /\ CapsHold

\* The fields of a stress event have their types.
LEMMA StressFields ==
  ASSUME NEW r \in StressEvents
  PROVE  r.resolvedAt \in Nat /\ r.start \in Nat /\ r.deployer \in Nat /\ r.guardian \in Nat
BY DEF StressEvents

\* The fields of the cap settings have their types.
LEMMA CapFields ==
  ASSUME NEW c \in CapSettings
  PROVE  c.deployer \in Nat /\ c.guardian \in Nat
BY DEF CapSettings

(***************************************************************************)
(* A larger cap allows a larger share of the same amount.                  *)
(***************************************************************************)
LEMMA ProductMonotone ==
  ASSUME NEW s \in Nat, NEW a \in Nat, NEW b \in Nat, a <= b
  PROVE  s * a <= s * b
<1>1. s * b = s * a + s * (b - a)
  OBVIOUS
<1>2. s * (b - a) >= 0
  BY SMT
<1>3. s * a \in Int /\ s * b \in Int /\ s * (b - a) \in Int
  OBVIOUS
<1> QED BY <1>1, <1>2, <1>3

\* Rounding down keeps the order.
LEMMA QuotientMonotone ==
  ASSUME NEW x \in Nat, NEW y \in Nat, x <= y, NEW d \in Nat \ {0}
  PROVE  x \div d <= y \div d /\ x \div d \in Nat /\ y \div d \in Nat
OBVIOUS

\* A larger cap allows a larger share of the event.
LEMMA ShareMonotone ==
  ASSUME stress \in StressEvents, NEW a \in Nat, NEW b \in Nat, a <= b
  PROVE  Share(a) <= Share(b) /\ Share(a) \in Nat /\ Share(b) \in Nat
<1> DEFINE s == stress.start
<1>1. s \in Nat
  BY StressFields
<1> HIDE DEF s
<1>2. s * a <= s * b /\ s * a \in Nat /\ s * b \in Nat
  BY <1>1, ProductMonotone
<1> DEFINE x == s * a
           y == s * b
<1> HIDE DEF x, y
<1>3. x \div BPS_DENOMINATOR <= y \div BPS_DENOMINATOR
      /\ x \div BPS_DENOMINATOR \in Nat /\ y \div BPS_DENOMINATOR \in Nat
  <2>1. x \in Nat /\ y \in Nat /\ x <= y
    BY <1>2 DEF x, y
  <2> QED BY <2>1, QuotientMonotone
<1> QED BY <1>3 DEF Share, s, x, y

-----------------------------------------------------------------------------
(***************************************************************************)
(* Types.                                                                  *)
(***************************************************************************)
LEMMA StreamUpdated ==
  ASSUME FundTypes
  PROVE  /\ Updated \in Streams /\ Updated.pool = stream.pool
         /\ \A u \in Users : UpdatedFor(u) \in Streams /\ UpdatedFor(u).pool = stream.pool
<1>1. /\ stream \in Streams /\ contributed \in [Users -> Nat]
      /\ totalContributions \in Int /\ now \in Int /\ 0 \in Nat
  BY DEF FundTypes
<1>2. Updated \in Streams /\ Updated.pool = stream.pool
  BY <1>1, UpdateAllKeepsPool DEF Updated
<1>3. ASSUME NEW u \in Users PROVE UpdatedFor(u) \in Streams /\ UpdatedFor(u).pool = stream.pool
  <2> DEFINE part == contributed[u]
             weight == totalContributions
             minimum == 0
             t == UpdateReward(stream, u, part, weight, minimum, now)
  <2>1. part \in Int /\ weight \in Int /\ minimum \in Nat /\ now \in Int /\ stream \in Streams
    BY <1>1
  <2> HIDE DEF part, weight, minimum
  <2>2. t \in Streams /\ t.pool = stream.pool
    BY <2>1, UpdateRewardKeepsPool
  <2> QED BY <2>2 DEF UpdatedFor, part, weight, minimum
<1> QED BY <1>2, <1>3

\* A new schedule over a stream with another pool or rate.
LEMMA Rescheduled ==
  ASSUME FundTypes, NEW p \in Int, NEW r \in Nat
  PROVE  /\ RecomputePeriodFinish([Updated EXCEPT !.pool = p], now) \in Streams
         /\ RecomputePeriodFinish([Updated EXCEPT !.pool = p], now).pool = p
         /\ RecomputePeriodFinish([Updated EXCEPT !.rate = r], now) \in Streams
         /\ RecomputePeriodFinish([Updated EXCEPT !.rate = r], now).pool = stream.pool
<1> DEFINE s == Updated
<1>1. s \in Streams /\ s.pool = stream.pool /\ now \in Int
  BY StreamUpdated DEF FundTypes
<1> HIDE DEF s
<1> DEFINE a == [s EXCEPT !.pool = p]
           b == [s EXCEPT !.rate = r]
<1>2. a \in Streams /\ a.pool = p /\ b \in Streams /\ b.pool = stream.pool
  BY <1>1 DEF Streams
<1> HIDE DEF a, b
<1>3. /\ RecomputePeriodFinish(a, now) \in Streams /\ RecomputePeriodFinish(a, now).pool = p
      /\ RecomputePeriodFinish(b, now) \in Streams /\ RecomputePeriodFinish(b, now).pool = stream.pool
  BY <1>1, <1>2, RecomputeKeepsPool
<1> QED BY <1>3 DEF a, b, s

(***************************************************************************)
(* One lemma per group of actions: what each leaves of types and cover.    *)
(***************************************************************************)
Covered == Encumbered <= balance

\* A call of a contributor keeps the types and takes nothing that another can claim.
LEMMA ContributorTypes ==
  ASSUME FundTypes, NEW u \in Users, ContributorStep(u)
  PROVE  FundTypes' /\ (Covered => Covered')
<1>0. /\ stream \in Streams /\ contributed \in [Users -> Nat] /\ contributed[u] \in Nat
      /\ totalContributions \in Int /\ balance \in Int /\ stream.pool \in Int
  BY StreamFields DEF FundTypes
<1>1. UpdatedFor(u) \in Streams /\ UpdatedFor(u).pool = stream.pool
  BY StreamUpdated
<1>2. ASSUME NEW n \in Contributions, Contribute(u, n)
      PROVE  FundTypes' /\ (Covered => Covered')
  <2>1. n \in Nat
    OBVIOUS
  <2>2. /\ contributed' = [contributed EXCEPT ![u] = contributed[u] + n]
        /\ totalContributions' = totalContributions + n /\ balance' = balance + n
        /\ stream' = UpdatedFor(u)
        /\ UNCHANGED <<now, stress, caps, capsSeen>>
    BY <1>2 DEF Contribute, Plus, controls
  <2>3. contributed' \in [Users -> Nat]
    BY <1>0, <2>1, <2>2
  <2>4. FundTypes'
    BY <1>0, <1>1, <2>1, <2>2, <2>3 DEF FundTypes
  <2>5. stream'.pool = stream.pool
    BY <1>1, <2>2
  <2> QED BY <1>0, <2>1, <2>2, <2>4, <2>5 DEF Covered, Encumbered
<1>3. ASSUME NEW n \in Contributions, WithdrawContribution(u, n)
      PROVE  FundTypes' /\ (Covered => Covered')
  <2>1. n \in Nat /\ n <= contributed[u]
    BY <1>3 DEF WithdrawContribution
  <2>2. /\ contributed' = [contributed EXCEPT ![u] = contributed[u] - n]
        /\ totalContributions' = totalContributions - n /\ balance' = balance - n
        /\ stream' = UpdatedFor(u)
        /\ UNCHANGED <<now, stress, caps, capsSeen>>
    BY <1>3 DEF WithdrawContribution, Minus, controls
  <2>3. contributed' \in [Users -> Nat]
    BY <1>0, <2>1, <2>2
  <2>4. FundTypes'
    BY <1>0, <1>1, <2>1, <2>2, <2>3 DEF FundTypes
  <2>5. stream'.pool = stream.pool
    BY <1>1, <2>2
  <2> QED BY <1>0, <2>1, <2>2, <2>4, <2>5 DEF Covered, Encumbered
<1>4. ASSUME ClaimRewards(u)
      PROVE  FundTypes' /\ (Covered => Covered')
  <2> DEFINE s == UpdatedFor(u)
  <2>1. s \in Streams /\ s.pool = stream.pool
    BY <1>1
  <2>2. /\ stream' = SettleRewards(s, u) /\ balance' = balance - Settlement(s, u)
        /\ UNCHANGED <<now, contributed, totalContributions, stress, caps, capsSeen>>
    BY <1>4 DEF ClaimRewards, controls, people
  <2> HIDE DEF s
  <2>3. /\ SettleRewards(s, u) \in Streams /\ Settlement(s, u) \in Int
        /\ SettleRewards(s, u).pool = s.pool - Settlement(s, u)
    BY <2>1, SettleTakesSettlement
  <2>4. FundTypes'
    BY <1>0, <2>2, <2>3 DEF FundTypes
  <2>5. stream'.pool = stream.pool - Settlement(s, u)
    BY <2>1, <2>2, <2>3
  <2> QED BY <1>0, <2>2, <2>3, <2>4, <2>5 DEF Covered, Encumbered
<1> QED BY <1>2, <1>3, <1>4 DEF ContributorStep

\* Deployments, recoveries and transfers move the balance alone; only a
\* governance deployment may lower it below what is claimed.
LEMMA DeploymentTypes ==
  ASSUME FundTypes, DeploymentStep, stress' \in StressEvents, capsSeen' \in CapSettings
  PROVE  FundTypes' /\ (Covered => Covered' \/ \E n \in Deployments : DeployByGovernance(n))
<1>0. totalContributions \in Int /\ balance \in Int /\ stream.pool \in Int
  BY StreamFields DEF FundTypes
<1>1. CASE TriggerStressEvent \/ ResolveStressEvent
  <2>1. UNCHANGED <<now, contributed, totalContributions, stream, caps, balance>>
    BY <1>1 DEF TriggerStressEvent, ResolveStressEvent, people, controls, money
  <2> QED BY <2>1 DEF FundTypes, Covered, Encumbered
<1>2. ASSUME NEW n \in Deployments, NEW t \in Targets, FastPath(t, n)
      PROVE  FundTypes' /\ (Covered => Covered')
  <2>1. n \in Nat /\ n > 0 /\ n <= FreeSRX
    BY <1>2 DEF FastPath
  <2>2. UNCHANGED <<now, contributed, totalContributions, stream, caps>> /\ balance' = balance - n
    BY <1>2 DEF FastPath, people, controls
  <2>3. balance - n >= Encumbered
    BY <1>0, <2>1 DEF FreeSRX, Encumbered
  <2>4. FundTypes'
    BY <1>0, <2>1, <2>2 DEF FundTypes
  <2> QED BY <1>0, <2>2, <2>3, <2>4 DEF Covered, Encumbered
<1>3. ASSUME NEW n \in Deployments, DeployByGovernance(n)
      PROVE  FundTypes'
  <2>1. n \in Nat
    OBVIOUS
  <2>2. UNCHANGED <<now, contributed, totalContributions, stream, caps>> /\ balance' = balance - n
    BY <1>3 DEF DeployByGovernance, people, controls
  <2> QED BY <1>0, <2>1, <2>2 DEF FundTypes
<1>4. ASSUME NEW n \in Deployments \cup Fees, RecoverLiquidity(n) \/ ReceiveSRX(n)
      PROVE  FundTypes' /\ (Covered => Covered')
  <2>1. n \in Nat
    OBVIOUS
  <2>2. UNCHANGED <<now, contributed, totalContributions, stream, caps>> /\ balance' = balance + n
    BY <1>4 DEF RecoverLiquidity, ReceiveSRX, people, controls
  <2>3. FundTypes'
    BY <1>0, <2>1, <2>2 DEF FundTypes
  <2> QED BY <1>0, <2>1, <2>2, <2>3 DEF Covered, Encumbered
<1> QED BY <1>1, <1>2, <1>3, <1>4 DEF DeploymentStep, DeployByDeployer, DeployByGuardian

\* Governance registers rewards within what is free, and a rescue takes
\* tokens and their registration away together.
LEMMA GovernanceTypes ==
  ASSUME FundTypes, GovernanceStep, caps' \in CapSettings, capsSeen' \in CapSettings
  PROVE  FundTypes' /\ (Covered => Covered')
<1>0. totalContributions \in Int /\ balance \in Int /\ stream \in Streams
      /\ stream.pool \in Int /\ stream.owed \in Int /\ now \in Int
  BY StreamFields DEF FundTypes
<1>1. ASSUME NEW n \in Fundings, NotifyRewardAmount(n)
      PROVE  FundTypes' /\ (Covered => Covered')
  <2> DEFINE p == stream.pool + n
  <2>1. n \in Nat /\ p \in Int
    BY <1>0
  <2>2. /\ UNCHANGED <<now, contributed, totalContributions, stress, balance>>
        /\ stream' = RecomputePeriodFinish([Updated EXCEPT !.pool = p], now)
        /\ Encumbered + n <= balance
    BY <1>1 DEF NotifyRewardAmount, people, money
  <2> HIDE DEF p
  <2>3. stream' \in Streams /\ stream'.pool = p
    BY <2>1, <2>2, Rescheduled
  <2>4. FundTypes'
    BY <2>2, <2>3 DEF FundTypes
  <2> QED BY <1>0, <2>1, <2>2, <2>3, <2>4 DEF Covered, Encumbered, p
<1>2. ASSUME NEW r \in Rates, SetRewardRate(r)
      PROVE  FundTypes' /\ (Covered => Covered')
  <2>1. /\ UNCHANGED <<now, contributed, totalContributions, stress, balance>>
        /\ stream' = RecomputePeriodFinish([Updated EXCEPT !.rate = r], now)
    BY <1>2 DEF SetRewardRate, people, money
  <2>2. stream' \in Streams /\ stream'.pool = stream.pool
    BY <1>0, <2>1, Rescheduled
  <2> QED BY <2>1, <2>2 DEF FundTypes, Covered, Encumbered
<1>3. ASSUME RescueStrandedPool
      PROVE  FundTypes' /\ (Covered => Covered')
  <2> DEFINE p == stream.owed
  <2>1. /\ UNCHANGED <<now, contributed, totalContributions, stress>>
        /\ stream' = [stream EXCEPT !.pool = p, !.rate = 0, !.finish = now]
        /\ balance' = balance - (stream.pool - p)
    BY <1>3 DEF RescueStrandedPool, people
  <2>2. p \in Int
    BY <1>0
  <2> HIDE DEF p
  <2>3. stream' \in Streams /\ stream'.pool = p
    BY <1>0, <2>1, <2>2 DEF Streams
  <2>4. FundTypes'
    BY <1>0, <2>1, <2>2, <2>3 DEF FundTypes
  <2> QED BY <1>0, <2>1, <2>2, <2>3, <2>4 DEF Covered, Encumbered
<1>4. CASE /\ UNCHANGED <<now, contributed, totalContributions, stream, stress, balance>>
  BY <1>4 DEF FundTypes, Covered, Encumbered
<1>5. ASSUME \/ \E b \in DeployerShares : SetMaxDeployerBps(b)
             \/ \E b \in GuardianShares : SetMaxGuardianBps(b)
      PROVE  UNCHANGED <<now, contributed, totalContributions, stream, stress, balance>>
  BY <1>5 DEF SetMaxDeployerBps, SetMaxGuardianBps, SetCaps, people, money
<1>6. ASSUME \/ \E d \in Cooldowns : SetStressCooldownDuration(d)
             \/ \E d \in Locks : SetWithdrawLockDuration(d)
             \/ \E t \in Targets, a \in BOOLEAN : SetDeployTarget(t, a)
             \/ \E p \in BOOLEAN : SetPaused(p)
      PROVE  UNCHANGED <<now, contributed, totalContributions, stream, stress, balance>>
  BY <1>6 DEF SetStressCooldownDuration, SetWithdrawLockDuration, SetDeployTarget, SetPaused, people, money
<1> QED BY <1>1, <1>2, <1>3, <1>4, <1>5, <1>6 DEF GovernanceStep

-----------------------------------------------------------------------------
(***************************************************************************)
(* The caps.                                                               *)
(***************************************************************************)
\* What CapsStep proves of every step.
CapsKept ==
    /\ stress \in StressEvents /\ caps \in CapSettings /\ capsSeen \in CapSettings
    /\ CapsOrdered /\ CapsHold

\* A fast path spends what its cap leaves of the event's start.
LEMMA CapsSpend ==
  ASSUME FundInv, NEW n \in Nat, n > 0,
         UNCHANGED <<caps, capsSeen>>,
         \/ /\ n <= Available(caps.deployer)
            /\ stress' = [stress EXCEPT !.deployer = stress.deployer + n]
         \/ /\ n <= Available(caps.guardian)
            /\ stress' = [stress EXCEPT !.guardian = stress.guardian + n]
  PROVE  CapsKept'
<1> DEFINE d == stress.deployer
           g == stress.guardian
<1>1. d \in Nat /\ g \in Nat /\ stress \in StressEvents
      /\ caps \in CapSettings /\ capsSeen \in CapSettings
  BY StressFields DEF FundInv, FundTypes
<1>2. /\ caps.deployer \in Nat /\ caps.guardian \in Nat
      /\ capsSeen.deployer \in Nat /\ capsSeen.guardian \in Nat
  BY <1>1, CapFields
<1>3. /\ caps.deployer <= capsSeen.deployer /\ caps.guardian <= capsSeen.guardian
      /\ caps.deployer <= caps.guardian /\ caps.deployer <= capsSeen.guardian
  BY <1>2 DEF FundInv, CapsOrdered
<1> DEFINE sd == Share(caps.deployer)
           sg == Share(caps.guardian)
           hd == Share(capsSeen.deployer)
           hg == Share(capsSeen.guardian)
<1>4. sd \in Nat /\ sg \in Nat /\ hd \in Nat /\ hg \in Nat
      /\ sd <= hd /\ sg <= hg /\ sd <= hg
  BY <1>1, <1>2, <1>3, ShareMonotone
<1>5. d <= hd /\ d + g <= hg
  BY DEF FundInv, CapsHold, Used
<1>6. stress' \in StressEvents /\ stress'.start = stress.start
      /\ \/ d + g + n <= sd /\ stress'.deployer = d + n /\ stress'.guardian = g
         \/ d + g + n <= sg /\ stress'.deployer = d /\ stress'.guardian = g + n
  <2>1. CASE n <= Available(caps.deployer) /\ stress' = [stress EXCEPT !.deployer = d + n]
    <3>1. d + g + n <= sd
      BY <1>1, <1>4, <2>1 DEF Available, Used
    <3>2. d + n \in Nat
      BY <1>1
    <3>3. stress' \in StressEvents /\ stress'.start = stress.start
          /\ stress'.deployer = d + n /\ stress'.guardian = g
      BY <1>1, <2>1, <3>2 DEF StressEvents
    <3> QED BY <3>1, <3>3
  <2>2. CASE n <= Available(caps.guardian) /\ stress' = [stress EXCEPT !.guardian = g + n]
    <3>1. d + g + n <= sg
      BY <1>1, <1>4, <2>2 DEF Available, Used
    <3>2. g + n \in Nat
      BY <1>1
    <3>3. stress' \in StressEvents /\ stress'.start = stress.start
          /\ stress'.deployer = d /\ stress'.guardian = g + n
      BY <1>1, <2>2, <3>2 DEF StressEvents
    <3> QED BY <3>1, <3>3
  <2> QED BY <2>1, <2>2
<1>7. Share(capsSeen.deployer)' = hd /\ Share(capsSeen.guardian)' = hg
  BY <1>6 DEF Share
<1>8. stress'.deployer <= hd /\ stress'.deployer + stress'.guardian <= hg
  <2> HIDE DEF d, g, sd, sg, hd, hg
  <2> QED BY <1>1, <1>4, <1>5, <1>6
<1>9. CapsHold'
  BY <1>7, <1>8 DEF CapsHold, Used
<1>10. CapsOrdered'
  BY DEF FundInv, CapsOrdered
<1> QED BY <1>1, <1>6, <1>9, <1>10 DEF CapsKept

\* New settings raise what was seen of them.
LEMMA CapsRaised ==
  ASSUME FundInv, NEW new \in CapSettings, new.deployer <= new.guardian, SetCaps(new)
  PROVE  CapsKept'
<1>1. stress \in StressEvents /\ capsSeen \in CapSettings
      /\ stress.deployer \in Nat /\ stress.guardian \in Nat
  BY StressFields DEF FundInv, FundTypes
<1>2. /\ new.deployer \in Nat /\ new.guardian \in Nat
      /\ capsSeen.deployer \in Nat /\ capsSeen.guardian \in Nat
  BY <1>1, CapFields
<1> DEFINE a == Larger(capsSeen.deployer, new.deployer)
           b == Larger(capsSeen.guardian, new.guardian)
<1>3. /\ a \in Nat /\ b \in Nat /\ new.deployer <= a /\ new.guardian <= b
      /\ capsSeen.deployer <= a /\ capsSeen.guardian <= b
  BY <1>2 DEF Larger
<1>4. caps' = new /\ capsSeen' = [deployer |-> a, guardian |-> b] /\ stress' = stress
  BY DEF SetCaps
<1> HIDE DEF a, b
<1>5. capsSeen' \in CapSettings /\ capsSeen'.deployer = a /\ capsSeen'.guardian = b
  BY <1>3, <1>4 DEF CapSettings
<1>6. CapsOrdered'
  BY <1>3, <1>4, <1>5 DEF CapsOrdered
<1> DEFINE hd == Share(capsSeen.deployer)
           hg == Share(capsSeen.guardian)
           na == Share(a)
           nb == Share(b)
<1>7. hd \in Nat /\ hg \in Nat /\ na \in Nat /\ nb \in Nat /\ hd <= na /\ hg <= nb
  BY <1>1, <1>2, <1>3, ShareMonotone
<1>8. Share(capsSeen.deployer)' = na /\ Share(capsSeen.guardian)' = nb
  BY <1>4, <1>5 DEF Share
<1>9. stress.deployer <= hd /\ stress.deployer + stress.guardian <= hg
  BY DEF FundInv, CapsHold, Used
<1>10. stress.deployer <= na /\ stress.deployer + stress.guardian <= nb
  <2> HIDE DEF hd, hg, na, nb
  <2> QED BY <1>1, <1>7, <1>9
<1>11. CapsHold'
  BY <1>4, <1>8, <1>10 DEF CapsHold, Used
<1> QED BY <1>1, <1>4, <1>5, <1>6, <1>11 DEF CapsKept

\* Every step keeps what the fast paths spent within the caps.
LEMMA CapsStep ==
  ASSUME FundInv, Next
  PROVE  CapsKept'
<1>0. /\ stress \in StressEvents /\ caps \in CapSettings /\ capsSeen \in CapSettings
      /\ CapsOrdered /\ CapsHold /\ now \in Nat /\ balance \in Int
      /\ totalContributions \in Int /\ stream.pool \in Int
  BY StreamFields DEF FundInv, FundTypes
<1>1. CASE UNCHANGED <<stress, caps, capsSeen>>
  BY <1>0, <1>1 DEF CapsKept, CapsOrdered, CapsHold, Used, Share
<1>2. CASE TriggerStressEvent
  <2> DEFINE start == FreeSRX
  <2>1. start \in Nat
    BY <1>0 DEF FreeSRX, Encumbered
  <2>2. /\ stress' = [stress EXCEPT !.active = TRUE, !.start = start, !.deployer = 0, !.guardian = 0]
        /\ caps' = caps /\ capsSeen' = caps
    BY <1>2 DEF TriggerStressEvent
  <2> HIDE DEF start
  <2>3. stress' \in StressEvents /\ stress'.deployer = 0 /\ stress'.guardian = 0
    BY <1>0, <2>1, <2>2 DEF StressEvents
  <2>4. caps.deployer \in Nat /\ caps.guardian \in Nat
    BY <1>0, CapFields
  <2>5. capsSeen'.deployer \in Nat /\ capsSeen'.guardian \in Nat /\ CapsOrdered'
    BY <1>0, <2>2, <2>4 DEF CapsOrdered
  <2>6. Share(capsSeen.deployer)' \in Nat /\ Share(capsSeen.guardian)' \in Nat
    <3>1. (stress \in StressEvents)' /\ (capsSeen.deployer \in Nat)' /\ (capsSeen.guardian \in Nat)'
      BY <2>3, <2>5
    <3>2. \A s \in Nat, c \in Nat : (s * c) \div BPS_DENOMINATOR \in Nat
      OBVIOUS
    <3>3. stress'.start \in Nat
      BY <2>3, StressFields
    <3> QED BY <3>1, <3>2, <3>3 DEF Share
  <2>7. CapsHold'
    BY <2>3, <2>6 DEF CapsHold, Used
  <2> QED BY <1>0, <2>2, <2>3, <2>5, <2>7 DEF CapsKept
<1>3. CASE ResolveStressEvent
  <2>1. stress' = [stress EXCEPT !.active = FALSE, !.resolvedAt = now] /\ UNCHANGED <<caps, capsSeen>>
    BY <1>3 DEF ResolveStressEvent, controls
  <2>2. /\ stress' \in StressEvents /\ stress'.start = stress.start
        /\ stress'.deployer = stress.deployer /\ stress'.guardian = stress.guardian
    BY <1>0, <2>1 DEF StressEvents
  <2> QED BY <1>0, <2>1, <2>2 DEF CapsKept, CapsOrdered, CapsHold, Used, Share
<1>4. ASSUME NEW n \in Deployments, NEW t \in Targets, DeployByDeployer(t, n) \/ DeployByGuardian(t, n)
      PROVE  CapsKept'
  <2>1. n \in Nat /\ n > 0 /\ UNCHANGED <<caps, capsSeen>>
    BY <1>4 DEF DeployByDeployer, DeployByGuardian, FastPath, controls
  <2>2. \/ /\ n <= Available(caps.deployer)
           /\ stress' = [stress EXCEPT !.deployer = stress.deployer + n]
        \/ /\ n <= Available(caps.guardian)
           /\ stress' = [stress EXCEPT !.guardian = stress.guardian + n]
    BY <1>4 DEF DeployByDeployer, DeployByGuardian
  <2> QED BY <2>1, <2>2, CapsSpend
<1>5. ASSUME NEW b \in DeployerShares, SetMaxDeployerBps(b)
      PROVE  CapsKept'
  <2> DEFINE new == [caps EXCEPT !.deployer = b]
  <2>1. b \in Nat /\ b <= caps.guardian /\ SetCaps(new)
    BY <1>5 DEF SetMaxDeployerBps
  <2>2. new \in CapSettings /\ new.deployer = b /\ new.guardian = caps.guardian
    BY <1>0, <2>1 DEF CapSettings
  <2> HIDE DEF new
  <2> QED BY <2>1, <2>2, CapsRaised
<1>6. ASSUME NEW b \in GuardianShares, SetMaxGuardianBps(b)
      PROVE  CapsKept'
  <2> DEFINE new == [caps EXCEPT !.guardian = b]
  <2>1. b \in Nat /\ b >= caps.deployer /\ SetCaps(new)
    BY <1>6 DEF SetMaxGuardianBps
  <2>2. new \in CapSettings /\ new.guardian = b /\ new.deployer = caps.deployer
    BY <1>0, <2>1 DEF CapSettings
  <2>3. new.deployer <= new.guardian
    BY <1>0, <2>1, <2>2, CapFields
  <2> HIDE DEF new
  <2> QED BY <2>1, <2>2, <2>3, CapsRaised
<1>7. ASSUME NEW u \in Users, ContributorStep(u)
      PROVE  UNCHANGED <<stress, caps, capsSeen>>
  BY <1>7 DEF ContributorStep, Contribute, WithdrawContribution, ClaimRewards, controls
<1>8. ASSUME \/ \E n \in Deployments : DeployByGovernance(n) \/ RecoverLiquidity(n)
             \/ \E n \in Fees : ReceiveSRX(n)
      PROVE  UNCHANGED <<stress, caps, capsSeen>>
  BY <1>8 DEF DeployByGovernance, RecoverLiquidity, ReceiveSRX, controls
<1>9. CASE GovernanceStep
  <2>1. ASSUME \/ \E n \in Fundings : NotifyRewardAmount(n)
               \/ \E r \in Rates : SetRewardRate(r)
               \/ RescueStrandedPool
        PROVE  UNCHANGED <<stress, caps, capsSeen>>
    BY <2>1 DEF NotifyRewardAmount, SetRewardRate, RescueStrandedPool, controls
  <2>2. ASSUME \/ \E d \in Cooldowns : SetStressCooldownDuration(d)
               \/ \E d \in Locks : SetWithdrawLockDuration(d)
               \/ \E t \in Targets, a \in BOOLEAN : SetDeployTarget(t, a)
               \/ \E p \in BOOLEAN : SetPaused(p)
        PROVE  UNCHANGED <<stress, caps, capsSeen>>
    BY <2>2 DEF SetStressCooldownDuration, SetWithdrawLockDuration, SetDeployTarget, SetPaused
  <2> QED BY <1>1, <1>5, <1>6, <1>9, <2>1, <2>2 DEF GovernanceStep
<1>10. ASSUME Tick PROVE UNCHANGED <<stress, caps, capsSeen>>
  BY <1>10 DEF Tick, controls
<1> QED BY <1>1, <1>2, <1>3, <1>4, <1>7, <1>8, <1>9, <1>10 DEF Next, DeploymentStep

-----------------------------------------------------------------------------
(***************************************************************************)
(* The theorems.                                                           *)
(***************************************************************************)
LEMMA FundInit == Init => FundInv
<1> SUFFICES ASSUME Init PROVE FundInv
  OBVIOUS
<1>1. /\ now = 1 /\ contributed = [u \in Users |-> 0] /\ totalContributions = 0
      /\ stream = NewStream(1) /\ balance = 0
      /\ stress = [active |-> FALSE, resolvedAt |-> 0, start |-> 0, deployer |-> 0, guardian |-> 0]
  BY DEF Init
<1>2. PICK d \in DeployerShares, g \in GuardianShares :
        d <= g /\ caps = [deployer |-> d, guardian |-> g] /\ capsSeen = caps
  BY DEF Init
<1>3. d \in Nat /\ g \in Nat
  OBVIOUS
<1>4. caps \in CapSettings /\ caps.deployer = d /\ caps.guardian = g /\ capsSeen = caps
  BY <1>2, <1>3 DEF CapSettings
<1>5. stress \in StressEvents /\ stress.start = 0 /\ stress.deployer = 0 /\ stress.guardian = 0
  BY <1>1 DEF StressEvents
<1>6. FundTypes
  BY <1>1, <1>4, <1>5, NewStreamType DEF FundTypes
<1>7. CapsOrdered
  BY <1>2, <1>3, <1>4 DEF CapsOrdered
<1>8. CapsHold
  <2>1. Share(d) \in Nat /\ Share(g) \in Nat
    BY <1>3, <1>5, ShareMonotone
  <2> QED BY <1>4, <1>5, <2>1 DEF CapsHold, Used
<1> QED BY <1>6, <1>7, <1>8 DEF FundInv

\* Every step keeps the invariant, and only a governance deployment uncovers contributors.
LEMMA FundStep ==
  ASSUME FundInv, [Next]_fundVars
  PROVE  FundInv' /\ (Covered => Covered' \/ \E n \in Deployments : DeployByGovernance(n))
<1>0. FundTypes
  BY DEF FundInv
<1>1. CASE Next
  <2>1. CapsKept'
    BY <1>1, CapsStep
  <2>2. (stress \in StressEvents)' /\ (caps \in CapSettings)' /\ (capsSeen \in CapSettings)'
        /\ CapsOrdered' /\ CapsHold'
    BY <2>1 DEF CapsKept
  <2>3. ASSUME NEW u \in Users, ContributorStep(u)
        PROVE  FundTypes' /\ (Covered => Covered')
    BY <1>0, <2>3, ContributorTypes
  <2>4. ASSUME DeploymentStep
        PROVE  FundTypes' /\ (Covered => Covered' \/ \E n \in Deployments : DeployByGovernance(n))
    BY <1>0, <2>2, <2>4, DeploymentTypes
  <2>5. ASSUME GovernanceStep
        PROVE  FundTypes' /\ (Covered => Covered')
    BY <1>0, <2>2, <2>5, GovernanceTypes
  <2>6. ASSUME Tick
        PROVE  FundTypes' /\ (Covered => Covered')
    <3>1. /\ now' = now + 1
          /\ UNCHANGED <<contributed, totalContributions, stream, stress, caps, capsSeen, balance>>
      BY <2>6 DEF Tick, people, controls, money
    <3> QED BY <1>0, <3>1 DEF FundTypes, Covered, Encumbered
  <2> QED BY <1>1, <2>2, <2>3, <2>4, <2>5, <2>6 DEF Next, FundInv
<1>2. CASE UNCHANGED fundVars
  <2>1. UNCHANGED <<now, contributed, totalContributions, stream, stress, caps, capsSeen, balance>>
    BY <1>2 DEF fundVars, people, controls, money
  <2> QED BY <2>1 DEF FundInv, FundTypes, CapsOrdered, CapsHold, Used, Share, Covered, Encumbered
<1> QED BY <1>1, <1>2

\* During an event the deployer alone, and the two fast paths together, stay
\* within their shares of what was free at its start.
THEOREM FastPathsCapped == Spec => []CapsHold
<1>1. Init => FundInv
  BY FundInit
<1>2. FundInv /\ [Next]_fundVars => FundInv'
  BY FundStep
<1>3. FundInv => CapsHold
  BY DEF FundInv
<1> QED BY <1>1, <1>2, <1>3, PTL DEF Spec

\* Nothing but a governance deployment leaves the fund with less than the
\* contributors can claim.
THEOREM GovernanceAloneUncovers == Spec => OnlyGovernanceUncovers
<1>1. Init => FundInv
  BY FundInit
<1>2. FundInv /\ [Next]_fundVars => FundInv'
  BY FundStep
<1>3. FundInv /\ [Next]_fundVars =>
        [Encumbered <= balance =>
           Encumbered' <= balance' \/ \E n \in Deployments : DeployByGovernance(n)]_fundVars
  BY FundStep DEF Covered
<1> QED BY <1>1, <1>2, <1>3, PTL DEF Spec, OnlyGovernanceUncovers

-----------------------------------------------------------------------------
(***************************************************************************)
(* What a step leaves of what contributors earned.                         *)
(***************************************************************************)
\* Nobody's earnings fall by more than the step pays out.
KeepsEarned ==
    \A v \in Users :
        Earned(stream', v, contributed'[v], totalContributions', 0, now') + PaidFrom(stream, stream')
          >= EarnedBy(v)

\* The types that the amounts earned are computed from.
LEMMA EarnedOperands ==
  ASSUME FundTypes
  PROVE  /\ stream \in Streams /\ contributed \in [Users -> Nat]
         /\ totalContributions \in Int /\ now \in Int /\ 0 \in Nat
         /\ \A v \in Users : contributed[v] \in Nat /\ EarnedBy(v) \in Int
<1>1. /\ stream \in Streams /\ contributed \in [Users -> Nat]
      /\ totalContributions \in Int /\ now \in Int /\ 0 \in Nat
  BY DEF FundTypes
<1>2. ASSUME NEW v \in Users PROVE contributed[v] \in Nat /\ EarnedBy(v) \in Int
  <2> DEFINE w == contributed[v]
             zero == 0
  <2>1. w \in Int /\ w \in Nat /\ zero \in Nat
    BY <1>1
  <2> HIDE DEF w, zero
  <2>2. Earned(stream, v, w, totalContributions, zero, now) \in Int
    BY <1>1, <2>1, EarnedType
  <2> QED BY <2>1, <2>2 DEF EarnedBy, w, zero
<1> QED BY <1>1, <1>2

\* Banking one contributor, and paying him or not, keeps what everybody earned:
\* his contribution may change, others' may not.
LEMMA BankedStep ==
  ASSUME FundTypes, FundTypes', NEW u \in Users,
         now' = now, \A v \in Users \ {u} : contributed'[v] = contributed[v],
         stream' = UpdatedFor(u) \/ stream' = SettleRewards(UpdatedFor(u), u)
  PROVE  KeepsEarned
<1> DEFINE part == contributed[u]
           part2 == contributed'[u]
           weight == totalContributions
           weight2 == totalContributions'
           zero == 0
           r == UpdatedFor(u)
           s == stream
           t == stream'
<1>1. /\ part \in Int /\ part2 \in Int /\ weight \in Int /\ weight2 \in Int
      /\ zero \in Nat /\ now \in Int /\ s \in Streams
      /\ \A v \in Users : contributed[v] \in Int
  BY DEF FundTypes
<1>2. r = UpdateReward(s, u, part, weight, zero, now) /\ (t = r \/ t = SettleRewards(r, u))
  BY DEF UpdatedFor
<1> HIDE DEF part, part2, weight, weight2, zero, r, s, t
<1>3. /\ UpToDate(s, t, weight, zero, now)
      /\ \A v \in Users \ {u} : SameCheckpoint(s, t, v)
      /\ Earned(t, u, part2, weight2, zero, now) + PaidFrom(s, t)
           >= Earned(s, u, part, weight, zero, now)
  BY <1>1, <1>2, BankedKept
<1>4. ASSUME NEW v \in Users
      PROVE  Earned(t, v, contributed'[v], weight2, zero, now) + PaidFrom(s, t)
               >= Earned(s, v, contributed[v], weight, zero, now)
  <2>1. CASE v = u
    BY <1>3, <2>1 DEF part, part2
  <2>2. CASE v # u
    <3> DEFINE w == contributed[v]
    <3>1. w \in Int /\ contributed'[v] = w /\ SameCheckpoint(s, t, v)
      BY <1>1, <1>3, <2>2
    <3> HIDE DEF w
    <3>2. Earned(t, v, w, weight2, zero, now) + PaidFrom(s, t)
            >= Earned(s, v, w, weight, zero, now)
      BY <1>1, <1>3, <3>1, CarriedKept
    <3> QED BY <3>1, <3>2 DEF w
  <2> QED BY <2>1, <2>2
<1> QED BY <1>4 DEF KeepsEarned, EarnedBy, weight, weight2, zero, s, t

\* A new schedule while no contribution changes.
LEMMA RescheduledStep ==
  ASSUME FundTypes, NEW p \in Int, NEW r \in Nat,
         UNCHANGED <<now, contributed, totalContributions>>,
         \/ stream' = RecomputePeriodFinish([Updated EXCEPT !.pool = p], now)
         \/ stream' = RecomputePeriodFinish([Updated EXCEPT !.rate = r], now)
  PROVE  KeepsEarned
<1> DEFINE t0 == Updated
           a == [t0 EXCEPT !.pool = p]
           b == [t0 EXCEPT !.rate = r]
           weight == totalContributions
           zero == 0
           s == stream
           t == stream'
<1>1. /\ s \in Streams /\ weight \in Int /\ zero \in Nat /\ now \in Int
      /\ \A v \in Users : contributed[v] \in Int
  BY EarnedOperands
<1>2. t0 = UpdateAll(s, weight, zero, now)
  BY DEF Updated
<1>3. PICK c \in {a, b} : t = RecomputePeriodFinish(c, now)
  OBVIOUS
<1> HIDE DEF t0, weight, zero, s, t
<1>4. UpToDate(s, t0, weight, zero, now) /\ \A v \in Users : SameCheckpoint(s, t0, v)
  BY <1>1, <1>2, UpdateAllUpToDate
<1>5. t0 \in Streams
  BY <1>4 DEF UpToDate
<1>6. /\ a \in Streams /\ a.stored = t0.stored /\ a.paid = t0.paid /\ a.pending = t0.pending
      /\ b \in Streams /\ b.stored = t0.stored /\ b.paid = t0.paid /\ b.pending = t0.pending
  BY <1>5 DEF Streams
<1> HIDE DEF a, b
<1>7. c \in Streams /\ c.stored = t0.stored /\ c.paid = t0.paid /\ c.pending = t0.pending
  BY <1>6
<1>8. /\ UpToDate(s, RecomputePeriodFinish(c, now), weight, zero, now)
      /\ \A v \in Users : SameCheckpoint(s, RecomputePeriodFinish(c, now), v)
  BY <1>1, <1>4, <1>7, RescheduleUpToDate
<1>9. ASSUME NEW v \in Users
      PROVE  Earned(t, v, contributed[v], weight, zero, now) + PaidFrom(s, t)
               >= Earned(s, v, contributed[v], weight, zero, now)
  <2> DEFINE w == contributed[v]
  <2>1. w \in Int /\ UpToDate(s, t, weight, zero, now) /\ SameCheckpoint(s, t, v)
    BY <1>1, <1>3, <1>8
  <2> HIDE DEF w
  <2>2. Earned(t, v, w, weight, zero, now) + PaidFrom(s, t)
          >= Earned(s, v, w, weight, zero, now)
    BY <1>1, <2>1, CarriedKept
  <2> QED BY <2>2 DEF w
<1> QED BY <1>9 DEF KeepsEarned, EarnedBy, weight, zero, s, t

\* A rescue: without contributions the accumulator stands still.
LEMMA RescuedStep ==
  ASSUME FundTypes, FundTypes', RescueStrandedPool
  PROVE  KeepsEarned
<1>1. /\ UNCHANGED <<now, contributed, totalContributions>> /\ totalContributions = 0
      /\ stream' = [stream EXCEPT !.pool = stream.owed, !.rate = 0, !.finish = now]
  BY DEF RescueStrandedPool, people
<1>2. stream \in Streams /\ stream' \in Streams
  BY DEF FundTypes
<1>3. stream'.stored = stream.stored /\ stream'.paid = stream.paid /\ stream'.pending = stream.pending
  BY <1>1, <1>2 DEF Streams
<1>4. \A v \in Users :
        Earned(stream', v, contributed'[v], totalContributions', 0, now') = EarnedBy(v)
  BY <1>1, <1>3 DEF Earned, EarnedBy, RewardPerToken
<1>5. PaidFrom(stream, stream') \in Nat
  BY <1>2, StreamFields DEF PaidFrom
<1> QED BY <1>4, <1>5, EarnedOperands DEF KeepsEarned

\* Steps that leave the stream and the contributions, and the clock.
LEMMA IdleStep ==
  ASSUME FundTypes, UNCHANGED <<contributed, totalContributions, stream>>, now' \in {now, now + 1}
  PROVE  KeepsEarned
<1>1. PaidFrom(stream, stream') = 0
  <2>1. stream.pool \in Int
    BY StreamFields DEF FundTypes
  <2> QED BY <2>1 DEF PaidFrom
<1>2. ASSUME NEW v \in Users
      PROVE  /\ Earned(stream, v, contributed[v], totalContributions, 0, now + 1) \in Int
             /\ EarnedBy(v) <= Earned(stream, v, contributed[v], totalContributions, 0, now + 1)
  <2> DEFINE w == contributed[v]
             zero == 0
             later == now + 1
  <2>1. w \in Nat /\ w \in Int /\ zero \in Nat /\ later \in Int
        /\ stream \in Streams /\ totalContributions \in Int /\ now \in Int
    BY EarnedOperands
  <2> HIDE DEF w, zero
  <2>2. Earned(stream, v, w, totalContributions, zero, now)
          <= Earned(stream, v, w, totalContributions, zero, now + 1)
    BY <2>1, EarnedGrows
  <2>3. Earned(stream, v, w, totalContributions, zero, later) \in Int
    <3> HIDE DEF later
    <3> QED BY <2>1, EarnedType
  <2> QED BY <2>2, <2>3 DEF EarnedBy, w, zero
<1>3. CASE now' = now
  <2>1. \A v \in Users :
          Earned(stream', v, contributed'[v], totalContributions', 0, now') = EarnedBy(v)
    BY <1>3 DEF EarnedBy
  <2> QED BY <1>1, <2>1, EarnedOperands DEF KeepsEarned
<1>4. CASE now' = now + 1
  <2>1. \A v \in Users :
          Earned(stream', v, contributed'[v], totalContributions', 0, now')
            = Earned(stream, v, contributed[v], totalContributions, 0, now + 1)
    BY <1>4
  <2> QED BY <1>1, <1>2, <2>1, EarnedOperands DEF KeepsEarned
<1> QED BY <1>3, <1>4

\* Every step keeps what everybody earned.
LEMMA EarnedStep ==
  ASSUME FundInv, [Next]_fundVars
  PROVE  KeepsEarned
<1>0. FundTypes /\ FundTypes' /\ contributed \in [Users -> Nat]
  BY FundStep DEF FundInv, FundTypes
<1>1. ASSUME NEW u \in Users, ContributorStep(u) PROVE KeepsEarned
  <2>1. ASSUME NEW n \in Contributions, Contribute(u, n) \/ WithdrawContribution(u, n)
        PROVE  KeepsEarned
    <3>1. now' = now /\ stream' = UpdatedFor(u) /\ \E w : contributed' = [contributed EXCEPT ![u] = w]
      BY <2>1 DEF Contribute, WithdrawContribution, Plus, Minus
    <3>2. \A v \in Users \ {u} : contributed'[v] = contributed[v]
      BY <1>0, <3>1
    <3> QED BY <1>0, <3>1, <3>2, BankedStep
  <2>2. ASSUME ClaimRewards(u) PROVE KeepsEarned
    <3>1. UNCHANGED <<now, contributed>> /\ stream' = SettleRewards(UpdatedFor(u), u)
      BY <2>2 DEF ClaimRewards, people
    <3> QED BY <1>0, <3>1, BankedStep
  <2> QED BY <1>1, <2>1, <2>2 DEF ContributorStep
<1>2. CASE UNCHANGED <<contributed, totalContributions, stream>> /\ now' \in {now, now + 1}
  BY <1>0, <1>2, IdleStep
<1>3. ASSUME DeploymentStep
      PROVE  UNCHANGED <<now, contributed, totalContributions, stream>>
  BY <1>3 DEF DeploymentStep, TriggerStressEvent, ResolveStressEvent, DeployByDeployer, DeployByGuardian,
              FastPath, DeployByGovernance, RecoverLiquidity, ReceiveSRX, people
<1>4. ASSUME Tick \/ UNCHANGED fundVars
      PROVE  UNCHANGED <<contributed, totalContributions, stream>> /\ now' \in {now, now + 1}
  BY <1>4 DEF Tick, fundVars, people
<1>5. ASSUME NEW n \in Fundings, NotifyRewardAmount(n) PROVE KeepsEarned
  <2> DEFINE p == stream.pool + n
  <2>1. /\ UNCHANGED <<now, contributed, totalContributions>>
        /\ stream' = RecomputePeriodFinish([Updated EXCEPT !.pool = p], now)
    BY <1>5 DEF NotifyRewardAmount, people
  <2>2. p \in Int /\ 0 \in Nat
    <3>1. stream.pool \in Int /\ n \in Nat
      BY <1>0, StreamFields DEF FundTypes
    <3> QED BY <3>1
  <2> HIDE DEF p
  <2> QED BY <1>0, <2>1, <2>2, RescheduledStep
<1>6. ASSUME NEW r \in Rates, SetRewardRate(r) PROVE KeepsEarned
  <2>1. /\ UNCHANGED <<now, contributed, totalContributions>> /\ 0 \in Int
        /\ stream' = RecomputePeriodFinish([Updated EXCEPT !.rate = r], now)
    BY <1>6 DEF SetRewardRate, people
  <2> QED BY <1>0, <2>1, RescheduledStep
<1>7. ASSUME \/ \E b \in DeployerShares : SetMaxDeployerBps(b)
             \/ \E b \in GuardianShares : SetMaxGuardianBps(b)
             \/ \E d \in Cooldowns : SetStressCooldownDuration(d)
             \/ \E d \in Locks : SetWithdrawLockDuration(d)
             \/ \E t \in Targets, a \in BOOLEAN : SetDeployTarget(t, a)
             \/ \E p \in BOOLEAN : SetPaused(p)
      PROVE  UNCHANGED <<now, contributed, totalContributions, stream>>
  BY <1>7 DEF SetMaxDeployerBps, SetMaxGuardianBps, SetCaps, SetStressCooldownDuration,
              SetWithdrawLockDuration, SetDeployTarget, SetPaused, people
<1>8. ASSUME GovernanceStep PROVE KeepsEarned
  BY <1>0, <1>2, <1>5, <1>6, <1>7, <1>8, RescuedStep DEF GovernanceStep
<1> QED BY <1>1, <1>2, <1>3, <1>4, <1>8 DEF Next

\* No step lowers what a contributor earned by more than it pays out.
THEOREM ContributorsEarnedKept == Spec => EarnedKept
<1>1. Init => FundInv
  BY FundInit
<1>2. FundInv /\ [Next]_fundVars => FundInv'
  BY FundStep
<1>3. FundInv /\ [Next]_fundVars =>
        [\A u \in Users :
          EarnedBy(u)' + (IF stream'.pool < stream.pool THEN stream.pool - stream'.pool ELSE 0)
             >= EarnedBy(u)]_fundVars
  <2> SUFFICES ASSUME FundInv, [Next]_fundVars
               PROVE  \A u \in Users :
                        EarnedBy(u)' + (IF stream'.pool < stream.pool THEN stream.pool - stream'.pool ELSE 0)
                          >= EarnedBy(u)
    OBVIOUS
  <2>1. KeepsEarned
    BY EarnedStep
  <2>2. \A u \in Users : EarnedBy(u)' = Earned(stream', u, contributed'[u], totalContributions', 0, now')
    BY DEF EarnedBy
  <2> QED BY <2>1, <2>2 DEF KeepsEarned, PaidFrom
<1> QED BY <1>1, <1>2, <1>3, PTL DEF Spec, EarnedKept

-----------------------------------------------------------------------------
(***************************************************************************)
(* What contributors earned is in the pool.                                *)
(***************************************************************************)
\* The sum kept by the fund is the sum of the ledger, and the stream is funded.
FundFunded ==
    /\ totalContributions = Total(contributed)
    /\ now > 0
    /\ FundedStream(stream, contributed, now)

\* The types that the lemmas on funded streams ask for.
LEMMA FundedOperands ==
  ASSUME FundTypes, FundFunded
  PROVE  /\ IsFiniteSet(Users) /\ contributed \in [Users -> Nat] /\ now \in Nat /\ now > 0
         /\ totalContributions = Total(contributed) /\ 0 \in Nat
         /\ FundedStream(stream, contributed, now)
         /\ stream.pool \in Nat /\ stream.owed \in Nat
<1>1. stream \in NatStreams
  BY DEF FundFunded, FundedStream, SoundStream
<1>2. stream.pool \in Nat /\ stream.owed \in Nat
  BY <1>1, NatStreamFields
<1> QED BY <1>2 DEF FundTypes, FundFunded

\* Nothing is earned, promised or held when the fund is deployed.
LEMMA FundedInit ==
  ASSUME Init
  PROVE  FundFunded
<1> DEFINE one == 1
<1>1. /\ one \in {0, 1} /\ one \in Nat /\ one <= one /\ one > 0
      /\ now = one /\ stream = NewStream(one)
      /\ contributed = [u \in Users |-> 0] /\ totalContributions = 0
  BY DEF Init
<1> HIDE DEF one
<1>2. contributed \in [Users -> Nat] /\ Total(contributed) = 0
  BY <1>1, TotalZero
<1>3. FundedStream(NewStream(one), contributed, one)
  BY <1>1, <1>2, NewStreamFunded
<1> QED BY <1>1, <1>2, <1>3 DEF FundFunded

\* Banking one contributor, whose contribution may change with the total.
LEMMA FundedBanked ==
  ASSUME FundTypes, FundFunded, FundTypes', NEW u \in Users, now' = now,
         \A v \in Users \ {u} : contributed'[v] = contributed[v],
         totalContributions' = totalContributions - contributed[u] + contributed'[u],
         stream' = UpdatedFor(u) \/ stream' = SettleRewards(UpdatedFor(u), u)
  PROVE  FundFunded'
<1> DEFINE w == contributed
           w2 == contributed'
           weight == totalContributions
           zero == 0
           r == UpdatedFor(u)
           s == stream
           t == stream'
<1>1. /\ IsFiniteSet(Users) /\ w \in [Users -> Nat] /\ w2 \in [Users -> Nat]
      /\ now \in Nat /\ now > 0 /\ weight = Total(w) /\ zero \in Nat
      /\ FundedStream(s, w, now) /\ \A v \in Users \ {u} : w2[v] = w[v]
  BY FundedOperands DEF FundTypes
<1>2. r = UpdateReward(s, u, w[u], weight, zero, now) /\ (t = r \/ t = SettleRewards(r, u))
  BY DEF UpdatedFor
<1>3. totalContributions' = Total(w) - w[u] + w2[u]
  BY <1>1
<1> HIDE DEF w, w2, weight, zero, r, s, t
<1>4. FundedStream(r, w2, now)
  <2>1. FundedStream(UpdateReward(s, u, w[u], weight, zero, now), w2, now)
    BY <1>1, BankFunded
  <2> QED BY <1>2, <2>1
<1>5. FundedStream(t, w2, now)
  <2>1. ASSUME t = SettleRewards(r, u) PROVE FundedStream(t, w2, now)
    BY <1>1, <1>4, <2>1, SettleFunded
  <2> QED BY <1>2, <1>4, <2>1
<1>6. totalContributions' = Total(w2)
  BY <1>1, <1>3, TotalChange
<1> QED BY <1>1, <1>5, <1>6 DEF FundFunded, w2, t

\* A new schedule over a pool that nothing was taken from.
LEMMA FundedRescheduled ==
  ASSUME FundTypes, FundFunded, NEW n \in Nat, NEW r \in Nat,
         UNCHANGED <<now, contributed, totalContributions>>,
         \/ stream' = RecomputePeriodFinish([Updated EXCEPT !.pool = stream.pool + n], now)
         \/ stream' = RecomputePeriodFinish([Updated EXCEPT !.rate = r], now)
  PROVE  FundFunded'
<1> DEFINE w == contributed
           weight == totalContributions
           zero == 0
           t0 == Updated
           s == stream
           t == stream'
<1>1. /\ IsFiniteSet(Users) /\ w \in [Users -> Nat]
      /\ now \in Nat /\ now > 0 /\ weight = Total(w) /\ zero \in Nat
      /\ FundedStream(s, w, now)
  BY FundedOperands
<1>2. /\ t0 = UpdateAll(s, weight, zero, now)
      /\ t \in Schedules(t0, s.pool + n, r, now)
  BY DEF Updated, Schedules
<1> HIDE DEF w, weight, zero, t0, s, t
<1>3. FundedStream(t, w, now)
  BY <1>1, <1>2, ScheduleFunded
<1> QED BY <1>1, <1>3 DEF FundFunded, w, weight, t

\* A rescue leaves what is owed.
LEMMA FundedRescued ==
  ASSUME FundTypes, FundFunded, RescueStrandedPool
  PROVE  FundFunded'
<1> DEFINE w == contributed
           s == stream
           t == stream'
           p == stream.owed
<1>1. /\ IsFiniteSet(Users) /\ w \in [Users -> Nat] /\ now \in Nat /\ now > 0
      /\ FundedStream(s, w, now) /\ p \in Nat /\ totalContributions = Total(w)
  BY FundedOperands
<1>2. Total(RawShares(s, w)) <= PRECISION * p + (PRECISION - 1) * SecondsBefore(s.last)
  BY <1>1 DEF FundedStream, OwedCovers
<1>3. /\ t = RescuedStream(s, p, now)
      /\ UNCHANGED <<now, contributed, totalContributions>>
  BY DEF RescueStrandedPool, people, RescuedStream
<1> HIDE DEF w, s, t, p
<1>4. FundedStream(t, w, now)
  BY <1>1, <1>2, <1>3, RescueFunded
<1> QED BY <1>1, <1>3, <1>4 DEF FundFunded, w, t

\* The passing of time, and steps elsewhere.
LEMMA FundedIdle ==
  ASSUME FundTypes, FundFunded, UNCHANGED <<contributed, totalContributions, stream>>,
         now' \in {now, now + 1}
  PROVE  FundFunded'
<1> DEFINE w == contributed
           s == stream
           later == now'
<1>1. /\ IsFiniteSet(Users) /\ w \in [Users -> Nat] /\ now \in Nat /\ now > 0
      /\ FundedStream(s, w, now) /\ totalContributions = Total(w)
  BY FundedOperands
<1>2. later \in Nat /\ now <= later /\ later > 0
  BY <1>1
<1>3. s \in NatStreams /\ \A u \in Users : s.paid[u] <= s.stored
  BY <1>1 DEF FundedStream, SoundStream
<1>4. \A u \in Users : RawShares(s, w)[u] <= RawShares(s, w)[u]
  <2>1. RawShares(s, w) \in [Users -> Nat]
    BY <1>1, <1>3, RawSharesType
  <2> HIDE DEF w, s
  <2> QED BY <2>1
<1> HIDE DEF w, s, later
<1>5. FundedStream(s, w, later)
  BY <1>1, <1>2, <1>3, <1>4, FewerSharesFunded
<1> QED BY <1>1, <1>2, <1>5 DEF FundFunded, w, s, later

\* Every step keeps the stream funded.
LEMMA FundedStep ==
  ASSUME FundInv, FundFunded, [Next]_fundVars
  PROVE  FundFunded'
<1>0. FundTypes /\ FundTypes' /\ contributed \in [Users -> Nat] /\ contributed' \in [Users -> Nat]
      /\ totalContributions \in Int
  BY FundStep DEF FundInv, FundTypes
<1>1. ASSUME NEW u \in Users, ContributorStep(u) PROVE FundFunded'
  <2>1. ASSUME NEW n \in Contributions, Contribute(u, n) \/ WithdrawContribution(u, n)
        PROVE  FundFunded'
    <3>1. /\ now' = now /\ stream' = UpdatedFor(u)
          /\ \/ /\ contributed' = [contributed EXCEPT ![u] = contributed[u] + n]
                /\ totalContributions' = totalContributions + n
             \/ /\ contributed' = [contributed EXCEPT ![u] = contributed[u] - n]
                /\ totalContributions' = totalContributions - n
      BY <2>1 DEF Contribute, WithdrawContribution, Plus, Minus
    <3>2. \A v \in Users \ {u} : contributed'[v] = contributed[v]
      BY <1>0, <3>1
    <3>3. totalContributions' = totalContributions - contributed[u] + contributed'[u]
      BY <1>0, <3>1
    <3> QED BY <1>0, <3>1, <3>2, <3>3, FundedBanked
  <2>2. ASSUME ClaimRewards(u) PROVE FundFunded'
    <3>1. UNCHANGED <<now, contributed, totalContributions>> /\ stream' = SettleRewards(UpdatedFor(u), u)
      BY <2>2 DEF ClaimRewards, people
    <3>2. totalContributions' = totalContributions - contributed[u] + contributed'[u]
      BY <1>0, <3>1
    <3> QED BY <1>0, <3>1, <3>2, FundedBanked
  <2> QED BY <1>1, <2>1, <2>2 DEF ContributorStep
<1>2. CASE UNCHANGED <<contributed, totalContributions, stream>> /\ now' \in {now, now + 1}
  BY <1>0, <1>2, FundedIdle
<1>3. ASSUME DeploymentStep
      PROVE  UNCHANGED <<now, contributed, totalContributions, stream>>
  BY <1>3 DEF DeploymentStep, TriggerStressEvent, ResolveStressEvent, DeployByDeployer, DeployByGuardian,
              FastPath, DeployByGovernance, RecoverLiquidity, ReceiveSRX, people
<1>4. ASSUME Tick \/ UNCHANGED fundVars
      PROVE  UNCHANGED <<contributed, totalContributions, stream>> /\ now' \in {now, now + 1}
  BY <1>4 DEF Tick, fundVars, people
<1>5. ASSUME NEW n \in Fundings, NotifyRewardAmount(n) PROVE FundFunded'
  <2>1. /\ UNCHANGED <<now, contributed, totalContributions>> /\ n \in Nat /\ 0 \in Nat
        /\ stream' = RecomputePeriodFinish([Updated EXCEPT !.pool = stream.pool + n], now)
    BY <1>5 DEF NotifyRewardAmount, people
  <2> QED BY <1>0, <2>1, FundedRescheduled
<1>6. ASSUME NEW r \in Rates, SetRewardRate(r) PROVE FundFunded'
  <2>1. /\ UNCHANGED <<now, contributed, totalContributions>> /\ r \in Nat /\ 0 \in Nat
        /\ stream' = RecomputePeriodFinish([Updated EXCEPT !.rate = r], now)
    BY <1>6 DEF SetRewardRate, people
  <2> QED BY <1>0, <2>1, FundedRescheduled
<1>7. ASSUME \/ \E b \in DeployerShares : SetMaxDeployerBps(b)
             \/ \E b \in GuardianShares : SetMaxGuardianBps(b)
             \/ \E d \in Cooldowns : SetStressCooldownDuration(d)
             \/ \E d \in Locks : SetWithdrawLockDuration(d)
             \/ \E t \in Targets, a \in BOOLEAN : SetDeployTarget(t, a)
             \/ \E p \in BOOLEAN : SetPaused(p)
      PROVE  UNCHANGED <<now, contributed, totalContributions, stream>>
  BY <1>7 DEF SetMaxDeployerBps, SetMaxGuardianBps, SetCaps, SetStressCooldownDuration,
              SetWithdrawLockDuration, SetDeployTarget, SetPaused, people
<1>8. ASSUME GovernanceStep PROVE FundFunded'
  BY <1>0, <1>2, <1>5, <1>6, <1>7, <1>8, FundedRescued DEF GovernanceStep
<1> QED BY <1>1, <1>2, <1>3, <1>4, <1>8 DEF Next

\* What contributors have earned, those who have left included, is in the reward
\* pool, but for the dust: whatever is contributed, withdrawn, claimed,
\* registered, rescheduled and rescued, and however the amounts round.
THEOREM RewardsInPool == Spec => []EmissionFunded
<1> DEFINE I == FundInv /\ FundFunded
<1>1. Init => I
  BY FundInit, FundedInit
<1>2. I /\ [Next]_fundVars => I'
  BY FundStep, FundedStep
<1>3. I => EmissionFunded
  <2> SUFFICES ASSUME FundTypes, FundFunded PROVE EmissionFunded
    BY DEF FundInv
  <2> DEFINE zero == 0
             weight == totalContributions
  <2>1. /\ IsFiniteSet(Users) /\ contributed \in [Users -> Nat] /\ now \in Nat /\ now > 0
        /\ weight = Total(contributed) /\ zero \in Nat /\ FundedStream(stream, contributed, now)
    BY FundedOperands
  <2> HIDE DEF zero, weight
  <2>2. Total([u \in Users |-> Earned(stream, u, contributed[u], weight, zero, now)])
          <= stream.pool + Dust(now)
    BY <2>1, FundedEarned
  <2> QED BY <2>2 DEF EmissionFunded, EarnedBy, zero, weight
<1> QED BY <1>1, <1>2, <1>3, PTL DEF Spec
=============================================================================

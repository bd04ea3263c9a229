-------------------------- MODULE StabilisationFund --------------------------
(***************************************************************************)
(* StabilisationFund: contributors' SRX, the rewards registered for them    *)
(* and the strategic reserve share one balance.  While governance has not   *)
(* resolved a stress event, a deployer and a guardian spend from it without *)
(* a vote, under caps that are shares of what was free when the event was   *)
(* triggered; governance spends without limit at any time.  Weights of the  *)
(* reward stream are the contributions.  Stable tokens, ETH and the reserve *)
(* layer targets, which nothing reads, are left out.                        *)
(***************************************************************************)
EXTENDS RewardStream, Totals

CONSTANTS
    Targets,            \* destinations of deployments
    BPS_DENOMINATOR,
    DeployerShares, GuardianShares, \* cap settings governance chooses from
    Cooldowns,          \* stressCooldownDuration settings
    Locks,              \* withdrawLockDuration settings
    Contributions,      \* amounts that users contribute and withdraw
    Fundings,           \* amounts registered as rewards
    Rates,              \* emission rates
    Deployments,        \* amounts deployed and recovered
    Fees,               \* SRX that arrives by transfers (the TGE seed, fees)
    Pausing,            \* whether the pauser acts
    MaxContribution, MaxReceived, MaxTime   \* bounds

ASSUME FundAssumption ==
    /\ IsFiniteSet(Users)
    /\ BPS_DENOMINATOR \in Nat \ {0}
    /\ DeployerShares \subseteq Nat /\ GuardianShares \subseteq 0..BPS_DENOMINATOR
    /\ Cooldowns \subseteq Nat /\ Locks \subseteq Nat
    /\ Contributions \subseteq Nat /\ Fundings \subseteq Nat /\ Rates \subseteq Nat
    /\ Deployments \subseteq Nat /\ Fees \subseteq Nat
    /\ Pausing \in BOOLEAN
    /\ MaxContribution \in Nat /\ MaxReceived \in Nat /\ MaxTime \in Nat

VARIABLES
    now,
    contributed, depositTime,   \* contributions[u]
    totalContributions,
    stream,                     \* the reward stream
    stress,                     \* the stress event: active, resolvedAt, start, what was used
    caps,                       \* maxDeployerBps, maxGuardianBps
    capsSeen,                   \* history: the largest caps since the event was triggered
    cooldown, withdrawLock,     \* stressCooldownDuration, withdrawLockDuration
    approvedDeployTarget,
    paused,
    balance,                    \* SRX of the fund
    received,                   \* SRX sent to the fund by transfers (bounded)
    outside                     \* SRX deployed and not recovered

money    == <<balance, received, outside>>
people   == <<contributed, depositTime, totalContributions>>
controls == <<caps, capsSeen, cooldown, withdrawLock, approvedDeployTarget, paused>>
fundVars == <<now, people, stream, stress, controls, money>>

Init ==
    /\ now = 1
    /\ contributed = [u \in Users |-> 0] /\ depositTime = [u \in Users |-> 0]
    /\ totalContributions = 0
    /\ stream = NewStream(1)
    /\ stress = [active |-> FALSE, resolvedAt |-> 0, start |-> 0, deployer |-> 0, guardian |-> 0]
    /\ \E d \in DeployerShares, g \in GuardianShares :
          d <= g /\ caps = [deployer |-> d, guardian |-> g] /\ capsSeen = caps
    /\ cooldown \in Cooldowns /\ withdrawLock \in Locks
    /\ approvedDeployTarget = [t \in Targets |-> FALSE]
    /\ paused = FALSE
    /\ balance = 0 /\ received = 0 /\ outside = 0

\* What the contributors can claim from the balance, and what is left of it.
Encumbered == totalContributions + stream.pool
FreeSRX == IF balance > Encumbered THEN balance - Encumbered ELSE 0

EarnedBy(u) == Earned(stream, u, contributed[u], totalContributions, 0, now)
Updated == UpdateAll(stream, totalContributions, 0, now)
UpdatedFor(u) == UpdateReward(stream, u, contributed[u], totalContributions, 0, now)
-----------------------------------------------------------------------------
(***************************************************************************)
(* Contributors.                                                           *)
(***************************************************************************)
\* Every contribution restarts the lock of the whole principal.
Contribute(u, n) ==
    /\ ~paused /\ n > 0
    /\ stream' = UpdatedFor(u)
    /\ contributed' = Plus(contributed, u, n)
    /\ depositTime' = [depositTime EXCEPT ![u] = now]
    /\ totalContributions' = totalContributions + n
    /\ balance' = balance + n
    /\ UNCHANGED <<now, stress, controls, received, outside>>

\* Mutant of WithdrawContribution: the principal changes before the checkpoint.
WithdrawUnbanked(u, n) ==
    /\ ~paused
    /\ contributed[u] > 0 /\ n <= contributed[u]
    /\ now >= depositTime[u] + withdrawLock
    /\ n <= balance
    /\ contributed' = Minus(contributed, u, n)
    /\ totalContributions' = totalContributions - n
    /\ stream' = UpdateReward(stream, u, contributed[u] - n, totalContributions, 0, now)
    /\ balance' = balance - n
    /\ UNCHANGED <<now, depositTime, stress, controls, received, outside>>

\* Rewards stay pending and are claimed separately.
WithdrawContribution(u, n) ==
    /\ ~paused
    /\ contributed[u] > 0 /\ n <= contributed[u]
    /\ now >= depositTime[u] + withdrawLock
    /\ n <= balance
    /\ stream' = UpdatedFor(u)
    /\ contributed' = Minus(contributed, u, n)
    /\ totalContributions' = totalContributions - n
    /\ balance' = balance - n
    /\ UNCHANGED <<now, depositTime, stress, controls, received, outside>>

\* Open to those who have withdrawn everything (M-09).
ClaimRewards(u) ==
    LET s == UpdatedFor(u)
    IN  /\ ~paused
        /\ s.pending[u] > 0
        /\ Settlement(s, u) <= balance
        /\ stream' = SettleRewards(s, u)
        /\ balance' = balance - Settlement(s, u)
        /\ UNCHANGED <<now, people, stress, controls, received, outside>>
-----------------------------------------------------------------------------
(***************************************************************************)
(* Stress events and deployments.                                          *)
(***************************************************************************)
\* By the oracle reporter or the guardian.
TriggerStressEvent ==
    /\ ~paused /\ ~stress.active
    /\ stress.resolvedAt = 0 \/ now >= stress.resolvedAt + cooldown
    /\ stress' = [stress EXCEPT !.active = TRUE, !.start = FreeSRX, !.deployer = 0, !.guardian = 0]
    /\ capsSeen' = caps
    /\ UNCHANGED <<now, people, stream, caps, cooldown, withdrawLock, approvedDeployTarget, paused, money>>

ResolveStressEvent ==
    /\ stress.active
    /\ stress' = [stress EXCEPT !.active = FALSE, !.resolvedAt = now]
    /\ UNCHANGED <<now, people, stream, controls, money>>

Share(bps) == (stress.start * bps) \div BPS_DENOMINATOR
Used == stress.deployer + stress.guardian
Available(bps) == IF Share(bps) > Used THEN Share(bps) - Used ELSE 0

\* Mutant of FastPath: the snapshot alone bounds what is spent (SSF-M1).
FastPathStale(target, n) ==
    /\ ~paused /\ n > 0
    /\ stress.active /\ approvedDeployTarget[target]
    /\ n <= balance
    /\ balance' = balance - n /\ outside' = outside + n
    /\ UNCHANGED <<now, people, stream, controls, received>>

\* What the two fast paths share.
FastPath(target, n) ==
    /\ ~paused /\ n > 0
    /\ stress.active /\ approvedDeployTarget[target]
    /\ n <= FreeSRX
    /\ balance' = balance - n /\ outside' = outside + n
    /\ UNCHANGED <<now, people, stream, controls, received>>

DeployByDeployer(target, n) ==
    /\ n <= Available(caps.deployer)
    /\ FastPath(target, n)
    /\ stress' = [stress EXCEPT !.deployer = stress.deployer + n]

\* Mutant of DeployByGuardian: the deployer's use does not count (A2-M-06).
DeployByGuardianAlone(target, n) ==
    /\ stress.guardian + n <= Share(caps.guardian)
    /\ FastPath(target, n)
    /\ stress' = [stress EXCEPT !.guardian = stress.guardian + n]

DeployByGuardian(target, n) ==
    /\ n <= Available(caps.guardian)
    /\ FastPath(target, n)
    /\ stress' = [stress EXCEPT !.guardian = stress.guardian + n]

\* Any amount, to any target, at any time.
DeployByGovernance(n) ==
    /\ ~paused /\ n > 0
    /\ n <= balance
    /\ balance' = balance - n /\ outside' = outside + n
    /\ UNCHANGED <<now, people, stream, stress, controls, received>>

RecoverLiquidity(n) ==
    /\ ~paused /\ n > 0
    /\ n <= outside
    /\ balance' = balance + n /\ outside' = outside - n
    /\ UNCHANGED <<now, people, stream, stress, controls, received>>

\* A plain transfer (the TGE seed), which no pause of the fund stops; receiveFees,
\* which one does, brings SRX in as well.
ReceiveSRX(n) ==
    /\ received + n <= MaxReceived
    /\ balance' = balance + n /\ received' = received + n
    /\ UNCHANGED <<now, people, stream, stress, controls, outside>>
-----------------------------------------------------------------------------
(***************************************************************************)
(* Governance of rewards and settings.                                     *)
(***************************************************************************)
NotifyRewardAmount(n) ==
    /\ n > 0 /\ totalContributions > 0
    /\ Encumbered + n <= balance
    /\ stream' = RecomputePeriodFinish([Updated EXCEPT !.pool = stream.pool + n], now)
    /\ UNCHANGED <<now, people, stress, controls, money>>

SetRewardRate(r) ==
    /\ stream' = RecomputePeriodFinish([Updated EXCEPT !.rate = r], now)
    /\ UNCHANGED <<now, people, stress, controls, money>>

\* Mutant of RescueStrandedPool: rewards of past contributors are swept too.
RescueWholePool ==
    /\ totalContributions = 0 /\ stream.pool > 0
    /\ stream.pool <= balance
    /\ stream' = [stream EXCEPT !.pool = 0, !.rate = 0, !.finish = now]
    /\ balance' = balance - stream.pool
    /\ UNCHANGED <<now, people, stress, controls, received, outside>>

\* Without contributors, what nobody is owed is sent away.
RescueStrandedPool ==
    /\ totalContributions = 0 /\ stream.pool > stream.owed
    /\ stream.pool - stream.owed <= balance
    /\ stream' = [stream EXCEPT !.pool = stream.owed, !.rate = 0, !.finish = now]
    /\ balance' = balance - (stream.pool - stream.owed)
    /\ UNCHANGED <<now, people, stress, controls, received, outside>>

Larger(m, n) == IF m > n THEN m ELSE n

\* setMaxDeployerBps and setMaxGuardianBps, which may come during an event.
SetCaps(new) ==
    /\ caps' = new
    /\ capsSeen' = [deployer |-> Larger(capsSeen.deployer, new.deployer),
                    guardian |-> Larger(capsSeen.guardian, new.guardian)]
    /\ UNCHANGED <<now, people, stream, stress, cooldown, withdrawLock, approvedDeployTarget, paused, money>>

SetMaxDeployerBps(b) == b <= caps.guardian /\ SetCaps([caps EXCEPT !.deployer = b])
SetMaxGuardianBps(b) == b <= BPS_DENOMINATOR /\ b >= caps.deployer /\ SetCaps([caps EXCEPT !.guardian = b])

SetStressCooldownDuration(d) ==
    /\ cooldown' = d
    /\ UNCHANGED <<now, people, stream, stress, caps, capsSeen, withdrawLock, approvedDeployTarget, paused, money>>

\* The lock of every contribution changes with it.
SetWithdrawLockDuration(d) ==
    /\ withdrawLock' = d
    /\ UNCHANGED <<now, people, stream, stress, caps, capsSeen, cooldown, approvedDeployTarget, paused, money>>

SetDeployTarget(t, approved) ==
    /\ approvedDeployTarget' = [approvedDeployTarget EXCEPT ![t] = approved]
    /\ UNCHANGED <<now, people, stream, stress, caps, capsSeen, cooldown, withdrawLock, paused, money>>

SetPaused(p) ==
    /\ Pausing /\ paused # p
    /\ paused' = p
    /\ UNCHANGED <<now, people, stream, stress, caps, capsSeen, cooldown, withdrawLock,
                   approvedDeployTarget, money>>

Tick ==
    /\ now < MaxTime
    /\ now' = now + 1
    /\ UNCHANGED <<people, stream, stress, controls, money>>
-----------------------------------------------------------------------------
ContributorStep(u) ==
    \/ \E n \in Contributions : \/ contributed[u] + n <= MaxContribution /\ Contribute(u, n)
                                \/ WithdrawContribution(u, n)
    \/ ClaimRewards(u)

DeploymentStep ==
    \/ TriggerStressEvent \/ ResolveStressEvent
    \/ \E n \in Deployments :
          \/ \E t \in Targets : DeployByDeployer(t, n) \/ DeployByGuardian(t, n)
          \/ DeployByGovernance(n)
          \/ RecoverLiquidity(n)
    \/ \E n \in Fees : ReceiveSRX(n)

GovernanceStep ==
    \/ \E n \in Fundings : NotifyRewardAmount(n)
    \/ \E r \in Rates : SetRewardRate(r)
    \/ RescueStrandedPool
    \/ \E b \in DeployerShares : SetMaxDeployerBps(b)
    \/ \E b \in GuardianShares : SetMaxGuardianBps(b)
    \/ \E d \in Cooldowns : SetStressCooldownDuration(d)
    \/ \E d \in Locks : SetWithdrawLockDuration(d)
    \/ \E t \in Targets, a \in BOOLEAN : SetDeployTarget(t, a)
    \/ \E p \in BOOLEAN : SetPaused(p)

Next ==
    \/ \E u \in Users : ContributorStep(u)
    \/ DeploymentStep
    \/ GovernanceStep
    \/ Tick

Spec == Init /\ [][Next]_fundVars
-----------------------------------------------------------------------------
(***************************************************************************)
(* Properties.                                                             *)
(***************************************************************************)
\* What contributors, past ones included, have earned up to this second is in
\* the reward pool, but for the dust of rounding.
EmissionFunded == Total([u \in Users |-> EarnedBy(u)]) <= stream.pool + Dust(now)

\* No step lowers what a contributor has earned by more than it pays out.
EarnedKept ==
    [][\A u \in Users :
          EarnedBy(u)' + (IF stream'.pool < stream.pool THEN stream.pool - stream'.pool ELSE 0)
             >= EarnedBy(u)]_fundVars

\* Only a governance deployment leaves the fund with less than contributors can
\* claim: neither a fast path working from a stale snapshot nor a withdrawal, a
\* claim or a rescue does (SSF-M1).
OnlyGovernanceUncovers ==
    [][Encumbered <= balance => Encumbered' <= balance' \/ \E n \in Deployments : DeployByGovernance(n)]_fundVars

\* During one event the deployer spends at most its share, and the two together
\* at most the guardian's share, of what was free at its start, whatever is
\* recovered, received or registered meanwhile; a share is taken at the largest
\* cap set during the event.
CapsHold ==
    /\ stress.deployer <= Share(capsSeen.deployer)
    /\ Used <= Share(capsSeen.guardian)
=============================================================================

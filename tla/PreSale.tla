------------------------------- MODULE PreSale -------------------------------
(***************************************************************************)
(* PreSaleRound and the vesting vaults it deploys: approved buyers pay in   *)
(* several assets, or are recorded by the admin, for an allocation with a   *)
(* bonus that depends on the cumulative dollars; the admin approves,        *)
(* corrects, removes and refunds investors, withdraws the proceeds, deploys *)
(* a vault for each allocation and triggers the vaults in pages of the      *)
(* investor list, which removals reorder.                                   *)
(*                                                                         *)
(* A price reading stands for an accepted answer of _readFeed; a rejected   *)
(* one reverts the purchase.                                               *)
(***************************************************************************)
EXTENDS Vesting, Totals, Sequences

CONSTANTS
    Wallets,
    NoVault,            \* vault of an investor who has none
    Assets,             \* payment assets
    NATIVE,             \* the one of them that is ETH
    Prices,             \* Prices[a]: dollars an accepted reading gives for a unit of a
    TierMins, TierBonus,        \* bonus ladder: thresholds in dollars, and bonuses in bps
    SRX_UNIT,           \* smallest SRX units of one SRX (1e18)
    SRXPrices,          \* srxPriceUsd8Dec settings
    HardCaps,           \* hardCapSRX settings
    Caps,               \* approvals in dollars; 0 revokes
    MinContributions,   \* minContributionUsd8Dec settings
    Payments,           \* amounts paid or recorded
    Corrections,        \* allocations that updateAllocation sets
    Donations,          \* amounts sent to a vault by mistake
    SRXFunding,         \* SRX that the round is funded up to
    MaxPaid,            \* bound on the units of each asset held
    MaxTime             \* bound on the clock

Tiers == 1..Len(TierMins)

ASSUME PreSaleAssumption ==
    /\ IsFiniteSet(Wallets)
    /\ NATIVE \in Assets
    /\ Prices \in [Assets -> SUBSET (Nat \ {0})]
    /\ TierMins \in Seq(Nat) /\ Len(TierMins) > 0 /\ TierMins[1] = 0
    /\ TierBonus \in [Tiers -> Nat]
    /\ \A i, j \in Tiers : i < j => TierMins[i] < TierMins[j] /\ TierBonus[i] <= TierBonus[j]
    /\ SRX_UNIT \in Nat \ {0}
    /\ SRXPrices \subseteq Nat \ {0} /\ HardCaps \subseteq Nat \ {0}
    /\ Caps \subseteq Nat /\ MinContributions \subseteq Nat /\ Payments \subseteq Nat \ {0}
    /\ Corrections \subseteq Nat \ {0} /\ Donations \subseteq Nat \ {0}
    /\ SRXFunding \in Nat /\ MaxPaid \in Nat /\ MaxTime \in Nat

VARIABLES
    now,
    srxPrice, hardCapSRX, minContribution, finalized, paused,
    srxAllocation, cumulativeUsd,       \* of each investor
    investorList, totalAllocated,
    approval,                           \* buyerApprovals[u].capUsd8Dec
    paidOnChain, refundOwed, totalRefundOwed,
    held,                               \* held[a]: balance of the round
    srxHeld,                            \* SRX balance of the round
    vault                               \* vault[u]: the investor's vault

config  == <<srxPrice, hardCapSRX, minContribution, finalized, paused>>
records == <<srxAllocation, cumulativeUsd, investorList, totalAllocated>>
refunds == <<paidOnChain, refundOwed, totalRefundOwed, held>>
grants  == <<srxHeld, vault>>
preSaleVars == <<now, config, records, approval, refunds, grants>>

Init ==
    /\ now = 0
    /\ srxPrice \in SRXPrices /\ hardCapSRX \in HardCaps
    /\ minContribution = 0
    /\ finalized = FALSE /\ paused = FALSE
    /\ srxAllocation = [u \in Wallets |-> 0] /\ cumulativeUsd = [u \in Wallets |-> 0]
    /\ investorList = << >> /\ totalAllocated = 0
    /\ approval = [u \in Wallets |-> 0]
    /\ paidOnChain = [u \in Wallets |-> [a \in Assets |-> 0]]
    /\ refundOwed = [u \in Wallets |-> [a \in Assets |-> 0]]
    /\ totalRefundOwed = [a \in Assets |-> 0]
    /\ held = [a \in Assets |-> 0]
    /\ srxHeld = 0
    /\ vault = [u \in Wallets |-> NoVault]

HasVault(u) == vault[u] # NoVault
Investors == {u \in Wallets : srxAllocation[u] > 0}
HasOnChainPayment(u) == \E a \in Assets : paidOnChain[u][a] > 0
\* Mutant of Withdrawable: refunds owed are not set aside.
WithdrawableWhole(a) == held[a]

Withdrawable(a) == IF held[a] > totalRefundOwed[a] THEN held[a] - totalRefundOwed[a] ELSE 0
-----------------------------------------------------------------------------
(***************************************************************************)
(* Allocations.                                                            *)
(***************************************************************************)
\* Where a tier ends: at the threshold of the next.
WithinTier(i, usd) == usd >= TierMins[i] /\ \A j \in Tiers : j > i => usd < TierMins[j]
GetTierBps(usd) == TierBonus[CHOOSE i \in Tiers : WithinTier(i, usd)]

ComputeTotalSRXWithBonus(usd) ==
    ((usd * SRX_UNIT * (BPS_DENOMINATOR + GetTierBps(usd))) \div srxPrice) \div BPS_DENOMINATOR

\* The dollars that buy an allocation at the bonus of tier i.
InvertedAt(i, srx) ==
    (srx * srxPrice * BPS_DENOMINATOR) \div (SRX_UNIT * (BPS_DENOMINATOR + TierBonus[i]))

\* Mutant of UsdFromSrx: an allocation inside a tier jump is recorded at the
\* entry tier (PSR-02).
UsdFromSrxOrEntry(srx) ==
    LET consistent == {i \in Tiers : WithinTier(i, InvertedAt(i, srx))}
    IN  IF consistent = {} THEN {InvertedAt(1, srx)}
        ELSE {InvertedAt(CHOOSE i \in consistent : \A j \in consistent : j <= i, srx)}

\* The dollars recorded for an allocation: the highest tier that agrees with
\* itself, none (a revert) if no tier does.
UsdFromSrx(srx) ==
    LET consistent == {i \in Tiers : WithinTier(i, InvertedAt(i, srx))}
    IN  IF consistent = {} THEN {}
        ELSE {InvertedAt(CHOOSE i \in consistent : \A j \in consistent : j <= i, srx)}

\* _processInvestment: the whole position is recomputed at the new total.
ProcessInvestment(u, usd) ==
    LET cumulative == cumulativeUsd[u] + usd
        allocation == ComputeTotalSRXWithBonus(cumulative)
    IN  /\ cumulative <= approval[u]
        /\ allocation > srxAllocation[u]
        /\ totalAllocated + (allocation - srxAllocation[u]) <= hardCapSRX
        /\ totalAllocated' = totalAllocated + (allocation - srxAllocation[u])
        /\ cumulativeUsd' = [cumulativeUsd EXCEPT ![u] = cumulative]
        /\ srxAllocation' = [srxAllocation EXCEPT ![u] = allocation]
        /\ investorList' = IF u \in Investors THEN investorList ELSE Append(investorList, u)

\* invest, investWithUSDC, investWithUSDT, investWithWBTC: n is what arrives,
\* which may be less than what was sent (PSR-12).
Invest(u, a, n, price) ==
    /\ ~finalized /\ ~paused /\ ~HasVault(u)
    /\ n * price >= minContribution
    /\ ProcessInvestment(u, n * price)
    /\ paidOnChain' = [paidOnChain EXCEPT ![u][a] = @ + n]
    /\ held' = [held EXCEPT ![a] = @ + n]
    /\ UNCHANGED <<now, config, approval, refundOwed, totalRefundOwed, grants>>

\* The admin records a payment made elsewhere.
AddInvestor(u, usd) ==
    /\ ~finalized /\ ~HasVault(u)
    /\ ProcessInvestment(u, usd)
    /\ UNCHANGED <<now, config, approval, refunds, grants>>

SetBuyerApproval(u, cap) ==
    /\ cap >= cumulativeUsd[u]
    /\ approval' = [approval EXCEPT ![u] = cap]
    /\ UNCHANGED <<now, config, records, refunds, grants>>

\* Only an investor whose whole allocation was recorded by the admin.
UpdateAllocation(u, srx) ==
    /\ ~finalized
    /\ u \in Investors /\ ~HasVault(u) /\ ~HasOnChainPayment(u)
    /\ totalAllocated - srxAllocation[u] + srx <= hardCapSRX
    /\ \E usd \in UsdFromSrx(srx) :
          /\ usd <= approval[u]
          /\ cumulativeUsd' = [cumulativeUsd EXCEPT ![u] = usd]
    /\ srxAllocation' = [srxAllocation EXCEPT ![u] = srx]
    /\ totalAllocated' = totalAllocated - srxAllocation[u] + srx
    /\ UNCHANGED <<now, config, investorList, approval, refunds, grants>>
-----------------------------------------------------------------------------
(***************************************************************************)
(* Removals and refunds.                                                   *)
(***************************************************************************)
\* Mutant of SwapAndPop: the last entry is popped without the swap.
PopLast(list, u) == SubSeq(list, 1, Len(list) - 1)

SwapAndPop(list, u) ==
    [i \in 1..Len(list) - 1 |-> IF list[i] = u THEN list[Len(list)] ELSE list[i]]

\* _removeInvestor: the record, the approval and the place in the list go.
RemoveRecords(u) ==
    /\ u \in Investors /\ ~HasVault(u)
    /\ totalAllocated' = totalAllocated - srxAllocation[u]
    /\ srxAllocation' = [srxAllocation EXCEPT ![u] = 0]
    /\ cumulativeUsd' = [cumulativeUsd EXCEPT ![u] = 0]
    /\ approval' = [approval EXCEPT ![u] = 0]
    /\ investorList' = SwapAndPop(investorList, u)

\* Mutant of RemoveInvestor: the allocation of somebody who paid goes (PSR-06).
RemoveAnyInvestor(u) ==
    /\ ~finalized
    /\ RemoveRecords(u)
    /\ UNCHANGED <<now, config, refunds, grants>>

RemoveInvestor(u) ==
    /\ ~finalized /\ ~HasOnChainPayment(u)
    /\ RemoveRecords(u)
    /\ UNCHANGED <<now, config, refunds, grants>>

\* What they paid in each asset becomes theirs to claim, if the round holds it.
RefundInvestor(u) ==
    LET paid == paidOnChain[u]
        owed == [a \in Assets |-> totalRefundOwed[a] + paid[a]]
    IN  /\ HasOnChainPayment(u)
        /\ RemoveRecords(u)
        /\ \A a \in Assets : paid[a] > 0 => owed[a] <= held[a]
        /\ totalRefundOwed' = owed
        /\ refundOwed' = [refundOwed EXCEPT ![u] = [a \in Assets |-> @[a] + paid[a]]]
        /\ paidOnChain' = [paidOnChain EXCEPT ![u] = [a \in Assets |-> 0]]
        /\ UNCHANGED <<now, config, held, grants>>

ClaimRefund(u, a) ==
    /\ refundOwed[u][a] > 0
    /\ refundOwed' = [refundOwed EXCEPT ![u][a] = 0]
    /\ totalRefundOwed' = [totalRefundOwed EXCEPT ![a] = @ - refundOwed[u][a]]
    /\ held' = [held EXCEPT ![a] = @ - refundOwed[u][a]]
    /\ UNCHANGED <<now, config, records, approval, paidOnChain, grants>>

\* withdrawETH and withdrawETHAmount any amount, withdrawUSDC, withdrawUSDT and
\* withdrawWBTC all there is.
Withdraw(a, n) ==
    /\ n \in 1..Withdrawable(a)
    /\ a = NATIVE \/ n = Withdrawable(a)
    /\ held' = [held EXCEPT ![a] = @ - n]
    /\ UNCHANGED <<now, config, records, approval, paidOnChain, refundOwed, totalRefundOwed, grants>>

\* A plain transfer to the round, as when proceeds are returned for a refund.
\* The round has no receive(), so that no plain transfer of ETH arrives.
ReturnFunds(a, n) ==
    /\ a # NATIVE
    /\ held' = [held EXCEPT ![a] = @ + n]
    /\ UNCHANGED <<now, config, records, approval, paidOnChain, refundOwed, totalRefundOwed, grants>>
-----------------------------------------------------------------------------
(***************************************************************************)
(* Vaults.                                                                 *)
(***************************************************************************)
\* A transfer of SRX to the round, and recoverSRX, which ignores allocations.
FundSRX ==
    /\ srxHeld < SRXFunding
    /\ srxHeld' = SRXFunding
    /\ UNCHANGED <<now, config, records, approval, refunds, vault>>

RecoverSRX ==
    /\ srxHeld > 0
    /\ srxHeld' = 0
    /\ UNCHANGED <<now, config, records, approval, refunds, vault>>

\* Deploys the vaults of a set of investors and declares their allocations.
DeployVaults(who) ==
    LET needed == Total([u \in who |-> srxAllocation[u]])
    IN  /\ who # {} /\ needed <= srxHeld
        /\ srxHeld' = srxHeld - needed
        /\ vault' = [u \in Wallets |-> IF u \in who THEN NewVault(srxAllocation[u], srxAllocation[u])
                                     ELSE vault[u]]
        /\ UNCHANGED <<now, config, records, approval, refunds>>

\* The investors on a page of the list, start inclusive and end exclusive from 0.
Page(start, end) == {investorList[i] : i \in {j \in 1..Len(investorList) : start < j /\ j <= end}}

DeployVault(u) == u \in Investors /\ ~HasVault(u) /\ DeployVaults({u})
BatchDeployVaults(start, end) == DeployVaults({u \in Page(start, end) : ~HasVault(u)})

\* Vaults already triggered are skipped (PSR-07); one that refuses fails the page.
BatchTriggerTGE(start, end) ==
    LET who == {u \in Page(start, end) : HasVault(u) /\ ~vault[u].tgeTriggered}
    IN  /\ who # {} /\ \A u \in who : CanTriggerTGE(vault[u])
        /\ vault' = [u \in Wallets |-> IF u \in who THEN TriggeredTGE(vault[u], now) ELSE vault[u]]
        /\ UNCHANGED <<now, config, records, approval, refunds, srxHeld>>

ChangeVault(u, new) ==
    /\ vault' = [vault EXCEPT ![u] = new]
    /\ UNCHANGED <<now, config, records, approval, refunds, srxHeld>>

Release(u) == HasVault(u) /\ CanRelease(vault[u], now) /\ ChangeVault(u, Released(vault[u], now))
RevokeVault(u) == HasVault(u) /\ CanRevoke(vault[u], now) /\ ChangeVault(u, Revoked(vault[u], now))
RescueVaultSurplus(u) == HasVault(u) /\ Surplus(vault[u]) > 0 /\ ChangeVault(u, Rescued(vault[u]))

\* SRX sent to a vault by mistake, one transfer at a time (bound).
Donate(u, n) ==
    /\ HasVault(u)
    /\ IF vault[u].revoked THEN vault[u].held = 0
       ELSE vault[u].held + vault[u].released <= vault[u].expectedAllocation
    /\ ChangeVault(u, [vault[u] EXCEPT !.held = @ + n])
-----------------------------------------------------------------------------
(***************************************************************************)
(* Settings.                                                               *)
(***************************************************************************)
SetPaused(p) ==
    /\ paused' = p
    /\ UNCHANGED <<now, srxPrice, hardCapSRX, minContribution, finalized, records, approval, refunds, grants>>

Finalize ==
    /\ ~finalized
    /\ finalized' = TRUE
    /\ UNCHANGED <<now, srxPrice, hardCapSRX, minContribution, paused, records, approval, refunds, grants>>

SetSRXPrice(p) ==
    /\ ~finalized /\ investorList = << >>
    /\ srxPrice' = p
    /\ UNCHANGED <<now, hardCapSRX, minContribution, finalized, paused, records, approval, refunds, grants>>

SetHardCap(cap) ==
    /\ ~finalized /\ cap >= totalAllocated
    /\ hardCapSRX' = cap
    /\ UNCHANGED <<now, srxPrice, minContribution, finalized, paused, records, approval, refunds, grants>>

SetMinContribution(m) ==
    /\ minContribution' = m
    /\ UNCHANGED <<now, srxPrice, hardCapSRX, finalized, paused, records, approval, refunds, grants>>

Tick ==
    /\ now < MaxTime
    /\ now' = now + 1
    /\ UNCHANGED <<config, records, approval, refunds, grants>>
-----------------------------------------------------------------------------
BuyerStep(u) ==
    \/ \E a \in Assets, n \in Payments : \E price \in Prices[a] :
          held[a] + n <= MaxPaid /\ Invest(u, a, n, price)
    \/ \E a \in Assets : ClaimRefund(u, a)
    \/ Release(u)

AdminStep(u) ==
    \/ \E usd \in Payments : AddInvestor(u, usd)
    \/ \E cap \in Caps : SetBuyerApproval(u, cap)
    \/ \E srx \in Corrections : UpdateAllocation(u, srx)
    \/ RemoveInvestor(u) \/ RefundInvestor(u)
    \/ DeployVault(u) \/ RevokeVault(u) \/ RescueVaultSurplus(u)
    \/ \E n \in Donations : Donate(u, n)

Pages == {p \in (0..Cardinality(Wallets)) \X (0..Cardinality(Wallets)) : p[1] < p[2]}

RoundStep ==
    \/ \E a \in Assets, n \in 1..MaxPaid :
          Withdraw(a, n) \/ (held[a] + n <= MaxPaid /\ ReturnFunds(a, n))
    \/ FundSRX \/ RecoverSRX
    \/ \E p \in Pages : BatchDeployVaults(p[1], p[2]) \/ BatchTriggerTGE(p[1], p[2])
    \/ \E p \in BOOLEAN : SetPaused(p)
    \/ Finalize
    \/ \E p \in SRXPrices : SetSRXPrice(p)
    \/ \E cap \in HardCaps : SetHardCap(cap)
    \/ \E m \in MinContributions : SetMinContribution(m)

Next ==
    \/ \E u \in Wallets : BuyerStep(u) \/ AdminStep(u)
    \/ RoundStep
    \/ Tick

Spec == Init /\ [][Next]_preSaleVars
-----------------------------------------------------------------------------
(***************************************************************************)
(* Properties.                                                             *)
(***************************************************************************)
\* Every refund made claimable is held, whatever is withdrawn or paid to others
\* meanwhile (PSR-06).
RefundsCovered ==
    \A a \in Assets :
        /\ totalRefundOwed[a] = Total([u \in Wallets |-> refundOwed[u][a]])
        /\ totalRefundOwed[a] <= held[a]

\* The list keeps its integrity: after any order of purchases, corrections, removals
\* and refunds it names each holder of an allocation exactly once and nobody else,
\* and the total is the sum over its holders, within the cap.  It says nothing of a
\* pass over the pages, which a removal in between makes miss the moved investor.
InvestorsListed ==
    /\ Len(investorList) = Cardinality(Investors)
    /\ Investors = {investorList[i] : i \in 1..Len(investorList)}
    /\ totalAllocated = Total(srxAllocation) /\ totalAllocated <= hardCapSRX

\* An allocation is what the recorded dollars buy at the bonus they earn, within
\* the unit of the recorded dollars, however it came about: no correction, price
\* change or order of payments lets a further cent buy more than its share
\* (PSR-02, R5-02).  The dollars never exceed the approval.
AllocationEarned ==
    \A u \in Investors :
        /\ ComputeTotalSRXWithBonus(cumulativeUsd[u]) <= srxAllocation[u]
        /\ srxAllocation[u] <= ComputeTotalSRXWithBonus(cumulativeUsd[u] + 1)
        /\ cumulativeUsd[u] <= approval[u]

\* Who paid has an allocation until the payment has become a refund (PSR-06).
PaymentHonoured == \A u \in Wallets : HasOnChainPayment(u) => u \in Investors

\* A vault holds the rest of the grant until it is revoked, and pays out no
\* sooner than the schedule of the grant, whatever was donated to it, rescued
\* from it or claimed before (V1, PSR-08).
GrantKept ==
    \A u \in Wallets : HasVault(u) =>
        LET v == vault[u]
        IN  /\ v.released <= IF v.tgeTriggered THEN Schedule(srxAllocation[u], now - v.tgeTimestamp) ELSE 0
            /\ ~v.revoked => v.held + v.released >= srxAllocation[u]

=============================================================================

# SRX contracts: models, checks and proofs

TLA+ models of the SRX protocol (the Solidity contracts under `contracts/`, the monitor process,
and the launch and role hand-over scripts under `scripts/`), the TLC configurations that check them on small instances, and
theorems that TLAPS proves for every instance. Line numbers refer to the repository.

## 1. The system

| Component | State it keeps | Operations | What makes it correct |
|---|---|---|---|
| **SRXToken** (`contracts/token`) on Ethereum: token, LayerZero hub | balances, `totalBurned`, `outstandingByEid` per remote chain, pause, peers, launch limits | genesis, transfer, `buyAndBurn`, send and receive over the bridge, pause, `setPeer`, limits | supply conserved over all chains; a returning holder always finds the backing; no faulty link takes the backing of another |
| **SRXOFTNative** (`contracts/bridge`) on each other chain | balances, pause, its hub peer | transfer, burn, send to and receive from the hub | the same |
| **GuardianModule** (`contracts/guardian`) | per module id: target, local pause flag, cooldown, circuit breaker; sunset | pause, unpause, pauseAll, governance overrides, breaker reports | a trip stops the bridge; guardian powers end at the sunset; one refusing module does not keep pauseAll from the others; flags follow targets |
| **circuit_breaker_monitor.js** | last block in memory and on disk, the scan in progress | poll, fetch logs in chunks, report, save, crash and restart | no transfer is skipped, recounts are bounded, a flood trips the breaker |
| **SRXStaking** (`contracts/staking`) | positions, two reward streams, totals | lock, add, unlock, early withdrawal, claims, poke, governance | solvency; emission never exceeds what was funded; nothing earned is lost; multipliers follow running locks; the exit is open whenever the tokens move |
| **StabilisationFund** (`contracts/stabilisation`) | contributions, a reward stream, the stress event, caps | contribute, withdraw, claim, trigger, resolve, three deployment paths, recover | caps hold over an event; fast paths never spend what contributors can claim |
| **PreSaleRound** (`contracts/presale`) | investors, approvals, payments, refunds, proceeds, vaults | invest, record, correct, remove, refund, withdraw, deploy and trigger vaults | allocations are earned, payments honoured, refunds covered |
| **VestingVault** (`contracts/vesting`) | grant, TGE time, released, revoked | declare, trigger, release, revoke, rescue | the grant is paid on schedule, donations never count |
| **Token launch**: `03_deploy_vesting.js`, `06_execute_tge.js`, `lib/tge_targets.js`, `lib/adminTx.js`, `verify_tge.js`, with **TGEDistributor** | `.env`, the manifest, batch files, the process; allocations, genesis, distribution, vesting clocks, the incentive pool | run, stop, run again, edit `.env`; queue, execute | only the signed destinations are paid; the clocks start with the distribution; grants are exact; a run again completes |
| **Role hand-over**: `01` to `05b`, `08`, `09`, `migrate_roles.js`, `pre_mainnet_roles.js`, `verify_roles.js`, with **SRXTimelock** | who holds which role, ownership and delegate of the bridge, the pending Timelock operation, batch files, the process, the gate | deploy, migrate in two phases, harden, veto, verify | always somebody to administer; nothing without delay once the gate has passed; no role without a holder; the hand-over ends |
| SRXTreasury, BuybackBurner, SRXAirdrop, ZkSyncMigrator, FeeController | | | not modelled, see 6 |
| SRXGovernor (voting), GenesisAgreementRegistry, other scripts | | | not modelled, see 6 |

**Interactions.** A bridge send burns on one chain and leaves a message that LayerZero executes
later, in any order, possibly after pauses, peer changes and new limits. GuardianModule calls
`pause()` on targets that the admin Safe pauses too, so its local flags are a cache; one of the targets is SRXToken, whose pause
stops every transfer of SRX, the exits of stakers included. The monitor
reads events and sends transactions; between two of its awaits anything may happen, and it may
die. SRXStaking and StabilisationFund run the same accumulator over their own weights and keep
rewards next to principal in one balance. PreSaleRound is the admin of the vaults it deploys. The
scripts compute calls from what they read and either send them one by one or write a file that the
admin Safe executes as one transaction, when and as often as its signers like: what was read may be stale
by then. The launch registers the incentive pool of a SRXStaking that users may already use.

**Hard behaviours.** Message order and retries (bridge); cached pause flags, time windows and a
sunset (guardian); crashes and failing calls (monitor); locks that end without a transaction, so
that weights are stale, and rewards that must be banked before any weight or rate changes
(staking, fund); caps over a snapshot (fund); recomputed allocations, late refunds and pages over
a list that removals reorder (presale); scripts that stop between two transactions, batches
executed late or twice, transactions that time out and arrive all the same, operations that are vetoed
(launch, hand-over). `PROJECT.json` lists each hazard at its line with the
property that covers it.

## 2. Modules

| Module | Models | Composes |
|---|---|---|
| `Totals` | sums of ledgers, as the cardinality of a set of units | |
| `Loops` | the entries of a list that a loop does not skip | |
| `Bridge` | SRXToken on the hub, SRXOFTNative on spokes, LayerZero messages | `Totals` |
| `SupplyLedger` | abstract promise: a fixed supply moves between home, abroad and burned | implemented by `Bridge` |
| `Guardian` | GuardianModule, the `Pausable` targets, the admin Safe | |
| `BridgeMonitor` | the monitor process | `Guardian` |
| `RewardStream` | the reward-per-token accumulator, as operators on a record | |
| `Staking` | SRXStaking, two streams | `RewardStream`, `Totals` |
| `StabilisationFund` | StabilisationFund, one stream | `RewardStream`, `Totals` |
| `Vesting` | VestingVault, as operators on a record | |
| `PreSale` | PreSaleRound and its vaults | `Vesting`, `Totals` |
| `TgeLaunch` | scripts 03 and 06, the destination gate, TGEDistributor and what they call | `Totals`, `Loops` |
| `RoleHandover` | the roles that the deploy scripts leave, their migration and its gate | `Loops` |
| `MC...` | constants and symmetry for TLC | |
| `CommonProofs` | lemmas about sums, about loops and about the accumulator | `Totals`, `Loops`, `RewardStream` |
| `BridgeProofs`, `StakingProofs`, `FundProofs`, `PreSaleProofs`, `TgeProofs`, `HandoverProofs` | theorems about the component | the component, `CommonProofs` |
| `MonitorProofs` | theorems about `Guardian` and about `BridgeMonitor` | `BridgeMonitor` |

How a module corresponds to the code: one action per external function, with its modifiers,
reverts and checked arithmetic as guards and its writes (those of the internal functions it calls
included) as primed variables. A revert is a disabled action. Roles are not enumerated: an action
may be taken by whoever holds its role. A struct is a record or a group of functions, a
mapping is a function; `config`, `records`, `refunds` and the like name groups of variables for
`UNCHANGED`. Time is a counter that `Tick` advances. An operator commented as a mutant is the form
a plausible bug would give the operator after it; no specification uses it, and TLC finds the
property named with it in `PROJECT.json` violated when it stands in for that operator.

* **Bridge.** `Mint`, `Burn` and `Transfer` are the three cases of `_update`. `Send` and
  `Receive` are OFTCore's `send` and `_lzReceive` around `_debit` and `_credit`. Dust is
  kept with a conversion rate. Links of `Faulty` spokes may execute a message again.
* **Guardian.** `PauseAll` and `EmergencyUnpauseAll` are whole transactions: `Batch` is their loop over the module ids, which
  carries the configurations and the targets from one id to the next, and `Try` is one pass of it: the call to the
  target, and `_reconcilePausedState` when it refuses. A target refuses for its own pause state, which another module of the same batch may have
  changed, or because this contract lacks PAUSER_ROLE there (`pauser`; `Revocable` names the targets whose admin takes
  and gives it). `Opaque` targets have no `paused()` view. The clock starts past the cooldowns.
* **BridgeMonitor.** One action per await. Block 1 is START_BLOCK, which is taken to be set and the same at
  every start (without it a process that has no state file starts 1000 blocks back, line 299). `counted`, `answered` and
  `dropped` are history variables.
* **RewardStream.** `UpdateAll` and `UpdateReward` are `_updateReward` for `address(0)` and for an
  account; `SettleRewards` pays what is pending up to the pool; `RecomputePeriodFinish` schedules
  what is funded and not owed. PRECISION is a parameter. `Dust(now)` bounds what rounding can promise
  beyond the pool (section 4).
* **Staking.** A position's decay at the end of its lock happens inside the calls that cause it in
  the code. Fee tiers are left out; the penalty of an early withdrawal leaves the contract with
  the principal. `halted` is the set of tokens that refuse every transfer at the moment: SRXToken while it is paused, by the
  guardian or by the Safe (A2-H-02), and the bonus token, whatever its reason; a call that moves such a token is disabled.
  `BothStreams` is a bound: whether a behaviour funds both streams.
* **StabilisationFund.** SRX only: nothing in the accounting of SRX reads ETH or stable tokens.
  `FreeSRX` is `_freeSRX`. `ReceiveSRX` is any transfer to the fund, which its pause does not stop. `capsSeen` is a history variable.
* **Vesting, PreSale.** `NewVault` is a vault with its declared allocation. A page is the set of
  investors at its positions, as a transaction visits each once. An oracle reading is a price of
  `Prices`; a rejected reading reverts, which is a disabled purchase. `investWith...` credit what
  arrives. `setBuyerApprovals` is one step per buyer. Flat mode is a ladder of one tier.
* **TgeLaunch.** `chain` is a record of what is on-chain; `Reverts` and `Effect` say of a call when it
  reverts and what it does. `run` is the process of 06, one action per await of its pre-flight and per
  transaction; it keeps what it has read in its record. `Execute` is a Safe batch as the set of
  resulting chains, empty when a call reverts. A run of 03 is one step, as only a complete one writes its
  addresses. An `.env` is a destination per row of `TGE_PLAN` and whether its role addresses
  are the live ones; a manifest pins all of them or none, and the vault flag that it repeats for each row
  (tge_targets.js:158) is taken to be right. The clocks of the vaults are read in one step (06:166-171 awaits each): a clock never stops.
  Stakes are not withdrawn.
* **RoleHandover.** `chain.holds` is the set of triples contract, role, holder. `Done` is the `done()` of a step
  of `migrate_roles.js`; `Todo` reads them all in one step. `Gate` reads contract by contract: the
  `hasRole` reads of one contract (verify_roles.js:193-221), and those of the bridge (230-241), are one step. A script that deploys counts when it is
  complete. On a network with a Safe each script queues one batch; in a rehearsal the loaded signer is the
  admin; the test stack is deployed by the admin's own key and hardened by `pre_mainnet_roles.js`.

## 3. Runs

| Run | Question | Instance |
|---|---|---|
| `bridge_faulty` | does the hub's accounting conserve the supply, and does a sound spoke keep its backing, next to a spoke whose link repeats deliveries and a stray spoke-to-spoke peer, when sends leave dust? Is `SupplyLedger` implemented? | 2 spokes, 1 account, supply 5, rate 2, 2 messages |
| `bridge_live` | with dust, launch limits, pauses and peers that change: is every message executed in the end? | 1 spoke, 2 accounts, supply 3, rate 2, 2 messages |
| `guardian_deployed` | TOKEN and BRIDGE naming one token, the Safe pausing too and taking the guardian's role, a redeployment without a `paused()` view: does pauseAll reach every module whatever refuses, do the batch calls reconcile, do flags follow targets? | 2 ids, 2 targets, cool-down of 2, clock of 4 |
| `guardian_trip_shared` | does a trip stop its target? **No** | 2 ids, 1 target |
| `monitor_faults` | does the monitor skip, over-count or miss a flood, under two failures of any kind? | 3 blocks, chunks of 2, 2 failures |
| `staking` | is the contract solvent, is emission funded, can everybody leave whose tokens move, is nothing earned lost, does a multiplier need a running lock? | 2 stakers, stakes to 2, locks of 1 and 2, either stream, clock of 3 |
| `staking_lost` | is nothing earned of SRX ever lost, with both streams? **No**, by `claimBonusRewards` | 2 stakers, clock of 4 |
| `fund` | caps, coverage of contributors, emission with rounding, over several events | 2 contributors, PRECISION 3, clock of 3 |
| `presale` | are allocations earned, payments honoured, refunds covered, does the list name each holder once, are grants paid on schedule? | 2 buyers, 2 assets, 2 tiers, a correction inside the tier jump, clock of 2 |
| `tge_launch` | does the launch pay the signed destinations, in one transaction where it can, and complete when run again? | 1 stopped run, 1 edit of `.env`, 1 donation, 3 kinds of network, 4 manifests or none |
| `tge_early_stake` | does it complete when users stake early? **No** | the same |
| `role_handover` | is every contract administered, is nothing without delay after the gate, has every role a holder, does the hand-over end? | 3 ways to deploy, 2 failures |

**Why the bounds are enough to be of use.** Two actors give every order of two calls; the second
spoke, staker, contributor or buyer is the bystander whom another one's step must not harm. Each
clock lets the interesting moments come one after another: a lock or window runs, ends, and is
followed by at least one second in which a stale value could be used. Supplies and
balances are small but leave amounts to split. A mutant per property shows that each instance is
large enough to notice the bug it is for: every mutant is caught. The staking runs have PRECISION 1, the
fund's has PRECISION 3, where shares and what is owed are rounded; the theorems hold for every one. No state constraint is used, bounds
are guards on the actions named in the modules (MaxMessages, MaxBurned, MaxTime, MaxStake,
MaxFunded, BothStreams, MaxContribution, MaxReceived, MaxPaid, MaxFaults, MaxBlock, MaxEdits, MaxDonations,
SRXFunding). Symmetry is over
users only, and in runs without liveness properties.

**Deadlock** is checked in every run but three, whose systems stop: a launch whose `.env` the gate refuses
ends with its edits (`tge_launch`, `tge_early_stake`), and a hand-over ends (`role_handover`).

**Fairness.** `bridge_live` assumes weak fairness of the execution of each message: LayerZero keeps
a verified message and anyone may execute it. It assumes nothing of pauses and peers; the property
has their final restoration as its premise (`<>[]AllOpen`). `monitor_faults` assumes weak fairness of
the poll loop (pm2 restarts the process, the node answers in the end; failures are bounded), and
its property supposes that no report was given up and that the window does not end. The launch assumes that
the operator starts 06 again when it has ended without success, that a process goes on (stops are bounded by
MaxFaults) and that the Safe executes what it can; the property has a `.env` that in the end agrees with
its manifest as its premise. The hand-over assumes the same of its scripts and of the Safe, that time passes
for the Timelock and that the gate is run; the deploy scripts and `migrate_roles.js` are strongly fair,
because the older hardening script, which nobody need run, may be started in between again and again. No
other run assumes anything to happen.

## 4. What the runs found

* `staking_lost`: `claimBonusRewards` (SRXStaking.sol:878-884) lets an expired weight decay before
  the SRX stream is brought up to date, against 587-589. Every other step keeps SRX earned
  (`SRXKeptOtherwise`).
* `guardian_trip_shared`: with the registration of `08_deploy_guardian.js:189-194`, pauseAll followed
  by one unpause of TOKEN leaves BRIDGE flagged, and the next trip pauses nothing (GuardianModule.sol:529).
  What does hold of the flags is `FlagsFollowTargets`, which names every way in which one goes stale.
* `tge_early_stake`: step 4 of the launch registers the whole balance of SRXStaking
  (06_execute_tge.js:286, 297). With a user's stake in it `notifyRewardAmount` refuses, in this and every later
  run while the stake remains, against 52-54 ("Re-run this script ...").

Met while modelling and described here without a run:

* A report after the window of a trip clears `tripped` (GuardianModule.sol:513-517), after which the guardian
  reopens by itself, against 511-512 and 307.
* A module that is flagged while its target is open, as after the Safe has unpaused it, is skipped by `pauseAll`
  (GuardianModule.sol:349) and refused by `pauseModule`: the guardian cannot stop it until governance
  calls `emergencyUnpauseAll`. `StopReachesAll` has it as its exception.
* With TOKEN and BRIDGE on one token the guardian may unpause TOKEN, and with it the bridge, while the breaker
  of BRIDGE is tripped, which 306-311 is to exclude.
* A report that would trip the breaker reverts when the Safe has paused the target and the flag is clear: the strict
  `_callPause` refuses, and the volume of the report is not recorded.
* `setPeer` works while paused (SRXToken.sol:281-286), its NatSpec (256-260) says it does not.
* A crash of the monitor between a report and the save counts transfers again (line 307), its header
  (15-16) says restarts never double-count. `RecountsBounded` states what does hold. A report that
  fails for a network reason is dropped, against line 11.
* `governanceUnpause` leaves the breaker tripped, so that reports are refused on a live bridge; the
  monitor's message says that the bridge remains paused (226).
* "Rolling" windows (GuardianModule.sol:71, BuybackBurner.sol:49, 90, 244) tumble.
* `claimRewards` of SRXStaking does not decay an expired weight, against 447-448.
* `rescueStrandedPool` of SRXStaking (1073-1089) leaves `totalPendingRewards`, its bonus twin and
  StabilisationFund handle it.
* SC-ECON-001 (SRXStaking.sol:368-369, StabilisationFund.sol:483) has emission within the funded pool. It is, but for
  less than one smallest unit per second: `totalPendingRewards` is rounded down at each update while a user's share is
  rounded down once over several, so that the sum owed falls behind the sum of the shares, and the next schedule emits the
  difference again. `EmissionFunded` carries the difference as `Dust(now)`, which is 0 at PRECISION 1; without it the
  property fails with two holders and a PRECISION of 10. `_settleRewards` caps a payment by the pool and leaves
  the shortfall pending, so that the last to claim waits for it.
* `earlyWithdraw` pays what is owed of the bonus token on the way out, so that a bonus token which refuses the transfer
  (paused, or the staker on its blacklist) holds the principal too; 762-768 speaks of SRXToken only. `ExitMoves` is the premise.
* PreSaleRound.sol:787-790 has the whole list processed by consecutive pages. A removal between two pages moves the last
  investor into a page already done; a second pass, or `deployVault`, reaches it. `InvestorsListed` is about the
  list, not about a pass.
* VestingVault.sol:137-138 says a surplus is recoverable before TGE, `rescueDonatedTokens` (323-354)
  refuses until TGE or revocation.
* `refundInvestor` (PreSaleRound.sol:533-535) says withdrawn proceeds can be returned first. The round
  has no `receive()`, so ETH can be returned by a purchase only, and after `finalize` not at all: an ETH payer
  without a vault can then not be refunded from withdrawn proceeds (`ReturnFunds` models it).
* `06` queues its first four steps as one batch; sent by an admin key they are one transaction each, so
  that TGEDistributor.sol:132-134 ("atomically") holds of the first way only. `OneTransaction` says which.
* `06` checks destinations and amounts, and not that the vaults have declared their allocations: a
  batch of 03 that was never executed lets a vault grant whatever it holds (`GrantExact`).
* `verify_tge.js` compares exact balances: after the first transfer of a liquid holder it fails for ever.
* The launch gate `verify_roles.js` does not look at the guardian's own roles and modules, although
  migrate_roles.js:10-12 relies on its emergency pause.
* 09's batch calls `setExemptFromLimits`, which needs GOVERNANCE of the token (09_deploy_migrator.js:144). After phase
  1 of the migration the Safe has lost it, so that the whole batch reverts; MULTISIG_SPEC.md:70-71, 105-108 has it run then.
* `migrate_roles.js` phase 2 does not check that the Timelock administers the targets: a contract redeployed between the phases
  would be left to nobody. The model's deployments are not repeated, so that `AlwaysAdministered` does not meet it.
* Step 2 of `pre_mainnet_roles.js` revokes even where step 1 failed to grant (`NoGap` has it as its exception), and its
  last words say that the deployer has no elevated roles, though it keeps every DEFAULT_ADMIN.
* The gate cannot pass where deployer and admin are one key, as on the test stack (`HandoverCompletes` leaves it out).
* Running 08 again deploys a second guardian while the first keeps PAUSER on every target.
* Scripts read different names for one address (STABILISATION_FUND and STABILISATION, GUARDIAN and
  GUARDIAN_MODULE); `verify_all.js` compares stale constructor arguments (107, 197); `rehearse_deploy_suite.js` executes the
  queued calls one at a time, so that what a Safe does atomically is not rehearsed.
* `_usdFromSrx` documents a fallback to the entry tier (1231-1233) that 1267-1272 replaced by a revert.

## 5. Proofs

Every theorem holds for all values of the constants that satisfy the named assumptions of its module: any finite
set of chains, accounts, users, assets or tiers (the code has no bound on any of them), any amounts, rates, locks, windows,
clocks and failure bounds.

| Theorem | Module | Property | Inductive invariant |
|---|---|---|---|
| `TypeCorrect`, `HubConserves`, `SpokesBacked`, `GlobalCapHolds`, `SoundMessagesExecutable` | `BridgeProofs` | `TypeOK`, `HubConservation`, `SpokeBacking`, `GlobalCap`, `Executable` | `IInv` |
| `SoundMessagesNeverStranded` | `BridgeProofs` | the guards of `NeverStranded` | `IInv` |
| `BridgeImplementsLedger` | `BridgeProofs` | `ImplementsLedger` | `IInv` |
| `StopAlwaysReaches`, `BatchesAlwaysReconcile`, `FlagsAlwaysFollow` | `MonitorProofs` | `StopReachesAll`, `BatchesReconcile`, `FlagsFollowTargets` | `GuardianInv` |
| `MonitorNeverSkips` | `MonitorProofs` | `NeverSkips` | `ScanInv` |
| `MonitorRecountsBounded` | `MonitorProofs` | `RecountsBounded` | `CountInv` |
| `StakesBacked`, `MultiplierNeedsLock` | `StakingProofs` | `Backed`, `WeightNeedsLock` | `StakingInv` |
| `BonusEarnedKept`, `SRXEarnedKept` | `StakingProofs` | `BonusKept`, `SRXKeptOtherwise` | `StakingInv`, `BonusUnset` |
| `EmissionIsFunded` | `StakingProofs` | `EmissionFunded` | `StakingInv`, `FundedInv` |
| `ExitNeverReverts` | `StakingProofs` | the guards of `ExitAvailable`, its premise `ExitMoves` included | `StakingInv` |
| `FastPathsCapped`, `GovernanceAloneUncovers`, `ContributorsEarnedKept` | `FundProofs` | `CapsHold`, `OnlyGovernanceUncovers`, `EarnedKept` | `FundInv` |
| `RewardsInPool` | `FundProofs` | `EmissionFunded` | `FundInv`, `FundFunded` |
| `RefundsAlwaysCovered`, `PaymentsHonoured`, `ListNamesHoldersOnce` | `PreSaleProofs` | `RefundsCovered`, `PaymentHonoured`, `InvestorsListed` | `PreSaleInv` |
| `AllocationsEarned`, `GrantsKept` | `PreSaleProofs` | `AllocationEarned`, `GrantKept` | `PreSaleInv` with `EarnedInv`, `GrantInv` |
| `DistributionsChecked`, `LaunchesInOneTransaction`, `GrantsExact` | `TgeProofs` | `CheckedDistribution`, `OneTransaction`, `GrantExact` | `LaunchInv` |
| `SuccessesVerified` | `TgeProofs` | `SuccessVerified`, under `DistributorUnpaid` | `LaunchInv`, `SeenInv`, `QuietInv` |
| `HandoverAdministered`, `HandoverNoGap`, `HandoverNeverGoverns` | `HandoverProofs` | `AlwaysAdministered`, `NoGap`, `SafeNeverGoverns` | `HandoverInv` |
| `HandoverTruthful`, `HandoverDelayOnly` | `HandoverProofs` | `HardenedTruthful`, `DelayOnlyOnceGated` | `HandoverInv` |

* **Sums.** `Totals` defines a sum as a cardinality, so that the lemmas of `CommonProofs` follow from the library's facts on
  finite sets and needs no induction: `Total(f)` is a natural number and moves by what one entry moves by
  (`TotalChange`), by what a key added or removed holds (`TotalExtend`, `TotalShrink`), and bounds each entry
  (`TotalBound`).
* **The accumulator.** `CommonProofs` shows that updates of the index, and a new schedule, leave the pool
  alone, that a settlement takes from the pool what it pays, and that none of them lowers what anybody has earned by
  more than it pays, whatever the divisions leave over: the index only grows, and an update banks at the old weight
  before the weight changes.
* **Funded streams.** What users have is compared with the pool before it is rounded: `RawShares` counts it in units of
  1 / PRECISION, for which an update is an equation (an inequality would not add up over users), and `FundedStream` keeps two
  bounds. `OwedCovers`: the shares exceed what the contract believes it owes by no more than a unit's fraction per second
  behind `last`. `PoolCovers`: shares and what the schedule still emits are within the pool and the same dust. The first is what
  makes the second survive a new schedule, which is computed from `owed` alone. The dust is counted up to `last` and not by
  updates, because an update in the same second adds none, and `last` never passes the end of the schedule. The staking pool's rescue takes what is owed
  too, so that `IdleDust` is needed there: when nobody holds weight, dust is all that anybody has pending, as everybody who left was paid or
  met an empty pool. `PrincipalWeighs` (no multiplier is below one) makes a staker without weight one without position. Before the
  bonus token is set the bonus has no schedule. `BankFunded`, `SettleFunded`, `ScheduleFunded` and `RescueFunded` are the four things calls do to a stream.
* **ENABLED.** The provers do not reach it, so that `NeverStranded` and `ExitAvailable` are proved in two pieces. An invariant says that every
  check, subtraction and transfer of the call goes through (`SoundMessagesDeliverable`, `ExitsOpen`); a lemma says that with these
  guards one value for each variable makes a step of the action, so that nothing was forgotten (`DeliverableIsReceived`,
  `OpenExitIsTaken`). What is left to TLC is that ENABLED means the existence of such values.
* **Bridge.** `IInv == TypeOK /\ Wellformed /\ HubConservation /\ SpokeBacking`. `Wellformed` (a message joins the
  hub and a spoke, no chain is its own peer) is what makes `SpokeBacking` inductive: a message between two spokes
  would be in transit for both. `GlobalCap` and `Executable` follow from `IInv` alone. The refinement lemmas map
  each action to a step of `SupplyLedger` or a stutter.
* **Guardian.** `GuardianInv` is types: a registered module names a target that exists. Nothing is assumed of how modules
  share targets, of the roles that this contract holds or of the admin Safe. The argument is in the loop: `TryServes` is one pass,
  `DoneMore` adds a pass to those through the ids of a set `D` (each visited id is served, the rest is as before, and only the
  targets of visited ids have moved), and the induction over the list gives `Done` for all ids (`BatchServes`). No pass
  undoes an earlier one, because all passes of a call drive their targets the same way. The three theorems are properties of steps.
* **Monitor.** `NeverSkips` speaks of what lies behind the recorded progress. It is not inductive, as a scan moves ahead of
  the progress: `ScanForward` says that a scan lies beyond the progress and holds only logs it has
  fetched, `ScanReported` that what it is done with was put to the contract or given up. `CountsPaid` lets every count of a transfer but
  one be paid for by a failure, and the one be behind the progress or the scan: saving the progress and losing it
  then keep it.
* **Staking.** `StakingInv` joins the positions (each with a lock of a known duration, no weight without
  principal, both totals the sums of the positions) with the money (`Backed`). `PositionChange` serves every call
  that changes a position, `SettlementBacked` every call that pays. `MultiplierNeedsLock` is a property of
  steps from the same invariant. The two theorems on what is earned hold with rounding; what a step pays is measured on the pool,
  not per staker (`PaidOut`). They need `BonusUnset` besides: before
  the bonus token is set nothing of it is emitted, so that the calls that skip its update lose nothing.
* **Fund.** `FundInv` is types, `CapsHold` and `CapsOrdered`: the caps in force are among those seen since the event
  began, and the deployer's is the smaller one, which is what keeps `CapsHold` when governance moves the caps during an
  event. `GovernanceAloneUncovers` needs `Covered => Covered'` of every other step. `ContributorsEarnedKept` takes
  every call as updates and settlements of the stream, rounding included.
* **Presale.** `PreSaleInv` is `RefundsCovered`, taken column by column (`ColumnChange`), the records (the list
  names the investors, each once, and the total is their sum) and `PaymentHonoured`. `AllocationsEarned` rests on
  `ComputeMonotone`: a dollar more never buys less, over every ladder of tiers. `GrantInv` adds to `GrantKept` what makes it
  inductive (`Keeps`): the vault expects, and at the TGE has fixed, exactly the allocation, only investors have vaults, and a
  vault is revoked after its TGE only.
* **Launch.** `LaunchInv` is `FilesInv` (types), `ChainInv` (what the chain shows was paid by a checked list; each clock
  that runs has its row's grant; through the Safe both or neither), `BatchesInv` and `RunInv`. The last two carry the argument: a
  batch or the rest of a run pays out only behind the call that sets the list (`Leads`, or the list is in place already) and, as
  a batch, starts every clock that its list needs (`Starts`). `BatchTrace` unfolds a Safe batch into the chains between its calls,
  `Steps` (in `CommonProofs`) is the induction along them, which the library's well-founded induction gives for a set. `SuccessesVerified` adds `SeenInv`
  (what a run has seen done is done) and `QuietInv` (the balances are the rows, nobody registers more than
  Staking's row, and what is not yet done is still in the run's list). Its hypothesis `DistributorUnpaid` says that no signed manifest
  pays a row to the distributor itself, which the gate does not look for and without which the last check of
  `verify_tge.js` could not pass; TLC evaluates it for the manifests of its instance (`MCTgeLaunch`).
  The assumptions are on the inputs only: the rows have distinct labels and positive amounts, every vault row has a vault
  that pays its named beneficiary, neither the distributor nor the staking pool is a vault, and a file names an
  address, or nothing, per row.
* **Hand-over.** Any set of modes, any number of stops, vetoes and calls that fail or arrive late. The clauses of
  `HandoverInv` are what is true while every batch file ever written may still be executed, a script may be half-way
  and the gate may be reading:
  * `BornInv`, `AdminInv`: types; what deployments and calls may grant at all (`Fine`); an administrator for everything.
  * `BatchInv`, `RunInv`: every list of calls, in a file or in a process, is `Covered`: a call that revokes finds what
    replaces the role earlier in the list or already on the chain. This is inductive because it counts what the
    Timelock and the guardian hold only (`Kept`), which no call of any script takes from them: a batch written before a later
    run, and executed after it, is still covered. `Todo` drops only steps whose role is in place, so that it keeps a list
    covered (`Picked`). `Passing` says that a batch which makes the Safe governance of the guardian also ends it.
  * `FillInv`, `LateInv`, `HardInv`: the exceptions of the older script. A role is without a holder, and a call arrives
    late, only if a run of it failed or is failing; a success report means that it did not.
  * `GovInv`: on a network with a Safe, nobody sees the state inside its transaction.
  * `GateInv`: what the gate has read of the contracts before the one it is at stays `Clean`, though scripts and
    batches go on meanwhile: to be given a role of a governed contract back, the Safe would need a call that no script makes
    (`LawfulCalls`), or a deployment, and the gate starts when all are there.

**Only model-checked.** Liveness (`DeliveredOnceOpen`, `FloodTrips`, `TgeCompletes`, `HandoverCompletes`) and the
properties that state ENABLED (`NeverStranded` and `ExitAvailable`, whose guards are theorems). `TripStopsTarget` is false (section 4), and so is `SRXKept`.

## 6. Not modelled

* **SRXTreasury, BuybackBurner, SRXAirdrop, ZkSyncMigrator**: planned. None of them shares state with a modelled contract but
  for balances; their hazards are in `PROJECT.json`.
* **FeeController** and the tiers of SRXStaking: pure arithmetic over settings, planned.
* **SRXGovernor's voting**, ERC20Votes, permit, proxies and their upgrades: OpenZeppelin's, whose sources are not in the
  repository. Outside `RoleHandover` governance does at any time whatever its role allows, which covers every delay.
* **GenesisAgreementRegistry**: events only.
* **Pauses and limits of SRXToken** outside `Bridge`, `Guardian` and `Staking`: a transfer that they refuse is a call that does not
  happen, and no property of the other modules promises that one does (but for the launch, below). The launch limits of
  the token (SRXToken.sol:410-421) are off in `Staking` too: one that binds the wallet of a staker shuts his exit as well.
* **Launch**: the check of the launch limits in `verify_tge.js`, token pauses and limits, and settings of
  `00_config.js` that the launch does not read.
* **PreSaleRound's oracle settings** (a reading that they reject is a disabled purchase), **StabilisationFund's ETH and stable
  tokens** and its layer targets, views, counters and reason strings.
* **Rounding** in the other direction: how much of what is funded the flooring leaves in a pool for ever.
* **Reorganisations** below the monitor's head: the monitor keeps no block hashes, so that a model would show only that.
* **Other scripts**: `07`, `10`, `verify_all.js` and the one-off scripts under `scripts/ops` send a few transactions by
  hand and keep no state. Mocks and tooling have no protocol state.

## 7. Plan

1. `Treasury` (SRXTreasury and BuybackBurner, one window of `_consumeSwapLimit` per token), `Airdrop`,
   `Migration`, `Fees` (FeeController over bounded inputs against a reference, with the tiers of SRXStaking).
2. An abstract `Solvency` specification (principal in, principal out, rewards out of what was funded)
   that both `Staking` and `StabilisationFund` implement, proved from `StakingInv` and `FundInv`.
3. Rounding of `RewardStream`: what the flooring can leave behind in a pool.

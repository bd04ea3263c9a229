----------------------------- MODULE TgeLaunch -----------------------------
(***************************************************************************)
(* The token launch (TGE): scripts/deploy/03_deploy_vesting.js and          *)
(* 06_execute_tge.js, the destination gate of lib/tge_targets.js, the       *)
(* routing of admin calls of lib/adminTx.js, and what they call on-chain:   *)
(* TGEDistributor, SRXToken.genesis, VestingVault and the incentive pool of *)
(* SRXStaking.                                                              *)
(*                                                                         *)
(* A run of 06 is one operator's process.  It reads the .env file once,     *)
(* takes its snapshot of the chain getter by getter, and then either sends  *)
(* its calls one at a time (the signer is the admin) or writes them as one  *)
(* batch for the admin Safe.  A process may stop between any two of its     *)
(* steps and be started again; the .env file may be edited between runs;    *)
(* the Safe executes any batch ever written, at any later time, more than   *)
(* once if it is imported again, and atomically.                            *)
(***************************************************************************)
EXTENDS Totals, Loops

CONSTANTS
    Plan,           \* TGE_PLAN: a sequence of [label, kind, amount]
    Address,        \* every address a variable of .env may hold
    Distributor,    \* the TGEDistributor
    StakingPool,    \* the SRXStaking contract
    Contracts,      \* the addresses with code
    Vaults,         \* vault address -> [row |-> the row it was deployed for, payee |-> "named" or "other"]
    TestnetWallet,  \* TESTNET_WALLET_DEFAULTS
    Unset,          \* a variable missing from .env
    NoManifest,     \* no deploy/addresses.<network>.json
    EnvFiles,       \* contents of .env: [dest |-> label -> address, roles |-> "live", "other" or Unset]
    Manifests,      \* manifests: [network, dest, amount, pinned]
    EarlyStake,     \* whether users may stake before the incentive pool is registered
    MaxEdits,       \* bound: changes of .env
    MaxFaults,      \* bound: stops and answers "no" of all runs together
    MaxDonations    \* bound: tokens sent to a vault by mistake

Rows    == {Plan[i] : i \in DOMAIN Plan}
Labels  == {row.label : row \in Rows}
Row(l)  == CHOOSE row \in Rows : row.label = l
Amount  == [l \in Labels |-> Row(l).amount]
MAX_SUPPLY == Total(Amount)

ASSUME PlanAssumption ==
    /\ Plan \in Seq([label : STRING, kind : {"vault", "wallet", "contract"}, amount : Nat \ {0}])
    /\ \A i, j \in DOMAIN Plan : Plan[i].label = Plan[j].label => i = j
    /\ {"Staking", "StabilisationFund"} \subseteq Labels
ASSUME AddressAssumption ==
    /\ {Distributor, StakingPool, TestnetWallet} \cup Contracts \cup DOMAIN Vaults \subseteq Address
    /\ DOMAIN Vaults \subseteq Contracts /\ StakingPool \in Contracts /\ TestnetWallet \notin Contracts
    /\ Unset \notin Address /\ {Distributor, StakingPool} \cap DOMAIN Vaults = {}
    /\ Vaults \in [DOMAIN Vaults -> [row : Labels, payee : {"named", "other"}]]
    /\ \A row \in Rows : row.kind = "vault" =>
           \E a \in DOMAIN Vaults : Vaults[a] = [row |-> row.label, payee |-> "named"]
ASSUME FilesAssumption ==
    /\ EnvFiles \subseteq [dest : [Labels -> Address \cup {Unset}], roles : {"live", "other", Unset}]
    /\ Manifests \subseteq [network : {"real", "testnet", "local"}, dest : [Labels -> Address],
                            amount : [Labels -> Nat], pinned : BOOLEAN]

VARIABLES
    network,        \* "real", "testnet" or "local"
    signerIsAdmin,  \* adminTx isAdmin(): the loaded signer is WALLETS.admin
    env, manifest,  \* the two files the gate compares
    deployed,       \* 03 has been run
    chain,          \* the state on-chain
    batches,        \* every batch file ever written for the admin Safe
    run,            \* the process of 06
    edits, faults, donations
vars == <<network, signerIsAdmin, env, manifest, deployed, chain, batches, run, edits, faults, donations>>

-----------------------------------------------------------------------------
(* The contracts: when a call reverts, and what it does when it does not.   *)

NoList == <<>>

\* Mutant of Reverts: what is registered already is available again.
RevertsForgetfulPool(c, call) ==
    CASE call.fn = "notify"       -> call.amount > c.bal[StakingPool] - c.locked
      [] call.fn = "triggerTGE"   -> call.at \in c.triggered \/ c.bal[call.at] = 0
      [] call.fn = "genesis"      -> c.genesis
      [] OTHER                    -> c.distributed

Reverts(c, call) ==
    CASE call.fn = "declare"        -> call.at \in c.triggered \/ c.declared[call.at] # 0
      [] call.fn = "setAllocations" -> c.distributed
      [] call.fn = "genesis"        -> c.genesis
      [] call.fn = "distribute"     -> c.distributed \/ c.bal[Distributor] < MAX_SUPPLY \/ c.allocations = NoList
      [] call.fn = "triggerTGE"     -> call.at \in c.triggered \/ c.bal[call.at] = 0
                                       \/ c.bal[call.at] < c.declared[call.at]
      [] call.fn = "notify"         -> call.amount > c.bal[StakingPool] - (c.locked + c.rewardPool)

\* What an allocation list sends to an address.
Sent(list, a) == Total([l \in {k \in Labels : list[k] = a} |-> Amount[l]])

\* Mutant of Effect: the clock starts on whatever the vault holds.
EffectGrantsBalance(c, call) ==
    CASE call.fn = "declare"        -> [c EXCEPT !.declared[call.at] = call.amount]
      [] call.fn = "setAllocations" -> [c EXCEPT !.allocations = call.list]
      [] call.fn = "genesis"        -> [c EXCEPT !.genesis = TRUE, !.bal[Distributor] = @ + MAX_SUPPLY]
      [] call.fn = "distribute"     ->
            [c EXCEPT !.distributed = TRUE,
                      !.bal = [a \in Address |-> @[a] + Sent(c.allocations, a)
                                                 - IF a = Distributor THEN MAX_SUPPLY ELSE 0]]
      [] call.fn = "triggerTGE"     -> [c EXCEPT !.triggered = @ \cup {call.at}, !.grant[call.at] = c.bal[call.at]]
      [] call.fn = "notify"         -> [c EXCEPT !.rewardPool = @ + call.amount]

Effect(c, call) ==
    CASE call.fn = "declare"        -> [c EXCEPT !.declared[call.at] = call.amount]
      [] call.fn = "setAllocations" -> [c EXCEPT !.allocations = call.list]
      [] call.fn = "genesis"        -> [c EXCEPT !.genesis = TRUE, !.bal[Distributor] = @ + MAX_SUPPLY]
      [] call.fn = "distribute"     ->
            [c EXCEPT !.distributed = TRUE,
                      !.bal = [a \in Address |-> @[a] + Sent(c.allocations, a)
                                                 - IF a = Distributor THEN MAX_SUPPLY ELSE 0]]
      [] call.fn = "triggerTGE"     ->
            [c EXCEPT !.triggered = @ \cup {call.at},
                      !.grant[call.at] = IF c.declared[call.at] # 0 THEN c.declared[call.at] ELSE c.bal[call.at]]
      [] call.fn = "notify"         -> [c EXCEPT !.rewardPool = @ + call.amount]

\* A Safe transaction: the chain after all of the calls, or none if one reverts.
Execute(calls, c) ==
    LET after[i \in 0..Len(calls)] ==
            IF i = 0 THEN {c}
            ELSE {Effect(before, calls[i]) : before \in {b \in after[i - 1] : ~Reverts(b, calls[i])}}
    IN after[Len(calls)]

-----------------------------------------------------------------------------
(* The destination gate, lib/tge_targets.js.                                *)

IsTestnet == network \in {"testnet", "local"}

\* walletFor: the fallback is for testnets only, and a real network refuses the testnet addresses.
WalletFor(raw) ==
    IF raw = Unset THEN IF IsTestnet THEN TestnetWallet ELSE Unset
    ELSE IF ~IsTestnet /\ raw = TestnetWallet THEN Unset ELSE raw

\* buildTgeAllocations; an Unset entry stands for its throw.
AllocationsOf(e) == [l \in Labels |-> IF Row(l).kind = "wallet" THEN WalletFor(e.dest[l]) ELSE e.dest[l]]

\* liveRoles: the admin, Timelock, governor and guardian of .env, as one; the manifest
\* pins all of them or none.
RolesAgree(e, m) == IF m.pinned THEN e.roles = "live" ELSE IsTestnet

\* The vault flag that the manifest repeats of each row is taken to be the row's kind.
CheckAgainstManifest(list, e, m) ==
    /\ m.network = network
    /\ \A l, k \in Labels : list[l] = list[k] => l = k
    /\ \A l \in Labels : list[l] = m.dest[l] /\ Amount[l] = m.amount[l]
    /\ RolesAgree(e, m)

CheckOnChain(list, m) ==
    \A l \in Labels :
        IF list[l] \notin Contracts
        THEN Row(l).kind = "wallet" /\ IsTestnet
        ELSE Row(l).kind = "vault" => /\ list[l] \in DOMAIN Vaults
                                      /\ Vaults[list[l]].row = l
                                      /\ m.pinned => Vaults[list[l]].payee = "named"

RunTgeTargetChecks(e) ==
    LET list == AllocationsOf(e) IN
    /\ \A l \in Labels : list[l] # Unset
    /\ IF manifest = NoManifest THEN network = "local"
       ELSE CheckAgainstManifest(list, e, manifest) /\ CheckOnChain(list, manifest)

-----------------------------------------------------------------------------
(* The calls of the two scripts.                                            *)

VaultLabels == {l \in Labels : Row(l).kind = "vault"}

VaultRows == Picked(Plan, [i \in DOMAIN Plan |-> Plan[i].kind = "vault"])

\* 03: every vault declares its row's amount, and the distributor gets a first
\* list, in which wallets stand in for the contracts that later steps deploy.
FirstList(vaultOf) == [l \in Labels |-> IF Row(l).kind = "vault" THEN vaultOf[l] ELSE TestnetWallet]
VestingBatch(vaultOf) ==
    [i \in DOMAIN VaultRows |-> [fn |-> "declare", at |-> vaultOf[VaultRows[i].label], amount |-> VaultRows[i].amount]]
    \o <<[fn |-> "setAllocations", list |-> FirstList(vaultOf)]>>

\* 06, steps 0 to 3: what the snapshot of the run leaves to do.
Allocate(r)   == IF r.distributedDone THEN <<>> ELSE <<[fn |-> "setAllocations", list |-> r.list]>>
Genesis(r)    == IF r.genesisDone THEN <<>> ELSE <<[fn |-> "genesis"]>>
Distribute(r) == IF r.distributedDone THEN <<>> ELSE <<[fn |-> "distribute"]>>
TriggerAll(r) == [i \in DOMAIN VaultRows |-> [fn |-> "triggerTGE", at |-> r.list[VaultRows[i].label]]]
Trigger(r)    == Picked(TriggerAll(r), [i \in DOMAIN VaultRows |-> r.list[VaultRows[i].label] \notin r.triggered])

\* Mutants of PhaseA: the list of 03 is taken as it is; every clock is started
\* again as long as one is missing.
PhaseAKeepsList(r) == Genesis(r) \o Distribute(r) \o Trigger(r)
PhaseATriggersAll(r) ==
    IF Allocate(r) \o Genesis(r) \o Trigger(r) = <<>> THEN <<>>
    ELSE Allocate(r) \o Genesis(r) \o Distribute(r) \o TriggerAll(r)
PhaseA(r) == Allocate(r) \o Genesis(r) \o Distribute(r) \o Trigger(r)

NoRun == [at |-> "none"]

\* The vaults 03 deploys: for every vault row the one paying its named beneficiary.
DeployedVaults == [l \in VaultLabels |->
                      CHOOSE a \in DOMAIN Vaults : Vaults[a] = [row |-> l, payee |-> "named"]]

Init ==
    /\ network \in {"real", "testnet", "local"}
    /\ signerIsAdmin \in IF network = "real" THEN {FALSE} ELSE BOOLEAN
    /\ env \in EnvFiles
    /\ manifest \in Manifests \cup {NoManifest}
    /\ deployed = FALSE
    /\ chain = [genesis |-> FALSE, allocations |-> NoList, distributed |-> FALSE,
                bal |-> [a \in Address |-> 0], declared |-> [a \in Address |-> 0],
                grant |-> [a \in Address |-> 0], triggered |-> {}, rewardPool |-> 0, locked |-> 0]
    /\ batches = {}
    /\ run = NoRun
    /\ edits = 0 /\ faults = 0 /\ donations = 0

\* adminTx flush: the queued calls become a file for the Safe.
Flush(calls) == batches' = batches \cup {calls}

\* 03_deploy_vesting.js; in direct mode only a complete run counts, a stopped one is run again.
DeployVesting ==
    /\ ~deployed
    /\ deployed' = TRUE
    /\ IF signerIsAdmin
       THEN chain' \in Execute(VestingBatch(DeployedVaults), chain) /\ UNCHANGED batches
       ELSE Flush(VestingBatch(DeployedVaults)) /\ UNCHANGED chain
    /\ UNCHANGED <<network, signerIsAdmin, env, manifest, run, edits, faults, donations>>

\* The operator edits .env; a running process has read it already.
EditEnv ==
    /\ run = NoRun /\ edits < MaxEdits
    /\ env' \in EnvFiles \ {env}
    /\ edits' = edits + 1
    /\ UNCHANGED <<network, signerIsAdmin, manifest, deployed, chain, batches, run, faults, donations>>

\* 06 starts: the gate, or a Stabilisation Fund without code, stops the run.
StartRun ==
    /\ run = NoRun \/ run.at = "success"
    /\ deployed /\ RunTgeTargetChecks(env)
    /\ AllocationsOf(env)["StabilisationFund"] \in Contracts
    /\ run' = [at |-> "genesisComplete", list |-> AllocationsOf(env)]
    /\ UNCHANGED <<network, signerIsAdmin, env, manifest, deployed, chain, batches, edits, faults, donations>>

\* The pre-flight reads, one getter call after another.
ReadGenesis ==
    /\ run.at = "genesisComplete"
    /\ run' = [at |-> "distributed", list |-> run.list, genesisDone |-> chain.genesis]
ReadDistributed ==
    /\ run.at = "distributed"
    /\ run' = [at |-> "tgeTriggered", list |-> run.list, genesisDone |-> run.genesisDone,
               distributedDone |-> chain.distributed]
\* The getter of each vault in turn; taken in one step, as a clock that runs never stops.
ReadTriggered ==
    /\ run.at = "tgeTriggered"
    /\ LET r == [list |-> run.list, genesisDone |-> run.genesisDone,
                 distributedDone |-> run.distributedDone, triggered |-> chain.triggered]
           phaseADone == PhaseA(r) = <<>>
           answer == \A l \in VaultLabels : run.list[l] \in DOMAIN Vaults
       IN run' = IF ~answer THEN NoRun
                 ELSE [at |-> IF phaseADone THEN "balanceOf"
                              ELSE IF network = "local" THEN "send" ELSE "confirm",
                       list |-> run.list, todo |-> PhaseA(r)]
Confirm ==
    /\ run.at = "confirm"
    /\ run' = [run EXCEPT !.at = "send"]
Preflight ==
    /\ ReadGenesis \/ ReadDistributed \/ ReadTriggered \/ Confirm
    /\ UNCHANGED <<network, signerIsAdmin, env, manifest, deployed, chain, batches, edits, faults, donations>>

\* Steps 0 to 3 sent by the admin itself, one transaction at a time.  A revert
\* stops the run, and so does a distributor balance other than expected.
SendDirect ==
    /\ run.at = "send" /\ signerIsAdmin
    /\ LET call == Head(run.todo)
           expected == CASE call.fn = "genesis" -> {MAX_SUPPLY} [] call.fn = "distribute" -> {0} [] OTHER -> Nat
       IN IF Reverts(chain, call) THEN run' = NoRun /\ UNCHANGED chain
          ELSE /\ chain' = Effect(chain, call)
               /\ run' = IF chain'.bal[Distributor] \notin expected THEN NoRun
                         ELSE [run EXCEPT !.todo = Tail(@), !.at = IF Len(run.todo) = 1 THEN "balanceOf" ELSE @]
    /\ UNCHANGED <<network, signerIsAdmin, env, manifest, deployed, batches, edits, faults, donations>>

\* Mutant of QueuePhaseA: the clocks get a batch of their own.
QueuePhaseASplit ==
    /\ run.at = "send" /\ ~signerIsAdmin
    /\ LET isTrigger(call) == call.fn = "triggerTGE" IN
       batches' = batches \cup {SelectSeq(run.todo, LAMBDA call : ~isTrigger(call)), SelectSeq(run.todo, isTrigger)}
    /\ run' = NoRun
    /\ UNCHANGED <<network, signerIsAdmin, env, manifest, deployed, chain, edits, faults, donations>>

\* Steps 0 to 3 queued as one batch: the run stops here rather than read a stale balance.
QueuePhaseA ==
    /\ run.at = "send" /\ ~signerIsAdmin
    /\ Flush(run.todo)
    /\ run' = NoRun
    /\ UNCHANGED <<network, signerIsAdmin, env, manifest, deployed, chain, edits, faults, donations>>

\* Step 4 reads the staking contract's balance, then its pool.
ReadStakingBalance ==
    /\ run.at = "balanceOf"
    /\ run' = [at |-> "rewardPool", list |-> run.list, amount |-> chain.bal[run.list["Staking"]]]
    /\ UNCHANGED <<network, signerIsAdmin, env, manifest, deployed, chain, batches, edits, faults, donations>>

Success == [at |-> "success", list |-> run.list]

Register ==
    /\ run.at = "rewardPool"
    /\ LET call == [fn |-> "notify", amount |-> run.amount] IN
          IF run.list["Staking"] # StakingPool
          THEN run' = NoRun /\ UNCHANGED <<chain, batches>>
          ELSE IF chain.rewardPool > 0 \/ run.amount = 0
          THEN run' = Success /\ UNCHANGED <<chain, batches>>
          ELSE IF signerIsAdmin
          THEN /\ IF Reverts(chain, call) THEN run' = NoRun /\ UNCHANGED chain
                  ELSE run' = Success /\ chain' = Effect(chain, call)
               /\ UNCHANGED batches
          ELSE Flush(<<call>>) /\ run' = NoRun /\ UNCHANGED chain
    /\ UNCHANGED <<network, signerIsAdmin, env, manifest, deployed, edits, faults, donations>>

\* The process dies, or the operator answers no: what was not flushed is lost.
StopRun ==
    /\ run # NoRun /\ run.at # "success" /\ faults < MaxFaults
    /\ faults' = faults + 1
    /\ run' = NoRun
    /\ UNCHANGED <<network, signerIsAdmin, env, manifest, deployed, chain, batches, edits, donations>>

\* The admin Safe executes a batch; one that reverts changes nothing.
ExecuteBatch ==
    /\ \E calls \in batches : chain' \in Execute(calls, chain)
    /\ UNCHANGED <<network, signerIsAdmin, env, manifest, deployed, batches, run, edits, faults, donations>>

\* Holders of the liquid rows: a token sent to a vault by mistake, or staked.  A stake
\* stays: what goes wrong while one is there is in question, not that it may leave.
Holders == {a \in Address : /\ chain.distributed /\ chain.bal[a] > 0
                            /\ \E l \in Labels : Row(l).kind = "wallet" /\ chain.allocations[l] = a}
Transfer(c, a, b) == LET sent == [c EXCEPT !.bal[a] = @ - 1] IN [sent EXCEPT !.bal[b] = @ + 1]
Donate ==
    /\ donations < MaxDonations
    /\ \E a \in Holders, v \in DOMAIN Vaults : chain' = Transfer(chain, a, v)
    /\ donations' = donations + 1
    /\ UNCHANGED <<network, signerIsAdmin, env, manifest, deployed, batches, run, edits, faults>>
Stake ==
    /\ EarlyStake \/ chain.rewardPool > 0
    /\ chain.locked = 0
    /\ \E a \in Holders : chain' = [Transfer(chain, a, StakingPool) EXCEPT !.locked = @ + 1]
    /\ UNCHANGED <<network, signerIsAdmin, env, manifest, deployed, batches, run, edits, faults, donations>>

Next ==
    \/ DeployVesting \/ EditEnv \/ StartRun \/ Preflight
    \/ SendDirect \/ QueuePhaseA \/ ReadStakingBalance \/ Register
    \/ StopRun \/ ExecuteBatch \/ Donate \/ Stake

\* The operator runs 03 and then 06 until it reports success, the process keeps
\* going, and the Safe executes what it can.
Fairness ==
    /\ WF_vars(DeployVesting) /\ WF_vars(StartRun /\ run = NoRun)
    /\ WF_vars(Preflight) /\ WF_vars(SendDirect) /\ WF_vars(QueuePhaseA)
    /\ WF_vars(ReadStakingBalance) /\ WF_vars(Register)
    /\ WF_vars(ExecuteBatch)

Spec == Init /\ [][Next]_vars /\ Fairness

-----------------------------------------------------------------------------
(* What the launch promises.                                                *)

\* The list that is paid out is the signed one, whatever was edited, stopped,
\* queued or executed in between: the wallets that 03 put in provisionally are
\* never paid, no two rows share a destination, and on a real network no row
\* goes to a single-key wallet or to a vault of another payee
\* (06_execute_tge.js 106-138, lib/tge_targets.js).
CheckedDistribution ==
    chain.distributed =>
        /\ manifest = NoManifest => network = "local"
        /\ manifest # NoManifest => chain.allocations = manifest.dest
        /\ manifest # NoManifest => \A l, k \in Labels : chain.allocations[l] = chain.allocations[k] => l = k
        /\ network = "real" =>
               /\ \A l \in Labels : chain.allocations[l] \in Contracts
               /\ \A l \in VaultLabels : Vaults[chain.allocations[l]] = [row |-> l, payee |-> "named"]

\* Through the Safe the launch is one transaction: nobody ever sees the tokens
\* distributed and a vesting clock not started (06_execute_tge.js 36-50).
OneTransaction ==
    ~signerIsAdmin /\ chain.distributed =>
        \A l \in VaultLabels : chain.allocations[l] \in chain.triggered

\* A vault's grant is its row's amount, however many tokens were sent to it by
\* mistake; only a vault whose declaration the Safe has not executed in time may
\* have granted more (03_deploy_vesting.js 59-80, VestingVault.triggerTGE).
GrantExact ==
    manifest # NoManifest => \A v \in chain.triggered :
        IF chain.declared[v] # 0 THEN chain.grant[v] = Amount[Vaults[v].row]
        ELSE chain.grant[v] \in Amount[Vaults[v].row]..(Amount[Vaults[v].row] + donations)

\* verify_tge.js: supply, every balance, every clock and the incentive pool.
PoolRegistered == chain.rewardPool = Amount["Staking"]
VerifyTge(list) ==
    /\ chain.genesis /\ chain.distributed
    /\ Total(chain.bal) = MAX_SUPPLY
    /\ \A l \in Labels : chain.bal[list[l]] = Amount[l]
    /\ chain.bal[Distributor] = 0
    /\ \A l \in VaultLabels : list[l] \in chain.triggered
    /\ PoolRegistered

\* What the gate does not look for: a row paid to the distributor itself.
DistributorUnpaid == \A m \in Manifests : \A l \in Labels : m.dest[l] # Distributor

\* A run that reports success has left a chain that passes verify_tge.js, and
\* it stays so when the Safe executes a batch a second time, until users move
\* tokens (06_execute_tge.js 141-173, 293-321).
SuccessVerified ==
    run.at = "success" /\ manifest # NoManifest /\ donations = 0 /\ chain.locked = 0 => VerifyTge(run.list)

\* However often runs stop and batches are queued twice, a launch whose .env
\* in the end agrees with its manifest is completed by running the script again
\* (06_execute_tge.js 52-54).
TgeCompletes ==
    <>[](manifest # NoManifest /\ RunTgeTargetChecks(env)) => <>(run.at = "success")
=============================================================================

---------------------------- MODULE RoleHandover ----------------------------
(***************************************************************************)
(* Who may do what, from deployment to launch: the constructors and the     *)
(* wiring of the deploy scripts 01 to 05b, 08 and 09 and of                 *)
(* ops/deploy_tge_teststack.js, the hand-over of ops/migrate_roles.js in    *)
(* its two phases, the older ops/pre_mainnet_roles.js with                  *)
(* ops/fix_treasury_governance_role.js, and the launch gate                 *)
(* verify/verify_roles.js.                                                  *)
(*                                                                         *)
(* A script computes its calls from what it reads, then writes them as a    *)
(* batch for the admin Safe or sends them one at a time.  The Safe executes *)
(* any batch ever written, atomically, at any later time and more than once *)
(* if it is imported again; a script that sends may stop between two calls. *)
(* Anybody may execute a Timelock operation that is ready, and a canceller  *)
(* may veto it before.                                                      *)
(***************************************************************************)
EXTENDS Loops, FiniteSets

CONSTANTS
    Modes,      \* how the deployment is done, a subset of AllModes
    MaxFaults   \* bound: stops, vetoes and calls that fail or arrive late, together

AllModes == {"safe", "rehearsal", "teststack"}
ASSUME ModesAssumption == Modes \subseteq AllModes /\ Modes # {}
ASSUME FaultsAssumption == MaxFaults \in Nat

VARIABLES
    mode,       \* the scripts queue for the Safe, or the loaded signer is the admin
    deployed,   \* the contracts whose addresses are in .env
    chain,      \* [holds, owner, pending, delegate, operation, modules, exempt]
    batches,    \* every batch file ever written for the Safe
    run,        \* the process that sends calls one at a time
    late,       \* calls of pre_mainnet_roles.js that timed out and may still arrive
    gate,       \* the next contract verify_roles.js looks at; "idle" or "passed"
    hardened,   \* pre_mainnet_roles.js has reported success
    gaps,       \* a run of pre_mainnet_roles.js has failed
    faults
vars == <<mode, deployed, chain, batches, run, late, gate, hardened, gaps, faults>>

Managed == {"Staking", "FeeController", "StabilisationFund"}
Targets == Managed \cup {"SRXToken", "Treasury"}
Gated   == Targets \cup {"Timelock"}

\* The key that deployed: on the test stack it is the admin's.
Deployer == IF mode = "teststack" THEN "Safe" ELSE "Deployer"

-----------------------------------------------------------------------------
(* Calls of the admin: when one reverts, what it does, when a script takes  *)
(* it for done.                                                             *)

Grant(c, r, a)  == [fn |-> "grantRole", to |-> c, role |-> r, who |-> a]
Revoke(c, r, a) == [fn |-> "revokeRole", to |-> c, role |-> r, who |-> a]
Call(fn, to)    == [fn |-> fn, to |-> to, role |-> "none", who |-> "Timelock"]
Register(id)    == [fn |-> "registerModule", to |-> "Guardian", role |-> id, who |-> "Guardian"]

Holds(c, r, a) == <<c, r, a>> \in chain.holds

Reverts(c, call) ==
    CASE call.fn \in {"grantRole", "revokeRole"}           -> <<call.to, "DEFAULT_ADMIN", "Safe">> \notin c.holds
      [] call.fn \in {"setDelegate", "transferOwnership"}  -> c.owner # "Safe"
      [] call.fn = "schedule"       -> <<"Timelock", "PROPOSER", "Safe">> \notin c.holds \/ c.operation # "unset"
      [] call.fn = "execute"        -> c.operation # "ready" \/ c.pending # "Timelock"
      [] call.fn = "registerModule" -> <<"Guardian", "GOVERNANCE", "Safe">> \notin c.holds \/ call.role \in c.modules
      [] call.fn = "setExempt"      -> <<"SRXToken", "GOVERNANCE", "Safe">> \notin c.holds

Effect(c, call) ==
    CASE call.fn = "grantRole"         -> [c EXCEPT !.holds = @ \cup {<<call.to, call.role, call.who>>}]
      [] call.fn = "revokeRole"        -> [c EXCEPT !.holds = @ \ {<<call.to, call.role, call.who>>}]
      [] call.fn = "setDelegate"       -> [c EXCEPT !.delegate = call.who]
      [] call.fn = "transferOwnership" -> [c EXCEPT !.pending = call.who]
      [] call.fn = "schedule"          -> [c EXCEPT !.operation = "waiting"]
      [] call.fn = "execute"           -> [c EXCEPT !.operation = "done", !.owner = "Timelock", !.pending = "nobody"]
      [] call.fn = "registerModule"    -> [c EXCEPT !.modules = @ \cup {call.role}]
      [] call.fn = "setExempt"         -> [c EXCEPT !.exempt = TRUE]

\* A Safe transaction: the chain after all of the calls, or none if one reverts.
Execute(calls, c) ==
    LET after[i \in 0..Len(calls)] ==
            IF i = 0 THEN {c}
            ELSE {Effect(before, calls[i]) : before \in {b \in after[i - 1] : ~Reverts(b, calls[i])}}
    IN after[Len(calls)]

\* Mutant of Done: a vetoed operation counts as scheduled, the offer stands.
DoneForgetsVeto(call) ==
    CASE call.fn = "grantRole"  -> \/ Holds(call.to, call.role, call.who)
                                   \/ call = Grant("Timelock", "PROPOSER", "Safe") /\ chain.pending = "Timelock"
      [] call.fn = "revokeRole"        -> ~Holds(call.to, call.role, call.who)
      [] call.fn = "setDelegate"       -> chain.delegate = "Timelock"
      [] call.fn = "transferOwnership" -> "Timelock" \in {chain.pending, chain.owner}
      [] call.fn = "schedule"          -> "Timelock" \in {chain.pending, chain.owner}
      [] call.fn = "execute"           -> chain.operation = "done"

\* The done() of a step of migrate_roles.js, and the reads of the other scripts.
Done(call) ==
    CASE call.fn = "grantRole"  -> \/ Holds(call.to, call.role, call.who)
                                   \/ call = Grant("Timelock", "PROPOSER", "Safe") /\ chain.operation # "unset"
      [] call.fn = "revokeRole"        -> ~Holds(call.to, call.role, call.who)
      [] call.fn = "setDelegate"       -> chain.delegate = "Timelock"
      [] call.fn = "transferOwnership" -> "Timelock" \in {chain.pending, chain.owner}
      [] call.fn = "schedule"          -> chain.operation # "unset"
      [] call.fn = "execute"           -> chain.operation = "done"

Todo(steps) == Picked(steps, [i \in DOMAIN steps |-> ~Done(steps[i])])

-----------------------------------------------------------------------------
(* What constructors and initializers grant.                                *)

All(c, roles, a) == {<<c, r, a>> : r \in roles}
BornToken     == All("SRXToken", {"DEFAULT_ADMIN", "GOVERNANCE", "PAUSER"}, "Safe")
BornTimelock  == All("Timelock", {"DEFAULT_ADMIN"}, "Timelock") \cup All("Timelock", {"DEFAULT_ADMIN"}, "Safe")
BornManaged(c) == All(c, {"DEFAULT_ADMIN", "GOVERNANCE", "PAUSER", "UPGRADER"}, "Safe")
BornTreasury  == BornManaged("Treasury") \cup All("Treasury", {"SPENDER", "UPGRADER"}, "Timelock")
BornGuardian  == All("Guardian", {"DEFAULT_ADMIN", "GUARDIAN"}, "Safe") \cup All("Guardian", {"GOVERNANCE"}, "Timelock")
BornMigrator  == All("Migrator", {"DEFAULT_ADMIN", "GOVERNANCE"}, "Safe")

\* 02 names the governor as proposer in the constructor; the test stack grants
\* it afterwards, and the veto to the admin instead of the governor.
ProposerByName == All("Timelock", {"PROPOSER", "CANCELLER"}, "Governor")

\* deploy_tge_teststack.js, steps 1 to 8: the fee controller and the treasury
\* are left without the Timelock as their governance.
Teststack ==
    BornToken \cup BornTimelock \cup BornTreasury \cup (UNION {BornManaged(c) : c \in Managed})
    \cup {<<"Timelock", "PROPOSER", "Governor">>, <<"Timelock", "CANCELLER", "Safe">>,
          <<"Staking", "GOVERNANCE", "Timelock">>, <<"SRXToken", "BURN", "Treasury">>,
          <<"StabilisationFund", "GOVERNANCE", "Timelock">>}

\* rehearse_role_migration.js: the governed set as deployed, with no wiring.
Rehearsal ==
    BornToken \cup BornTimelock \cup ProposerByName \cup BornTreasury \cup BornGuardian
    \cup UNION {BornManaged(c) : c \in Managed}

NoRun == [script |-> "none"]

Init ==
    /\ mode \in Modes
    /\ deployed = CASE mode = "safe" -> {} [] mode = "rehearsal" -> Gated \cup {"Guardian"} [] OTHER -> Gated
    /\ chain = [holds     |-> CASE mode = "safe" -> {} [] mode = "rehearsal" -> Rehearsal [] OTHER -> Teststack,
                owner     |-> "Safe", pending |-> "nobody", delegate |-> "Safe",
                operation |-> "unset", modules |-> {}, exempt |-> FALSE]
    /\ batches = {} /\ run = NoRun /\ late = {}
    /\ gate = "idle" /\ hardened = FALSE /\ gaps = FALSE
    /\ faults = 0

-----------------------------------------------------------------------------
(* The deploy scripts.                                                      *)

\* adminTx: the calls are sent by the admin itself or queued for the Safe.
\* Sending, they are all or part of a script: one that stops at a revert
\* leaves the calls before it in place.
Submit(script, calls) ==
    IF mode = "safe"
    THEN batches' = batches \cup {calls} /\ UNCHANGED run
    ELSE run' = [script |-> script, todo |-> calls, failed |-> FALSE] /\ UNCHANGED batches

\* A script that deploys c, and what the constructor grants.
Deploy(cs, grants) ==
    /\ run = NoRun /\ cs \cap deployed = {}
    /\ deployed' = deployed \cup cs
    /\ chain' = [chain EXCEPT !.holds = @ \cup grants]
    /\ UNCHANGED <<mode, late, gate, hardened, gaps, faults>>

Deploy01 == Deploy({"SRXToken"}, BornToken) /\ UNCHANGED <<batches, run>>
Deploy02 == "SRXToken" \in deployed /\ Deploy({"Timelock"}, BornTimelock \cup ProposerByName)
            /\ UNCHANGED <<batches, run>>
Deploy04 == "SRXToken" \in deployed
            /\ Deploy({"Staking", "FeeController"}, BornManaged("Staking") \cup BornManaged("FeeController"))
            /\ UNCHANGED <<batches, run>>
Deploy05 == "Timelock" \in deployed /\ Deploy({"Treasury"}, BornTreasury)
            /\ Submit("05_treasury", <<Grant("SRXToken", "BURN", "Treasury")>>)
Deploy05b == "Timelock" \in deployed /\ Deploy({"StabilisationFund"}, BornManaged("StabilisationFund"))
             /\ Submit("05b_stabilisation", <<Grant("StabilisationFund", "GOVERNANCE", "Timelock")>>)

PausableOrder == <<"SRXToken", "Staking", "FeeController", "Treasury", "StabilisationFund">>
ModuleIds     == <<"TOKEN", "BRIDGE", "STAKING", "FEE", "TREASURY", "STABILISATION_FUND">>
RegisterAll   == [i \in DOMAIN ModuleIds |-> Register(ModuleIds[i])]

\* Mutant of GuardianWiring: the Safe stays governance of the guardian.
GuardianWiringStays ==
    [i \in DOMAIN PausableOrder |-> Grant(PausableOrder[i], "PAUSER", "Guardian")]
    \o <<Grant("Guardian", "CIRCUIT_BREAKER", "Monitor"), Grant("Guardian", "GOVERNANCE", "Safe")>>
    \o RegisterAll

\* 08: the Safe makes itself governance of the guardian for as long as it
\* registers the modules; a deployer that can pause loses it.
GuardianWiring ==
    LET revokes == [i \in DOMAIN PausableOrder |-> Revoke(PausableOrder[i], "PAUSER", Deployer)]
        able    == [i \in DOMAIN PausableOrder |-> Holds(PausableOrder[i], "PAUSER", Deployer)]
    IN  [i \in DOMAIN PausableOrder |-> Grant(PausableOrder[i], "PAUSER", "Guardian")]
        \o <<Grant("Guardian", "CIRCUIT_BREAKER", "Monitor"), Grant("Guardian", "GOVERNANCE", "Safe")>>
        \o RegisterAll
        \o <<Revoke("Guardian", "GOVERNANCE", "Safe")>>
        \o Picked(revokes, able)
Deploy08 == Targets \cup {"Timelock"} \subseteq deployed /\ Deploy({"Guardian"}, BornGuardian)
            /\ Submit("08_guardian", GuardianWiring)

\* 09: the migrator burns, is exempt from limits and is governed by the Timelock.
MigratorWiring ==
    << Grant("Migrator", "GOVERNANCE", "Timelock"), Grant("Migrator", "ORACLE", "Oracle"),
       Grant("SRXToken", "BURN", "Migrator"), Call("setExempt", "SRXToken"),
       Revoke("Migrator", "GOVERNANCE", "Safe") >>
Deploy09 == {"SRXToken", "Timelock"} \subseteq deployed /\ Deploy({"Migrator"}, BornMigrator)
            /\ Submit("09_migrator", MigratorWiring)

-----------------------------------------------------------------------------
(* migrate_roles.js.                                                        *)

\* The targets one after another.
OnTargets(Steps(_)) == Steps("SRXToken") \o Steps("Treasury") \o Steps("Staking") \o Steps("FeeController")
                       \o Steps("StabilisationFund")
RolesOf(c) == CASE c = "SRXToken" -> <<"GOVERNANCE", "PAUSER", "BURN">>
                [] c = "Treasury" -> <<"GOVERNANCE", "UPGRADER", "PAUSER", "SPENDER">>
                [] OTHER          -> <<"GOVERNANCE", "UPGRADER", "PAUSER">>
Holder == [r \in {"GOVERNANCE", "UPGRADER", "SPENDER", "PAUSER"} |-> IF r = "PAUSER" THEN "Guardian" ELSE "Timelock"]

GrantsOn(c) ==
    LET given == Picked(RolesOf(c), [i \in DOMAIN RolesOf(c) |-> RolesOf(c)[i] \in DOMAIN Holder])
    IN  <<Grant(c, "DEFAULT_ADMIN", "Timelock")>> \o [i \in DOMAIN given |-> Grant(c, given[i], Holder[given[i]])]
RevokesOn(c)   == [i \in DOMAIN RolesOf(c) |-> Revoke(c, RolesOf(c)[i], "Safe")]
RevokeAdmin(c) == <<Revoke(c, "DEFAULT_ADMIN", "Safe")>>

AllGrants  == OnTargets(GrantsOn)
AllRevokes == OnTargets(RevokesOn)

\* Mutant of Phase1: the acceptance is scheduled before anything is granted.
Phase1SchedulesFirst ==
    << Call("setDelegate", "SRXToken"), Call("transferOwnership", "SRXToken"),
       Grant("Timelock", "PROPOSER", "Safe"), Call("schedule", "Timelock") >>
    \o AllGrants
    \o << Grant("Timelock", "PROPOSER", "Governor"), Grant("Timelock", "CANCELLER", "Governor"),
          Grant("Timelock", "CANCELLER", "Safe") >>
    \o AllRevokes

\* Mutant of Phase1: the Safe gives its roles up first.
Phase1RevokesFirst ==
    AllRevokes \o AllGrants
    \o << Grant("Timelock", "PROPOSER", "Governor"), Grant("Timelock", "CANCELLER", "Governor"),
          Grant("Timelock", "CANCELLER", "Safe") >>
    \o << Call("setDelegate", "SRXToken"), Call("transferOwnership", "SRXToken"),
          Grant("Timelock", "PROPOSER", "Safe"), Call("schedule", "Timelock") >>

Phase1 ==
    AllGrants
    \o << Grant("Timelock", "PROPOSER", "Governor"), Grant("Timelock", "CANCELLER", "Governor"),
          Grant("Timelock", "CANCELLER", "Safe") >>
    \o AllRevokes
    \o << Call("setDelegate", "SRXToken"), Call("transferOwnership", "SRXToken"),
          Grant("Timelock", "PROPOSER", "Safe"), Call("schedule", "Timelock") >>

Phase2 ==
    << Call("execute", "Timelock"), Revoke("Timelock", "PROPOSER", "Safe") >>
    \o OnTargets(RevokeAdmin)
    \o << Revoke("Timelock", "DEFAULT_ADMIN", "Safe") >>

\* A run of one phase: what is not done yet is sent or written.  Phase 2
\* refuses before the acceptance is ready.
MigrateRoles(phase) ==
    LET todo == IF phase = 1 THEN Todo(Phase1) ELSE Todo(Phase2) IN
    /\ run = NoRun /\ Gated \cup {"Guardian"} \subseteq deployed
    /\ phase = 2 => chain.operation \in {"ready", "done"}
    /\ todo # <<>>
    /\ Submit("migrate_roles", todo)
    /\ UNCHANGED <<mode, deployed, chain, late, gate, hardened, gaps, faults>>

-----------------------------------------------------------------------------
(* pre_mainnet_roles.js and fix_treasury_governance_role.js: the test stack. *)

HardenOrder == <<"Staking", "FeeController", "Treasury", "StabilisationFund">>
HardenSteps ==
    [i \in DOMAIN HardenOrder |-> Grant(HardenOrder[i], "GOVERNANCE", "Timelock")]
    \o [i \in DOMAIN HardenOrder |-> Revoke(HardenOrder[i], "GOVERNANCE", Deployer)]
    \o <<Revoke("Timelock", "PROPOSER", Deployer)>>

StartHardening ==
    /\ mode = "teststack" /\ run = NoRun
    /\ run' = [script |-> "pre_mainnet_roles", todo |-> HardenSteps, failed |-> FALSE]
    /\ UNCHANGED <<mode, deployed, chain, batches, late, gate, hardened, gaps, faults>>

\* Step 4, the final verification.
Hardened ==
    /\ \A i \in DOMAIN HardenOrder : Holds(HardenOrder[i], "GOVERNANCE", "Timelock")
                                     /\ ~Holds(HardenOrder[i], "GOVERNANCE", Deployer)
    /\ ~Holds("Timelock", "PROPOSER", Deployer) /\ Holds("Timelock", "PROPOSER", "Governor")

\* One step reads the role and sends its call; one that reverts or times out is
\* caught and counted, and may have been sent all the same.
HardenStep ==
    /\ run.script = "pre_mainnet_roles" /\ run.todo # <<>>
    /\ LET call == Head(run.todo) IN
       \/ /\ (Done(call) \/ ~Reverts(chain, call))
          /\ chain' = IF Done(call) THEN chain ELSE Effect(chain, call)
          /\ run' = [run EXCEPT !.todo = Tail(@)]
          /\ UNCHANGED <<late, faults>>
       \/ /\ ~Done(call) /\ Reverts(chain, call)
          /\ run' = [run EXCEPT !.todo = Tail(@), !.failed = TRUE]
          /\ UNCHANGED <<chain, late, faults>>
       \/ /\ ~Done(call) /\ ~Reverts(chain, call) /\ faults < MaxFaults
          /\ run' = [run EXCEPT !.todo = Tail(@), !.failed = TRUE]
          /\ faults' = faults + 1
          /\ late' \in {late, late \cup {call}}
          /\ UNCHANGED chain
    /\ UNCHANGED <<mode, deployed, batches, gate, hardened, gaps>>

\* Mutant of HardenEnd: the final word does not count the calls that failed.
HardenEndReports ==
    /\ run.script = "pre_mainnet_roles" /\ run.todo = <<>>
    /\ hardened' = TRUE /\ gaps' = (gaps \/ run.failed)
    /\ run' = NoRun
    /\ UNCHANGED <<mode, deployed, chain, batches, late, gate, faults>>

HardenEnd ==
    /\ run.script = "pre_mainnet_roles" /\ run.todo = <<>>
    /\ LET ok == ~run.failed /\ Hardened IN
       hardened' = (hardened \/ ok) /\ gaps' = (gaps \/ ~ok)
    /\ run' = NoRun
    /\ UNCHANGED <<mode, deployed, chain, batches, late, gate, faults>>

\* A transaction that timed out is mined after all.
LateCall ==
    /\ \E call \in late :
          /\ chain' = IF Reverts(chain, call) THEN chain ELSE Effect(chain, call)
          /\ late' = late \ {call}
    /\ UNCHANGED <<mode, deployed, batches, run, gate, hardened, gaps, faults>>

FixTreasury ==
    /\ mode = "teststack" /\ run = NoRun
    /\ ~Holds("Treasury", "GOVERNANCE", "Timelock") /\ Holds("Treasury", "DEFAULT_ADMIN", Deployer)
    /\ chain' = Effect(chain, Grant("Treasury", "GOVERNANCE", "Timelock"))
    /\ UNCHANGED <<mode, deployed, batches, run, late, gate, hardened, gaps, faults>>

-----------------------------------------------------------------------------
(* Sending, the Safe, the Timelock.                                         *)

\* The loop of the EXECUTE mode and of adminTx: a revert ends the script.
SendCall ==
    /\ run # NoRun /\ run.script # "pre_mainnet_roles"
    /\ LET call == Head(run.todo) IN
       IF Reverts(chain, call) THEN run' = NoRun /\ UNCHANGED chain
       ELSE /\ chain' = Effect(chain, call)
            /\ run' = IF Len(run.todo) = 1 THEN NoRun ELSE [run EXCEPT !.todo = Tail(@)]
    /\ UNCHANGED <<mode, deployed, batches, late, gate, hardened, gaps, faults>>

\* The process dies.  Of the scripts that deploy, only a complete run counts.
StopRun ==
    /\ run.script \in {"migrate_roles", "pre_mainnet_roles"} /\ faults < MaxFaults
    /\ run' = NoRun
    /\ gaps' = (gaps \/ run.script = "pre_mainnet_roles")
    /\ faults' = faults + 1
    /\ UNCHANGED <<mode, deployed, chain, batches, late, gate, hardened>>

\* The Safe executes a batch; one that reverts changes nothing.
ExecuteBatch(calls) ==
    /\ calls \in batches
    /\ chain' \in Execute(calls, chain)
    /\ UNCHANGED <<mode, deployed, batches, run, late, gate, hardened, gaps, faults>>

TimelockDelay ==
    /\ chain.operation = "waiting"
    /\ chain' = [chain EXCEPT !.operation = "ready"]
    /\ UNCHANGED <<mode, deployed, batches, run, late, gate, hardened, gaps, faults>>

\* Execution is open to anyone.
ExecuteByAnyone ==
    /\ ~Reverts(chain, Call("execute", "Timelock"))
    /\ chain' = Effect(chain, Call("execute", "Timelock"))
    /\ UNCHANGED <<mode, deployed, batches, run, late, gate, hardened, gaps, faults>>

Cancel ==
    /\ chain.operation \in {"waiting", "ready"} /\ faults < MaxFaults
    /\ \E a \in {"Safe", "Governor"} : Holds("Timelock", "CANCELLER", a)
    /\ chain' = [chain EXCEPT !.operation = "unset"]
    /\ faults' = faults + 1
    /\ UNCHANGED <<mode, deployed, batches, run, late, gate, hardened, gaps>>

\* The two fast-path multisigs of the fund, by the Safe or, later, by a proposal.
GrantFundTiers ==
    /\ \E a \in {"Safe", "Timelock"} : Holds("StabilisationFund", "DEFAULT_ADMIN", a)
    /\ ~Holds("StabilisationFund", "DEPLOYER", "Treasurer")
    /\ chain' = [chain EXCEPT !.holds = @ \cup {<<"StabilisationFund", "DEPLOYER", "Treasurer">>,
                                                <<"StabilisationFund", "GUARDIAN", "GuardianMultisig">>}]
    /\ UNCHANGED <<mode, deployed, batches, run, late, gate, hardened, gaps, faults>>

-----------------------------------------------------------------------------
(* verify_roles.js, with every address of its .env stated.                  *)

NoSafe == {Deployer, "Safe"}
Row(r, must, mustNot) == [role |-> r, must |-> must, mustNot |-> mustNot]
Admins    == Row("DEFAULT_ADMIN", {"Timelock"}, NoSafe)
Governs   == Row("GOVERNANCE", {"Timelock"}, NoSafe)
Pauses    == Row("PAUSER", {"Guardian"}, NoSafe)
Upgrades  == Row("UPGRADER", {"Timelock"}, NoSafe)

Expectations ==
    [c \in Gated |->
        CASE c = "SRXToken" -> {Admins, Governs, Pauses, Row("BURN", {}, NoSafe)}
          [] c = "Timelock" -> {Admins, Row("PROPOSER", {"Governor"}, NoSafe),
                                Row("CANCELLER", {"Governor"}, {Deployer})}
          [] c = "Treasury" -> {Admins, Upgrades, Governs, Pauses, Row("SPENDER", {"Timelock"}, NoSafe)}
          [] c = "StabilisationFund" ->
                 {Admins, Upgrades, Governs, Pauses, Row("DEPLOYER", {"Treasurer"}, {Deployer}),
                  Row("GUARDIAN", {"GuardianMultisig"}, {Deployer})}
          [] OTHER -> {Admins, Upgrades, Governs, Pauses}]

RowHolds(c, row) == /\ \A a \in row.must : Holds(c, row.role, a)
                    /\ \A a \in row.mustNot : ~Holds(c, row.role, a)
BridgeAuthority == chain.owner = "Timelock" /\ chain.pending = "nobody" /\ chain.delegate = "Timelock"

\* Mutant of Checked: the gate as it was, with the Safe as administrator.
CheckedWithoutAdmin(c) ==
    IF c = "bridge" THEN BridgeAuthority ELSE \A row \in Expectations[c] \ {Admins} : RowHolds(c, row)

\* The reads of one contract, or of the bridge, taken in one step.
Checked(c) == IF c = "bridge" THEN BridgeAuthority ELSE \A row \in Expectations[c] : RowHolds(c, row)

GateOrder == <<"SRXToken", "Timelock", "Treasury", "Staking", "FeeController", "StabilisationFund", "bridge">>

\* The gate reads one contract after another, while others go on; one failure
\* and the verdict is no.
Gate ==
    /\ Gated \cup {"Guardian"} \subseteq deployed
    /\ \/ gate = "idle" /\ gate' = GateOrder[1]
       \/ \E i \in DOMAIN GateOrder :
             /\ gate = GateOrder[i]
             /\ gate' = IF ~Checked(gate) THEN "idle" ELSE IF i = Len(GateOrder) THEN "passed" ELSE GateOrder[i + 1]
    /\ UNCHANGED <<mode, deployed, chain, batches, run, late, hardened, gaps, faults>>

-----------------------------------------------------------------------------
DeployStep == Deploy01 \/ Deploy02 \/ Deploy04 \/ Deploy05 \/ Deploy05b \/ Deploy08

Next ==
    \/ DeployStep \/ Deploy09
    \/ \E phase \in {1, 2} : MigrateRoles(phase)
    \/ StartHardening \/ HardenStep \/ HardenEnd \/ LateCall \/ FixTreasury
    \/ SendCall \/ StopRun
    \/ \E calls \in batches : ExecuteBatch(calls)
    \/ TimelockDelay \/ ExecuteByAnyone \/ Cancel \/ GrantFundTiers
    \/ Gate

\* The operator runs the scripts in their order until the gate passes, a process
\* goes on, the Safe executes what it can and time passes.  Nobody need run 09,
\* the older script, or the acceptance out of turn.
Fairness ==
    /\ SF_vars(DeployStep) /\ SF_vars(MigrateRoles(1)) /\ SF_vars(MigrateRoles(2))
    /\ WF_vars(SendCall) /\ WF_vars(HardenStep) /\ WF_vars(HardenEnd)
    /\ WF_vars(\E calls \in batches : ExecuteBatch(calls))
    /\ WF_vars(TimelockDelay) /\ WF_vars(GrantFundTiers) /\ WF_vars(Gate)

Spec == Init /\ [][Next]_vars /\ Fairness

-----------------------------------------------------------------------------
(* Properties.                                                              *)

\* Every contract that is deployed can be administered, by the Safe or through
\* the Timelock, wherever a script stops and whatever batch is executed late:
\* the Safe renounces only what the Timelock has.
AlwaysAdministered ==
    /\ \A c \in deployed : \E a \in {"Safe", "Timelock"} : Holds(c, "DEFAULT_ADMIN", a)
    /\ chain.owner \in {"Safe", "Timelock"}

DelayOnly ==
    /\ \A c \in Gated : {a \in {"Safe", "Deployer", "Timelock"} : Holds(c, "DEFAULT_ADMIN", a)} = {"Timelock"}
    /\ \A c \in Targets, r \in DOMAIN Holder : ~Holds(c, r, "Safe") /\ ~Holds(c, r, "Deployer")
    /\ BridgeAuthority

\* Once the gate has passed, every change of a governed contract waits for the
\* Timelock's delay, and stays so: no batch that is still lying about, no script
\* that is still running and no step taken while the gate was reading one contract
\* after another gives the Safe or the deployer a role back.
DelayOnlyOnceGated == gate = "passed" => DelayOnly

\* On a real network the Safe is governance of the guardian only inside the one
\* transaction of 08 that registers the modules.
SafeNeverGoverns == mode = "safe" => ~Holds("Guardian", "GOVERNANCE", "Safe")

\* While roles move, each has a holder at every step: whoever is to have it at the
\* end, or the Safe still.  Only a failed run of the older script leaves a gap.
NoGap ==
    \/ gaps \/ (run.script = "pre_mainnet_roles" /\ run.failed)
    \/ \A c \in Targets \cap deployed : \A i \in DOMAIN RolesOf(c) :
          LET r == RolesOf(c)[i] IN
          r \in DOMAIN Holder => Holds(c, r, "Safe") \/ Holds(c, r, Holder[r])

\* What pre_mainnet_roles.js reports as done is so, and stays so: governance of
\* its four contracts is with the Timelock and not with the deployer.
HardenedTruthful ==
    hardened => \A i \in DOMAIN HardenOrder : /\ Holds(HardenOrder[i], "GOVERNANCE", "Timelock")
                                              /\ ~Holds(HardenOrder[i], "GOVERNANCE", Deployer)

\* The operator who runs the scripts again after every stop, revert and veto ends
\* up delay-only; the gate then passes, unless the deployer is the admin itself.
HandoverCompletes == <>[](DelayOnly /\ (gate = "passed" \/ mode = "teststack"))
=============================================================================

---------------------------- MODULE BridgeMonitor ----------------------------
(***************************************************************************)
(* scripts/ops/circuit_breaker_monitor.js: the process that polls Ethereum  *)
(* for OFTSent events and reports each one to GuardianModule, composed with *)
(* that contract (module Guardian).                                        *)
(*                                                                         *)
(* Every await of the script is a boundary between two steps, where blocks  *)
(* are mined, the guardian and governance act, a call to the node fails, or *)
(* the process dies and pm2 starts it again from the state file.            *)
(***************************************************************************)
EXTENDS Guardian, SequencesExt

CONSTANTS
    MODULE_BRIDGE,
    BLOCKS_PER_SCAN,
    Faults,         \* what may fail: "crash", "getLogs", "record", "disk"
    MaxFaults,      \* bound on the failures
    MaxBlock        \* bound on the blocks mined

ASSUME MonitorAssumption ==
    /\ MODULE_BRIDGE \in Modules
    /\ BLOCKS_PER_SCAN \in Nat \ {0}
    /\ Faults \subseteq {"crash", "getLogs", "record", "disk"}
    /\ MaxFaults \in Nat /\ MaxBlock \in Nat

VARIABLES
    chain,          \* chain[b]: SRX sent over the bridge in block b, 0 for none
    pc,             \* "idle" between polls, "scan" inside one
    latestBlock,    \* what getBlockNumber answered this poll
    from,           \* first block of the next chunk
    logs,           \* blocks whose event was fetched and not yet reported
    lastBlock,      \* state.lastBlock in memory; 0 for null, START_BLOCK being 1
    stateFile,      \* state.lastBlock on disk
    counted,        \* history: counted[b], reports of block b the breaker counted
    answered,       \* history: blocks whose report reached the contract
    dropped,        \* history: blocks whose report was given up
    faults          \* failures so far

scanVars == <<pc, latestBlock, from, logs, lastBlock, stateFile>>
historyVars == <<counted, answered, dropped, faults>>
vars == <<guardianVars, chain, scanVars, historyVars>>

Token == modules[MODULE_BRIDGE].target

\* 08_deploy_guardian.js has registered the modules and governance has
\* configured the breaker of MODULE_BRIDGE.
MonitorInit ==
    /\ now = PAUSE_COOLDOWN
    /\ \E target \in [Modules -> Targets] :
        /\ \A id \in Modules : target[id] \in TargetChoices[id]
        /\ modules = [id \in Modules |->
                [Unregistered EXCEPT !.target = target[id], !.registered = TRUE]]
    /\ \E th \in Thresholds, w \in Windows :
        circuitBreakers = [id \in Modules |->
            IF id = MODULE_BRIDGE
            THEN [NotConfigured EXCEPT !.volumeThreshold = th, !.windowDuration = w,
                                       !.windowStart = now]
            ELSE NotConfigured]
    /\ crossChainPauseIntent = [e \in Eids |-> [id \in Modules |-> FALSE]]
    /\ lastPauseAllTime = 0
    /\ effectiveSunset = MAXIMUM_SUNSET
    /\ targetPaused = [t \in Targets |-> FALSE]
    /\ pauser = Targets
    /\ chain = <<>>
    /\ pc = "idle" /\ latestBlock = 0 /\ from = 1 /\ logs = {}
    /\ lastBlock = 0 /\ stateFile = 0
    /\ counted = [b \in 1..MaxBlock |-> 0]
    /\ answered = {} /\ dropped = {}
    /\ faults = 0
-----------------------------------------------------------------------------
\* A block is mined, with a bridge transfer or without; a paused token sends
\* nothing.
MineBlock(amount) ==
    /\ Len(chain) < MaxBlock
    /\ amount # 0 => ~targetPaused[Token]
    /\ chain' = Append(chain, amount)
    /\ UNCHANGED <<guardianVars, scanVars, historyVars>>
-----------------------------------------------------------------------------
(***************************************************************************)
(* The poll loop.                                                          *)
(***************************************************************************)
\* getBlockNumber answers, and there are blocks to scan.
Poll ==
    /\ pc = "idle"
    /\ lastBlock < Len(chain)
    /\ pc' = "scan"
    /\ latestBlock' = Len(chain)
    /\ from' = lastBlock + 1
    /\ UNCHANGED <<guardianVars, chain, logs, lastBlock, stateFile, historyVars>>

\* The blocks of first..last that hold an event.
EventBlocks(first, last) == {b \in first..last : chain[b] # 0}

ChunkEnd == IF from + BLOCKS_PER_SCAN - 1 < latestBlock
            THEN from + BLOCKS_PER_SCAN - 1 ELSE latestBlock

\* Mutants of Fetch: a block falls between two chunks; two chunks share a block.
FetchGap ==
    /\ pc = "scan" /\ logs = {} /\ from <= latestBlock
    /\ logs' = EventBlocks(from, ChunkEnd)
    /\ from' = from + BLOCKS_PER_SCAN + 1
    /\ UNCHANGED <<guardianVars, chain, pc, latestBlock, lastBlock, stateFile, historyVars>>
FetchOverlap ==
    /\ pc = "scan" /\ logs = {} /\ from <= latestBlock
    /\ logs' = EventBlocks(from, IF ChunkEnd < latestBlock THEN ChunkEnd + 1 ELSE latestBlock)
    /\ from' = from + BLOCKS_PER_SCAN
    /\ UNCHANGED <<guardianVars, chain, pc, latestBlock, lastBlock, stateFile, historyVars>>

\* getLogs of the next chunk answers.
Fetch ==
    /\ pc = "scan" /\ logs = {} /\ from <= latestBlock
    /\ logs' = EventBlocks(from, ChunkEnd)
    /\ from' = from + BLOCKS_PER_SCAN
    /\ UNCHANGED <<guardianVars, chain, pc, latestBlock, lastBlock, stateFile, historyVars>>

\* recordBridgeActivity for the next log: mined, or refused by the contract
\* (breaker already tripped, or the trip cannot pause its target); a refusal is
\* caught and the scan goes on.
Report ==
    /\ pc = "scan" /\ logs # {}
    /\ LET b == Min(logs) IN
        /\ \/ /\ RecordBridgeActivity(MODULE_BRIDGE, chain[b])
              /\ counted' = [counted EXCEPT ![b] = @ + 1]
           \/ /\ ~ENABLED RecordBridgeActivity(MODULE_BRIDGE, chain[b])
              /\ UNCHANGED <<guardianVars, counted>>
        /\ answered' = answered \cup {b}
        /\ logs' = logs \ {b}
    /\ UNCHANGED <<chain, pc, latestBlock, from, lastBlock, stateFile, dropped, faults>>

\* Mutant of Save: the height is read again, past what was scanned.
SaveHead ==
    /\ pc = "scan" /\ logs = {} /\ from > latestBlock
    /\ lastBlock' = Len(chain) /\ stateFile' = Len(chain)
    /\ pc' = "idle"
    /\ UNCHANGED <<guardianVars, chain, latestBlock, from, logs, historyVars>>

\* Every chunk is scanned: only now is the progress recorded.
Save ==
    /\ pc = "scan" /\ logs = {} /\ from > latestBlock
    /\ lastBlock' = latestBlock /\ stateFile' = latestBlock
    /\ pc' = "idle"
    /\ UNCHANGED <<guardianVars, chain, latestBlock, from, logs, historyVars>>
-----------------------------------------------------------------------------
(***************************************************************************)
(* Failures.                                                               *)
(***************************************************************************)
Fails(f) == f \in Faults /\ faults < MaxFaults /\ faults' = faults + 1

\* saveState catches the write error: memory goes on, the file does not.
SaveFails ==
    /\ Fails("disk")
    /\ pc = "scan" /\ logs = {} /\ from > latestBlock
    /\ lastBlock' = latestBlock
    /\ pc' = "idle"
    /\ UNCHANGED <<guardianVars, chain, latestBlock, from, logs, stateFile, counted, answered,
                   dropped>>

\* getLogs throws: the poll ends with lastBlock where it was.
FetchFails ==
    /\ Fails("getLogs")
    /\ pc = "scan" /\ logs = {} /\ from <= latestBlock
    /\ pc' = "idle"
    /\ UNCHANGED <<guardianVars, chain, latestBlock, from, logs, lastBlock, stateFile,
                   counted, answered, dropped>>

\* The transaction never reaches the contract; the error is logged only.
ReportFails ==
    /\ Fails("record")
    /\ pc = "scan" /\ logs # {}
    /\ logs' = logs \ {Min(logs)}
    /\ dropped' = dropped \cup {Min(logs)}
    /\ UNCHANGED <<guardianVars, chain, pc, latestBlock, from, lastBlock, stateFile,
                   counted, answered>>

\* The process dies and is started again.
Restart ==
    /\ Fails("crash")
    /\ pc' = "idle" /\ logs' = {}
    /\ lastBlock' = stateFile
    /\ UNCHANGED <<guardianVars, chain, latestBlock, from, stateFile, counted, answered,
                   dropped>>
-----------------------------------------------------------------------------
\* What the guardian, governance and the clock do meanwhile.  The breaker stays
\* as configured, the modules as registered.
GuardianStep ==
    /\ \/ GuardianActs
       \/ EmergencyUnpauseAll
       \/ \E id \in Modules : GovernanceUnpause(id) \/ ResetCircuitBreaker(id)
       \/ Tick
    /\ UNCHANGED <<chain, scanVars, historyVars>>

MonitorStep == Poll \/ Fetch \/ Report \/ Save

MonitorNext ==
    \/ \E amount \in Amounts \cup {0} : MineBlock(amount)
    \/ MonitorStep
    \/ SaveFails \/ FetchFails \/ ReportFails \/ Restart
    \/ GuardianStep

MonitorSpec == MonitorInit /\ [][MonitorNext]_vars

\* pm2 keeps the process running and the node answers in the end.
MonitorFairSpec == MonitorSpec /\ WF_vars(MonitorStep)
-----------------------------------------------------------------------------
(***************************************************************************)
(* Properties.                                                             *)
(***************************************************************************)
\* A transfer in a block that the recorded progress has passed was put to the
\* contract, or its report failed and was given up: no crash, failing query or
\* failing write lets one slip through.
NeverSkips == \A b \in 1..lastBlock : chain[b] # 0 => b \in answered \cup dropped

\* A transfer is counted once, and at most once more for each failure: "restarts
\* never double-count" in the monitor's header does not hold of a crash between a
\* report and the save.
RecountsBounded == \A b \in 1..MaxBlock : counted[b] <= 1 + faults

\* The transfers so far, together, reach the threshold.
Flooded ==
    FoldSeq(LAMBDA x, y : x + y, 0, chain) >= circuitBreakers[MODULE_BRIDGE].volumeThreshold

\* End to end: transfers inside one window that reach the threshold trip the
\* breaker, whatever crashed or failed to answer in between, unless a report
\* was given up.
FloodTrips ==
    (<>Flooded /\ []( /\ dropped = {}
                      /\ now < circuitBreakers[MODULE_BRIDGE].windowStart
                               + circuitBreakers[MODULE_BRIDGE].windowDuration))
        => <>circuitBreakers[MODULE_BRIDGE].tripped
=============================================================================

------------------------------ MODULE Guardian ------------------------------
(***************************************************************************)
(* GuardianModule: the guardian multisig pauses protocol contracts until an *)
(* immutable sunset, governance overrides it, and a circuit breaker fed by  *)
(* an off-chain monitor pauses the bridge by itself.                        *)
(*                                                                         *)
(* A module id names a target contract.  The target keeps its own paused    *)
(* flag (OpenZeppelin Pausable: pause() reverts when paused, unpause() when *)
(* not) and refuses callers without PAUSER_ROLE, which the admin Safe holds *)
(* too; the module's local flag only follows the calls made through this    *)
(* contract.  Several ids may name one target: 08_deploy_guardian.js        *)
(* registers TOKEN and BRIDGE both with SRXToken.                          *)
(***************************************************************************)
EXTENDS Integers, FiniteSets, Sequences

CONSTANTS
    Order,              \* the module ids, in the order the batch calls visit them
    Targets,            \* pausable contracts
    TargetChoices,      \* TargetChoices[id]: targets governance registers for id
    DirectAdmin,        \* whether the admin Safe pauses targets by itself
    Retargets,          \* whether governance moves a module to another target
    Revocable,          \* targets whose admin takes PAUSER_ROLE from this contract and gives it back
    Opaque,             \* targets without a paused() view
    Eids,               \* remote chains for pause signals
    PAUSE_COOLDOWN, PAUSE_ALL_COOLDOWN,
    MAXIMUM_SUNSET,
    Thresholds, Windows,  \* circuit breaker settings governance chooses from
    Amounts,            \* volumes reported to the breaker
    MaxTime             \* bound on the clock

Modules == {Order[i] : i \in 1..Len(Order)}

ASSUME OrderAssumption ==
    /\ Len(Order) \in Nat
    /\ \A i, j \in 1..Len(Order) : Order[i] = Order[j] => i = j
ASSUME ChoiceAssumption ==
    /\ TargetChoices \in [Modules -> SUBSET Targets]
    /\ DirectAdmin \in BOOLEAN /\ Retargets \in BOOLEAN
    /\ Revocable \subseteq Targets /\ Opaque \subseteq Targets
ASSUME TimeAssumption ==
    /\ PAUSE_COOLDOWN \in Nat \ {0} /\ PAUSE_ALL_COOLDOWN \in Nat \ {0}
    /\ PAUSE_ALL_COOLDOWN <= PAUSE_COOLDOWN
    /\ MAXIMUM_SUNSET \in Nat /\ MaxTime \in Nat
ASSUME BreakerAssumption ==
    /\ Thresholds \subseteq Nat \ {0} /\ Windows \subseteq Nat \ {0}
    /\ Amounts \subseteq Nat

VARIABLES
    now,                \* block.timestamp
    modules,            \* modules[id]: ModuleConfig
    circuitBreakers,    \* circuitBreakers[id]: CircuitBreaker
    crossChainPauseIntent,
    lastPauseAllTime,
    effectiveSunset,
    targetPaused,       \* paused() of each target
    pauser              \* targets on which this contract holds PAUSER_ROLE

guardianVars == <<now, modules, circuitBreakers, crossChainPauseIntent, lastPauseAllTime,
                  effectiveSunset, targetPaused, pauser>>

NoTarget == "none"
Unregistered == [target |-> NoTarget, registered |-> FALSE, paused |-> FALSE, lastPauseTime |-> 0]
NotConfigured == [volumeThreshold |-> 0, windowDuration |-> 0, windowStart |-> 0,
                  volumeInWindow |-> 0, tripped |-> FALSE]

\* The clock starts past every cooldown counted from zero, as a real one does.
\* 08_deploy_guardian.js grants PAUSER_ROLE before it registers the modules.
Init ==
    /\ now = PAUSE_COOLDOWN
    /\ modules = [id \in Modules |-> Unregistered]
    /\ circuitBreakers = [id \in Modules |-> NotConfigured]
    /\ crossChainPauseIntent = [e \in Eids |-> [id \in Modules |-> FALSE]]
    /\ lastPauseAllTime = 0
    /\ effectiveSunset = MAXIMUM_SUNSET
    /\ targetPaused = [t \in Targets |-> FALSE]
    /\ pauser = Targets

notExpired == now < effectiveSunset
Registered == {id \in Modules : modules[id].registered}
-----------------------------------------------------------------------------
(***************************************************************************)
(* Registration (governance).                                              *)
(***************************************************************************)
RegisterModule(id, t) ==
    /\ id \notin Registered
    /\ modules' = [modules EXCEPT ![id] = [Unregistered EXCEPT !.target = t, !.registered = TRUE]]
    /\ UNCHANGED <<now, circuitBreakers, crossChainPauseIntent, lastPauseAllTime,
                   effectiveSunset, targetPaused, pauser>>

\* The local flag stays what it was for the old target.
UpdateModuleTarget(id, t) ==
    /\ Retargets
    /\ id \in Registered
    /\ modules' = [modules EXCEPT ![id].target = t]
    /\ UNCHANGED <<now, circuitBreakers, crossChainPauseIntent, lastPauseAllTime,
                   effectiveSunset, targetPaused, pauser>>
-----------------------------------------------------------------------------
(***************************************************************************)
(* Guardian actions.                                                       *)
(***************************************************************************)
\* pause() and unpause() of a target, by a caller that may.
TargetPause(t) ==
    /\ ~targetPaused[t]
    /\ targetPaused' = [targetPaused EXCEPT ![t] = TRUE]

TargetUnpause(t) ==
    /\ targetPaused[t]
    /\ targetPaused' = [targetPaused EXCEPT ![t] = FALSE]

\* _callPause and _callUnpause: the call reverts when the target does.
CallPause(t)   == t \in pauser /\ TargetPause(t)
CallUnpause(t) == t \in pauser /\ TargetUnpause(t)

PauseModule(id) ==
    /\ notExpired
    /\ id \in Registered
    /\ ~modules[id].paused
    /\ now >= modules[id].lastPauseTime + PAUSE_COOLDOWN
    /\ modules' = [modules EXCEPT ![id].paused = TRUE, ![id].lastPauseTime = now]
    /\ CallPause(modules[id].target)
    /\ UNCHANGED <<now, circuitBreakers, crossChainPauseIntent, lastPauseAllTime,
                   effectiveSunset, pauser>>

UnpauseModule(id) ==
    /\ notExpired
    /\ id \in Registered
    /\ modules[id].paused
    /\ ~circuitBreakers[id].tripped
    /\ modules' = [modules EXCEPT ![id].paused = FALSE]
    /\ CallUnpause(modules[id].target)
    /\ UNCHANGED <<now, circuitBreakers, crossChainPauseIntent, lastPauseAllTime,
                   effectiveSunset, pauser>>

\* The configuration m flagged p, with the time of a pause.
Flagged(m, p) == [m EXCEPT !.paused = p, !.lastPauseTime = IF p THEN now ELSE @]

\* Mutants of Try: the flag of a refusing target is not reconciled; a module is
\* flagged whether its target accepted or not.
TryUnreconciled(p, b, id) ==
    LET m == b.modules[id] IN
    IF m.registered /\ m.paused # p /\ m.target \in pauser /\ b.targetPaused[m.target] # p
    THEN [modules      |-> [b.modules EXCEPT ![id] = Flagged(m, p)],
          targetPaused |-> [b.targetPaused EXCEPT ![m.target] = p]]
    ELSE b
TryOptimistic(p, b, id) ==
    LET m == b.modules[id] IN
    IF ~m.registered \/ m.paused = p THEN b
    ELSE [modules      |-> [b.modules EXCEPT ![id] = Flagged(m, p)],
          targetPaused |-> IF m.target \in pauser THEN [b.targetPaused EXCEPT ![m.target] = p]
                           ELSE b.targetPaused]

\* What a batch call to pause (p) or to unpause makes of module id: a module whose
\* flag is p already is skipped; a target that accepts goes to p with its flag;
\* the flag of one that refuses is read back from paused(), if it has one.
Try(p, b, id) ==
    LET m == b.modules[id]
        accepts == m.target \in pauser /\ b.targetPaused[m.target] # p
    IN
    IF ~m.registered \/ m.paused = p THEN b
    ELSE IF accepts
    THEN [modules      |-> [b.modules EXCEPT ![id] = Flagged(m, p)],
          targetPaused |-> [b.targetPaused EXCEPT ![m.target] = p]]
    ELSE IF m.target \in Opaque THEN b
    ELSE [modules      |-> [b.modules EXCEPT ![id] = [m EXCEPT !.paused = b.targetPaused[m.target]]],
          targetPaused |-> b.targetPaused]

\* Mutant of Batch: one refusing target ends the loop (R7-02).
BatchBreaks(p) ==
    LET refuses(b, id) == b.modules[id].registered /\ b.modules[id].paused # p /\
                          ~(b.modules[id].target \in pauser /\ b.targetPaused[b.modules[id].target] # p)
        loop[i \in 0..Len(Order)] ==
            IF i = 0 THEN [modules |-> modules, targetPaused |-> targetPaused]
            ELSE IF \E j \in 1..i : refuses(loop[j - 1], Order[j]) THEN loop[i - 1]
            ELSE Try(p, loop[i - 1], Order[i])
    IN loop[Len(Order)]

\* The loop of pauseAll (p) and of emergencyUnpauseAll over the module ids.
Batch(p) ==
    LET loop[i \in 0..Len(Order)] ==
            IF i = 0 THEN [modules |-> modules, targetPaused |-> targetPaused]
            ELSE Try(p, loop[i - 1], Order[i])
    IN loop[Len(Order)]

PauseAll ==
    /\ notExpired
    /\ now >= lastPauseAllTime + PAUSE_ALL_COOLDOWN
    /\ lastPauseAllTime' = now
    /\ modules' = Batch(TRUE).modules
    /\ targetPaused' = Batch(TRUE).targetPaused
    /\ UNCHANGED <<now, circuitBreakers, crossChainPauseIntent, effectiveSunset, pauser>>

SignalCrossChainPause(e, id, pause) ==
    /\ notExpired
    /\ crossChainPauseIntent' = [crossChainPauseIntent EXCEPT ![e][id] = pause]
    /\ UNCHANGED <<now, modules, circuitBreakers, lastPauseAllTime, effectiveSunset,
                   targetPaused, pauser>>
-----------------------------------------------------------------------------
(***************************************************************************)
(* Governance overrides.                                                   *)
(***************************************************************************)
GovernanceUnpause(id) ==
    /\ id \in Registered
    /\ modules[id].paused
    /\ modules' = [modules EXCEPT ![id].paused = FALSE]
    /\ CallUnpause(modules[id].target)
    /\ UNCHANGED <<now, circuitBreakers, crossChainPauseIntent, lastPauseAllTime, effectiveSunset, pauser>>

EmergencyUnpauseAll ==
    /\ modules' = Batch(FALSE).modules
    /\ targetPaused' = Batch(FALSE).targetPaused
    /\ UNCHANGED <<now, circuitBreakers, crossChainPauseIntent, lastPauseAllTime, effectiveSunset,
                   pauser>>

ReduceSunset(newSunset) ==
    /\ newSunset < effectiveSunset
    /\ newSunset > now
    /\ effectiveSunset' = newSunset
    /\ UNCHANGED <<now, modules, circuitBreakers, crossChainPauseIntent, lastPauseAllTime,
                   targetPaused, pauser>>
-----------------------------------------------------------------------------
(***************************************************************************)
(* Circuit breaker.                                                        *)
(***************************************************************************)
ConfigureCircuitBreaker(id, threshold, window) ==
    /\ id \in Registered
    /\ circuitBreakers' = [circuitBreakers EXCEPT ![id] =
            [volumeThreshold |-> threshold, windowDuration |-> window, windowStart |-> now,
             volumeInWindow |-> 0, tripped |-> FALSE]]
    /\ UNCHANGED <<now, modules, crossChainPauseIntent, lastPauseAllTime, effectiveSunset,
                   targetPaused, pauser>>

\* The breaker after an expired window is rolled: a trip belongs to its window.
Rolled(cb) ==
    IF now >= cb.windowStart + cb.windowDuration
    THEN [cb EXCEPT !.windowStart = now, !.volumeInWindow = 0, !.tripped = FALSE]
    ELSE cb

\* The breaker with the volume added.
Recorded(cb, amount) ==
    [cb EXCEPT !.volumeInWindow = @ + amount,
               !.tripped = cb.volumeInWindow + amount >= cb.volumeThreshold]

\* A trip pauses the module through the strict call, unless its flag is set.
TripPause(id) ==
    IF modules[id].paused
    THEN UNCHANGED <<modules, targetPaused>>
    ELSE /\ modules' = [modules EXCEPT ![id].paused = TRUE, ![id].lastPauseTime = now]
         /\ CallPause(modules[id].target)

RecordBridgeActivity(id, amount) ==
    LET rolled == Rolled(circuitBreakers[id])
        cb == Recorded(rolled, amount)
    IN
    /\ id \in Registered
    /\ circuitBreakers[id].volumeThreshold # 0
    /\ ~rolled.tripped
    /\ circuitBreakers' = [circuitBreakers EXCEPT ![id] = cb]
    /\ IF cb.tripped
       THEN TripPause(id)
       ELSE UNCHANGED <<modules, targetPaused>>
    /\ UNCHANGED <<now, crossChainPauseIntent, lastPauseAllTime, effectiveSunset, pauser>>

ResetCircuitBreaker(id) ==
    /\ id \in Registered
    /\ circuitBreakers[id].tripped
    /\ circuitBreakers' = [circuitBreakers EXCEPT ![id].tripped = FALSE,
                                                  ![id].volumeInWindow = 0,
                                                  ![id].windowStart = now]
    /\ UNCHANGED <<now, modules, crossChainPauseIntent, lastPauseAllTime, effectiveSunset,
                   targetPaused, pauser>>
-----------------------------------------------------------------------------
\* The admin Safe on the target itself: this contract is not told.
DirectPause(t) ==
    /\ DirectAdmin
    /\ TargetPause(t)
    /\ UNCHANGED <<now, modules, circuitBreakers, crossChainPauseIntent, lastPauseAllTime,
                   effectiveSunset, pauser>>

DirectUnpause(t) ==
    /\ DirectAdmin
    /\ TargetUnpause(t)
    /\ UNCHANGED <<now, modules, circuitBreakers, crossChainPauseIntent, lastPauseAllTime,
                   effectiveSunset, pauser>>

\* The admin of a target on this contract's role there: registerModule does not
\* look at the role, and keeps no record of it.
RevokePauser(t) ==
    /\ t \in Revocable /\ t \in pauser
    /\ pauser' = pauser \ {t}
    /\ UNCHANGED <<now, modules, circuitBreakers, crossChainPauseIntent, lastPauseAllTime,
                   effectiveSunset, targetPaused>>

GrantPauser(t) ==
    /\ t \in Revocable /\ t \notin pauser
    /\ pauser' = pauser \cup {t}
    /\ UNCHANGED <<now, modules, circuitBreakers, crossChainPauseIntent, lastPauseAllTime,
                   effectiveSunset, targetPaused>>

Tick ==
    /\ now < MaxTime
    /\ now' = now + 1
    /\ UNCHANGED <<modules, circuitBreakers, crossChainPauseIntent, lastPauseAllTime,
                   effectiveSunset, targetPaused, pauser>>

GuardianActs ==
    \/ PauseAll
    \/ \E id \in Modules : PauseModule(id) \/ UnpauseModule(id)
    \/ \E e \in Eids, id \in Modules, pause \in BOOLEAN : SignalCrossChainPause(e, id, pause)

GovernanceActs ==
    \/ EmergencyUnpauseAll
    \/ \E newSunset \in 0..MAXIMUM_SUNSET : ReduceSunset(newSunset)
    \/ \E id \in Modules :
        \/ \E t \in TargetChoices[id] : RegisterModule(id, t) \/ UpdateModuleTarget(id, t)
        \/ GovernanceUnpause(id) \/ ResetCircuitBreaker(id)
        \/ \E th \in Thresholds, w \in Windows : ConfigureCircuitBreaker(id, th, w)

MonitorActs == \E id \in Modules, amount \in Amounts : RecordBridgeActivity(id, amount)

AdminActs == \E t \in Targets : \/ DirectPause(t) \/ DirectUnpause(t)
                                \/ RevokePauser(t) \/ GrantPauser(t)

Next == GuardianActs \/ GovernanceActs \/ MonitorActs \/ AdminActs \/ Tick

Spec == Init /\ [][Next]_guardianVars
-----------------------------------------------------------------------------
(***************************************************************************)
(* Properties.                                                             *)
(***************************************************************************)
\* R7-02, "one module failing must not revert the whole emergency stop": after
\* pauseAll the target of every module is paused, whichever of the others refused,
\* shared or already paused by the admin Safe - unless this contract has lost
\* PAUSER_ROLE on it, or the module's flag was set before, which pauseAll trusts.
StopReachesAll ==
    [][ PauseAll => \A id \in Registered :
            \/ targetPaused'[modules[id].target]
            \/ modules[id].paused
            \/ modules[id].target \notin pauser ]_guardianVars

\* "Local state converges on reality after a desync": a module that a batch call
\* visits ends with its flag at its target's own state, whether the target
\* accepted, refused, or was changed on behalf of another module of the batch.
BatchesReconcile ==
    [][ \A id \in Registered :
            /\ modules[id].target \notin Opaque
            /\ IF modules[id].paused THEN EmergencyUnpauseAll ELSE PauseAll
            => modules'[id].paused = targetPaused'[modules[id].target] ]_guardianVars

\* The flag of id is the state of its target.
Agrees(id) == modules[id].paused = targetPaused[modules[id].target]

\* The flag of id goes stale behind its back: its target is replaced, or paused or
\* unpaused by the admin Safe or for another module that shares it - by a batch
\* call only if paused() cannot be read.
Bypassed(id) ==
    LET t == modules[id].target IN
    \/ modules'[id].target # t
    \/ DirectPause(t) \/ DirectUnpause(t)
    \/ /\ t \in Opaque \/ ~(PauseAll \/ EmergencyUnpauseAll)
       /\ \E other \in Registered \ {id} :
            modules[other].target = t /\ modules'[other].paused # modules[other].paused

\* Flags follow targets: a call that moves a flag leaves it at the state of the
\* target ("state is only marked paused on an actual successful transition"), and
\* a flag that was right goes wrong only as Bypassed says.
FlagsFollowTargets ==
    [][ \A id \in Registered :
            /\ modules'[id].paused # modules[id].paused => Agrees(id)'
            /\ Agrees(id) /\ ~Agrees(id)' => Bypassed(id) ]_guardianVars

\* recordBridgeActivity, "the circuit breaker trips automatically: the module
\* is paused via the guardian mechanism": a step that trips a breaker leaves
\* the target of its module paused.
TripStopsTarget ==
    [][ \A id \in Modules :
          (~circuitBreakers[id].tripped /\ circuitBreakers'[id].tripped) =>
              targetPaused'[modules[id].target] ]_guardianVars

=============================================================================

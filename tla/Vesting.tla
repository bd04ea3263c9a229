------------------------------- MODULE Vesting -------------------------------
(***************************************************************************)
(* VestingVault: one beneficiary's grant, released linearly after a cliff   *)
(* that starts when the admin triggers the TGE.  The operators below give   *)
(* the guard of each call and the vault it leaves; the modules that own     *)
(* vaults make the transfers.  `held' is the vault's token balance.         *)
(***************************************************************************)
EXTENDS Integers

CONSTANTS
    CLIFF_DURATION,     \* seconds from TGE before anything vests linearly
    VESTING_DURATION,   \* seconds of linear vesting after the cliff
    TGE_UNLOCK_BPS,     \* share released at TGE
    BPS_DENOMINATOR

ASSUME VestingAssumption ==
    /\ CLIFF_DURATION \in Nat /\ VESTING_DURATION \in Nat
    /\ BPS_DENOMINATOR \in Nat \ {0}
    /\ TGE_UNLOCK_BPS \in 0..BPS_DENOMINATOR

\* A vault that holds n tokens and whose allocation was declared to be d (0: not declared).
NewVault(n, d) ==
    [held |-> n, expectedAllocation |-> d, initialAllocation |-> 0,
     tgeTriggered |-> FALSE, tgeTimestamp |-> 0, released |-> 0, revoked |-> FALSE]

\* Mutant of TotalAllocation: what was released is counted twice (V1).
AllocationPlusReleased(v) == IF v.tgeTriggered THEN v.initialAllocation + v.released
                             ELSE v.held + v.released

\* Before TGE the balance, afterwards the snapshot.
TotalAllocation(v) == IF v.tgeTriggered THEN v.initialAllocation ELSE v.held + v.released

\* What an allocation vests in the given time since TGE.
Schedule(total, elapsed) ==
    LET tgeAmount == (total * TGE_UNLOCK_BPS) \div BPS_DENOMINATOR
        remaining == total - tgeAmount
        linear    == elapsed - CLIFF_DURATION
    IN  CASE linear < 0                                            -> tgeAmount
          [] linear >= 0 /\ linear >= VESTING_DURATION             -> tgeAmount + remaining
          [] linear >= 0 /\ linear < VESTING_DURATION              ->
                 tgeAmount + (remaining * linear) \div VESTING_DURATION

VestedAmount(v, now) ==
    IF ~v.tgeTriggered \/ v.revoked THEN 0
    ELSE Schedule(TotalAllocation(v), now - v.tgeTimestamp)

Releasable(v, now) ==
    IF VestedAmount(v, now) <= v.released THEN 0 ELSE VestedAmount(v, now) - v.released

\* triggerTGE: a declared allocation is the grant, otherwise the balance is.
CanTriggerTGE(v) == ~v.tgeTriggered /\ v.held > 0 /\ v.held >= v.expectedAllocation
TriggeredTGE(v, now) ==
    [v EXCEPT !.tgeTriggered = TRUE, !.tgeTimestamp = now,
              !.initialAllocation = IF v.expectedAllocation # 0 THEN v.expectedAllocation ELSE v.held]

\* release
CanRelease(v, now) == v.tgeTriggered /\ ~v.revoked /\ Releasable(v, now) \in 1..v.held
Released(v, now) == [v EXCEPT !.released = v.released + Releasable(v, now),
                              !.held = v.held - Releasable(v, now)]

\* revoke: what is vested goes to the beneficiary, the rest of the allocation
\* to the recipient; donations stay.
Outstanding(v) == IF v.initialAllocation > v.released THEN v.initialAllocation - v.released ELSE 0
Unvested(v, now) == IF Outstanding(v) > Releasable(v, now) THEN Outstanding(v) - Releasable(v, now) ELSE 0
CanRevoke(v, now) ==
    v.tgeTriggered /\ ~v.revoked /\ Releasable(v, now) + Unvested(v, now) <= v.held
Revoked(v, now) ==
    [v EXCEPT !.revoked = TRUE, !.released = v.released + Releasable(v, now),
              !.held = v.held - Releasable(v, now) - Unvested(v, now)]

\* rescueDonatedTokens: the surplus over a declared allocation after TGE, or
\* everything once revoked; before TGE nothing.
Surplus(v) ==
    IF v.revoked THEN v.held
    ELSE IF v.expectedAllocation # 0 /\ v.tgeTriggered /\ v.held > Outstanding(v)
         THEN v.held - Outstanding(v) ELSE 0
Rescued(v) == [v EXCEPT !.held = v.held - Surplus(v)]
=============================================================================

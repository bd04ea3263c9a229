\* Two contributors, a seed, one event after another.
SPECIFICATION Spec
CONSTANTS
    alice = alice bob = bob pool = pool
    Users = {alice, bob}
    PRECISION = 3
    Targets = {pool}
    BPS_DENOMINATOR = 10
    DeployerShares = {5}
    GuardianShares = {5, 10}
    Cooldowns = {1}
    Locks = {1}
    Pausing = TRUE
    Contributions = {2}
    Fundings = {4}
    Rates = {2}
    Deployments = {2}
    Fees = {4}
    MaxContribution = 2
    MaxReceived = 4
    MaxTime = 3
SYMMETRY UserSymmetry
INVARIANTS EmissionFunded CapsHold
PROPERTIES EarnedKept OnlyGovernanceUncovers

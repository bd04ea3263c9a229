\* One stream or the other: short and long locks, positions that grow and are locked
\* again, pauses, an emission minimum, rescues.
SPECIFICATION Spec
CONSTANTS
    alice = alice bob = bob
    Users = {alice, bob}
    PRECISION = 1
    Durations = {1, 2}
    Multiplier <- ShortAndLong
    MULTIPLIER_BASE = 100
    Amounts = {1}
    Fundings = {120}
    BonusFundings = {120}
    Rates = {120}
    BonusRates = {120}
    MinStakes = {1}
    MinTotals = {2}
    Pausing = TRUE
    Halting = {"SRX", "bonus"}
    BothStreams = FALSE
    MaxStake = 2
    MaxFunded = 120
    MaxTime = 3
SYMMETRY UserSymmetry
INVARIANTS Backed EmissionFunded ExitAvailable
PROPERTIES SRXKeptOtherwise BonusKept WeightNeedsLock

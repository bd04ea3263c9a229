\* Both streams, one funding each.
SPECIFICATION Spec
CONSTANTS
    alice = alice bob = bob
    Users = {alice, bob}
    PRECISION = 1
    Durations = {1, 2}
    Multiplier <- ShortAndLong
    MULTIPLIER_BASE = 100
    Amounts = {1}
    Fundings = {120}
    BonusFundings = {120}
    Rates = {120}
    BonusRates = {120}
    MinStakes = {1}
    MinTotals = {}
    Pausing = FALSE
    Halting = {}
    BothStreams = TRUE
    MaxStake = 1
    MaxFunded = 120
    MaxTime = 4
SYMMETRY UserSymmetry
PROPERTY SRXKept

\* Two buyers, a correction inside a tier jump, top-ups that the price of ETH separates,
\* and pages of vaults deployed and triggered at different times.
SPECIFICATION Spec
CONSTANTS
    alice = alice bob = bob eth = eth usdt = usdt
    Wallets = {alice, bob}
    NoVault = NoVault
    Assets = {eth, usdt}
    NATIVE = eth
    Prices <- MCPrices
    TierMins <- MCTierMins
    TierBonus <- MCTierBonus
    SRX_UNIT = 40
    BPS_DENOMINATOR = 100
    SRXPrices = {1, 2}
    HardCaps = {100}
    Caps = {0, 3}
    MinContributions = {0}
    Payments = {1}
    Corrections = {95}
    Donations = {2}
    SRXFunding = 50
    MaxPaid = 1
    MaxTime = 2
    CLIFF_DURATION = 1
    VESTING_DURATION = 2
    TGE_UNLOCK_BPS = 0
SYMMETRY UserSymmetry
INVARIANTS RefundsCovered AllocationEarned PaymentHonoured InvestorsListed GrantKept

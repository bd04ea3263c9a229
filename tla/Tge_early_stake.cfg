\* As Tge_launch, but users may stake before the incentive pool is registered.
SPECIFICATION Spec
CONSTANTS
    founders = founders presale = presale impostor = impostor multisig = multisig
    eoa = eoa fund = fund staking = staking tge = tge
    Plan <- MCPlan
    Address <- MCAddress
    Contracts <- MCContracts
    Vaults <- MCVaults
    Distributor = tge
    StakingPool = staking
    TestnetWallet = eoa
    Unset = Unset
    NoManifest = NoManifest
    EnvFiles <- MCEnvFiles
    Manifests <- MCManifests
    EarlyStake = TRUE
    MaxFaults = 1
    MaxEdits = 1
    MaxDonations = 1
PROPERTIES TgeCompletes
\* A launch whose .env the gate refuses stops once the edits are used up.
CHECK_DEADLOCK FALSE
